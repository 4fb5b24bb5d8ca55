SPECIFICATION IPDBSpec
CONSTANTS
    Mod = 16
    NilDuid = NilDuid
    Duid = {NilDuid, d1, d2}
    nil = nil
    MaxTime = 2
    Network = 10
    HostSize = 8
    Octet = 4
    TTL = {0, 1}
    InputIP = {0, 9, 12}
INVARIANTS
    IPDBTypeOK
    LiveIndexed
    NoDoubleLease
    OfferRecordable
PROPERTIES
    PermanentForever
    ImplementsLeaseDB
    SearchEnds

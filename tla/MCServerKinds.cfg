SPECIFICATION ServerSafety
SYMMETRY Symmetry
VIEW View
CONSTANTS
    Mod = 16
    NilDuid = NilDuid
    Duid = {NilDuid, d0, d1, d2, c1, c2, junk}
    nil = nil
    MaxTime = 2
    Network = 10
    HostSize = 8
    Octet = 4
    TTL = {}
    InputIP = {}
    h0 = h0
    h1 = h1
    h2 = h2
    d0 = d0
    d1 = d1
    d2 = d2
    c1 = c1
    c2 = c2
    Hw = {h0, h1, h2}
    hwDuid <- MCHwDuid
    SelfHw = h0
    SelfIP = 13
    Config <- AnyConfig
    Handler = {g1}
    Packet <- AnyPacket
    Garbage = junk
    Noise = FALSE
    OfferTime = 0
    LeaseTime = 1
CHECK_DEADLOCK FALSE
INVARIANTS
    NoDoublePromise
    PromiseKept
    ReplyAllowed
    StartedConsistent

SPECIFICATION MCSystemSafety
VIEW View
CONSTANTS
    Mod = 4
    NilDuid = NilDuid
    Duid = {NilDuid, d0, d1, d2, c1}
    nil = nil
    MaxTime = 6
    Network = 1
    HostSize = 4
    Octet = 8
    TTL = {}
    InputIP = {}
    h0 = h0
    h1 = h1
    h2 = h2
    d0 = d0
    d1 = d1
    d2 = d2
    c1 = c1
    Hw = {h0, h1, h2}
    hwDuid <- MCHwDuid
    SelfHw = h0
    SelfIP = 2
    Config <- MCConfig
    Handler = {g1}
    Packet <- MCPacket
    Garbage = NilDuid
    Noise = FALSE
    OfferTime = 1
    LeaseTime = 5
    Me = h1
    MyCid = c1
    Transit = 1
    Minute = 5
    DiscoverTime = 1
    SelectTime = 1
    ResetTime = 1
    ResumeTime = 1
    ScriptTime = 1
    PingTime = 1
    Burst = 5
    Refill = 5
    DefaultRoute = TRUE
    Alias = FALSE
    MaxFaults = 1
CHECK_DEADLOCK FALSE
INVARIANT NoConflict
PROPERTIES
    AddressKept
    RequestAnswered
CONSTRAINT Bounds

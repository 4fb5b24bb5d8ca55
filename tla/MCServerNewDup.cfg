SPECIFICATION NewSpec
CONSTANTS
    Mod = 16
    NilDuid = NilDuid
    Duid = {NilDuid, d0, d1, d2}
    nil = nil
    MaxTime = 1
    Network = 10
    HostSize = 8
    Octet = 4
    TTL = {1}
    InputIP = {}
    h0 = h0
    h1 = h1
    h2 = h2
    d0 = d0
    d1 = d1
    d2 = d2
    n1 = n1
    n2 = n2
    n3 = n3
    Hw = {h0, h1, h2}
    hwDuid <- MCHwDuid
    SelfHw = h0
    SelfIP = 13
    Config <- MCConfig
CHECK_DEADLOCK FALSE
INVARIANT DuplicateRefused

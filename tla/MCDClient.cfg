SPECIFICATION DClientSafety
CONSTANTS
    nil = nil
    a = a
    b = b
    s1 = s1
    s2 = s2
    r1 = r1
    r2 = r2
    IP = {a, b}
    Server = {s1, s2}
    Router = {r1, r2}
    DefaultRoute = TRUE
    Alias = TRUE
    Msg <- AnyMsg
    Minute = 3
    DiscoverTime = 3
    SelectTime = 3
    ResetTime = 2
    ResumeTime = 1
    PingTime = 1
    ScriptTime = 1
    Burst = 6
    Refill = 6
    MaxFaults = 2
CHECK_DEADLOCK FALSE
INVARIANTS
    DClientTypeOK
    AddressLeased
    NothingLeft
    BoundConfigured
    AddressChecked
    NeverBananas
    DeadlinesWithinLease

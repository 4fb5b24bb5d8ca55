SPECIFICATION DClientSafety
CONSTANTS
    nil = nil
    a = a
    b = b
    s1 = s1
    s2 = s2
    r1 = r1
    r2 = r2
    IP = {a, b}
    Server = {s1, s2}
    Router = {r1, r2}
    DefaultRoute = TRUE
    Alias = TRUE
    Msg <- CalmMsg
    Minute = 12
    DiscoverTime = 12
    SelectTime = 12
    ResetTime = 6
    ResumeTime = 1
    PingTime = 0
    ScriptTime = 12
    Burst = 10
    Refill = 5
    MaxFaults = 0
CHECK_DEADLOCK FALSE
INVARIANT RebindWithinLease

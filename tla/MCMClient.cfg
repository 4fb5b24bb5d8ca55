SPECIFICATION MClientSpec
CONSTANTS
    nil = nil
    unset = unset
    a = a
    s1 = s1
    r1 = r1
    IP = {a}
    Server = {s1}
    Router = {r1}
    DefaultRoute = FALSE
    Alias = FALSE
    Msg <- MCMsg
    Minute = 2
    DiscoverTime = 1
    SelectTime = 1
    ResetTime = 1
    ResumeTime = 1
    PingTime = 0
    ScriptTime = 1
    Burst = 2
    Refill = 2
    MaxFaults = 0
    EvCap = 1
    MaxUpdates = 1
CHECK_DEADLOCK FALSE
INVARIANTS
    EventInFlight
    ConfWhole
    ConfCurrent
PROPERTIES
    LinkUpRevalidates
    ShutdownExits
    ImplementsDClient

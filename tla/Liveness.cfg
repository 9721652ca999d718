CONSTANTS
    Sessions = {s1}
    Conns = {c1,c2}
    Reqs = {r1,r2}
    s1 = s1
    c1 = c1
    r1 = r1
    r2 = r2
    c2 = c2
    NoConn = NoConn
    NoKey = NoKey
    NoSession = NoSession
    TimeoutDuration = 1
    SessionTTL = 1
    ReconnectMinimum = 1
    ReconnectWindow = 1
    GraceSleep = 1
    Extensions = {1}
    PodDeleteMayFail = FALSE
    MaxCrashes = 0
SPECIFICATION MCFairSpec
PROPERTIES PodsReaped RegistryDrains UnlimitedOnlyAtTheEnd
CHECK_DEADLOCK FALSE

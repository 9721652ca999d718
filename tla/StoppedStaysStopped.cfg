CONSTANTS
    Sessions = {s1}
    Conns = {c1}
    Reqs = {r1}
    s1 = s1
    c1 = c1
    r1 = r1
    NoConn = NoConn
    NoKey = NoKey
    NoSession = NoSession
    TimeoutDuration = 2
    SessionTTL = 1
    ReconnectMinimum = 1
    ReconnectWindow = 1
    GraceSleep = 1
    Extensions = {1}
    PodDeleteMayFail = FALSE
    MaxCrashes = 0
SPECIFICATION Spec
PROPERTY StoppedStaysStopped
CHECK_DEADLOCK FALSE

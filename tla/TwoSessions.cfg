CONSTANTS
    Sessions = {s1,s2}
    Conns = {c1,c2}
    Reqs = {}
    s1 = s1
    s2 = s2
    c1 = c1
    c2 = c2
    NoConn = NoConn
    NoKey = NoKey
    NoSession = NoSession
    TimeoutDuration = 2
    SessionTTL = 1
    ReconnectMinimum = 1
    ReconnectWindow = 2
    GraceSleep = 2
    Extensions = {1}
    PodDeleteMayFail = FALSE
    MaxCrashes = 0
SPECIFICATION Spec
INVARIANTS TypeOK MonitorRegistry Supervised WindowIsWatched
PROPERTY PodsSafe
SYMMETRY Symmetry
CHECK_DEADLOCK FALSE

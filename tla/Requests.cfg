CONSTANTS
    Sessions = {s1}
    Conns = {c1}
    Reqs = {r1,r2}
    s1 = s1
    c1 = c1
    r1 = r1
    r2 = r2
    NoConn = NoConn
    NoKey = NoKey
    NoSession = NoSession
    TimeoutDuration = 3
    SessionTTL = 1
    ReconnectMinimum = 1
    ReconnectWindow = 1
    GraceSleep = 1
    Extensions = {2}
    PodDeleteMayFail = TRUE
    MaxCrashes = 1
SPECIFICATION Spec
INVARIANTS TimeLeftBounded
SYMMETRY Symmetry
CHECK_DEADLOCK FALSE

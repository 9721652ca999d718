CONSTANTS
    Tunnels = {t1}
    Reqs = {r1,r2}
    t1 = t1
    r1 = r1
    r2 = r2
    NoReq = NoReq
    NoLock = NoLock
    TunnelTimeout = 2
SPECIFICATION HttpSpec
PROPERTY OnlyUnusedTimedOut
CHECK_DEADLOCK FALSE

CONSTANTS
    Tunnels = {t1}
    Reqs = {r1, r2, r3}
    t1 = t1
    r1 = r1
    r2 = r2
    r3 = r3
    NoReq = NoReq
    NoLock = NoLock
    TunnelTimeout = 2
    MaxGuacMessage = 8
    Letters <- MCLetters
    Parameters <- MCParameters
    Asked <- MCAsked
    Scripts <- MCScripts
    ClientSends <- MCClientSends
    MaxHeard = 1
    Requests = {u1}
    PostTimeout = 3
    ScanTimeout = 2
    RequestTimeout = 6
    MaxTime = 8
SPECIFICATION TransportSpec
INVARIANTS HttpTypeOK StreamsAndFilesTypeOK
    QueuesSeen ClosedNotRegistered UnusedRemoved
    RelayedInOrder Configured NothingHeldBack
    AnswersComplete SuccessIsTrue AnsweredInTime
PROPERTIES LocksImplemented ReadersTakeOver TunnelsDrain
    AllDelivered RelayEnds UploadsAnswered
CHECK_DEADLOCK FALSE

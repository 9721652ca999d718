CONSTANTS
    Ids = {1, 2}
    NoId = 0
    MaxRequests = 1
    MaxLeaving = 1
    MaxHasty = 1
    MaxAttempts = 3
    MaxCalls = 2
    MaxUploads = 2
    MaxShares = 2
    TouchMouseThreshold = 3
    ScrollThreshold = 53
    PixelsPerLine = 18
    Turns <- MCTurns
    MaxTravel = 300
SPECIFICATION FrontSpec
PROPERTY SignInCompletes
CHECK_DEADLOCK FALSE

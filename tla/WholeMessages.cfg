CONSTANTS
    MaxGuacMessage = 7
    Letters <- MCLetters
    Parameters <- MCParameters
    Asked <- MCAsked
    Scripts <- WideScripts
    ClientSends <- MCClientSends
    MaxHeard = 1
SPECIFICATION RelaySpec
INVARIANT ReturnsNextMessage
CHECK_DEADLOCK FALSE

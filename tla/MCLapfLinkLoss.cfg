CONSTANTS
    Mod = 4
    K = 2
    N200 = 2
    NW = 2
    BacklogCap = 1
    Data <- MCData
    NoData = NoData
    A = A
    B = B
    Ends <- MCEnds
    MaxMessages <- MCMessages
    MaxCalls = 1
    MaxLosses = 1
SPECIFICATION Spec
PROPERTY AcceptedArrives
CHECK_DEADLOCK FALSE

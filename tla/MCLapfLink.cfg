CONSTANTS
    Mod = 4
    K = 2
    N200 = 2
    NW = 2
    BacklogCap = 1
    Data <- MCData
    NoData = NoData
    A = A
    B = B
    Ends <- MCEnds
    MaxMessages <- MCMessages
    MaxCalls = 3
    MaxLosses = 1
SPECIFICATION Spec
INVARIANTS
    TypeOK
    NoFrameReject
PROPERTIES
    ImplementsService
    WaitEnds
    HalfOpenHeals
CHECK_DEADLOCK FALSE

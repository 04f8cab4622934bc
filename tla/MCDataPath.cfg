CONSTANTS
    A = A
    B = B
    C = C
    Ports <- MCPorts
    Nni <- MCNni
    Signalling <- MCPorts
    FragMod = 8
    UiSeqs <- MCUiSeqs
    MaxFragments = 2
    MaxPieces = 3
    ReasmLife = 1
    MaxIdle = 3
    AccessRate = 1
    CllmEvery = 2
    QueueSize = 3
    CllmLife = 1
    Scenarios <- MCScenarios
SPECIFICATION Spec
INVARIANTS
    TypeOK
    Unmixed
    InOrder
    OneCopyEach
    Conforms
    Delivered
PROPERTIES
    QueueIsFifo
    CongestionEnds
    NoticeEnds
CHECK_DEADLOCK FALSE

CONSTANTS
    U = U
    N = N
    RangeLow = 1
    RangeHigh = 2
    MaxFreeRanges = 4
    Descending = FALSE
    Ports <- MCPorts
    Digits <- MCDigits
    Dnic <- MCDnic
    Sgc <- MCNoCode
    Sic <- MCNoCode
    SubNumLen = 1
    MaxDigits = 3
    MaxSubscribers = 5
    MaxRoutes = 4
    NoPort <- MCNoPort
    Nni <- MCNni
    Crvs = {1, 2, 3, 4, 5, 6, 7, 8, 9, 10}
    MaxCalls = 3
    Spvcs <- MCSpvcs
    Access <- MCAccess
    ReverseBarred <- MCBarred
    OwnNet = "home"
    MaxTnis = 2
    Configs <- MCConfigs
    Setups <- MCCrossed
    NeighbourCrvs = {1, 2}
    Messages <- MCTalk
    MaxMessages = 7
SPECIFICATION Spec
CHECK_DEADLOCK FALSE
INVARIANT PathStays

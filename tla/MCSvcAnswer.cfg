CONSTANTS
    U = U
    N = N
    RangeLow = 1
    RangeHigh = 2
    MaxFreeRanges = 4
    Descending = FALSE
    Ports <- MCPorts
    Digits <- MCDigits
    Dnic <- MCDnic
    Sgc <- MCNoCode
    Sic <- MCNoCode
    SubNumLen = 1
    MaxDigits = 3
    MaxSubscribers = 5
    MaxRoutes = 4
    NoPort <- MCNoPort
    Nni <- MCNni
    Crvs = {1, 2, 3, 4, 5, 6, 7}
    MaxCalls = 2
    Spvcs <- MCSpvcs
    Access <- MCNoAccess
    ReverseBarred <- MCBarred
    OwnNet = "home"
    MaxTnis = 2
    Configs <- MCConfigs
    Setups <- MCSetups
    NeighbourCrvs = {1}
    Messages <- MCAnswer
    MaxMessages = 4
SPECIFICATION Spec
CHECK_DEADLOCK FALSE
INVARIANT AnsweredInTime

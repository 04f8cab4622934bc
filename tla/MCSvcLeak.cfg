CONSTANTS
    U = U
    N = N
    RangeLow = 1
    RangeHigh = 3
    MaxFreeRanges = 1
    Descending = FALSE
    Ports <- MCPorts
    Digits <- MCDigits
    Dnic <- MCDnic
    Sgc <- MCNoCode
    Sic <- MCNoCode
    SubNumLen = 1
    MaxDigits = 3
    MaxSubscribers = 5
    MaxRoutes = 4
    NoPort <- MCNoPort
    Nni <- MCNni
    Crvs = {1, 2, 3, 4, 5, 6, 7, 8, 9, 10}
    MaxCalls = 3
    Spvcs <- MCSpvcs
    Access <- MCAccess
    ReverseBarred <- MCBarred
    OwnNet = "home"
    MaxTnis = 2
    Configs <- MCConfigs
    Setups <- MCSetups
    NeighbourCrvs = {1, 2}
    Messages <- MCHangUp
    MaxMessages = 4
SPECIFICATION Spec
CHECK_DEADLOCK FALSE
INVARIANT DlciReturned

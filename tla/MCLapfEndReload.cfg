CONSTANTS
    Mod = 4
    K = 2
    N200 = 2
    NW = 1
    BacklogCap = 1
    Data = {d1, d2}
    NoData = NoData
    Peer <- MCPeer
SPECIFICATION ReloadSpec
PROPERTY UpByHandshake

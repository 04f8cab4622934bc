CONSTANTS
    Mod = 4
    K = 2
    N200 = 2
    NW = 1
    BacklogCap = 1
    Data = {d1, d2}
    NoData = NoData
    Peer <- MCPeer
SYMMETRY Messages
SPECIFICATION Spec
INVARIANTS
    TypeOK
    WindowBound
    Supervised
    AnnouncedUp
PROPERTY UnackedKept

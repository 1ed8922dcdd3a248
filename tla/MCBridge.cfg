SPECIFICATION MCFairSpec
CONSTANTS
    Peers = {p1, p2, p3}
    Names = {n1, n2}
    Closer = Closer
    None = None
INVARIANTS
    AddNeverRefused
    ListedUnlessContested
    ShutdownEmpties
PROPERTIES
    Implements
    GhostsFade
    ConnectReturns
CHECK_DEADLOCK FALSE

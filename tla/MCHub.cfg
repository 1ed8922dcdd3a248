SPECIFICATION FairSpec
CONSTANTS
    Sessions = {s1, s2}
    Names = {n1, n2}
    None = None
INVARIANTS
    ListedUnlessContested
PROPERTIES
    Implements
    NoCollateralClose
    GhostsFade
    LoginSettles
CHECK_DEADLOCK FALSE

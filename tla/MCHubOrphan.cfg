SPECIFICATION Spec
CONSTANTS
    Sessions = {s1, s2}
    Names = {n1}
    None = None
INVARIANT OnlySessionIsListed
CHECK_DEADLOCK FALSE

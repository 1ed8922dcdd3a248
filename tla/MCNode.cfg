SPECIFICATION FairSpec
CONSTANTS
    Nodes = {a, b}
    MaxLogins = 2
    MaxPunches = 2
    MaxFailures = 1
    Budgets <- Together
    Ways = {w1, w2}
    Itself = Itself
    None = None
INVARIANTS
    HolesPaired
PROPERTIES
    NeverReused
    HalfOpenHeals
    LoopReturns
    PlansTried
CHECK_DEADLOCK FALSE

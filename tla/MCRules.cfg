SPECIFICATION Spec
CONSTANTS
    x = x
    y = y
    z = z
    Nets = {x, y, z}
    AllowNets <- Allowed
    MaxStarts = 3
INVARIANTS
    ForeignRulesKept
    RulesReturned
    Translated
CHECK_DEADLOCK FALSE

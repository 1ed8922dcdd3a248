SPECIFICATION Spec
CONSTANTS
    Callers = {c1}
    MaxPushes = 1
    MaxId = 2
    None = None
INVARIANT AnswerHasRequestedType
CHECK_DEADLOCK FALSE

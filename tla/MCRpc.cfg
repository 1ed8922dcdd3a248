SPECIFICATION FairSpec
CONSTANTS
    Callers = {c1, c2}
    MaxPushes = 2
    MaxId = 3
    None = None
INVARIANTS
    OwnAnswer
    SendPanicNeedsTimeoutOrPush
PROPERTIES
    AnswersNotDropped
    CallReturns
    DispatcherGoesOn
CHECK_DEADLOCK FALSE

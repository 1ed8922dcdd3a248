SPECIFICATION Spec
CONSTANTS
    ManyLocal = 2
    ManyRemote = 2
    LowPort = 2
    HighPort = 4
    PublicPorts = {1, 2, 3, 4}
    Observed <- ObservedPorts
    MaxRepeatTimes = 2
INVARIANT PeerReached
CHECK_DEADLOCK FALSE

SPECIFICATION FairSpec
CONSTANTS
    Readers <- PeerReaders
    Sends = {"raw", "ping"}
    Cap = 1
    Keepalive = TRUE
    MaxAlive = 1
    MaxPackets = 2
INVARIANTS
    InOrder
    LateWindow
    ClosedOnce
PROPERTIES
    Delivered
    CloseStopsAll
    SilentEndClosed
CHECK_DEADLOCK FALSE

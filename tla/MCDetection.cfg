SPECIFICATION DetectionSpec
CONSTANTS
    RemoteAddr <- Server
    OtherAddr <- OtherServer
    None = None
INVARIANTS
    MappingRight
    FilterNotOpened
    LeakNeedsLateAnswer
CHECK_DEADLOCK FALSE

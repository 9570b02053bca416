SPECIFICATION BridgeSpec
CONSTANTS
    MaxFrames = 3
    MaxEvents = 2
    QueueSize = 1
    Retries = 1
    LateErrors = FALSE
INVARIANTS
    ContextKept
    FramesOfOneResponse
    OneVerdict
    NothingOutlives
PROPERTIES
    TurnsAsPromised
    TurnsEnd
CHECK_DEADLOCK FALSE

SPECIFICATION BridgeSpec
CONSTANTS
    MaxFrames = 1
    MaxEvents = 3
    QueueSize = 2
    Retries = 0
    LateErrors = FALSE
INVARIANT
    NoTurnHangs
CHECK_DEADLOCK FALSE

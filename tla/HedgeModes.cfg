CONSTANTS
    Modes = {"race", "stagger"}
    Outcomes = {"good", "auth", "limit", "upstream", "error"}
    MaxAttempts = 3
    MaxConcurrent = 2
    Interval = 1
    Backoffs = {1}
    RetryAfters = {0, 2}
    MaxLag = 2
SPECIFICATION HedgeSpec
INVARIANTS
    NothingIsLeft
    NoAnswerIsLost
PROPERTIES
    LaunchesAreDue
    EveryHedgeEnds
CHECK_DEADLOCK FALSE

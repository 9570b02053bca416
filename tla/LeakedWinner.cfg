CONSTANTS
    Modes = {"race"}
    Outcomes = {"good", "auth", "limit", "upstream", "error"}
    MaxAttempts = 2
    MaxConcurrent = 2
    Interval = 1
    Backoffs = {1}
    RetryAfters = {0, 2}
    MaxLag = 2
SPECIFICATION HedgeSpec
INVARIANTS
    LosersAreClosed
CHECK_DEADLOCK FALSE

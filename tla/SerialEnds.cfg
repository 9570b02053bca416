CONSTANTS
    e1 = e1
    e2 = e2
    e3 = e3
    k1 = k1
    k2 = k2
    k3 = k3
    gA = gA
    gB = gB
    w1 = w1
    s1 = s1
    r1 = r1
    r2 = r2
    r3 = r3
    NoSession = NoSession
    None = None
    KeyOf <- MCKeyOf
    GroupOf <- MCGroupOf
    Position <- MCPosition
    Workloads = {w1}
    Dedicated <- MCDedicated
    Severity <- MCSeverity
    Base <- MCBase
    WorkloadOf <- MCWorkloadOf
    Entries = {e1, e3}
    General = {e1, e3}
    Sessions = {}
    Prices = {1}
    Strategy = "cost"
    Kinds = {"upstream", "rate_limit","auth", "transport"}
    MaxCooldown = 1
    LevelCap = 1
    RetryAfters = {0, 1}
    Sticky = 1
    Repricing = FALSE
    MaxUpdates = 0
    Requests = {r1, r2}
    Outcomes = {"success", "denied", "auth", "rate_limit", "transport", "host", "stall", "rejection"}
    MaxAttempts = 2
    WaitTimeout = 0
    Intervals = {0, 1}
    SlotOf <- NoSessions
SPECIFICATION SerialSpec
INVARIANTS
    SetAsideStaysAside
PROPERTIES
    NoSendWhileCooling
    EveryRequestEnds

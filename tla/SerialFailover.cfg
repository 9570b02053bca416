CONSTANTS
    e1 = e1
    e2 = e2
    e3 = e3
    k1 = k1
    k2 = k2
    k3 = k3
    gA = gA
    gB = gB
    w1 = w1
    s1 = s1
    r1 = r1
    r2 = r2
    r3 = r3
    NoSession = NoSession
    None = None
    KeyOf <- MCKeyOf
    GroupOf <- MCGroupOf
    Position <- MCPosition
    Workloads = {w1}
    Dedicated <- MCDedicated
    Severity <- MCSeverity
    Base <- MCBase
    WorkloadOf <- MCWorkloadOf
    Entries = {e1, e2}
    General = {e1, e2}
    Sessions = {s1}
    Prices = {1, 2}
    Strategy = "cost"
    Kinds = {"upstream"}
    MaxCooldown = 2
    LevelCap = 2
    RetryAfters = {0}
    Sticky = 1
    Repricing = FALSE
    MaxUpdates = 1
    Requests = {r1, r2}
    Outcomes = {"success", "upstream"}
    MaxAttempts = 2
    WaitTimeout = 1
    Intervals = {1}
    SlotOf <- OneSession
SPECIFICATION SerialSpec
INVARIANTS
    PoolKeyInjected
PROPERTIES
    UsesThePool

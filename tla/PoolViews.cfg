CONSTANTS
    e1 = e1
    e2 = e2
    e3 = e3
    k1 = k1
    k2 = k2
    gA = gA
    gB = gB
    w1 = w1
    s1 = s1
    NoSession = NoSession
    None = None
    Entries = {e1, e2, e3}
    KeyOf <- MCKeyOf
    GroupOf <- MCGroupOf
    Position <- MCPosition
    Workloads = {w1}
    Dedicated <- MCDedicated
    General = {e1, e2}
    Sessions = {}
    Prices = {1, 2}
    Strategy = "grouped"
    Kinds = {"upstream", "auth"}
    Severity <- MCSeverity
    Base <- MCBase
    MaxCooldown = 2
    LevelCap = 2
    RetryAfters = {0, 3}
    Sticky = 1
    Repricing = FALSE
    MaxUpdates = 1
    Observed = e1
    LeastWait <- MCLeastWait
SPECIFICATION PoolSpec
INVARIANTS
    TypeOK
    ViewsAreLive
    Serves
PROPERTIES
    KeyIsABreaker

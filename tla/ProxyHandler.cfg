CONSTANTS
    r1 = r1
    r2 = r2
    s1 = s1
    s2 = s2
    g1 = g1
    g2 = g2
    Requests = {r1, r2}
    Sessions = {s1, s2}
    Groups = {g1, g2}
    Families = {"stream", "body"}
    Bodies = {"secret", "deep", "packed", "opaque"}
    Modes = {"audit", "redact"}
    FailClosed = TRUE
    Failures = {"auth"}
    Severity <- MCSeverity
    FailureCooldown = 1
    MissThreshold = 2
    MissCooldown = 1
SPECIFICATION HandlerSpec
INVARIANTS
    RawOnlyIfAllowed
    AnswersAreAccounted
    CacheLeavesOne
    MissesAreConsecutive
SYMMETRY Symmetry

SPECIFICATION BalancedSpec
CONSTANTS
    Groups <- MCGroups
    a = a
    b = b
    c = c
    Sort <- MCSort
    Slow <- MCSlow
    Requests = {1, 2}
    Interval = 1
    Stale = 1
    Cooldown = 1
    Confirmations = 2
    MaxFailures = 1
    None = None
INVARIANTS OneProbeAtATime
PROPERTIES ProbesResume SlowTierLeft

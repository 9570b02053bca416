SPECIFICATION SyncSpec
CONSTANTS
    g1 = g1
    Online = {s1, s2}
    Manual = manual
    Keys = {k1, k2}
    Groups = {g1}
    GroupOf <- OneGroup
    Static = {k1}
    InPlace = TRUE
    MaxRotations = 2
SYMMETRY Swapped
INVARIANTS OneOwner PoolServesSource DiskIsCurrent
PROPERTIES SessionsSurvive VerdictsAreFresh

--------------------------- MODULE MCProxyHandler ---------------------------
EXTENDS ProxyHandler, TLC

CONSTANTS r1, r2, s1, s2, g1, g2

MCSeverity == [k \in Failures \cup {"cache_miss"} |-> IF k = "cache_miss" THEN 1 ELSE 4]

\* No request, session or group is special.
Symmetry == Permutations(Requests) \cup Permutations(Sessions) \cup Permutations(Groups)
=============================================================================

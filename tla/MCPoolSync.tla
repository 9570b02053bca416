----------------------------- MODULE MCPoolSync -----------------------------
EXTENDS PoolSync, TLC

CONSTANT g1

\* Every key belongs to the group.
OneGroup == [k \in Keys |-> g1]

\* The connections differ in nothing.
Swapped == Permutations(Online)
=============================================================================

--------------------------- MODULE KeyPoolBreaker ---------------------------
(***************************************************************************)
(* Every entry of the pool is a Breaker: the refinement mapping sends the  *)
(* health of one entry, chosen once and for all, to the breaker's state.   *)
(***************************************************************************)
EXTENDS KeyPool

CONSTANTS
    Observed,   \* the entry that is looked at
    LeastWait   \* a lower bound of the back-off of every kind, per level

ASSUME ObservedAssumption ==
    /\ Observed \in Entries
    /\ LeastWait \in [1..LevelCap -> Nat]
    /\ \A k \in Kinds, l \in 1..LevelCap : Backoff(k, l) >= LeastWait[l]

Circuit == INSTANCE Breaker WITH
    MaxLevel <- LevelCap,
    left     <- health[Observed].left,
    level    <- health[Observed].level

\* mark_cooldown, mark_success and reset_circuit, called by any number of
\* requests in any order, keep the promises of Breaker for every key.
KeyIsABreaker == Circuit!Spec
=============================================================================

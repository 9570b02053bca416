------------------------------- MODULE Breaker -------------------------------
(***************************************************************************)
(* What the circuit of one upstream key promises, whatever requests share  *)
(* the key and in whichever order their outcomes arrive:                   *)
(*                                                                         *)
(*   - one outage counts once: while the circuit is open, further failures *)
(*     may lengthen the wait but never raise the back-off level;           *)
(*   - the n-th outage in a row waits at least the n-th back-off, and a    *)
(*     failure never shortens a wait;                                      *)
(*   - only a success or an operator ends a wait before its time, and both *)
(*     forget the level.                                                   *)
(***************************************************************************)
EXTENDS Naturals

CONSTANTS
    MaxLevel,   \* the level at which the back-off stops growing
    LeastWait   \* [1..MaxLevel -> Nat], the shortest wait of each level

VARIABLES
    left,       \* time until the key may be used again, 0 when it may
    level       \* consecutive outages of the same kind

vars == <<left, level>>

Init == left = 0 /\ level = 0

\* A new outage: the back-off goes up by one, or starts again at one.
Open ==
    /\ left = 0
    /\ level' \in {1, IF level < MaxLevel THEN level + 1 ELSE MaxLevel}
    /\ left' \in Nat
    /\ left' >= LeastWait[level']

\* One more failure of an outage that is already known.
Extend ==
    /\ left > 0
    /\ left' \in Nat
    /\ left' >= left
    /\ level' = level

Close == left' = 0 /\ level' = 0

Wait ==
    /\ left > 0
    /\ left' = left - 1
    /\ level' = level

Next == Open \/ Extend \/ Close \/ Wait

Spec == Init /\ [][Next]_vars
=============================================================================

------------------------------ MODULE MCKeyPool ------------------------------
(***************************************************************************)
(* Instances of KeyPool for TLC.  Entry e3 is the upstream key of e1 after *)
(* it was removed and listed again: a new object for the same key.         *)
(***************************************************************************)
EXTENDS KeyPoolBreaker, TLC

CONSTANTS e1, e2, e3, k1, k2, gA, gB, w1, s1

MCKeyOf     == [e \in Entries |-> IF e = e2 THEN k2 ELSE k1]
MCGroupOf   == [e \in Entries |-> IF e = e2 THEN gB ELSE gA]
MCPosition  == [e \in Entries |-> IF e = e1 THEN 1 ELSE IF e = e2 THEN 2 ELSE 3]

\* e3 comes with a rule, and takes the workload over.
MCDedicated == [w \in Workloads |-> {e3} \cap Entries]

MCSeverity  == [k \in Kinds |-> IF k = "auth" THEN 4 ELSE 2]
MCBase      == [k \in Kinds |-> IF k = "auth" THEN 2 ELSE 1]
MCLeastWait == [l \in 1..LevelCap |-> IF l = 1 THEN 1 ELSE IF l = 2 THEN 2 ELSE MaxCooldown]
=============================================================================

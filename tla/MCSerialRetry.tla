---------------------------- MODULE MCSerialRetry ----------------------------
(***************************************************************************)
(* Instances of SerialRetry for TLC.                                       *)
(***************************************************************************)
EXTENDS SerialRetry, TLC

CONSTANTS e1, e2, e3, k1, k2, k3, gA, gB, w1, s1, r1, r2, r3

MCKeyOf      == [e \in Entries |-> IF e = e1 THEN k1 ELSE IF e = e2 THEN k2 ELSE k3]
MCGroupOf    == [e \in Entries |-> IF e = e2 THEN gB ELSE gA]
MCPosition   == [e \in Entries |-> IF e = e1 THEN 1 ELSE IF e = e2 THEN 2 ELSE 3]
MCDedicated  == [w \in Workloads |-> {}]
MCWorkloadOf == [r \in Requests |-> w1]

\* Every request without a session, or in the same one.
NoSessions   == [r \in Requests |-> NoSession]
OneSession   == [r \in Requests |-> s1]

MCSeverity   == [k \in Kinds |-> CASE k = "auth" -> 4 [] k = "rate_limit" -> 3
                                   [] k = "upstream" -> 2 [] OTHER -> 1]
MCBase       == [k \in Kinds |-> IF k = "auth" THEN 2 ELSE 1]
=============================================================================

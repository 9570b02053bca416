------------------------- MODULE BalancedViewProofs -------------------------
(***************************************************************************)
(* Proofs about the balanced strategy: for any groups, prices, requests    *)
(* and intervals of at least one tick, at most one request holds the       *)
(* reservation of a probe.                                                 *)
(*                                                                         *)
(* The reservation variable alone does not show it: a late answer of an    *)
(* older request ends it early, and a reset of a circuit makes the next    *)
(* probe due at once.  What does is that a probe starts only when a tier   *)
(* serves and the interval is over, and that as long as a tier serves the  *)
(* interval outlasts what is left of every reservation.                    *)
(***************************************************************************)
EXTENDS BalancedView, TLAPS

Records ==
    /\ req = [r \in Requests |-> [phase |-> req[r].phase, group |-> req[r].group,
                                  left |-> req[r].left]]
    /\ \A r \in Requests : req[r].left \in 0..Interval

\* While a tier serves, the next probe is due after every reservation is over.
Spaced ==
    /\ nextProbe \in Nat
    /\ current # None => \A r \in Requests : req[r].left <= nextProbe

ProbeInv == Records /\ Spaced /\ OneProbeAtATime

\* A reservation lasts as long as the interval between probes.
LEMMA ReservedIsInterval ==
    ASSUME Interval \in Nat, Interval > 0
    PROVE  Reserved = Interval
BY SMT DEF Reserved, Larger

LEMMA IntervalIsNat == Interval \in Nat
BY BalancedAssumption

LEMMA ProbeInvInit == BalancedInit => ProbeInv
BY IntervalIsNat, SMT DEF BalancedInit, NoRequest, ProbeInv, Records, Spaced, OneProbeAtATime

\* A request that changes its phase keeps what is left of its reservation, or
\* gives it up; the others keep theirs.
LEMMA OneRequestMoves ==
    ASSUME Records, NEW r \in Requests, NEW p, NEW g, NEW n \in {0, req[r].left},
           req' = [req EXCEPT ![r] = [phase |-> p, group |-> g, left |-> n]]
    PROVE  /\ Records'
           /\ \A s \in Requests : req'[s].left \in {0, req[s].left}
<1>1. \A s \in Requests :
        req'[s] = IF s = r THEN [phase |-> p, group |-> g, left |-> n] ELSE req[s]
  BY DEF Records
<1>2. \A s \in Requests :
        /\ req'[s] = [phase |-> req'[s].phase, group |-> req'[s].group, left |-> req'[s].left]
        /\ req'[s].left \in {0, req[s].left}
  BY <1>1 DEF Records
<1>3. req' = [s \in Requests |-> req'[s]]
  BY DEF Records
<1>4. \A s \in Requests : req'[s].left \in 0..Interval
  BY <1>2, IntervalIsNat DEF Records
<1> QED BY <1>2, <1>3, <1>4 DEF Records

\* A step that starts no probe keeps the invariant when it leaves the next one
\* as far away as every reservation, or when no tier serves after it.
LEMMA NoNewProbe ==
    ASSUME ProbeInv, Records', nextProbe' \in Nat,
           \A r \in Requests : req'[r].left > 0 => req[r].left > 0,
           current' # None => \A r \in Requests : req'[r].left <= nextProbe'
    PROVE  ProbeInv'
BY DEF ProbeInv, Spaced, OneProbeAtATime, Records

LEMMA TickKeeps ==
    ASSUME ProbeInv, Tick
    PROVE  ProbeInv'
<1> USE IntervalIsNat
<1>1. \A r \in Requests :
        req'[r] = [phase |-> req[r].phase, group |-> req[r].group, left |-> Less(req[r].left)]
  BY DEF Tick, ProbeInv, Records
<1>2. \A n \in Nat : Less(n) \in Nat /\ Less(n) <= n /\ \A m \in Nat : m <= n => Less(m) <= Less(n)
  BY SMT DEF Less
<1>3. req' = [r \in Requests |-> req'[r]]
  BY DEF Tick
<1>4. \A r \in Requests : req[r].left \in Nat /\ req'[r].left = Less(req[r].left)
  <2>1. \A n \in 0..Interval : n \in Nat
    OBVIOUS
  <2>2. \A r \in Requests : req[r].left \in Nat
    BY <2>1 DEF ProbeInv, Records
  <2>3. ASSUME NEW r \in Requests
        PROVE  req'[r].left = Less(req[r].left)
    <3>1. req'[r] = [phase |-> req[r].phase, group |-> req[r].group, left |-> Less(req[r].left)]
      BY <1>1
    <3> DEFINE n == Less(req[r].left)
    <3>2. req'[r] = [phase |-> req[r].phase, group |-> req[r].group, left |-> n]
      BY <3>1
    <3> HIDE DEF n
    <3>3. req'[r].left = n
      BY <3>2
    <3> QED BY <3>3 DEF n
  <2> QED BY <2>2, <2>3
<1>5. Records'
  BY <1>1, <1>2, <1>3, <1>4 DEF ProbeInv, Records
<1>6. nextProbe' = Less(nextProbe) /\ current' = current
  BY DEF Tick
<1> QED BY <1>2, <1>4, <1>5, <1>6, NoNewProbe DEF ProbeInv, Spaced

\* A probe starts when the interval is over, so when no reservation is left;
\* the interval and the reservation then start together.
LEMMA PickKeeps ==
    ASSUME Interval > 0, ProbeInv, NEW r \in Requests, Pick(r)
    PROVE  ProbeInv'
<1> USE IntervalIsNat
<1>0. UNCHANGED current
  BY DEF Pick
<1>1. ASSUME NEW g, Send(r, g, FALSE), UNCHANGED nextProbe
      PROVE  ProbeInv'
  <2>1. \A s \in Requests : req'[s] = IF s = r THEN [phase |-> "sent", group |-> g, left |-> 0]
                                      ELSE req[s]
    BY <1>1 DEF Send, ProbeInv, Records
  <2>2. Records'
    BY <1>1, <2>1 DEF Send, ProbeInv, Records
  <2> QED BY <1>0, <1>1, <2>1, <2>2, NoNewProbe DEF ProbeInv, Spaced, Records
<1>2. ASSUME NEW g, Send(r, g, TRUE), nextProbe = 0, nextProbe' = Interval, current # None
      PROVE  ProbeInv'
  <2>1. \A s \in Requests : req[s].left = 0
    BY <1>2 DEF ProbeInv, Spaced, Records
  <2>2. \A s \in Requests :
          req'[s] = IF s = r THEN [phase |-> "sent", group |-> g, left |-> Interval]
                    ELSE req[s]
    BY <1>2, ReservedIsInterval DEF Send, ProbeInv, Records
  <2>3. Records'
    BY <1>2, <2>2 DEF Send, ProbeInv, Records
  <2> QED BY <1>2, <2>1, <2>2, <2>3 DEF ProbeInv, Spaced, OneProbeAtATime
<1>3. \/ \E g : Send(r, g, FALSE) /\ UNCHANGED nextProbe
      \/ \E g : Send(r, g, TRUE) /\ nextProbe = 0 /\ nextProbe' = Interval /\ current # None
  <2>1. current \in Available => current # None
    BY BalancedAssumption DEF Available
  <2> QED BY <2>1 DEF Pick, ProbeDue, probeVars
<1> QED BY <1>1, <1>2, <1>3

LEMMA HeadersKeeps ==
    ASSUME ProbeInv, NEW r \in Requests, Headers(r)
    PROVE  ProbeInv'
<1> USE IntervalIsNat
<1>1. req' = [req EXCEPT ![r] = [phase |-> "open", group |-> req[r].group, left |-> req[r].left]]
  BY DEF Headers, Phase
<1>2. /\ Records'
      /\ \A s \in Requests : req'[s].left \in {0, req[s].left}
  BY <1>1, OneRequestMoves DEF ProbeInv
<1>3. \/ UNCHANGED <<current, nextProbe>>
      \/ nextProbe' = Interval
  BY DEF Headers
<1> QED BY <1>2, <1>3, NoNewProbe DEF ProbeInv, Spaced, Records

LEMMA TokenKeeps ==
    ASSUME ProbeInv, NEW r \in Requests, Token(r)
    PROVE  ProbeInv'
<1> USE IntervalIsNat
<1>1. req' = [req EXCEPT ![r] = [phase |-> "read", group |-> req[r].group, left |-> 0]]
  BY DEF Token, Phase
<1>2. /\ Records'
      /\ \A s \in Requests : req'[s].left \in {0, req[s].left}
  BY <1>1, OneRequestMoves DEF ProbeInv
<1>3. \/ UNCHANGED <<current, nextProbe>>
      \/ nextProbe' = Interval
  BY DEF Token, ProbeToken, probeVars
<1> QED BY <1>2, <1>3, NoNewProbe DEF ProbeInv, Spaced, Records

LEMMA DoneKeeps ==
    ASSUME ProbeInv, NEW r \in Requests, Fails(r) \/ Ends(r)
    PROVE  ProbeInv'
<1> USE IntervalIsNat
<1>1. req' = [req EXCEPT ![r] = [phase |-> "idle", group |-> None, left |-> 0]]
  BY DEF Fails, Ends, Done, NoRequest
<1>2. /\ Records'
      /\ \A s \in Requests : req'[s].left \in {0, req[s].left}
  BY <1>1, OneRequestMoves DEF ProbeInv
<1>3. UNCHANGED <<current, nextProbe>>
  BY DEF Fails, Ends, probeVars
<1> QED BY <1>2, <1>3, NoNewProbe DEF ProbeInv, Spaced, Records

\* No tier serves after new settings or a reset, until the next success.
LEMMA OperatorKeeps ==
    ASSUME ProbeInv, ApplySettings \/ \E g \in Groups : ResetCircuit({g})
    PROVE  ProbeInv'
<1> USE IntervalIsNat
<1>1. \A r \in Requests :
        /\ req'[r] = [phase |-> req'[r].phase, group |-> req'[r].group, left |-> req'[r].left]
        /\ req'[r].left \in {0, req[r].left}
  BY DEF ApplySettings, ResetCircuit, ProbeInv, Records
<1>2. req' = [r \in Requests |-> req'[r]]
  BY DEF ApplySettings, ResetCircuit
<1>3. Records'
  BY <1>1, <1>2 DEF ProbeInv, Records
<1>4. current' = None /\ nextProbe' = 0
  BY DEF ApplySettings, ResetCircuit
<1> QED BY <1>1, <1>3, <1>4, NoNewProbe DEF ProbeInv, Records

LEMMA StutterKeeps ==
    ASSUME ProbeInv, UNCHANGED balancedVars
    PROVE  ProbeInv'
BY DEF balancedVars, probeVars, ProbeInv, Records, Spaced, OneProbeAtATime

\* Whatever the groups, the prices and the number of requests, and however late
\* answers, failures, resets and new settings are mixed, no two requests are
\* lent to cheaper tiers at once (KeyPool._balanced_pick), provided that the
\* interval between probes is not zero.
THEOREM OneProbe ==
    ASSUME Interval > 0
    PROVE  BalancedSpec => []OneProbeAtATime
<1>1. BalancedInit => ProbeInv
  BY ProbeInvInit
<1>2. ProbeInv /\ [BalancedNext]_balancedVars => ProbeInv'
  BY TickKeeps, PickKeeps, HeadersKeeps, TokenKeeps, DoneKeeps, OperatorKeeps, StutterKeeps
     DEF BalancedNext, Step
<1>3. ProbeInv => OneProbeAtATime
  BY DEF ProbeInv
<1> QED BY <1>1, <1>2, <1>3, PTL DEF BalancedSpec
=============================================================================

---------------------------- MODULE BalancedView ----------------------------
(***************************************************************************)
(* The scheduler of one request view under the balanced strategy           *)
(* (key_pool.py): requests go to the tier that serves (_current), a tier   *)
(* that is slow is left for the next dearer one (_balanced_group), and one *)
(* request at a time is lent to probe a cheaper tier.                      *)
(*                                                                         *)
(* A tier is one group with one key: the choice among groups of the same   *)
(* price and the external reference data are left out.  Requests run       *)
(* concurrently, each through the callbacks its answer makes: the status   *)
(* (mark_success, mark_cooldown), the first token (record_ttft), the end   *)
(* of the stream.  Times are what is left of them, in ticks.               *)
(***************************************************************************)
EXTENDS Integers

CONSTANTS
    Groups,
    Sort,           \* [Groups -> Nat], the price
    Slow,           \* groups whose first tokens are always slow
    Requests,       \* bound on the requests in flight
    Interval,       \* KEY_TTFT_RETEST_INTERVAL
    Stale,          \* KEY_TTFT_STALE_AFTER
    Cooldown,       \* of a failed key
    Confirmations,  \* KEY_TTFT_CONFIRMATIONS
    MaxFailures,    \* bound on the requests that fail
    None

ASSUME BalancedAssumption ==
    /\ Sort \in [Groups -> Nat]
    /\ \A g, h \in Groups : Sort[g] = Sort[h] => g = h
    /\ Slow \subseteq Groups
    /\ {Interval, Stale, Cooldown, MaxFailures} \subseteq Nat
    /\ Confirmations \in Nat \ {0}
    /\ None \notin Groups

VARIABLES
    cool,           \* cooldown_until
    current,        \* _current
    anchor,         \* _balanced_group
    floor,          \* _failover_floor, -1 for None
    probing,        \* _active_probe_group
    reserve,        \* _probe_reserved_until
    cursor,         \* _probe_cursor_group
    nextProbe,      \* _next_probe_at
    metric,         \* per group: slow_streak, recovery_streak, next_probe_at
    req,            \* the requests: where each is, its group, and what is left
                    \* of its reservation as a probe (ghost)
    failures

balancedVars == <<cool, current, anchor, floor, probing, reserve, cursor,
                  nextProbe, metric, req, failures>>

probeVars == <<probing, reserve, cursor, nextProbe>>

Price(g) == IF g = None THEN -1 ELSE Sort[g]

Larger(m, n) == IF m > n THEN m ELSE n

Cheapest(S) == CHOOSE g \in S : \A h \in S : Sort[g] <= Sort[h]

Fresh == [slow |-> 0, recovery |-> 0, wait |-> 0]

NoRequest == [phase |-> "idle", group |-> None, left |-> 0]

BalancedInit ==
    /\ cool = [g \in Groups |-> 0]
    /\ current = None /\ anchor = None /\ floor = -1
    /\ probing = None /\ reserve = 0 /\ cursor = None /\ nextProbe = 0
    /\ metric = [g \in Groups |-> Fresh]
    /\ req = [r \in Requests |-> NoRequest]
    /\ failures = 0

-----------------------------------------------------------------------------
(* Picking *)

Available == {g \in Groups : cool[g] = 0 /\ Sort[g] >= floor}

Cheaper(avail) == {g \in avail : Sort[g] < Price(current)}

\* The reservation of a probe that never reported runs out.
Probing == IF reserve = 0 THEN None ELSE probing

AlwaysDue(ready) == ready # {}                             \* mutant of ProbeDue

ProbeDue(ready) == ready # {} /\ nextProbe = 0 /\ Probing = None

FromCheapest(cheaper, ready) == Cheapest(ready)            \* mutant of NextInTurn

\* The first group after the cursor that is due, in a circle.
NextInTurn(cheaper, ready) ==
    LET later == {g \in ready : cursor \in cheaper /\ Sort[g] > Sort[cursor]}
    IN  Cheapest(IF later # {} THEN later ELSE ready)

Reserved == Larger(Interval, 1)

Send(r, g, probe) ==
    req' = [req EXCEPT ![r] = [phase |-> "sent", group |-> g,
                               left |-> IF probe THEN Reserved ELSE 0]]

Pick(r) ==
    LET avail   == Available
        base    == IF anchor \in avail THEN anchor
                   ELSE IF current \in avail THEN current ELSE Cheapest(avail)
        cheaper == Cheaper(avail)
        ready   == {g \in cheaper : metric[g].wait = 0}
        probe   == NextInTurn(cheaper, ready)
    IN  /\ req[r].phase = "idle" /\ avail # {}
        /\ anchor' = base
        /\ \/ /\ current \notin avail
              /\ Send(r, base, FALSE) /\ UNCHANGED probeVars
           \/ /\ current \in avail /\ ProbeDue(ready)
              /\ Send(r, probe, TRUE)
              /\ probing' = probe /\ cursor' = probe
              /\ nextProbe' = Interval /\ reserve' = Reserved
           \/ /\ current \in avail /\ ~ProbeDue(ready)
              /\ Send(r, IF Sort[base] > Sort[current] THEN base ELSE current, FALSE)
              /\ probing' = Probing
              /\ UNCHANGED <<reserve, cursor, nextProbe>>
        /\ UNCHANGED <<cool, current, floor, metric, failures>>

-----------------------------------------------------------------------------
(* What the answers do *)

Done(r) == req' = [req EXCEPT ![r] = NoRequest]

Phase(r, p, left) ==
    req' = [req EXCEPT ![r] = [phase |-> p, group |-> req[r].group, left |-> left]]

\* mark_success: the tier serves from now on, unless it is being probed.
Headers(r) ==
    LET g == req[r].group
    IN  /\ req[r].phase = "sent" /\ Phase(r, "open", req[r].left)
        /\ cool' = [cool EXCEPT ![g] = 0]
        /\ IF g = probing THEN UNCHANGED <<current, anchor, floor, nextProbe, cursor>>
           ELSE /\ current' = g /\ floor' = -1
                /\ anchor' = IF g = current THEN anchor ELSE g
                /\ nextProbe' = IF g = current THEN nextProbe ELSE Interval
                /\ cursor' = IF current = None THEN None ELSE cursor
        /\ UNCHANGED <<probing, reserve, metric, failures>>

\* Until the next success no tier below the one that serves is tried.
Floor(g) == IF current # None /\ Sort[g] <= Sort[current] THEN Sort[current] ELSE floor

\* mark_cooldown; the request is sent again, or is over when it had an answer.
Fails(r) ==
    LET g == req[r].group
    IN  /\ req[r].phase \in {"sent", "open", "read"} /\ failures < MaxFailures
        /\ Done(r) /\ failures' = failures + 1
        /\ cool' = [cool EXCEPT ![g] = Larger(@, Cooldown)]
        /\ floor' = Floor(g)
        /\ metric' = IF g = anchor THEN metric
                     ELSE [metric EXCEPT ![g].recovery = 0, ![g].wait = Stale]
        /\ IF g = probing THEN probing' = None /\ reserve' = 0
           ELSE UNCHANGED <<probing, reserve>>
        /\ UNCHANGED <<current, anchor, cursor, nextProbe>>

Speeds(g) == IF g \in Slow THEN {"slow"} ELSE {"fast", "between"}

\* The first token of a probe: the tier is taken, or left for a while.
ProbeToken(g, speed) ==
    LET cheaper == current # None /\ Sort[g] < Sort[current]
    IN  /\ probing' = None /\ reserve' = 0
        /\ IF cheaper /\ speed = "fast"
             THEN /\ anchor' = g /\ current' = g /\ floor' = -1
                  /\ cursor' = None /\ nextProbe' = Interval
                  /\ metric' = [metric EXCEPT ![g].recovery = 0, ![g].slow = 0]
             ELSE /\ metric' = IF cheaper
                                 THEN [metric EXCEPT ![g].recovery = 0, ![g].wait = Stale]
                                 ELSE metric
                  /\ UNCHANGED <<anchor, current, floor, cursor, nextProbe>>

\* mutant of SlowCount
NeverConfirmed(n, speed) == IF speed = "slow" /\ n = 0 THEN 1 ELSE 0

SlowCount(n, speed) ==
    IF speed # "slow" THEN 0 ELSE IF n < Confirmations THEN n + 1 ELSE n

\* One of the tier that serves: it is left after enough slow ones on end.
AnchorToken(g, speed) ==
    LET slow   == SlowCount(metric[g].slow, speed)
        dearer == {h \in Groups : cool[h] = 0 /\ cool[g] = 0 /\ Sort[h] > Sort[g]}
    IN  IF slow >= Confirmations /\ dearer # {}
          THEN /\ metric' = [metric EXCEPT ![g] = [slow |-> 0, recovery |-> 0, wait |-> Stale]]
               /\ anchor' = Cheapest(dearer)
          ELSE /\ metric' = [metric EXCEPT ![g].slow = slow]
               /\ UNCHANGED anchor

\* A late one of another tier: a cheaper one may be taken again.
OtherToken(g, speed) ==
    LET cheaper == anchor # None /\ Sort[g] < Price(anchor)
        enough  == metric[g].recovery + 1 >= Confirmations
    IN  IF cheaper /\ speed = "fast"
          THEN /\ anchor' = IF enough THEN g ELSE anchor
               /\ metric' = [metric EXCEPT ![g] =
                      [slow     |-> IF enough THEN 0 ELSE @.slow,
                       recovery |-> IF enough THEN 0 ELSE @.recovery + 1,
                       wait     |-> Interval]]
          ELSE /\ metric' = IF cheaper
                              THEN [metric EXCEPT ![g].recovery = 0, ![g].wait = Stale]
                              ELSE metric
               /\ UNCHANGED anchor

Token(r) ==
    LET g == req[r].group
    IN  /\ req[r].phase = "open"
        /\ Phase(r, "read", 0)
        /\ \E speed \in Speeds(g) :
              \/ g = probing /\ ProbeToken(g, speed)
              \/ /\ g # probing /\ g = anchor /\ AnchorToken(g, speed)
                 /\ UNCHANGED <<current, floor, probeVars>>
              \/ /\ g # probing /\ g # anchor /\ OtherToken(g, speed)
                 /\ UNCHANGED <<current, floor, probeVars>>
        /\ UNCHANGED <<cool, failures>>

\* The stream ends, or the client leaves.
Ends(r) ==
    /\ req[r].phase # "idle" /\ Done(r)
    /\ UNCHANGED <<cool, current, anchor, floor, probeVars, metric, failures>>

\* apply_settings: a new strategy starts from nothing.
ApplySettings ==
    /\ current' = None /\ anchor' = None /\ floor' = -1
    /\ probing' = None /\ reserve' = 0 /\ cursor' = None /\ nextProbe' = 0
    /\ metric' = [g \in Groups |-> Fresh]
    /\ req' = [r \in Requests |-> [req[r] EXCEPT !.left = 0]]
    /\ UNCHANGED <<cool, failures>>

\* reset_circuit of the groups in S: the operator lets them be tried again.
\* (Of all of them, as of one after the other.)
ResetCircuit(S) ==
    /\ cool' = [g \in Groups |-> IF g \in S THEN 0 ELSE cool[g]]
    /\ current' = None /\ anchor' = None /\ floor' = -1
    /\ cursor' = None /\ nextProbe' = 0
    /\ IF probing \in S THEN probing' = None /\ reserve' = 0
       ELSE UNCHANGED <<probing, reserve>>
    /\ metric' = [g \in Groups |->
                     IF g \in S THEN [metric[g] EXCEPT !.wait = 0] ELSE metric[g]]
    /\ req' = [r \in Requests |->
                  IF req[r].group \in S THEN [req[r] EXCEPT !.left = 0]
                  ELSE req[r]]
    /\ UNCHANGED failures

Less(n) == IF n = 0 THEN 0 ELSE n - 1

Tick ==
    /\ cool' = [g \in Groups |-> Less(cool[g])]
    /\ reserve' = Less(reserve) /\ nextProbe' = Less(nextProbe)
    /\ metric' = [g \in Groups |-> [metric[g] EXCEPT !.wait = Less(@)]]
    /\ req' = [r \in Requests |-> [req[r] EXCEPT !.left = Less(@)]]
    /\ UNCHANGED <<current, anchor, floor, probing, cursor, failures>>

-----------------------------------------------------------------------------

Step(r) == Pick(r) \/ Headers(r) \/ Fails(r) \/ Token(r) \/ Ends(r)

BalancedNext ==
    \/ Tick \/ ApplySettings
    \/ \E g \in Groups : ResetCircuit({g})
    \/ \E r \in Requests : Step(r)

\* Clients keep asking; the transport's timeout ends every request; and not
\* every request is cancelled before its first token.
BalancedSpec ==
    /\ BalancedInit /\ [][BalancedNext]_balancedVars
    /\ WF_balancedVars(Tick)
    /\ \A r \in Requests :
          /\ WF_balancedVars(Step(r))
          /\ SF_balancedVars(Pick(r)) /\ SF_balancedVars(Headers(r))
          /\ SF_balancedVars(Token(r))

-----------------------------------------------------------------------------
(* Properties *)

\* Types; and the floor is that of the tier that serves: no change of it leaves
\* a floor behind that would shut out the tiers below the former one.
BalancedTypeOK ==
    /\ {current, anchor, probing, cursor} \subseteq Groups \cup {None}
    /\ floor \in {-1, Price(current)}
    /\ \A g \in Groups :
          /\ metric[g].slow \in 0..Confirmations
          /\ metric[g].recovery \in 0..(Confirmations - 1)
          /\ metric[g].wait \in 0..Larger(Interval, Stale)
          /\ cool[g] \in 0..Cooldown
    /\ nextProbe \in 0..Interval /\ reserve \in 0..Reserved

\* While one request holds the reservation, no other is lent to a cheaper tier,
\* although late answers of other requests end a probe early (key_pool.py:549).
OneProbeAtATime ==
    \A r, s \in Requests : req[r].left > 0 /\ req[s].left > 0 => r = s

\* While one tier goes on serving, every cheaper one that stays available is
\* probed again and again: a probe that never reported, failed or was answered
\* slowly blocks neither the next probe nor another tier's turn.
ProbesResume ==
    \A g \in Groups :
        /\ <>[](cool[g] = 0 /\ Sort[g] < Price(current))
        /\ <>[][UNCHANGED current]_current
        => []<>(probing = g)

\* A tier whose first tokens are slow does not serve for ever while a dearer one
\* is there.
SlowTierLeft == []<>(current \notin Slow)
=============================================================================

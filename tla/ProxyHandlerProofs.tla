-------------------------- MODULE ProxyHandlerProofs --------------------------
(***************************************************************************)
(* Proofs about the proxy handler, for any requests, sessions, groups,     *)
(* modes, thresholds and cooldowns.                                        *)
(*                                                                         *)
(* The invariant has one part for the data (Typed), one for the request    *)
(* (Inspection and Accounts) and one for the circuits for misses (Misses), *)
(* where the streak of a session never exceeds the misses of its group     *)
(* since the last hit.                                                     *)
(***************************************************************************)
EXTENDS ProxyHandler, TLAPS

Stages == {"idle", "inspecting", "working", "sent", "streaming"}

Handling ==
    [stage : Stages, session : Sessions \cup {""}, family : Families \cup {""},
     body : Bodies \cup {"", "masked"}, policy : Modes \cup {""}, lax : BOOLEAN,
     group : Groups \cup {""}, status : {"", "ok", "denied", "page"},
     answered : BOOLEAN, open : BOOLEAN, records : Nat]

Circuit == [left : Nat, kind : Kinds \cup {""}]
Metric  == [streak : 0..MissThreshold, left : 0..MissCooldown]

Data ==
    /\ circuit \in [Groups -> Circuit]
    /\ metric \in [Groups -> [Sessions -> Metric]]
    /\ cold \in [Groups -> 0..MissThreshold]

\* A request that may still be sent as it came has seen a mode that lets it pass.
InspectionOf(q) ==
    /\ q.stage = "inspecting" =>
         /\ q.body # "packed" /\ q.policy \in Modes
         /\ q.policy \in Lax \/ mode \in Lax => q.lax
    /\ q.stage = "working" /\ q.body \in Secrets => q.lax
    /\ q.stage = "sent" => q.body = ""

\* What is open, and what is logged.
AccountsOf(q) ==
    /\ q.open <=> q.stage = "streaming"
    /\ q.stage \in {"sent", "streaming"} => q.group \in Groups
    /\ q.stage = "streaming" => q.session \in Sessions /\ q.answered
    /\ q.stage # "idle" => q.records = 0
    /\ q.stage \in {"inspecting", "working", "sent"} => ~q.answered
    /\ q.records <= 1
    /\ q.stage = "idle" /\ q.answered => q.records = 1

Sound(q) == InspectionOf(q) /\ AccountsOf(q)

Misses ==
    /\ CacheLeavesOne
    /\ MissesAreConsecutive
    /\ \A g \in Groups, s \in Sessions : metric[g][s].streak <= cold[g]

HandlerInv ==
    /\ mode \in Modes
    /\ req \in [Requests -> Handling]
    /\ \A r \in Requests : Sound(req[r])
    /\ Data
    /\ Misses

-----------------------------------------------------------------------------
(* The circuits.                                                           *)

LEMMA Cooldowns ==
    /\ FailureCooldown \in Nat /\ FailureCooldown > 0
    /\ MissCooldown \in Nat /\ MissCooldown > 0
    /\ MissThreshold \in Nat /\ MissThreshold > 0
BY HandlerAssumption, SMT

\* A failure of a key renames no circuit to one for misses.
LEMMA TrippedByFailure ==
    ASSUME NEW c \in Circuit, NEW k \in Failures
    PROVE  /\ Tripped(c, k, FailureCooldown) \in Circuit
           /\ Tripped(c, k, FailureCooldown).kind = "cache_miss" => c.left > 0 /\ c.kind = "cache_miss"
<1> DEFINE t == Tripped(c, k, FailureCooldown)
<1>1. c.left \in Nat /\ c.kind \in Kinds \cup {""}
  BY DEF Circuit
<1>2. k # "cache_miss" /\ k \in Kinds
  BY HandlerAssumption DEF Kinds
<1>3. t.left \in {FailureCooldown, c.left}
  BY DEF Tripped
<1>4. t.kind = k \/ (c.left # 0 /\ t.kind = c.kind)
  BY DEF Tripped
<1>5. t = [left |-> t.left, kind |-> t.kind]
  BY DEF Tripped
<1> HIDE DEF t
<1>6. t \in Circuit
  BY <1>1, <1>2, <1>3, <1>4, <1>5, Cooldowns DEF Circuit
<1>7. c.left # 0 => c.left > 0
  <2>1. \A n \in Nat : n # 0 => n > 0
    BY SMT
  <2> QED BY <1>1, <2>1
<1>8. t.kind = "cache_miss" => c.left > 0 /\ c.kind = "cache_miss"
  BY <1>2, <1>4, <1>7
<1> QED BY <1>6, <1>8 DEF t

LEMMA FailureKeeps ==
    ASSUME Data, Misses, NEW g \in Groups, NEW k \in Failures,
           Trip(g, k, FailureCooldown), UNCHANGED <<metric, cold>>
    PROVE  Data' /\ Misses'
<1> DEFINE c == Tripped(circuit[g], k, FailureCooldown)
<1>1. c \in Circuit /\ (c.kind = "cache_miss" => circuit[g].left > 0 /\ circuit[g].kind = "cache_miss")
  BY TrippedByFailure DEF Data
<1>2. circuit' = [circuit EXCEPT ![g] = c]
  BY DEF Trip
<1> HIDE DEF c
<1>3. \A h \in Groups : circuit'[h] = IF h = g THEN c ELSE circuit[h]
  BY <1>2 DEF Data
<1>4. Data'
  BY <1>1, <1>2 DEF Data
<1>5. CacheLeavesOne'
  BY <1>1, <1>3 DEF Misses, CacheLeavesOne, Cooling
<1>6. MissesAreConsecutive'
  BY <1>1, <1>3 DEF Misses, MissesAreConsecutive, Cooling
<1> QED BY <1>4, <1>5, <1>6 DEF Misses

\* A circuit that is closed, or for misses and closed by a hit, leaves fewer.
LEMMA ClosingKeeps ==
    ASSUME Data, Misses, NEW g \in Groups, NEW c \in {Closed, circuit[g]},
           circuit' = [circuit EXCEPT ![g] = c],
           \/ UNCHANGED <<metric, cold>>
           \/ /\ c.kind # "cache_miss"
              /\ metric' = [metric EXCEPT ![g] = [s \in Sessions |-> NoMetric]]
              /\ cold' = [cold EXCEPT ![g] = 0]
    PROVE  Data' /\ Misses'
<1>1. \A h \in Groups : circuit'[h] = IF h = g THEN c ELSE circuit[h]
  BY DEF Data
<1>2. c \in Circuit
  <2>1. Closed \in Circuit
    BY DEF Closed, Circuit
  <2> QED BY <2>1 DEF Data
<1>3. Closed.left = 0
  BY DEF Closed
<1>4. [s \in Sessions |-> NoMetric] \in [Sessions -> Metric] /\ 0 \in 0..MissThreshold
  BY Cooldowns, SMT DEF NoMetric, Metric
<1>5. Data'
  BY <1>2, <1>4 DEF Data
<1>6. CacheLeavesOne'
  <2>1. PICK h \in Groups : ~(Cooling(h) /\ circuit[h].kind = "cache_miss")
    BY DEF Misses, CacheLeavesOne
  <2>2. ~(circuit'[h].left > 0 /\ circuit'[h].kind = "cache_miss")
    BY <1>1, <1>3, <2>1, SMT DEF Cooling
  <2> QED BY <2>2 DEF CacheLeavesOne, Cooling
<1>7. MissesAreConsecutive'
  <2> SUFFICES ASSUME NEW h \in Groups, circuit'[h].left > 0, circuit'[h].kind = "cache_miss"
               PROVE  cold'[h] = MissThreshold
    BY DEF MissesAreConsecutive, Cooling
  <2>1. cold[h] = MissThreshold
    BY <1>1, <1>3, SMT DEF Misses, MissesAreConsecutive, Cooling
  <2>2. cold'[h] = cold[h]
    BY <1>1 DEF Data
  <2> QED BY <2>1, <2>2
<1>8. \A h \in Groups, s \in Sessions : metric'[h][s].streak <= cold'[h]
  <2> SUFFICES ASSUME NEW h \in Groups, NEW s \in Sessions
               PROVE  metric'[h][s].streak <= cold'[h]
    OBVIOUS
  <2>1. CASE metric'[h] = metric[h] /\ cold'[h] = cold[h]
    BY <2>1 DEF Misses
  <2>2. CASE metric'[h] = [t \in Sessions |-> NoMetric] /\ cold'[h] = 0
    BY <2>2, SMT DEF NoMetric
  <2> QED BY <2>1, <2>2 DEF Data
<1> QED BY <1>5, <1>6, <1>7, <1>8 DEF Misses

LEMMA LongerIsBounded ==
    ASSUME NEW n \in 0..MissThreshold
    PROVE  /\ Longer(n) \in 0..MissThreshold
           /\ n <= Longer(n)
           /\ \A m \in 0..MissThreshold : m <= n => Longer(m) <= Longer(n)
BY Cooldowns, SMT DEF Longer

\* A miss trips a group only when another does not cool, and the streak of the
\* session that reaches the threshold is no longer than that of the group.
LEMMA MissKeeps ==
    ASSUME Data, Misses, NEW g \in Groups, NEW s \in Sessions, Miss(g, s)
    PROVE  Data' /\ Misses'
<1> DEFINE streak == Longer(metric[g][s].streak)
           trips == streak = MissThreshold /\ Alternative(g)
           left == IF trips /\ metric[g][s].left = 0 THEN MissCooldown ELSE metric[g][s].left
           m == [streak |-> streak, left |-> left]
           c == Tripped(circuit[g], "cache_miss", left)
<1>1. /\ metric' = [metric EXCEPT ![g][s] = m]
      /\ cold' = [cold EXCEPT ![g] = Longer(cold[g])]
      /\ circuit' = IF trips THEN [circuit EXCEPT ![g] = c] ELSE circuit
  BY DEF Miss, Trip
<1>2. metric[g][s] \in Metric /\ circuit[g] \in Circuit /\ cold[g] \in 0..MissThreshold
  BY DEF Data
<1>3. /\ metric[g][s].streak \in 0..MissThreshold
      /\ metric[g][s].left \in 0..MissCooldown
      /\ circuit[g].left \in Nat /\ circuit[g].kind \in Kinds \cup {""}
  BY <1>2 DEF Metric, Circuit
<1>4. streak \in 0..MissThreshold /\ streak <= Longer(cold[g])
  BY <1>2, <1>3, LongerIsBounded DEF Misses
<1>5. left \in 0..MissCooldown /\ left \in Nat
  <2>1. left \in {MissCooldown, metric[g][s].left}
    OBVIOUS
  <2>2. MissCooldown \in 0..MissCooldown /\ 0..MissCooldown \subseteq Nat
    BY Cooldowns, SMT
  <2> QED BY <1>3, <2>1, <2>2
<1>6. m \in Metric
  BY <1>4, <1>5 DEF Metric
<1>7. c \in Circuit
  <2>1. c = [left |-> c.left, kind |-> c.kind]
    BY DEF Tripped
  <2>2. c.left \in {left, circuit[g].left} /\ c.kind \in {"cache_miss", circuit[g].kind}
    BY DEF Tripped
  <2> HIDE DEF c
  <2> QED BY <1>3, <1>5, <2>1, <2>2 DEF Circuit, Kinds
<1>8. Longer(cold[g]) \in 0..MissThreshold
  BY <1>2, LongerIsBounded
<1> HIDE DEF m, c, left, streak
<1>9. Data'
  BY <1>1, <1>6, <1>7, <1>8 DEF Data
<1>10. /\ \A h \in Groups : cold'[h] = IF h = g THEN Longer(cold[g]) ELSE cold[h]
       /\ \A h \in Groups : h # g => circuit'[h] = circuit[h] /\ metric'[h] = metric[h]
       /\ ~trips => circuit' = circuit
       /\ \A t \in Sessions : metric'[g][t] = IF t = s THEN m ELSE metric[g][t]
  BY <1>1 DEF Data
<1>11. CacheLeavesOne'
  <2>1. CASE trips
    <3>1. PICK h \in Groups \ {g} : ~Cooling(h)
      BY <2>1 DEF Alternative
    <3> QED BY <1>10, <3>1 DEF CacheLeavesOne, Cooling
  <2>2. CASE ~trips
    BY <1>10, <2>2 DEF Misses, CacheLeavesOne, Cooling
  <2> QED BY <2>1, <2>2
<1>12. \A h \in Groups : cold[h] = MissThreshold => cold'[h] = MissThreshold
  BY <1>10, Cooldowns, SMT DEF Data, Longer
<1>13. MissesAreConsecutive'
  <2> SUFFICES ASSUME NEW h \in Groups, circuit'[h].left > 0, circuit'[h].kind = "cache_miss"
               PROVE  cold'[h] = MissThreshold
    BY DEF MissesAreConsecutive, Cooling
  <2>1. CASE h = g /\ trips
    BY <1>4, <1>8, <1>10, <2>1, Cooldowns, SMT
  <2>2. CASE ~(h = g /\ trips)
    <3>1. circuit'[h] = circuit[h]
      BY <1>10, <2>2
    <3> QED BY <1>12, <3>1 DEF Misses, MissesAreConsecutive, Cooling
  <2> QED BY <2>1, <2>2
<1>14. \A h \in Groups, t \in Sessions : metric'[h][t].streak <= cold'[h]
  <2> SUFFICES ASSUME NEW h \in Groups, NEW t \in Sessions
               PROVE  metric'[h][t].streak <= cold'[h]
    OBVIOUS
  <2>1. metric[h][t].streak <= cold[h] /\ metric[h][t].streak \in 0..MissThreshold
    BY DEF Misses, Data, Metric
  <2>2. CASE h = g /\ t = s
    BY <1>4, <1>10, <2>2 DEF m
  <2>3. CASE h = g /\ t # s
    BY <1>2, <1>8, <1>10, <2>1, <2>3, LongerIsBounded, Cooldowns, SMT
  <2>4. CASE h # g
    BY <1>10, <2>1, <2>4
  <2> QED BY <2>2, <2>3, <2>4
<1> QED BY <1>9, <1>11, <1>13, <1>14 DEF Misses

LEMMA CoolerIsQuieter ==
    ASSUME NEW c \in Circuit
    PROVE  /\ Cooler(c) \in Circuit
           /\ Cooler(c).left > 0 => c.left > 0 /\ Cooler(c).kind = c.kind
<1>1. c.left \in Nat /\ c = [left |-> c.left, kind |-> c.kind] /\ c.kind \in Kinds \cup {""}
  BY DEF Circuit
<1>2. Closed.left = 0 /\ Closed \in Circuit
  BY DEF Closed, Circuit
<1>3. CASE c.left > 1
  <2>1. Cooler(c) = [left |-> c.left - 1, kind |-> c.kind]
    BY <1>1, <1>3 DEF Cooler
  <2>2. c.left - 1 \in Nat /\ c.left > 0
    <3>1. \A n \in Nat : n > 1 => n - 1 \in Nat /\ n > 0
      BY SMT
    <3> QED BY <1>1, <1>3, <3>1
  <2>3. [left |-> c.left - 1, kind |-> c.kind] \in Circuit
    BY <1>1, <2>2 DEF Circuit
  <2>4. [left |-> c.left - 1, kind |-> c.kind].kind = c.kind
    OBVIOUS
  <2> QED BY <2>1, <2>2, <2>3, <2>4
<1>4. CASE ~(c.left > 1)
  <2>1. Cooler(c) = Closed
    BY <1>4 DEF Cooler
  <2>2. ~(0 > 0)
    BY SMT
  <2> QED BY <1>2, <2>1, <2>2
<1> QED BY <1>3, <1>4

LEMMA TickKeeps ==
    ASSUME Data, Misses, Tick
    PROVE  Data' /\ Misses'
<1>1. \A g \in Groups : circuit'[g] = Cooler(circuit[g]) /\ circuit[g] \in Circuit
  BY DEF Tick, Data
<1>2. \A g \in Groups : circuit'[g] \in Circuit
  BY <1>1, CoolerIsQuieter
<1>3. ASSUME NEW g \in Groups, NEW s \in Sessions
      PROVE  /\ metric'[g][s] = [metric[g][s] EXCEPT !.left = Earlier(@)]
             /\ metric'[g][s] \in Metric
             /\ metric'[g][s].streak = metric[g][s].streak
  <2>1. metric'[g][s] = [metric[g][s] EXCEPT !.left = Earlier(@)]
    BY DEF Tick
  <2>2. metric[g][s] \in Metric
    BY DEF Data
  <2>3. metric[g][s].left \in 0..MissCooldown
    BY <2>2 DEF Metric
  <2>4. Earlier(metric[g][s].left) \in 0..MissCooldown
    BY <2>3, Cooldowns, SMT DEF Earlier
  <2> QED BY <2>1, <2>2, <2>4 DEF Metric
<1>4. Data'
  <2>1. circuit' \in [Groups -> Circuit]
    BY <1>2 DEF Tick
  <2>2. metric' \in [Groups -> [Sessions -> Metric]]
    <3>1. \A g \in Groups : metric'[g] = [s \in Sessions |-> metric'[g][s]]
      BY DEF Tick
    <3>2. metric' = [g \in Groups |-> metric'[g]]
      BY DEF Tick
    <3> QED BY <1>3, <3>1, <3>2
  <2>3. cold' = cold
    BY DEF Tick
  <2> QED BY <2>1, <2>2, <2>3 DEF Data
<1>5. \A g \in Groups : circuit'[g].left > 0 => circuit[g].left > 0 /\ circuit'[g].kind = circuit[g].kind
  BY <1>1, CoolerIsQuieter
<1>6. CacheLeavesOne' /\ MissesAreConsecutive'
  BY <1>5 DEF Tick, Misses, CacheLeavesOne, MissesAreConsecutive, Cooling
<1>7. \A g \in Groups, s \in Sessions : metric'[g][s].streak <= cold'[g]
  BY <1>3 DEF Tick, Misses
<1> QED BY <1>4, <1>6, <1>7 DEF Misses

-----------------------------------------------------------------------------
(* The requests.                                                           *)

LEMMA RequestMoves ==
    ASSUME HandlerInv, NEW r \in Requests, NEW q \in Handling, Sound(q),
           Becomes(r, q), mode' = mode, Data', Misses'
    PROVE  HandlerInv'
<1>1. req' \in [Requests -> Handling]
  BY DEF HandlerInv, Becomes
<1>2. \A s \in Requests : req'[s] = IF s = r THEN q ELSE req[s]
  BY DEF HandlerInv, Becomes
<1>3. \A s \in Requests : Sound(req[s])'
  <2> SUFFICES ASSUME NEW s \in Requests
               PROVE  Sound(req[s])'
    OBVIOUS
  <2>1. CASE s = r
    <3>1. req'[s] = q
      BY <1>2, <2>1
    <3> QED BY <3>1 DEF Sound, InspectionOf, AccountsOf
  <2>2. CASE s # r
    <3>1. req'[s] = req[s] /\ Sound(req[s])
      BY <1>2, <2>2 DEF HandlerInv
    <3> QED BY <3>1 DEF Sound, InspectionOf, AccountsOf
  <2> QED BY <2>1, <2>2
<1> QED BY <1>1, <1>3 DEF HandlerInv

\* The circuits are left alone.
LEMMA QuietMove ==
    ASSUME HandlerInv, NEW r \in Requests, NEW q \in Handling, Sound(q),
           Becomes(r, q), UNCHANGED <<mode, circuit, metric, cold>>
    PROVE  HandlerInv'
<1>1. Data' /\ Misses'
  BY DEF HandlerInv, Data, Misses, CacheLeavesOne, MissesAreConsecutive, Cooling
<1> QED BY <1>1, RequestMoves

LEMMA NoRequestIsSound == NoRequest \in Handling /\ Sound(NoRequest)
<1>1. 0 \in Nat /\ 0 <= 1
  BY SMT
<1> QED BY <1>1 DEF NoRequest, Handling, Stages, Sound, InspectionOf, AccountsOf

LEMMA ReturnedIsSound ==
    ASSUME NEW q \in Handling, q.records = 0, NEW n \in {0, 1}, q.answered => n = 1
    PROVE  Returned(q, n) \in Handling /\ Sound(Returned(q, n))
<1> DEFINE t == Returned(q, n)
<1>1. q.records + n = n /\ n \in Nat /\ n <= 1
  BY SMT
<1>2. t = [NoRequest EXCEPT !.answered = q.answered, !.records = n]
  BY <1>1 DEF Returned
<1>3. t = [stage |-> "idle", session |-> "", family |-> "", body |-> "", policy |-> "",
           lax |-> FALSE, group |-> "", status |-> "", answered |-> q.answered,
           open |-> FALSE, records |-> n]
  BY <1>2 DEF NoRequest
<1> HIDE DEF t
<1>4. q.answered \in BOOLEAN
  BY DEF Handling
<1>5. t \in Handling
  BY <1>1, <1>3, <1>4 DEF Handling, Stages
<1>6. /\ t.stage = "idle" /\ t.answered = q.answered /\ t.open = FALSE
      /\ t.records = n
  BY <1>3
<1>7. Sound(t)
  BY <1>1, <1>6 DEF Sound, InspectionOf, AccountsOf
<1> QED BY <1>5, <1>7 DEF t

LEMMA HeldIsSound ==
    ASSUME HandlerInv, NEW r \in Requests
    PROVE  req[r] \in Handling /\ Sound(req[r])
BY DEF HandlerInv

-----------------------------------------------------------------------------
(* The actions.                                                            *)

LEMMA ArriveKeeps ==
    ASSUME HandlerInv, NEW r \in Requests, Arrive(r)
    PROVE  HandlerInv'
<1>1. PICK b \in Bodies :
        LET q == [NoRequest EXCEPT !.body = b, !.lax = mode \in Lax]
        IN  \/ /\ mode = "off" \/ (b = "packed" /\ mode \notin Blocking)
               /\ Becomes(r, [q EXCEPT !.stage = "working"])
            \/ Becomes(r, NoRequest)
            \/ /\ b # "packed"
               /\ Becomes(r, [q EXCEPT !.stage = "inspecting", !.policy = mode])
  BY DEF Arrive
<1> DEFINE l == mode \in Lax
           w == [NoRequest EXCEPT !.body = b, !.lax = l, !.stage = "working"]
           i == [NoRequest EXCEPT !.body = b, !.lax = l, !.stage = "inspecting", !.policy = mode]
<1>2. UNCHANGED <<mode, circuit, metric, cold>>
  BY DEF Arrive
<1>3. mode \in Modes /\ mode \in {"off", "audit", "redact", "block"}
  BY HandlerAssumption DEF HandlerInv
<1>4. l \in BOOLEAN
  OBVIOUS
<1>5. CASE (mode = "off" \/ (b = "packed" /\ mode \notin Blocking)) /\ Becomes(r, w)
  <2>1. l
    BY <1>3, <1>5 DEF Lax, Blocking
  <2>2. w \in Handling
    BY <1>4, NoRequestIsSound DEF Handling, Stages
  <2>3. /\ w.stage = "working" /\ w.lax = l /\ w.records = 0
        /\ w.answered = FALSE /\ w.open = FALSE
    BY DEF NoRequest
  <2>4. 0 <= 1
    BY SMT
  <2>5. Sound(w)
    BY <2>1, <2>3, <2>4 DEF Sound, InspectionOf, AccountsOf
  <2> HIDE DEF w, l
  <2> QED BY <1>2, <1>5, <2>2, <2>5, QuietMove
<1>6. CASE Becomes(r, NoRequest)
  BY <1>2, <1>6, NoRequestIsSound, QuietMove
<1>7. CASE b # "packed" /\ Becomes(r, i)
  <2>1. i \in Handling
    BY <1>3, <1>4, NoRequestIsSound DEF Handling, Stages
  <2>2. /\ i.stage = "inspecting" /\ i.lax = l /\ i.records = 0 /\ i.policy = mode
        /\ i.answered = FALSE /\ i.open = FALSE /\ i.body = b
    BY DEF NoRequest
  <2>3. 0 <= 1
    BY SMT
  <2>4. Sound(i)
    BY <1>3, <1>7, <2>2, <2>3 DEF Sound, InspectionOf, AccountsOf
  <2> HIDE DEF i, l
  <2> QED BY <1>2, <1>7, <2>1, <2>4, QuietMove
<1> QED BY <1>1, <1>5, <1>6, <1>7

LEMMA InspectedKeeps ==
    ASSUME HandlerInv, NEW r \in Requests, Inspected(r)
    PROVE  HandlerInv'
<1> DEFINE q == req[r]
           body == IF q.body = "secret" /\ q.policy = "redact" THEN "masked" ELSE q.body
           w == [q EXCEPT !.stage = "working", !.policy = "", !.body = body]
<1>1. /\ q.stage = "inspecting"
      /\ UNCHANGED <<mode, circuit, metric, cold>>
      /\ Becomes(r, IF Refused(q) THEN NoRequest ELSE w)
  BY DEF Inspected
<1>2. q \in Handling /\ Sound(q)
  BY HeldIsSound
<1>3. CASE Refused(q)
  BY <1>1, <1>3, NoRequestIsSound, QuietMove
<1>4. CASE ~Refused(q)
  <2>1. body \in {"masked", q.body} /\ q.body \in Bodies \cup {"", "masked"}
    BY <1>2 DEF Handling
  <2> HIDE DEF body
  <2>2. w \in Handling
    BY <1>2, <2>1 DEF Handling, Stages
  <2>3. /\ w.stage = "working" /\ w.lax = q.lax /\ w.records = q.records /\ w.body = body
        /\ w.answered = q.answered /\ w.open = q.open
    BY <1>2 DEF Handling
  <2>4. body \in Secrets => q.lax
    <3>1. mode \in {"off", "audit", "redact", "block"} /\ q.policy \in {"off", "audit", "redact", "block"}
      BY <1>1, <1>2, HandlerAssumption DEF HandlerInv, Sound, InspectionOf
    <3>2. q.body # "packed" /\ (q.policy \in Lax \/ mode \in Lax => q.lax)
      BY <1>1, <1>2 DEF Sound, InspectionOf
    <3>3. ASSUME body \in Secrets
          PROVE  q.policy \in Lax \/ mode \in Lax
      <4>1. CASE body = "opaque" /\ FailClosed
        BY <1>4, <2>1, <4>1 DEF Refused
      <4>2. CASE body = "deep"
        <5>1. q.body = "deep"
          BY <2>1, <4>2
        <5> QED BY <1>4, <3>1, <5>1 DEF Refused, Blocking, Lax
      <4>3. CASE body = "secret"
        <5>1. q.body = "secret" /\ q.policy # "redact"
          BY <2>1, <4>3 DEF body
        <5> QED BY <1>4, <3>1, <5>1 DEF Refused, Lax
      <4>4. CASE body = "packed"
        BY <2>1, <3>2, <4>4
      <4> QED BY <3>3, <4>1, <4>2, <4>3, <4>4 DEF Secrets
    <3> QED BY <3>2, <3>3
  <2>5. Sound(w)
    BY <1>1, <1>2, <2>3, <2>4 DEF Sound, InspectionOf, AccountsOf
  <2> HIDE DEF w, q
  <2> QED BY <1>1, <1>4, <2>2, <2>5, QuietMove
<1> QED BY <1>3, <1>4

LEMMA SetModeKeeps ==
    ASSUME HandlerInv, NEW m \in Modes, SetMode(m)
    PROVE  HandlerInv'
<1>1. mode' = m /\ UNCHANGED <<circuit, metric, cold>>
  BY DEF SetMode
<1>2. Data' /\ Misses'
  BY <1>1 DEF HandlerInv, Data, Misses, CacheLeavesOne, MissesAreConsecutive, Cooling
<1>3. ASSUME NEW s \in Requests
      PROVE  req'[s] \in Handling /\ Sound(req[s])'
  <2> DEFINE q == req[s]
             l == q.lax \/ m \in Lax
             w == [q EXCEPT !.lax = l]
  <2>1. q \in Handling /\ Sound(q)
    BY HeldIsSound
  <2>2. CASE q.stage = "inspecting"
    <3>1. req'[s] = w
      BY <2>2 DEF SetMode
    <3>2. l \in BOOLEAN
      BY <2>1 DEF Handling
    <3>3. w \in Handling
      BY <2>1, <3>2 DEF Handling
    <3>4. /\ w.stage = q.stage /\ w.body = q.body /\ w.policy = q.policy /\ w.lax = l
          /\ w.open = q.open /\ w.records = q.records /\ w.answered = q.answered
      BY <2>1 DEF Handling
    <3> HIDE DEF w, q
    <3> QED BY <1>1, <2>1, <2>2, <3>1, <3>3, <3>4 DEF Sound, InspectionOf, AccountsOf, q
  <2>3. CASE q.stage # "inspecting"
    <3>1. req'[s] = q
      BY <2>3 DEF SetMode
    <3> QED BY <2>1, <2>3, <3>1 DEF Sound, InspectionOf, AccountsOf
  <2> QED BY <2>2, <2>3
<1>4. req' \in [Requests -> Handling]
  BY <1>3 DEF SetMode
<1> QED BY <1>1, <1>2, <1>3, <1>4 DEF HandlerInv

LEMMA SendKeeps ==
    ASSUME HandlerInv, NEW r \in Requests, NEW g \in Groups, Send(r, g)
    PROVE  HandlerInv'
<1> DEFINE q == req[r]
           w == [q EXCEPT !.stage = "sent", !.group = g, !.body = "", !.lax = FALSE]
<1>1. q.stage = "working" /\ Becomes(r, w) /\ UNCHANGED <<mode, circuit, metric, cold>>
  BY DEF Send
<1>2. q \in Handling /\ Sound(q)
  BY HeldIsSound
<1>3. w \in Handling
  BY <1>2 DEF Handling, Stages
<1>4. /\ w.stage = "sent" /\ w.group = g /\ w.body = "" /\ w.open = q.open
      /\ w.answered = q.answered /\ w.records = q.records
  BY <1>2 DEF Handling
<1>5. Sound(w)
  BY <1>1, <1>2, <1>4 DEF Sound, InspectionOf, AccountsOf
<1> HIDE DEF w, q
<1> QED BY <1>1, <1>3, <1>5, QuietMove

LEMMA AttemptFailsKeeps ==
    ASSUME HandlerInv, NEW r \in Requests, NEW k \in Failures, AttemptFails(r, k)
    PROVE  HandlerInv'
<1> DEFINE q == req[r]
           w == [q EXCEPT !.stage = "working", !.group = ""]
<1>1. /\ q.stage = "sent" /\ Becomes(r, w) /\ Trip(q.group, k, FailureCooldown)
      /\ mode' = mode /\ UNCHANGED <<metric, cold>>
  BY DEF AttemptFails
<1>2. q \in Handling /\ Sound(q)
  BY HeldIsSound
<1>3. w \in Handling
  BY <1>2 DEF Handling, Stages
<1>4. /\ w.stage = "working" /\ w.body = q.body /\ w.open = q.open
      /\ w.answered = q.answered /\ w.records = q.records
  BY <1>2 DEF Handling
<1>5. q.body = "" /\ q.group \in Groups
  BY <1>1, <1>2 DEF Sound, InspectionOf, AccountsOf
<1>6. "" \notin Secrets
  BY DEF Secrets
<1>7. Sound(w)
  BY <1>1, <1>2, <1>4, <1>5, <1>6 DEF Sound, InspectionOf, AccountsOf
<1>8. Data' /\ Misses'
  BY <1>1, <1>5, FailureKeeps DEF HandlerInv
<1> HIDE DEF w, q
<1> QED BY <1>1, <1>3, <1>7, <1>8, RequestMoves

LEMMA AnswersKeeps ==
    ASSUME HandlerInv, NEW r \in Requests, NEW status \in {"ok", "denied", "page"},
           Answers(r, status)
    PROVE  HandlerInv'
<1> DEFINE q == req[r]
<1>1. /\ q.stage = "sent" /\ mode' = mode /\ UNCHANGED <<metric, cold>>
      /\ \/ circuit' = [circuit EXCEPT ![q.group] = Closed]
         \/ \E k \in Failures : Trip(q.group, k, FailureCooldown)
         \/ UNCHANGED circuit
  BY DEF Answers
<1>2. PICK f \in Families, s \in Sessions :
        Becomes(r, [q EXCEPT !.stage = "streaming", !.status = status, !.family = f,
                             !.session = s, !.answered = TRUE, !.open = TRUE])
  BY DEF Answers
<1> DEFINE w == [q EXCEPT !.stage = "streaming", !.status = status, !.family = f,
                          !.session = s, !.answered = TRUE, !.open = TRUE]
<1>3. q \in Handling /\ Sound(q)
  BY HeldIsSound
<1>4. w \in Handling
  BY <1>3 DEF Handling, Stages
<1>5. /\ w.stage = "streaming" /\ w.session = s /\ w.answered = TRUE /\ w.open = TRUE
      /\ w.group = q.group /\ w.records = q.records
  BY <1>3 DEF Handling
<1>6. q.group \in Groups
  BY <1>1, <1>3 DEF Sound, AccountsOf
<1>7. Sound(w)
  BY <1>1, <1>3, <1>5 DEF Sound, InspectionOf, AccountsOf
<1>8. Data' /\ Misses'
  <2>1. CASE UNCHANGED circuit
    <3>1. circuit' = [circuit EXCEPT ![q.group] = circuit[q.group]]
      BY <2>1 DEF HandlerInv, Data
    <3> QED
      BY <1>1, <1>6, <3>1, ClosingKeeps DEF HandlerInv
  <2>2. CASE ~ UNCHANGED circuit
    BY <1>1, <1>6, <2>2, FailureKeeps, ClosingKeeps DEF HandlerInv
  <2> QED
    BY <2>1, <2>2
<1> HIDE DEF w, q
<1>9. Becomes(r, w)
  BY <1>2 DEF w
<1> QED BY <1>1, <1>4, <1>7, <1>8, <1>9, RequestMoves

\* The three ways to return without a word about the key.
LEMMA ReturnsKeep ==
    ASSUME HandlerInv, NEW r \in Requests, GivesUp(r) \/ ClientLeaves(r) \/ Denied(r)
    PROVE  HandlerInv'
<1> DEFINE q == req[r]
<1>1. q \in Handling /\ Sound(q)
  BY HeldIsSound
<1>2. UNCHANGED <<mode, circuit, metric, cold>>
  BY DEF GivesUp, ClientLeaves, Denied
<1>3. PICK n \in {0, 1} : Becomes(r, Returned(q, n)) /\ q.stage # "idle"
                          /\ (n = 1 \/ q.stage \in {"working", "sent"})
  BY DEF GivesUp, ClientLeaves, Denied
<1>4. q.records = 0 /\ (q.answered => n = 1)
  BY <1>1, <1>3 DEF Sound, AccountsOf
<1> HIDE DEF q
<1>5. Returned(q, n) \in Handling /\ Sound(Returned(q, n))
  BY <1>1, <1>4, ReturnedIsSound
<1> QED BY <1>2, <1>3, <1>5, QuietMove

LEMMA HitKeeps ==
    ASSUME Data, Misses, NEW g \in Groups, Hit(g)
    PROVE  Data' /\ Misses'
<1> DEFINE c == IF circuit[g].kind = "cache_miss" THEN Closed ELSE circuit[g]
<1>1. c \in {Closed, circuit[g]} /\ c.kind # "cache_miss"
  BY DEF Closed
<1>2. /\ circuit' = [circuit EXCEPT ![g] = c]
      /\ metric' = [metric EXCEPT ![g] = [s \in Sessions |-> NoMetric]]
      /\ cold' = [cold EXCEPT ![g] = 0]
  BY DEF Hit
<1> HIDE DEF c
<1> QED BY <1>1, <1>2, ClosingKeeps

LEMMA FinalizeKeeps ==
    ASSUME HandlerInv, NEW r \in Requests, NEW ending \in Endings, Finalize(r, ending)
    PROVE  HandlerInv'
<1> DEFINE q == req[r]
<1>1. q \in Handling /\ Sound(q)
  BY HeldIsSound
<1>2. q.stage = "streaming" /\ Becomes(r, Returned(q, 1)) /\ mode' = mode
  BY DEF Finalize
<1>3. q.records = 0 /\ q.group \in Groups /\ q.session \in Sessions
  BY <1>1, <1>2 DEF Sound, AccountsOf
<1>4. Returned(q, 1) \in Handling /\ Sound(Returned(q, 1))
  BY <1>1, <1>3, ReturnedIsSound
<1>5. PICK heard :
        \/ /\ BlamesKey(q, heard)
           /\ Trip(q.group, heard.error, FailureCooldown)
           /\ UNCHANGED <<metric, cold>>
        \/ RecordCacheUsage(q.group, q.session, heard.usage)
        \/ UNCHANGED <<circuit, metric, cold>>
  BY DEF Finalize
<1>6. Data /\ Misses
  BY DEF HandlerInv
<1>7. Data' /\ Misses'
  <2>1. CASE /\ BlamesKey(q, heard)
             /\ Trip(q.group, heard.error, FailureCooldown)
             /\ UNCHANGED <<metric, cold>>
    BY <1>3, <1>6, <2>1, FailureKeeps DEF BlamesKey
  <2>2. CASE RecordCacheUsage(q.group, q.session, heard.usage)
    BY <1>3, <1>6, <2>2, HitKeeps, MissKeeps DEF RecordCacheUsage
  <2>3. CASE UNCHANGED <<circuit, metric, cold>>
    BY <1>6, <2>3 DEF Data, Misses, CacheLeavesOne, MissesAreConsecutive, Cooling
  <2> QED BY <1>5, <2>1, <2>2, <2>3
<1> HIDE DEF q
<1> QED BY <1>2, <1>4, <1>7, RequestMoves

LEMMA OutsideKeeps ==
    ASSUME HandlerInv, (\E g \in Groups : ResetCircuit(g)) \/ Tick
    PROVE  HandlerInv'
<1>1. UNCHANGED <<mode, req>>
  BY DEF ResetCircuit, Tick
<1>2. Data' /\ Misses'
  <2>1. CASE \E g \in Groups : ResetCircuit(g)
    <3>1. PICK g \in Groups : ResetCircuit(g)
      BY <2>1
    <3>2. Closed.kind # "cache_miss"
      BY DEF Closed
    <3> QED BY <3>1, <3>2, ClosingKeeps DEF ResetCircuit, HandlerInv
  <2>2. CASE Tick
    BY <2>2, TickKeeps DEF HandlerInv
  <2> QED BY <2>1, <2>2
<1>3. \A r \in Requests : Sound(req[r])'
  BY <1>1 DEF HandlerInv, Sound, InspectionOf, AccountsOf
<1> QED BY <1>1, <1>2, <1>3 DEF HandlerInv

-----------------------------------------------------------------------------
(* The theorems.                                                           *)

\* A view without groups serves nothing.
LEMMA InitIsSound ==
    ASSUME Groups # {}, HandlerInit
    PROVE  HandlerInv
<1>1. \A r \in Requests : req[r] = NoRequest
  BY DEF HandlerInit
<1>2. req \in [Requests -> Handling] /\ \A r \in Requests : Sound(req[r])
  BY <1>1, NoRequestIsSound DEF HandlerInit
<1>3. /\ Closed \in Circuit /\ ~(Closed.left > 0)
      /\ NoMetric \in Metric /\ NoMetric.streak = 0 /\ 0 \in 0..MissThreshold /\ 0 <= 0
  <2>1. 0 \in Nat /\ ~(0 > 0) /\ 0 <= 0 /\ 0 \in 0..MissThreshold /\ 0 \in 0..MissCooldown
    BY Cooldowns, SMT
  <2> QED BY <2>1 DEF Closed, Circuit, NoMetric, Metric
<1>4. /\ \A g \in Groups : circuit[g] = Closed /\ cold[g] = 0
      /\ \A g \in Groups, s \in Sessions : metric[g][s] = NoMetric
  BY DEF HandlerInit
<1>5. Data
  BY <1>3 DEF HandlerInit, Data
<1>6. Misses
  BY <1>3, <1>4 DEF Misses, CacheLeavesOne, MissesAreConsecutive, Cooling
<1> QED BY <1>2, <1>5, <1>6 DEF HandlerInv, HandlerInit

LEMMA NextIsSound ==
    ASSUME HandlerInv, [HandlerNext]_handlerVars
    PROVE  HandlerInv'
<1>1. CASE UNCHANGED handlerVars
  BY <1>1 DEF handlerVars, HandlerInv, Sound, InspectionOf, AccountsOf, Data, Misses,
              CacheLeavesOne, MissesAreConsecutive, Cooling
<1>2. ASSUME NEW r \in Requests, Step(r)
      PROVE  HandlerInv'
  BY <1>2, ArriveKeeps, InspectedKeeps, SendKeeps, AttemptFailsKeeps, AnswersKeeps,
     ReturnsKeep, FinalizeKeeps DEF Step
<1> QED BY <1>1, <1>2, SetModeKeeps, OutsideKeeps DEF HandlerNext

LEMMA InvariantHolds ==
    ASSUME Groups # {}
    PROVE  HandlerSpec => []HandlerInv
<1>1. HandlerInit => HandlerInv
  BY InitIsSound
<1>2. HandlerInv /\ [HandlerNext]_handlerVars => HandlerInv'
  BY NextIsSound
<1> QED BY <1>1, <1>2, PTL DEF HandlerSpec

\* No secret leaves as it came unless a mode in force meanwhile lets it pass,
\* however the mode is changed while bodies are inspected (api.py:735-794).
THEOREM RawLeavesOnlyIfAllowed ==
    ASSUME Groups # {}
    PROVE  HandlerSpec => []RawOnlyIfAllowed
<1>1. HandlerInv => RawOnlyIfAllowed
  BY DEF HandlerInv, Sound, InspectionOf, RawOnlyIfAllowed
<1> QED BY <1>1, InvariantHolds, PTL

\* Every answer of an upstream is closed and logged once (api.py:938-1096).
THEOREM EveryAnswerIsLoggedOnce ==
    ASSUME Groups # {}
    PROVE  HandlerSpec => []AnswersAreAccounted
<1>1. HandlerInv => AnswersAreAccounted
  BY DEF HandlerInv, Sound, AccountsOf, AnswersAreAccounted
<1> QED BY <1>1, InvariantHolds, PTL

\* Circuits for misses never take every group of a view (key_pool.py:816-837).
THEOREM OneGroupIsLeft ==
    ASSUME Groups # {}
    PROVE  HandlerSpec => []CacheLeavesOne
<1>1. HandlerInv => CacheLeavesOne
  BY DEF HandlerInv, Misses
<1> QED BY <1>1, InvariantHolds, PTL

\* A group cools for misses only after the threshold of misses since its last
\* hit, in whatever session that was (key_pool.py:793-815).
THEOREM OnlyMissesInARow ==
    ASSUME Groups # {}
    PROVE  HandlerSpec => []MissesAreConsecutive
<1>1. HandlerInv => MissesAreConsecutive
  BY DEF HandlerInv, Misses
<1> QED BY <1>1, InvariantHolds, PTL

\* The types of the handler's variables (api.py:691-1097).
THEOREM HandlerTypes ==
    ASSUME Groups # {}
    PROVE  HandlerSpec => []HandlerTypeOK
<1>1. HandlerInv => HandlerTypeOK
  <2> SUFFICES ASSUME HandlerInv PROVE HandlerTypeOK
    OBVIOUS
  <2>1. \A r \in Requests : req[r] \in Handling /\ Sound(req[r])
    BY HeldIsSound
  <2> QED BY <2>1 DEF HandlerInv, HandlerTypeOK, Data, Circuit, Metric, Handling, Stages,
                      Sound, AccountsOf
<1> QED BY <1>1, InvariantHolds, PTL
=============================================================================

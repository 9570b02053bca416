-------------------------- MODULE HedgedRetryProofs --------------------------
(***************************************************************************)
(* Proofs about one hedged request, for any number of attempts, any waits  *)
(* and any limit of attempts in flight.                                    *)
(*                                                                         *)
(* The invariant follows the request through its stages.  While it         *)
(* searches, an attempt that is no longer watched was answered, failed,    *)
(* and its response is closed or about to be (Searching).  When it has a   *)
(* winner, what else is open is still watched or about to be closed (Won), *)
(* and in the end it is closed (Ending, Leaving).  Gaps relates what the   *)
(* upstream asked for to the gate that keeps the next launch back.         *)
(***************************************************************************)
EXTENDS HedgedRetry, FiniteSetTheorems, TLAPS

Settled(n) == task[n] = "answered" /\ reply[n] # "good"

Tasks ==
    /\ \A n \in Attempts : /\ task[n] = "unsent" <=> n > sent
                           /\ reply[n] = "none" <=> task[n] # "answered"
    /\ \A n \in open : task[n] = "answered" /\ reply[n] # "error"
    /\ close \subseteq open

\* The request has no winner and is not over.
Searching ==
    pc \in {"idle", "fire", "waiting", "backoff", "processing", "discarding"} =>
        /\ winner = 0 /\ result = "none"
        /\ watched \subseteq Launched
        /\ open \subseteq watched \cup close /\ watched \cap close = {}
        /\ \A n \in Launched : IF n \in watched THEN task[n] \in {"flight", "answered"}
                                                ELSE Settled(n)
        /\ \A n \in watched : task[n] = "answered" /\ reply[n] # "error" => n \in open
        /\ pc \in {"idle", "fire", "backoff"} => watched = {}
        /\ pc \in {"processing", "discarding"} =>
               mode = "stagger" /\ batch \subseteq Answered(watched)
        /\ pc \notin {"waiting", "discarding"} \/ (pc = "waiting" /\ mode = "stagger")
               => close = {}
        /\ pc = "fire" => mode = "race"
        /\ pc = "idle" => sent = 0

\* The winner is known, and the losers are being cancelled.
Won ==
    pc = "gather" =>
        /\ result = "none"
        /\ winner \in open \ watched /\ reply[winner] = "good"
        /\ mode = "race" =>
              /\ winner \notin close /\ Pending \subseteq watched
              /\ \A n \in open : n \in watched \cup close \/ reply[n] = "good"

\* No attempt runs any more, and what is left is being closed.
Ending ==
    pc = "closing" =>
        /\ result = "none" /\ Pending = {}
        /\ \A n \in open \ close : n = winner \/ (mode = "race" /\ reply[n] = "good")
        /\ IF winner = 0
           THEN /\ mode = "race" /\ watched = {} /\ open \subseteq close
                /\ \A n \in Launched : Settled(n)
           ELSE winner \in open \ close /\ reply[winner] = "good"

\* The client has left, or waited too long.
Leaving ==
    /\ pc \in {"cancelling", "cancel_closing"} => result \in {"timeout", "disconnected"}
    /\ pc = "cancel_closing" => Pending = {} /\ open = close

\* No launch is due before what the upstream asked for has passed.
Gaps ==
    /\ pc = "idle" => quiet = 0
    /\ mode = "stagger" => quiet <= gate
    /\ mode = "race" =>
          /\ pc \in {"waiting", "gather", "closing"} =>
                quiet <= asked /\ (asked > 0 => "limit" \in failures)
          /\ pc = "backoff" => "auth" \in failures \/ quiet <= gate
          /\ pc = "fire" => "auth" \in failures \/ quiet = 0

HedgeInv ==
    /\ HedgeTypeOK
    /\ Tasks /\ Searching /\ Won /\ Ending /\ Leaving /\ Gaps
    /\ NothingIsLeft /\ NoAnswerIsLost

-----------------------------------------------------------------------------
(* The data.                                                               *)

LEMMA Constants ==
    /\ MaxAttempts \in Nat /\ MaxAttempts > 0
    /\ MaxConcurrent \in Nat /\ MaxConcurrent > 0
    /\ Interval \in 0..MaxLag /\ MaxLag \in Nat
    /\ Backoffs \subseteq 0..MaxLag /\ RetryAfters \subseteq 0..MaxLag
BY HedgeAssumption

LEMMA Replies == Outcomes \subseteq Failed \cup {"good", "error"} /\ "none" \notin Outcomes
BY HedgeAssumption DEF OutcomeNames, Failed

\* The later of two deadlines is a deadline.
LEMMA MostOf ==
    ASSUME NEW a \in 0..MaxLag, NEW b \in 0..MaxLag
    PROVE  Most(a, b) \in 0..MaxLag /\ Most(a, b) >= a /\ Most(a, b) >= b
BY Constants DEF Most

\* The gate moves on to what is left of a wait, and never back.
LEMMA LaterOf ==
    ASSUME NEW left \in 0..MaxLag, NEW wait \in 0..MaxLag, NEW age \in 0..MaxLag
    PROVE  /\ Later(left, wait, age) \in 0..MaxLag
           /\ Later(left, wait, age) >= left
           /\ wait > age => Later(left, wait, age) >= wait - age
<1> DEFINE rest == IF wait > age THEN wait - age ELSE 0
<1>1. rest \in 0..MaxLag
  BY Constants
<1>2. Later(left, wait, age) = Most(left, rest)
  BY DEF Later
<1>3. QED
  BY <1>1, <1>2, MostOf

LEMMA InitHolds ==
    ASSUME HedgeInit
    PROVE  HedgeInv
<1>1. HedgeTypeOK
  BY Constants DEF HedgeInit, HedgeTypeOK, Attempts
<1>2. Tasks /\ Searching /\ Won /\ Ending /\ Leaving /\ Gaps
  BY Constants DEF HedgeInit, Tasks, Searching, Won, Ending, Leaving, Gaps, Attempts, Launched
<1>3. NothingIsLeft /\ NoAnswerIsLost
  BY DEF HedgeInit, NothingIsLeft, NoAnswerIsLost
<1>4. QED
  BY <1>1, <1>2, <1>3 DEF HedgeInv

-----------------------------------------------------------------------------
(* The attempts.                                                           *)

LEMMA AnswerKeeps ==
    ASSUME HedgeInv, NEW n \in Attempts, Answer(n)
    PROVE  HedgeInv'
<1>1. /\ task[n] \in {"flight", "stopping"}
      /\ task' = [task EXCEPT ![n] = "answered"]
      /\ UNCHANGED <<mode, pc, sent, watched, batch, failures, asked, close,
                     winner, gate, lag, result, quiet>>
  BY DEF Answer
<1>2. PICK o \in Outcomes :
        /\ reply' = [reply EXCEPT ![n] = o]
        /\ open' = IF o = "error" THEN open ELSE open \cup {n}
  BY DEF Answer
<1>3. o # "none"
  BY Replies
<1>4. HedgeTypeOK'
  BY <1>1, <1>2 DEF HedgeInv, HedgeTypeOK
<1>5. n \in Launched /\ n \notin open /\ n \in Pending
  BY <1>1, Constants DEF HedgeInv, HedgeTypeOK, Tasks, Launched, Attempts, Pending
<1>6. Tasks'
  BY <1>1, <1>2, <1>3 DEF HedgeInv, HedgeTypeOK, Tasks
<1>7. Searching'
  <2> SUFFICES ASSUME pc \in {"idle", "fire", "waiting", "backoff", "processing", "discarding"}
               PROVE  Searching'
    BY <1>1 DEF Searching
  <2>1. n \in watched
    BY <1>1, <1>5 DEF HedgeInv, Searching, Settled
  <2>2. Answered(watched) \subseteq Answered(watched)'
    BY <1>1 DEF HedgeInv, HedgeTypeOK, Answered
  <2>3. \A m \in Launched : IF m \in watched THEN task'[m] \in {"flight", "answered"}
                                             ELSE Settled(m)'
    BY <1>1, <1>2, <2>1 DEF HedgeInv, HedgeTypeOK, Searching, Settled
  <2>4. \A m \in watched : task'[m] = "answered" /\ reply'[m] # "error" => m \in open'
    BY <1>1, <1>2 DEF HedgeInv, HedgeTypeOK, Searching
  <2>5. open' \subseteq watched \cup close
    BY <1>2, <2>1 DEF HedgeInv, Searching
  <2>6. QED
    BY <1>1, <2>2, <2>3, <2>4, <2>5 DEF HedgeInv, Searching, Launched
<1>8. Won'
  <2>1. pc = "gather" => winner # n
    BY <1>5 DEF HedgeInv, Won
  <2>2. \A m \in open : reply'[m] = reply[m]
    BY <1>2, <1>5 DEF HedgeInv, HedgeTypeOK
  <2>3. pc = "gather" /\ mode = "race" => n \in watched
    BY <1>5 DEF HedgeInv, Won
  <2>4. Pending' \subseteq Pending /\ open \subseteq open' /\ open' \subseteq open \cup {n}
    BY <1>1, <1>2 DEF HedgeInv, HedgeTypeOK, Pending
  <2>5. QED
    BY <1>1, <2>1, <2>2, <2>3, <2>4 DEF HedgeInv, Won
<1>9. Ending' /\ Leaving'
  BY <1>1, <1>5 DEF HedgeInv, Ending, Leaving
<1>10. Gaps'
  BY <1>1 DEF HedgeInv, Gaps
<1>11. NothingIsLeft' /\ NoAnswerIsLost'
  <2>1. pc # "done"
    BY <1>5 DEF HedgeInv, NothingIsLeft
  <2>2. QED
    BY <1>1, <1>2, <1>5, <2>1 DEF HedgeInv, NothingIsLeft, NoAnswerIsLost, HedgeTypeOK
<1>12. QED
  BY <1>4, <1>6, <1>7, <1>8, <1>9, <1>10, <1>11 DEF HedgeInv

\* One more attempt, under stagger.
LEMMA LaunchKeeps ==
    ASSUME HedgeInv, Launch, mode = "stagger", sent < MaxAttempts,
           pc \in {"idle", "waiting", "backoff", "processing"},
           UNCHANGED <<mode, reply, open, batch, failures, asked, close, winner,
                       lag, result>>
    PROVE  HedgeInv'
<1> DEFINE n == sent + 1
<1>1. /\ n \in Attempts /\ n \notin Launched /\ n \notin watched
      /\ Launched' = Launched \cup {n} /\ task[n] = "unsent"
  BY Constants DEF HedgeInv, HedgeTypeOK, Tasks, Searching, Attempts, Launched, Launch
<1>2. /\ task' = [task EXCEPT ![n] = "flight"] /\ watched' = watched \cup {n}
      /\ sent' = n /\ pc' = "waiting"
      /\ gate' = Later(gate, Interval, 0) /\ quiet' = Most(quiet, Interval)
  BY DEF Launch
<1>3. /\ gate' \in 0..MaxLag /\ gate' >= gate /\ gate' >= Interval
      /\ quiet' \in 0..MaxLag /\ quiet' \in {quiet, Interval}
  <2>1. 0 \in 0..MaxLag /\ gate \in 0..MaxLag /\ quiet \in 0..MaxLag
    BY Constants DEF HedgeInv, HedgeTypeOK
  <2>2. gate' \in 0..MaxLag /\ gate' >= gate /\ (Interval > 0 => gate' >= Interval)
    BY <1>2, <2>1, Constants, LaterOf
  <2>3. quiet' \in 0..MaxLag /\ quiet' \in {quiet, Interval}
    BY <1>2, <2>1, Constants DEF Most
  <2>4. QED
    BY <2>1, <2>2, <2>3, Constants
<1>4. n \in 0..MaxAttempts
  BY <1>1, Constants DEF HedgeInv, HedgeTypeOK
<1> HIDE DEF n
<1>5. HedgeTypeOK'
  BY <1>1, <1>2, <1>3, <1>4 DEF HedgeInv, HedgeTypeOK
<1>6. winner = 0 /\ result = "none" /\ close = {}
  BY DEF HedgeInv, Searching
<1>7. Tasks'
  <2>1. \A m \in Attempts : m > n <=> m > sent /\ m # n
    BY <1>1, <1>2, Constants DEF HedgeInv, HedgeTypeOK, Attempts, n
  <2>2. n \notin open
    BY <1>1 DEF HedgeInv, Tasks
  <2>3. QED
    BY <1>1, <1>2, <2>1, <2>2 DEF HedgeInv, HedgeTypeOK, Tasks
<1>8. Searching'
  BY <1>1, <1>2, <1>6 DEF HedgeInv, HedgeTypeOK, Searching, Settled
<1>9. (Won /\ Ending /\ Leaving)' /\ (NothingIsLeft /\ NoAnswerIsLost)'
  BY <1>2, <1>6 DEF Won, Ending, Leaving, NothingIsLeft, NoAnswerIsLost
<1>10. Gaps'
  BY <1>2, <1>3, Constants DEF HedgeInv, HedgeTypeOK, Gaps
<1>11. QED
  BY <1>5, <1>7, <1>8, <1>9, <1>10 DEF HedgeInv

LEMMA GateOpensKeeps ==
    ASSUME HedgeInv, GateOpens
    PROVE  HedgeInv'
<1>1. sent < MaxAttempts
  BY Constants DEF GateOpens, CanFire, Exhausted, HedgeInv, HedgeTypeOK
<1>2. QED
  BY <1>1, LaunchKeeps DEF GateOpens

LEMMA EndBatchKeeps ==
    ASSUME HedgeInv, EndBatch
    PROVE  HedgeInv'
<1>1. CASE CanFire /\ Launch
  <2>1. sent < MaxAttempts
    BY <1>1, Constants DEF CanFire, Exhausted, HedgeInv, HedgeTypeOK
  <2>2. UNCHANGED result
    BY <1>1 DEF EndBatch, Launch, Finish, HedgeInv, HedgeTypeOK
  <2>3. QED
    BY <1>1, <2>1, <2>2, LaunchKeeps DEF EndBatch
<1>2. CASE watched # {} /\ pc' = "waiting" /\ UNCHANGED <<sent, task, watched, gate, quiet, result>>
  BY <1>2 DEF EndBatch, HedgeInv, HedgeTypeOK, Tasks, Searching, Won, Ending, Leaving, Gaps,
              NothingIsLeft, NoAnswerIsLost, Answered, Settled, Launched, Pending
<1>3. CASE watched = {} /\ UNCHANGED <<sent, task, watched, gate, quiet>>
  <2>1. Pending = {} /\ open = {} /\ winner = 0 /\ mode = "stagger" /\ result = "none"
    BY <1>3 DEF EndBatch, HedgeInv, HedgeTypeOK, Tasks, Searching, Settled, Pending, Launched, Attempts
  <2>2. \/ Exhausted /\ pc' = "done" /\ result' = "gave_up"
        \/ pc' = "backoff" /\ result' = "none"
    BY <1>3, <2>1 DEF EndBatch, NoneToCome, Finish
  <2>3. Exhausted => sent = MaxAttempts /\ Launched = Attempts
    BY Constants DEF Exhausted, HedgeInv, HedgeTypeOK, Launched, Attempts
  <2>4. \A n \in Launched : Settled(n)
    BY <1>3 DEF EndBatch, HedgeInv, Searching
  <2>5. QED
    BY <1>3, <2>1, <2>2, <2>3, <2>4
       DEF EndBatch, HedgeInv, HedgeTypeOK, Tasks, Searching, Won, Ending, Leaving, Gaps,
           NothingIsLeft, NoAnswerIsLost, Answered, Settled, Launched, Pending
<1>4. QED
  BY <1>1, <1>2, <1>3 DEF EndBatch

LEMMA BeginKeeps ==
    ASSUME HedgeInv, Begin
    PROVE  HedgeInv'
<1>1. CASE mode = "stagger" /\ Launch
  <2>1. sent < MaxAttempts
    BY Constants DEF Begin, HedgeInv, Searching
  <2>2. QED
    BY <1>1, <2>1, LaunchKeeps DEF Begin
<1>2. CASE mode = "race" /\ pc' = "fire" /\ UNCHANGED <<sent, task, watched, gate, quiet>>
  BY <1>2 DEF Begin, HedgeInv, HedgeTypeOK, Tasks, Searching, Won, Ending, Leaving, Gaps,
              NothingIsLeft, NoAnswerIsLost, Settled, Launched, Pending
<1>3. QED
  BY <1>1, <1>2 DEF Begin

-----------------------------------------------------------------------------
(* A race.                                                                 *)

LEMMA FireKeeps ==
    ASSUME HedgeInv, Fire
    PROVE  HedgeInv'
<1>1. /\ ToFire \in Nat /\ sent + ToFire <= MaxAttempts
      /\ ToFire = 0 => sent = MaxAttempts
  BY Constants DEF ToFire, Least, HedgeInv, HedgeTypeOK
<1>2. /\ winner = 0 /\ result = "none" /\ mode = "race"
      /\ watched = {} /\ open = {} /\ close = {}
      /\ \A n \in Launched : Settled(n)
  BY DEF Fire, HedgeInv, Searching
<1>3. Pending = {}
  BY <1>2, Constants DEF HedgeInv, HedgeTypeOK, Tasks, Settled, Pending, Launched, Attempts
<1>4. UNCHANGED <<mode, reply, open, batch, close, winner, gate, lag>> /\ quiet' = 0
  BY DEF Fire
<1>5. CASE ToFire = 0
  <2>1. /\ pc' = "done" /\ result' = "gave_up"
        /\ UNCHANGED <<sent, task, watched, failures, asked>>
    BY <1>5 DEF Fire, Finish
  <2>2. HedgeTypeOK' /\ Tasks'
    BY <1>4, <2>1, Constants DEF HedgeInv, HedgeTypeOK, Tasks
  <2>3. (Searching /\ Won /\ Ending /\ Leaving /\ Gaps)'
    BY <1>2, <1>4, <2>1 DEF Searching, Won, Ending, Leaving, Gaps
  <2>4. Launched = Attempts
    BY <1>1, <1>5 DEF Launched, Attempts
  <2>5. (NothingIsLeft /\ NoAnswerIsLost)'
    BY <1>1, <1>2, <1>3, <1>4, <1>5, <2>1, <2>4 DEF NothingIsLeft, NoAnswerIsLost, Settled, Pending
  <2>6. QED
    BY <2>2, <2>3, <2>5 DEF HedgeInv
<1>6. CASE ToFire # 0
  <2> DEFINE round == (sent + 1)..(sent + ToFire)
  <2>1. /\ sent' = sent + ToFire /\ pc' = "waiting" /\ UNCHANGED result
        /\ task' = [n \in Attempts |-> IF n \in round THEN "flight" ELSE task[n]]
        /\ watched' = round /\ failures' = {} /\ asked' = 0
    BY <1>6 DEF Fire
  <2>2. sent \in Nat /\ round \subseteq Attempts /\ sent' \in 0..MaxAttempts
    BY <1>1, <2>1, Constants DEF HedgeInv, HedgeTypeOK, Attempts
  <2>3. /\ Launched' = Launched \cup round /\ Launched \cap round = {}
        /\ \A n \in Attempts : n > sent' <=> n > sent /\ n \notin round
        /\ \A n \in round : n > sent
    BY <1>1, <2>1, <2>2, Constants DEF Launched, Attempts
  <2> HIDE DEF round
  <2>4. HedgeTypeOK'
    BY <1>4, <2>1, <2>2, Constants DEF HedgeInv, HedgeTypeOK
  <2>5. Tasks'
    BY <1>2, <1>4, <2>1, <2>2, <2>3 DEF HedgeInv, HedgeTypeOK, Tasks
  <2>6. Searching'
    <3>1. \A n \in Launched' : IF n \in round THEN task'[n] = "flight" ELSE Settled(n)'
      <4>1. Launched \subseteq Attempts
        BY Constants DEF HedgeInv, HedgeTypeOK, Launched, Attempts
      <4>2. QED
        BY <1>2, <1>4, <2>1, <2>2, <2>3, <4>1 DEF Settled
    <3>2. QED
      BY <1>2, <1>4, <2>1, <2>3, <3>1 DEF Searching
  <2>7. (Won /\ Ending /\ Leaving /\ Gaps)'
    BY <1>2, <1>4, <2>1, Constants DEF Won, Ending, Leaving, Gaps
  <2>8. (NothingIsLeft /\ NoAnswerIsLost)'
    BY <1>2, <1>4, <2>1 DEF NothingIsLeft, NoAnswerIsLost
  <2>9. QED
    BY <2>4, <2>5, <2>6, <2>7, <2>8 DEF HedgeInv
<1>7. QED
  BY <1>5, <1>6

LEMMA RaceCollectKeeps ==
    ASSUME HedgeInv, RaceCollect
    PROVE  HedgeInv'
<1> DEFINE done == Answered(watched)
           good == WithReply(done, {"good"})
           rest == watched \ done
<1>1. /\ mode = "race" /\ pc = "waiting" /\ winner = 0 /\ result = "none"
      /\ watched \subseteq Launched /\ Launched \subseteq Attempts
      /\ open \subseteq watched \cup close /\ watched \cap close = {} /\ close \subseteq open
      /\ \A n \in Launched \ watched : Settled(n)
      /\ \A n \in rest : task[n] = "flight"
      /\ \A n \in done : n \notin open => reply[n] = "error"
  BY Constants DEF RaceCollect, HedgeInv, HedgeTypeOK, Tasks, Searching, Launched, Attempts, Answered
<1>2. /\ watched' = rest /\ close' = close \cup WithReply(done, Failed)
      /\ failures' = failures \cup {reply[n] : n \in done \ good}
      /\ UNCHANGED <<mode, sent, reply, open, batch, gate, lag, result>>
      /\ pc' = IF rest = {} THEN "closing" ELSE IF good = {} THEN "waiting" ELSE "gather"
  BY DEF RaceCollect
<1>3. PICK ra \in (IF WithReply(done, {"limit"}) = {} THEN {0} ELSE RetryAfters) :
        asked' = Most(asked, ra) /\ quiet' = Most(quiet, ra)
  BY DEF RaceCollect
<1>4. \A n \in done : reply[n] \in Failed \cup {"good", "error"} /\ n \in Attempts
  BY <1>1, Replies DEF HedgeInv, HedgeTypeOK, Tasks, Answered
<1>5. /\ asked' \in 0..MaxLag /\ quiet' \in 0..MaxLag
      /\ quiet' <= asked' /\ (asked' > 0 => "limit" \in failures')
  <2>1. ra \in 0..MaxLag /\ (ra > 0 => WithReply(done, {"limit"}) # {})
    BY Constants
  <2>2. ra > 0 => "limit" \in failures'
    BY <1>2, <2>1 DEF WithReply
  <2>3. asked \in 0..MaxLag /\ quiet \in 0..MaxLag /\ quiet <= asked
        /\ (asked > 0 => "limit" \in failures)
    BY <1>1 DEF HedgeInv, HedgeTypeOK, Gaps
  <2>4. QED
    BY <1>2, <1>3, <2>1, <2>2, <2>3, Constants DEF Most
<1>6. Gaps'
  BY <1>1, <1>2, <1>5 DEF Gaps
<1>7. failures' \in SUBSET Outcomes /\ close' \in SUBSET Attempts /\ watched' \in SUBSET Attempts
  BY <1>2 DEF HedgeInv, HedgeTypeOK, Tasks, Answered, WithReply
<1>8. /\ open \subseteq rest \cup close' \cup good
      /\ close' \subseteq open /\ close' \cap good = {} /\ rest \cap close' = {}
      /\ good \subseteq open /\ good \cap rest = {} /\ good \subseteq Launched
      /\ \A n \in good : task[n] = "answered" /\ reply[n] = "good"
  BY <1>1, <1>2, <1>4 DEF Answered, WithReply, Failed, HedgeInv, Tasks
<1>9. CASE good = {}
  <2>1. UNCHANGED <<winner, task>>
    BY <1>9 DEF RaceCollect
  <2>2. HedgeTypeOK' /\ Tasks'
    BY <1>2, <1>5, <1>7, <1>8, <2>1 DEF HedgeInv, HedgeTypeOK, Tasks
  <2>3. \A n \in Launched \ rest : Settled(n)
    BY <1>1, <1>9 DEF Settled, Answered, WithReply
  <2>4. Searching'
    BY <1>1, <1>2, <1>8, <1>9, <2>1, <2>3 DEF HedgeInv, Searching, Launched, Settled
  <2>5. rest = {} => Pending = {}
    BY <1>1, <2>3, Constants DEF Pending, Settled, HedgeInv, HedgeTypeOK, Tasks, Launched, Attempts
  <2>6. (Won /\ Ending /\ Leaving)'
    BY <1>1, <1>2, <1>8, <1>9, <2>1, <2>3, <2>5 DEF Won, Ending, Leaving, Pending, Settled, Launched
  <2>7. (NothingIsLeft /\ NoAnswerIsLost)'
    BY <1>1, <1>2 DEF NothingIsLeft, NoAnswerIsLost
  <2>8. QED
    BY <1>6, <2>2, <2>4, <2>6, <2>7 DEF HedgeInv
<1>10. CASE good # {}
  <2>1. PICK w \in good : winner' = w /\ task' = Cancelled(Launched)
    BY <1>10 DEF RaceCollect, Win
  <2>2. \A n \in Attempts : task'[n] = IF n \in rest THEN "stopping" ELSE task[n]
    <3>1. \A n \in Launched : task[n] = "flight" <=> n \in rest
      BY <1>1 DEF Answered, Settled
    <3>2. QED
      BY <1>1, <2>1, <3>1 DEF Cancelled
  <2>3. task' \in [Attempts -> {"unsent", "flight", "stopping", "answered", "cancelled"}]
    BY <2>1 DEF Cancelled, HedgeInv, HedgeTypeOK
  <2>4. w \in 0..MaxAttempts /\ w # 0
    <3>1. w \in Attempts
      BY <1>1, <1>8
    <3>2. QED
      BY <3>1, Constants DEF Attempts
  <2>5. HedgeTypeOK'
    BY <1>2, <1>5, <1>7, <2>1, <2>3, <2>4 DEF HedgeInv, HedgeTypeOK
  <2>6. Tasks'
    BY <1>1, <1>2, <1>8, <2>2 DEF HedgeInv, HedgeTypeOK, Tasks
  <2>7. Pending' \subseteq rest
    BY <1>1, <2>2, Constants
       DEF Pending, Answered, Settled, HedgeInv, HedgeTypeOK, Tasks, Launched, Attempts
  <2>8. Won' /\ Ending'
    BY <1>1, <1>2, <1>8, <2>1, <2>4, <2>7 DEF Won, Ending
  <2>9. (Searching /\ Leaving)' /\ (NothingIsLeft /\ NoAnswerIsLost)'
    BY <1>1, <1>2, <1>10 DEF Searching, Leaving, NothingIsLeft, NoAnswerIsLost
  <2>10. QED
    BY <1>6, <2>5, <2>6, <2>8, <2>9 DEF HedgeInv
<1>11. QED
  BY <1>9, <1>10

LEMMA NextRoundKeeps ==
    ASSUME HedgeInv, NextRound
    PROVE  HedgeInv'
<1>1. /\ mode = "race" /\ pc = "backoff" /\ gate = 0 /\ pc' = "fire"
      /\ UNCHANGED <<mode, sent, task, reply, open, watched, batch, failures,
                     asked, close, winner, gate, lag, result, quiet>>
  BY DEF NextRound
<1>2. HedgeTypeOK' /\ Tasks'
  BY <1>1 DEF HedgeInv, HedgeTypeOK, Tasks
<1>3. Searching'
  BY <1>1 DEF HedgeInv, Searching, Launched, Settled
<1>4. Gaps'
  BY <1>1 DEF HedgeInv, HedgeTypeOK, Gaps
<1>5. (Won /\ Ending /\ Leaving)' /\ (NothingIsLeft /\ NoAnswerIsLost)'
  BY <1>1 DEF HedgeInv, Searching, Won, Ending, Leaving, NothingIsLeft, NoAnswerIsLost
<1>6. QED
  BY <1>2, <1>3, <1>4, <1>5 DEF HedgeInv

\* The end of a round, of either mode.
LEMMA EndRoundKeeps ==
    ASSUME HedgeInv, EndRound
    PROVE  HedgeInv'
<1>1. /\ pc = "closing" /\ close = {} /\ result = "none" /\ Pending = {}
      /\ UNCHANGED <<mode, sent, task, reply, open, watched, batch, failures,
                     asked, close, winner, lag, quiet>>
  BY DEF EndRound, HedgeInv, Ending
<1>2. /\ \A n \in open : n = winner \/ (mode = "race" /\ reply[n] = "good")
      /\ winner # 0 => winner \in open /\ reply[winner] = "good"
      /\ winner = 0 => /\ mode = "race" /\ watched = {} /\ open = {}
                       /\ \A n \in Launched : Settled(n)
  BY <1>1 DEF HedgeInv, Ending
<1>3. Tasks' /\ (Won /\ Ending)'
  BY <1>1 DEF EndRound, Finish, HedgeInv, Tasks, Won, Ending
<1>4. CASE /\ winner # 0 \/ Exhausted
           /\ pc' = "done" /\ result' = Verdict /\ UNCHANGED gate
  <2>1. HedgeTypeOK'
    BY <1>1, <1>4 DEF Verdict, HedgeInv, HedgeTypeOK
  <2>2. (Searching /\ Leaving /\ Gaps)'
    BY <1>1, <1>4 DEF HedgeInv, Searching, Leaving, Gaps
  <2>3. winner = 0 => sent = MaxAttempts /\ Launched = Attempts
    BY <1>4, Constants DEF Exhausted, HedgeInv, HedgeTypeOK, Launched, Attempts
  <2>4. (NothingIsLeft /\ NoAnswerIsLost)'
    BY <1>1, <1>2, <1>4, <2>3 DEF Verdict, NothingIsLeft, NoAnswerIsLost, Settled, Pending
  <2>5. QED
    BY <1>3, <2>1, <2>2, <2>4 DEF HedgeInv
<1>5. CASE winner = 0 /\ gate' \in RoundWaits /\ pc' = "backoff" /\ UNCHANGED result
  <2>1. PICK b \in Backoffs : gate' = IF "limit" \in failures /\ "auth" \notin failures
                                      THEN Most(b, asked) ELSE b
    BY <1>5 DEF RoundWaits
  <2>2. b \in 0..MaxLag /\ asked \in 0..MaxLag /\ quiet \in 0..MaxLag
    BY Constants DEF HedgeInv, HedgeTypeOK
  <2>3. /\ gate' \in 0..MaxLag
        /\ "limit" \in failures /\ "auth" \notin failures => gate' >= asked
    BY <2>1, <2>2, Constants DEF Most
  <2>4. HedgeTypeOK'
    BY <1>1, <1>5, <2>3 DEF HedgeInv, HedgeTypeOK
  <2>5. quiet <= asked /\ (asked > 0 => "limit" \in failures)
    BY <1>1, <1>2, <1>5 DEF HedgeInv, Gaps
  <2>6. Gaps'
    BY <1>1, <1>2, <1>5, <2>2, <2>3, <2>5 DEF Gaps
  <2>7. Searching'
    BY <1>1, <1>2, <1>5 DEF Searching, Settled, Launched
  <2>8. Leaving' /\ (NothingIsLeft /\ NoAnswerIsLost)'
    BY <1>1, <1>5 DEF Leaving, NothingIsLeft, NoAnswerIsLost
  <2>9. QED
    BY <1>3, <2>4, <2>6, <2>7, <2>8 DEF HedgeInv
<1>6. QED
  BY <1>4, <1>5 DEF EndRound, Finish

-----------------------------------------------------------------------------
(* Stagger, after a batch of replies.                                      *)

LEMMA ProcessKeeps ==
    ASSUME HedgeInv, NEW n \in Attempts, Process(n)
    PROVE  HedgeInv'
<1>1. /\ mode = "stagger" /\ pc = "processing" /\ n \in batch /\ watched' = watched \ {n}
      /\ UNCHANGED <<mode, sent, reply, open, failures, asked, lag, result>>
  BY DEF Process
<1>2. /\ n \in watched /\ n \in Launched /\ task[n] = "answered"
      /\ winner = 0 /\ result = "none" /\ close = {} /\ batch \subseteq Answered(watched)
      /\ open \subseteq watched /\ watched \subseteq Launched
      /\ reply[n] # "error" => n \in open
  BY <1>1 DEF HedgeInv, Searching, Answered
<1>3. \A m \in Launched \ watched' : Settled(m) \/ m = n
  BY <1>1 DEF HedgeInv, Searching
<1>4. CASE Failure(n)
  <2>1. PICK w \in Waits(n) :
          /\ gate' = Later(gate, w[1], lag)
          /\ quiet' = Most(quiet, IF w[2] > lag THEN w[2] - lag ELSE 0)
    BY <1>4 DEF Failure
  <2>2. /\ reply[n] # "good" /\ batch' = batch \ {n} /\ UNCHANGED <<winner, task>>
        /\ \/ reply[n] = "error" /\ UNCHANGED <<pc, close>>
           \/ reply[n] # "error" /\ pc' = "discarding" /\ close' = {n}
    BY <1>4 DEF Failure
  <2>3. w[1] \in 0..MaxLag /\ w[2] \in 0..MaxLag /\ w[2] <= w[1]
    BY Constants DEF Waits, Most
  <2>4. gate \in 0..MaxLag /\ quiet \in 0..MaxLag /\ lag \in 0..MaxLag /\ quiet <= gate
    BY <1>1 DEF HedgeInv, HedgeTypeOK, Gaps
  <2>5. gate' \in 0..MaxLag /\ gate' >= gate /\ (w[1] > lag => gate' >= w[1] - lag)
    BY <2>1, <2>3, <2>4, LaterOf
  <2>6. quiet' \in 0..MaxLag /\ quiet' <= gate'
    BY <2>1, <2>3, <2>4, <2>5, Constants DEF Most
  <2>7. HedgeTypeOK'
    BY <1>1, <2>2, <2>5, <2>6 DEF HedgeInv, HedgeTypeOK
  <2>8. Tasks'
    BY <1>1, <1>2, <2>2 DEF HedgeInv, Tasks
  <2>9. Searching'
    <3>1. \A m \in Launched : IF m \in watched' THEN task[m] \in {"flight", "answered"}
                                                ELSE Settled(m)
      BY <1>1, <1>2, <1>3, <2>2 DEF HedgeInv, Searching, Settled
    <3>2. open \subseteq watched' \cup close' /\ watched' \cap close' = {}
      BY <1>1, <1>2, <2>2 DEF HedgeInv, Tasks
    <3>3. batch' \subseteq Answered(watched')
      BY <1>1, <1>2, <2>2 DEF Answered
    <3>4. QED
      BY <1>1, <1>2, <2>2, <3>1, <3>2, <3>3
         DEF HedgeInv, Searching, Settled, Launched, Answered
  <2>10. Gaps'
    BY <1>1, <2>2, <2>6 DEF Gaps
  <2>11. (Won /\ Ending /\ Leaving)' /\ (NothingIsLeft /\ NoAnswerIsLost)'
    BY <1>1, <1>2, <2>2 DEF Won, Ending, Leaving, NothingIsLeft, NoAnswerIsLost
  <2>12. QED
    BY <2>7, <2>8, <2>9, <2>10, <2>11 DEF HedgeInv
<1>5. CASE Success(n)
  <2>1. /\ reply[n] = "good" /\ winner' = n /\ task' = Cancelled(Launched)
        /\ pc' = "gather" /\ batch' = {} /\ UNCHANGED <<gate, quiet, close>>
    BY <1>5 DEF Success, Win
  <2>2. \A m \in Attempts : task'[m] = IF m \in Launched /\ task[m] = "flight"
                                       THEN "stopping" ELSE task[m]
    BY <2>1 DEF Cancelled
  <2>3. task' \in [Attempts -> {"unsent", "flight", "stopping", "answered", "cancelled"}]
    BY <2>1 DEF Cancelled, HedgeInv, HedgeTypeOK
  <2>4. n \in 0..MaxAttempts
    BY Constants DEF Attempts
  <2>5. HedgeTypeOK'
    BY <1>1, <2>1, <2>3, <2>4 DEF HedgeInv, HedgeTypeOK
  <2>6. Tasks'
    BY <1>1, <2>1, <2>2 DEF HedgeInv, HedgeTypeOK, Tasks
  <2>7. Won'
    BY <1>1, <1>2, <2>1 DEF Won
  <2>8. (Searching /\ Ending /\ Leaving /\ Gaps)' /\ (NothingIsLeft /\ NoAnswerIsLost)'
    BY <1>1, <1>2, <2>1
       DEF HedgeInv, Searching, Ending, Leaving, Gaps, NothingIsLeft, NoAnswerIsLost
  <2>9. QED
    BY <2>5, <2>6, <2>7, <2>8 DEF HedgeInv
<1>6. QED
  BY <1>4, <1>5 DEF Process

-----------------------------------------------------------------------------
(* The steps between the stages.                                           *)

\* A cancelled attempt was not answered, and it was still to be waited for.
LEMMA StopKeeps ==
    ASSUME HedgeInv, NEW n \in Attempts, Stop(n)
    PROVE  HedgeInv'
<1>1. /\ task[n] = "stopping" /\ task' = [task EXCEPT ![n] = "cancelled"]
      /\ UNCHANGED <<mode, pc, sent, reply, open, watched, batch, failures, asked,
                     close, winner, gate, lag, result, quiet>>
  BY DEF Stop
<1>2. n \in Launched /\ n \in Pending /\ n \notin open /\ reply[n] = "none"
  BY <1>1, Constants DEF HedgeInv, HedgeTypeOK, Tasks, Launched, Attempts, Pending
<1>3. pc \notin {"idle", "fire", "waiting", "backoff", "processing", "discarding", "closing", "done"}
  BY <1>1, <1>2 DEF HedgeInv, Searching, Settled, Ending, NothingIsLeft
<1>4. Pending' \subseteq Pending
  BY <1>1 DEF HedgeInv, HedgeTypeOK, Pending
<1>5. HedgeTypeOK' /\ Tasks'
  BY <1>1, <1>2 DEF HedgeInv, HedgeTypeOK, Tasks
<1>6. (Searching /\ Won /\ Ending /\ Leaving /\ Gaps)'
  BY <1>1, <1>3, <1>4 DEF HedgeInv, Searching, Won, Ending, Leaving, Gaps
<1>7. (NothingIsLeft /\ NoAnswerIsLost)'
  BY <1>1, <1>2, <1>3 DEF HedgeInv, NothingIsLeft, NoAnswerIsLost
<1>8. QED
  BY <1>5, <1>6, <1>7 DEF HedgeInv

LEMMA GatherKeeps ==
    ASSUME HedgeInv, Gather
    PROVE  HedgeInv'
<1>1. /\ pc = "gather" /\ Pending = {} /\ close' = Discarded /\ pc' = "closing"
      /\ UNCHANGED <<mode, sent, task, reply, open, watched, batch, failures,
                     asked, winner, gate, lag, result, quiet>>
  BY DEF Gather
<1>2. /\ result = "none" /\ winner \in open \ watched /\ reply[winner] = "good"
      /\ winner # 0 /\ open \subseteq Launched
  BY <1>1, Constants DEF HedgeInv, HedgeTypeOK, Tasks, Won, Attempts, Launched
<1>3. \A n \in open : task[n] = "answered"
  BY DEF HedgeInv, Tasks
<1>4. close' \subseteq open /\ winner \notin close'
  BY <1>1, <1>2 DEF Discarded, Answered, HedgeInv, Tasks, Won
<1>5. \A n \in open \ close' : n = winner \/ (mode = "race" /\ reply[n] = "good")
  BY <1>1, <1>2, <1>3 DEF Discarded, HedgeInv, Won, Answered
<1>6. HedgeTypeOK' /\ Tasks'
  BY <1>1, <1>4 DEF HedgeInv, HedgeTypeOK, Tasks
<1>7. Ending'
  BY <1>1, <1>2, <1>4, <1>5 DEF Ending, Pending
<1>8. (Searching /\ Won /\ Leaving /\ Gaps)' /\ (NothingIsLeft /\ NoAnswerIsLost)'
  BY <1>1, <1>2 DEF HedgeInv, Searching, Won, Leaving, Gaps, NothingIsLeft, NoAnswerIsLost
<1>9. QED
  BY <1>6, <1>7, <1>8 DEF HedgeInv

LEMMA CloseOneKeeps ==
    ASSUME HedgeInv, CloseOne
    PROVE  HedgeInv'
<1>1. PICK n \in close : close' = close \ {n} /\ open' = open \ {n}
  BY DEF CloseOne
<1>2. /\ pc \in {"closing", "cancel_closing"}
      /\ UNCHANGED <<mode, pc, sent, task, reply, watched, batch, failures, asked,
                     winner, gate, lag, result, quiet>>
  BY DEF CloseOne
<1>3. HedgeTypeOK' /\ Tasks'
  BY <1>1, <1>2 DEF HedgeInv, HedgeTypeOK, Tasks
<1>4. Ending' /\ Leaving'
  BY <1>1, <1>2 DEF HedgeInv, Ending, Leaving, Pending, Settled, Launched
<1>5. (Searching /\ Won /\ Gaps)'
  BY <1>2 DEF HedgeInv, Searching, Won, Gaps
<1>6. (NothingIsLeft /\ NoAnswerIsLost)'
  BY <1>2 DEF HedgeInv, Ending, Leaving, NothingIsLeft, NoAnswerIsLost
<1>7. QED
  BY <1>3, <1>4, <1>5, <1>6 DEF HedgeInv

LEMMA StaggerCollectKeeps ==
    ASSUME HedgeInv, StaggerCollect
    PROVE  HedgeInv'
<1>1. /\ mode = "stagger" /\ pc = "waiting" /\ pc' = "processing"
      /\ batch' = Answered(watched) /\ lag' = 0
      /\ UNCHANGED <<mode, sent, task, reply, open, watched, failures, asked,
                     close, winner, gate, result, quiet>>
  BY DEF StaggerCollect
<1>2. batch' \subseteq watched /\ batch' \in SUBSET Attempts /\ 0 \in 0..MaxLag
  BY <1>1, Constants DEF Answered, HedgeInv, HedgeTypeOK
<1>3. HedgeTypeOK' /\ Tasks'
  BY <1>1, <1>2 DEF HedgeInv, HedgeTypeOK, Tasks
<1>4. Searching'
  BY <1>1 DEF HedgeInv, Searching, Settled, Launched, Answered
<1>5. (Won /\ Ending /\ Leaving /\ Gaps)' /\ (NothingIsLeft /\ NoAnswerIsLost)'
  BY <1>1 DEF HedgeInv, Won, Ending, Leaving, Gaps, NothingIsLeft, NoAnswerIsLost
<1>6. QED
  BY <1>3, <1>4, <1>5 DEF HedgeInv

LEMMA DiscardKeeps ==
    ASSUME HedgeInv, Discard
    PROVE  HedgeInv'
<1>1. /\ pc = "discarding" /\ pc' = "processing" /\ open' = open \ close /\ close' = {}
      /\ UNCHANGED <<mode, sent, task, reply, watched, batch, failures, asked,
                     winner, gate, lag, result, quiet>>
  BY DEF Discard
<1>2. HedgeTypeOK' /\ Tasks'
  BY <1>1 DEF HedgeInv, HedgeTypeOK, Tasks
<1>3. Searching'
  BY <1>1 DEF HedgeInv, Searching, Settled, Launched, Answered
<1>4. (Won /\ Ending /\ Leaving /\ Gaps)' /\ (NothingIsLeft /\ NoAnswerIsLost)'
  BY <1>1 DEF HedgeInv, Searching, Won, Ending, Leaving, Gaps, NothingIsLeft, NoAnswerIsLost
<1>5. QED
  BY <1>2, <1>3, <1>4 DEF HedgeInv

-----------------------------------------------------------------------------
(* The request is given up.                                                *)

LEMMA AbandonKeeps ==
    ASSUME HedgeInv, Abandon
    PROVE  HedgeInv'
<1>1. /\ pc # "done" /\ pc' = "cancelling" /\ result' \in {"timeout", "disconnected"}
      /\ task' = Cancelled(Launched) /\ close' = {}
      /\ UNCHANGED <<mode, sent, reply, open, watched, batch, failures, asked,
                     winner, gate, lag, quiet>>
  BY DEF Abandon, Awaits, Spawned
<1>2. \A n \in Attempts : task'[n] = IF n \in Launched /\ task[n] = "flight"
                                     THEN "stopping" ELSE task[n]
  BY <1>1 DEF Cancelled
<1>3. task' \in [Attempts -> {"unsent", "flight", "stopping", "answered", "cancelled"}]
  BY <1>1 DEF Cancelled, HedgeInv, HedgeTypeOK
<1>4. HedgeTypeOK'
  BY <1>1, <1>3 DEF HedgeInv, HedgeTypeOK
<1>5. Tasks'
  BY <1>1, <1>2 DEF HedgeInv, HedgeTypeOK, Tasks
<1>6. (Searching /\ Won /\ Ending /\ Leaving /\ Gaps)'
  BY <1>1 DEF HedgeInv, Searching, Won, Ending, Leaving, Gaps
<1>7. (NothingIsLeft /\ NoAnswerIsLost)'
  BY <1>1 DEF NothingIsLeft, NoAnswerIsLost
<1>8. QED
  BY <1>4, <1>5, <1>6, <1>7 DEF HedgeInv

LEMMA AbandonAgainKeeps ==
    ASSUME HedgeInv, AbandonAgain
    PROVE  HedgeInv'
<1>1. /\ pc' = "cancelling" /\ result' = "disconnected" /\ close' = {}
      /\ UNCHANGED <<mode, sent, task, reply, open, watched, batch, failures,
                     asked, winner, gate, lag, quiet>>
  BY DEF AbandonAgain
<1>2. HedgeTypeOK' /\ Tasks'
  BY <1>1 DEF HedgeInv, HedgeTypeOK, Tasks
<1>3. (Searching /\ Won /\ Ending /\ Leaving /\ Gaps)' /\ (NothingIsLeft /\ NoAnswerIsLost)'
  BY <1>1 DEF HedgeInv, Searching, Won, Ending, Leaving, Gaps, NothingIsLeft, NoAnswerIsLost
<1>4. QED
  BY <1>2, <1>3 DEF HedgeInv

\* Every response received was that of an attempt that was launched: all of
\* them are closed.
LEMMA CancelGatherKeeps ==
    ASSUME HedgeInv, CancelGather
    PROVE  HedgeInv'
<1>1. /\ pc = "cancelling" /\ Pending = {} /\ pc' = "cancel_closing"
      /\ close' = Answered(Launched) \cap open
      /\ UNCHANGED <<mode, sent, task, reply, open, watched, batch, failures,
                     asked, winner, gate, lag, result, quiet>>
  BY DEF CancelGather, Spawned
<1>2. open \subseteq Launched
  BY Constants DEF HedgeInv, HedgeTypeOK, Tasks, Launched, Attempts
<1>3. close' = open
  BY <1>1, <1>2 DEF HedgeInv, Tasks, Answered
<1>4. HedgeTypeOK' /\ Tasks'
  BY <1>1, <1>3 DEF HedgeInv, HedgeTypeOK, Tasks
<1>5. Leaving'
  BY <1>1, <1>3 DEF HedgeInv, Leaving, Pending
<1>6. (Searching /\ Won /\ Ending /\ Gaps)' /\ (NothingIsLeft /\ NoAnswerIsLost)'
  BY <1>1 DEF HedgeInv, Searching, Won, Ending, Gaps, NothingIsLeft, NoAnswerIsLost
<1>7. QED
  BY <1>4, <1>5, <1>6 DEF HedgeInv

LEMMA CancelDoneKeeps ==
    ASSUME HedgeInv, CancelDone
    PROVE  HedgeInv'
<1>1. /\ pc = "cancel_closing" /\ close = {} /\ pc' = "done" /\ winner' = 0
      /\ UNCHANGED <<mode, sent, task, reply, open, watched, batch, failures,
                     asked, close, gate, lag, result, quiet>>
  BY DEF CancelDone
<1>2. 0 \in 0..MaxAttempts
  BY Constants
<1>3. HedgeTypeOK' /\ Tasks'
  BY <1>1, <1>2 DEF HedgeInv, HedgeTypeOK, Tasks
<1>4. (Searching /\ Won /\ Ending /\ Leaving /\ Gaps)'
  BY <1>1 DEF HedgeInv, Searching, Won, Ending, Leaving, Gaps
<1>5. open = {} /\ Pending = {} /\ result \in {"timeout", "disconnected"}
  BY <1>1 DEF HedgeInv, Leaving
<1>6. (NothingIsLeft /\ NoAnswerIsLost)'
  BY <1>1, <1>5 DEF NothingIsLeft, NoAnswerIsLost, Pending
<1>7. QED
  BY <1>3, <1>4, <1>6 DEF HedgeInv

LEMMA PassKeeps ==
    ASSUME HedgeInv, Pass
    PROVE  HedgeInv'
<1>1. /\ pc # "idle"
      /\ gate' = (IF gate > 0 THEN gate - 1 ELSE 0)
      /\ quiet' = (IF quiet > 0 THEN quiet - 1 ELSE 0)
      /\ lag' = Least(lag + 1, MaxLag)
      /\ UNCHANGED <<mode, pc, sent, task, reply, open, watched, batch, failures,
                     asked, close, winner, result>>
  BY DEF Pass
<1>2. gate \in 0..MaxLag /\ quiet \in 0..MaxLag /\ lag \in 0..MaxLag /\ asked \in 0..MaxLag
  BY DEF HedgeInv, HedgeTypeOK
<1>3. /\ gate' \in 0..MaxLag /\ quiet' \in 0..MaxLag /\ lag' \in 0..MaxLag
      /\ quiet <= gate => quiet' <= gate'
      /\ quiet' <= quiet /\ (quiet = 0 => quiet' = 0)
  BY <1>1, <1>2, Constants DEF Least
<1>4. HedgeTypeOK' /\ Tasks'
  BY <1>1, <1>3 DEF HedgeInv, HedgeTypeOK, Tasks
<1>5. Gaps'
  BY <1>1, <1>2, <1>3, Constants DEF HedgeInv, Gaps
<1>6. (Searching /\ Won)'
  BY <1>1 DEF HedgeInv, Searching, Won, Settled, Launched, Answered, Pending
<1>7. (Ending /\ Leaving)' /\ (NothingIsLeft /\ NoAnswerIsLost)'
  BY <1>1 DEF HedgeInv, Ending, Leaving, NothingIsLeft, NoAnswerIsLost, Pending, Settled, Launched
<1>8. QED
  BY <1>4, <1>5, <1>6, <1>7 DEF HedgeInv

-----------------------------------------------------------------------------
(* Every step.                                                             *)

LEMMA LoopKeeps ==
    ASSUME HedgeInv, Loop
    PROVE  HedgeInv'
<1>1. CASE Fire \/ RaceCollect \/ NextRound
  BY <1>1, FireKeeps, RaceCollectKeeps, NextRoundKeeps
<1>2. CASE GateOpens \/ StaggerCollect \/ Discard \/ EndBatch
  BY <1>2, GateOpensKeeps, StaggerCollectKeeps, DiscardKeeps, EndBatchKeeps
<1>3. ASSUME NEW n \in Attempts, Process(n) PROVE HedgeInv'
  BY <1>3, ProcessKeeps
<1>4. CASE Gather \/ CloseOne \/ EndRound
  BY <1>4, GatherKeeps, CloseOneKeeps, EndRoundKeeps
<1>5. CASE CancelGather \/ CancelDone
  BY <1>5, CancelGatherKeeps, CancelDoneKeeps
<1>6. QED
  BY <1>1, <1>2, <1>3, <1>4, <1>5 DEF Loop

LEMMA NextKeeps ==
    ASSUME HedgeInv, [HedgeNext]_hedgeVars
    PROVE  HedgeInv'
<1>1. CASE Begin \/ Abandon \/ AbandonAgain \/ Pass
  BY <1>1, BeginKeeps, AbandonKeeps, AbandonAgainKeeps, PassKeeps
<1>2. CASE Loop
  BY <1>2, LoopKeeps
<1>3. ASSUME NEW n \in Attempts, Answer(n) \/ Stop(n) PROVE HedgeInv'
  BY <1>3, AnswerKeeps, StopKeeps
<1>4. CASE UNCHANGED hedgeVars
  <2>1. HedgeTypeOK' /\ Tasks' /\ Gaps'
    BY <1>4 DEF hedgeVars, HedgeInv, HedgeTypeOK, Tasks, Gaps
  <2>2. (Searching /\ Won)'
    BY <1>4 DEF hedgeVars, HedgeInv, Searching, Won, Settled, Launched, Answered, Pending
  <2>3. (Ending /\ Leaving)' /\ (NothingIsLeft /\ NoAnswerIsLost)'
    BY <1>4 DEF hedgeVars, HedgeInv, Ending, Leaving, NothingIsLeft, NoAnswerIsLost,
                Pending, Settled, Launched
  <2>4. QED
    BY <2>1, <2>2, <2>3 DEF HedgeInv
<1>5. QED
  BY <1>1, <1>2, <1>3, <1>4 DEF HedgeNext

\* The inductive invariant holds of every request, whatever the limits and the
\* waits of the configuration are.
THEOREM HedgeInvariant == HedgeSpec => []HedgeInv
<1>1. HedgeInit => HedgeInv
  BY InitHolds
<1>2. HedgeInv /\ [HedgeNext]_hedgeVars => HedgeInv'
  BY NextKeeps
<1>3. QED
  BY <1>1, <1>2, PTL DEF HedgeSpec

\* Every variable has its type: in particular the gate, the age of the clock
\* read and what was asked for never leave 0..MaxLag.
THEOREM HedgeTypeCorrect == HedgeSpec => []HedgeTypeOK
<1>1. HedgeInv => HedgeTypeOK
  BY DEF HedgeInv
<1>2. QED
  BY <1>1, HedgeInvariant, PTL

\* However a request of _race or _stagger ends, no attempt of it is left
\* running, and no response stays open but the one it returns (and, after a
\* race, other good ones).
THEOREM HedgeLeavesNothing == HedgeSpec => []NothingIsLeft
<1>1. HedgeInv => NothingIsLeft
  BY DEF HedgeInv
<1>2. QED
  BY <1>1, HedgeInvariant, PTL

\* A request gives up only when all MAX_RETRIES attempts were made and failed,
\* and otherwise returns a good answer that is still open.
THEOREM HedgeLosesNoAnswer == HedgeSpec => []NoAnswerIsLost
<1>1. HedgeInv => NoAnswerIsLost
  BY DEF HedgeInv
<1>2. QED
  BY <1>1, HedgeInvariant, PTL

-----------------------------------------------------------------------------
(* Launches.                                                               *)

LEMMA WatchedIsFinite ==
    ASSUME HedgeTypeOK
    PROVE  IsFiniteSet(watched) /\ Cardinality(watched) \in Nat
<1>1. IsFiniteSet(1..MaxAttempts)
  BY Constants, FS_Interval
<1>2. watched \subseteq 1..MaxAttempts
  BY DEF HedgeTypeOK, Attempts
<1>3. QED
  BY <1>1, <1>2, FS_Subset, FS_CardinalityType

\* Under stagger an attempt is launched when the gate has let it, and then
\* fewer than MaxConcurrent were in flight.
LEMMA LaunchIsDue ==
    ASSUME HedgeInv, Launch, CanFire, mode = "stagger",
           pc \in {"waiting", "backoff", "processing"}
    PROVE  quiet = 0 /\ Cardinality(Pending') <= MaxConcurrent
<1>1. quiet = 0
  BY Constants DEF CanFire, HedgeInv, HedgeTypeOK, Gaps
<1>2. Pending \subseteq watched
  BY Constants DEF HedgeInv, HedgeTypeOK, Tasks, Searching, Settled, Pending, Launched, Attempts
<1>3. Pending' \subseteq watched \cup {sent + 1}
  BY <1>2 DEF Launch, HedgeInv, HedgeTypeOK, Pending
<1>4. IsFiniteSet(watched) /\ Cardinality(watched) \in Nat
  BY WatchedIsFinite DEF HedgeInv
<1>5. /\ IsFiniteSet(watched \cup {sent + 1})
      /\ \/ Cardinality(watched \cup {sent + 1}) = Cardinality(watched)
         \/ Cardinality(watched \cup {sent + 1}) = Cardinality(watched) + 1
  BY <1>4, FS_AddElement
<1>6. /\ Cardinality(Pending') \in Nat
      /\ Cardinality(Pending') <= Cardinality(watched \cup {sent + 1})
  BY <1>3, <1>5, FS_Subset, FS_CardinalityType
<1>7. Cardinality(watched) < MaxConcurrent
  BY DEF CanFire
<1>8. Cardinality(Pending') <= MaxConcurrent
  BY <1>4, <1>5, <1>6, <1>7, Constants
<1>9. QED
  BY <1>1, <1>8

\* A race fires its round when nothing is in flight any more.
LEMMA FireIsDue ==
    ASSUME HedgeInv, Fire, sent' > sent
    PROVE  /\ quiet = 0 \/ (mode = "race" /\ "auth" \in failures)
           /\ Cardinality(Pending') <= MaxConcurrent
<1> DEFINE last == sent + ToFire
           round == (sent + 1)..last
<1>1. pc = "fire" /\ mode = "race"
  BY DEF Fire, HedgeInv, Searching
<1>2. quiet = 0 \/ (mode = "race" /\ "auth" \in failures)
  BY <1>1 DEF HedgeInv, Gaps
<1>3. task' = [n \in Attempts |-> IF n \in round THEN "flight" ELSE task[n]]
  BY Constants DEF Fire, HedgeInv, HedgeTypeOK
<1>4. Pending = {}
  BY <1>1, Constants
     DEF HedgeInv, HedgeTypeOK, Tasks, Searching, Settled, Pending, Launched, Attempts
<1>5. Pending' \subseteq round
  BY <1>3, <1>4 DEF Pending
<1>6. ToFire \in Nat /\ ToFire <= MaxConcurrent /\ sent \in Nat
  BY Constants DEF ToFire, Least, HedgeInv, HedgeTypeOK
<1>7. IsFiniteSet(round) /\ Cardinality(round) = ToFire
  <2>1. last \in Int /\ sent + 1 \in Int
    BY <1>6
  <2>2. IsFiniteSet(round)
        /\ Cardinality(round) = IF sent + 1 > last THEN 0 ELSE last - (sent + 1) + 1
    BY <2>1, FS_Interval
  <2>3. QED
    BY <1>6, <2>2
<1>8. Cardinality(Pending') \in Nat /\ Cardinality(Pending') <= Cardinality(round)
  BY <1>5, <1>7, FS_Subset, FS_CardinalityType
<1>9. Cardinality(Pending') <= MaxConcurrent
  BY <1>6, <1>7, <1>8, Constants
<1>10. QED
  BY <1>2, <1>9

\* The first attempt of a staggered request.
LEMMA BeginIsDue ==
    ASSUME HedgeInv, Begin, sent' > sent
    PROVE  quiet = 0 /\ Cardinality(Pending') <= MaxConcurrent
<1>1. mode = "stagger" /\ Launch /\ pc = "idle"
  BY DEF Begin, HedgeInv, HedgeTypeOK
<1>2. sent = 0 /\ Launched = {}
  BY <1>1 DEF HedgeInv, Searching, Launched
<1>3. Pending = {}
  BY <1>2, Constants DEF HedgeInv, HedgeTypeOK, Tasks, Pending, Attempts
<1>4. Pending' \subseteq {1}
  BY <1>1, <1>2, <1>3 DEF Launch, HedgeInv, HedgeTypeOK, Pending
<1>5. IsFiniteSet({1}) /\ Cardinality({1}) = 1
  BY FS_Singleton
<1>6. Cardinality(Pending') \in Nat /\ Cardinality(Pending') <= 1
  BY <1>4, <1>5, FS_Subset, FS_CardinalityType
<1>7. quiet = 0
  BY <1>1 DEF HedgeInv, Gaps
<1>8. QED
  BY <1>6, <1>7, Constants

\* Only these steps launch anything.
LEMMA StepIsDue ==
    ASSUME HedgeInv, HedgeNext, sent' > sent
    PROVE  /\ quiet = 0 \/ (mode = "race" /\ "auth" \in failures)
           /\ Cardinality(Pending') <= MaxConcurrent
<1>1. sent' # sent
  BY DEF HedgeInv, HedgeTypeOK
<1>2. CASE Begin
  BY <1>2, BeginIsDue
<1>3. CASE Fire
  BY <1>3, FireIsDue
<1>4. CASE GateOpens
  BY <1>4, LaunchIsDue DEF GateOpens
<1>5. CASE EndBatch
  <2>1. CanFire /\ Launch
    BY <1>1, <1>5 DEF EndBatch
  <2>2. QED
    BY <1>5, <2>1, LaunchIsDue DEF EndBatch
<1>6. ~(Abandon \/ AbandonAgain \/ Pass \/ \E n \in Attempts : Answer(n) \/ Stop(n))
  BY <1>1 DEF Abandon, AbandonAgain, Pass, Answer, Stop
<1>7. ~(RaceCollect \/ NextRound \/ StaggerCollect \/ Discard
        \/ \E n \in Attempts : Process(n))
  BY <1>1 DEF RaceCollect, NextRound, StaggerCollect, Discard, Process
<1>8. ~(Gather \/ CloseOne \/ EndRound \/ CancelGather \/ CancelDone)
  BY <1>1 DEF Gather, CloseOne, EndRound, CancelGather, CancelDone
<1>9. QED
  BY <1>2, <1>3, <1>4, <1>5, <1>6, <1>7, <1>8 DEF HedgeNext, Loop

\* Nothing is launched before a Retry-After of the round (of any reply, under
\* stagger) has passed, nor within RETRY_INTERVAL of the last launch under
\* stagger, and never more than MAX_CONCURRENT attempts are in flight.
THEOREM HedgeLaunchesAreDue == HedgeSpec => LaunchesAreDue
<1>1. HedgeInv /\ [HedgeNext]_hedgeVars =>
        [sent' > sent =>
          /\ quiet = 0 \/ (mode = "race" /\ "auth" \in failures)
          /\ Cardinality(Pending') <= MaxConcurrent]_hedgeVars
  BY StepIsDue
<1>2. QED
  BY <1>1, HedgeInvariant, PTL DEF HedgeSpec, LaunchesAreDue
=============================================================================

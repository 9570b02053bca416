----------------------------- MODULE HedgedRetry -----------------------------
(***************************************************************************)
(* One request without a key pool under HEDGE_MODE=race or stagger:        *)
(* RetryProxy._race, _stagger and their caller request() (retry.py).       *)
(* hedge_mode_for sends every pool request to the serial loop instead, so  *)
(* the branches of both functions that need a pool are never taken.        *)
(*                                                                         *)
(* The request is one coroutine; every attempt is a task of its own.  They *)
(* interleave where the coroutine awaits: asyncio.wait, the gathering of   *)
(* cancelled tasks, the closing of a response, a sleep.  A response that   *)
(* was received stays open until it is closed or handed to the caller.     *)
(*                                                                         *)
(* Time is relative: gate is next_allowed minus the clock (for race: the   *)
(* rest of the sleep), lag the age of the time.time() read for a batch.    *)
(***************************************************************************)
EXTENDS Naturals, FiniteSets

CONSTANTS
    Modes,          \* the values of HEDGE_MODE
    Outcomes,       \* what an attempt may come to, of OutcomeNames
    MaxAttempts,    \* MAX_RETRIES, which is limited here
    MaxConcurrent,  \* MAX_CONCURRENT
    Interval,       \* RETRY_INTERVAL
    Backoffs,       \* the waits calc_backoff_wait computes
    RetryAfters,    \* the values of a Retry-After header, 0 for none
    MaxLag          \* no wait is longer, so that an older read makes no difference

\* good : a status that is not retried;  error : no response at all
\* auth (401/403, RETRY_BROAD only), limit (429), upstream : retried
OutcomeNames == {"good", "auth", "limit", "upstream", "error"}

ASSUME HedgeAssumption ==
    /\ Modes \subseteq {"race", "stagger"}
    /\ Outcomes \subseteq OutcomeNames
    /\ MaxAttempts \in Nat \ {0}
    /\ MaxConcurrent \in Nat \ {0}
    /\ Interval \in Nat
    /\ Backoffs \subseteq Nat /\ Backoffs # {}
    /\ RetryAfters \subseteq Nat /\ 0 \in RetryAfters
    /\ MaxLag \in Nat
    /\ \A w \in {Interval} \cup Backoffs \cup RetryAfters : w <= MaxLag

VARIABLES
    mode,
    pc,             \* where the coroutine is
    sent,           \* total_sent
    task,           \* the state of every attempt's task
    reply,          \* what an attempt came to
    open,           \* attempts whose response is not closed
    watched,        \* race: remaining;  stagger: in_flight
    batch,          \* stagger: the rest of done
    failures,       \* race: the statuses of the round (key_failure_statuses)
    asked,          \* race: ra_max
    close,          \* responses that are about to be closed
    winner,         \* 0 for None
    gate,
    lag,
    result,
    quiet           \* history: how long no attempt may be launched, as far as
                    \* the launches since the last Retry-After kept to it

hedgeVars == <<mode, pc, sent, task, reply, open, watched, batch, failures,
               asked, close, winner, gate, lag, result, quiet>>

Attempts == 1..MaxAttempts

Failed == {"auth", "limit", "upstream"}     \* _should_retry

Least(a, b) == IF a <= b THEN a ELSE b
Most(a, b) == IF a >= b THEN a ELSE b

Launched == 1..sent
Pending == {n \in Attempts : task[n] \in {"flight", "stopping"}}
Answered(S) == {n \in S : task[n] = "answered"}
WithReply(S, kinds) == {n \in S : reply[n] \in kinds}

LatestOnly(left, wait, age) == wait - age       \* mutant of Later

\* next_allowed = max(next_allowed, now + wait), where now is age old.
Later(left, wait, age) == Most(left, IF wait > age THEN wait - age ELSE 0)

Cancelled(S) == [n \in Attempts |-> IF n \in S /\ task[n] = "flight"
                                    THEN "stopping" ELSE task[n]]

Finish(why) == pc' = "done" /\ result' = why

-----------------------------------------------------------------------------
(* The attempts: send(n) *)

\* The response arrives, or the send raises.
Answer(n) ==
    /\ task[n] \in {"flight", "stopping"}
    /\ task' = [task EXCEPT ![n] = "answered"]
    /\ \E o \in Outcomes :
          /\ reply' = [reply EXCEPT ![n] = o]
          /\ open' = IF o = "error" THEN open ELSE open \cup {n}
    /\ UNCHANGED <<mode, pc, sent, watched, batch, failures, asked, close,
                   winner, gate, lag, result, quiet>>

\* The cancellation reaches a task before an answer does.
Stop(n) ==
    /\ task[n] = "stopping"
    /\ task' = [task EXCEPT ![n] = "cancelled"]
    /\ UNCHANGED <<mode, pc, sent, reply, open, watched, batch, failures, asked,
                   close, winner, gate, lag, result, quiet>>

-----------------------------------------------------------------------------
(* The end of a round, of either mode *)

Exhausted == sent >= MaxAttempts

\* The losers are cancelled.
Win(n) == winner' = n /\ task' = Cancelled(Launched)

\* Mutant of Discarded: an attempt that ended in spite of its cancellation is
\* forgotten.
OnlyFailures == close

\* Responses that no one will read.
Discarded == IF mode = "race" THEN close \cup (Answered(watched) \cap open)
                              ELSE (Answered(Launched) \cap open) \ {winner}

Gather ==
    /\ pc = "gather" /\ Pending = {}
    /\ close' = Discarded
    /\ pc' = "closing"
    /\ UNCHANGED <<mode, sent, task, reply, open, watched, batch, failures,
                   asked, winner, gate, lag, result, quiet>>

CloseOne ==
    /\ pc \in {"closing", "cancel_closing"}
    /\ \E n \in close : close' = close \ {n} /\ open' = open \ {n}
    /\ UNCHANGED <<mode, pc, sent, task, reply, watched, batch, failures, asked,
                   winner, gate, lag, result, quiet>>

\* Mutant of Verdict: the limit is looked at before the winner.
LimitFirst == IF Exhausted THEN "gave_up" ELSE "response"

Verdict == IF winner # 0 THEN "response" ELSE "gave_up"

\* A 401/403 hides a 429 of the same round (_select_key_failure_status).
RoundWaits == IF "limit" \in failures /\ "auth" \notin failures
              THEN {Most(b, asked) : b \in Backoffs} ELSE Backoffs

\* Everything of the round is closed.
EndRound ==
    /\ pc = "closing" /\ close = {}
    /\ \/ /\ winner # 0 \/ Exhausted
          /\ Finish(Verdict)
          /\ UNCHANGED gate
       \/ /\ winner = 0 /\ ~Exhausted
          /\ gate' \in RoundWaits
          /\ pc' = "backoff"
          /\ UNCHANGED result
    /\ UNCHANGED <<mode, sent, task, reply, open, watched, batch, failures,
                   asked, close, winner, lag, quiet>>

-----------------------------------------------------------------------------
(* HEDGE_MODE=race *)

ToFire == Least(MaxConcurrent, MaxAttempts - sent)

Fire ==
    /\ pc = "fire"
    /\ IF ToFire = 0
       THEN Finish("gave_up") /\ UNCHANGED <<sent, task, watched, failures, asked>>
       ELSE LET round == (sent + 1)..(sent + ToFire)
            IN  /\ sent' = sent + ToFire
                /\ task' = [n \in Attempts |-> IF n \in round THEN "flight" ELSE task[n]]
                /\ watched' = round
                /\ failures' = {} /\ asked' = 0
                /\ pc' = "waiting"
                /\ UNCHANGED result
    /\ quiet' = 0
    /\ UNCHANGED <<mode, reply, open, batch, close, winner, gate, lag>>

\* asyncio.wait returns what is done by now.  The good answer that comes last
\* in the set is the winner.
RaceCollect ==
    /\ mode = "race" /\ pc = "waiting"
    /\ LET done == Answered(watched)
           good == WithReply(done, {"good"})
           rest == watched \ done
       IN  /\ done # {}
           /\ watched' = rest
           /\ close' = close \cup WithReply(done, Failed)
           /\ failures' = failures \cup {reply[n] : n \in done \ good}
           /\ \E ra \in (IF WithReply(done, {"limit"}) = {} THEN {0} ELSE RetryAfters) :
                 asked' = Most(asked, ra) /\ quiet' = Most(quiet, ra)
           /\ IF good = {} THEN UNCHANGED <<winner, task>>
                           ELSE \E n \in good : Win(n)
           /\ pc' = IF rest = {} THEN "closing"
                    ELSE IF good = {} THEN "waiting" ELSE "gather"
    /\ UNCHANGED <<mode, sent, reply, open, batch, gate, lag, result>>

NextRound ==
    /\ mode = "race" /\ pc = "backoff" /\ gate = 0
    /\ pc' = "fire"
    /\ UNCHANGED <<mode, sent, task, reply, open, watched, batch, failures,
                   asked, close, winner, gate, lag, result, quiet>>

-----------------------------------------------------------------------------
(* HEDGE_MODE=stagger *)

CanFire == /\ winner = 0
           /\ ~Exhausted
           /\ Cardinality(watched) < MaxConcurrent
           /\ gate = 0

Launch ==
    /\ sent' = sent + 1
    /\ task' = [task EXCEPT ![sent + 1] = "flight"]
    /\ watched' = watched \cup {sent + 1}
    /\ gate' = Later(gate, Interval, 0)
    /\ quiet' = Most(quiet, Interval)
    /\ pc' = "waiting"

\* The wait for the attempts in flight timed out, or none is in flight and
\* the back-off is over.
GateOpens ==
    /\ mode = "stagger" /\ pc \in {"waiting", "backoff"}
    /\ Answered(watched) = {}
    /\ CanFire
    /\ Launch
    /\ UNCHANGED <<mode, reply, open, batch, failures, asked, close, winner, lag,
                   result>>

StaggerCollect ==
    /\ mode = "stagger" /\ pc = "waiting"
    /\ Answered(watched) # {}
    /\ batch' = Answered(watched)
    /\ lag' = 0
    /\ pc' = "processing"
    /\ UNCHANGED <<mode, sent, task, reply, open, watched, failures, asked,
                   close, winner, gate, result, quiet>>

\* How long the reply to n keeps the gate shut, and how much of it was asked for.
Waits(n) ==
    CASE reply[n] = "limit" -> {<<Most(b, ra), ra>> : b \in Backoffs, ra \in RetryAfters}
      [] reply[n] = "error" -> {<<Interval, 0>>}
      [] OTHER              -> {<<Most(b, Interval), 0>> : b \in Backoffs}

\* The response of a failed attempt is closed, an await, before the next one
\* of the batch is looked at.
Failure(n) ==
    /\ reply[n] # "good"
    /\ \E w \in Waits(n) : /\ gate' = Later(gate, w[1], lag)
                           /\ quiet' = Most(quiet, IF w[2] > lag THEN w[2] - lag ELSE 0)
    /\ batch' = batch \ {n}
    /\ IF reply[n] = "error" THEN UNCHANGED <<pc, close>>
                             ELSE pc' = "discarding" /\ close' = {n}
    /\ UNCHANGED <<winner, task>>

Success(n) ==
    /\ reply[n] = "good"
    /\ Win(n)
    /\ pc' = "gather"
    /\ batch' = {}
    /\ UNCHANGED <<gate, quiet, close>>

Process(n) ==
    /\ mode = "stagger" /\ pc = "processing" /\ n \in batch
    /\ watched' = watched \ {n}
    /\ Failure(n) \/ Success(n)
    /\ UNCHANGED <<mode, sent, reply, open, failures, asked, lag, result>>

Discard ==
    /\ pc = "discarding"
    /\ open' = open \ close
    /\ close' = {}
    /\ pc' = "processing"
    /\ UNCHANGED <<mode, sent, task, reply, watched, batch, failures, asked,
                   winner, gate, lag, result, quiet>>

OneMore == watched = {} /\ sent > MaxAttempts      \* mutant of NoneToCome

NoneToCome == watched = {} /\ Exhausted

\* One attempt at most is launched for a whole batch.
EndBatch ==
    /\ mode = "stagger" /\ pc = "processing" /\ batch = {}
    /\ \/ /\ watched # {} /\ CanFire
          /\ Launch
          /\ UNCHANGED result
       \/ /\ watched # {} /\ ~CanFire
          /\ pc' = "waiting"
          /\ UNCHANGED <<sent, task, watched, gate, quiet, result>>
       \/ /\ watched = {}
          /\ IF NoneToCome THEN Finish("gave_up")
                           ELSE pc' = "backoff" /\ UNCHANGED result
          /\ UNCHANGED <<sent, task, watched, gate, quiet>>
    /\ UNCHANGED <<mode, reply, open, batch, failures, asked, close, winner, lag>>

-----------------------------------------------------------------------------
(* The client goes away, or RESPONSES_HEADER_TIMEOUT passes: request() *)

Awaits == \/ pc \in {"waiting", "gather", "discarding", "backoff"}
          \/ pc = "closing" /\ close # {}

\* Every task of the request, whatever the loop still keeps of it.
Spawned == Launched

\* _cancel_spawned: cancel, gather, close whatever response was received.
Abandon ==
    /\ Awaits
    /\ pc' = "cancelling"
    /\ result' \in {"timeout", "disconnected"}
    /\ task' = Cancelled(Spawned)
    /\ close' = {}
    /\ UNCHANGED <<mode, sent, reply, open, watched, batch, failures, asked,
                   winner, gate, lag, quiet>>

\* The client goes away while the cleanup of a timeout is under way.
AbandonAgain ==
    /\ pc = "cancel_closing" /\ close # {} /\ result = "timeout"
    /\ pc' = "cancelling"
    /\ result' = "disconnected"
    /\ close' = {}
    /\ UNCHANGED <<mode, sent, task, reply, open, watched, batch, failures,
                   asked, winner, gate, lag, quiet>>

CancelGather ==
    /\ pc = "cancelling" /\ Pending = {}
    /\ close' = Answered(Spawned) \cap open
    /\ pc' = "cancel_closing"
    /\ UNCHANGED <<mode, sent, task, reply, open, watched, batch, failures,
                   asked, winner, gate, lag, result, quiet>>

CancelDone ==
    /\ pc = "cancel_closing" /\ close = {}
    /\ pc' = "done"
    /\ winner' = 0
    /\ UNCHANGED <<mode, sent, task, reply, open, watched, batch, failures,
                   asked, close, gate, lag, result, quiet>>

-----------------------------------------------------------------------------

Begin ==
    /\ pc = "idle"
    /\ \/ /\ mode = "race"
          /\ pc' = "fire"
          /\ UNCHANGED <<sent, task, watched, gate, quiet>>
       \/ mode = "stagger" /\ Launch
    /\ UNCHANGED <<mode, reply, open, batch, failures, asked, close, winner, lag,
                   result>>

Pass ==
    /\ pc \notin {"idle", "done"}
    /\ gate' = (IF gate > 0 THEN gate - 1 ELSE 0)
    /\ quiet' = (IF quiet > 0 THEN quiet - 1 ELSE 0)
    /\ lag' = Least(lag + 1, MaxLag)
    /\ UNCHANGED <<mode, pc, sent, task, reply, open, watched, batch, failures,
                   asked, close, winner, result>>

\* What the coroutine does next, in one piece up to its next await.
Loop == \/ Fire \/ RaceCollect \/ NextRound
        \/ GateOpens \/ StaggerCollect \/ (\E n \in Attempts : Process(n))
        \/ Discard \/ EndBatch
        \/ Gather \/ CloseOne \/ EndRound
        \/ CancelGather \/ CancelDone

HedgeInit ==
    /\ mode \in Modes
    /\ pc = "idle" /\ sent = 0
    /\ task = [n \in Attempts |-> "unsent"]
    /\ reply = [n \in Attempts |-> "none"]
    /\ open = {} /\ watched = {} /\ batch = {} /\ close = {}
    /\ failures = {} /\ asked = 0
    /\ winner = 0 /\ gate = 0 /\ lag = 0 /\ quiet = 0
    /\ result = "none"

HedgeNext == \/ Begin \/ Loop \/ Abandon \/ AbandonAgain \/ Pass
             \/ \E n \in Attempts : Answer(n) \/ Stop(n)

\* The event loop runs what can run, time passes, and every send ends: in an
\* answer, in TIMEOUT, or by its cancellation.
HedgeFairness ==
    /\ WF_hedgeVars(Loop)
    /\ WF_hedgeVars(Pass)
    /\ \A n \in Attempts : WF_hedgeVars(Answer(n) \/ Stop(n))

HedgeSpec == HedgeInit /\ [][HedgeNext]_hedgeVars /\ HedgeFairness

-----------------------------------------------------------------------------
(* Properties *)

\* Every variable has its type; the gate and the clock read for a batch are
\* never negative.
HedgeTypeOK ==
    /\ mode \in Modes
    /\ pc \in {"idle", "fire", "waiting", "backoff", "processing", "discarding",
               "gather", "closing", "cancelling", "cancel_closing", "done"}
    /\ sent \in 0..MaxAttempts
    /\ task \in [Attempts -> {"unsent", "flight", "stopping", "answered", "cancelled"}]
    /\ reply \in [Attempts -> Outcomes \cup {"none"}]
    /\ open \in SUBSET Attempts /\ watched \in SUBSET Attempts
    /\ batch \in SUBSET Attempts /\ close \in SUBSET Attempts
    /\ failures \in SUBSET Outcomes
    /\ winner \in 0..MaxAttempts
    /\ asked \in 0..MaxLag /\ gate \in 0..MaxLag /\ lag \in 0..MaxLag
    /\ quiet \in 0..MaxLag
    /\ result \in {"none", "response", "gave_up", "timeout", "disconnected"}

\* However a request ends, and wherever it was when the client left, no
\* attempt of it is still running, and no response stays open but the one it
\* returns - and, after a race, other good answers that came with it (see
\* LosersAreClosed).
NothingIsLeft ==
    pc = "done" =>
        /\ Pending = {}
        /\ result # "response" => open = {}
        /\ \A n \in open \ {winner} : mode = "race" /\ reply[n] = "good"

\* A request gives up only when every attempt it may make was made and failed,
\* and what it returns otherwise is a good answer whose response is open,
\* whatever was cancelled and closed beside it.
NoAnswerIsLost ==
    /\ result = "gave_up" =>
           /\ sent = MaxAttempts
           /\ \A n \in Attempts : task[n] = "answered" /\ reply[n] # "good"
    /\ result = "response" => winner \in open /\ reply[winner] = "good"

\* No attempt is launched while the upstream asked for silence with a
\* Retry-After, nor, under stagger, within RETRY_INTERVAL of the last launch
\* (docs/retry.md), nor beyond MAX_CONCURRENT in flight.  A race that also got
\* a 401/403 in the round does not listen to the Retry-After.
LaunchesAreDue ==
    [][sent' > sent =>
          /\ quiet = 0 \/ (mode = "race" /\ "auth" \in failures)
          /\ Cardinality(Pending') <= MaxConcurrent]_hedgeVars

\* Every request comes to an end, whatever the upstream does.
EveryHedgeEnds == (pc # "idle") ~> (pc = "done")

-----------------------------------------------------------------------------
(* What the documentation says and the code does otherwise *)

\* docs/retry.md, race: the first 200 wins and the rest is cancelled at once.
LosersAreClosed == pc = "done" => open \subseteq {winner}
=============================================================================

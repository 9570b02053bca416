----------------------------- MODULE SerialRetry -----------------------------
(***************************************************************************)
(* Requests that use the key pool: RetryProxy._request (retry.py), the     *)
(* serial retry loop that hedge_mode_for forces on every pool request.     *)
(*                                                                         *)
(* The requests are coroutines of one event loop.  They interleave where   *)
(* the code awaits: in a send, a sleep, or the closing of a response.  A   *)
(* `continue` with no await before the next pick is pc = "again", in which *)
(* nobody else runs.                                                       *)
(*                                                                         *)
(* An answer is one of the Outcomes below; the interval of calc_backoff_-  *)
(* wait, minus the time the attempt took, is any member of Intervals.      *)
(***************************************************************************)
EXTENDS KeyPool

CONSTANTS
    Requests,
    WorkloadOf,     \* [Requests -> Workloads]
    SlotOf,         \* [Requests -> Slots], its Codex session
    Outcomes,       \* what an attempt may come to, of OutcomeNames
    MaxAttempts,    \* MAX_RETRIES, 0 for no limit
    WaitTimeout,    \* KEY_POOL_WAIT_TIMEOUT, 0 for no limit
    Intervals       \* waits between two attempts

\* success    : a status that is neither retried nor 401/403
\* denied     : 401/403 that RETRY_BROAD does not retry
\* auth       : 401/403 that it does
\* upstream, rate_limit : a status of RETRY_STATUS_CODES
\* transport  : the connection broke;   host : it was never made
\* stall      : RESPONSES_ATTEMPT_HEADER_TIMEOUT passed without headers
\* rejection  : the group does not offer the model
OutcomeNames == {"success", "denied", "auth", "upstream", "rate_limit",
                 "transport", "host", "stall", "rejection"}

Failures == {"upstream", "rate_limit"}

ASSUME SerialRetryAssumption ==
    /\ WorkloadOf \in [Requests -> Workloads]
    /\ SlotOf \in [Requests -> Slots]
    /\ Outcomes \subseteq OutcomeNames
    /\ Outcomes \cap {"upstream", "rate_limit", "transport"} \subseteq Kinds
    /\ Outcomes \cap {"denied", "auth"} # {} => "auth" \in Kinds
    /\ 0 \in RetryAfters
    /\ MaxAttempts \in Nat
    /\ WaitTimeout \in Nat
    /\ Intervals \subseteq Nat /\ Intervals # {}

VARIABLE req        \* the local state of every request

retryVars == <<live, retired, price, health, sched, updates, req>>

-----------------------------------------------------------------------------

Request == [
    pc       : {"idle", "select", "again", "waiting", "sent", "closing",
                "sleeping", "done"},
    view     : View \cup {None},
    key      : Entries \cup {None},     \* of the last attempt
    attempt  : Nat,
    stalled  : SUBSET Keys,             \* request_excluded_keys
    rejected : SUBSET Keys,             \* model_rejected_keys
    interval : Nat,                     \* wait computed before the close
    timer    : Nat,                     \* rest of the sleep
    deadline : Nat,                     \* rest of WaitTimeout, in _pick_key
    doomed   : BOOLEAN,                 \* the sleep ends in KeyPoolWaitTimeout
    rest     : Nat,                     \* second part of a retry sleep
    checks   : BOOLEAN,                 \* has_fresh is asked between the two
    result   : {"", "response", "gave_up", "wait_timeout", "abandoned"}]

Idle == [pc |-> "idle", view |-> None, key |-> None, attempt |-> 0,
         stalled |-> {}, rejected |-> {}, interval |-> 0, timer |-> 0,
         deadline |-> 0, doomed |-> FALSE, rest |-> 0, checks |-> FALSE,
         result |-> ""]

Running(r) == req[r].pc \notin {"idle", "done"}

\* Only the coroutine in the middle of an await-free section runs.
MayRun(r) == \A q \in Requests \ {r} : req[q].pc # "again"

Pausing == \A q \in Requests : req[q].pc # "again"

Become(r, fields) == req' = [req EXCEPT ![r] = fields]

\* What is over is forgotten.
Finish(r, why) == Become(r, [Idle EXCEPT !.pc = "done", !.result = why])

-----------------------------------------------------------------------------
(* The request arrives: api.py takes its view of the pool *)

Start(r) ==
    /\ req[r].pc = "idle"
    /\ Pausing
    /\ ForRequest(WorkloadOf[r])
    /\ Become(r, [req[r] EXCEPT !.pc = "select", !.view = ViewOf(WorkloadOf[r])])

-----------------------------------------------------------------------------
(* The top of the loop: _pick_key, then the send *)

Send(r, q, e) ==
    IF MaxAttempts > 0 /\ q.attempt > MaxAttempts
    THEN Finish(r, "gave_up")
    ELSE Become(r, [q EXCEPT !.pc = "sent", !.key = e, !.timer = 0,
                             !.deadline = 0])

\* Every candidate is cooling: sleep until e recovers or the limit is reached.
WaitFor(r, q, e) ==
    LET wait == health[e].left
    IN  IF WaitTimeout = 0
        THEN Become(r, [q EXCEPT !.pc = "waiting", !.timer = wait])
        ELSE IF q.deadline = 0
        THEN Finish(r, "wait_timeout")
        ELSE Become(r, [q EXCEPT !.pc = "waiting",
                                 !.doomed = wait > q.deadline,
                                 !.timer = IF wait > q.deadline
                                           THEN q.deadline ELSE wait])

\* Mutant of TryPick: the first key to recover is used without waiting.
PickAnyway(r, q) ==
    LET excluded == q.stalled \cup q.rejected
    IN  /\ \E e \in Picks(q.view, SlotOf[r], excluded) :
               Picked(q.view, SlotOf[r], e) /\ Send(r, q, e)
        /\ UNCHANGED <<live, retired, price, health, updates>>

\* One round of _pick_key for q, the local state after the loop's own updates.
TryPick(r, q) ==
    LET s == SlotOf[r]
        excluded == q.stalled \cup q.rejected
    IN  /\ \/ /\ Picks(q.view, s, excluded) = {}
              /\ UNCHANGED sched
              /\ Send(r, q, None)
           \/ \E e \in Picks(q.view, s, excluded) :
                 /\ Picked(q.view, s, e)
                 /\ IF Cooling(e) THEN WaitFor(r, q, e) ELSE Send(r, q, e)
        /\ UNCHANGED <<live, retired, price, health, updates>>

Uncounted(n) == n               \* mutant of NextAttempt

\* The number of an attempt matters only where it is limited.
NextAttempt(n) == IF MaxAttempts = 0 THEN n ELSE n + 1

\* Keys that stalled are tried again once no other is fresh.
Select(r) ==
    /\ req[r].pc \in {"select", "again"}
    /\ MayRun(r)
    /\ LET retry == ~HasFresh(req[r].view, req[r].stalled)
           q == [req[r] EXCEPT
                   !.attempt = NextAttempt(@),
                   !.stalled = IF retry THEN {} ELSE @,
                   !.deadline = WaitTimeout]
       IN  TryPick(r, q)

\* A wait of _pick_key is over: look again, or give up without looking.
WakeToPick(r) ==
    /\ req[r].pc = "waiting" /\ req[r].timer = 0
    /\ Pausing
    /\ IF req[r].doomed
       THEN Finish(r, "wait_timeout") /\ UNCHANGED poolVars
       ELSE TryPick(r, req[r])

-----------------------------------------------------------------------------
(* The sleep before the next attempt: _sleep_before_retry *)

Asleep(q, wait, poolWait) ==
    LET split == poolWait > WaitTimeout /\ WaitTimeout > 0
    IN  [q EXCEPT !.pc = "sleeping", !.key = None, !.interval = 0,
                  !.timer = IF split THEN WaitTimeout ELSE wait,
                  !.rest = IF split THEN wait - WaitTimeout ELSE 0,
                  !.checks = split]

WakeToRetry(r) ==
    /\ req[r].pc = "sleeping" /\ req[r].timer = 0
    /\ Pausing
    /\ IF req[r].checks /\ ~HasFresh(req[r].view, {})
       THEN Finish(r, "wait_timeout")
       ELSE IF req[r].rest > 0
       THEN Become(r, [req[r] EXCEPT !.timer = req[r].rest, !.rest = 0,
                                     !.checks = FALSE])
       ELSE Become(r, [req[r] EXCEPT !.pc = "again", !.checks = FALSE])
    /\ UNCHANGED poolVars

-----------------------------------------------------------------------------
(* The outcome of an attempt *)

\* Mutant of Succeed: the circuit is closed, the round of failovers goes on.
SucceedQuietly(r, v, e) ==
    /\ Finish(r, "response")
    /\ IF e = None THEN UNCHANGED health
                   ELSE health' = [health EXCEPT ![e] = Healthy]
    /\ UNCHANGED <<live, retired, price, sched, updates>>

\* An outcome that ends the request; without a pool key nothing is marked.
Succeed(r, v, e) ==
    /\ Finish(r, "response")
    /\ IF e = None THEN UNCHANGED poolVars ELSE MarkSuccess(v, SlotOf[r], e)

Mark(r, v, e, kind, retryAfter) ==
    IF e = None THEN UNCHANGED poolVars
    ELSE MarkCooldown(v, SlotOf[r], e, kind, retryAfter)

Deny(r, v, e) ==
    /\ Mark(r, v, e, "auth", 0)
    /\ Finish(r, "response")

\* The request's own key is bad: another key, or the answer as it is.
Unauthorized(r, v, e) ==
    /\ Mark(r, v, e, "auth", 0)
    /\ IF HasFresh(v, {})'
       THEN Become(r, [req[r] EXCEPT !.pc = "select"])
       ELSE Finish(r, "response")

\* The response is closed (an await) before the wait is computed.
Fail(r, v, e, kind) ==
    /\ \E ra \in (IF kind = "rate_limit" THEN RetryAfters ELSE {0}), i \in Intervals :
        /\ Mark(r, v, e, kind, ra)
        /\ IF HasFresh(v, {})'
           THEN Become(r, [req[r] EXCEPT !.pc = "select"])
           ELSE Become(r, [req[r] EXCEPT !.pc = "closing",
                                         !.interval = Larger(i, ra)])

\* pool_wait = 0 once another request has freed a key during the close.
Closed(r) ==
    /\ req[r].pc = "closing"
    /\ Pausing
    /\ LET v == req[r].view
           poolWait == IF HasFresh(v, {}) THEN 0 ELSE NextAvailableIn(v)
       IN  Become(r, Asleep(req[r], Larger(req[r].interval, poolWait), poolWait))
    /\ UNCHANGED poolVars

Break(r, v, e) ==
    /\ Mark(r, v, e, "transport", 0)
    /\ IF e # None /\ HasFresh(v, {})'
       THEN Become(r, [req[r] EXCEPT !.pc = "again"])
       ELSE \E i \in Intervals, wait \in {IF e = None THEN 0 ELSE NextAvailableIn(v)'} :
                Become(r, Asleep(req[r], Larger(i, wait), wait))

\* The upstream host is down: no key is to blame.
HostError(r) ==
    /\ \E i \in Intervals : Become(r, Asleep(req[r], i, 0))
    /\ UNCHANGED poolVars

\* The key is set aside for this request only.
Stall(r, v, e) ==
    LET stalled == req[r].stalled \cup (IF e = None THEN {} ELSE {KeyOf[e]})
        poolWait == NextAvailableIn(v)
    IN  /\ IF HasFresh(v, stalled)
           THEN Become(r, [req[r] EXCEPT !.pc = "again", !.stalled = stalled])
           ELSE \E i \in Intervals :
                Become(r, Asleep([req[r] EXCEPT !.stalled = {}],
                                 Larger(i, poolWait), poolWait))
        /\ UNCHANGED poolVars

SetAsideKey(v, e) == {KeyOf[e]}         \* mutant of SetAsideGroup

SetAsideGroup(v, e) == {KeyOf[f] : f \in InGroup(GroupOf[e], v.members)}

\* The group is set aside for this request; if no other is fresh, the
\* rejection is the answer.
Reject(r, v, e) ==
    LET rejected == req[r].rejected \cup SetAsideGroup(v, e)
    IN  /\ e # None
        /\ IF HasFresh(v, req[r].stalled \cup rejected)
           THEN Become(r, [req[r] EXCEPT !.pc = "select", !.rejected = rejected])
           ELSE Finish(r, "response")
        /\ UNCHANGED poolVars

Answer(r) ==
    /\ req[r].pc = "sent"
    /\ Pausing
    /\ \E v \in {req[r].view}, e \in {req[r].key}, outcome \in Outcomes :
        \/ outcome = "success"   /\ Succeed(r, v, e)
        \/ outcome = "denied"    /\ Deny(r, v, e)
        \/ outcome = "auth"      /\ Unauthorized(r, v, e)
        \/ outcome \in Failures  /\ Fail(r, v, e, outcome)
        \/ outcome = "transport" /\ Break(r, v, e)
        \/ outcome = "host"      /\ HostError(r)
        \/ outcome = "stall"     /\ Stall(r, v, e)
        \/ outcome = "rejection" /\ Reject(r, v, e)

\* The client goes away, or RESPONSES_HEADER_TIMEOUT passes for the whole
\* request: the coroutine is cancelled wherever it awaits.
Abandon(r) ==
    /\ Running(r) /\ Pausing
    /\ Finish(r, "abandoned")
    /\ UNCHANGED poolVars

-----------------------------------------------------------------------------

Operate == Pausing /\ Admin /\ UNCHANGED req

Pass ==
    /\ Pausing
    /\ Tick
    /\ req' = [r \in Requests |-> [req[r] EXCEPT !.timer = Elapsed(@),
                                                 !.deadline = Elapsed(@)]]

Step(r) == Select(r) \/ WakeToPick(r) \/ WakeToRetry(r) \/ Answer(r) \/ Closed(r)

SerialInit == PoolInit /\ req = [r \in Requests |-> Idle]

SerialNext == \/ \E r \in Requests : Start(r) \/ Step(r) \/ Abandon(r)
              \/ Operate
              \/ Pass

\* A send ends (TIMEOUT and CONNECT_TIMEOUT), a timer fires, a coroutine that
\* can run does, and time passes.  A client need neither come nor leave.
SerialFairness == /\ \A r \in Requests : WF_retryVars(Step(r))
                  /\ WF_retryVars(Pass)

SerialSpec == SerialInit /\ [][SerialNext]_retryVars /\ SerialFairness

-----------------------------------------------------------------------------
(* Properties *)

\* A running request holds a view of the pool and uses only its members.
SerialTypeOK ==
    /\ req \in [Requests -> Request]
    /\ \A r \in Requests : Running(r) =>
           /\ req[r].view \in DOMAIN sched
           /\ req[r].view.members # {}
           /\ req[r].key \in req[r].view.members \cup {None}

Sends(r) == req[r].pc # "sent" /\ req'[r].pc = "sent"

\* No attempt goes to a key whose circuit is open, although picking waits and
\* other requests trip and close circuits meanwhile: a wait is followed by a
\* new look at the pool (docs/key-pool.md, degradation, item 8).
NoSendWhileCooling ==
    [][\A r \in Requests : Sends(r) /\ req'[r].key # None
                               => ~Cooling(req'[r].key)]_retryVars

\* A request that may use the pool never goes out with the client's own
\* headers: _pick_key always finds a key of the view, late or early.
PoolKeyInjected == \A r \in Requests : req[r].pc = "sent" => req[r].key # None

\* A group that does not offer the model is asked once by a request, whatever
\* key of it would be next, and a key that stalled is not in use while it is
\* set aside.
SetAsideStaysAside ==
    \A r \in Requests : req[r].pc = "sent" /\ req[r].key # None =>
        /\ KeyOf[req[r].key] \notin req[r].stalled
        /\ \A f \in req[r].view.members :
               KeyOf[f] \in req[r].rejected => GroupOf[f] # GroupOf[req[r].key]

\* Every step of every request is a step of the pool: what is proved of
\* KeyPool holds however requests interleave.
UsesThePool == PoolSpec

\* Every request ends: no sleep, retry or wait for a key goes on forever.
EveryRequestEnds ==
    \A r \in Requests : Running(r) ~> req[r].pc = "done"
=============================================================================

---------------------------- MODULE ProxyHandler ----------------------------
(***************************************************************************)
(* The handler of proxied requests (api.py: proxy, body_gen) for requests  *)
(* that use one view of a key pool: the inspection of the body by the      *)
(* data-loss prevention, the work of the retry service, the answer that is *)
(* streamed to the client, and what its end says about the key.            *)
(*                                                                         *)
(* The handler waits for the inspection in a worker thread, for the        *)
(* service, for the disk of the pool synchronisation and for every chunk;  *)
(* in each of these waits the other requests, the settings page and the    *)
(* circuits go on.  Each action is what the handler does between two of    *)
(* them.  Which group the strategy prefers is the matter of KeyPool, how   *)
(* attempts are repeated that of SerialRetry: here a request is sent to    *)
(* any group that is not cooling, until one answers or it gives up.  That  *)
(* failures in a row cool longer is left to them too, and which rules find *)
(* a secret to dlp.py.                                                     *)
(***************************************************************************)
EXTENDS Naturals, SequencesExt

CONSTANTS
    Requests, Sessions,
    Groups,             \* of the view; every group has one key
    Families,           \* what is asked for: responses as a "stream" or as one
                        \* "body", or an "other" endpoint
    Bodies,             \* subset of {"secret", "deep", "opaque", "packed"}
    Modes,              \* the values DLP_MODE is given
    FailClosed,         \* DLP_FAIL_CLOSED
    Failures,           \* the kinds of failure that blame a key
    Severity,           \* _FAILURE_KIND_PRIORITY
    FailureCooldown,    \* of a failure that blames a key, any kind
    MissThreshold,      \* KEY_CACHE_MISS_THRESHOLD
    MissCooldown        \* KEY_CACHE_MISS_COOLDOWN

ASSUME HandlerAssumption ==
    /\ {FailureCooldown, MissThreshold, MissCooldown} \subseteq Nat \ {0}
    /\ "cache_miss" \notin Failures
    /\ Severity \in [Failures \cup {"cache_miss"} -> Nat]
    /\ Modes \subseteq {"off", "audit", "redact", "block"}

VARIABLES
    mode,       \* settings.dlp_mode
    req,        \* what the handler holds of each request, see NoRequest
    circuit,    \* of each group: cooldown_until as the time that is left, and
                \* last_failure_kind
    metric,     \* _cache_metrics of each group and session, see NoMetric
    cold        \* ghost: the answers of a group without a cache hit, in a row,
                \* of all sessions (MissThreshold stands for that or more)

handlerVars == <<mode, req, circuit, metric, cold>>

Blocking == {"block", "redact"}
Lax      == {"off", "audit"}

\* lax: ghost, has a mode that lets bodies pass been in force since the request
\* arrived.  answered, open, records: has the upstream answered, is its response
\* open, how often was the request logged; they outlast the request.
NoRequest == [stage |-> "idle", session |-> "", family |-> "", body |-> "",
              policy |-> "", lax |-> FALSE, group |-> "",
              status |-> "", answered |-> FALSE, open |-> FALSE, records |-> 0]

NoMetric == [streak |-> 0, left |-> 0]

Closed == [left |-> 0, kind |-> ""]

HandlerInit ==
    /\ mode \in Modes
    /\ req = [r \in Requests |-> NoRequest]
    /\ circuit = [g \in Groups |-> Closed]
    /\ metric = [g \in Groups |-> [s \in Sessions |-> NoMetric]]
    /\ cold = [g \in Groups |-> 0]

Cooling(g) == circuit[g].left > 0

\* mark_cooldown of a group: the longer cooldown stays, and the kind is renamed
\* by a worse or a longer one.
Tripped(c, kind, length) ==
    [left |-> IF length > c.left THEN length ELSE c.left,
     kind |-> IF \/ c.left = 0
                 \/ Severity[kind] > Severity[c.kind]
                 \/ length > c.left
              THEN kind ELSE c.kind]

Trip(g, kind, length) == circuit' = [circuit EXCEPT ![g] = Tripped(@, kind, length)]

Becomes(r, q) == req' = [req EXCEPT ![r] = q]

\* The handler returns; what is written of the request stays to be seen.
Returned(q, logs) ==
    [NoRequest EXCEPT !.answered = q.answered, !.records = q.records + logs]

-----------------------------------------------------------------------------
(* The inspection of the body.                                             *)

\* The body has been read.  It holds a secret that the rules find ("secret"),
\* or one beyond the bounds of the decoding ("deep"), of JSON ("opaque") or of
\* the size that is inspected, once unpacked ("packed").
Arrive(r) == \E b \in Bodies :
    /\ req[r].stage = "idle"
    /\ LET q == [NoRequest EXCEPT !.body = b, !.lax = mode \in Lax]
       IN  \/ /\ mode = "off" \/ (b = "packed" /\ mode \notin Blocking)
              /\ Becomes(r, [q EXCEPT !.stage = "working"])
           \/ /\ b = "packed" /\ mode \in Blocking
              /\ Becomes(r, NoRequest)
           \/ /\ mode # "off" /\ b # "packed"
              /\ Becomes(r, [q EXCEPT !.stage = "inspecting", !.policy = mode])
    /\ UNCHANGED <<mode, circuit, metric, cold>>

\* Redaction lets pass what it could not inspect.
RefusedBlockOnly(q) ==                                      \* mutant of Refused
    \/ q.body = "opaque" /\ FailClosed
    \/ q.body = "deep" /\ mode = "block"
    \/ q.body = "secret" /\ q.policy = "block"

\* The thread inspected under the mode it was given (policy); what it could not
\* inspect is judged by the mode of now.
Refused(q) ==
    \/ q.body = "opaque" /\ FailClosed
    \/ q.body = "deep" /\ mode \in Blocking
    \/ q.body = "secret" /\ q.policy = "block"

Inspected(r) ==
    LET q == req[r]
        masked == q.body = "secret" /\ q.policy = "redact"
    IN  /\ q.stage = "inspecting"
        /\ Becomes(r, IF Refused(q) THEN NoRequest
                      ELSE [q EXCEPT !.stage = "working", !.policy = "",
                                     !.body = IF masked THEN "masked" ELSE @])
        /\ UNCHANGED <<mode, circuit, metric, cold>>

\* DLP_MODE is hot: the settings page changes it while requests are inspected.
SetMode(m) ==
    /\ m # mode
    /\ mode' = m
    /\ req' = [r \in Requests |->
                  IF req[r].stage = "inspecting"
                  THEN [req[r] EXCEPT !.lax = @ \/ m \in Lax] ELSE req[r]]
    /\ UNCHANGED <<circuit, metric, cold>>

-----------------------------------------------------------------------------
(* The work of the service, under _run_until_disconnect.                   *)

Send(r, g) ==
    LET q == req[r]
    IN  /\ q.stage = "working"
        /\ ~Cooling(g)
        /\ Becomes(r, [q EXCEPT !.stage = "sent", !.group = g,
                                !.body = "", !.lax = FALSE])
        /\ UNCHANGED <<mode, circuit, metric, cold>>

AttemptFails(r, kind) ==
    LET q == req[r]
    IN  /\ q.stage = "sent"
        /\ Trip(q.group, kind, FailureCooldown)
        /\ Becomes(r, [q EXCEPT !.stage = "working", !.group = ""])
        /\ UNCHANGED <<mode, metric, cold>>

\* The headers of an answer: a success ("ok"), an error of the request itself
\* ("denied"), or, where an event stream was asked for, something else with the
\* status of a success ("page").  The key works (mark_success), unless the error
\* is one of the key that is not retried, or rejects the model, which says nothing
\* of the key.
\* Nothing but this request waits for what its attempts learned about models to
\* be written (mark_model_unsupported), and then its answer is streamed.  What
\* the request asked for and its session matter from here on.
Answers(r, status) == \E f \in Families, s \in Sessions :
    LET q == req[r]
    IN  /\ q.stage = "sent"
        /\ status = "page" => f = "stream"
        /\ \/ circuit' = [circuit EXCEPT ![q.group] = Closed]
           \/ status = "denied" /\ \E k \in Failures : Trip(q.group, k, FailureCooldown)
           \/ status = "denied" /\ UNCHANGED circuit
        /\ Becomes(r, [q EXCEPT !.stage = "streaming", !.status = status,
                                !.family = f, !.session = s,
                                !.answered = TRUE, !.open = TRUE])
        /\ UNCHANGED <<mode, metric, cold>>

\* No answer: the handler logs a 503.
GivesUp(r) ==
    LET q == req[r]
    IN  /\ q.stage = "working"
        /\ Becomes(r, Returned(q, 1))
        /\ UNCHANGED <<mode, circuit, metric, cold>>

\* The client disconnects before the work is done: 499, and nothing is logged.
ClientLeaves(r) ==
    LET q == req[r]
    IN  /\ q.stage \in {"working", "sent"}
        /\ Becomes(r, Returned(q, 0))
        /\ UNCHANGED <<mode, circuit, metric, cold>>

-----------------------------------------------------------------------------
(* The answer.                                                             *)

DeniedGoesOn(r) ==                              \* mutant of Denied: no return
    LET q == req[r]
    IN  /\ q.stage = "streaming" /\ q.status = "denied" /\ q.records = 0
        /\ Becomes(r, [q EXCEPT !.records = 1])
        /\ UNCHANGED <<mode, circuit, metric, cold>>

\* An error of the request itself is read and returned at once; if it cannot be
\* read, or its key belongs to no group, it is streamed like any other answer.
Denied(r) ==
    LET q == req[r]
    IN  /\ q.stage = "streaming" /\ q.status = "denied"
        /\ Becomes(r, Returned(q, 1))
        /\ UNCHANGED <<mode, circuit, metric, cold>>

\* The cache usage an answer tells of: none that counts (none at all, of too
\* short an input, or of a request without a session), a hit, a miss.
Usages == {"", "hit", "miss"}

\* What the chunks of a stream are searched for: the response is completed, or
\* incomplete, or it failed, for a reason that blames the key or for another.
Events ==
    [type : {"completed"}, usage : Usages] \cup [type : {"incomplete"}]
    \cup [type : {"error"}, kind : Failures \cup {"plain"}]

\* _new_responses_stream_state.  Only the request reads and changes it: what
\* became of it matters once the body is over.
NewStream == [terminal |-> "", error |-> "", usage |-> ""]

\* _consume_responses_sse: the last terminal event counts, the first error that
\* names a reason, and the usage of the last completion.
Consumed(stream, event) ==
    CASE event.type = "completed" ->
            [stream EXCEPT !.terminal = "completed", !.usage = event.usage]
      [] event.type = "incomplete" -> [stream EXCEPT !.terminal = "incomplete"]
      [] event.type = "error" ->
            [stream EXCEPT !.error = IF @ \in Failures THEN @ ELSE event.kind]

\* What a stream can amount to; three events reach all of it.
Streams == {FoldLeft(Consumed, NewStream, events) : events \in BoundedSeq(Events, 3)}

\* How a body is over: at its end, or because the upstream fails or the client
\* leaves in the middle of it (stream_override).
Endings == {"", "transport_error", "cancelled"}

IsStream(q) == q.family = "stream" /\ q.status # "denied"

\* What the handler may know at the end: of a stream its events, of one JSON body
\* the usage when it is whole.
Heard(q, ending) ==
    CASE IsStream(q) -> Streams
      [] q.family = "body" /\ q.status = "ok" /\ ending = "" ->
            [terminal : {""}, error : {""}, usage : Usages]
      [] OTHER -> {NewStream}

\* _finish_responses_stream_state: a stream is judged by its events, however it
\* ended; another answer by its status and its end.
Succeeded(q, heard, ending) ==
    IF IsStream(q)
    THEN q.status = "ok" /\ heard.error = "" /\ heard.terminal # ""
    ELSE q.status # "denied" /\ ending = ""

\* _responses_stream_key_failure_status
BlamesKey(q, heard) == q.status = "ok" /\ heard.error \in Failures

\* record_cache_usage: a hit forgets the misses of the group in every session
\* and closes its circuit if that is for misses.
Hit(g) ==
    /\ metric' = [metric EXCEPT ![g] = [s \in Sessions |-> NoMetric]]
    /\ circuit' = [circuit EXCEPT ![g] = IF @.kind = "cache_miss" THEN Closed ELSE @]
    /\ cold' = [cold EXCEPT ![g] = 0]

HitOfOneSession(g, s) ==                        \* for a mutant of RecordCacheUsage
    /\ metric' = [metric EXCEPT ![g][s] = NoMetric]
    /\ circuit' = [circuit EXCEPT ![g] = IF @.kind = "cache_miss" THEN Closed ELSE @]
    /\ cold' = [cold EXCEPT ![g] = 0]

Longer(n) == IF n < MissThreshold THEN n + 1 ELSE n

\* Any other group will do, cooling or not.
AnotherGroup(g) == \E h \in Groups : h # g                \* mutant of Alternative

\* Another group could serve.
Alternative(g) == \E h \in Groups \ {g} : ~Cooling(h)

\* A miss: from the threshold on the group cools, for what is left of the time
\* that began with the session's first miss beyond it.
Miss(g, s) ==
    LET streak == Longer(metric[g][s].streak)
        trips  == streak = MissThreshold /\ Alternative(g)
        left   == IF trips /\ metric[g][s].left = 0 THEN MissCooldown ELSE metric[g][s].left
    IN  /\ metric' = [metric EXCEPT ![g][s] = [streak |-> streak, left |-> left]]
        /\ cold' = [cold EXCEPT ![g] = Longer(@)]
        /\ IF trips THEN Trip(g, "cache_miss", left) ELSE UNCHANGED circuit

\* The misses are forgotten for the session that hit only.
RecordForOneSession(g, s, usage) ==                \* mutant of RecordCacheUsage
    \/ usage = "hit" /\ HitOfOneSession(g, s)
    \/ usage = "miss" /\ Miss(g, s)

RecordCacheUsage(g, s, usage) ==
    \/ usage = "hit" /\ Hit(g)
    \/ usage = "miss" /\ Miss(g, s)

\* The body is over: the response is closed, and what its end says of the key is
\* applied and logged.
Finalize(r, ending) ==
    LET q == req[r]
    IN  /\ q.stage = "streaming"
        /\ Becomes(r, Returned(q, 1))
        /\ \E heard \in Heard(q, ending) :
             LET counts == Succeeded(q, heard, ending) /\ heard.usage # ""
             IN  \/ /\ BlamesKey(q, heard)
                    /\ Trip(q.group, heard.error, FailureCooldown)
                    /\ UNCHANGED <<metric, cold>>
                 \/ counts /\ RecordCacheUsage(q.group, q.session, heard.usage)
                 \/ ~BlamesKey(q, heard) /\ ~counts /\ UNCHANGED <<circuit, metric, cold>>
        /\ UNCHANGED mode

\* The page resets the circuit of a group and forgets its misses.
ResetCircuit(g) ==
    /\ circuit' = [circuit EXCEPT ![g] = Closed]
    /\ metric' = [metric EXCEPT ![g] = [s \in Sessions |-> NoMetric]]
    /\ cold' = [cold EXCEPT ![g] = 0]
    /\ UNCHANGED <<mode, req>>

Earlier(n) == IF n > 0 THEN n - 1 ELSE 0

\* The kind of a circuit that is over is not used any more.
Cooler(c) == IF c.left > 1 THEN [c EXCEPT !.left = @ - 1] ELSE Closed

Tick ==
    /\ circuit' = [g \in Groups |-> Cooler(circuit[g])]
    /\ metric' = [g \in Groups |-> [s \in Sessions |->
                      [metric[g][s] EXCEPT !.left = Earlier(@)]]]
    /\ UNCHANGED <<mode, req, cold>>

Step(r) ==
    \/ Arrive(r) \/ Inspected(r) \/ GivesUp(r) \/ ClientLeaves(r)
    \/ Denied(r)
    \/ \E g \in Groups : Send(r, g)
    \/ \E k \in Failures : AttemptFails(r, k)
    \/ \E s \in {"ok", "denied", "page"} : Answers(r, s)
    \/ \E e \in Endings : Finalize(r, e)

HandlerNext ==
    \/ \E r \in Requests : Step(r)
    \/ \E m \in Modes : SetMode(m)
    \/ \E g \in Groups : ResetCircuit(g)
    \/ Tick

HandlerSpec == HandlerInit /\ [][HandlerNext]_handlerVars

-----------------------------------------------------------------------------
(* Properties.                                                             *)

Kinds == Failures \cup {"cache_miss"}

\* The variables have their types, and only a request whose answer is being
\* handled has an open response.
HandlerTypeOK ==
    /\ mode \in Modes
    /\ circuit \in [Groups -> [left : Nat, kind : Kinds \cup {""}]]
    /\ metric \in [Groups -> [Sessions -> [streak : 0..MissThreshold, left : 0..MissCooldown]]]
    /\ cold \in [Groups -> 0..MissThreshold]
    /\ \A r \in Requests :
         /\ req[r].stage \in {"idle", "inspecting", "working", "sent", "streaming"}
         /\ req[r].open <=> req[r].stage = "streaming"

\* A body with a secret, or with one that could not be looked for, is sent
\* unmasked only if some mode that was in force while it was handled lets it
\* pass; with DLP_FAIL_CLOSED this holds of a body that is not JSON as well.
\* The mode may change during the inspection (api.py:754-791).
Secrets == {"secret", "deep", "packed"} \cup (IF FailClosed THEN {"opaque"} ELSE {})

RawOnlyIfAllowed ==
    \A r \in Requests :
        req[r].stage = "working" /\ req[r].body \in Secrets
            => req[r].lax

\* Whatever way a request ends, it left no response of the upstream open, and
\* an answer of the upstream was logged exactly once (api.py:938-1096).
AnswersAreAccounted ==
    \A r \in Requests :
        /\ req[r].records <= 1
        /\ req[r].stage = "idle" /\ req[r].answered => ~req[r].open /\ req[r].records = 1

\* The circuits for misses never take the last group of the view: however the
\* answers of several requests overlap, not every group cools for misses
\* (key_pool.py:816-837).
CacheLeavesOne ==
    \E g \in Groups : ~(Cooling(g) /\ circuit[g].kind = "cache_miss")

\* A group cools for misses only if since its last hit, in whichever session,
\* it missed at least MissThreshold times (key_pool.py:793-815).
MissesAreConsecutive ==
    \A g \in Groups :
        Cooling(g) /\ circuit[g].kind = "cache_miss" => cold[g] = MissThreshold
=============================================================================

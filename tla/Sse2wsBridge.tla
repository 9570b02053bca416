---------------------------- MODULE Sse2wsBridge ----------------------------
(***************************************************************************)
(* One WebSocket connection of a client that speaks the Responses protocol *)
(* and the upstream HTTP/SSE responses it is bridged to (sse2ws.py).       *)
(*                                                                         *)
(* Four coroutines interleave where they await: run (main), the turn in    *)
(* progress (work), the watcher that reads the socket meanwhile, and the   *)
(* producer that reads the upstream response into a bounded queue.         *)
(*                                                                         *)
(* What the client says is a sequence of items: messages, tool calls of    *)
(* earlier responses and their outputs.  The upstream has no memory, so    *)
(* the bridge replays the input so far and the tool calls of earlier       *)
(* responses; what those said in words is not replayed.  Turn t asks       *)
(* message t, and call t is what a response to turn t may ask for.         *)
(***************************************************************************)
EXTENDS Naturals, SequencesExt

CONSTANTS
    MaxFrames,      \* bound on the frames of the client
    MaxEvents,      \* bound on the events of one response
    QueueSize,      \* asyncio.Queue(maxsize=128)
    Retries,        \* SSE2WS_FIRST_EVENT_RETRIES
    LateErrors      \* may the upstream fail after its terminal event

ASSUME BridgeAssumption ==
    /\ MaxFrames \in Nat /\ MaxEvents \in Nat
    /\ QueueSize \in Nat \ {0}
    /\ Retries \in Nat
    /\ LateErrors \in BOOLEAN

VARIABLES
    client,         \* "there" or "left"
    inbox,          \* frames that were sent and not received
    sent,           \* number of frames so far
    known,          \* calls of the conversation, as the client knows it
    buffered,       \* _buffered: at most one frame
    main,           \* where run is
    watcher,
    work,           \* where the turn is
    turn,           \* the locals of the turn
    queue, held,    \* the queue, and the item its producer waits to put
    producer,
    emitted,        \* events of this response so far
    over,           \* the response's terminal event was emitted
    terminal,       \* _terminal
    collected,      \* _collected
    replay,         \* _replay_input, <<>> when None
    pending,        \* _pending_replay: the input of this turn's request
    got,            \* the frames the client got in this turn
    records         \* log records so far

bridgeVars == <<client, inbox, sent, known, buffered, main, watcher, work, turn,
                queue, held, producer, emitted, over, terminal, collected,
                replay, pending, got, records>>

socketVars == <<client, inbox, sent, known>>
streamVars == <<queue, held, producer, emitted, over>>
turnVars   == <<terminal, collected, replay, pending>>

-----------------------------------------------------------------------------
(* Items and the replay *)

IsTool(item) == item[1] \in {"call", "output"}

\* The items whose positions are in I, in their order.
At(items, I) ==
    LET part[n \in 0..Len(items)] ==
            IF n = 0 THEN <<>>
            ELSE IF n \in I THEN Append(part[n - 1], items[n]) ELSE part[n - 1]
    IN  part[Len(items)]

\* A tool item that is in both is kept once, at its former place.
Merge(previous, current) ==
    IF IsPrefix(previous, current) THEN current
    ELSE previous \o At(current, {i \in DOMAIN current :
             ~(IsTool(current[i]) /\ current[i] \in ToSet(previous))})

\* An item is kept where it comes first.
Dedup(items) ==
    At(items, {i \in DOMAIN items : \A j \in 1..(i - 1) : items[j] # items[i]})

HasOutput(items) == \E i \in ToSet(items) : i[1] = "output"

Continues(frame) == frame.previous \/ HasOutput(frame.input)

\* _prepare_turn_payload; no replay yet is the empty one.
Prepared(frame) ==
    IF Continues(frame) THEN Merge(replay, frame.input) ELSE frame.input

CommitInput == pending                                  \* mutant of Committed

\* _commit_replay
Committed == IF collected = <<>> THEN pending ELSE Merge(pending, Dedup(collected))

-----------------------------------------------------------------------------
(* The client *)

\* Of the terminal events, response.done and response.incomplete end a turn as
\* response.completed does; response.cancelled and error as response.failed.
OkVerdicts == {"completed"}
Verdicts   == OkVerdicts \cup {"failed"}

\* What a client may say next: a new conversation, more of this one, or the
\* output of a call of this one, with or without the call.
Frame(input, previous) ==
    [kind |-> "create", no |-> sent + 1, input |-> input, previous |-> previous]

Frames ==
    {Frame(<<<<"message", sent + 1>>>>, p) : p \in {FALSE, sent > 0}} \cup
    UNION {{Frame(<<<<"output", c>>>>, FALSE),
            Frame(<<<<"call", c>>, <<"output", c>>>>, FALSE)} : c \in known}

ClientSends ==
    /\ client = "there" /\ main # "ended" /\ sent < MaxFrames
    /\ sent' = sent + 1
    /\ \/ \E f \in Frames :
             /\ inbox' = Append(inbox, f)
             /\ known' = IF Continues(f) THEN known ELSE {}
       \/ inbox' = Append(inbox, [kind |-> "other", no |-> sent + 1]) /\ UNCHANGED known
    /\ UNCHANGED <<client, buffered, main, watcher, work, turn, streamVars,
                   turnVars, got, records>>

ClientLeaves ==
    /\ client = "there" /\ main # "ended"
    /\ client' = "left"
    /\ inbox' = Append(inbox, [kind |-> "disconnect", no |-> 0])
    /\ UNCHANGED <<sent, known, buffered, main, watcher, work, turn, streamVars,
                   turnVars, got, records>>

-----------------------------------------------------------------------------
(* run and _run_turn_guarded *)

Nothing == [type |-> "none"]

NoTurn == [no |-> 0, frame |-> Nothing, attempt |-> 0, event |-> Nothing, status |-> "none",
           first |-> FALSE, keep |-> TRUE]

Begin(frame) ==
    /\ turn' = [NoTurn EXCEPT !.no = turn.no + 1, !.frame = frame]
    /\ main' = "guarding" /\ watcher' = "watching" /\ work' = "preparing"
    /\ got' = <<>>

End == main' = "ended" /\ UNCHANGED <<turn, watcher, work, got>>

\* What the watcher kept comes first.
BufferFirst == buffered # <<>>

Receive ==
    /\ main = "receiving"
    /\ \/ /\ BufferFirst
          /\ IF Head(buffered).kind = "create" THEN Begin(Head(buffered)) ELSE End
          /\ buffered' = <<>>
          /\ UNCHANGED inbox
       \/ /\ ~BufferFirst /\ inbox # <<>>
          /\ IF Head(inbox).kind = "create" THEN Begin(Head(inbox)) ELSE End
          /\ inbox' = Tail(inbox)
          /\ UNCHANGED buffered
    /\ UNCHANGED <<client, sent, known, streamVars, turnVars, records>>

\* SSE2WS_FIRST_MESSAGE_TIMEOUT, SSE2WS_INTER_TURN_IDLE_TIMEOUT
IdleTimeout ==
    /\ main = "receiving" /\ buffered = <<>> /\ inbox = <<>>
    /\ End
    /\ UNCHANGED <<socketVars, buffered, streamVars, turnVars, records>>

\* One frame is kept for the next turn, the others are dropped.
Kept(old, new) == IF old = <<>> THEN <<new>> ELSE old

Watch ==
    /\ watcher = "watching" /\ inbox # <<>>
    /\ inbox' = Tail(inbox)
    /\ IF Head(inbox).kind = "disconnect"
       THEN watcher' = "alarm" /\ UNCHANGED buffered
       ELSE buffered' = Kept(buffered, Head(inbox)) /\ UNCHANGED watcher
    /\ UNCHANGED <<client, sent, known, main, work, turn, streamVars, turnVars, got,
                   records>>

\* mutant of Cancelled
NoRoom == IF producer = "off" THEN "off" ELSE "stuck"

\* The producer is cancelled: it puts "eof", for which a full queue has no room.
\* One that already waits to put "eof" gives up.
Cancelled ==
    IF producer \in {"off", "ending"} \/ Len(queue) < QueueSize THEN "off" ELSE "stuck"

StopProducer == producer' = Cancelled /\ UNCHANGED <<queue, held, emitted, over>>

\* asyncio.wait returned.  A turn that is cancelled while it relays still has
\* to stop its producer; a second cancellation ends that wait.
Guard ==
    /\ main = "guarding"
    /\ \/ /\ watcher = "alarm"
          /\ main' = "gathering"
          /\ \/ /\ work \in {"first", "relaying", "streaming"}
                /\ work' = "closing"
                /\ turn' = [turn EXCEPT !.status = "cancelled"]
                /\ StopProducer
             \/ /\ work \notin {"first", "relaying", "streaming"}
                /\ work' = "done"
                /\ producer' = "off"
                /\ UNCHANGED <<turn, queue, held, emitted, over>>
          /\ UNCHANGED watcher
       \/ /\ watcher # "alarm" /\ work = "done"
          /\ main' = IF turn.keep THEN "receiving" ELSE "ended"
          /\ watcher' = "off"
          /\ UNCHANGED <<work, turn, streamVars>>
    /\ UNCHANGED <<socketVars, buffered, turnVars, got, records>>

Gather ==
    /\ main = "gathering" /\ work = "done"
    /\ End
    /\ UNCHANGED <<socketVars, buffered, streamVars, turnVars, records>>

-----------------------------------------------------------------------------
(* _run_turn_inner *)

Mark(type) == [type |-> type, calls |-> FALSE, attempt |-> turn.attempt, no |-> 0]

KeepOpen(keep) == work' = "done" /\ turn' = [turn EXCEPT !.keep = TRUE]  \* mutant of Leave

Leave(keep) == work' = "done" /\ turn' = [turn EXCEPT !.keep = keep]

\* Too large, refused by the data-loss prevention, or no pool for the model.
Prepare ==
    /\ work = "preparing"
    /\ pending' = Prepared(turn.frame)
    /\ \/ work' = "asking" /\ turn' = [turn EXCEPT !.attempt = 1] /\ UNCHANGED got
       \/ Leave(FALSE) /\ got' = <<Mark("error")>>
    /\ UNCHANGED <<socketVars, buffered, main, watcher, streamVars, terminal, collected,
                   replay, records>>

\* The queue is a local of _consume_stream.
NoStream == queue' = <<>> /\ held' = Nothing /\ emitted' = 0 /\ over' = FALSE

\* RetryProxy.request returned: no response, an error status, or a stream.
Answer ==
    /\ work = "asking"
    /\ \/ /\ turn' = [turn EXCEPT !.status = "error"]
          /\ work' = "settling"
          /\ UNCHANGED <<streamVars, terminal, collected>>
       \/ /\ work' = "first"
          /\ turn' = [turn EXCEPT !.status = "none"]
          /\ NoStream /\ producer' = "reading"
          /\ terminal' = "none" /\ collected' = <<>>
    /\ UNCHANGED <<socketVars, buffered, main, watcher, replay, pending, got, records>>

\* _handle_event
Handle(event) ==
    /\ terminal' = IF event.type \in Verdicts THEN event.type ELSE terminal
    /\ collected' = IF event.calls THEN Append(collected, <<"call", turn.frame.no>>)
                    ELSE collected

-----------------------------------------------------------------------------
(* _consume_stream *)

\* Both loops end in the finally: the producer is cancelled and waited for.
Stop(status) ==
    /\ work' = "closing"
    /\ turn' = [turn EXCEPT !.status = status]

\* An item is taken out of the queue, in the first or in the second loop.
Take ==
    /\ work \in {"first", "streaming"} /\ queue # <<>>
    /\ queue' = Tail(queue)
    /\ LET item == Head(queue)
       IN  \/ /\ item.type \notin {"eof", "broken"}
              /\ Handle(item)
              /\ work' = "relaying"
              /\ turn' = [turn EXCEPT !.event = item]
              /\ UNCHANGED producer
           \/ /\ item.type = "eof"
              /\ Stop(IF terminal = "none" THEN "eof" ELSE terminal)
              /\ UNCHANGED <<producer, terminal, collected>>
           \/ /\ item.type = "broken"
              /\ Stop("transport_error")
              /\ producer' = "off"
              /\ UNCHANGED <<terminal, collected>>
    /\ UNCHANGED <<socketVars, buffered, main, watcher, held, emitted, over, replay,
                   pending, got, records>>

\* send_text: it may fail when the client is gone.
Relay ==
    /\ work = "relaying"
    /\ \/ /\ got' = Append(got, turn.event)
          /\ work' = "streaming" /\ turn' = [turn EXCEPT !.first = TRUE]
          /\ known' = IF turn.event.type \in OkVerdicts /\ turn.frame.no = sent
                      THEN known \cup {i[2] : i \in ToSet(collected)} ELSE known
          /\ UNCHANGED streamVars
       \/ /\ client = "left"
          /\ Stop("client_disconnected")
          /\ StopProducer
          /\ UNCHANGED <<got, known>>
    /\ UNCHANGED <<client, inbox, sent, buffered, main, watcher, turnVars, records>>

\* SSE2WS_FIRST_EVENT_TIMEOUT; the queue has room for the producer's end.
FirstTimeout ==
    /\ work = "first" /\ queue = <<>>
    /\ Stop("first_event_timeout")
    /\ StopProducer
    /\ UNCHANGED <<socketVars, buffered, main, watcher, turnVars, got, records>>

AlwaysAgain == turn.attempt <= Retries                  \* mutant of Again

\* No second request once the client has seen an event of the first one.
Again == ~turn.first /\ turn.attempt <= Retries

NoWait == TRUE                                          \* mutant of ProducerEnded

ProducerEnded == producer = "off"

\* Retry, or settle the turn.
Close ==
    /\ work = "closing" /\ ProducerEnded
    /\ IF turn.status \in {"client_disconnected", "cancelled"} THEN Leave(FALSE)
       ELSE /\ work' = IF Again THEN "pausing" ELSE "settling"
            /\ UNCHANGED turn
    /\ NoStream /\ UNCHANGED producer
    /\ UNCHANGED <<socketVars, buffered, main, watcher, turnVars, got, records>>

Retry ==
    /\ work = "pausing"
    /\ work' = "asking" /\ turn' = [turn EXCEPT !.attempt = @ + 1]
    /\ UNCHANGED <<socketVars, buffered, main, watcher, streamVars, turnVars, got, records>>

\* The producer: events, a transport error, the end; each waits for room.
Put(item, next) ==
    /\ Len(queue) < QueueSize
    /\ queue' = Append(queue, item)
    /\ producer' = next

Events == {[type |-> y, calls |-> c, attempt |-> turn.attempt, no |-> emitted + 1] :
               y \in {"delta", "item"} \cup Verdicts, c \in BOOLEAN}

\* A tool call comes in response.output_item.done, and again in the completed response.
Emit ==
    /\ producer = "reading" /\ ~over /\ emitted < MaxEvents
    /\ \E e \in Events :
          /\ e.type = "item" => e.calls
          /\ e.calls => e.type \in {"item", "completed"}
          /\ IF Len(queue) < QueueSize THEN Put(e, "reading") /\ UNCHANGED held
             ELSE held' = e /\ producer' = "putting" /\ UNCHANGED queue
          /\ emitted' = emitted + 1
          /\ over' = (e.type \in Verdicts)
    /\ UNCHANGED <<socketVars, buffered, main, watcher, work, turn, turnVars, got, records>>

Upstream ==
    /\ \/ producer = "reading" /\ producer' = "ending" /\ UNCHANGED queue
       \/ /\ producer = "reading" /\ (over => LateErrors)
          /\ producer' = "breaking" /\ UNCHANGED queue
       \/ producer = "putting"  /\ Put(held, "reading")
       \/ producer = "breaking" /\ Put(Mark("broken"), "ending")
       \/ producer = "ending"   /\ Put(Mark("eof"), "off")
    /\ UNCHANGED <<socketVars, buffered, main, watcher, work, turn, held, emitted, over,
                   turnVars, got, records>>

-----------------------------------------------------------------------------
(* The end of a turn *)

Settle ==
    /\ work = "settling"
    /\ replay' = IF turn.status \in OkVerdicts THEN Committed ELSE replay
    /\ work' = "logging"
    /\ UNCHANGED <<socketVars, buffered, main, watcher, turn, streamVars, terminal,
                   collected, pending, got, records>>

ForwardedOk == turn.status \in OkVerdicts               \* mutant of Forwarded

\* A verdict that was relayed is not told again.
Forwarded == turn.status \in Verdicts

Log ==
    /\ work = "logging"
    /\ records' = records + 1
    /\ IF Forwarded THEN Leave(TRUE)
       ELSE work' = "telling" /\ UNCHANGED turn
    /\ UNCHANGED <<socketVars, buffered, main, watcher, streamVars, turnVars, got>>

Tell ==
    /\ work = "telling"
    /\ \/ got' = Append(got, Mark("error")) /\ Leave(TRUE)
       \/ client = "left" /\ Leave(FALSE) /\ UNCHANGED got
    /\ UNCHANGED <<socketVars, buffered, main, watcher, streamVars, turnVars, records>>

-----------------------------------------------------------------------------
(* Specification *)

BridgeInit ==
    /\ client = "there" /\ inbox = <<>> /\ sent = 0 /\ known = {}
    /\ buffered = <<>> /\ main = "receiving" /\ watcher = "off" /\ work = "off"
    /\ turn = NoTurn
    /\ queue = <<>> /\ held = Nothing /\ producer = "off" /\ emitted = 0 /\ over = FALSE
    /\ terminal = "none" /\ collected = <<>> /\ replay = <<>> /\ pending = <<>>
    /\ got = <<>> /\ records = 0

RunSteps  == Receive \/ Guard \/ Gather
WorkSteps == Prepare \/ Answer \/ Take \/ Relay \/ Close \/ Retry \/ Settle \/ Log \/ Tell

BridgeNext ==
    \/ ClientSends \/ ClientLeaves
    \/ Receive \/ IdleTimeout \/ Watch \/ Guard \/ Gather
    \/ Prepare \/ Answer \/ Take \/ Relay \/ FirstTimeout \/ Close \/ Retry
    \/ Emit \/ Upstream
    \/ Settle \/ Log \/ Tell

\* Every coroutine that can run is scheduled; the upstream's silence ends in
\* httpx's read timeout.
BridgeSpec ==
    /\ BridgeInit /\ [][BridgeNext]_bridgeVars
    /\ WF_bridgeVars(RunSteps) /\ WF_bridgeVars(WorkSteps)
    /\ WF_bridgeVars(Watch) /\ WF_bridgeVars(Emit \/ Upstream)

-----------------------------------------------------------------------------
(* Properties *)

\* Type invariant.
BridgeTypeOK ==
    /\ client \in {"there", "left"} /\ sent \in 0..MaxFrames /\ known \subseteq 1..MaxFrames
    /\ Len(buffered) <= 1
    /\ main \in {"receiving", "guarding", "gathering", "ended"}
    /\ watcher \in {"off", "watching", "alarm"}
    /\ work \in {"off", "preparing", "asking", "first", "relaying", "streaming", "closing",
                 "pausing", "settling", "logging", "telling", "done"}
    /\ turn.attempt \in 0..(Retries + 1)
    /\ Len(queue) <= QueueSize
    /\ producer \in {"off", "reading", "putting", "breaking", "ending", "stuck"}
    /\ emitted \in 0..MaxEvents /\ over \in BOOLEAN
    /\ terminal \in {"none"} \cup Verdicts
    /\ records \in Nat

\* A request body is rebuilt from the replay, the client's frame and what the
\* responses asked for: every output in it follows its call, also when the
\* client sends the output alone and after turns that failed, and no call and
\* no output is there twice (sse2ws.py:146-174, 611-634).
ContextKept ==
    \A i \in DOMAIN pending :
        /\ pending[i][1] = "output" =>
               \E j \in 1..(i - 1) : pending[j] = <<"call", pending[i][2]>>
        /\ IsTool(pending[i]) => \A j \in 1..(i - 1) : pending[j] # pending[i]

IsError(f) == f.type = "error"

\* What the client gets in one turn: the events of one attempt, in order and
\* without a gap, then at most one error frame.
FramesOfOneResponse ==
    \A i \in DOMAIN got :
        IF IsError(got[i]) THEN i = Len(got)
        ELSE got[i].no = i /\ got[i].attempt = got[1].attempt

\* The verdicts of the turn that the client got: terminal events, error frames.
Final == {i \in DOMAIN got : got[i].type \in Verdicts \cup {"error"}}

\* No turn has two verdicts, and one that leaves the connection open told one
\* and wrote its record (sse2ws.py:505-545, 768-776).
OneVerdict ==
    /\ \A i, j \in Final : i = j
    /\ main = "receiving" /\ turn.no > 0 => Final # {} /\ records = turn.no

\* The turns serve the client's frames in the order they were sent (sse2ws.py:353-356,
\* 385-386), whatever the upstream does; TurnsAsPromised says it with the rest.
TurnsInOrder ==
    [][turn'.no > turn.no /\ turn.no > 0 => turn'.frame.no > turn.frame.no]_bridgeVars

\* No turn and no producer outlives the connection.
NothingOutlives == main = "ended" => work \in {"off", "done"} /\ producer = "off"

\* The turn's own end waits for a producer that waits for room in the queue.
Wedged == main = "gathering" /\ work = "closing" /\ producer = "stuck"

\* Every turn ends, but for that case.
TurnsEnd == main \in {"guarding", "gathering"} ~> main \in {"receiving", "ended"} \/ Wedged

\* How far the connection is with the client's requests: a turn that is
\* cancelled tells nothing more.
Phase ==
    CASE main = "receiving" -> "open"
      [] main = "guarding"  -> "serving"
      [] OTHER              -> "closed"

Request == IF turn.no = 0 THEN 0 ELSE turn.frame.no

Promise == INSTANCE Turns WITH
    Verdicts <- Verdicts,
    Error    <- "error",
    phase    <- Phase,
    request  <- Request,
    told     <- got

\* The connection keeps the promises of Turns: each answer is one response up to
\* its verdict, in the order of the requests, and after the watcher saw the
\* client leave nothing is told (run, _run_turn_guarded, sse2ws.py:385-482).
TurnsAsPromised == Promise!TurnsSpec

\* "avoid hanging" (sse2ws.py:19): no turn waits for ever.
NoTurnHangs == ~Wedged
=============================================================================

------------------------- MODULE Sse2wsBridgeProofs -------------------------
(***************************************************************************)
(* Proofs about one bridged connection, for any number of frames, events   *)
(* and retries and any size of the queue.                                  *)
(*                                                                         *)
(* Flow follows the events of one attempt: the number an event has in its  *)
(* response is its place among what the client got, what is being relayed, *)
(* what is queued and what waits for the queue.  So the client misses none *)
(* and sees none twice.  Since a response ends with its verdict, that is   *)
(* the last thing the client gets (Ending, Judged), and the record of the  *)
(* turn is written with it (Written).  Order follows the client's frames   *)
(* from the socket over the watcher's buffer to the turns.                 *)
(*                                                                         *)
(* Answerable follows the tool calls.  A call that the client may answer,  *)
(* or answered in a frame that waits, will be in the replay when the turn  *)
(* in progress is over (Lasting), and no frame before the answer begins a  *)
(* new conversation (GoesOn).  So the answer finds its call when its frame *)
(* is served.                                                              *)
(***************************************************************************)
EXTENDS Sse2wsBridge, SequenceTheorems, WellFoundedInduction, NaturalsInduction, TLAPS

EventTypes == {"delta", "item"} \cup Verdicts

Input == {"message", "call", "output"} \X (1..MaxFrames)

Message == [kind : {"create"}, no : 1..MaxFrames, input : Seq(Input), previous : BOOLEAN]
           \cup [kind : {"other"}, no : 1..MaxFrames]
           \cup [kind : {"disconnect"}, no : {0}]

Item == [type : EventTypes \cup {"error", "eof", "broken"}, calls : BOOLEAN,
         attempt : 0..(Retries + 1), no : 0..MaxEvents]

Status == {"none", "error", "eof", "transport_error", "first_event_timeout",
           "client_disconnected", "cancelled"} \cup Verdicts

Turn == [no : Nat, frame : Message \cup {Nothing}, attempt : 0..(Retries + 1),
         event : Item \cup {Nothing}, status : Status,
         first : BOOLEAN, keep : BOOLEAN]

Call == {"call"} \X (1..MaxFrames)

SocketTyped ==
    /\ client \in {"there", "left"} /\ sent \in 0..MaxFrames /\ known \subseteq 1..MaxFrames
    /\ inbox \in Seq(Message) /\ buffered \in Seq(Message) /\ Len(buffered) <= 1

StageTyped ==
    /\ main \in {"receiving", "guarding", "gathering", "ended"}
    /\ watcher \in {"off", "watching", "alarm"}
    /\ work \in {"off", "preparing", "asking", "first", "relaying", "streaming", "closing",
                 "pausing", "settling", "logging", "telling", "done"}
    /\ producer \in {"off", "reading", "putting", "breaking", "ending", "stuck"}
    /\ over \in BOOLEAN /\ terminal \in {"none"} \cup Verdicts

StreamTyped ==
    /\ queue \in Seq(Item) /\ Len(queue) <= QueueSize
    /\ held \in Item \cup {Nothing} /\ (producer = "putting" => held \in Item)
    /\ emitted \in 0..MaxEvents

DataTyped == collected \in Seq(Call) /\ got \in Seq(Item) /\ records \in Nat

Typed == SocketTyped /\ StageTyped /\ StreamTyped /\ turn \in Turn /\ DataTyped

Idle == work \in {"off", "done"}

\* A turn runs only within a connection, and a producer within a turn.
Nested ==
    /\ main \in {"receiving", "ended"} => Idle
    /\ main = "guarding" => work # "off"
    /\ ~Idle => turn.frame \in Message /\ turn.frame.kind = "create"
    /\ producer # "off" => work \in {"first", "relaying", "streaming", "closing"}
    /\ work = "pausing" => turn.attempt <= Retries
    /\ work = "relaying" => turn.event \in Item

\* Events of the attempt that left the queue.
Taken == Len(got) + (IF work = "relaying" THEN 1 ELSE 0)

InFlow == work \in {"first", "relaying", "streaming"}

\* An event of this attempt, in its place.
Placed(e, n, a) == e.type \in EventTypes /\ e.no = n /\ e.attempt = a

\* What a turn has relayed; before its first event it may still ask again.
Relayed ==
    ~Idle =>
        /\ \A i \in DOMAIN got : Placed(got[i], i, turn.attempt)
        /\ ~turn.first => got = <<>>
        /\ work \in {"preparing", "asking", "first", "pausing"} => ~turn.first

\* An item of the queue: what the producer ends with, or an event in its place.
InLine(e, n, a, m) == e.type \in {"eof", "broken"} \/ (Placed(e, n, a) /\ n <= m)

QueueInLine == \A i \in DOMAIN queue : InLine(queue[i], Taken + i, turn.attempt, emitted)

Queued ==
    InFlow =>
        /\ Taken <= emitted
        /\ work = "relaying" => Placed(turn.event, Taken, turn.attempt)
        /\ QueueInLine
        /\ producer = "reading" => emitted = Taken + Len(queue)
        /\ producer = "putting" => /\ emitted = Taken + Len(queue) + 1
                                   /\ Placed(held, emitted, turn.attempt)

Flow == Relayed /\ Queued

BridgeInv == Typed /\ Nested /\ Flow /\ FramesOfOneResponse

\* A verdict is the last event of the response: o, it is over; m, its length.
Closes(e, n, o, m) == e.type \in Verdicts => o /\ n = m

\* Where the verdict of this attempt is, and what was made of it so far.
Ending ==
    InFlow =>
        /\ \A i \in DOMAIN got : Closes(got[i], i, over, emitted)
        /\ work = "relaying" => Closes(turn.event, Taken, over, emitted)
        /\ \A i \in DOMAIN queue : Closes(queue[i], Taken + i, over, emitted)
        /\ producer = "putting" => Closes(held, emitted, over, emitted)
        /\ over => producer # "breaking"
        /\ over \/ producer \in {"reading", "putting"} =>
               \A i \in DOMAIN queue : queue[i].type # "broken"
        /\ terminal # "none" <=> \/ Final # {}
                                 \/ work = "relaying" /\ turn.event.type \in Verdicts

\* How a turn ended, and what the client was told.
Judged ==
    /\ \A i \in Final : i = Len(got)
    /\ work \in {"closing", "settling", "logging", "telling"} =>
          \/ turn.status \in Verdicts /\ Final # {} /\ work # "telling"
          \/ turn.status \in {"client_disconnected", "cancelled"} /\ work = "closing"
          \/ turn.status \in Status \ (Verdicts \cup {"client_disconnected", "cancelled"})
             /\ Final = {}

\* The records and the verdicts of the turns so far.
Written ==
    /\ main = "receiving" => records = turn.no /\ (turn.no > 0 => Final # {})
    /\ main = "guarding" /\ work = "done" /\ turn.keep => records = turn.no /\ Final # {}
    /\ main = "guarding" /\ work = "telling" => records = turn.no
    /\ main = "guarding" /\ work \notin {"done", "telling"} => records + 1 = turn.no

VerdictInv == BridgeInv /\ Ending /\ Judged /\ Written

Said(f) == f.kind # "disconnect"

\* Every frame in s came after frame n.
After(n, s) == \A i \in DOMAIN s : Said(s[i]) => n < s[i].no

Rising(s) == \A i, j \in DOMAIN s : i < j /\ Said(s[i]) /\ Said(s[j]) => s[i].no < s[j].no

\* The frame of the turn, the frame the watcher kept and those in the socket.
Order ==
    /\ Rising(inbox) /\ \A i \in DOMAIN inbox : inbox[i].no <= sent
    /\ buffered # <<>> => /\ Said(Head(buffered)) /\ Head(buffered).no <= sent
                         /\ After(Head(buffered).no, inbox)
    /\ turn.no > 0 => /\ turn.frame.no \in Nat /\ turn.frame.no <= sent
                      /\ buffered # <<>> => turn.frame.no < Head(buffered).no
                      /\ After(turn.frame.no, inbox)

\* Call c is in s.
Asks(c, s) == \E i \in DOMAIN s : s[i] = <<"call", c>>

\* The outputs in s follow their calls, but those of the calls in S.
FollowsBut(s, S) ==
    \A i \in DOMAIN s : s[i][1] = "output" /\ s[i][2] \notin S =>
        \E j \in 1..(i - 1) : s[j] = <<"call", s[i][2]>>

\* No call and no output is in s twice.
Once(s) == \A i \in DOMAIN s : IsTool(s[i]) => \A j \in 1..(i - 1) : s[j] # s[i]

InContext(s) == FollowsBut(s, {}) /\ Once(s)

\* The calls of other responses that the outputs in s answer.
Needs(s) ==
    {c \in 1..MaxFrames : \E i \in DOMAIN s :
        s[i] = <<"output", c>> /\ \A j \in 1..(i - 1) : s[j] # <<"call", c>>}

\* The frames that wait for their turns.
Line == ToSet(buffered) \cup ToSet(inbox)

Creates(f) == f.kind = "create"

\* Every frame before frame n goes on with the conversation.
GoesOn(n) == \A f \in Line : Creates(f) /\ f.no < n => Continues(f)

\* The response asked for call c, and the client heard that it ended well.
Promised(c) ==
    /\ Asks(c, collected) /\ terminal \in OkVerdicts /\ turn.first
    /\ work \in {"streaming", "closing", "settling"}
    /\ work # "streaming" => turn.status \in OkVerdicts

\* Call c will be in the replay when this turn is over.
Lasting(c) ==
    \/ work \in {"off", "done", "logging", "telling"} /\ Asks(c, replay)
    \/ work = "preparing" /\ Asks(c, replay) /\ Continues(turn.frame)
    \/ /\ work \in {"asking", "first", "relaying", "streaming", "closing", "pausing",
                    "settling"}
       /\ Asks(c, replay) /\ Asks(c, pending)
    \/ Promised(c)

\* What the client may answer, and what it answered in the frames that wait.
Answerable ==
    main \in {"receiving", "guarding"} =>
        /\ \A c \in known : Lasting(c) /\ GoesOn(sent + 1)
        /\ \A f \in Line : Creates(f) => \A c \in Needs(f.input) : Lasting(c) /\ GoesOn(f.no)

Fits(f) == Once(f.input) /\ \A c \in Needs(f.input) : Asks(c, replay)

ContextInv ==
    /\ replay \in Seq(Input) /\ pending \in Seq(Input)
    /\ InContext(replay) /\ InContext(pending)
    /\ \A f \in Line : Creates(f) => Once(f.input)
    /\ work = "preparing" => Fits(turn.frame)
    /\ work = "relaying" /\ turn.event.type \in Verdicts => terminal = turn.event.type
    /\ Answerable

-----------------------------------------------------------------------------
(* The data.                                                               *)

LEMMA Constants ==
    /\ MaxFrames \in Nat /\ MaxEvents \in Nat /\ QueueSize \in Nat /\ QueueSize > 0
    /\ Retries \in Nat
BY BridgeAssumption

LEMMA Names == Verdicts = {"completed", "failed"}
BY DEF Verdicts, OkVerdicts

\* Sequences, as they are used here.
LEMMA Empty == ASSUME NEW S PROVE <<>> \in Seq(S) /\ Len(<<>>) = 0 /\ DOMAIN <<>> = {}
OBVIOUS

LEMMA Appended ==
    ASSUME NEW S, NEW s \in Seq(S), NEW x \in S
    PROVE  /\ Append(s, x) \in Seq(S) /\ Len(Append(s, x)) = Len(s) + 1
           /\ DOMAIN Append(s, x) = DOMAIN s \cup {Len(s) + 1}
           /\ Append(s, x)[Len(s) + 1] = x
           /\ \A i \in DOMAIN s : i # Len(s) + 1 /\ Append(s, x)[i] = s[i]
OBVIOUS

LEMMA Shifted ==
    ASSUME NEW S, NEW s \in Seq(S), s # <<>>
    PROVE  /\ Head(s) \in S /\ Head(s) = s[1] /\ 1 \in DOMAIN s
           /\ Tail(s) \in Seq(S) /\ Len(Tail(s)) = Len(s) - 1
           /\ \A i \in DOMAIN Tail(s) : i + 1 \in DOMAIN s /\ Tail(s)[i] = s[i + 1]
OBVIOUS

LEMMA Elements ==
    ASSUME NEW S, NEW s \in Seq(S)
    PROVE  Len(s) \in Nat /\ DOMAIN s = 1..Len(s) /\ \A i \in DOMAIN s : s[i] \in S
OBVIOUS

LEMMA InitHolds ==
    ASSUME BridgeInit
    PROVE  BridgeInv
<1>1. turn \in Turn /\ turn.no = 0
  BY Constants DEF BridgeInit, NoTurn, Turn, Status
<1>2. Typed
  <2>1. /\ inbox \in Seq(Message) /\ buffered \in Seq(Message) /\ Len(buffered) <= 1
        /\ queue \in Seq(Item) /\ Len(queue) <= QueueSize
        /\ collected \in Seq(Call) /\ got \in Seq(Item)
    BY Constants, Empty DEF BridgeInit
  <2>2. emitted \in 0..MaxEvents /\ records \in Nat /\ sent \in 0..MaxFrames
    BY Constants DEF BridgeInit
  <2>3. over \in BOOLEAN /\ held \in Item \cup {Nothing} /\ known \subseteq 1..MaxFrames
    BY DEF BridgeInit
  <2>4. QED
    BY <1>1, <2>1, <2>2, <2>3
    DEF BridgeInit, Typed, SocketTyped, StageTyped, StreamTyped, DataTyped
<1>3. Nested /\ Flow
  BY DEF BridgeInit, Nested, Flow, Relayed, Queued, Idle, InFlow
<1>4. FramesOfOneResponse
  BY Empty DEF BridgeInit, FramesOfOneResponse
<1>5. QED
  BY <1>2, <1>3, <1>4 DEF BridgeInv

-----------------------------------------------------------------------------
(* The types.                                                              *)

LEMMA Singleton == ASSUME NEW S, NEW x \in S, NEW y \in S
                   PROVE  <<x>> \in Seq(S) /\ Len(<<x>>) = 1 /\ <<x, y>> \in Seq(S)
OBVIOUS

LEMMA FramesTyped ==
    ASSUME SocketTyped, sent < MaxFrames, NEW f \in Frames
    PROVE  f \in Message
<1>1. sent + 1 \in 1..MaxFrames /\ known \subseteq 1..MaxFrames
  BY Constants DEF SocketTyped
<1>2. ASSUME NEW s \in Seq(Input), NEW p \in BOOLEAN
      PROVE  Frame(s, p) \in Message
  BY <1>1 DEF Frame, Message
<1>3. \A n \in 1..MaxFrames : /\ <<"message", n>> \in Input /\ <<"output", n>> \in Input
                              /\ <<"call", n>> \in Input
  BY DEF Input
<1>4. CASE f \in {Frame(<<<<"message", sent + 1>>>>, p) : p \in {FALSE, sent > 0}}
  <2>1. PICK p \in {FALSE, sent > 0} : f = Frame(<<<<"message", sent + 1>>>>, p)
    BY <1>4
  <2>2. p \in BOOLEAN
    <3>1. (sent > 0) \in BOOLEAN
      OBVIOUS
    <3>2. QED
      BY <2>1, <3>1, Zenon
  <2>3. <<<<"message", sent + 1>>>> \in Seq(Input)
    BY <1>1, <1>3, Singleton
  <2>4. QED
    BY <1>2, <2>1, <2>2, <2>3
<1>5. CASE f \in UNION {{Frame(<<<<"output", c>>>>, FALSE),
                         Frame(<<<<"call", c>>, <<"output", c>>>>, FALSE)} : c \in known}
  <2>1. PICK c \in known : \/ f = Frame(<<<<"output", c>>>>, FALSE)
                           \/ f = Frame(<<<<"call", c>>, <<"output", c>>>>, FALSE)
    BY <1>5
  <2>2. /\ <<<<"output", c>>>> \in Seq(Input)
        /\ <<<<"call", c>>, <<"output", c>>>> \in Seq(Input)
    BY <1>1, <1>3, Singleton
  <2>3. QED
    BY <1>2, <2>1, <2>2
<1>6. QED
  BY <1>4, <1>5 DEF Frames

LEMMA SocketKept ==
    ASSUME Typed, BridgeNext
    PROVE  SocketTyped'
<1>1. SocketTyped
  BY DEF Typed
<1>2. CASE ClientSends
  <2>1. sent < MaxFrames /\ sent' = sent + 1 /\ UNCHANGED <<client, buffered>>
    BY <1>2 DEF ClientSends
  <2>2. sent' \in 0..MaxFrames /\ sent + 1 \in 1..MaxFrames
    BY <1>1, <2>1, Constants DEF SocketTyped
  <2>3. known' = known \/ known' = {}
    BY <1>2 DEF ClientSends
  <2>4. \E f \in Message : inbox' = Append(inbox, f)
    <3>1. CASE \E f \in Frames : inbox' = Append(inbox, f)
      BY <1>1, <2>1, <3>1, FramesTyped
    <3>2. CASE inbox' = Append(inbox, [kind |-> "other", no |-> sent + 1])
      BY <2>2, <3>2 DEF Message
    <3>3. QED
      BY <1>2, <3>1, <3>2 DEF ClientSends
  <2>5. inbox' \in Seq(Message)
    BY <1>1, <2>4, Appended DEF SocketTyped
  <2>6. QED
    BY <1>1, <2>1, <2>2, <2>3, <2>5 DEF SocketTyped
<1>3. CASE ClientLeaves
  <2>1. [kind |-> "disconnect", no |-> 0] \in Message
    BY DEF Message
  <2>2. inbox' \in Seq(Message)
    BY <1>1, <1>3, <2>1, Appended DEF ClientLeaves, SocketTyped
  <2>3. QED
    BY <1>1, <1>3, <2>2 DEF ClientLeaves, SocketTyped
<1>4. CASE Receive
  <2>1. \/ buffered' = <<>> /\ inbox' = inbox
        \/ inbox # <<>> /\ inbox' = Tail(inbox) /\ buffered' = buffered
    BY <1>4 DEF Receive
  <2>2. inbox' \in Seq(Message) /\ buffered' \in Seq(Message) /\ Len(buffered') <= 1
    <3>1. inbox \in Seq(Message) /\ buffered \in Seq(Message) /\ Len(buffered) <= 1
      BY <1>1 DEF SocketTyped
    <3>2. <<>> \in Seq(Message) /\ Len(<<>>) = 0
      BY Empty
    <3>3. inbox # <<>> => Tail(inbox) \in Seq(Message)
      BY <3>1, Shifted
    <3>4. CASE buffered' = <<>> /\ inbox' = inbox
      BY <3>1, <3>2, <3>4
    <3>5. CASE inbox # <<>> /\ inbox' = Tail(inbox) /\ buffered' = buffered
      BY <3>1, <3>3, <3>5
    <3>6. QED
      BY <2>1, <3>4, <3>5
  <2>3. QED
    BY <1>1, <1>4, <2>2 DEF Receive, SocketTyped
<1>5. CASE Watch
  <2>1. Head(inbox) \in Message /\ inbox' \in Seq(Message)
    BY <1>1, <1>5, Shifted DEF Watch, SocketTyped
  <2>2. \/ buffered' = buffered \/ buffered' = <<Head(inbox)>>
    BY <1>5 DEF Watch, Kept
  <2>3. buffered' \in Seq(Message) /\ Len(buffered') <= 1
    <3>1. buffered \in Seq(Message) /\ Len(buffered) <= 1
      BY <1>1 DEF SocketTyped
    <3>2. <<Head(inbox)>> \in Seq(Message) /\ Len(<<Head(inbox)>>) = 1
      BY <2>1, Singleton
    <3>3. QED
      BY <2>2, <3>1, <3>2
  <2>4. QED
    BY <1>1, <1>5, <2>1, <2>3 DEF Watch, SocketTyped
<1>6. CASE Relay
  <2>1. \A i \in ToSet(collected) : i[2] \in 1..MaxFrames
    BY DEF Typed, DataTyped, Call, ToSet
  <2>2. known' \subseteq 1..MaxFrames
    BY <1>1, <1>6, <2>1 DEF Relay, SocketTyped
  <2>3. QED
    BY <1>1, <1>6, <2>2 DEF Relay, SocketTyped
<1>7. CASE UNCHANGED <<client, inbox, sent, known, buffered>>
  BY <1>1, <1>7 DEF SocketTyped
<1>8. QED
  BY <1>2, <1>3, <1>4, <1>5, <1>6, <1>7
  DEF BridgeNext, IdleTimeout, Guard, Gather, Prepare, Answer, Take, FirstTimeout, Close,
      Retry, Emit, Upstream, Settle, Log, Tell, socketVars


LEMMA StageKept ==
    ASSUME Typed, BridgeNext
    PROVE  StageTyped'
<1>1. StageTyped
  BY DEF Typed
<1>2. /\ main' \in {"receiving", "guarding", "gathering", "ended"}
      /\ watcher' \in {"off", "watching", "alarm"}
  BY <1>1 DEF StageTyped, BridgeNext, ClientSends, ClientLeaves, Receive, Begin, End,
              IdleTimeout, Watch, Guard, Gather, Prepare, Answer, Take, Relay, FirstTimeout,
              Close, Retry, Emit, Upstream, Settle, Log, Tell
<1>3. work' \in {"off", "preparing", "asking", "first", "relaying", "streaming", "closing",
                 "pausing", "settling", "logging", "telling", "done"}
  BY <1>1 DEF StageTyped, BridgeNext, ClientSends, ClientLeaves, Receive, Begin, End,
              IdleTimeout, Watch, Guard, Gather, Prepare, Answer, Take, Relay, FirstTimeout,
              Close, Retry, Emit, Upstream, Settle, Log, Tell, Stop, Leave
<1>4. producer' \in {"off", "reading", "putting", "breaking", "ending", "stuck"}
  BY <1>1 DEF StageTyped, BridgeNext, ClientSends, ClientLeaves, Receive, Begin, End,
              IdleTimeout, Watch, Guard, Gather, Prepare, Answer, Take, Relay, FirstTimeout,
              Close, Retry, Emit, Upstream, Settle, Log, Tell, StopProducer, Cancelled, Put,
              streamVars
<1>5. over' \in BOOLEAN
  <2>1. CASE over' = over
    BY <1>1, <2>1 DEF StageTyped
  <2>2. CASE over' = FALSE
    BY <2>2
  <2>3. CASE Emit
    <3>1. PICK e \in Events : over' = (e.type \in Verdicts)
      BY <2>3 DEF Emit
    <3>2. (e.type \in Verdicts) \in BOOLEAN
      OBVIOUS
    <3>3. QED
      BY <3>1, <3>2, Zenon
  <2>4. QED
    BY <2>1, <2>2, <2>3
    DEF BridgeNext, ClientSends, ClientLeaves, Receive, IdleTimeout, Watch, Guard, Gather,
        Prepare, Answer, Take, Relay, FirstTimeout, Close, Retry, Upstream, Settle, Log,
        Tell, StopProducer, NoStream, streamVars
<1>6. terminal' \in {"none"} \cup Verdicts
  BY <1>1 DEF StageTyped, BridgeNext, ClientSends, ClientLeaves, Receive, IdleTimeout,
              Watch, Guard, Gather, Prepare, Answer, Take, Handle, Relay, FirstTimeout, Close,
              Retry, Emit, Upstream, Settle, Log, Tell, turnVars
<1>7. QED
  BY <1>2, <1>3, <1>4, <1>5, <1>6 DEF StageTyped

\* What a turn itself puts into the queue or tells the client.
LEMMA Marks ==
    ASSUME turn \in Turn, NEW y \in {"error", "eof", "broken"}
    PROVE  Mark(y) \in Item
BY Constants DEF Mark, Item, Turn

LEMMA EventsTyped ==
    ASSUME turn \in Turn, emitted \in 0..MaxEvents, emitted < MaxEvents, NEW e \in Events
    PROVE  /\ e \in Item /\ e.type \in EventTypes /\ e.calls \in BOOLEAN
           /\ e.attempt = turn.attempt /\ e.no = emitted + 1
<1>1. turn.attempt \in 0..(Retries + 1) /\ emitted + 1 \in 0..MaxEvents
  BY Constants DEF Turn
<1>2. PICK y \in {"delta", "item"} \cup Verdicts, c \in BOOLEAN :
          e = [type |-> y, calls |-> c, attempt |-> turn.attempt, no |-> emitted + 1]
  BY DEF Events
<1>3. y \in EventTypes
  BY <1>2 DEF EventTypes
<1>4. QED
  BY <1>1, <1>2, <1>3 DEF Item

LEMMA PutTyped ==
    ASSUME StreamTyped, NEW item \in Item, NEW next, Put(item, next)
    PROVE  queue' \in Seq(Item) /\ Len(queue') <= QueueSize /\ Len(queue') = Len(queue) + 1
<1>1. queue \in Seq(Item) /\ Len(queue) < QueueSize /\ queue' = Append(queue, item)
  BY DEF StreamTyped, Put
<1>2. Len(queue) \in Nat
  BY <1>1
<1>3. queue' \in Seq(Item) /\ Len(queue') = Len(queue) + 1
  BY <1>1, Appended
<1>4. QED
  BY <1>1, <1>2, <1>3, Constants

LEMMA StreamKept ==
    ASSUME Typed, BridgeNext
    PROVE  StreamTyped'
<1>1. StreamTyped /\ turn \in Turn
  BY DEF Typed
<1>2. CASE Emit
  <2>1. PICK e \in Events :
            /\ IF Len(queue) < QueueSize THEN Put(e, "reading") /\ UNCHANGED held
               ELSE held' = e /\ producer' = "putting" /\ UNCHANGED queue
            /\ emitted' = emitted + 1
    BY <1>2 DEF Emit
  <2>2. emitted < MaxEvents /\ emitted \in 0..MaxEvents
    BY <1>1, <1>2 DEF Emit, StreamTyped
  <2>3. e \in Item
    BY <1>1, <2>2, EventsTyped
  <2>4. emitted' \in 0..MaxEvents
    BY <2>1, <2>2, Constants
  <2>5. CASE Len(queue) < QueueSize
    <3>1. Put(e, "reading") /\ held' = held /\ producer' = "reading"
      BY <2>1, <2>5 DEF Put
    <3>2. queue' \in Seq(Item) /\ Len(queue') <= QueueSize
      BY <1>1, <2>3, <3>1, PutTyped
    <3>3. QED
      BY <1>1, <2>4, <3>1, <3>2 DEF StreamTyped
  <2>6. CASE ~(Len(queue) < QueueSize)
    BY <1>1, <2>1, <2>3, <2>4, <2>6 DEF StreamTyped
  <2>7. QED
    BY <2>5, <2>6
<1>3. CASE Upstream
  <2>1. held' = held /\ emitted' = emitted
    BY <1>3 DEF Upstream
  <2>2. \/ producer' # "putting" /\ queue' = queue
        \/ producer = "putting"  /\ Put(held, "reading")
        \/ Put(Mark("broken"), "ending")
        \/ Put(Mark("eof"), "off")
    BY <1>3 DEF Upstream
  <2>3. CASE producer' # "putting" /\ queue' = queue
    BY <1>1, <2>1, <2>3 DEF StreamTyped
  <2>4. ASSUME NEW item \in Item, NEW next \in {"reading", "ending", "off"}, Put(item, next)
        PROVE  StreamTyped'
    <3>1. queue' \in Seq(Item) /\ Len(queue') <= QueueSize
      BY <1>1, <2>4, PutTyped
    <3>2. producer' # "putting"
      BY <2>4 DEF Put
    <3>3. QED
      BY <1>1, <2>1, <3>1, <3>2 DEF StreamTyped
  <2>5. Mark("broken") \in Item /\ Mark("eof") \in Item
    BY <1>1, Marks
  <2>6. producer = "putting" => held \in Item
    BY <1>1 DEF StreamTyped
  <2>7. QED
    BY <2>2, <2>3, <2>4, <2>5, <2>6
<1>4. CASE Take
  <2>1. queue # <<>> /\ queue' = Tail(queue) /\ UNCHANGED <<held, emitted>>
    BY <1>4 DEF Take
  <2>2. producer' = producer \/ producer' = "off"
    BY <1>4 DEF Take
  <2>3. queue' \in Seq(Item) /\ Len(queue') = Len(queue) - 1
    BY <1>1, <2>1, Shifted DEF StreamTyped
  <2>4. Len(queue') <= QueueSize
    BY <1>1, <2>3, Constants DEF StreamTyped
  <2>5. QED
    BY <1>1, <2>1, <2>2, <2>3, <2>4 DEF StreamTyped
<1>5. CASE NoStream /\ producer' # "putting"
  <2>1. queue' = <<>> /\ held' = Nothing /\ emitted' = 0
    BY <1>5 DEF NoStream
  <2>2. queue' \in Seq(Item) /\ Len(queue') <= QueueSize
    BY <2>1, Empty, Constants
  <2>3. emitted' \in 0..MaxEvents
    BY <2>1, Constants
  <2>4. QED
    BY <1>5, <2>1, <2>2, <2>3 DEF StreamTyped
<1>6. CASE producer' # "putting" /\ UNCHANGED <<queue, held, emitted>>
  BY <1>1, <1>6 DEF StreamTyped
<1>7. CASE UNCHANGED streamVars
  BY <1>1, <1>7 DEF StreamTyped, streamVars
<1>8. ASSUME Cancelled = producer' PROVE producer' # "putting"
  BY <1>8 DEF Cancelled
<1>9. QED
  BY <1>2, <1>3, <1>4, <1>5, <1>6, <1>7, <1>8
  DEF BridgeNext, ClientSends, ClientLeaves, Receive, IdleTimeout, Watch, Guard, Gather,
      Prepare, Answer, Relay, FirstTimeout, Close, Retry, Settle, Log, Tell,
      StopProducer, ProducerEnded

\* What the steps make of the turn's locals.
LEMMA TurnChanges ==
    ASSUME turn \in Turn
    PROVE  /\ \A s \in Status : [turn EXCEPT !.status = s] \in Turn
           /\ \A k \in BOOLEAN : /\ [turn EXCEPT !.keep = k] \in Turn
                                 /\ [turn EXCEPT !.first = k] \in Turn
           /\ \A n \in 0..(Retries + 1) : [turn EXCEPT !.attempt = n] \in Turn
           /\ \A e \in Item : [turn EXCEPT !.event = e] \in Turn
BY DEF Turn

LEMMA BegunTurn ==
    ASSUME turn \in Turn, NEW frame \in Message, Begin(frame)
    PROVE  /\ turn' \in Turn /\ turn'.no = turn.no + 1 /\ turn'.frame = frame
           /\ turn'.attempt = 0 /\ turn'.status = "none" /\ turn'.first = FALSE
           /\ turn'.keep = TRUE
<1>1. turn' = [no |-> turn.no + 1, frame |-> frame, attempt |-> 0, event |-> Nothing,
               status |-> "none", first |-> FALSE, keep |-> TRUE]
  BY DEF Begin, NoTurn
<1>2. turn.no + 1 \in Nat /\ 0 \in 0..(Retries + 1)
  BY Constants DEF Turn
<1>3. "none" \in Status
  BY DEF Status
<1>4. turn' \in Turn
  BY <1>1, <1>2, <1>3 DEF Turn
<1>5. QED
  BY <1>1, <1>4

\* The frame a turn begins with.
LEMMA Received ==
    ASSUME Typed, Receive
    PROVE  \/ End
           \/ \E frame \in Message : frame.kind = "create" /\ Begin(frame)
<1>1. buffered # <<>> => Head(buffered) \in Message
  BY Shifted DEF Typed, SocketTyped
<1>2. inbox # <<>> => Head(inbox) \in Message
  BY Shifted DEF Typed, SocketTyped
<1>3. QED
  BY <1>1, <1>2 DEF Receive, BufferFirst

LEMMA TurnKept ==
    ASSUME Typed, Nested, BridgeNext
    PROVE  turn' \in Turn
<1>1. turn \in Turn /\ terminal \in {"none"} \cup Verdicts /\ queue \in Seq(Item)
  BY DEF Typed, StageTyped, StreamTyped
<1>2. CASE turn' = turn
  BY <1>1, <1>2
<1>3. CASE \E s \in Status : turn' = [turn EXCEPT !.status = s]
  BY <1>1, <1>3, TurnChanges
<1>4. CASE \E k \in BOOLEAN : \/ turn' = [turn EXCEPT !.keep = k]
                              \/ turn' = [turn EXCEPT !.first = k]
  BY <1>1, <1>4, TurnChanges
<1>5. CASE Receive
  BY <1>1, <1>2, <1>5, Received, BegunTurn DEF End
<1>6. CASE Prepare
  <2>1. 1 \in 0..(Retries + 1)
    BY Constants
  <2>2. turn' = [turn EXCEPT !.attempt = 1] \/ turn' = [turn EXCEPT !.keep = FALSE]
    BY <1>6 DEF Prepare, Leave
  <2>3. QED
    BY <1>1, <2>1, <2>2, TurnChanges
<1>7. CASE Retry
  <2>1. turn.attempt + 1 \in 0..(Retries + 1)
    BY <1>1, <1>7, Constants DEF Retry, Nested, Turn
  <2>2. turn' = [turn EXCEPT !.attempt = turn.attempt + 1]
    BY <1>7 DEF Retry
  <2>3. QED
    BY <1>1, <2>1, <2>2, TurnChanges
<1>8. CASE Take
  <2>1. Head(queue) \in Item
    BY <1>1, <1>8, Shifted DEF Take
  <2>2. \/ turn' = [turn EXCEPT !.event = Head(queue)]
        \/ \E s \in Status : turn' = [turn EXCEPT !.status = s]
    BY <1>1, <1>8 DEF Take, Stop, Status
  <2>3. QED
    BY <1>1, <1>3, <2>1, <2>2, TurnChanges
<1>9. QED
  BY <1>2, <1>3, <1>4, <1>5, <1>6, <1>7, <1>8
  DEF BridgeNext, ClientSends, ClientLeaves, IdleTimeout, End, Watch, Guard, Gather, Answer,
      Relay, FirstTimeout, Stop, Close, Leave, Emit, Upstream, Settle, Log, Tell, Status

LEMMA DataKept ==
    ASSUME Typed, Nested, BridgeNext
    PROVE  DataTyped'
<1>1. /\ collected \in Seq(Call) /\ got \in Seq(Item) /\ records \in Nat
      /\ turn \in Turn
  BY DEF Typed, DataTyped
<1>2. records' \in Nat
  <2>1. records' = records \/ records' = records + 1
    BY DEF BridgeNext, ClientSends, ClientLeaves, Receive, IdleTimeout, Watch, Guard, Gather,
           Prepare, Answer, Take, Relay, FirstTimeout, Close, Retry, Emit, Upstream, Settle,
           Log, Tell
  <2>2. QED
    BY <1>1, <2>1
<1>3. collected' \in Seq(Call)
  <2>1. CASE collected' = collected \/ collected' = <<>>
    BY <1>1, <2>1, Empty
  <2>2. CASE Take
    <3>1. turn.frame \in Message /\ turn.frame.kind = "create"
      BY <2>2 DEF Take, Nested, Idle
    <3>2. turn.frame.no \in 1..MaxFrames
      BY <3>1 DEF Message
    <3>3. <<"call", turn.frame.no>> \in Call
      BY <3>2 DEF Call
    <3>4. Append(collected, <<"call", turn.frame.no>>) \in Seq(Call)
      BY <1>1, <3>3, Appended
    <3>5. QED
      BY <1>1, <2>2, <3>4 DEF Take, Handle
  <2>3. QED
    BY <2>1, <2>2
    DEF BridgeNext, ClientSends, ClientLeaves, Receive, IdleTimeout, Watch, Guard, Gather,
        Prepare, Answer, Relay, FirstTimeout, Close, Retry, Emit, Upstream, Settle, Log, Tell,
        turnVars
<1>4. got' \in Seq(Item)
  <2>1. CASE got' = got \/ got' = <<>>
    BY <1>1, <2>1, Empty
  <2>2. Mark("error") \in Item
    BY <1>1, Marks
  <2>3. CASE got' = <<Mark("error")>> \/ got' = Append(got, Mark("error"))
    <3>1. <<Mark("error")>> \in Seq(Item)
      BY <2>2, Singleton
    <3>2. Append(got, Mark("error")) \in Seq(Item)
      BY <1>1, <2>2, Appended
    <3>3. QED
      BY <2>3, <3>1, <3>2
  <2>4. CASE Relay /\ got' = Append(got, turn.event)
    <3>1. turn.event \in Item
      BY <2>4 DEF Relay, Nested
    <3>2. QED
      BY <1>1, <2>4, <3>1, Appended
  <2>5. QED
    BY <2>1, <2>3, <2>4
    DEF BridgeNext, ClientSends, ClientLeaves, Receive, Begin, End, IdleTimeout, Watch, Guard,
        Gather, Prepare, Answer, Take, Relay, FirstTimeout, Close, Retry, Emit, Upstream,
        Settle, Log, Tell
<1>5. QED
  BY <1>2, <1>3, <1>4 DEF DataTyped

-----------------------------------------------------------------------------
(* The nesting of the coroutines.                                          *)

\* A turn keeps its number and its frame.
LEMMA SameTurn ==
    ASSUME turn \in Turn, BridgeNext, ~Receive
    PROVE  turn'.no = turn.no /\ turn'.frame = turn.frame
<1>1. \/ turn' = turn
      \/ \E v : \/ turn' = [turn EXCEPT !.status = v]  \/ turn' = [turn EXCEPT !.keep = v]
               \/ turn' = [turn EXCEPT !.first = v]   \/ turn' = [turn EXCEPT !.attempt = v]
               \/ turn' = [turn EXCEPT !.event = v]
  BY DEF BridgeNext, ClientSends, ClientLeaves, IdleTimeout, End, Watch, Guard, Gather, Prepare,
         Answer, Take, Relay, FirstTimeout, Stop, Close, Leave, Retry, Emit, Upstream, Settle,
         Log, Tell
<1>2. QED
  BY <1>1 DEF Turn

LEMMA NestedKept ==
    ASSUME Typed, Nested, BridgeNext
    PROVE  Nested'
<1>1. turn \in Turn /\ queue \in Seq(Item)
  BY DEF Typed, StreamTyped
<1>2. (main' \in {"receiving", "ended"} => Idle') /\ (main' = "guarding" => work' # "off")
  BY DEF Nested, Idle, BridgeNext, ClientSends, ClientLeaves, Receive, Begin, End, IdleTimeout,
         Watch, Guard, Gather, Prepare, Answer, Take, Relay, FirstTimeout, Close, Retry, Emit,
         Upstream, Settle, Log, Tell, Stop, Leave
<1>3. ~Idle' => turn'.frame \in Message /\ turn'.frame.kind = "create"
  <2>1. CASE Receive
    <3>1. CASE End
      BY <3>1 DEF Nested, Idle, End
    <3>2. CASE \E frame \in Message : frame.kind = "create" /\ Begin(frame)
      BY <1>1, <3>2, BegunTurn
    <3>3. QED
      BY <2>1, <3>1, <3>2, Received
  <2>2. CASE ~Receive
    <3>1. ~Idle' => ~Idle
      BY <2>2 DEF Idle, BridgeNext, ClientSends, ClientLeaves, IdleTimeout, End, Watch, Guard,
            Gather, Prepare, Answer, Take, Relay, FirstTimeout, Close, Retry, Emit, Upstream,
            Settle, Log, Tell, Stop, Leave
    <3>2. QED
      BY <1>1, <2>2, <3>1, SameTurn DEF Nested
  <2>3. QED
    BY <2>1, <2>2
<1>4. producer' # "off" => work' \in {"first", "relaying", "streaming", "closing"}
  BY DEF Nested, Idle, BridgeNext, ClientSends, ClientLeaves, Receive, IdleTimeout, End,
         Watch, Guard, Gather, Prepare, Answer, Take, Relay, FirstTimeout, Close, Retry, Emit,
         Upstream, Settle, Log, Tell, Stop, Leave, StopProducer, ProducerEnded, streamVars
<1>5. work' = "pausing" => turn'.attempt <= Retries
  BY <1>1 DEF Nested, Idle, BridgeNext, ClientSends, ClientLeaves, Receive, Begin, IdleTimeout,
         End, Watch, Guard, Gather, Prepare, Answer, Take, Relay, FirstTimeout, Close, Again,
         Retry, Emit, Upstream, Settle, Log, Tell, Stop, Leave
<1>6. work' = "relaying" => turn'.event \in Item
  <2>1. CASE Take
    <3>1. Head(queue) \in Item
      BY <1>1, <2>1, Shifted DEF Take
    <3>2. work' = "relaying" => turn' = [turn EXCEPT !.event = Head(queue)]
      BY <2>1 DEF Take, Stop
    <3>3. QED
      BY <1>1, <3>1, <3>2 DEF Turn
  <2>2. CASE ~Take
    BY <2>2 DEF Nested, Idle, BridgeNext, ClientSends, ClientLeaves, Receive, Begin,
         IdleTimeout, End, Watch, Guard, Gather, Prepare, Answer, Relay, FirstTimeout, Close,
         Retry, Emit, Upstream, Settle, Log, Tell, Stop, Leave
  <2>3. QED
    BY <2>1, <2>2
<1>7. QED
  BY <1>2, <1>3, <1>4, <1>5, <1>6 DEF Nested

-----------------------------------------------------------------------------
(* The events of one attempt.                                              *)

LEMMA RelayedKept ==
    ASSUME Typed, Nested, Relayed, Queued, BridgeNext
    PROVE  Relayed'
<1>1. turn \in Turn /\ got \in Seq(Item)
  BY DEF Typed, DataTyped
<1>2. ASSUME got' = got, turn'.attempt = turn.attempt, turn'.first = turn.first,
             ~Idle' => ~Idle,
             work' \in {"preparing", "asking", "first", "pausing"} => ~turn.first
      PROVE  Relayed'
  BY <1>2 DEF Relayed, Placed
<1>3. ASSUME got' = <<>>, ~turn'.first
      PROVE  Relayed'
  BY <1>3, Empty DEF Relayed
<1>4. ASSUME Idle'
      PROVE  Relayed'
  BY <1>4 DEF Relayed
<1>5. CASE Receive
  <2>1. CASE End
    BY <1>4, <1>5, <2>1 DEF Receive, Nested, Idle, End
  <2>2. CASE \E frame \in Message : frame.kind = "create" /\ Begin(frame)
    BY <1>1, <1>3, <2>2, BegunTurn DEF Begin
  <2>3. QED
    BY <1>5, <2>1, <2>2, Received DEF Typed
<1>6. CASE Prepare
  <2>1. CASE Idle'
    BY <1>4, <2>1
  <2>2. CASE turn' = [turn EXCEPT !.attempt = 1] /\ got' = got
    <3>1. got = <<>> /\ ~turn.first
      BY <1>6 DEF Prepare, Relayed, Idle
    <3>2. QED
      BY <1>1, <1>3, <2>2, <3>1 DEF Turn
  <2>3. QED
    BY <1>6, <2>1, <2>2 DEF Prepare, Leave, Idle
<1>7. CASE Retry
  <2>1. got = <<>> /\ ~turn.first
    BY <1>7 DEF Retry, Relayed, Idle
  <2>2. got' = got /\ turn' = [turn EXCEPT !.attempt = turn.attempt + 1]
    BY <1>7 DEF Retry
  <2>3. QED
    BY <1>1, <1>3, <2>1, <2>2 DEF Turn
<1>8. CASE Relay
  <2>1. ~Idle /\ InFlow /\ work = "relaying" /\ turn.event \in Item
    BY <1>8 DEF Relay, Idle, InFlow, Nested
  <2>2. \A i \in DOMAIN got : Placed(got[i], i, turn.attempt)
    BY <2>1 DEF Relayed
  <2>3. CASE /\ got' = Append(got, turn.event) /\ work' = "streaming"
             /\ turn' = [turn EXCEPT !.first = TRUE]
    <3>1. turn'.attempt = turn.attempt /\ turn'.first = TRUE
      BY <1>1, <2>3 DEF Turn
    <3>2. Placed(turn.event, Len(got) + 1, turn.attempt)
      BY <2>1 DEF Queued, Taken
    <3>3. \A i \in DOMAIN got' : Placed(got'[i], i, turn.attempt)
      BY <1>1, <2>1, <2>2, <2>3, <3>2, Appended
    <3>4. QED
      BY <2>3, <3>1, <3>3 DEF Relayed
  <2>4. CASE got' = got /\ Stop("client_disconnected")
    BY <1>1, <1>2, <2>1, <2>4 DEF Stop, Turn
  <2>5. QED
    BY <1>8, <2>3, <2>4 DEF Relay
<1>9. CASE Tell
  BY <1>4, <1>9 DEF Tell, Leave, Idle
<1>10. CASE Close
  <2>1. ~Idle /\ got' = got
    BY <1>10 DEF Close, Idle
  <2>2. CASE Idle'
    BY <1>4, <2>2
  <2>3. CASE /\ turn' = turn /\ work' \in {"pausing", "settling"}
             /\ (work' = "pausing" => ~turn.first)
    BY <1>2, <2>1, <2>3
  <2>4. QED
    BY <1>10, <2>2, <2>3 DEF Close, Leave, Again, Idle
<1>11. CASE Answer \/ Take \/ FirstTimeout
  <2>1. got' = got /\ ~Idle
    BY <1>11 DEF Answer, Take, FirstTimeout, Idle
  <2>2. \E v : turn' = [turn EXCEPT !.status = v] \/ turn' = [turn EXCEPT !.event = v]
    BY <1>11 DEF Answer, Take, FirstTimeout, Stop
  <2>3. turn'.attempt = turn.attempt /\ turn'.first = turn.first
    BY <1>1, <2>2 DEF Turn
  <2>4. work' \in {"preparing", "asking", "first", "pausing"} => ~turn.first
    BY <1>11 DEF Answer, Take, FirstTimeout, Stop, Relayed, Idle
  <2>5. QED
    BY <1>2, <2>1, <2>3, <2>4
<1>12. CASE Guard
  <2>1. CASE Idle'
    BY <1>4, <2>1
  <2>2. CASE ~Idle /\ work' = "closing" /\ turn' = [turn EXCEPT !.status = "cancelled"]
    <3>1. turn'.attempt = turn.attempt /\ turn'.first = turn.first
      BY <1>1, <2>2 DEF Turn
    <3>2. QED
      BY <1>2, <1>12, <2>2, <3>1 DEF Guard
  <2>3. QED
    BY <1>12, <2>1, <2>2 DEF Guard, Idle
<1>13. CASE Settle \/ Log
  <2>1. CASE Idle'
    BY <1>4, <2>1
  <2>2. CASE turn' = turn /\ work' \in {"logging", "telling"} /\ ~Idle /\ got' = got
    BY <1>2, <2>2
  <2>3. QED
    BY <1>13, <2>1, <2>2 DEF Settle, Log, Leave, Idle
<1>14. CASE work' = work /\ turn' = turn /\ got' = got
  BY <1>14 DEF Relayed, Idle, Placed
<1>15. QED
  BY <1>5, <1>6, <1>7, <1>8, <1>9, <1>10, <1>11, <1>12, <1>13, <1>14
  DEF BridgeNext, ClientSends, ClientLeaves, IdleTimeout, End, Watch, Gather, Emit, Upstream

LEMMA QueuedKept ==
    ASSUME Typed, Nested, Relayed, Queued, BridgeNext
    PROVE  Queued'
<1>1. /\ turn \in Turn /\ got \in Seq(Item) /\ queue \in Seq(Item)
      /\ emitted \in Nat /\ Len(got) \in Nat /\ Len(queue) \in Nat /\ Taken \in Nat
  BY Constants DEF Typed, DataTyped, StreamTyped, Taken
<1>2. ASSUME ~InFlow'
      PROVE  Queued'
  BY <1>2 DEF Queued
<1>3. CASE Answer
  <2>1. CASE ~InFlow'
    BY <1>2, <2>1
  <2>2. CASE work' = "first" /\ NoStream /\ producer' = "reading" /\ got' = got
    <3>1. got = <<>>
      BY <1>3 DEF Answer, Relayed, Idle
    <3>2. queue' = <<>> /\ emitted' = 0 /\ Taken' = 0
      BY <2>2, <3>1, Empty DEF NoStream, Taken
    <3>3. QED
      BY <2>2, <3>2, Empty DEF Queued, QueueInLine
  <2>3. QED
    BY <1>3, <2>1, <2>2 DEF Answer, InFlow
<1>4. CASE Take
  <2>1. CASE ~InFlow'
    BY <1>2, <2>1
  <2>2. CASE /\ Head(queue).type \notin {"eof", "broken"} /\ work' = "relaying"
             /\ turn' = [turn EXCEPT !.event = Head(queue)] /\ producer' = producer
    <3>1. /\ InFlow /\ work # "relaying" /\ queue # <<>> /\ queue' = Tail(queue)
          /\ UNCHANGED <<held, emitted, got>>
      BY <1>4 DEF Take, InFlow
    <3>2. Taken = Len(got) /\ Taken' = Taken + 1
      BY <1>1, <2>2, <3>1 DEF Taken
    <3>3. Head(queue) = queue[1] /\ 1 \in DOMAIN queue /\ Len(queue') = Len(queue) - 1
      BY <1>1, <3>1, Shifted
    <3>4. Placed(queue[1], Taken + 1, turn.attempt) /\ Taken + 1 <= emitted
      BY <2>2, <3>1, <3>3 DEF Queued, QueueInLine, InLine
    <3>5. turn'.attempt = turn.attempt /\ turn'.event = queue[1]
      BY <1>1, <2>2, <3>3 DEF Turn
    <3>6. Taken' <= emitted' /\ Placed(turn'.event, Taken', turn'.attempt)
      BY <3>1, <3>2, <3>4, <3>5
    <3>7. ASSUME NEW i \in DOMAIN queue'
          PROVE  InLine(queue'[i], Taken' + i, turn'.attempt, emitted')
      <4>1. i + 1 \in DOMAIN queue /\ queue'[i] = queue[i + 1] /\ i \in Nat
        BY <1>1, <3>1, Shifted, Elements
      <4>2. Taken' + i = Taken + (i + 1)
        BY <1>1, <3>2, <4>1
      <4>3. InLine(queue[i + 1], Taken + (i + 1), turn.attempt, emitted)
        BY <3>1, <4>1 DEF Queued, QueueInLine
      <4>4. QED
        BY <3>1, <3>5, <4>1, <4>2, <4>3
    <3>8. producer' = "reading" => emitted' = Taken' + Len(queue')
      BY <1>1, <2>2, <3>1, <3>2, <3>3 DEF Queued
    <3>9. producer' = "putting" => /\ emitted' = Taken' + Len(queue') + 1
                                   /\ Placed(held', emitted', turn'.attempt)
      BY <1>1, <2>2, <3>1, <3>2, <3>3, <3>5 DEF Queued
    <3>10. QED
      BY <3>6, <3>7, <3>8, <3>9 DEF Queued, QueueInLine
  <2>3. QED
    BY <1>4, <2>1, <2>2 DEF Take, Stop, InFlow
<1>5. CASE Relay
  <2>1. CASE ~InFlow'
    BY <1>2, <2>1
  <2>2. CASE /\ got' = Append(got, turn.event) /\ work' = "streaming"
             /\ turn' = [turn EXCEPT !.first = TRUE] /\ UNCHANGED streamVars
    <3>1. InFlow /\ work = "relaying" /\ turn.event \in Item
      BY <1>5 DEF Relay, InFlow, Nested
    <3>2. Len(got') = Len(got) + 1
      BY <1>1, <2>2, <3>1, Appended
    <3>3. Taken' = Taken /\ turn'.attempt = turn.attempt
      BY <1>1, <2>2, <3>1, <3>2 DEF Taken, Turn
    <3>4. UNCHANGED <<queue, held, producer, emitted>>
      BY <2>2 DEF streamVars
    <3>5. QED
      BY <2>2, <3>1, <3>3, <3>4 DEF Queued, QueueInLine
  <2>3. QED
    BY <1>5, <2>1, <2>2 DEF Relay, Stop, InFlow
<1>6. ASSUME NEW x \in Item, queue' = Append(queue, x), UNCHANGED <<work, turn, got>>, InFlow,
             emitted' \in Nat, emitted <= emitted',
             InLine(x, Taken + Len(queue) + 1, turn.attempt, emitted')
      PROVE  /\ Taken' = Taken /\ Len(queue') = Len(queue) + 1
             /\ Taken' <= emitted'
             /\ work' = "relaying" => Placed(turn'.event, Taken', turn'.attempt)
             /\ QueueInLine'
  <2>1. Taken' = Taken /\ turn' = turn
    BY <1>6 DEF Taken
  <2>2. Len(queue') = Len(queue) + 1
    BY <1>1, <1>6, Appended
  <2>3. Taken' <= emitted'
    BY <1>1, <1>6, <2>1 DEF Queued
  <2>4. work' = "relaying" => Placed(turn'.event, Taken', turn'.attempt)
    BY <1>6, <2>1 DEF Queued
  <2>5. ASSUME NEW i \in DOMAIN queue'
        PROVE  InLine(queue'[i], Taken' + i, turn'.attempt, emitted')
    <3>1. CASE i = Len(queue) + 1
      <4>1. queue'[i] = x
        BY <1>1, <1>6, <3>1, Appended
      <4>2. Taken' + i = Taken + Len(queue) + 1
        BY <1>1, <2>1, <3>1
      <4>3. QED
        BY <1>6, <2>1, <4>1, <4>2
    <3>2. CASE i # Len(queue) + 1
      <4>1. i \in DOMAIN queue /\ queue'[i] = queue[i] /\ i \in Nat
        BY <1>1, <1>6, <3>2, Appended, Elements
      <4>2. InLine(queue[i], Taken + i, turn.attempt, emitted)
        BY <1>6, <4>1 DEF Queued, QueueInLine
      <4>3. Taken + i <= emitted => Taken' + i <= emitted'
        BY <1>1, <1>6, <2>1, <4>1
      <4>4. QED
        BY <2>1, <4>1, <4>2, <4>3 DEF InLine
    <3>3. QED
      BY <3>1, <3>2
  <2>6. QED
    BY <2>1, <2>2, <2>3, <2>4, <2>5 DEF QueueInLine
<1>7. CASE Emit
  <2>1. CASE ~InFlow'
    BY <1>2, <2>1
  <2>2. CASE InFlow'
    <3>1. /\ UNCHANGED <<work, turn, got>> /\ InFlow /\ producer = "reading"
          /\ emitted < MaxEvents /\ emitted \in 0..MaxEvents
      BY <1>7, <2>2 DEF Emit, InFlow, Typed, StreamTyped
    <3>2. PICK e \in Events :
              /\ IF Len(queue) < QueueSize THEN Put(e, "reading") /\ UNCHANGED held
                 ELSE held' = e /\ producer' = "putting" /\ UNCHANGED queue
              /\ emitted' = emitted + 1
      BY <1>7 DEF Emit
    <3>3. e \in Item /\ Placed(e, emitted + 1, turn.attempt)
      BY <1>1, <3>1, EventsTyped DEF Placed
    <3>4. emitted = Taken + Len(queue)
      BY <3>1 DEF Queued
    <3>5. CASE Len(queue) < QueueSize
      <4>1. queue' = Append(queue, e) /\ producer' = "reading"
        BY <3>2, <3>5 DEF Put
      <4>2. InLine(e, Taken + Len(queue) + 1, turn.attempt, emitted')
        <5>1. emitted + 1 = Taken + Len(queue) + 1 /\ emitted + 1 <= emitted'
          BY <1>1, <3>2, <3>4
        <5>2. QED
          BY <3>3, <5>1 DEF InLine
      <4>3. emitted' \in Nat /\ emitted <= emitted'
        BY <1>1, <3>2
      <4>4. /\ Taken' = Taken /\ Len(queue') = Len(queue) + 1
            /\ Taken' <= emitted'
            /\ work' = "relaying" => Placed(turn'.event, Taken', turn'.attempt)
            /\ QueueInLine'
        BY <1>6, <3>1, <3>3, <4>1, <4>2, <4>3
      <4>5. emitted' = Taken' + Len(queue')
        BY <1>1, <3>2, <3>4, <4>4
      <4>6. QED
        BY <4>1, <4>4, <4>5 DEF Queued
    <3>6. CASE ~(Len(queue) < QueueSize)
      <4>1. held' = e /\ producer' = "putting" /\ queue' = queue /\ Taken' = Taken
        BY <3>1, <3>2, <3>6 DEF Taken
      <4>2. Taken' <= emitted' /\ emitted' = Taken' + Len(queue') + 1
        BY <1>1, <3>2, <3>4, <4>1
      <4>3. Placed(held', emitted', turn'.attempt)
        BY <3>1, <3>2, <3>3, <4>1
      <4>4. ASSUME NEW i \in DOMAIN queue
            PROVE  InLine(queue'[i], Taken' + i, turn'.attempt, emitted')
        <5>1. i \in Nat
          BY <1>1, <4>4, Elements
        <5>2. InLine(queue[i], Taken + i, turn.attempt, emitted)
          BY <3>1, <4>4 DEF Queued, QueueInLine
        <5>3. Taken + i <= emitted => Taken + i <= emitted'
          BY <1>1, <3>2, <5>1
        <5>4. QED
          BY <3>1, <4>1, <5>2, <5>3 DEF InLine
      <4>5. work' = "relaying" => Placed(turn'.event, Taken', turn'.attempt)
        BY <3>1, <4>1 DEF Queued
      <4>6. QED
        BY <4>1, <4>2, <4>3, <4>4, <4>5 DEF Queued, QueueInLine
    <3>7. QED
      BY <3>5, <3>6
  <2>3. QED
    BY <2>1, <2>2
<1>8. CASE Upstream
  <2>1. CASE ~InFlow'
    BY <1>2, <2>1
  <2>2. CASE InFlow'
    <3>1. UNCHANGED <<work, turn, got, held, emitted>> /\ InFlow
      BY <1>8, <2>2 DEF Upstream, InFlow
    <3>2. CASE producer' \notin {"reading", "putting"} /\ queue' = queue
      BY <3>1, <3>2 DEF Queued, QueueInLine, Taken
    <3>3. ASSUME NEW x \in Item, queue' = Append(queue, x), x.type \in {"eof", "broken"},
                 producer' \notin {"reading", "putting"}
          PROVE  Queued'
      <4>1. InLine(x, Taken + Len(queue) + 1, turn.attempt, emitted')
        BY <3>3 DEF InLine
      <4>2. emitted' \in Nat /\ emitted <= emitted'
        BY <1>1, <3>1
      <4>3. QED
        BY <1>6, <3>1, <3>3, <4>1, <4>2 DEF Queued
    <3>4. CASE producer = "putting" /\ Put(held, "reading")
      <4>1. /\ held \in Item /\ emitted = Taken + Len(queue) + 1
            /\ Placed(held, emitted, turn.attempt)
        BY <3>1, <3>4 DEF Typed, StreamTyped, Queued
      <4>2. queue' = Append(queue, held) /\ producer' = "reading"
        BY <3>4 DEF Put
      <4>3. InLine(held, Taken + Len(queue) + 1, turn.attempt, emitted')
        BY <1>1, <3>1, <4>1 DEF InLine
      <4>4. emitted' \in Nat /\ emitted <= emitted'
        BY <1>1, <3>1
      <4>5. /\ Taken' = Taken /\ Len(queue') = Len(queue) + 1
            /\ Taken' <= emitted'
            /\ work' = "relaying" => Placed(turn'.event, Taken', turn'.attempt)
            /\ QueueInLine'
        BY <1>6, <3>1, <4>1, <4>2, <4>3, <4>4
      <4>6. emitted' = Taken' + Len(queue')
        BY <1>1, <3>1, <4>1, <4>5
      <4>7. QED
        BY <4>2, <4>5, <4>6 DEF Queued
    <3>5. CASE Put(Mark("broken"), "ending")
      <4>1. Mark("broken") \in Item /\ Mark("broken").type = "broken"
        BY <1>1, Marks DEF Mark
      <4>2. queue' = Append(queue, Mark("broken")) /\ producer' = "ending"
        BY <3>5 DEF Put
      <4>3. QED
        BY <3>3, <4>1, <4>2
    <3>6. CASE Put(Mark("eof"), "off")
      <4>1. Mark("eof") \in Item /\ Mark("eof").type = "eof"
        BY <1>1, Marks DEF Mark
      <4>2. queue' = Append(queue, Mark("eof")) /\ producer' = "off"
        BY <3>6 DEF Put
      <4>3. QED
        BY <3>3, <4>1, <4>2
    <3>7. QED
      BY <1>8, <3>2, <3>4, <3>5, <3>6 DEF Upstream
  <2>3. QED
    BY <2>1, <2>2
<1>9. CASE UNCHANGED <<work, turn, got, streamVars>>
  BY <1>9 DEF Queued, QueueInLine, InFlow, Taken, streamVars
<1>10. QED
  BY <1>2, <1>3, <1>4, <1>5, <1>7, <1>8, <1>9
  DEF BridgeNext, ClientSends, ClientLeaves, Receive, Begin, End, IdleTimeout, Watch, Guard,
      Gather, Prepare, FirstTimeout, Close, Retry, Settle, Log, Tell, Stop, Leave, InFlow,
      Nested, Idle

LEMMA FramesKept ==
    ASSUME Typed, Nested, Relayed, Queued, FramesOfOneResponse, BridgeNext
    PROVE  FramesOfOneResponse'
<1>1. turn \in Turn /\ got \in Seq(Item)
  BY DEF Typed, DataTyped
<1>2. CASE got' = got
  BY <1>2 DEF FramesOfOneResponse
<1>3. CASE got' = <<>>
  BY <1>3, Empty DEF FramesOfOneResponse
<1>4. Mark("error") \in Item /\ IsError(Mark("error"))
  BY <1>1, Marks DEF Mark, IsError
<1>5. ASSUME NEW n, NEW e, Placed(e, n, turn.attempt)
      PROVE  ~IsError(e) /\ e.no = n /\ e.attempt = turn.attempt
  BY <1>5, Names DEF Placed, EventTypes, IsError
<1>6. CASE Prepare /\ got' = <<Mark("error")>>
  BY <1>4, <1>6 DEF FramesOfOneResponse
<1>7. ASSUME NEW x \in Item, got' = Append(got, x), ~Idle,
             IsError(x) \/ Placed(x, Len(got) + 1, turn.attempt)
      PROVE  FramesOfOneResponse'
  <2>1. \A i \in DOMAIN got : Placed(got[i], i, turn.attempt)
    BY <1>7 DEF Relayed
  <2>2. /\ Len(got') = Len(got) + 1 /\ got'[Len(got) + 1] = x
        /\ DOMAIN got' = DOMAIN got \cup {Len(got) + 1}
        /\ \A i \in DOMAIN got : got'[i] = got[i]
    BY <1>1, <1>7, Appended
  <2>3. \A i \in DOMAIN got' : \/ IsError(got'[i]) /\ i = Len(got')
                               \/ Placed(got'[i], i, turn.attempt)
    BY <1>7, <2>1, <2>2
  <2>4. ASSUME NEW i \in DOMAIN got', ~IsError(got'[i])
        PROVE  got'[i].no = i /\ got'[i].attempt = got'[1].attempt
    <3>1. Placed(got'[i], i, turn.attempt)
      BY <2>3, <2>4
    <3>2. Placed(got'[1], 1, turn.attempt)
      <4>1. CASE got = <<>>
        BY <1>1, <2>2, <2>4, <3>1, <4>1, Empty
      <4>2. CASE got # <<>>
        BY <1>1, <2>1, <2>2, <4>2, Shifted
      <4>3. QED
        BY <4>1, <4>2
    <3>3. QED
      BY <1>5, <3>1, <3>2
  <2>5. \A i \in DOMAIN got' : IsError(got'[i]) => i = Len(got')
    BY <1>5, <2>3
  <2>6. QED
    BY <2>4, <2>5 DEF FramesOfOneResponse
<1>8. CASE Tell /\ got' = Append(got, Mark("error"))
  BY <1>4, <1>7, <1>8 DEF Tell, Idle
<1>9. CASE Relay /\ got' = Append(got, turn.event)
  <2>1. turn.event \in Item /\ InFlow /\ ~Idle /\ work = "relaying"
    BY <1>9 DEF Relay, Nested, InFlow, Idle
  <2>2. Placed(turn.event, Len(got) + 1, turn.attempt)
    BY <2>1 DEF Queued, Taken
  <2>3. QED
    BY <1>7, <1>9, <2>1, <2>2
<1>10. QED
  BY <1>2, <1>3, <1>6, <1>8, <1>9
  DEF BridgeNext, ClientSends, ClientLeaves, Receive, Begin, End, IdleTimeout, Watch, Guard,
      Gather, Prepare, Answer, Take, Relay, FirstTimeout, Close, Retry, Emit, Upstream, Settle,
      Log, Tell

-----------------------------------------------------------------------------
(* The verdict.                                                            *)

\* What the client got is an event in its place until the turn is over.
LEMMA FinalEvents ==
    ASSUME Relayed, ~Idle
    PROVE  /\ \A i \in DOMAIN got : got[i].type # "error"
           /\ \A i \in DOMAIN got : i \in Final <=> got[i].type \in Verdicts
           /\ got = <<>> => Final = {}
<1>1. \A i \in DOMAIN got : got[i].type # "error"
  BY Names DEF Relayed, Placed, EventTypes
<1>2. QED
  BY <1>1, Empty DEF Final

LEMMA FinalAfter ==
    ASSUME got \in Seq(Item), NEW x \in Item, got' = Append(got, x)
    PROVE  Final' = Final \cup IF x.type \in Verdicts \cup {"error"} THEN {Len(got) + 1} ELSE {}
BY Appended DEF Final

LEMMA EndingKept ==
    ASSUME BridgeInv, Ending, ~LateErrors, BridgeNext
    PROVE  Ending'
<1>1. /\ turn \in Turn /\ got \in Seq(Item) /\ queue \in Seq(Item)
      /\ emitted \in Nat /\ Len(got) \in Nat /\ Len(queue) \in Nat /\ Taken \in Nat
  BY Constants DEF BridgeInv, Typed, DataTyped, StreamTyped, Taken
<1>2. ASSUME ~InFlow'
      PROVE  Ending'
  BY <1>2 DEF Ending
<1>3. CASE Answer
  <2>1. CASE ~InFlow'
    BY <1>2, <2>1
  <2>2. CASE /\ work' = "first" /\ NoStream /\ producer' = "reading" /\ got' = got
             /\ terminal' = "none"
    <3>1. got = <<>> /\ ~Idle
      BY <1>3 DEF Answer, BridgeInv, Flow, Relayed, Idle
    <3>2. queue' = <<>> /\ ~over' /\ got' = <<>> /\ Final' = {}
      BY <2>2, <3>1, Empty DEF NoStream, Final
    <3>3. QED
      BY <2>2, <3>2, Empty DEF Ending
  <2>3. QED
    BY <1>3, <2>1, <2>2 DEF Answer, InFlow
<1>4. CASE Take
  <2>1. CASE ~InFlow'
    BY <1>2, <2>1
  <2>2. CASE /\ Handle(Head(queue)) /\ work' = "relaying"
             /\ turn' = [turn EXCEPT !.event = Head(queue)] /\ producer' = producer
    <3>1. /\ InFlow /\ work # "relaying" /\ queue # <<>> /\ queue' = Tail(queue)
          /\ UNCHANGED <<held, emitted, over, got>>
      BY <1>4 DEF Take, InFlow
    <3>2. Taken' = Taken + 1 /\ Final' = Final
      BY <1>1, <2>2, <3>1 DEF Taken, Final
    <3>3. Head(queue) = queue[1] /\ 1 \in DOMAIN queue
      BY <1>1, <3>1, Shifted
    <3>4. turn'.event = queue[1] /\ Closes(turn'.event, Taken', over', emitted')
      <4>1. turn'.event = queue[1]
        BY <1>1, <2>2, <3>3 DEF Turn
      <4>2. Closes(queue[1], Taken + 1, over, emitted)
        BY <3>1, <3>3 DEF Ending
      <4>3. QED
        BY <3>1, <3>2, <4>1, <4>2
    <3>5. \A i \in DOMAIN got' : Closes(got'[i], i, over', emitted')
      BY <3>1 DEF Ending
    <3>6. ASSUME NEW i \in DOMAIN queue'
          PROVE  /\ i + 1 \in DOMAIN queue /\ queue'[i] = queue[i + 1]
                 /\ Closes(queue'[i], Taken' + i, over', emitted')
      <4>1. i + 1 \in DOMAIN queue /\ queue'[i] = queue[i + 1] /\ i \in Nat
        BY <1>1, <3>1, Shifted, Elements
      <4>2. Taken' + i = Taken + (i + 1)
        BY <1>1, <3>2, <4>1
      <4>3. Closes(queue[i + 1], Taken + (i + 1), over, emitted)
        BY <3>1, <4>1 DEF Ending
      <4>4. QED
        BY <3>1, <4>1, <4>2, <4>3
    <3>7. /\ producer' = "putting" => Closes(held', emitted', over', emitted')
          /\ over' => producer' # "breaking"
      BY <2>2, <3>1 DEF Ending
    <3>8. over' \/ producer' \in {"reading", "putting"} =>
              \A i \in DOMAIN queue' : queue'[i].type # "broken"
      BY <2>2, <3>1, <3>6 DEF Ending
    <3>9. terminal' # "none" <=> Final' # {} \/ turn'.event.type \in Verdicts
      BY <2>2, <3>1, <3>2, <3>3, <3>4, Names DEF Ending, Handle
    <3>10. QED
      BY <2>2, <3>4, <3>5, <3>6, <3>7, <3>8, <3>9 DEF Ending
  <2>3. QED
    BY <1>4, <2>1, <2>2 DEF Take, Stop, InFlow
<1>5. CASE Relay
  <2>1. CASE ~InFlow'
    BY <1>2, <2>1
  <2>2. CASE /\ got' = Append(got, turn.event) /\ work' = "streaming"
             /\ UNCHANGED streamVars /\ terminal' = terminal
    <3>1. InFlow /\ work = "relaying" /\ turn.event \in Item /\ ~Idle
      BY <1>5 DEF Relay, InFlow, BridgeInv, Nested, Idle
    <3>2. UNCHANGED <<queue, held, producer, emitted, over>>
      BY <2>2 DEF streamVars
    <3>3. /\ DOMAIN got' = DOMAIN got \cup {Len(got) + 1} /\ got'[Len(got) + 1] = turn.event
          /\ \A i \in DOMAIN got : got'[i] = got[i]
          /\ Len(got') = Len(got) + 1
      BY <1>1, <2>2, <3>1, Appended
    <3>4. Taken = Len(got) + 1 /\ Taken' = Taken
      BY <1>1, <2>2, <3>1, <3>3 DEF Taken
    <3>5. \A i \in DOMAIN got' : Closes(got'[i], i, over', emitted')
      BY <3>1, <3>2, <3>3, <3>4 DEF Ending
    <3>6. turn.event.type \in EventTypes
      BY <3>1 DEF BridgeInv, Flow, Queued, Placed
    <3>7. Final' = Final \cup IF turn.event.type \in Verdicts THEN {Len(got) + 1} ELSE {}
      BY <1>1, <2>2, <3>1, <3>6, FinalAfter, Names DEF EventTypes
    <3>8. terminal' # "none" <=> Final' # {}
      BY <2>2, <3>1, <3>7 DEF Ending
    <3>9. QED
      BY <2>2, <3>1, <3>2, <3>4, <3>5, <3>8 DEF Ending
  <2>3. QED
    BY <1>5, <2>1, <2>2 DEF Relay, Stop, InFlow, turnVars
<1>6. CASE Emit
  <2>1. CASE ~InFlow'
    BY <1>2, <2>1
  <2>2. CASE InFlow'
    <3>1. /\ UNCHANGED <<work, turn, got, terminal>> /\ InFlow /\ producer = "reading" /\ ~over
          /\ emitted < MaxEvents /\ emitted \in 0..MaxEvents /\ Taken' = Taken /\ Final' = Final
      BY <1>6, <2>2 DEF Emit, InFlow, BridgeInv, Typed, StreamTyped, turnVars, Taken, Final
    <3>2. PICK e \in Events :
              /\ IF Len(queue) < QueueSize THEN Put(e, "reading") /\ UNCHANGED held
                 ELSE held' = e /\ producer' = "putting" /\ UNCHANGED queue
              /\ emitted' = emitted + 1 /\ over' = (e.type \in Verdicts)
      BY <1>6 DEF Emit
    <3>3. e \in Item /\ e.type \in EventTypes
      BY <1>1, <3>1, EventsTyped
    <3>4. emitted = Taken + Len(queue)
      BY <3>1 DEF BridgeInv, Flow, Queued
    <3>5. /\ \A i \in DOMAIN got : got[i].type \notin Verdicts
          /\ \A i \in DOMAIN queue : queue[i].type \notin Verdicts \cup {"broken"}
          /\ work = "relaying" => turn.event.type \notin Verdicts
      BY <3>1 DEF Ending, Closes
    <3>6. \A n : Closes(e, emitted', over', emitted')
      BY <3>2 DEF Closes
    <3>7. /\ \A i \in DOMAIN got' : Closes(got'[i], i, over', emitted')
          /\ work' = "relaying" => Closes(turn'.event, Taken', over', emitted')
      BY <3>1, <3>5 DEF Closes
    <3>8. CASE Len(queue) < QueueSize
      <4>1. queue' = Append(queue, e) /\ producer' = "reading"
        BY <3>2, <3>8 DEF Put
      <4>2. /\ DOMAIN queue' = DOMAIN queue \cup {Len(queue) + 1} /\ queue'[Len(queue) + 1] = e
            /\ \A i \in DOMAIN queue : queue'[i] = queue[i]
        BY <1>1, <3>3, <4>1, Appended
      <4>3. Taken' + (Len(queue) + 1) = emitted'
        BY <1>1, <3>1, <3>2, <3>4
      <4>4. \A i \in DOMAIN queue' : Closes(queue'[i], Taken' + i, over', emitted')
        BY <3>5, <3>6, <4>2, <4>3 DEF Closes
      <4>5. \A i \in DOMAIN queue' : queue'[i].type # "broken"
        BY <3>3, <3>5, <4>2, Names DEF EventTypes
      <4>6. QED
        BY <3>1, <3>7, <4>1, <4>4, <4>5 DEF Ending
    <3>9. CASE ~(Len(queue) < QueueSize)
      <4>1. held' = e /\ producer' = "putting" /\ queue' = queue
        BY <3>2, <3>9
      <4>2. \A i \in DOMAIN queue' : /\ Closes(queue'[i], Taken' + i, over', emitted')
                                     /\ queue'[i].type # "broken"
        BY <3>5, <4>1 DEF Closes
      <4>3. QED
        BY <3>1, <3>6, <3>7, <4>1, <4>2 DEF Ending
    <3>10. QED
      BY <3>8, <3>9
  <2>3. QED
    BY <2>1, <2>2
<1>7. CASE Upstream
  <2>1. CASE ~InFlow'
    BY <1>2, <2>1
  <2>2. CASE InFlow'
    <3>1. /\ UNCHANGED <<work, turn, got, held, emitted, over, terminal>> /\ InFlow
          /\ Taken' = Taken /\ Final' = Final
      BY <1>7, <2>2 DEF Upstream, InFlow, Taken, Final, turnVars
    <3>2. CASE /\ producer' \notin {"reading", "putting"} /\ queue' = queue
               /\ over => producer' # "breaking"
               /\ producer = "reading"
      BY <3>1, <3>2 DEF Ending
    <3>3. ASSUME NEW x \in Item, queue' = Append(queue, x), producer' # "breaking",
                 producer' # "putting",
                 Closes(x, Taken + (Len(queue) + 1), over, emitted),
                 \/ /\ over \/ producer \in {"reading", "putting"}
                    /\ x.type # "broken"
                 \/ ~over /\ producer' # "reading"
                 \/ x.type = "eof" /\ producer' # "reading"
          PROVE  Ending'
      <4>1. /\ DOMAIN queue' = DOMAIN queue \cup {Len(queue) + 1} /\ queue'[Len(queue) + 1] = x
            /\ \A i \in DOMAIN queue : queue'[i] = queue[i]
        BY <1>1, <3>3, Appended
      <4>2. \A i \in DOMAIN queue' : Closes(queue'[i], Taken' + i, over', emitted')
        BY <3>1, <3>3, <4>1 DEF Ending
      <4>3. over' \/ producer' \in {"reading", "putting"} =>
                \A i \in DOMAIN queue' : queue'[i].type # "broken"
        BY <3>1, <3>3, <4>1 DEF Ending
      <4>4. QED
        BY <3>1, <3>3, <4>2, <4>3 DEF Ending
    <3>4. CASE producer = "putting" /\ Put(held, "reading")
      <4>1. /\ held \in Item /\ emitted = Taken + Len(queue) + 1
            /\ Placed(held, emitted, turn.attempt)
        BY <3>1, <3>4 DEF BridgeInv, Typed, StreamTyped, Flow, Queued
      <4>2. queue' = Append(queue, held) /\ producer' = "reading"
        BY <3>4 DEF Put
      <4>3. Closes(held, emitted, over, emitted) /\ emitted = Taken + (Len(queue) + 1)
        BY <1>1, <3>1, <3>4, <4>1 DEF Ending
      <4>4. held.type # "broken"
        BY <4>1, Names DEF Placed, EventTypes
      <4>5. QED
        BY <3>3, <3>4, <4>1, <4>2, <4>3, <4>4
    <3>5. CASE producer = "breaking" /\ Put(Mark("broken"), "ending")
      <4>1. Mark("broken") \in Item /\ Mark("broken").type = "broken"
        BY <1>1, Marks DEF Mark
      <4>2. queue' = Append(queue, Mark("broken")) /\ producer' = "ending" /\ ~over
        BY <3>1, <3>5 DEF Put, Ending
      <4>3. QED
        BY <3>3, <4>1, <4>2, Names DEF Closes
    <3>6. CASE producer = "ending" /\ Put(Mark("eof"), "off")
      <4>1. Mark("eof") \in Item /\ Mark("eof").type = "eof"
        BY <1>1, Marks DEF Mark
      <4>2. queue' = Append(queue, Mark("eof")) /\ producer' = "off"
        BY <3>6 DEF Put
      <4>3. QED
        BY <3>3, <4>1, <4>2, Names DEF Closes
    <3>7. QED
      BY <1>7, <3>2, <3>4, <3>5, <3>6 DEF Upstream
  <2>3. QED
    BY <2>1, <2>2
<1>8. CASE UNCHANGED <<work, turn, got, streamVars, terminal>>
  BY <1>8 DEF Ending, InFlow, Taken, Final, streamVars
<1>9. QED
  BY <1>2, <1>3, <1>4, <1>5, <1>6, <1>7, <1>8
  DEF BridgeNext, ClientSends, ClientLeaves, Receive, Begin, End, IdleTimeout, Watch, Guard,
      Gather, Prepare, FirstTimeout, Close, Retry, Settle, Log, Tell, Stop, Leave, InFlow,
      BridgeInv, Nested, Idle, turnVars

LEMMA JudgedKept ==
    ASSUME BridgeInv, Ending, Judged, BridgeNext
    PROVE  Judged'
<1>1. turn \in Turn /\ got \in Seq(Item) /\ queue \in Seq(Item) /\ Len(got) \in Nat
  BY DEF BridgeInv, Typed, DataTyped, StreamTyped
<1>2. Relayed /\ Nested
  BY DEF BridgeInv, Flow
<1>3. \A i \in Final' : i = Len(got')
  <2>1. CASE got' = got
    BY <2>1 DEF Judged, Final
  <2>2. CASE got' = <<>>
    BY <2>2, Empty DEF Final
  <2>3. Mark("error") \in Item /\ Mark("error").type = "error"
    BY <1>1, Marks DEF Mark
  <2>4. CASE got' = <<Mark("error")>>
    BY <2>4 DEF Final
  <2>5. ASSUME NEW x \in Item, got' = Append(got, x), Final = {}
        PROVE  \A i \in Final' : i = Len(got')
    BY <1>1, <2>5, FinalAfter, Appended
  <2>6. CASE Tell /\ got' = Append(got, Mark("error"))
    <3>1. Final = {}
      BY <2>6 DEF Tell, Judged
    <3>2. QED
      BY <2>3, <2>5, <2>6, <3>1
  <2>7. CASE Relay /\ got' = Append(got, turn.event)
    <3>1. InFlow /\ ~Idle /\ work = "relaying" /\ turn.event \in Item
      BY <1>2, <2>7 DEF Relay, InFlow, Idle, Nested
    <3>2. Taken = Len(got) + 1 /\ Taken <= emitted
      BY <3>1 DEF BridgeInv, Flow, Queued, Taken
    <3>3. ASSUME NEW i \in DOMAIN got, got[i].type \in Verdicts
          PROVE  FALSE
      <4>1. i = emitted /\ i <= Len(got)
        BY <1>1, <3>1, <3>3, Elements DEF Ending, Closes
      <4>2. QED
        BY <1>1, <3>2, <4>1
    <3>4. Final = {}
      BY <1>2, <3>1, <3>3, FinalEvents DEF Final
    <3>5. QED
      BY <2>5, <2>7, <3>1, <3>4
  <2>8. QED
    BY <2>1, <2>2, <2>4, <2>6, <2>7
    DEF BridgeNext, ClientSends, ClientLeaves, Receive, Begin, End, IdleTimeout, Watch, Guard,
        Gather, Prepare, Answer, Take, Relay, FirstTimeout, Close, Retry, Emit, Upstream,
        Settle, Log, Tell
<1>4. ASSUME work' \notin {"closing", "settling", "logging", "telling"}
      PROVE  Judged'
  BY <1>3, <1>4 DEF Judged
<1>5. ASSUME NEW s \in Status, turn' = [turn EXCEPT !.status = s], got' = got,
             work' \in {"closing", "settling"},
             \/ s \in Verdicts /\ Final # {}
             \/ s \in {"client_disconnected", "cancelled"} /\ work' = "closing"
             \/ s \notin Verdicts \cup {"client_disconnected", "cancelled"} /\ Final = {}
      PROVE  Judged'
  <2>1. turn'.status = s /\ Final' = Final
    BY <1>1, <1>5 DEF Turn, Final
  <2>2. QED
    BY <1>3, <1>5, <2>1 DEF Judged
<1>6. got = <<>> => Final = {}
  BY Empty DEF Final
<1>7. CASE Guard
  <2>1. CASE /\ work' = "closing" /\ got' = got
             /\ turn' = [turn EXCEPT !.status = "cancelled"]
    BY <1>5, <2>1, Names DEF Status
  <2>2. CASE UNCHANGED <<work, turn, got>>
    BY <1>3, <2>2 DEF Judged, Final
  <2>3. QED
    BY <1>4, <1>7, <2>1, <2>2 DEF Guard
<1>8. CASE Answer
  <2>1. CASE turn' = [turn EXCEPT !.status = "error"] /\ work' = "settling" /\ got' = got
    <3>1. Final = {}
      BY <1>2, <1>6, <1>8 DEF Answer, Relayed, Idle
    <3>2. QED
      BY <1>5, <2>1, <3>1, Names DEF Status
  <2>2. QED
    BY <1>4, <1>8, <2>1 DEF Answer
<1>9. CASE Take
  <2>1. InFlow /\ work # "relaying" /\ got' = got /\ queue # <<>>
    BY <1>9 DEF Take, InFlow
  <2>2. CASE Stop(IF terminal = "none" THEN "eof" ELSE terminal)
    <3>1. terminal # "none" <=> Final # {}
      BY <2>1 DEF Ending
    <3>2. terminal \in {"none"} \cup Verdicts
      BY DEF BridgeInv, Typed, StageTyped
    <3>3. CASE terminal = "none"
      BY <1>5, <2>1, <2>2, <3>1, <3>3, Names DEF Stop, Status
    <3>4. CASE terminal \in Verdicts
      BY <1>5, <2>1, <2>2, <3>1, <3>4, Names DEF Stop, Status
    <3>5. QED
      BY <3>2, <3>3, <3>4
  <2>3. CASE Head(queue).type = "broken" /\ Stop("transport_error")
    <3>1. Head(queue) = queue[1] /\ 1 \in DOMAIN queue
      BY <1>1, <2>1, Shifted
    <3>2. ~over
      BY <2>1, <2>3, <3>1 DEF Ending
    <3>3. ~Idle /\ \A i \in DOMAIN got : got[i].type \notin Verdicts
      BY <2>1, <3>2 DEF Ending, Closes, InFlow, Idle
    <3>4. Final = {}
      BY <1>2, <3>3, FinalEvents DEF Final
    <3>5. QED
      BY <1>5, <2>1, <2>3, <3>4, Names DEF Stop, Status
  <2>4. QED
    BY <1>4, <1>9, <2>2, <2>3 DEF Take
<1>10. CASE Relay
  <2>1. CASE got' = got /\ Stop("client_disconnected")
    BY <1>5, <2>1, Names DEF Stop, Status
  <2>2. QED
    BY <1>4, <1>10, <2>1 DEF Relay
<1>11. CASE FirstTimeout
  <2>1. Final = {} /\ got' = got /\ Stop("first_event_timeout")
    BY <1>2, <1>6, <1>11 DEF FirstTimeout, Relayed, Idle
  <2>2. QED
    BY <1>5, <2>1, Names DEF Stop, Status
<1>12. CASE Close \/ Settle \/ Log
  <2>1. CASE /\ turn' = turn /\ got' = got
             /\ \/ work = "closing" /\ work' = "settling"
                   /\ turn.status \notin {"client_disconnected", "cancelled"}
                \/ work = "settling" /\ work' = "logging"
                \/ work = "logging" /\ work' = "telling" /\ turn.status \notin Verdicts
    BY <1>3, <2>1 DEF Judged, Final
  <2>2. QED
    BY <1>4, <1>12, <2>1 DEF Close, Settle, Log, Leave, Forwarded
<1>13. CASE UNCHANGED <<work, turn, got>>
  BY <1>3, <1>13 DEF Judged, Final
<1>14. QED
  BY <1>4, <1>7, <1>8, <1>9, <1>10, <1>11, <1>12, <1>13
  DEF BridgeNext, ClientSends, ClientLeaves, Receive, Begin, End, IdleTimeout, Watch, Gather,
      Prepare, Retry, Emit, Upstream, Tell, Leave

LEMMA WrittenKept ==
    ASSUME BridgeInv, Judged, Written, BridgeNext
    PROVE  Written'
<1>1. turn \in Turn /\ got \in Seq(Item) /\ records \in Nat /\ turn.no \in Nat /\ Nested
  BY DEF BridgeInv, Typed, DataTyped, Turn
<1>2. CASE Receive
  <2>1. CASE End
    BY <2>1 DEF End, Written
  <2>2. CASE \E frame \in Message : frame.kind = "create" /\ Begin(frame)
    <3>1. turn'.no = turn.no + 1 /\ work' = "preparing" /\ main' = "guarding"
      BY <1>1, <2>2, BegunTurn DEF Begin
    <3>2. records' = records /\ records = turn.no
      BY <1>2 DEF Receive, Written
    <3>3. QED
      BY <3>1, <3>2 DEF Written
  <2>3. QED
    BY <1>2, <2>1, <2>2, Received DEF BridgeInv
<1>3. CASE main' \notin {"receiving", "guarding"}
  BY <1>3 DEF Written
<1>4. CASE Guard
  <2>1. CASE main' = "gathering"
    BY <1>3, <2>1
  <2>2. CASE /\ main = "guarding" /\ work = "done" /\ UNCHANGED <<work, turn, got, records>>
             /\ main' = IF turn.keep THEN "receiving" ELSE "ended"
    BY <1>1, <2>2 DEF Written, Final
  <2>3. QED
    BY <1>4, <2>1, <2>2 DEF Guard
\* A step of the turn, while run waits for it.
<1>5. ASSUME ~Idle, main' = main, main' \in {"receiving", "guarding"}
      PROVE  main = "guarding" /\ main' = "guarding"
  BY <1>1, <1>5 DEF Nested
<1>6. ASSUME NEW k \in BOOLEAN, turn' = [turn EXCEPT !.keep = k]
      PROVE  turn'.no = turn.no /\ turn'.keep = k
  BY <1>1, <1>6 DEF Turn
<1>7. CASE Log /\ main' = "guarding"
  <2>1. main = "guarding" /\ work = "logging" /\ records' = records + 1
    BY <1>7 DEF Log
  <2>2. records' = turn.no
    BY <2>1 DEF Written
  <2>3. CASE Forwarded /\ Leave(TRUE) /\ got' = got
    <3>1. Final # {} /\ Final' = Final
      BY <2>1, <2>3 DEF Judged, Forwarded, Final
    <3>2. turn'.no = turn.no /\ work' = "done"
      BY <1>6, <2>3 DEF Leave
    <3>3. QED
      BY <1>7, <2>2, <3>1, <3>2 DEF Written
  <2>4. CASE work' = "telling" /\ turn' = turn
    BY <1>7, <2>2, <2>4 DEF Written
  <2>5. QED
    BY <1>7, <2>3, <2>4 DEF Log
<1>8. CASE Tell /\ main' = "guarding"
  <2>1. main = "guarding" /\ work = "telling" /\ records' = records /\ work' = "done"
    BY <1>8 DEF Tell, Leave
  <2>2. records' = turn.no
    BY <2>1 DEF Written
  <2>3. CASE got' = Append(got, Mark("error")) /\ Leave(TRUE)
    <3>1. Mark("error") \in Item /\ Mark("error").type = "error"
      BY <1>1, Marks DEF Mark
    <3>2. Final' # {}
      BY <1>1, <2>3, <3>1, FinalAfter
    <3>3. turn'.no = turn.no
      BY <1>6, <2>3 DEF Leave
    <3>4. QED
      BY <1>8, <2>1, <2>2, <3>2, <3>3 DEF Written
  <2>4. CASE Leave(FALSE)
    BY <1>6, <1>8, <2>1, <2>4 DEF Leave, Written
  <2>5. QED
    BY <1>8, <2>3, <2>4 DEF Tell
<1>9. ASSUME main = "guarding", main' = "guarding", records' = records,
             work \notin {"done", "telling"}, turn'.no = turn.no,
             work' = "done" => ~turn'.keep, work' # "telling"
      PROVE  Written'
  BY <1>9 DEF Written
<1>10. CASE (Prepare \/ Close) /\ main' = "guarding"
  <2>1. /\ main = "guarding" /\ records' = records /\ work \notin {"done", "telling"}
        /\ work' # "telling"
    BY <1>10 DEF Prepare, Close, Leave
  <2>2. CASE Leave(FALSE)
    BY <1>6, <1>9, <1>10, <2>1, <2>2 DEF Leave
  <2>3. CASE work' # "done" /\ (turn' = turn \/ turn' = [turn EXCEPT !.attempt = 1])
    <3>1. turn'.no = turn.no
      BY <1>1, <2>3 DEF Turn
    <3>2. QED
      BY <1>9, <1>10, <2>1, <2>3, <3>1
  <2>4. QED
    BY <1>10, <2>2, <2>3 DEF Prepare, Close
<1>11. CASE (Answer \/ Take \/ Relay \/ FirstTimeout \/ Retry \/ Settle) /\ main' = "guarding"
  <2>1. /\ main = "guarding" /\ records' = records /\ work \notin {"done", "telling"}
        /\ work' \notin {"done", "telling"}
    BY <1>11 DEF Answer, Take, Relay, FirstTimeout, Retry, Settle, Stop
  <2>2. turn'.no = turn.no
    BY <1>1, <1>11, SameTurn DEF Answer, Take, Relay, FirstTimeout, Retry, Settle, Receive,
       InFlow, Nested, Idle
  <2>3. QED
    BY <1>9, <1>11, <2>1, <2>2
<1>12. CASE UNCHANGED <<main, work, turn, got, records>>
  BY <1>12 DEF Written, Final
<1>13. QED
  BY <1>2, <1>3, <1>4, <1>5, <1>7, <1>8, <1>10, <1>11, <1>12
  DEF BridgeNext, ClientSends, ClientLeaves, IdleTimeout, End, Watch, Gather, Prepare, Answer,
      Take, Relay, FirstTimeout, Close, Retry, Emit, Upstream, Settle, Log, Tell, Idle

-----------------------------------------------------------------------------
(* The order of the turns.                                                 *)

LEMMA OrderKept ==
    ASSUME Typed, Order, BridgeNext
    PROVE  Order'
<1>1. /\ turn \in Turn /\ inbox \in Seq(Message) /\ buffered \in Seq(Message)
      /\ turn.no \in Nat /\ sent \in Nat
  BY Constants DEF Typed, SocketTyped, Turn
<1>2. /\ \A i \in DOMAIN inbox : inbox[i] \in Message /\ inbox[i].no \in Nat
      /\ Len(inbox) \in Nat
  BY <1>1, Elements, Constants DEF Message
<1>3. buffered # <<>> => Head(buffered) \in Message /\ Head(buffered).no \in Nat
  BY <1>1, Shifted, Constants DEF Message
<1>4. CASE ClientSends
  <2>1. PICK f : /\ inbox' = Append(inbox, f) /\ f.no = sent + 1 /\ f \in Message
    <3>1. CASE \E f \in Frames : inbox' = Append(inbox, f)
      <4>1. PICK f \in Frames : inbox' = Append(inbox, f)
        BY <3>1
      <4>2. f \in Message
        BY <1>4, <4>1, FramesTyped DEF ClientSends, Typed
      <4>3. f.no = sent + 1
        BY <4>1 DEF Frames, Frame
      <4>4. QED
        BY <4>1, <4>2, <4>3
    <3>2. CASE inbox' = Append(inbox, [kind |-> "other", no |-> sent + 1])
      <4>1. [kind |-> "other", no |-> sent + 1] \in Message
        BY <1>4, Constants DEF ClientSends, Typed, SocketTyped, Message
      <4>2. QED
        BY <3>2, <4>1
    <3>3. QED
      BY <1>4, <3>1, <3>2 DEF ClientSends
  <2>2. /\ DOMAIN inbox' = DOMAIN inbox \cup {Len(inbox) + 1}
        /\ inbox'[Len(inbox) + 1] = f /\ \A i \in DOMAIN inbox : inbox'[i] = inbox[i]
        /\ DOMAIN inbox = 1..Len(inbox)
    BY <1>1, <2>1, Appended, Elements
  <2>3. sent' = sent + 1 /\ UNCHANGED <<buffered, turn>>
    BY <1>4 DEF ClientSends
  <2>4. Rising(inbox') /\ \A i \in DOMAIN inbox' : inbox'[i].no <= sent'
    <3>1. \A i \in DOMAIN inbox : inbox[i].no < sent + 1
      BY <1>1, <1>2 DEF Order
    <3>2. \A i, j \in DOMAIN inbox' : i < j => i \in DOMAIN inbox
      BY <1>2, <2>2
    <3>3. Rising(inbox')
      BY <2>1, <2>2, <3>1, <3>2 DEF Order, Rising
    <3>4. \A i \in DOMAIN inbox' : inbox'[i].no <= sent'
      BY <1>1, <1>2, <2>1, <2>2, <2>3 DEF Order
    <3>5. QED
      BY <3>3, <3>4
  <2>5. ASSUME NEW n \in Nat, n <= sent, After(n, inbox)
        PROVE  n <= sent' /\ After(n, inbox')
    BY <1>1, <2>1, <2>2, <2>3, <2>5 DEF After
  <2>6. QED
    BY <1>3, <2>3, <2>4, <2>5 DEF Order
<1>5. CASE ClientLeaves
  <2>1. [kind |-> "disconnect", no |-> 0] \in Message
    BY DEF Message
  <2>2. /\ DOMAIN inbox' = DOMAIN inbox \cup {Len(inbox) + 1}
        /\ ~Said(inbox'[Len(inbox) + 1]) /\ inbox'[Len(inbox) + 1].no = 0
        /\ \A i \in DOMAIN inbox : inbox'[i] = inbox[i]
    BY <1>1, <1>5, <2>1, Appended DEF ClientLeaves, Said
  <2>3. Rising(inbox') /\ \A i \in DOMAIN inbox' : inbox'[i].no <= sent'
    BY <1>1, <1>5, <2>2 DEF ClientLeaves, Order, Rising
  <2>4. \A n : After(n, inbox) => After(n, inbox')
    BY <2>2 DEF After
  <2>5. QED
    BY <1>5, <2>3, <2>4 DEF ClientLeaves, Order
\* The first frame of the socket goes to the turn or to the buffer.
<1>6. ASSUME inbox # <<>>, inbox' = Tail(inbox)
      PROVE  /\ Head(inbox) \in Message /\ Head(inbox).no \in Nat /\ Head(inbox).no <= sent
             /\ Rising(inbox') /\ \A i \in DOMAIN inbox' : inbox'[i].no <= sent
             /\ \A n : After(n, inbox) => /\ After(n, inbox')
                                          /\ Said(Head(inbox)) => n < Head(inbox).no
             /\ Said(Head(inbox)) => After(Head(inbox).no, inbox')
  <2>1. /\ Head(inbox) = inbox[1] /\ 1 \in DOMAIN inbox
        /\ \A i \in DOMAIN inbox' : i + 1 \in DOMAIN inbox /\ inbox'[i] = inbox[i + 1]
        /\ \A i \in DOMAIN inbox' : i \in Nat /\ i > 0
    <3>1. inbox' \in Seq(Message)
      BY <1>1, <1>6, Shifted
    <3>2. \A i \in DOMAIN inbox' : i \in Nat /\ i > 0
      BY <3>1, Elements
    <3>3. QED
      BY <1>1, <1>6, <3>2, Shifted
  <2>2. /\ Head(inbox) \in Message /\ Head(inbox).no \in Nat /\ Head(inbox).no <= sent
        /\ \A i \in DOMAIN inbox' : inbox'[i].no <= sent
    BY <1>2, <2>1 DEF Order
  <2>3. Rising(inbox')
    <3>1. \A i, j \in DOMAIN inbox' : i < j => i + 1 < j + 1
      BY <2>1
    <3>2. QED
      BY <2>1, <3>1 DEF Order, Rising
  <2>4. \A n : After(n, inbox) => After(n, inbox') /\ (Said(Head(inbox)) => n < Head(inbox).no)
    BY <2>1 DEF After
  <2>5. Said(Head(inbox)) => After(Head(inbox).no, inbox')
    <3>1. \A i \in DOMAIN inbox' : 1 < i + 1
      BY <2>1
    <3>2. QED
      BY <2>1, <3>1 DEF Order, Rising, After
  <2>6. QED
    BY <2>2, <2>3, <2>4, <2>5
<1>7. CASE Receive
  <2>1. sent' = sent
    BY <1>7 DEF Receive
  <2>2. CASE /\ buffered # <<>> /\ buffered' = <<>> /\ inbox' = inbox
             /\ End \/ Begin(Head(buffered))
    <3>1. CASE End
      BY <2>1, <2>2, <3>1 DEF End, Order
    <3>2. CASE Begin(Head(buffered))
      <4>1. turn'.frame = Head(buffered)
        BY <1>1, <1>3, <2>2, <3>2, BegunTurn
      <4>2. QED
        BY <1>3, <2>1, <2>2, <4>1 DEF Order
    <3>3. QED
      BY <2>2, <3>1, <3>2
  <2>3. CASE /\ buffered = <<>> /\ buffered' = buffered
             /\ inbox # <<>> /\ inbox' = Tail(inbox)
             /\ End \/ (Begin(Head(inbox)) /\ Said(Head(inbox)))
    <3>1. CASE End
      BY <1>6, <2>1, <2>3, <3>1 DEF End, Order
    <3>2. CASE Begin(Head(inbox)) /\ Said(Head(inbox))
      <4>1. turn'.frame = Head(inbox)
        BY <1>1, <1>6, <2>3, <3>2, BegunTurn
      <4>2. QED
        BY <1>6, <2>1, <2>3, <3>2, <4>1 DEF Order
    <3>3. QED
      BY <2>3, <3>1, <3>2
  <2>4. QED
    BY <1>7, <2>2, <2>3 DEF Receive, BufferFirst, Said
<1>8. CASE Watch
  <2>1. sent' = sent /\ turn' = turn /\ inbox # <<>> /\ inbox' = Tail(inbox)
    BY <1>8 DEF Watch
  <2>2. CASE buffered' = buffered
    BY <1>6, <2>1, <2>2 DEF Order
  <2>3. CASE buffered = <<>> /\ buffered' = <<Head(inbox)>> /\ Said(Head(inbox))
    <3>1. buffered' # <<>> /\ Head(buffered') = Head(inbox)
      BY <2>3
    <3>2. QED
      BY <1>6, <2>1, <2>3, <3>1 DEF Order
  <2>4. QED
    BY <1>8, <2>2, <2>3 DEF Watch, Kept, Said
<1>9. CASE ~Receive /\ UNCHANGED <<inbox, sent, buffered>>
  <2>1. turn'.no = turn.no /\ turn'.frame = turn.frame
    BY <1>1, <1>9, SameTurn
  <2>2. QED
    BY <1>9, <2>1 DEF Order
<1>10. QED
  BY <1>4, <1>5, <1>7, <1>8, <1>9
  DEF BridgeNext, IdleTimeout, Guard, Gather, Prepare, Answer, Take, Relay, FirstTimeout,
      Close, Retry, Emit, Upstream, Settle, Log, Tell, socketVars

LEMMA NextInOrder ==
    ASSUME Typed, Order, BridgeNext
    PROVE  turn'.no > turn.no /\ turn.no > 0 => turn'.frame.no > turn.frame.no
<1>1. /\ turn \in Turn /\ turn.no \in Nat
      /\ buffered # <<>> => Head(buffered) \in Message
      /\ inbox # <<>> => Head(inbox) \in Message /\ Head(inbox) = inbox[1] /\ 1 \in DOMAIN inbox
  BY Shifted DEF Typed, SocketTyped, Turn
<1>2. CASE ~Receive
  BY <1>1, <1>2, SameTurn
<1>3. CASE Receive
  <2>1. CASE End
    BY <1>1, <2>1 DEF End
  <2>2. CASE buffered # <<>> /\ Begin(Head(buffered))
    <3>1. turn'.frame = Head(buffered)
      BY <1>1, <2>2, BegunTurn
    <3>2. QED
      BY <2>2, <3>1 DEF Order
  <2>3. CASE inbox # <<>> /\ Begin(Head(inbox)) /\ Said(Head(inbox))
    <3>1. turn'.frame = Head(inbox)
      BY <1>1, <2>3, BegunTurn
    <3>2. QED
      BY <1>1, <2>3, <3>1 DEF Order, After
  <2>4. QED
    BY <1>3, <2>1, <2>2, <2>3 DEF Receive, BufferFirst, Said
<1>4. QED
  BY <1>2, <1>3

-----------------------------------------------------------------------------
(* Parts of a sequence.                                                    *)

LEMMA LeastExists ==
    ASSUME NEW S \in SUBSET Nat, S # {}
    PROVE  \E m \in S : \A n \in S : m <= n
<1> DEFINE R == OpToRel(<, Nat)
<1>1. IsWellFoundedOn(R, Nat)
  BY NatLessThanWellFounded
<1>2. \A y, x \in Nat : <<y, x>> \in R <=> y < x
  BY DEF OpToRel
<1> HIDE DEF R
<1>3. \E x \in S : \A y \in S : ~ (<<y, x>> \in R)
  BY <1>1, WFMin
<1>4. PICK m \in S : \A n \in S : ~ (<<n, m>> \in R)
  BY <1>3
<1>5. \A n \in S : ~ (n < m) /\ n \in Nat /\ m \in Nat
  BY <1>2, <1>4
<1>6. \A n \in S : m <= n
  BY <1>5
<1> QED
  BY <1>6

\* Counting up from 0, in steps that depend on the place.
LEMMA StepwiseExists ==
    ASSUME NEW S, NEW b \in S, NEW N \in Nat, NEW g \in [1..N -> [S -> S]]
    PROVE  \E f \in [0..N -> S] : f[0] = b /\ \A i \in 1..N : f[i] = g[i][f[i - 1]]
<1> DEFINE Good(k, f) == f[0] = b /\ \A i \in 1..k : f[i] = g[i][f[i - 1]]
           T == {k \in 0..N : ~ \E f \in [0..k -> S] : Good(k, f)}
<1>1. SUFFICES ASSUME T # {}
               PROVE  FALSE
  <2>1. SUFFICES ASSUME N \notin T
                 PROVE  \E f \in [0..N -> S] : Good(N, f)
    BY DEF Good
  <2>2. N \in 0..N
    OBVIOUS
  <2> HIDE DEF Good
  <2> QED
    BY <2>1, <2>2
<1>2. T \in SUBSET Nat
  OBVIOUS
<1>3. PICK m \in T : \A k \in T : m <= k
  BY <1>1, <1>2, LeastExists
<1>4. m \in 0..N /\ ~ \E f \in [0..m -> S] : Good(m, f)
  BY <1>3
<1>5. CASE m = 0
  <2> DEFINE f == [i \in 0..0 |-> b]
  <2>1. f \in [0..m -> S] /\ Good(m, f)
    BY <1>5
  <2> QED
    BY <1>4, <2>1
<1>6. CASE m # 0
  <2>1. m - 1 \in 0..N /\ m - 1 \notin T
    <3>1. m - 1 \in 0..N /\ ~ (m <= m - 1)
      BY <1>4, <1>6
    <3> HIDE DEF T
    <3> QED
      BY <1>3, <3>1
  <2>2. PICK f \in [0..(m - 1) -> S] : Good(m - 1, f)
    BY <2>1
  <2> DEFINE h == [i \in 0..m |-> IF i = m THEN g[m][f[m - 1]] ELSE f[i]]
  <2>3. m - 1 \in 0..(m - 1) /\ f[m - 1] \in S /\ m \in 1..N /\ g[m] \in [S -> S]
    BY <1>4, <1>6, <2>2
  <2>4. h \in [0..m -> S]
    <3>1. g[m][f[m - 1]] \in S
      BY <2>3
    <3>2. ASSUME NEW i \in 0..m PROVE (IF i = m THEN g[m][f[m - 1]] ELSE f[i]) \in S
      BY <1>4, <2>2, <3>1
    <3> QED
      BY <3>2
  <2>5. h[0] = b
    BY <1>4, <1>6, <2>2
  <2>6. ASSUME NEW i \in 1..m
        PROVE  h[i] = g[i][h[i - 1]]
    <3>1. i - 1 \in 0..m /\ i - 1 # m /\ i \in 0..m
      BY <1>4
    <3>2. h[i - 1] = f[i - 1]
      BY <3>1
    <3>3. CASE i = m
      BY <3>1, <3>2, <3>3
    <3>4. CASE i # m
      <4>1. i \in 1..(m - 1)
        BY <1>4, <3>4
      <4> QED
        BY <2>2, <3>1, <3>2, <3>4, <4>1
    <3> QED
      BY <3>3, <3>4
  <2> HIDE DEF h
  <2> QED
    BY <1>4, <2>4, <2>5, <2>6
<1> QED
  BY <1>5, <1>6

\* The parts of At, one item after the other.
Builds(f, X, items, I) ==
    /\ f \in [0..Len(items) -> Seq(X)]
    /\ f[0] = <<>>
    /\ \A n \in 1..Len(items) :
           f[n] = IF n \in I THEN Append(f[n - 1], items[n]) ELSE f[n - 1]

LEMMA PartsAre ==
    ASSUME NEW X, NEW items \in Seq(X), NEW I
    PROVE  \E f : Builds(f, X, items, I) /\ At(items, I) = f[Len(items)]
<1> DEFINE N == Len(items)
           F(h) == [n \in 0..N |-> IF n = 0 THEN <<>>
                                   ELSE IF n \in I THEN Append(h[n - 1], items[n]) ELSE h[n - 1]]
           g == [n \in 1..N |-> [s \in Seq(X) |-> IF n \in I THEN Append(s, items[n]) ELSE s]]
<1>1. N \in Nat /\ \A n \in 1..N : items[n] \in X
  OBVIOUS
<1>2. <<>> \in Seq(X)
  OBVIOUS
<1>3. g \in [1..N -> [Seq(X) -> Seq(X)]]
  <2>1. ASSUME NEW n \in 1..N, NEW s \in Seq(X)
        PROVE  (IF n \in I THEN Append(s, items[n]) ELSE s) \in Seq(X)
    <3>1. Append(s, items[n]) \in Seq(X)
      BY <1>1, Appended
    <3> QED
      BY <3>1
  <2> QED
    BY <2>1
<1>4. \A n \in 1..N, s \in Seq(X) : g[n][s] = IF n \in I THEN Append(s, items[n]) ELSE s
  OBVIOUS
<1> HIDE DEF g
<1>5. PICK f \in [0..N -> Seq(X)] : f[0] = <<>> /\ \A n \in 1..N : f[n] = g[n][f[n - 1]]
  <2> DEFINE S == Seq(X)
             empty == <<>>
  <2>1. empty \in S /\ N \in Nat /\ g \in [1..N -> [S -> S]]
    BY <1>1, <1>2, <1>3
  <2> HIDE DEF S, N, empty
  <2>2. \E f \in [0..N -> S] : f[0] = empty /\ \A n \in 1..N : f[n] = g[n][f[n - 1]]
    BY <2>1, StepwiseExists
  <2> QED
    BY <2>2 DEF S, empty
<1>6. f = F(f)
  <2>1. ASSUME NEW n \in 0..N
        PROVE  f[n] = IF n = 0 THEN <<>>
                      ELSE IF n \in I THEN Append(f[n - 1], items[n]) ELSE f[n - 1]
    <3>1. CASE n = 0
      BY <1>5, <3>1
    <3>2. CASE n # 0
      <4>1. n \in 1..N /\ n - 1 \in 0..N
        BY <1>1, <3>2
      <4>2. f[n - 1] \in Seq(X)
        BY <1>5, <4>1
      <4> QED
        BY <1>4, <1>5, <3>2, <4>1, <4>2
    <3> QED
      BY <3>1, <3>2
  <2> QED
    BY <1>5, <2>1
<1> DEFINE c == CHOOSE h : h = F(h)
<1>7. At(items, I) = c[N]
  BY DEF At
<1>8. c = F(c)
  <2>1. \E h : h = F(h)
    BY <1>6
  <2> HIDE DEF F
  <2> QED
    BY <2>1
<1> HIDE DEF c
<1>9. /\ DOMAIN c = 0..N /\ c[0] = <<>>
      /\ \A n \in 1..N : c[n] = IF n \in I THEN Append(c[n - 1], items[n]) ELSE c[n - 1]
  <2>1. /\ DOMAIN F(c) = 0..N /\ F(c)[0] = <<>>
        /\ \A n \in 1..N : F(c)[n] = IF n \in I THEN Append(c[n - 1], items[n]) ELSE c[n - 1]
    BY <1>1
  <2> HIDE DEF F
  <2> QED
    BY <1>8, <2>1
<1>10. c = [n \in 0..N |-> c[n]]
  <2>1. c = [n \in DOMAIN F(c) |-> F(c)[n]] /\ DOMAIN F(c) = 0..N
    BY <1>8
  <2> HIDE DEF F
  <2> QED
    BY <1>8, <2>1
<1>11. \A n \in 0..N : c[n] \in Seq(X)
  <2> DEFINE S == {n \in 0..N : c[n] \notin Seq(X)}
  <2>1. SUFFICES ASSUME S # {} PROVE FALSE
    OBVIOUS
  <2>2. S \in SUBSET Nat
    OBVIOUS
  <2>3. PICK m \in S : \A k \in S : m <= k
    BY <2>1, <2>2, LeastExists
  <2>4. m # 0
    BY <1>2, <1>9, <2>3
  <2>5. m \in 1..N /\ m - 1 \in 0..N /\ m - 1 \notin S
    BY <1>1, <2>3, <2>4
  <2>6. c[m - 1] \in Seq(X)
    BY <2>5
  <2>7. Append(c[m - 1], items[m]) \in Seq(X)
    BY <1>1, <2>5, <2>6, Appended
  <2>8. c[m] \in Seq(X)
    BY <1>9, <2>5, <2>6, <2>7
  <2> QED
    BY <2>3, <2>8
<1>12. c \in [0..N -> Seq(X)]
  BY <1>10, <1>11
<1>13. Builds(c, X, items, I)
  BY <1>9, <1>12 DEF Builds
<1> QED
  BY <1>7, <1>13

\* The item k of s is item p[k] of items; the places in I up to n are all used.
Places(s, p, items, I, n) ==
    /\ p \in [1..Len(s) -> I \cap (1..n)]
    /\ \A k \in 1..Len(s) : s[k] = items[p[k]]
    /\ \A j, k \in 1..Len(s) : j < k => p[j] < p[k]
    /\ \A i \in I \cap (1..n) : \E k \in 1..Len(s) : p[k] = i

\* One more item of the sequence.
LEMMA OnePlaceMore ==
    ASSUME NEW X, NEW items \in Seq(X), NEW I, NEW n \in 1..Len(items), NEW s \in Seq(X),
           NEW p, Places(s, p, items, I, n - 1),
           NEW t, t = IF n \in I THEN Append(s, items[n]) ELSE s
    PROVE  \E q : Places(t, q, items, I, n)
<1>1. /\ n \in Nat /\ items[n] \in X /\ Len(s) \in Nat
      /\ \A i : i \in 1..n <=> i \in 1..(n - 1) \/ i = n
  OBVIOUS
<1>2. CASE n \notin I
  <2>1. I \cap (1..n) = I \cap (1..(n - 1)) /\ t = s
    BY <1>1, <1>2
  <2>2. Places(t, p, items, I, n)
    BY <2>1 DEF Places
  <2> QED
    BY <2>2
<1>3. CASE n \in I
  <2> DEFINE m == Len(s) + 1
             q == [k \in 1..m |-> IF k = m THEN n ELSE p[k]]
  <2>1. /\ t = Append(s, items[n]) /\ Len(t) = m /\ t[m] = items[n]
        /\ \A k \in 1..Len(s) : t[k] = s[k]
    BY <1>1, <1>3
  <2>2. m \in 1..m /\ \A k : k \in 1..m <=> k \in 1..Len(s) \/ k = m
    BY <1>1
  <2>3. \A k \in 1..Len(s) : k # m /\ k < m
    BY <1>1
  <2>4. q[m] = n /\ \A k \in 1..Len(s) : q[k] = p[k]
    BY <2>2, <2>3
  <2>5. \A k \in 1..Len(s) : p[k] \in I /\ p[k] \in 1..(n - 1) /\ p[k] < n
    BY <1>1 DEF Places
  <2>6. q \in [1..m -> I \cap (1..n)]
    BY <1>1, <1>3, <2>2, <2>3, <2>5
  <2> HIDE DEF q
  <2>7. \A k \in 1..m : t[k] = items[q[k]]
    BY <2>1, <2>2, <2>4 DEF Places
  <2>8. \A j, k \in 1..m : j < k => q[j] < q[k]
    <3>1. SUFFICES ASSUME NEW j \in 1..m, NEW k \in 1..m, j < k PROVE q[j] < q[k]
      OBVIOUS
    <3>2. j \in 1..Len(s)
      BY <1>1, <3>1
    <3>3. CASE k = m
      BY <2>4, <2>5, <3>2, <3>3
    <3>4. CASE k # m
      <4>1. k \in 1..Len(s)
        BY <2>2, <3>4
      <4> QED
        BY <2>4, <3>1, <3>2, <4>1 DEF Places
    <3> QED
      BY <3>3, <3>4
  <2>9. \A i \in I \cap (1..n) : \E k \in 1..m : q[k] = i
    <3>1. SUFFICES ASSUME NEW i \in I \cap (1..n) PROVE \E k \in 1..m : q[k] = i
      OBVIOUS
    <3>2. CASE i = n
      BY <2>2, <2>4, <3>2
    <3>3. CASE i # n
      <4>1. i \in I \cap (1..(n - 1))
        BY <1>1, <3>3
      <4>2. PICK k \in 1..Len(s) : p[k] = i
        BY <4>1 DEF Places
      <4> QED
        BY <2>2, <2>4, <4>2
    <3> QED
      BY <3>2, <3>3
  <2> HIDE DEF m
  <2>10. Places(t, q, items, I, n)
    BY <2>1, <2>6, <2>7, <2>8, <2>9 DEF Places
  <2> QED
    BY <2>10
<1> QED
  BY <1>2, <1>3

\* What At returns: the items at the places in I, in their order.
LEMMA AtIs ==
    ASSUME NEW X, NEW items \in Seq(X), NEW I
    PROVE  /\ At(items, I) \in Seq(X)
           /\ \E p : Places(At(items, I), p, items, I, Len(items))
<1> DEFINE N == Len(items)
<1>1. N \in Nat
  OBVIOUS
<1>2. PICK f : Builds(f, X, items, I) /\ At(items, I) = f[N]
  BY PartsAre
<1> DEFINE T == {n \in 0..N : ~ \E p : Places(f[n], p, items, I, n)}
<1>3. T = {}
  <2>1. SUFFICES ASSUME T # {} PROVE FALSE
    OBVIOUS
  <2>2. T \in SUBSET Nat
    OBVIOUS
  <2>3. PICK m \in T : \A k \in T : m <= k
    BY <2>1, <2>2, LeastExists
  <2>4. CASE m = 0
    <3> DEFINE none == [k \in 1..0 |-> 0]
    <3>1. Places(<<>>, none, items, I, 0)
      BY DEF Places
    <3>2. f[m] = <<>>
      BY <1>2, <2>4 DEF Builds
    <3> HIDE DEF none
    <3> QED
      BY <2>3, <2>4, <3>1, <3>2
  <2>5. CASE m # 0
    <3>1. m \in 1..N /\ m - 1 \in 0..N /\ ~(m <= m - 1)
      BY <1>1, <2>5
    <3>2. m - 1 \notin T
      <4> HIDE DEF T
      <4> QED
        BY <2>3, <3>1
    <3>3. PICK p : Places(f[m - 1], p, items, I, m - 1)
      BY <3>1, <3>2
    <3>4. f[m - 1] \in Seq(X)
      BY <1>2, <3>1 DEF Builds
    <3>5. f[m] = IF m \in I THEN Append(f[m - 1], items[m]) ELSE f[m - 1]
      BY <1>2, <3>1 DEF Builds
    <3>6. \E q : Places(f[m], q, items, I, m)
      BY <3>1, <3>3, <3>4, <3>5, OnePlaceMore
    <3> QED
      BY <3>6
  <2> QED
    BY <2>4, <2>5
<1>4. N \in 0..N
  BY <1>1
<1>5. At(items, I) \in Seq(X)
  BY <1>2, <1>4 DEF Builds
<1>6. \E p : Places(f[N], p, items, I, N)
  BY <1>3, <1>4
<1> QED
  BY <1>2, <1>5, <1>6

-----------------------------------------------------------------------------
(* The replay.                                                             *)

LEMMA InputsAre ==
    ASSUME NEW s \in Seq(Input), NEW i \in DOMAIN s
    PROVE  /\ s[i] \in Input /\ s[i] = <<s[i][1], s[i][2]>> /\ s[i][2] \in 1..MaxFrames
           /\ i \in 1..Len(s) /\ i \in Nat /\ Len(s) \in Nat
           /\ \A j \in 1..(i - 1) : j \in DOMAIN s /\ j < i /\ i # j
<1>1. /\ s[i] \in Input /\ i \in 1..Len(s) /\ Len(s) \in Nat /\ DOMAIN s = 1..Len(s)
  BY Elements
<1> QED
  BY <1>1 DEF Input

LEMMA NeedsAre ==
    ASSUME NEW s \in Seq(Input)
    PROVE  FollowsBut(s, Needs(s))
<1>1. SUFFICES ASSUME NEW i \in DOMAIN s, s[i][1] = "output", s[i][2] \notin Needs(s)
               PROVE  \E j \in 1..(i - 1) : s[j] = <<"call", s[i][2]>>
  BY DEF FollowsBut
<1>2. s[i] = <<"output", s[i][2]>> /\ s[i][2] \in 1..MaxFrames
  BY <1>1, InputsAre
<1> QED
  BY <1>1, <1>2 DEF Needs

\* Concatenation, place by place.
LEMMA Joined ==
    ASSUME NEW X, NEW s \in Seq(X), NEW t \in Seq(X)
    PROVE  /\ s \o t \in Seq(X) /\ Len(s \o t) = Len(s) + Len(t)
           /\ \A i \in DOMAIN s : i \in DOMAIN (s \o t) /\ (s \o t)[i] = s[i]
           /\ \A k \in DOMAIN t : Len(s) + k \in DOMAIN (s \o t) /\ (s \o t)[Len(s) + k] = t[k]
           /\ \A i \in DOMAIN (s \o t) :
                  i \in DOMAIN s \/ \E k \in DOMAIN t : i = Len(s) + k
<1>1. /\ Len(s) \in Nat /\ Len(t) \in Nat /\ DOMAIN s = 1..Len(s) /\ DOMAIN t = 1..Len(t)
      /\ s \o t \in Seq(X) /\ Len(s \o t) = Len(s) + Len(t)
      /\ DOMAIN (s \o t) = 1..(Len(s) + Len(t))
      /\ \A i \in 1..(Len(s) + Len(t)) :
             (s \o t)[i] = IF i <= Len(s) THEN s[i] ELSE t[i - Len(s)]
  OBVIOUS
<1>2. \A i \in DOMAIN s : i \in DOMAIN (s \o t) /\ (s \o t)[i] = s[i]
  BY <1>1
<1>3. \A k \in DOMAIN t : Len(s) + k \in DOMAIN (s \o t) /\ (s \o t)[Len(s) + k] = t[k]
  BY <1>1
<1>4. ASSUME NEW i \in DOMAIN (s \o t), i \notin DOMAIN s
      PROVE  \E k \in DOMAIN t : i = Len(s) + k
  <2>1. i - Len(s) \in DOMAIN t /\ i = Len(s) + (i - Len(s))
    BY <1>1, <1>4
  <2> QED
    BY <2>1
<1> QED
  BY <1>1, <1>2, <1>3, <1>4

\* What follows a context is in it when it needs nothing else, repeats nothing
\* and says no tool item again.
LEMMA ContextGrows ==
    ASSUME NEW s \in Seq(Input), NEW t \in Seq(Input), InContext(s), Once(t),
           FollowsBut(t, {c \in 1..MaxFrames : Asks(c, s)}),
           \A k \in DOMAIN t : IsTool(t[k]) => \A i \in DOMAIN s : s[i] # t[k]
    PROVE  InContext(s \o t)
<1> DEFINE u == s \o t
           n == Len(s)
<1>1. /\ u \in Seq(Input) /\ n \in Nat /\ DOMAIN s = 1..n
      /\ \A i \in DOMAIN s : i \in DOMAIN u /\ u[i] = s[i]
      /\ \A k \in DOMAIN t : n + k \in DOMAIN u /\ u[n + k] = t[k]
      /\ \A i \in DOMAIN u : i \in DOMAIN s \/ \E k \in DOMAIN t : i = n + k
  BY Joined, Elements
<1> HIDE DEF u, n
<1>2. ASSUME NEW i \in DOMAIN u
      PROVE  /\ u[i][1] = "output" => \E j \in 1..(i - 1) : u[j] = <<"call", u[i][2]>>
             /\ IsTool(u[i]) => \A j \in 1..(i - 1) : u[j] # u[i]
  <2>1. CASE i \in DOMAIN s
    <3>1. u[i] = s[i] /\ \A j \in 1..(i - 1) : j \in DOMAIN s /\ u[j] = s[j]
      BY <1>1, <2>1, InputsAre
    <3>2. u[i][1] = "output" => \E j \in 1..(i - 1) : u[j] = <<"call", u[i][2]>>
      BY <2>1, <3>1 DEF InContext, FollowsBut
    <3>3. IsTool(u[i]) => \A j \in 1..(i - 1) : u[j] # u[i]
      BY <2>1, <3>1 DEF InContext, Once
    <3> QED
      BY <3>2, <3>3
  <2>2. ASSUME NEW k \in DOMAIN t, i = n + k
        PROVE  /\ u[i][1] = "output" => \E j \in 1..(i - 1) : u[j] = <<"call", u[i][2]>>
               /\ IsTool(u[i]) => \A j \in 1..(i - 1) : u[j] # u[i]
    <3>1. /\ u[i] = t[k] /\ k \in Nat /\ k > 0 /\ t[k][2] \in 1..MaxFrames
          /\ \A j \in 1..(k - 1) : j \in DOMAIN t /\ n + j \in 1..(i - 1) /\ u[n + j] = t[j]
      <4>1. /\ k \in 1..Len(t) /\ t[k][2] \in 1..MaxFrames /\ Len(t) \in Nat
            /\ \A j \in 1..(k - 1) : j \in DOMAIN t
        BY InputsAre
      <4>2. \A j \in 1..(k - 1) : n + j \in 1..(i - 1)
        BY <1>1, <2>2, <4>1
      <4> QED
        BY <1>1, <2>2, <4>1, <4>2
    <3>2. \A j \in DOMAIN s : j \in 1..(i - 1) /\ u[j] = s[j]
      BY <1>1, <2>2, <3>1
    <3>3. u[i][1] = "output" => \E j \in 1..(i - 1) : u[j] = <<"call", u[i][2]>>
      <4>1. SUFFICES ASSUME t[k][1] = "output"
                     PROVE  \E j \in 1..(i - 1) : u[j] = <<"call", t[k][2]>>
        BY <3>1
      <4>2. CASE Asks(t[k][2], s)
        BY <3>2, <4>2 DEF Asks
      <4>3. CASE ~Asks(t[k][2], s)
        <5>1. PICK j \in 1..(k - 1) : t[j] = <<"call", t[k][2]>>
          BY <4>1, <4>3 DEF FollowsBut
        <5> QED
          BY <3>1, <5>1
      <4> QED
        BY <4>2, <4>3
    <3>4. ASSUME IsTool(u[i]), NEW j \in 1..(i - 1)
          PROVE  u[j] # u[i]
      <4>1. j \in DOMAIN s \/ \E l \in DOMAIN t : j = n + l
        <5>1. j \in DOMAIN u
          BY <1>1, InputsAre
        <5> QED
          BY <1>1, <5>1
      <4>2. CASE j \in DOMAIN s
        BY <3>1, <3>2, <3>4, <4>2
      <4>3. ASSUME NEW l \in DOMAIN t, j = n + l
            PROVE  u[j] # u[i]
        <5>1. l \in Nat /\ l > 0 /\ u[j] = t[l]
          BY <1>1, <4>3, InputsAre
        <5>2. l \in 1..(k - 1)
          BY <1>1, <2>2, <3>1, <4>3, <5>1
        <5> QED
          BY <3>1, <3>4, <5>1, <5>2 DEF Once
      <4> QED
        BY <4>1, <4>2, <4>3
    <3> QED
      BY <3>3, <3>4
  <2> QED
    BY <1>1, <2>1, <2>2
<1>3. FollowsBut(u, {}) /\ Once(u)
  BY <1>2 DEF FollowsBut, Once
<1> QED
  BY <1>3 DEF InContext, u

\* A part of a sequence repeats nothing either.
LEMMA PartOnce ==
    ASSUME NEW s \in Seq(Input), NEW I, Once(s)
    PROVE  At(s, I) \in Seq(Input) /\ Once(At(s, I))
<1> DEFINE t == At(s, I)
<1>1. t \in Seq(Input) /\ \E p : Places(t, p, s, I, Len(s))
  BY AtIs
<1> HIDE DEF t
<1>2. PICK p : Places(t, p, s, I, Len(s))
  BY <1>1
<1>3. ASSUME NEW k \in DOMAIN t, IsTool(t[k]), NEW j \in 1..(k - 1)
      PROVE  t[j] # t[k]
  <2>1. j \in 1..Len(t) /\ k \in 1..Len(t) /\ j < k
    BY <1>1, <1>3, InputsAre, Elements
  <2>2. /\ t[j] = s[p[j]] /\ t[k] = s[p[k]] /\ p[j] < p[k]
        /\ p[j] \in 1..Len(s) /\ p[k] \in 1..Len(s)
    BY <1>2, <2>1 DEF Places
  <2>3. p[j] \in 1..(p[k] - 1) /\ p[k] \in DOMAIN s
    BY <2>2, Elements
  <2> QED
    BY <1>3, <2>2, <2>3 DEF Once
<1>4. Once(t)
  BY <1>3 DEF Once
<1> QED
  BY <1>1, <1>4 DEF t

\* What Merge keeps of the former items, and adds of the new ones.
LEMMA MergeKeeps ==
    ASSUME NEW s \in Seq(Input), NEW t \in Seq(Input), InContext(s), Once(t),
           \A c \in Needs(t) : Asks(c, s)
    PROVE  /\ Merge(s, t) \in Seq(Input) /\ InContext(Merge(s, t))
           /\ \A c : Asks(c, s) \/ Asks(c, t) => Asks(c, Merge(s, t))
<1>1. /\ Len(s) \in Nat /\ DOMAIN s = 1..Len(s) /\ Len(t) \in Nat /\ DOMAIN t = 1..Len(t)
  BY Elements
<1>2. CASE IsPrefix(s, t)
  <2>1. Merge(s, t) = t
    BY <1>2 DEF Merge
  <2>2. \A i \in DOMAIN s : i \in DOMAIN t /\ t[i] = s[i]
    <3>1. Len(s) <= Len(t) /\ SubSeq(s, 1, Len(s)) = SubSeq(t, 1, Len(s))
      BY <1>2 DEF IsPrefix
    <3>2. \A i \in 1..Len(s) : /\ SubSeq(s, 1, Len(s))[i] = s[i]
                               /\ SubSeq(t, 1, Len(s))[i] = t[i]
      BY <1>1, <3>1
    <3> QED
      BY <1>1, <3>1, <3>2
  <2>3. FollowsBut(t, {})
    <3>1. SUFFICES ASSUME NEW i \in DOMAIN t, t[i][1] = "output"
                   PROVE  \E j \in 1..(i - 1) : t[j] = <<"call", t[i][2]>>
      BY DEF FollowsBut
    <3>2. i \in 1..Len(t) /\ FollowsBut(t, Needs(t))
      BY <1>1, NeedsAre
    <3>3. CASE t[i][2] \notin Needs(t)
      BY <3>1, <3>2, <3>3 DEF FollowsBut
    <3>4. CASE t[i][2] \in Needs(t)
      <4>1. PICK j \in DOMAIN s : s[j] = <<"call", t[i][2]>>
        BY <3>4 DEF Asks
      <4>2. CASE j < i
        <5>1. j \in 1..(i - 1) /\ t[j] = s[j]
          BY <1>1, <2>2, <3>2, <4>2
        <5> QED
          BY <4>1, <5>1
      <4>3. CASE ~(j < i)
        <5>1. i \in DOMAIN s
          BY <1>1, <3>2, <4>3
        <5>2. t[i] = s[i] /\ \A l \in 1..(i - 1) : l \in DOMAIN s /\ t[l] = s[l]
          BY <2>2, <5>1, InputsAre
        <5> QED
          BY <3>1, <5>1, <5>2 DEF InContext, FollowsBut
      <4> QED
        BY <4>2, <4>3
    <3> QED
      BY <3>3, <3>4
  <2>4. \A c : Asks(c, s) => Asks(c, t)
    BY <2>2 DEF Asks
  <2> QED
    BY <2>1, <2>3, <2>4 DEF InContext
<1>3. CASE ~IsPrefix(s, t)
  <2> DEFINE I == {i \in DOMAIN t : ~(IsTool(t[i]) /\ t[i] \in ToSet(s))}
             u == At(t, I)
  <2>1. Merge(s, t) = s \o u
    BY <1>3 DEF Merge
  <2>2. \A i \in DOMAIN t : /\ i \in I \/ (IsTool(t[i]) /\ \E j \in DOMAIN s : s[j] = t[i])
                            /\ i \in I /\ IsTool(t[i]) => \A j \in DOMAIN s : s[j] # t[i]
    BY DEF ToSet
  <2> HIDE DEF I
  <2>3. u \in Seq(Input) /\ Once(u) /\ \E p : Places(u, p, t, I, Len(t))
    BY PartOnce, AtIs
  <2> HIDE DEF u
  <2>4. PICK p : Places(u, p, t, I, Len(t))
    BY <2>3
  <2>5. DOMAIN u = 1..Len(u) /\ Len(u) \in Nat
    BY <2>3, Elements
  <2>6. \A k \in DOMAIN u : p[k] \in I /\ p[k] \in DOMAIN t /\ u[k] = t[p[k]] /\ p[k] \in Nat
    BY <1>1, <2>4, <2>5 DEF Places
  <2>7. \A k \in DOMAIN u : IsTool(u[k]) => \A i \in DOMAIN s : s[i] # u[k]
    BY <2>2, <2>6
  <2>8. FollowsBut(u, {c \in 1..MaxFrames : Asks(c, s)})
    <3>1. SUFFICES ASSUME NEW k \in DOMAIN u, u[k][1] = "output",
                          u[k][2] \notin {c \in 1..MaxFrames : Asks(c, s)}
                   PROVE  \E j \in 1..(k - 1) : u[j] = <<"call", u[k][2]>>
      BY DEF FollowsBut
    <3>2. u[k][2] \in 1..MaxFrames /\ k \in 1..Len(u)
      BY <2>3, InputsAre
    <3>3. ~Asks(u[k][2], s) /\ u[k][2] \notin Needs(t)
      BY <3>1, <3>2
    <3>4. t[p[k]][1] = "output" /\ t[p[k]][2] = u[k][2] /\ p[k] \in DOMAIN t
      BY <2>6, <3>1
    <3>5. PICK j \in 1..(p[k] - 1) : t[j] = <<"call", u[k][2]>>
      BY <3>3, <3>4, NeedsAre DEF FollowsBut
    <3>6. j \in DOMAIN t /\ j < p[k]
      BY <3>4, InputsAre
    <3>7. j \in I
      BY <2>2, <3>3, <3>5, <3>6 DEF Asks
    <3>8. PICK l \in 1..Len(u) : p[l] = j
      BY <1>1, <2>4, <3>6, <3>7 DEF Places
    <3>9. l < k
      <4>1. ~(k < l)
        BY <2>4, <2>6, <3>2, <3>6, <3>8, <2>5 DEF Places
      <4>2. l # k
        BY <2>6, <3>6, <3>8, <2>5
      <4> QED
        BY <2>5, <3>2, <4>1, <4>2
    <3>10. l \in 1..(k - 1) /\ u[l] = <<"call", u[k][2]>>
      BY <2>5, <2>6, <3>2, <3>5, <3>8, <3>9
    <3> QED
      BY <3>10
  <2>9. InContext(s \o u)
    BY <2>3, <2>7, <2>8, ContextGrows
  <2>10. /\ s \o u \in Seq(Input)
         /\ \A i \in DOMAIN s : i \in DOMAIN (s \o u) /\ (s \o u)[i] = s[i]
         /\ \A k \in DOMAIN u : Len(s) + k \in DOMAIN (s \o u) /\ (s \o u)[Len(s) + k] = u[k]
    BY <2>3, Joined
  <2>11. \A c : Asks(c, s) => Asks(c, s \o u)
    BY <2>10 DEF Asks
  <2>12. ASSUME NEW c, Asks(c, t)
         PROVE  Asks(c, s \o u)
    <3>1. PICK i \in DOMAIN t : t[i] = <<"call", c>>
      BY <2>12 DEF Asks
    <3>2. CASE i \in I
      <4>1. PICK k \in 1..Len(u) : p[k] = i
        BY <1>1, <2>4, <3>2 DEF Places
      <4>2. u[k] = <<"call", c>> /\ k \in DOMAIN u
        BY <2>5, <2>6, <3>1, <4>1
      <4> QED
        BY <2>10, <4>2 DEF Asks
    <3>3. CASE i \notin I
      BY <2>2, <2>11, <3>1, <3>3 DEF Asks
    <3> QED
      BY <3>2, <3>3
  <2> QED
    BY <2>1, <2>9, <2>10, <2>11, <2>12
<1> QED
  BY <1>2, <1>3

\* The calls that a response asked for, each once.
LEMMA DedupKeeps ==
    ASSUME NEW s \in Seq(Call)
    PROVE  /\ Dedup(s) \in Seq(Input) /\ Once(Dedup(s)) /\ Needs(Dedup(s)) = {}
           /\ \A c : Asks(c, s) => Asks(c, Dedup(s))
<1> DEFINE I == {i \in DOMAIN s : \A j \in 1..(i - 1) : s[j] # s[i]}
           u == At(s, I)
<1>1. Dedup(s) = u
  BY DEF Dedup
<1>2. /\ Len(s) \in Nat /\ DOMAIN s = 1..Len(s)
      /\ \A i \in DOMAIN s : s[i] \in Call
  BY Elements
<1>3. \A i \in I : i \in DOMAIN s /\ \A j \in 1..(i - 1) : s[j] # s[i]
  OBVIOUS
<1>4. \A i \in DOMAIN s : i \in I \/ \E j \in 1..(i - 1) : s[j] = s[i]
  OBVIOUS
<1> HIDE DEF I
<1>5. u \in Seq(Call) /\ \E p : Places(u, p, s, I, Len(s))
  BY AtIs
<1> HIDE DEF u
<1>6. PICK p : Places(u, p, s, I, Len(s))
  BY <1>5
<1>7. /\ Len(u) \in Nat /\ DOMAIN u = 1..Len(u) /\ \A k \in DOMAIN u : u[k] \in Call
  BY <1>5, Elements
<1>8. \A k \in DOMAIN u : p[k] \in I /\ p[k] \in 1..Len(s) /\ u[k] = s[p[k]]
  BY <1>6, <1>7 DEF Places
<1>9. \A c \in Call : c \in Input /\ c[1] = "call"
  BY DEF Call, Input
<1>10. u \in Seq(Input)
  BY <1>5, <1>7, <1>9
<1>11. Once(u)
  <2>1. ASSUME NEW k \in DOMAIN u, NEW j \in 1..(k - 1)
        PROVE  u[j] # u[k]
    <3>1. j \in DOMAIN u /\ j < k
      BY <1>7
    <3>2. p[j] < p[k]
      BY <1>6, <1>7, <3>1 DEF Places
    <3>3. p[j] \in 1..(p[k] - 1)
      BY <1>2, <1>8, <3>1, <3>2
    <3> QED
      BY <1>3, <1>8, <3>1, <3>3
  <2> QED
    BY <2>1 DEF Once
<1>12. Needs(u) = {}
  <2>1. \A k \in DOMAIN u : \A c : u[k] # <<"output", c>>
    BY <1>7, <1>9
  <2> QED
    BY <2>1 DEF Needs
<1>13. ASSUME NEW c, Asks(c, s)
       PROVE  Asks(c, u)
  <2> DEFINE T == {i \in DOMAIN s : s[i] = <<"call", c>>}
  <2>1. T # {} /\ T \in SUBSET Nat
    BY <1>2, <1>13 DEF Asks
  <2>2. PICK m \in T : \A i \in T : m <= i
    BY <2>1, LeastExists
  <2>3. \A j \in 1..(m - 1) : s[j] # s[m]
    <3>1. SUFFICES ASSUME NEW j \in 1..(m - 1), s[j] = s[m] PROVE FALSE
      OBVIOUS
    <3>2. j \in T /\ ~(m <= j)
      BY <1>2, <3>1
    <3> HIDE DEF T
    <3> QED
      BY <2>2, <3>2
  <2>4. m \in I /\ m \in 1..Len(s) /\ s[m] = <<"call", c>>
    BY <1>2, <1>4, <2>3
  <2>5. PICK k \in 1..Len(u) : p[k] = m
    BY <1>6, <2>4 DEF Places
  <2> QED
    BY <1>7, <1>8, <2>4, <2>5 DEF Asks
<1> QED
  BY <1>1, <1>10, <1>11, <1>12, <1>13

\* The input of a request.
LEMMA PreparedKeeps ==
    ASSUME replay \in Seq(Input), InContext(replay),
           NEW f, f.input \in Seq(Input), Once(f.input), \A c \in Needs(f.input) : Asks(c, replay)
    PROVE  /\ Prepared(f) \in Seq(Input) /\ InContext(Prepared(f))
           /\ Continues(f) => \A c : Asks(c, replay) => Asks(c, Prepared(f))
<1>1. CASE Continues(f)
  BY <1>1, MergeKeeps DEF Prepared
<1>2. CASE ~Continues(f)
  <2>1. Prepared(f) = f.input /\ ~HasOutput(f.input)
    BY <1>2 DEF Prepared, Continues
  <2>2. \A i \in DOMAIN f.input : f.input[i][1] # "output"
    BY <2>1 DEF HasOutput, ToSet
  <2>3. InContext(f.input)
    BY <2>2 DEF InContext, FollowsBut
  <2> QED
    BY <1>2, <2>1, <2>3
<1> QED
  BY <1>1, <1>2

\* What is kept of a turn that went well.
LEMMA CommittedKeeps ==
    ASSUME pending \in Seq(Input), InContext(pending), collected \in Seq(Call)
    PROVE  /\ Committed \in Seq(Input) /\ InContext(Committed)
           /\ \A c : Asks(c, pending) \/ Asks(c, collected) => Asks(c, Committed)
<1>1. CASE collected = <<>>
  <2>1. \A c : ~Asks(c, collected)
    BY <1>1, Empty DEF Asks
  <2> QED
    BY <1>1, <2>1 DEF Committed
<1>2. CASE collected # <<>>
  <2>1. /\ Dedup(collected) \in Seq(Input) /\ Once(Dedup(collected))
        /\ Needs(Dedup(collected)) = {}
        /\ \A c : Asks(c, collected) => Asks(c, Dedup(collected))
    BY DedupKeeps
  <2>2. Committed = Merge(pending, Dedup(collected))
    BY <1>2 DEF Committed
  <2>3. /\ Committed \in Seq(Input) /\ InContext(Committed)
        /\ \A c : Asks(c, pending) \/ Asks(c, Dedup(collected)) => Asks(c, Committed)
    BY <2>1, <2>2, MergeKeeps
  <2> QED
    BY <2>1, <2>3
<1> QED
  BY <1>1, <1>2

-----------------------------------------------------------------------------
(* The calls that will be in the replay.                                   *)

\* Once the client heard a good end only the producer's own end is queued.
LEMMA QueueEnds ==
    ASSUME VerdictInv, work = "streaming", terminal \in OkVerdicts, queue # <<>>
    PROVE  Head(queue).type = "eof"
<1>1. /\ got \in Seq(Item) /\ queue \in Seq(Item) /\ Len(got) \in Nat /\ emitted \in Nat
      /\ InFlow /\ ~Idle /\ Relayed /\ Taken = Len(got)
  BY Constants DEF VerdictInv, BridgeInv, Typed, StreamTyped, DataTyped, Flow, InFlow, Idle, Taken
<1>2. Head(queue) = queue[1] /\ 1 \in DOMAIN queue
  BY <1>1, Shifted
<1>3. Final # {}
  BY Names DEF VerdictInv, Ending, InFlow, OkVerdicts
<1>4. over /\ emitted = Len(got)
  <2>1. PICK i \in DOMAIN got : got[i].type \in Verdicts /\ i = Len(got)
    BY <1>1, <1>3, FinalEvents DEF VerdictInv, Judged, Final
  <2> QED
    BY <1>1, <2>1 DEF VerdictInv, Ending, Closes
<1>5. Head(queue).type # "broken"
  BY <1>1, <1>2, <1>4 DEF VerdictInv, Ending
<1>6. ~Placed(Head(queue), Taken + 1, turn.attempt) \/ ~(Taken + 1 <= emitted)
  BY <1>1, <1>4
<1>7. InLine(queue[1], Taken + 1, turn.attempt, emitted)
  BY <1>1, <1>2 DEF VerdictInv, BridgeInv, Flow, Queued, QueueInLine
<1> QED
  BY <1>2, <1>5, <1>6, <1>7 DEF InLine

\* A call that will be in the replay still will be after a step of the turn.
LEMMA LastingKept ==
    ASSUME VerdictInv, ContextInv, BridgeNext, ~Receive, main' \in {"receiving", "guarding"},
           NEW c, Lasting(c)
    PROVE  Lasting(c)'
<1>1. /\ turn \in Turn /\ collected \in Seq(Call) /\ Nested /\ queue \in Seq(Item)
      /\ terminal \in {"none"} \cup Verdicts
  BY DEF VerdictInv, BridgeInv, Typed, DataTyped, StreamTyped, StageTyped
<1>2. turn'.frame = turn.frame
  BY <1>1, SameTurn
<1>3. CASE /\ work' = work /\ turn'.status = turn.status /\ turn'.first = turn.first
           /\ UNCHANGED <<terminal, collected, replay, pending>>
  BY <1>2, <1>3 DEF Lasting, Promised, Asks, Continues
\* The call is in the replay, and in the request.
<1>4. ASSUME work' \in {"asking", "first", "relaying", "streaming", "closing", "pausing",
                        "settling"},
             Asks(c, replay)', Asks(c, pending)'
      PROVE  Lasting(c)'
  BY <1>4 DEF Lasting
<1>5. ASSUME work' \in {"off", "done", "logging", "telling"}, Asks(c, replay)'
      PROVE  Lasting(c)'
  BY <1>5 DEF Lasting
<1>6. UNCHANGED <<replay, pending>> =>
          (Asks(c, replay)' <=> Asks(c, replay)) /\ (Asks(c, pending)' <=> Asks(c, pending))
  BY DEF Asks
<1>7. ASSUME NEW v \in Status, turn' = [turn EXCEPT !.status = v]
      PROVE  turn'.status = v /\ turn'.first = turn.first
  BY <1>1, <1>7 DEF Turn
<1>8. CASE Prepare
  <2>1. work = "preparing" /\ Asks(c, replay) /\ Continues(turn.frame) /\ replay' = replay
    BY <1>8 DEF Prepare, Lasting, Promised
  <2>2. CASE work' = "asking" /\ pending' = Prepared(turn.frame)
    <3>1. turn.frame \in Message /\ turn.frame.kind = "create"
      BY <1>1, <2>1 DEF Nested, Idle
    <3>2. turn.frame.input \in Seq(Input)
      BY <3>1 DEF Message
    <3>3. Fits(turn.frame) /\ replay \in Seq(Input) /\ InContext(replay)
      BY <2>1 DEF ContextInv
    <3>4. Asks(c, Prepared(turn.frame))
      BY <2>1, <3>2, <3>3, PreparedKeeps DEF Fits
    <3>5. Asks(c, replay)' /\ Asks(c, pending)'
      BY <2>1, <2>2, <3>4 DEF Asks
    <3> QED
      BY <1>4, <2>2, <3>5
  <2>3. CASE work' = "done"
    <3>1. Asks(c, replay)'
      BY <2>1 DEF Asks
    <3> QED
      BY <1>5, <2>3, <3>1
  <2> QED
    BY <1>8, <2>2, <2>3 DEF Prepare, Leave
<1>9. CASE Answer \/ Retry \/ FirstTimeout
  <2>1. /\ work \in {"asking", "pausing", "first"} /\ UNCHANGED <<replay, pending>>
        /\ work' \in {"asking", "first", "closing", "settling"}
    BY <1>9 DEF Answer, Retry, FirstTimeout, Stop, turnVars
  <2>2. Asks(c, replay) /\ Asks(c, pending)
    BY <2>1 DEF Lasting, Promised
  <2> QED
    BY <1>4, <1>6, <2>1, <2>2
<1>10. CASE Take
  <2>1. /\ work \in {"first", "streaming"} /\ UNCHANGED <<replay, pending>> /\ queue # <<>>
        /\ work' \in {"relaying", "closing"}
    BY <1>10 DEF Take, Stop
  <2>2. CASE Asks(c, replay) /\ Asks(c, pending)
    BY <1>4, <1>6, <2>1, <2>2
  <2>3. CASE Promised(c)
    <3>1. work = "streaming" /\ terminal \in OkVerdicts /\ turn.first /\ Asks(c, collected)
      BY <2>1, <2>3 DEF Promised
    <3>2. Head(queue).type = "eof"
      BY <2>1, <3>1, QueueEnds
    <3>3. /\ Stop(IF terminal = "none" THEN "eof" ELSE terminal)
          /\ UNCHANGED <<terminal, collected>>
      BY <1>10, <3>2 DEF Take
    <3>4. terminal # "none" /\ terminal \in Status
      BY <3>1, Names DEF OkVerdicts, Status
    <3>5. work' = "closing" /\ turn'.status = terminal /\ turn'.first
      BY <1>7, <3>1, <3>3, <3>4 DEF Stop
    <3>6. Promised(c)'
      BY <3>1, <3>3, <3>5 DEF Promised, Asks
    <3> QED
      BY <3>6 DEF Lasting
  <2> QED
    BY <2>1, <2>2, <2>3 DEF Lasting
<1>11. CASE Relay
  <2>1. /\ work = "relaying" /\ UNCHANGED <<replay, pending>>
        /\ work' \in {"streaming", "closing"}
    BY <1>11 DEF Relay, Stop, turnVars
  <2>2. Asks(c, replay) /\ Asks(c, pending)
    BY <2>1 DEF Lasting, Promised
  <2> QED
    BY <1>4, <1>6, <2>1, <2>2
<1>12. CASE Close
  <2>1. work = "closing" /\ UNCHANGED turnVars /\ UNCHANGED <<replay, pending>>
    BY <1>12 DEF Close, turnVars
  <2>2. CASE Asks(c, replay) /\ Asks(c, pending)
    <3>1. work' \in {"done", "pausing", "settling"}
      BY <1>12 DEF Close, Leave
    <3> QED
      BY <1>4, <1>5, <1>6, <2>1, <2>2, <3>1
  <2>3. CASE Promised(c)
    <3>1. /\ turn.status \notin {"client_disconnected", "cancelled"} /\ ~Again
          /\ UNCHANGED <<terminal, collected>>
      BY <2>1, <2>3 DEF Promised, OkVerdicts, Again, turnVars
    <3>2. work' = "settling" /\ turn' = turn
      BY <1>12, <3>1 DEF Close
    <3>3. Promised(c)'
      BY <2>1, <2>3, <3>1, <3>2 DEF Promised, Asks
    <3> QED
      BY <3>3 DEF Lasting
  <2> QED
    BY <2>1, <2>2, <2>3 DEF Lasting
<1>13. CASE Settle
  <2>1. /\ work = "settling" /\ work' = "logging"
        /\ replay' = IF turn.status \in OkVerdicts THEN Committed ELSE replay
    BY <1>13 DEF Settle
  <2>2. \A d : Asks(d, pending) \/ Asks(d, collected) => Asks(d, Committed)
    BY <1>1, CommittedKeeps DEF ContextInv
  <2>3. CASE turn.status \in OkVerdicts
    <3>1. Asks(c, pending) \/ Asks(c, collected)
      BY <2>1 DEF Lasting, Promised
    <3>2. Asks(c, Committed) /\ replay' = Committed
      BY <2>1, <2>2, <2>3, <3>1
    <3>3. Asks(c, replay)'
      BY <3>2 DEF Asks
    <3> QED
      BY <1>5, <2>1, <3>3
  <2>4. CASE turn.status \notin OkVerdicts
    <3>1. Asks(c, replay) /\ replay' = replay
      BY <2>1, <2>4 DEF Lasting, Promised
    <3>2. Asks(c, replay)'
      BY <3>1 DEF Asks
    <3> QED
      BY <1>5, <2>1, <3>2
  <2> QED
    BY <2>3, <2>4
<1>14. CASE Log \/ Tell
  <2>1. /\ work \in {"logging", "telling"} /\ work' \in {"telling", "done"}
        /\ UNCHANGED <<replay, pending>>
    BY <1>14 DEF Log, Tell, Leave, turnVars
  <2>2. Asks(c, replay)
    BY <2>1 DEF Lasting, Promised
  <2> QED
    BY <1>5, <1>6, <2>1, <2>2
<1>15. CASE Guard
  <2>1. main' # "gathering"
    OBVIOUS
  <2>2. UNCHANGED <<work, turn, terminal, collected, replay, pending>>
    BY <1>15, <2>1 DEF Guard, turnVars
  <2> QED
    BY <1>3, <2>2
<1>16. CASE ClientSends \/ ClientLeaves \/ Watch \/ Emit \/ Upstream
  <2>1. UNCHANGED <<work, turn, terminal, collected, replay, pending>>
    BY <1>16 DEF ClientSends, ClientLeaves, Watch, Emit, Upstream, turnVars
  <2> QED
    BY <1>3, <2>1
<1>17. ~IdleTimeout /\ ~Gather
  BY DEF IdleTimeout, Gather, End
<1> QED
  BY <1>8, <1>9, <1>10, <1>11, <1>12, <1>13, <1>14, <1>15, <1>16, <1>17 DEF BridgeNext

LEMMA LineIs ==
    ASSUME Typed, Order, NEW f \in Line
    PROVE  /\ f \in Message /\ f.no \in Nat /\ f.no <= sent
           /\ Creates(f) => /\ f.input \in Seq(Input) /\ Said(f)
                            /\ turn.no > 0 => turn.frame.no < f.no
<1>1. /\ inbox \in Seq(Message) /\ buffered \in Seq(Message) /\ Len(buffered) <= 1
      /\ sent \in Nat
  BY Constants DEF Typed, SocketTyped
<1>2. \A m \in Message : m.no \in Nat /\ (Creates(m) => m.input \in Seq(Input) /\ Said(m))
  BY Constants DEF Message, Creates, Said
<1>3. CASE f \in ToSet(inbox)
  <2>1. PICK i \in DOMAIN inbox : f = inbox[i]
    BY <1>3 DEF ToSet
  <2>2. f \in Message /\ f.no <= sent
    BY <1>1, <2>1, Elements DEF Order
  <2>3. Said(f) /\ turn.no > 0 => turn.frame.no < f.no
    BY <2>1 DEF Order, After
  <2> QED
    BY <1>2, <2>2, <2>3
<1>4. CASE f \in ToSet(buffered)
  <2>1. PICK i \in DOMAIN buffered : f = buffered[i]
    BY <1>4 DEF ToSet
  <2>2. i = 1 /\ buffered # <<>> /\ Head(buffered) = f /\ f \in Message
    BY <1>1, <2>1
  <2> QED
    BY <1>2, <2>2 DEF Order
<1> QED
  BY <1>3, <1>4 DEF Line

\* No frame joins the line but one that the client sends.
LEMMA LineShrinks ==
    ASSUME Typed, BridgeNext, ~ClientSends
    PROVE  \A f \in Line' : Creates(f) => f \in Line
<1>1. inbox \in Seq(Message) /\ buffered \in Seq(Message)
  BY DEF Typed, SocketTyped
<1>2. inbox # <<>> => /\ Head(inbox) \in ToSet(inbox)
                      /\ \A f \in ToSet(Tail(inbox)) : f \in ToSet(inbox)
  <2>1. SUFFICES ASSUME inbox # <<>>
                 PROVE  /\ Head(inbox) \in ToSet(inbox)
                        /\ \A f \in ToSet(Tail(inbox)) : f \in ToSet(inbox)
    OBVIOUS
  <2>2. /\ Head(inbox) = inbox[1] /\ 1 \in DOMAIN inbox
        /\ \A i \in DOMAIN Tail(inbox) : i + 1 \in DOMAIN inbox /\ Tail(inbox)[i] = inbox[i + 1]
    BY <1>1, <2>1, Shifted
  <2> QED
    BY <2>2 DEF ToSet
<1>3. CASE UNCHANGED <<inbox, buffered>>
  BY <1>3 DEF Line
<1>4. CASE inbox # <<>> /\ inbox' = Tail(inbox) /\ buffered' = buffered
  BY <1>2, <1>4 DEF Line
<1>5. CASE inbox # <<>> /\ inbox' = Tail(inbox) /\ buffered' = <<Head(inbox)>>
  <2>1. \A f \in ToSet(<<Head(inbox)>>) : f = Head(inbox)
    BY DEF ToSet
  <2> QED
    BY <1>2, <1>5, <2>1 DEF Line
<1>6. CASE inbox' = inbox /\ buffered' = <<>>
  <2>1. ToSet(<<>>) = {}
    BY DEF ToSet
  <2> QED
    BY <1>6, <2>1 DEF Line
<1>7. CASE ClientLeaves
  <2>1. PICK d : inbox' = Append(inbox, d) /\ d = [kind |-> "disconnect", no |-> 0]
    BY <1>7 DEF ClientLeaves
  <2>2. d \in Message /\ ~Creates(d) /\ buffered' = buffered
    BY <1>7, <2>1 DEF Message, Creates, ClientLeaves
  <2>3. /\ DOMAIN inbox' = DOMAIN inbox \cup {Len(inbox) + 1} /\ inbox'[Len(inbox) + 1] = d
        /\ \A i \in DOMAIN inbox : inbox'[i] = inbox[i]
    BY <1>1, <2>1, <2>2, Appended
  <2>4. \A f \in ToSet(inbox') : f \in ToSet(inbox) \/ f = d
    BY <2>3 DEF ToSet
  <2> QED
    BY <2>2, <2>4 DEF Line
<1>8. CASE Watch
  BY <1>3, <1>4, <1>5, <1>8 DEF Watch, Kept
<1>9. CASE Receive
  BY <1>3, <1>4, <1>6, <1>9 DEF Receive
<1> QED
  BY <1>3, <1>7, <1>8, <1>9
  DEF BridgeNext, IdleTimeout, Guard, Gather, Prepare, Answer, Take, Relay, FirstTimeout,
      Close, Retry, Emit, Upstream, Settle, Log, Tell, socketVars

\* A new frame repeats nothing, and answers calls that the client knows.
LEMMA FramesFit ==
    ASSUME known \subseteq 1..MaxFrames, sent + 1 \in 1..MaxFrames, NEW f \in Frames
    PROVE  /\ Once(f.input) /\ Needs(f.input) \subseteq known /\ f.no = sent + 1
           /\ Needs(f.input) # {} => Continues(f)
<1>1. CASE f \in {Frame(<<<<"message", sent + 1>>>>, p) : p \in {FALSE, sent > 0}}
  <2>1. f.input = <<<<"message", sent + 1>>>> /\ f.no = sent + 1
    BY <1>1 DEF Frame
  <2>2. \A i \in DOMAIN f.input : f.input[i] = <<"message", sent + 1>>
    BY <2>1
  <2>3. Once(f.input)
    BY <2>2 DEF Once, IsTool
  <2>4. Needs(f.input) = {}
    BY <2>2 DEF Needs
  <2> QED
    BY <2>1, <2>3, <2>4
<1>2. CASE \E c \in known : f = Frame(<<<<"output", c>>>>, FALSE)
  <2>1. PICK c \in known : f = Frame(<<<<"output", c>>>>, FALSE)
    BY <1>2
  <2>2. f.input = <<<<"output", c>>>> /\ f.no = sent + 1
    BY <2>1 DEF Frame
  <2>3. DOMAIN f.input = 1..1 /\ f.input[1] = <<"output", c>>
    BY <2>2
  <2>4. Once(f.input)
    BY <2>3 DEF Once
  <2>5. Needs(f.input) \subseteq known
    BY <2>3 DEF Needs
  <2>6. Continues(f)
    BY <2>3 DEF Continues, HasOutput, ToSet
  <2> QED
    BY <2>2, <2>4, <2>5, <2>6
<1>3. CASE \E c \in known : f = Frame(<<<<"call", c>>, <<"output", c>>>>, FALSE)
  <2>1. PICK c \in known : f = Frame(<<<<"call", c>>, <<"output", c>>>>, FALSE)
    BY <1>3
  <2>2. f.input = <<<<"call", c>>, <<"output", c>>>> /\ f.no = sent + 1
    BY <2>1 DEF Frame
  <2>3. DOMAIN f.input = 1..2 /\ f.input[1] = <<"call", c>> /\ f.input[2] = <<"output", c>>
    BY <2>2
  <2>4. Once(f.input)
    BY <2>3 DEF Once
  <2>5. Needs(f.input) = {}
    BY <2>3 DEF Needs
  <2> QED
    BY <2>2, <2>4, <2>5
<1> QED
  BY <1>1, <1>2, <1>3 DEF Frames

\* The frame of a turn leaves the line before those behind it.
LEMMA ServedFirst ==
    ASSUME Typed, Order, Receive
    PROVE  \/ End
           \/ \E fr \in Line : /\ Creates(fr) /\ fr \in Message /\ Begin(fr)
                               /\ \A f \in Line' : Creates(f) => f \in Line /\ fr.no < f.no
<1>1. /\ inbox \in Seq(Message) /\ buffered \in Seq(Message) /\ Len(buffered) <= 1
      /\ \A f : Creates(f) => Said(f)
  BY DEF Typed, SocketTyped, Creates, Said
<1>2. \A f \in Line' : Creates(f) => f \in Line
  BY LineShrinks DEF BridgeNext, Receive, ClientSends
<1>3. CASE buffered # <<>> /\ buffered' = <<>> /\ inbox' = inbox
           /\ Head(buffered).kind = "create" /\ Begin(Head(buffered))
  <2>1. Head(buffered) \in Message /\ Head(buffered) \in ToSet(buffered)
    BY <1>1, <1>3, Shifted DEF ToSet
  <2>2. \A f \in Line' : f \in ToSet(inbox)
    BY <1>3 DEF Line, ToSet
  <2>3. \A f \in ToSet(inbox) : Said(f) => Head(buffered).no < f.no
    BY <1>3 DEF Order, After, ToSet
  <2> QED
    BY <1>1, <1>2, <1>3, <2>1, <2>2, <2>3 DEF Line, Creates
<1>4. CASE buffered = <<>> /\ buffered' = buffered /\ inbox # <<>> /\ inbox' = Tail(inbox)
           /\ Head(inbox).kind = "create" /\ Begin(Head(inbox))
  <2>1. /\ Head(inbox) \in Message /\ Head(inbox) = inbox[1] /\ 1 \in DOMAIN inbox
        /\ \A i \in DOMAIN inbox' : i + 1 \in DOMAIN inbox /\ inbox'[i] = inbox[i + 1]
    BY <1>1, <1>4, Shifted
  <2>2. \A i \in DOMAIN inbox' : 1 < i + 1
    BY <1>1, <1>4, Elements
  <2>3. \A f \in Line' : \E i \in DOMAIN inbox' : f = inbox'[i]
    BY <1>4 DEF Line, ToSet
  <2>4. \A f \in Line' : Said(f) => Head(inbox).no < f.no
    BY <1>1, <1>4, <2>1, <2>2, <2>3 DEF Order, Rising, Creates
  <2>5. Head(inbox) \in ToSet(inbox)
    BY <2>1 DEF ToSet
  <2> QED
    BY <1>1, <1>2, <1>4, <2>1, <2>4, <2>5 DEF Line, Creates
<1> QED
  BY <1>3, <1>4 DEF Receive, BufferFirst

LEMMA ReceiveAnswers ==
    ASSUME VerdictInv, Order, ContextInv, Receive
    PROVE  Answerable' /\ (work' = "preparing" => Fits(turn.frame)')
<1>1. /\ Typed /\ turn \in Turn /\ main = "receiving" /\ work \in {"off", "done"}
      /\ UNCHANGED <<sent, known, replay, pending>>
  BY DEF VerdictInv, BridgeInv, Typed, Nested, Idle, Receive, turnVars
<1>2. CASE End
  BY <1>1, <1>2 DEF End, Answerable
<1>3. ASSUME NEW fr \in Line, Creates(fr), fr \in Message, Begin(fr),
             \A f \in Line' : Creates(f) => f \in Line /\ fr.no < f.no
      PROVE  Answerable' /\ Fits(turn.frame)'
  <2>1. work' = "preparing" /\ turn'.frame = fr
    BY <1>1, <1>3, BegunTurn DEF Begin
  <2>2. \A c : Lasting(c) => Asks(c, replay) /\ Asks(c, replay)'
    BY <1>1 DEF Lasting, Promised, Asks
  <2>3. ASSUME NEW c, Lasting(c), Continues(fr)
        PROVE  Lasting(c)'
    <3>1. Asks(c, replay)' /\ Continues(turn.frame)'
      BY <2>1, <2>2, <2>3 DEF Continues
    <3> QED
      BY <2>1, <3>1 DEF Lasting
  <2>4. \A n : GoesOn(n) => GoesOn(n)'
    <3>1. SUFFICES ASSUME NEW n, GoesOn(n), NEW f \in Line', Creates(f), f.no < n
                   PROVE  Continues(f)
      BY DEF GoesOn
    <3> QED
      BY <1>3, <3>1 DEF GoesOn
  <2>5. /\ \A c \in known : Lasting(c) /\ GoesOn(sent + 1)
        /\ \A f \in Line : Creates(f) => \A c \in Needs(f.input) : Lasting(c) /\ GoesOn(f.no)
    BY <1>1 DEF ContextInv, Answerable
  <2>6. fr.no < sent + 1
    <3>1. fr.no \in Nat /\ fr.no <= sent /\ sent \in Nat
      BY <1>1, LineIs, Constants DEF Typed, SocketTyped
    <3> QED
      BY <3>1
  <2>7. \A c \in known' : Lasting(c)' /\ GoesOn(sent + 1)'
    <3>1. SUFFICES ASSUME NEW c \in known PROVE Lasting(c)' /\ GoesOn(sent + 1)'
      BY <1>1
    <3>2. Lasting(c) /\ GoesOn(sent + 1)
      BY <2>5
    <3>3. Continues(fr)
      BY <1>3, <2>6, <3>2 DEF GoesOn
    <3>4. GoesOn(sent + 1)'
      BY <1>1, <1>3, <3>2 DEF GoesOn
    <3> QED
      BY <2>3, <3>2, <3>3, <3>4
  <2>8. ASSUME NEW f \in Line', Creates(f), NEW c \in Needs(f.input)
        PROVE  Lasting(c)' /\ GoesOn(f.no)'
    <3>1. f \in Line /\ fr.no < f.no
      BY <1>3, <2>8
    <3>2. Lasting(c) /\ GoesOn(f.no)
      BY <2>5, <2>8, <3>1
    <3>3. Continues(fr)
      BY <1>3, <3>1, <3>2 DEF GoesOn
    <3> QED
      BY <2>3, <2>4, <3>2, <3>3
  <2>9. Answerable'
    BY <2>7, <2>8 DEF Answerable
  <2>10. Fits(turn.frame)'
    <3>1. Once(fr.input)
      BY <1>3 DEF ContextInv
    <3>2. \A c \in Needs(fr.input) : Asks(c, replay)'
      BY <1>3, <2>2, <2>5
    <3> QED
      BY <2>1, <3>1, <3>2 DEF Fits, Once, Needs, Asks
  <2> QED
    BY <2>9, <2>10
<1>4. work' = "preparing" => ~End
  BY <1>1 DEF End
<1>5. End \/ \E fr \in Line : /\ Creates(fr) /\ fr \in Message /\ Begin(fr)
                              /\ \A f \in Line' : Creates(f) => f \in Line /\ fr.no < f.no
  BY <1>1, ServedFirst
<1> QED
  BY <1>2, <1>3, <1>4, <1>5

\* A call that the client learns was asked for by the response that ended well.
LEMMA Learnt ==
    ASSUME VerdictInv, Order, ContextInv, Relay, main \in {"receiving", "guarding"},
           NEW c \in known', c \notin known
    PROVE  Lasting(c)' /\ GoesOn(sent + 1)'
<1>1. /\ Typed /\ turn \in Turn /\ collected \in Seq(Call) /\ sent \in Nat
      /\ turn.frame.no = sent /\ turn.event.type \in OkVerdicts /\ work = "relaying"
      /\ c \in {i[2] : i \in ToSet(collected)}
      /\ work' = "streaming" /\ turn' = [turn EXCEPT !.first = TRUE]
      /\ UNCHANGED <<sent, inbox, buffered, turnVars>>
  BY Constants DEF VerdictInv, BridgeInv, Typed, DataTyped, SocketTyped, Relay
<1>2. Asks(c, collected)
  <2>1. PICK i \in DOMAIN collected : c = collected[i][2]
    BY <1>1 DEF ToSet
  <2>2. collected[i] = <<"call", c>>
    BY <1>1, <2>1, Elements DEF Call
  <2> QED
    BY <2>2 DEF Asks
<1>3. terminal \in OkVerdicts
  BY <1>1, Names DEF ContextInv, OkVerdicts
<1>4. Promised(c)'
  <2>1. turn'.first
    BY <1>1 DEF Turn
  <2>2. UNCHANGED <<terminal, collected>>
    BY <1>1 DEF turnVars
  <2> QED
    BY <1>1, <1>2, <1>3, <2>1, <2>2 DEF Promised, Asks
<1>5. turn.no > 0
  <2>1. turn.no \in Nat /\ ~Idle /\ records \in Nat
    BY <1>1 DEF Turn, Idle, Typed, DataTyped
  <2>2. main = "guarding"
    BY <1>1, <2>1 DEF VerdictInv, BridgeInv, Nested
  <2>3. records + 1 = turn.no
    BY <1>1, <2>2 DEF VerdictInv, Written
  <2> QED
    BY <2>1, <2>3
<1>6. \A f \in Line : Creates(f) => ~(f.no < sent + 1)
  BY <1>1, <1>5, LineIs
<1>7. GoesOn(sent + 1)'
  BY <1>1, <1>6 DEF GoesOn, Line
<1> QED
  BY <1>4, <1>7 DEF Lasting

\* The client goes on, or starts anew and forgets what it knew.
LEMMA SendAnswers ==
    ASSUME VerdictInv, Order, ContextInv, ClientSends
    PROVE  Answerable' /\ \A f \in Line' : Creates(f) => Once(f.input)
<1>1. /\ Typed /\ turn \in Turn /\ sent \in Nat /\ sent' = sent + 1 /\ sent + 1 \in 1..MaxFrames
      /\ known \subseteq 1..MaxFrames /\ inbox \in Seq(Message) /\ ~Receive /\ SocketTyped
      /\ UNCHANGED <<main, buffered>> /\ sent < MaxFrames
  <2>1. main # "ended" /\ Typed /\ turn \in Turn /\ SocketTyped
    BY DEF VerdictInv, BridgeInv, Typed, ClientSends
  <2>2. sent \in Nat /\ known \subseteq 1..MaxFrames /\ inbox \in Seq(Message)
    BY <2>1, Constants DEF SocketTyped
  <2>3. sent' = sent + 1 /\ UNCHANGED <<main, buffered>> /\ sent < MaxFrames
    BY DEF ClientSends
  <2>4. sent + 1 \in 1..MaxFrames
    BY <2>2, <2>3, Constants
  <2>5. ~Receive
    <3>1. sent' # sent
      BY <2>2, <2>3
    <3> QED
      BY <3>1 DEF Receive
  <2> QED
    BY <2>1, <2>2, <2>3, <2>4, <2>5
<1>2. \A c : main \in {"receiving", "guarding"} /\ Lasting(c) => Lasting(c)'
  BY <1>1, LastingKept DEF BridgeNext
<1>3. ASSUME NEW x \in Message, inbox' = Append(inbox, x)
      PROVE  \A f \in Line' : f \in Line \/ f = x
  <2>1. /\ DOMAIN inbox' = DOMAIN inbox \cup {Len(inbox) + 1} /\ inbox'[Len(inbox) + 1] = x
        /\ \A i \in DOMAIN inbox : inbox'[i] = inbox[i]
    BY <1>1, <1>3, Appended
  <2>2. \A f \in ToSet(inbox') : f \in ToSet(inbox) \/ f = x
    BY <2>1 DEF ToSet
  <2> QED
    BY <1>1, <2>2 DEF Line
<1>4. \A f \in Line : f.no \in Nat /\ f.no <= sent
  BY <1>1, LineIs DEF VerdictInv
<1>5. main \in {"receiving", "guarding"} =>
          /\ \A c \in known : Lasting(c) /\ GoesOn(sent + 1)
          /\ \A f \in Line : Creates(f) => \A c \in Needs(f.input) : Lasting(c) /\ GoesOn(f.no)
  BY DEF ContextInv, Answerable
\* A frame more does not come before those in line.
<1>6. ASSUME NEW x, x.no = sent + 1, \A f \in Line' : f \in Line \/ f = x, NEW n \in Nat,
             n <= sent + 1, GoesOn(n)
      PROVE  GoesOn(n)'
  <2>1. \A f \in Line' : f.no < n => f \in Line
    BY <1>1, <1>6
  <2> QED
    BY <1>6, <2>1 DEF GoesOn
\* The frames in line stay as they are.
<1>7. ASSUME NEW x, x.no = sent + 1, \A f \in Line' : f \in Line \/ f = x,
             main \in {"receiving", "guarding"},
             NEW f \in Line, Creates(f), NEW c \in Needs(f.input)
      PROVE  Lasting(c)' /\ GoesOn(f.no)'
  <2>1. Lasting(c) /\ GoesOn(f.no) /\ f.no \in Nat /\ f.no <= sent + 1
    BY <1>1, <1>4, <1>5, <1>7
  <2> QED
    BY <1>2, <1>6, <1>7, <2>1
<1>8. CASE \E f \in Frames : /\ inbox' = Append(inbox, f)
                             /\ known' = IF Continues(f) THEN known ELSE {}
  <2>1. PICK x \in Frames : /\ inbox' = Append(inbox, x)
                            /\ known' = IF Continues(x) THEN known ELSE {}
    BY <1>8
  <2>2. x \in Message
    BY <1>1, <2>1, FramesTyped
  <2>3. /\ Once(x.input) /\ Needs(x.input) \subseteq known /\ x.no = sent + 1
        /\ Needs(x.input) # {} => Continues(x)
    BY <1>1, <2>1, FramesFit
  <2>4. \A f \in Line' : f \in Line \/ f = x
    BY <1>3, <2>1, <2>2
  <2>5. \A f \in Line' : Creates(f) => Once(f.input)
    BY <2>3, <2>4 DEF ContextInv
  <2>6. ASSUME main \in {"receiving", "guarding"}, NEW c \in known'
        PROVE  Lasting(c)' /\ GoesOn(sent + 1)'
    <3>1. Continues(x) /\ c \in known
      BY <2>1, <2>6
    <3>2. Lasting(c) /\ GoesOn(sent + 1)
      BY <1>5, <2>6, <3>1
    <3>3. ASSUME NEW f \in Line', Creates(f)
          PROVE  Continues(f)
      <4>1. CASE f \in Line
        <5>1. f.no < sent + 1
          BY <1>1, <1>4, <4>1
        <5> QED
          BY <3>2, <3>3, <4>1, <5>1 DEF GoesOn
      <4> QED
        BY <2>4, <3>1, <4>1
    <3>4. GoesOn(sent + 1)'
      BY <3>3 DEF GoesOn
    <3> QED
      BY <1>2, <2>6, <3>2, <3>4
  <2>7. ASSUME main \in {"receiving", "guarding"}, NEW f \in Line', Creates(f),
               NEW c \in Needs(f.input)
        PROVE  Lasting(c)' /\ GoesOn(f.no)'
    <3>1. CASE f \in Line
      BY <1>7, <2>3, <2>4, <2>7, <3>1
    <3>2. CASE f = x
      <4>1. Lasting(c) /\ GoesOn(sent + 1) /\ f.no = sent + 1
        BY <1>5, <2>3, <2>7, <3>2
      <4>2. GoesOn(f.no)'
        BY <1>1, <1>6, <2>3, <2>4, <4>1
      <4> QED
        BY <1>2, <2>7, <4>1, <4>2
    <3> QED
      BY <2>4, <3>1, <3>2
  <2>8. Answerable'
    BY <1>1, <2>6, <2>7 DEF Answerable
  <2> QED
    BY <2>5, <2>8
<1>9. CASE inbox' = Append(inbox, [kind |-> "other", no |-> sent + 1]) /\ known' = known
  <2>1. PICK x : x = [kind |-> "other", no |-> sent + 1]
    OBVIOUS
  <2>2. x \in Message /\ x.no = sent + 1 /\ ~Creates(x) /\ inbox' = Append(inbox, x)
    BY <1>1, <1>9, <2>1 DEF Message, Creates
  <2>3. \A f \in Line' : f \in Line \/ f = x
    BY <1>3, <2>2
  <2>4. \A f \in Line' : Creates(f) => f \in Line /\ f.no < sent + 1
    BY <1>1, <1>4, <2>2, <2>3
  <2>5. \A f \in Line' : Creates(f) => Once(f.input)
    BY <2>4 DEF ContextInv
  <2>6. ASSUME main \in {"receiving", "guarding"}, NEW c \in known'
        PROVE  Lasting(c)' /\ GoesOn(sent + 1)'
    <3>1. Lasting(c) /\ GoesOn(sent + 1)
      BY <1>5, <1>9, <2>6
    <3>2. GoesOn(sent + 1)'
      BY <2>4, <3>1 DEF GoesOn
    <3> QED
      BY <1>2, <2>6, <3>1, <3>2
  <2>7. ASSUME main \in {"receiving", "guarding"}, NEW f \in Line', Creates(f),
               NEW c \in Needs(f.input)
        PROVE  Lasting(c)' /\ GoesOn(f.no)'
    <3>1. f \in Line
      BY <2>4, <2>7
    <3> QED
      BY <1>7, <2>2, <2>3, <2>7, <3>1
  <2>8. Answerable'
    BY <1>1, <2>6, <2>7 DEF Answerable
  <2> QED
    BY <2>5, <2>8
<1> QED
  BY <1>8, <1>9 DEF ClientSends

LEMMA AnswerableKept ==
    ASSUME VerdictInv, Order, ContextInv, BridgeNext
    PROVE  Answerable'
<1>1. CASE Receive
  BY <1>1, ReceiveAnswers
<1>2. CASE ClientSends
  BY <1>2, SendAnswers
<1>3. CASE main' \notin {"receiving", "guarding"}
  BY <1>3 DEF Answerable
<1>4. CASE ~Receive /\ ~ClientSends /\ main' \in {"receiving", "guarding"}
  <2>1. main \in {"receiving", "guarding"} /\ sent' = sent
    BY <1>4 DEF BridgeNext, ClientLeaves, IdleTimeout, End, Watch, Guard, Gather, Prepare,
       Answer, Take, Relay, FirstTimeout, Close, Retry, Emit, Upstream, Settle, Log, Tell,
       socketVars
  <2>2. \A f \in Line' : Creates(f) => f \in Line
    BY <1>4, LineShrinks DEF VerdictInv, BridgeInv
  <2>3. /\ \A c \in known : Lasting(c) /\ GoesOn(sent + 1)
        /\ \A f \in Line : Creates(f) => \A c \in Needs(f.input) : Lasting(c) /\ GoesOn(f.no)
    BY <2>1 DEF ContextInv, Answerable
  <2>4. \A c : Lasting(c) => Lasting(c)'
    BY <1>4, LastingKept
  <2>5. \A n : GoesOn(n) => GoesOn(n)'
    BY <2>2 DEF GoesOn
  <2>6. GoesOn(sent + 1) => GoesOn(sent + 1)'
    BY <2>1, <2>2 DEF GoesOn
  <2>7. known' = known \/ Relay
    BY <1>4 DEF BridgeNext, ClientLeaves, IdleTimeout, End, Watch, Guard, Gather, Prepare,
       Answer, Take, FirstTimeout, Close, Retry, Emit, Upstream, Settle, Log, Tell, socketVars
  <2>8. ASSUME NEW c \in known'
        PROVE  Lasting(c)' /\ GoesOn(sent + 1)'
    <3>1. CASE c \in known
      BY <2>3, <2>4, <2>6, <3>1
    <3>2. CASE c \notin known
      BY <2>1, <2>7, <2>8, <3>2, Learnt
    <3> QED
      BY <3>1, <3>2
  <2>9. \A f \in Line' : Creates(f) =>
            \A c \in Needs(f.input) : Lasting(c)' /\ GoesOn(f.no)'
    BY <2>2, <2>3, <2>4, <2>5
  <2> QED
    BY <2>8, <2>9 DEF Answerable
<1> QED
  BY <1>1, <1>2, <1>3, <1>4

LEMMA ContextInvKept ==
    ASSUME VerdictInv, Order, ContextInv, BridgeNext
    PROVE  ContextInv'
<1>1. /\ Typed /\ turn \in Turn /\ collected \in Seq(Call) /\ Nested
      /\ replay \in Seq(Input) /\ pending \in Seq(Input)
      /\ InContext(replay) /\ InContext(pending)
  BY DEF VerdictInv, BridgeInv, Typed, DataTyped, ContextInv
<1>2. pending' \in Seq(Input) /\ InContext(pending)'
  <2>1. CASE Prepare
    <3>1. work = "preparing" /\ pending' = Prepared(turn.frame)
      BY <2>1 DEF Prepare
    <3>2. turn.frame \in Message /\ turn.frame.kind = "create"
      BY <1>1, <3>1 DEF Nested, Idle
    <3>3. turn.frame.input \in Seq(Input) /\ Fits(turn.frame)
      BY <3>1, <3>2 DEF Message, ContextInv
    <3>4. Prepared(turn.frame) \in Seq(Input) /\ InContext(Prepared(turn.frame))
      BY <1>1, <3>3, PreparedKeeps DEF Fits
    <3> QED
      BY <3>1, <3>4 DEF InContext, FollowsBut, Once
  <2>2. CASE pending' = pending
    BY <1>1, <2>2 DEF InContext, FollowsBut, Once
  <2> QED
    BY <2>1, <2>2 DEF BridgeNext, ClientSends, ClientLeaves, Receive, IdleTimeout, Watch, Guard,
       Gather, Answer, Take, Relay, FirstTimeout, Close, Retry, Emit, Upstream, Settle, Log,
       Tell, turnVars
<1>3. replay' \in Seq(Input) /\ InContext(replay)'
  <2>1. CASE replay' = Committed
    <3>1. Committed \in Seq(Input) /\ InContext(Committed)
      BY <1>1, CommittedKeeps
    <3> QED
      BY <2>1, <3>1 DEF InContext, FollowsBut, Once
  <2>2. CASE replay' = replay
    BY <1>1, <2>2 DEF InContext, FollowsBut, Once
  <2> QED
    BY <2>1, <2>2 DEF BridgeNext, ClientSends, ClientLeaves, Receive, IdleTimeout, Watch, Guard,
       Gather, Prepare, Answer, Take, Relay, FirstTimeout, Close, Retry, Emit, Upstream, Settle,
       Log, Tell, turnVars
<1>4. \A f \in Line' : Creates(f) => Once(f.input)
  <2>1. CASE ClientSends
    BY <2>1, SendAnswers
  <2>2. CASE ~ClientSends
    BY <1>1, <2>2, LineShrinks DEF ContextInv
  <2> QED
    BY <2>1, <2>2
<1>5. work' = "preparing" => Fits(turn.frame)'
  <2>1. CASE Receive
    BY <2>1, ReceiveAnswers
  <2>2. CASE ~Receive /\ work' = "preparing"
    <3>1. work = "preparing" /\ replay' = replay
      BY <2>2 DEF BridgeNext, ClientSends, ClientLeaves, IdleTimeout, End, Watch, Guard,
         Gather, Prepare, Answer, Take, Relay, FirstTimeout, Close, Retry, Emit, Upstream,
         Settle, Log, Tell, Stop, Leave, turnVars
    <3>2. turn'.frame = turn.frame
      BY <1>1, <2>2, SameTurn
    <3>3. Once(turn.frame.input) /\ \A c \in Needs(turn.frame.input) : Asks(c, replay)
      BY <3>1 DEF ContextInv, Fits
    <3>4. Once(turn.frame.input)'
      BY <3>2, <3>3 DEF Once
    <3>5. \A c \in Needs(turn.frame.input)' : c \in Needs(turn.frame.input)
      BY <3>2 DEF Needs
    <3>6. \A c \in Needs(turn.frame.input)' : Asks(c, replay)'
      BY <3>1, <3>3, <3>5 DEF Asks
    <3> QED
      BY <3>4, <3>6 DEF Fits
  <2> QED
    BY <2>1, <2>2
<1>6. work' = "relaying" /\ turn'.event.type \in Verdicts => terminal' = turn'.event.type
  <2>1. CASE Take
    <3>1. CASE Head(queue).type \notin {"eof", "broken"}
      <4>1. turn'.event = Head(queue)
        BY <1>1, <2>1, <3>1 DEF Take, Turn
      <4> QED
        BY <2>1, <3>1, <4>1 DEF Take, Handle
    <3>2. CASE Head(queue).type \in {"eof", "broken"}
      BY <2>1, <3>2 DEF Take, Stop
    <3> QED
      BY <3>1, <3>2
  <2>2. CASE UNCHANGED <<work, turn, terminal>>
    BY <2>2 DEF ContextInv
  <2>3. CASE work' # "relaying"
    BY <2>3
  <2> QED
    BY <2>1, <2>2, <2>3
    DEF BridgeNext, ClientSends, ClientLeaves, Receive, Begin, End, IdleTimeout, Watch, Guard,
        Gather, Prepare, Answer, Relay, FirstTimeout, Close, Retry, Emit, Upstream, Settle,
        Log, Tell, Stop, Leave, turnVars
<1>7. Answerable'
  BY AnswerableKept
<1> QED
  BY <1>2, <1>3, <1>4, <1>5, <1>6, <1>7 DEF ContextInv

-----------------------------------------------------------------------------
(* What the client is promised.                                            *)

\* What a turn that is cancelled may still be doing.
Cancelling ==
    main = "gathering" => work = "done" \/ (work = "closing" /\ turn.status = "cancelled")

LEMMA CancellingKept ==
    ASSUME turn \in Turn, Nested, Cancelling, BridgeNext
    PROVE  Cancelling'
<1>1. CASE main' # "gathering"
  BY <1>1 DEF Cancelling
<1>2. CASE Guard /\ main' = "gathering"
  <2>1. CASE work' = "done"
    BY <2>1 DEF Cancelling
  <2>2. CASE work' = "closing" /\ turn' = [turn EXCEPT !.status = "cancelled"]
    <3>1. turn'.status = "cancelled"
      BY <2>2 DEF Turn
    <3> QED
      BY <2>2, <3>1 DEF Cancelling
  <2> QED
    BY <1>2, <2>1, <2>2 DEF Guard
<1>3. CASE main = "gathering" /\ main' = "gathering"
  <2>1. work = "done" \/ (work = "closing" /\ turn.status = "cancelled")
    BY <1>3 DEF Cancelling
  <2>2. CASE UNCHANGED <<work, turn>>
    BY <2>1, <2>2 DEF Cancelling
  <2>3. CASE work' = "done"
    BY <2>3 DEF Cancelling
  <2> QED
    BY <1>3, <2>1, <2>2, <2>3
    DEF BridgeNext, ClientSends, ClientLeaves, Receive, IdleTimeout, Watch, Guard, Gather, End,
        Prepare, Answer, Take, Relay, FirstTimeout, Close, Retry, Emit, Upstream, Settle, Log,
        Tell, Leave
<1> QED
  BY <1>1, <1>2, <1>3
  DEF BridgeNext, ClientSends, ClientLeaves, Receive, Begin, End, IdleTimeout, Watch, Gather,
      Prepare, Answer, Take, Relay, FirstTimeout, Close, Retry, Emit, Upstream, Settle, Log, Tell

\* A frame more for the client, while its turn has no verdict.
LEMMA FrameTold ==
    ASSUME VerdictInv, Cancelling, BridgeNext,
           NEW x \in Item, got' = Append(got, x),
           main = "guarding", main' = main, turn'.no = turn.no, turn'.frame = turn.frame,
           Final = {},
           \/ x.type = "error"
           \/ x.no = Len(got) + 1 /\ \A i \in DOMAIN got : got[i].attempt = x.attempt
    PROVE  Promise!Tell
<1>1. got \in Seq(Item) /\ Len(got) \in Nat
  BY DEF VerdictInv, BridgeInv, Typed, DataTyped
<1>2. Phase = "serving" /\ Phase' = Phase /\ Request' = Request
  BY DEF Phase, Request
<1>3. ~Promise!Ended
  <2>1. SUFFICES ASSUME got # <<>>, got[Len(got)].type \in Verdicts \cup {"error"} PROVE FALSE
    BY DEF Promise!Ended, Promise!Last
  <2>2. Len(got) \in DOMAIN got
    BY <1>1, <2>1
  <2> QED
    BY <2>1, <2>2 DEF Final
<1>4. got' # <<>> /\ Promise!Last(got') = x
  BY <1>1, Appended DEF Promise!Last
<1>5. Promise!Follows(x)
  BY DEF Promise!Follows
<1> QED
  BY <1>2, <1>3, <1>4, <1>5 DEF Promise!Tell

\* A step of the bridge is a step of Turns, or changes nothing there.
LEMMA PromiseKept ==
    ASSUME VerdictInv, Order, Cancelling, [BridgeNext]_bridgeVars
    PROVE  [Promise!TurnsNext]_(Promise!turnsVars)
<1>1. /\ Typed /\ turn \in Turn /\ turn.no \in Nat /\ got \in Seq(Item) /\ Len(got) \in Nat
      /\ Nested /\ Relayed
  BY DEF VerdictInv, BridgeInv, Typed, DataTyped, Turn, Flow
<1>2. CASE UNCHANGED <<main, got>> /\ turn'.no = turn.no /\ turn'.frame = turn.frame
  BY <1>2 DEF Promise!turnsVars, Phase, Request
<1>3. CASE UNCHANGED bridgeVars
  BY <1>2, <1>3 DEF bridgeVars
<1>4. BridgeNext /\ ~Receive => turn'.no = turn.no /\ turn'.frame = turn.frame
  BY <1>1, SameTurn
<1>5. ASSUME main \in {"receiving", "guarding"}, main' \notin {"receiving", "guarding"},
             got' = got, turn'.no = turn.no, turn'.frame = turn.frame
      PROVE  Promise!GiveUp
  BY <1>5 DEF Promise!GiveUp, Phase, Request
<1>6. CASE Receive
  <2>1. CASE End
    BY <1>5, <1>6, <2>1 DEF Receive, End, Promise!TurnsNext
  <2>2. ASSUME NEW fr \in Message, fr.kind = "create", Begin(fr)
        PROVE  Promise!Serve
    <3>1. turn'.no = turn.no + 1 /\ turn'.frame = fr
      BY <1>1, <2>2, BegunTurn
    <3>2. fr.no \in Nat /\ fr.no > 0 /\ turn'.no > turn.no
      BY <1>1, <2>2, <3>1, Constants DEF Message
    <3>3. turn.no > 0 => turn'.frame.no > turn.frame.no
      BY <1>1, <1>6, <3>2, NextInOrder DEF BridgeNext
    <3>4. Request' = fr.no
      BY <1>1, <3>1 DEF Request
    <3>5. Request' > Request
      BY <1>1, <3>1, <3>2, <3>3, <3>4 DEF Request
    <3>6. Phase = "open" /\ Phase' = "serving" /\ got' = <<>>
      BY <1>6, <2>2 DEF Receive, Begin, Phase
    <3> QED
      BY <3>5, <3>6 DEF Promise!Serve
  <2> QED
    BY <1>1, <1>6, <2>1, <2>2, Received DEF Promise!TurnsNext
<1>7. CASE IdleTimeout
  <2>1. Promise!GiveUp
    BY <1>5, <1>7 DEF IdleTimeout, End
  <2> QED
    BY <2>1 DEF Promise!TurnsNext
<1>8. CASE Guard
  <2>1. /\ main = "guarding" /\ got' = got /\ turn'.no = turn.no /\ turn'.frame = turn.frame
    BY <1>4, <1>8 DEF Guard, BridgeNext, Receive
  <2>2. CASE main' \in {"gathering", "ended"}
    BY <1>5, <2>1, <2>2 DEF Promise!TurnsNext
  <2>3. CASE main' = "receiving" /\ work = "done" /\ turn.keep
    <3>1. Final # {} /\ \A i \in Final : i = Len(got)
      BY <2>1, <2>3 DEF VerdictInv, Written, Judged
    <3>2. Promise!Ended
      <4>1. Len(got) \in DOMAIN got /\ got[Len(got)].type \in Verdicts \cup {"error"}
        BY <3>1 DEF Final
      <4>2. got # <<>>
        BY <4>1, Empty
      <4> QED
        BY <4>1, <4>2 DEF Promise!Ended, Promise!Last
    <3>3. Promise!Finish
      BY <2>1, <2>3, <3>2 DEF Promise!Finish, Phase, Request
    <3> QED
      BY <3>3 DEF Promise!TurnsNext
  <2> QED
    BY <1>8, <2>2, <2>3 DEF Guard
<1>9. CASE Gather
  <2>1. main = "gathering" /\ main' = "ended" /\ got' = got /\ turn' = turn
    BY <1>9 DEF Gather, End
  <2> QED
    BY <2>1 DEF Promise!turnsVars, Phase, Request
\* The steps that tell the client something.
<1>10. ASSUME work \in {"preparing", "relaying", "telling"}
       PROVE  main = "guarding"
  BY <1>1, <1>10 DEF Nested, Idle, Cancelling, Typed, StageTyped
<1>11. Mark("error") \in Item /\ Mark("error").type = "error"
  BY <1>1, Marks DEF Mark
<1>12. CASE Prepare
  <2>1. work = "preparing" /\ main' = main /\ ~Receive /\ BridgeNext
    BY <1>12, <1>10 DEF Prepare, BridgeNext, Receive
  <2>2. CASE got' = got
    BY <1>2, <1>4, <2>1, <2>2
  <2>3. CASE got' = <<Mark("error")>>
    <3>1. got = <<>> /\ Final = {}
      BY <1>1, <2>1, FinalEvents DEF Relayed, Idle
    <3>2. got' = Append(got, Mark("error"))
      BY <2>3, <3>1
    <3>3. Promise!Tell
      BY <1>4, <1>10, <1>11, <2>1, <3>1, <3>2, FrameTold
    <3> QED
      BY <3>3 DEF Promise!TurnsNext
  <2> QED
    BY <1>12, <2>2, <2>3 DEF Prepare
<1>13. CASE Relay
  <2>1. work = "relaying" /\ main' = main /\ ~Receive /\ BridgeNext
    BY <1>13, <1>10 DEF Relay, BridgeNext, Receive
  <2>2. CASE got' = got
    BY <1>2, <1>4, <2>1, <2>2
  <2>3. CASE got' = Append(got, turn.event)
    <3>1. /\ InFlow /\ ~Idle /\ turn.event \in Item /\ Taken = Len(got) + 1 /\ Taken <= emitted
          /\ Placed(turn.event, Taken, turn.attempt) /\ emitted \in Nat
      BY <1>1, <2>1, Constants
      DEF InFlow, Idle, Nested, Taken, VerdictInv, BridgeInv, Flow, Queued, Typed, StreamTyped
    <3>2. Final = {}
      <4>1. SUFFICES ASSUME NEW i \in DOMAIN got, got[i].type \in Verdicts PROVE FALSE
        BY <1>1, <3>1, FinalEvents DEF Final
      <4>2. i = emitted /\ i <= Len(got)
        BY <1>1, <3>1, <4>1, Elements DEF VerdictInv, Ending, Closes
      <4> QED
        BY <1>1, <3>1, <4>2
    <3>3. /\ turn.event.no = Len(got) + 1
          /\ \A i \in DOMAIN got : got[i].attempt = turn.event.attempt
      BY <1>1, <3>1 DEF Relayed, Placed
    <3>4. Promise!Tell
      BY <1>4, <1>10, <2>1, <2>3, <3>1, <3>2, <3>3, FrameTold
    <3> QED
      BY <3>4 DEF Promise!TurnsNext
  <2> QED
    BY <1>13, <2>2, <2>3 DEF Relay
<1>14. CASE Tell
  <2>1. work = "telling" /\ main' = main /\ ~Receive /\ BridgeNext
    BY <1>14, <1>10 DEF Tell, BridgeNext, Receive
  <2>2. CASE got' = got
    BY <1>2, <1>4, <2>1, <2>2
  <2>3. CASE got' = Append(got, Mark("error"))
    <3>1. Final = {}
      BY <2>1 DEF VerdictInv, Judged
    <3>2. Promise!Tell
      BY <1>4, <1>10, <1>11, <2>1, <2>3, <3>1, FrameTold
    <3> QED
      BY <3>2 DEF Promise!TurnsNext
  <2> QED
    BY <1>14, <2>2, <2>3 DEF Tell
<1>15. CASE \/ ClientSends \/ ClientLeaves \/ Watch \/ Answer \/ Take \/ FirstTimeout
            \/ Close \/ Retry \/ Emit \/ Upstream \/ Settle \/ Log
  <2>1. UNCHANGED <<main, got>>
    BY <1>15 DEF ClientSends, ClientLeaves, Watch, Answer, Take, FirstTimeout, Close, Retry,
       Emit, Upstream, Settle, Log
  <2>2. CASE ~Receive
    BY <1>2, <1>4, <1>15, <2>1, <2>2 DEF BridgeNext
  <2> QED
    BY <1>6, <2>2
<1> QED
  BY <1>3, <1>6, <1>7, <1>8, <1>9, <1>12, <1>13, <1>14, <1>15 DEF BridgeNext

-----------------------------------------------------------------------------
(* The theorems.                                                           *)

LEMMA NextKeeps ==
    ASSUME BridgeInv, [BridgeNext]_bridgeVars
    PROVE  BridgeInv'
<1>1. CASE BridgeNext
  <2>1. Typed'
    BY <1>1, SocketKept, StageKept, StreamKept, TurnKept, DataKept DEF BridgeInv, Typed
  <2>2. Nested' /\ Relayed' /\ Queued' /\ FramesOfOneResponse'
    BY <1>1, NestedKept, RelayedKept, QueuedKept, FramesKept DEF BridgeInv, Flow
  <2>3. QED
    BY <2>1, <2>2 DEF BridgeInv, Flow
<1>2. CASE UNCHANGED bridgeVars
  <2>1. Typed' /\ Nested'
    BY <1>2 DEF BridgeInv, Typed, SocketTyped, StageTyped, StreamTyped, DataTyped, Nested,
                Idle, bridgeVars
  <2>2. Relayed' /\ Queued' /\ FramesOfOneResponse'
    BY <1>2 DEF BridgeInv, Flow, Relayed, Queued, QueueInLine, InFlow, Taken, Idle,
                FramesOfOneResponse, bridgeVars
  <2>3. QED
    BY <2>1, <2>2 DEF BridgeInv, Flow
<1>3. QED
  BY <1>1, <1>2

\* In every reachable state the events of the attempt in progress are in their
\* places, in what the client got, in the queue and in the producer's hands.
THEOREM BridgeInvariant == BridgeSpec => []BridgeInv
<1>1. BridgeInit => BridgeInv
  BY InitHolds
<1>2. BridgeInv /\ [BridgeNext]_bridgeVars => BridgeInv'
  BY NextKeeps
<1>3. QED
  BY <1>1, <1>2, PTL DEF BridgeSpec

\* Every variable of the bridge keeps to its type.
THEOREM BridgeTypeCorrect == BridgeSpec => []BridgeTypeOK
<1>1. BridgeInv => BridgeTypeOK
  <2>1. SUFFICES ASSUME BridgeInv PROVE BridgeTypeOK
    OBVIOUS
  <2>2. SocketTyped /\ StageTyped /\ StreamTyped /\ turn \in Turn /\ DataTyped
    BY <2>1 DEF BridgeInv, Typed
  <2>3. turn.attempt \in 0..(Retries + 1)
    BY <2>2 DEF Turn
  <2>4. over \in BOOLEAN
    BY <2>2 DEF StageTyped
  <2>5. QED
    BY <2>2, <2>3, <2>4
    DEF BridgeTypeOK, SocketTyped, StageTyped, StreamTyped, DataTyped
<1>2. QED
  BY <1>1, BridgeInvariant, PTL

\* The client gets the events of one attempt, from the first on, in order and
\* without a gap, then at most one error frame: a retry never follows an event
\* (_run_turn_inner, _consume_stream).
THEOREM FramesInOrder == BridgeSpec => []FramesOfOneResponse
<1>1. BridgeInv => FramesOfOneResponse
  BY DEF BridgeInv
<1>2. QED
  BY <1>1, BridgeInvariant, PTL

\* When run has returned no turn runs on and no producer reads the upstream
\* (the finally of _run_turn_guarded and that of _consume_stream).
THEOREM NothingIsLeftBehind == BridgeSpec => []NothingOutlives
<1>1. BridgeInv => NothingOutlives
  BY DEF BridgeInv, Nested, Idle, NothingOutlives
<1>2. QED
  BY <1>1, BridgeInvariant, PTL

\* Where the verdict of a response is in every reachable state.
LEMMA Verdicted ==
    ASSUME ~LateErrors
    PROVE  BridgeSpec => []VerdictInv
<1>1. BridgeInit => VerdictInv
  <2>1. SUFFICES ASSUME BridgeInit PROVE VerdictInv
    OBVIOUS
  <2>2. Final = {} /\ turn.no = 0
    BY <2>1, Empty DEF BridgeInit, Final, NoTurn
  <2>3. QED
    <3>1. BridgeInv
      BY <2>1, InitHolds
    <3>2. Ending /\ Judged
      BY <2>1, <2>2 DEF BridgeInit, Ending, Judged, InFlow
    <3>3. Written
      BY <2>1, <2>2 DEF BridgeInit, Written
    <3>4. QED
      BY <3>1, <3>2, <3>3 DEF VerdictInv
<1>2. VerdictInv /\ [BridgeNext]_bridgeVars => VerdictInv'
  <2>1. SUFFICES ASSUME VerdictInv, [BridgeNext]_bridgeVars PROVE VerdictInv'
    OBVIOUS
  <2>2. BridgeInv'
    BY <2>1, NextKeeps DEF VerdictInv
  <2>3. CASE BridgeNext
    BY <2>1, <2>2, <2>3, EndingKept, JudgedKept, WrittenKept DEF VerdictInv
  <2>4. CASE UNCHANGED bridgeVars
    <3>1. Ending' /\ Judged' /\ Written'
      BY <2>1, <2>4 DEF VerdictInv, Ending, Judged, Written, InFlow, Taken, Final, bridgeVars
    <3>2. QED
      BY <2>2, <3>1 DEF VerdictInv
  <2>5. QED
    BY <2>1, <2>3, <2>4
<1>3. QED
  BY <1>1, <1>2, PTL DEF BridgeSpec

\* The frames are in order in every reachable state.
LEMMA Ordered == BridgeSpec => []Order
<1>1. BridgeInit => Order
  BY Empty DEF BridgeInit, NoTurn, Order, Rising
<1>2. Typed /\ Order /\ [BridgeNext]_bridgeVars => Order'
  <2>1. SUFFICES ASSUME Typed, Order, [BridgeNext]_bridgeVars PROVE Order'
    OBVIOUS
  <2>2. CASE BridgeNext
    BY <2>1, <2>2, OrderKept
  <2>3. CASE UNCHANGED bridgeVars
    BY <2>1, <2>3 DEF Order, bridgeVars
  <2>4. QED
    BY <2>1, <2>2, <2>3
<1>3. BridgeInv => Typed
  BY DEF BridgeInv
<1>4. QED
  BY <1>1, <1>2, <1>3, BridgeInvariant, PTL DEF BridgeSpec

\* Unless the upstream fails after its terminal event, no turn has two verdicts,
\* and one that leaves the connection open told one and wrote its record
\* (_handle_event, _consume_stream, _run_turn_inner).
THEOREM OneVerdictPerTurn ==
    ASSUME ~LateErrors
    PROVE  BridgeSpec => []OneVerdict
<1>1. VerdictInv => OneVerdict
  BY DEF VerdictInv, Judged, Written, OneVerdict
<1>2. QED
  BY <1>1, Verdicted, PTL

\* Every turn serves a frame that the client sent after that of the turn before,
\* whatever the watcher kept or dropped meanwhile (run, _watch_disconnect).
THEOREM TurnsFollowFrames == BridgeSpec => TurnsInOrder
<1>1. Typed /\ Order /\ [BridgeNext]_bridgeVars =>
          [turn'.no > turn.no /\ turn.no > 0 => turn'.frame.no > turn.frame.no]_bridgeVars
  BY NextInOrder
<1>2. BridgeInv => Typed
  BY DEF BridgeInv
<1>3. QED
  BY <1>1, <1>2, Ordered, BridgeInvariant, PTL DEF BridgeSpec, TurnsInOrder

\* Unless the upstream fails after its terminal event, the input of a request
\* has every output behind its call, and no call and no output twice: what the
\* client answers is in the replay when its frame is served, whichever turns
\* failed, were dropped or began anew meanwhile (_prepare_turn_payload,
\* _commit_replay, _merge_replay_items, _dedup_context).
THEOREM ContextIsKept ==
    ASSUME ~LateErrors
    PROVE  BridgeSpec => []ContextKept
<1>1. BridgeInit => ContextInv
  <2>1. SUFFICES ASSUME BridgeInit PROVE ContextInv
    OBVIOUS
  <2>2. /\ replay = <<>> /\ pending = <<>> /\ known = {} /\ work = "off"
        /\ inbox = <<>> /\ buffered = <<>>
    BY <2>1 DEF BridgeInit
  <2>3. <<>> \in Seq(Input) /\ DOMAIN <<>> = {}
    BY Empty
  <2>4. InContext(replay) /\ InContext(pending)
    BY <2>2, <2>3 DEF InContext, FollowsBut, Once
  <2>5. Line = {}
    BY <2>2, <2>3 DEF Line, ToSet
  <2>6. QED
    BY <2>2, <2>3, <2>4, <2>5 DEF ContextInv, Answerable
<1>2. VerdictInv /\ Order /\ ContextInv /\ [BridgeNext]_bridgeVars => ContextInv'
  <2>1. SUFFICES ASSUME VerdictInv, Order, ContextInv, [BridgeNext]_bridgeVars
                 PROVE  ContextInv'
    OBVIOUS
  <2>2. CASE BridgeNext
    BY <2>1, <2>2, ContextInvKept
  <2>3. CASE UNCHANGED bridgeVars
    <3>1. UNCHANGED <<inbox, sent, known, buffered, main, work, turn, terminal, collected,
                      replay, pending>>
      BY <2>3 DEF bridgeVars
    <3>2. InContext(replay)' /\ InContext(pending)'
      BY <2>1, <3>1 DEF ContextInv, InContext, FollowsBut, Once
    <3>3. Line' = Line
      BY <3>1 DEF Line
    <3>4. \A c : Lasting(c) => Lasting(c)'
      BY <3>1 DEF Lasting, Promised, Asks, Continues
    <3>5. /\ \A n : GoesOn(n) => GoesOn(n)'
          /\ GoesOn(sent + 1) => GoesOn(sent + 1)'
      BY <3>1, <3>3 DEF GoesOn
    <3>6. Answerable'
      BY <2>1, <3>1, <3>3, <3>4, <3>5 DEF ContextInv, Answerable
    <3>7. Fits(turn.frame) => Fits(turn.frame)'
      BY <3>1 DEF Fits, Once, Needs, Asks
    <3>8. QED
      BY <2>1, <3>1, <3>2, <3>3, <3>6, <3>7 DEF ContextInv
  <2>4. QED
    BY <2>1, <2>2, <2>3
<1>3. ContextInv => ContextKept
  <2>1. SUFFICES ASSUME InContext(pending) PROVE ContextKept
    BY DEF ContextInv
  <2>2. QED
    BY <2>1 DEF InContext, FollowsBut, Once, ContextKept
<1>4. QED
  BY <1>1, <1>2, <1>3, Verdicted, Ordered, PTL DEF BridgeSpec

\* Unless the upstream fails after its terminal event, a connection implements
\* Turns: answers in the order of the requests, each one response up to its
\* verdict, and nothing once the client was seen to leave (run, _run_turn_guarded).
THEOREM TurnsArePromised ==
    ASSUME ~LateErrors
    PROVE  BridgeSpec => TurnsAsPromised
<1>1. BridgeInit => Cancelling /\ Promise!TurnsInit
  BY DEF BridgeInit, Cancelling, Promise!TurnsInit, Phase, Request, NoTurn
<1>2. VerdictInv /\ Cancelling /\ [BridgeNext]_bridgeVars => Cancelling'
  <2>1. SUFFICES ASSUME VerdictInv, Cancelling, [BridgeNext]_bridgeVars PROVE Cancelling'
    OBVIOUS
  <2>2. CASE BridgeNext
    BY <2>1, <2>2, CancellingKept DEF VerdictInv, BridgeInv, Typed
  <2>3. CASE UNCHANGED bridgeVars
    BY <2>1, <2>3 DEF Cancelling, bridgeVars
  <2>4. QED
    BY <2>1, <2>2, <2>3
<1>3. VerdictInv /\ Order /\ Cancelling /\ [BridgeNext]_bridgeVars =>
          [Promise!TurnsNext]_(Promise!turnsVars)
  BY PromiseKept
<1>4. QED
  BY <1>1, <1>2, <1>3, Verdicted, Ordered, PTL
  DEF BridgeSpec, TurnsAsPromised, Promise!TurnsSpec
=============================================================================

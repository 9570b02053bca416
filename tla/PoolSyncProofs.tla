--------------------------- MODULE PoolSyncProofs ---------------------------
(***************************************************************************)
(* Proofs about the synchronisation of one upstream URL, for any adapters, *)
(* keys, groups and static pool, and any number of rotations.              *)
(*                                                                         *)
(* The properties of PoolSync speak of the moments between two calls.  The *)
(* invariant says what is true while a call is waiting for the provider:   *)
(* the pool still serves what was synced last (Serving), the state file is *)
(* only behind a call that will save when it ends (Written), and a call    *)
(* works on the source that is there, with its session (OneCall).          *)
(***************************************************************************)
EXTENDS PoolSync, FiniteSetTheorems, TLAPS

Pool == [there : BOOLEAN, keys : SUBSET Keys, rejected : SUBSET Groups]

Call == [kind : {"none", "down", "connect", "sync", "catalog", "create", "clear", "auto"},
         stage : {"none", "login", "fetch", "write", "catalog"},
         source : Ids, session : 0 .. MaxRotations, groups : SUBSET Groups]

Check == [there : BOOLEAN, source : Ids, keys : SUBSET Keys, renewed : SUBSET Keys,
          gone : BOOLEAN]

\* A URL has one source at most, whose session was not issued later than now.
Owned(ss, token) ==
    /\ ss \in [DOMAIN ss -> Source] /\ DOMAIN ss \subseteq Ids
    /\ \A s, t \in DOMAIN ss : s = t
    /\ \A s \in DOMAIN ss : ss[s].session <= token

Settled(ss) == [s \in DOMAIN ss |-> [ss[s] EXCEPT !.rejected = {}]]

Typed ==
    /\ Owned(sources, remote.token) /\ Owned(disk.sources, remote.token)
    /\ pool \in Pool /\ cooled \subseteq pool.keys
    /\ dirty \in BOOLEAN /\ interval \in BOOLEAN /\ disk.interval \in BOOLEAN
    /\ task \in {"none", "sleeping", "syncing"}
    /\ op \in Call /\ op.session <= remote.token
    /\ check \in Check
    /\ remote \in [keys : SUBSET Keys, token : 0 .. MaxRotations]

\* A call that waits works for a connection and, once it is logged in, on the
\* one source there is.
OneCall ==
    /\ op.stage = "none" => op \in {NoOp, Down}
    /\ op = Down => sources = <<>> /\ pool = NoPool
    /\ op.kind = "auto" => op.stage = "fetch"
    /\ op.stage # "none" =>
          /\ op.source \in Online
          /\ InPlace => op.session = IF op.source \in DOMAIN sources
                                     THEN sources[op.source].session ELSE 0
    /\ op.stage \in {"fetch", "write", "catalog"} => op.source \in DOMAIN sources
    /\ task = "syncing" <=> op.kind = "auto"

Serving ==
    op # Down =>
        /\ \A s \in DOMAIN sources : sources[s].synced => pool = PoolFrom(sources[s])
        /\ DOMAIN sources = {} => pool = StaticPool

Written ==
    op # Down =>
        /\ disk.interval = interval
        /\ op.stage \in {"none", "login"} =>
              /\ Settled(disk.sources) = Settled(sources)
              /\ ~dirty => disk.sources = sources

Checked ==
    /\ check.there \/ check = NoCheck
    /\ check.there /\ ~check.gone => check.source \in DOMAIN sources

SyncInv == Typed /\ OneCall /\ Serving /\ Written /\ Checked

-----------------------------------------------------------------------------
(* The data.                                                               *)

LEMMA Constants ==
    /\ Manual \notin Online /\ Manual \in Ids /\ Online \subseteq Ids
    /\ GroupOf \in [Keys -> Groups] /\ Static \subseteq Keys
    /\ MaxRotations \in Nat
BY PoolSyncAssumption DEF Ids

LEMMA PoolTypes ==
    /\ StaticPool \in Pool /\ NoPool \in Pool
    /\ \A source \in Source : PoolFrom(source) \in Pool
BY Constants DEF Pool, StaticPool, NoPool, PoolFrom, Source, Allowed

LEMMA Calls ==
    /\ NoOp \in Call /\ NoOp.session = 0 /\ NoOp.stage = "none" /\ NoOp.kind = "none"
    /\ NoOp.source = Manual
    /\ Down \in Call /\ Down.session = 0 /\ Down.stage = "none" /\ Down.kind = "down"
    /\ Down.source = Manual
    /\ NoOp # Down /\ NoCheck \in Check /\ ~NoCheck.there
BY Constants DEF NoOp, Down, Call, NoCheck, Check

\* What a pool is made of does not depend on the session.
LEMMA PoolOfSession ==
    ASSUME NEW a \in Source, NEW b \in Source,
           a.entries = b.entries, a.disabled = b.disabled, a.failing = b.failing,
           a.rejected = b.rejected
    PROVE  PoolFrom(a) = PoolFrom(b)
BY DEF PoolFrom, Allowed

LEMMA NoSources == Owned(<<>>, 0) /\ DOMAIN <<>> = {}
BY DEF Owned

LEMMA OwnedLater ==
    ASSUME NEW ss, NEW a \in Nat, NEW b \in Nat, a <= b, Owned(ss, a)
    PROVE  Owned(ss, b)
BY DEF Owned, Source

\* The source replaces what the URL had.
LEMMA PutOwned ==
    ASSUME NEW s \in Ids, NEW source \in Source, NEW token \in Nat,
           source.session <= token, DOMAIN sources \subseteq {s}
    PROVE  /\ Owned(Put(s, source), token)
           /\ DOMAIN Put(s, source) = {s} /\ Put(s, source)[s] = source
BY DEF Owned, Put

\* Only the session of a source changes.
LEMMA SessionOnly ==
    ASSUME NEW s \in DOMAIN sources, NEW token \in 0 .. MaxRotations,
           NEW now \in 0 .. MaxRotations, token <= now, Owned(sources, now),
           sources' = [sources EXCEPT ![s].session = token]
    PROVE  /\ Owned(sources', now) /\ DOMAIN sources' = DOMAIN sources
           /\ \A t \in DOMAIN sources : /\ sources'[t].synced = sources[t].synced
                                        /\ PoolFrom(sources'[t]) = PoolFrom(sources[t])
           /\ sources'[s].session = token
<1>1. /\ DOMAIN sources' = DOMAIN sources /\ sources' \in [DOMAIN sources -> Source]
      /\ \A t \in DOMAIN sources : t = s
      /\ sources'[s] = [sources[s] EXCEPT !.session = token]
  BY DEF Owned, Source
<1>2. sources[s] \in Source /\ sources'[s] \in Source
  BY <1>1 DEF Owned
<1>3. /\ sources'[s].synced = sources[s].synced /\ sources'[s].session = token
      /\ PoolFrom(sources'[s]) = PoolFrom(sources[s])
  BY <1>1, <1>2 DEF PoolFrom, Allowed, Source
<1>4. QED
  BY <1>1, <1>3 DEF Owned

LEMMA InitHolds ==
    ASSUME SyncInit
    PROVE  SyncInv
<1>1. remote \in [keys : SUBSET Keys, token : 0 .. MaxRotations] /\ remote.token = 0
  BY Constants DEF SyncInit
<1>2. op \in Call /\ op.session = 0 /\ check \in Check
  BY Constants DEF SyncInit, NoOp, NoCheck, Call, Check
<1>3. Typed
  <2>1. Owned(sources, remote.token) /\ Owned(disk.sources, remote.token)
    BY <1>1, NoSources DEF SyncInit
  <2>2. pool \in Pool /\ cooled \subseteq pool.keys
    BY PoolTypes DEF SyncInit
  <2>3. dirty \in BOOLEAN /\ interval \in BOOLEAN /\ disk.interval \in BOOLEAN
    BY DEF SyncInit
  <2>4. op.session <= remote.token /\ task = "none"
    BY <1>1, <1>2 DEF SyncInit
  <2>5. QED
    BY <1>1, <1>2, <2>1, <2>2, <2>3, <2>4 DEF Typed
<1>4. OneCall
  BY Calls DEF SyncInit, OneCall
<1>5. Serving /\ Written /\ Checked
  BY NoSources DEF SyncInit, Serving, Written, Checked, NoCheck
<1>6. QED
  BY <1>3, <1>4, <1>5 DEF SyncInv

-----------------------------------------------------------------------------
(* What several calls do.                                                  *)

\* A hot update of the pool goes on with the check in flight.
LEMMA SwapKeeps ==
    ASSUME SyncInv, NEW new \in Pool, Swap(new)
    PROVE  /\ pool' \in Pool /\ cooled' \subseteq pool'.keys
           /\ check' \in Check /\ (check'.there \/ check' = NoCheck)
           /\ check'.there = check.there /\ check'.gone = check.gone
           /\ check'.source = check.source
<1> DEFINE fresh == IF check.there THEN check.renewed \cup (new.keys \ pool.keys) ELSE {}
<1>1. pool' = new /\ cooled' = cooled \cap new.keys
      /\ check' = [check EXCEPT !.renewed = IF check.there
                                            THEN @ \cup (new.keys \ pool.keys) ELSE {}]
  BY DEF Swap
<1>2. fresh \in SUBSET Keys
  BY DEF SyncInv, Typed, Pool, Check
<1>3. check' = [check EXCEPT !.renewed = fresh]
  BY <1>1 DEF SyncInv, Typed, Check
<1>4. ~check.there => fresh = {}
  OBVIOUS
<1> HIDE DEF fresh
<1>5. /\ check' \in Check /\ check'.there = check.there /\ check'.gone = check.gone
      /\ check'.source = check.source
  BY <1>2, <1>3 DEF SyncInv, Typed, Check
<1>6. check'.there \/ check' = NoCheck
  <2>1. CASE check.there
    BY <2>1, <1>5
  <2>2. CASE check = NoCheck
    <3>1. check' = [NoCheck EXCEPT !.renewed = {}]
      BY <2>2, <1>3, <1>4, Calls
    <3>2. QED
      BY <3>1 DEF NoCheck
  <2>3. QED
    BY <2>1, <2>2 DEF SyncInv, Checked
<1>7. QED
  BY <1>1, <1>5, <1>6

\* _activate and _save_state at the end of a call.
LEMMA ApplyKeeps ==
    ASSUME SyncInv, NEW s \in Ids, DOMAIN sources \subseteq {s},
           NEW source \in Source, source.session <= remote.token,
           Apply(s, source), UNCHANGED interval, op' = NoOp,
           task' \in {"none", "sleeping"}, op # Down,
           remote' \in [keys : SUBSET Keys, token : {remote.token}]
    PROVE  SyncInv'
<1>1. /\ sources' = Put(s, source) /\ pool' = PoolFrom(source)
      /\ cooled' = cooled \cap pool'.keys
      /\ disk' = [sources |-> sources', interval |-> interval] /\ dirty' = FALSE
  BY DEF Apply, Swap, Save
<1>2. remote.token \in 0 .. MaxRotations /\ remote.token \in Nat
  BY Constants DEF SyncInv, Typed
<1>3. remote'.token = remote.token
      /\ remote' \in [keys : SUBSET Keys, token : 0 .. MaxRotations]
  BY <1>2
<1>4. /\ Owned(sources', remote'.token) /\ DOMAIN sources' = {s} /\ sources'[s] = source
  BY <1>1, <1>2, <1>3, PutOwned
<1>5. /\ disk'.sources = sources' /\ disk'.interval = interval'
      /\ interval' \in BOOLEAN
  BY <1>1 DEF SyncInv, Typed
<1>6. op' \in Call /\ op'.session = 0 /\ op'.stage = "none" /\ op'.kind = "none" /\ op' # Down
  BY Calls
<1>7. pool' \in Pool /\ cooled' \subseteq pool'.keys
  BY <1>1, PoolTypes
<1>8. check' \in Check /\ Checked'
  BY <1>4, SwapKeeps, PoolTypes DEF Apply, SyncInv, Checked
<1>9. Typed'
  <2>1. Owned(sources', remote'.token) /\ Owned(disk'.sources, remote'.token)
    BY <1>4, <1>5
  <2>2. op'.session <= remote'.token
    BY <1>2, <1>3, <1>6
  <2>3. dirty' \in BOOLEAN /\ disk'.interval \in BOOLEAN
    BY <1>1, <1>5
  <2>4. QED
    BY <1>3, <1>5, <1>6, <1>7, <1>8, <2>1, <2>2, <2>3 DEF Typed
<1>10. OneCall'
  BY <1>6 DEF OneCall
<1>11. Serving'
  BY <1>1, <1>4 DEF Serving
<1>12. Written'
  BY <1>5 DEF Written
<1>13. QED
  BY <1>8, <1>9, <1>10, <1>11, <1>12 DEF SyncInv

\* _save_state at the end of a call that changed a session at most.
LEMMA SaveKeeps ==
    ASSUME SyncInv, op # Down, Save, UNCHANGED <<pool, cooled, interval, remote>>,
           \/ UNCHANGED sources
           \/ \E s \in DOMAIN sources, token \in 0 .. remote.token :
                 sources' = [sources EXCEPT ![s].session = token],
           check' \in Check, Checked', op' \in Call, op'.session <= remote.token,
           op' # Down, task' \in {"none", "sleeping", "syncing"}, OneCall'
    PROVE  SyncInv'
<1>1. disk'.sources = sources' /\ disk'.interval = interval' /\ dirty' = FALSE
  BY DEF Save
<1>2. remote.token \in 0 .. MaxRotations /\ remote.token \in Nat /\ remote'.token = remote.token
  BY Constants DEF SyncInv, Typed
<1>3. /\ Owned(sources', remote.token) /\ DOMAIN sources' = DOMAIN sources
      /\ \A t \in DOMAIN sources : /\ sources'[t].synced = sources[t].synced
                                   /\ PoolFrom(sources'[t]) = PoolFrom(sources[t])
  <2>1. CASE UNCHANGED sources
    BY <2>1 DEF SyncInv, Typed
  <2>2. ASSUME NEW s \in DOMAIN sources, NEW token \in 0 .. remote.token,
               sources' = [sources EXCEPT ![s].session = token]
        PROVE  /\ Owned(sources', remote.token) /\ DOMAIN sources' = DOMAIN sources
               /\ \A t \in DOMAIN sources : /\ sources'[t].synced = sources[t].synced
                                            /\ PoolFrom(sources'[t]) = PoolFrom(sources[t])
    <3>1. token \in 0 .. MaxRotations /\ token <= remote.token
      BY <1>2, Constants
    <3>2. Owned(sources, remote.token)
      BY DEF SyncInv, Typed
    <3>3. QED
      BY <1>2, <2>2, <3>1, <3>2, SessionOnly
  <2>3. QED
    BY <2>1, <2>2
<1>4. Owned(sources', remote'.token) /\ Owned(disk'.sources, remote'.token)
  BY <1>1, <1>2, <1>3
<1>5. dirty' \in BOOLEAN /\ interval' \in BOOLEAN /\ disk'.interval \in BOOLEAN
  BY <1>1 DEF SyncInv, Typed
<1>6. op'.session <= remote'.token
  BY <1>2
<1>7. Typed'
  BY <1>4, <1>5, <1>6 DEF SyncInv, Typed
<1>8. Serving'
  BY <1>3 DEF SyncInv, Serving
<1>9. Written'
  BY <1>1 DEF Written
<1>10. QED
  BY <1>7, <1>8, <1>9 DEF SyncInv

\* delete, and the removal of the last key that was added by hand.
LEMMA DropKeeps ==
    ASSUME SyncInv, Free, NEW s \in DOMAIN sources, Drop(s),
           task' \in {"none", "sleeping"}, UNCHANGED <<interval, op, remote>>
    PROVE  SyncInv'
<1>1. /\ sources' = Without({s}) /\ pool' = StaticPool /\ cooled' = cooled \cap Static
      /\ check' = [check EXCEPT !.gone = @ \/ (check.there /\ check.source = s)]
      /\ disk' = [sources |-> sources', interval |-> interval] /\ dirty' = FALSE
  BY DEF Drop, Save
<1>2. DOMAIN sources' = {} /\ Owned(sources', remote.token) /\ Owned(disk'.sources, remote.token)
  BY <1>1 DEF SyncInv, Typed, Owned, Without
<1>3. /\ check' = NoCheck \/ (check'.there /\ check'.gone)
      /\ check' \in Check
  <2>1. CASE check = NoCheck
    BY <2>1, <1>1, Calls DEF NoCheck
  <2>2. CASE check.there
    <3>1. check' \in Check /\ check'.there
      BY <1>1, <2>2 DEF SyncInv, Typed, Check
    <3>2. check.gone \/ check.source = s
      BY <2>2 DEF SyncInv, Checked, Typed, Owned
    <3>3. check'.gone
      BY <1>1, <2>2, <3>2 DEF SyncInv, Typed, Check
    <3>4. QED
      BY <3>1, <3>3
  <2>3. QED
    BY <2>1, <2>2 DEF SyncInv, Checked
<1>4. disk'.sources = sources' /\ disk'.interval = interval'
  BY <1>1
<1>5. dirty' \in BOOLEAN /\ interval' \in BOOLEAN /\ disk'.interval \in BOOLEAN
  BY <1>1, <1>4 DEF SyncInv, Typed
<1>6. pool' \in Pool /\ cooled' \subseteq pool'.keys
  BY <1>1, PoolTypes DEF StaticPool
<1>7. Typed'
  BY <1>2, <1>3, <1>5, <1>6 DEF SyncInv, Typed
<1>8. OneCall' /\ Serving'
  BY <1>1, <1>2, Calls DEF Free, OneCall, Serving
<1>9. Written'
  BY <1>4 DEF Written
<1>10. Checked'
  BY <1>3, Calls DEF Checked
<1>11. QED
  BY <1>7, <1>8, <1>9, <1>10 DEF SyncInv

-----------------------------------------------------------------------------
(* A call takes the lock.                                                  *)

LEMMA BeginKeeps ==
    ASSUME SyncInv, Free, NEW s \in Online,
           NEW kind \in {"connect", "sync", "catalog", "create", "clear", "auto"},
           NEW stage \in {"login", "fetch", "write", "catalog"}, NEW gs \in SUBSET Groups,
           stage = "login" \/ s \in DOMAIN sources, kind = "auto" => stage = "fetch",
           Begin(kind, s, stage, gs), task' \in {"none", "sleeping", "syncing"},
           task' = "syncing" <=> kind = "auto",
           UNCHANGED <<sources, poolVars, fileVars, interval, remote>>
    PROVE  SyncInv'
<1> DEFINE session == IF s \in DOMAIN sources THEN sources[s].session ELSE 0
<1>1. op' = [kind |-> kind, stage |-> stage, source |-> s, groups |-> gs, session |-> session]
  BY DEF Begin
<1>2. session \in 0 .. MaxRotations /\ session <= remote.token
  BY Constants DEF SyncInv, Typed, Owned, Source
<1>3. op' \in Call /\ op'.session <= remote.token /\ op' # Down
  BY <1>1, <1>2, Constants, Calls DEF Call
<1>4. Typed'
  BY <1>3 DEF SyncInv, Typed, poolVars, fileVars
<1>5. OneCall'
  BY <1>1, <1>3 DEF OneCall
<1>6. Serving' /\ Written' /\ Checked'
  BY <1>3, Calls DEF SyncInv, Serving, Written, Checked, poolVars, fileVars, Free
<1>7. QED
  BY <1>4, <1>5, <1>6 DEF SyncInv

LEMMA ConnectKeeps ==
    ASSUME SyncInv, Connect
    PROVE  SyncInv'
<1>1. PICK s \in Online : Begin("connect", s, "login", {})
  BY DEF Connect
<1>2. task' = task /\ task # "syncing"
  BY Calls DEF Connect, SyncInv, OneCall, Free
<1>3. QED
  BY <1>1, <1>2, BeginKeeps DEF Connect, SyncInv, Typed

LEMMA AskKeeps ==
    ASSUME SyncInv, Ask
    PROVE  SyncInv'
<1>1. PICK s \in DOMAIN sources :
          /\ Connected(s)
          /\ \/ Begin("sync", s, "fetch", {})
             \/ Begin("catalog", s, "catalog", {})
             \/ \E gs \in SUBSET Groups \ {{}}, kind \in {"create", "clear"} :
                   Begin(kind, s, "write", gs)
  BY DEF Ask
<1>2. s \in Online
  BY <1>1 DEF Connected
<1>3. task' = task /\ task # "syncing"
  BY Calls DEF Ask, SyncInv, OneCall, Free
<1>4. QED
  BY <1>1, <1>2, <1>3, BeginKeeps DEF Ask, SyncInv, Typed

LEMMA AutoSyncKeeps ==
    ASSUME SyncInv, AutoSync
    PROVE  SyncInv'
<1>1. PICK s \in DOMAIN sources : Connected(s) /\ Begin("auto", s, "fetch", {})
  BY DEF AutoSync
<1>2. s \in Online
  BY <1>1 DEF Connected
<1>3. QED
  BY <1>1, <1>2, BeginKeeps DEF AutoSync

-----------------------------------------------------------------------------
(* Logging in.                                                             *)

\* What another source served goes on serving until the first sync: the new
\* source has not synced.
LEMMA LoginOkKeeps ==
    ASSUME SyncInv, LoginOk
    PROVE  SyncInv'
<1> DEFINE s      == op.source
           next   == remote.token + 1
           others == Without(TakenOver(s))
           source == LoggedIn(IF s \in DOMAIN sources THEN Mine ELSE NewSource)
<1>1. /\ op.stage = "login" /\ remote.token < MaxRotations
      /\ remote' = [remote EXCEPT !.token = @ + 1]
      /\ sources' = [t \in DOMAIN others \cup {s} |-> IF t = s THEN source ELSE others[t]]
      /\ check' = [check EXCEPT !.gone = @ \/ (check.there /\ check.source \in TakenOver(s))]
      /\ op' = [op EXCEPT !.stage = "fetch", !.session = remote.token + 1]
      /\ disk' = [sources |-> sources', interval |-> interval'] /\ dirty' = FALSE
      /\ UNCHANGED <<pool, cooled, interval, task>>
  BY DEF LoginOk, Save
<1>2. /\ remote.token \in 0 .. MaxRotations /\ next \in 0 .. MaxRotations
      /\ remote' \in [keys : SUBSET Keys, token : 0 .. MaxRotations] /\ remote'.token = next
  BY <1>1, Constants DEF SyncInv, Typed
<1>3. s \in Online /\ s \in Ids /\ op # Down
  BY <1>1, Calls, Constants DEF SyncInv, OneCall
<1>4. DOMAIN others \subseteq {s}
  BY DEF Without, TakenOver, Conflict
<1>5. DOMAIN sources' = {s} /\ sources'[s] = source
  BY <1>1, <1>4
<1>6. /\ source \in Source /\ source.session = next
      /\ s \in DOMAIN sources => /\ source.synced = sources[s].synced
                                 /\ PoolFrom(source) = PoolFrom(sources[s])
      /\ s \notin DOMAIN sources => ~source.synced
  <2>1. CASE s \in DOMAIN sources
    <3>1. sources[s] \in Source /\ source = [sources[s] EXCEPT !.session = next]
      BY <2>1 DEF SyncInv, Typed, Owned, LoggedIn, Mine
    <3>2. QED
      BY <2>1, <3>1, <1>2 DEF Source, PoolFrom, Allowed
  <2>2. CASE s \notin DOMAIN sources
    <3>1. source = [NewSource EXCEPT !.session = next]
      BY <2>2 DEF LoggedIn
    <3>2. QED
      BY <2>2, <3>1, <1>2 DEF Source, NewSource
  <2>3. QED
    BY <2>1, <2>2
<1>7. Owned(sources', remote'.token)
  <2>1. sources' = [t \in {s} |-> source]
    BY <1>1, <1>4, <1>5
  <2>2. QED
    BY <1>2, <1>3, <1>6, <2>1 DEF Owned
<1>8. op' \in Call /\ op'.session = next /\ op'.stage = "fetch" /\ op' # Down
      /\ op'.kind = op.kind /\ op'.source = s
  BY <1>1, <1>2, Calls DEF SyncInv, Typed, Call
<1>9. check' \in Check /\ Checked'
  <2>1. CASE check = NoCheck
    BY <1>1, <2>1, Calls DEF NoCheck, Checked
  <2>2. CASE check.there
    <3>1. check' \in Check /\ check'.there
      BY <1>1, <2>2 DEF SyncInv, Typed, Check
    <3>2. check'.source = check.source
      BY <1>1 DEF SyncInv, Typed, Check
    <3>3. check'.gone \/ check.source = s
      BY <1>1, <2>2 DEF SyncInv, Typed, Check, Checked, TakenOver, Conflict
    <3>4. QED
      BY <1>5, <3>1, <3>2, <3>3 DEF Checked
  <2>3. QED
    BY <2>1, <2>2 DEF SyncInv, Checked
<1>10. disk'.sources = sources' /\ disk'.interval = interval'
  BY <1>1
<1>11. dirty' \in BOOLEAN /\ interval' \in BOOLEAN /\ disk'.interval \in BOOLEAN
  BY <1>1, <1>10 DEF SyncInv, Typed
<1> HIDE DEF s, next, others, source
<1>12. op'.session <= remote'.token /\ Owned(disk'.sources, remote'.token)
  BY <1>2, <1>7, <1>8, <1>10, Constants
<1>13. Typed'
  BY <1>1, <1>2, <1>7, <1>8, <1>9, <1>11, <1>12 DEF SyncInv, Typed
<1>14. OneCall'
  BY <1>1, <1>3, <1>5, <1>6, <1>8 DEF SyncInv, OneCall
<1>15. Serving'
  <2>1. s \in DOMAIN sources /\ source.synced => pool = PoolFrom(sources[s])
    BY <1>3, <1>6 DEF SyncInv, Serving
  <2>2. QED
    BY <1>1, <1>5, <1>6, <2>1 DEF Serving
<1>16. Written'
  BY <1>8, <1>10 DEF Written
<1>17. QED
  BY <1>9, <1>13, <1>14, <1>15, <1>16 DEF SyncInv

LEMMA LoginFailsKeeps ==
    ASSUME SyncInv, LoginFails
    PROVE  SyncInv'
<1>1. /\ op.stage = "login" /\ op' = NoOp /\ op # Down
      /\ UNCHANGED <<sources, pool, cooled, check, disk, dirty, interval, task, remote>>
  BY Calls DEF LoginFails, poolVars, fileVars
<1>2. remote.token >= 0
  BY Constants DEF SyncInv, Typed
<1>3. Typed'
  BY <1>1, <1>2, Calls DEF SyncInv, Typed
<1>4. OneCall'
  BY <1>1, Calls DEF SyncInv, OneCall
<1>5. Serving' /\ Written' /\ Checked'
  BY <1>1, Calls DEF SyncInv, Serving, Written, Checked
<1>6. QED
  BY <1>3, <1>4, <1>5 DEF SyncInv

-----------------------------------------------------------------------------
(* The requests of an adapter.                                             *)

\* The new token is held by the call, and by the source if it is renewed in
\* place.
LEMMA RefreshKeeps ==
    ASSUME SyncInv, Refresh
    PROVE  SyncInv'
<1> DEFINE next == remote.token + 1
<1>1. /\ op.stage \in {"fetch", "write", "catalog"} /\ remote.token < MaxRotations
      /\ remote' = [remote EXCEPT !.token = @ + 1]
      /\ op' = [op EXCEPT !.session = remote.token + 1]
      /\ sources' = IF InPlace THEN [sources EXCEPT ![op.source].session = next] ELSE sources
      /\ UNCHANGED <<pool, cooled, check, disk, dirty, interval, task>>
  BY DEF Refresh, RenewInPlace, RenewCopy, poolVars, fileVars
<1>2. /\ remote.token \in 0 .. MaxRotations /\ next \in 0 .. MaxRotations
      /\ remote' \in [keys : SUBSET Keys, token : 0 .. MaxRotations] /\ remote'.token = next
      /\ remote.token \in Nat /\ next \in Nat /\ remote.token <= next
  BY <1>1, Constants DEF SyncInv, Typed
<1>3. /\ op.source \in DOMAIN sources /\ op # Down
      /\ op' \in Call /\ op'.session = next /\ op'.stage = op.stage
      /\ op'.kind = op.kind /\ op'.source = op.source /\ op' # Down
  BY <1>1, <1>2, Calls DEF SyncInv, Typed, OneCall, Call
<1>4. Owned(sources, next) /\ Owned(disk.sources, next)
  BY <1>2, OwnedLater DEF SyncInv, Typed
<1> HIDE DEF next
<1>5. /\ Owned(sources', next) /\ DOMAIN sources' = DOMAIN sources
      /\ \A t \in DOMAIN sources : /\ sources'[t].synced = sources[t].synced
                                   /\ PoolFrom(sources'[t]) = PoolFrom(sources[t])
      /\ InPlace => sources'[op.source].session = next
  <2>1. CASE InPlace
    <3>1. sources' = [sources EXCEPT ![op.source].session = next] /\ next <= next
      BY <1>1, <1>2, <2>1
    <3>2. QED
      BY <1>2, <1>3, <1>4, <3>1, SessionOnly
  <2>2. CASE ~InPlace
    BY <1>1, <1>4, <2>2
  <2>3. QED
    BY <2>1, <2>2
<1>6. op'.session <= remote'.token
  BY <1>2, <1>3
<1>7. Typed'
  BY <1>1, <1>2, <1>3, <1>4, <1>5, <1>6 DEF SyncInv, Typed
<1>8. OneCall'
  BY <1>1, <1>3, <1>5 DEF SyncInv, OneCall
<1>9. Serving' /\ Checked'
  BY <1>1, <1>3, <1>5 DEF SyncInv, Serving, Checked
<1>10. Written'
  BY <1>1, <1>3 DEF SyncInv, Written
<1>11. QED
  BY <1>7, <1>8, <1>9, <1>10 DEF SyncInv

\* The task goes back to sleep with the call that it made.
LEMMA TaskResumes ==
    ASSUME SyncInv
    PROVE  Resumed \in {"none", "sleeping"}
BY DEF Resumed, SyncInv, Typed, OneCall

LEMMA RequestFailsKeeps ==
    ASSUME SyncInv, RequestFails
    PROVE  SyncInv'
<1>1. op # Down /\ op' = NoOp /\ remote.token >= 0
  BY Calls, Constants DEF RequestFails, SyncInv, Typed
<1>2. task' \in {"none", "sleeping"}
  BY TaskResumes DEF RequestFails
<1>3. OneCall'
  BY <1>1, <1>2, Calls DEF OneCall
<1>4. UNCHANGED check /\ Checked' /\ check' \in Check
  BY DEF RequestFails, poolVars, SyncInv, Typed, Checked
<1>5. QED
  BY <1>1, <1>2, <1>3, <1>4, SaveKeeps, Calls DEF RequestFails, poolVars

LEMMA WriteOneKeeps ==
    ASSUME SyncInv, WriteOne
    PROVE  SyncInv'
<1>1. /\ op.stage = "write" /\ op # Down
      /\ UNCHANGED <<sources, pool, cooled, check, disk, dirty, interval, task>>
  BY Calls DEF WriteOne, poolVars, fileVars
<1>2. PICK g \in op.groups :
          /\ op' = [op EXCEPT !.groups = @ \ {g}]
          /\ \/ UNCHANGED remote
             \/ op.kind = "create" /\ Create(g)
             \/ op.kind = "clear" /\ Clear(g)
  BY DEF WriteOne
<1>3. /\ op' \in Call /\ op'.session = op.session /\ op'.stage = op.stage
      /\ op'.kind = op.kind /\ op'.source = op.source /\ op' # Down
  BY <1>1, <1>2, Calls DEF SyncInv, Typed, Call
<1>4. /\ remote' \in [keys : SUBSET Keys, token : 0 .. MaxRotations]
      /\ remote'.token = remote.token
  BY <1>2 DEF Create, Clear, InGroups, SyncInv, Typed
<1>5. Typed'
  BY <1>1, <1>3, <1>4 DEF SyncInv, Typed
<1>6. OneCall'
  BY <1>1, <1>3 DEF SyncInv, OneCall
<1>7. Serving' /\ Written' /\ Checked'
  BY <1>1, <1>3 DEF SyncInv, Serving, Written, Checked
<1>8. QED
  BY <1>5, <1>6, <1>7 DEF SyncInv

\* The session that a call ends with is stored.
LEMMA StoredSession ==
    ASSUME SyncInv, op.stage \in {"fetch", "write", "catalog"},
           sources' = [sources EXCEPT ![op.source].session = op.session]
    PROVE  /\ op.source \in DOMAIN sources /\ op.session \in 0 .. remote.token
           /\ DOMAIN sources' = DOMAIN sources /\ sources'[op.source].session = op.session
<1>1. op.source \in DOMAIN sources /\ op.session \in 0 .. remote.token
  BY Constants DEF SyncInv, OneCall, Typed, Call
<1>2. sources[op.source] \in Source
  BY <1>1 DEF SyncInv, Typed, Owned
<1>3. sources'[op.source] = [sources[op.source] EXCEPT !.session = op.session]
  BY <1>1
<1>4. QED
  BY <1>1, <1>2, <1>3 DEF Source

LEMMA WritesEndKeeps ==
    ASSUME SyncInv, WritesEnd
    PROVE  SyncInv'
<1>1. /\ op.stage = "write" /\ op # Down
      /\ sources' = [sources EXCEPT ![op.source].session = op.session]
      /\ op' = [op EXCEPT !.stage = "fetch", !.groups = {}]
      /\ UNCHANGED <<pool, cooled, check, interval, task, remote>> /\ Save
  BY Calls DEF WritesEnd, poolVars
<1>2. /\ op.source \in DOMAIN sources /\ op.session \in 0 .. remote.token
      /\ DOMAIN sources' = DOMAIN sources /\ sources'[op.source].session = op.session
  BY <1>1, StoredSession
<1>3. /\ op' \in Call /\ op'.session = op.session /\ op'.stage = "fetch"
      /\ op'.kind = op.kind /\ op'.source = op.source /\ op' # Down
  BY <1>1, Calls DEF SyncInv, Typed, Call
<1>4. OneCall'
  BY <1>1, <1>2, <1>3 DEF SyncInv, OneCall
<1>5. Checked' /\ check' \in Check /\ op'.session <= remote.token
      /\ task' \in {"none", "sleeping", "syncing"}
  BY <1>1, <1>2, <1>3 DEF SyncInv, Typed, Checked
<1>6. QED
  BY <1>1, <1>2, <1>3, <1>4, <1>5, SaveKeeps

LEMMA CatalogOkKeeps ==
    ASSUME SyncInv, CatalogOk
    PROVE  SyncInv'
<1>1. /\ op.stage = "catalog" /\ op # Down /\ op' = NoOp
      /\ sources' = [sources EXCEPT ![op.source].session = op.session]
      /\ UNCHANGED <<pool, cooled, check, interval, task, remote>> /\ Save
  BY Calls DEF CatalogOk, poolVars
<1>2. /\ op.source \in DOMAIN sources /\ op.session \in 0 .. remote.token
      /\ DOMAIN sources' = DOMAIN sources
  BY <1>1, StoredSession
<1>3. Checked' /\ check' \in Check /\ remote.token >= 0
  BY <1>1, <1>2, Constants DEF SyncInv, Typed, Checked
<1>4. OneCall'
  BY <1>1, Calls DEF SyncInv, OneCall
<1>5. task' \in {"none", "sleeping", "syncing"}
  BY <1>1 DEF SyncInv, Typed
<1>6. QED
  BY <1>1, <1>2, <1>3, <1>4, <1>5, SaveKeeps, Calls

\* A sync ends with the pool of what it fetched.
LEMMA FetchOkKeeps ==
    ASSUME SyncInv, FetchOk
    PROVE  SyncInv'
<1>1. /\ op.stage = "fetch" /\ op # Down /\ op' = NoOp
      /\ task' = IF op.kind = "connect" THEN Started ELSE Resumed
      /\ UNCHANGED interval
  BY Calls DEF FetchOk
<1>2. PICK open \in SUBSET Groups, bad \in SUBSET Groups :
          /\ \E left \in SUBSET (remote.keys \ Offered(open)) :
                remote' = [remote EXCEPT !.keys = Offered(open) \cup left]
          /\ Apply(op.source, Synced(Mine, open, bad))
  BY DEF FetchOk
<1>3. /\ op.source \in DOMAIN sources /\ sources[op.source] \in Source
      /\ op.source \in Ids /\ DOMAIN sources \subseteq {op.source}
  BY <1>1 DEF SyncInv, OneCall, Typed, Owned
<1>4. Offered(open) \in SUBSET Keys
  BY DEF Offered, InGroups
<1>5. remote' \in [keys : SUBSET Keys, token : {remote.token}]
  BY <1>2, <1>4 DEF SyncInv, Typed
<1>6. op.session \in 0 .. MaxRotations /\ op.session <= remote.token
  BY DEF SyncInv, Typed, Call
<1>7. /\ Synced(Mine, open, bad) \in Source
      /\ Synced(Mine, open, bad).session <= remote.token
  BY <1>3, <1>4, <1>6 DEF Synced, Mine, Source
<1>8. task' \in {"none", "sleeping"}
  BY <1>1, TaskResumes DEF Started, SyncInv, Typed, OneCall
<1>9. QED
  BY <1>1, <1>2, <1>3, <1>5, <1>7, <1>8, ApplyKeeps

-----------------------------------------------------------------------------
(* Changes of a source.                                                    *)

\* Between two calls.
LEMMA WhenFree ==
    ASSUME SyncInv, Free
    PROVE  /\ op = NoOp /\ op # Down /\ task \in {"none", "sleeping"}
           /\ remote \in [keys : SUBSET Keys, token : {remote.token}]
           /\ remote.token \in 0 .. MaxRotations
           /\ \A s \in DOMAIN sources : /\ s \in Ids /\ sources[s] \in Source
                                        /\ DOMAIN sources \subseteq {s}
                                        /\ sources[s].session <= remote.token
BY Calls DEF Free, SyncInv, OneCall, Typed, Owned

LEMMA ChangeKeeps ==
    ASSUME SyncInv, Free, NEW s \in Ids, DOMAIN sources \subseteq {s},
           NEW source \in Source, source.session <= remote.token, Change(s, source)
    PROVE  SyncInv'
<1>1. Apply(s, source) /\ UNCHANGED <<interval, task, op, remote>>
  BY DEF Change
<1>2. QED
  BY <1>1, WhenFree, ApplyKeeps

LEMMA SetKeyEnabledKeeps ==
    ASSUME SyncInv, SetKeyEnabled
    PROVE  SyncInv'
<1>1. PICK s \in DOMAIN sources :
          \E k \in sources[s].entries : Change(s, Toggled(sources[s], k))
  BY DEF SetKeyEnabled
<1>2. PICK k \in sources[s].entries : Change(s, Toggled(sources[s], k))
  BY <1>1
<1>3. Free
  BY DEF SetKeyEnabled
<1>4. /\ Toggled(sources[s], k) \in Source
      /\ Toggled(sources[s], k).session = sources[s].session
  BY <1>3, WhenFree DEF Toggled, Source
<1>5. QED
  BY <1>2, <1>3, <1>4, WhenFree, ChangeKeeps

LEMMA SetExperienceKeeps ==
    ASSUME SyncInv, SetExperience
    PROVE  SyncInv'
<1>1. PICK s \in DOMAIN sources, bad \in SUBSET Groups :
          Change(s, [sources[s] EXCEPT !.failing = bad])
  BY DEF SetExperience
<1>2. Free
  BY DEF SetExperience
<1>3. /\ [sources[s] EXCEPT !.failing = bad] \in Source
      /\ [sources[s] EXCEPT !.failing = bad].session = sources[s].session
  BY <1>2, WhenFree DEF Source
<1>4. QED
  BY <1>1, <1>2, <1>3, WhenFree, ChangeKeeps

LEMMA SetGroupRulesKeeps ==
    ASSUME SyncInv, SetGroupRules
    PROVE  SyncInv'
BY WhenFree, ChangeKeeps DEF SetGroupRules

LEMMA AddManualKeysKeeps ==
    ASSUME SyncInv, AddManualKeys
    PROVE  SyncInv'
<1> DEFINE source == IF Manual \in DOMAIN sources THEN sources[Manual] ELSE NewSource
<1>1. PICK ks \in SUBSET (Keys \ source.entries) :
          Change(Manual, [source EXCEPT !.entries = @ \cup ks, !.synced = TRUE])
  BY DEF AddManualKeys
<1>2. Free /\ DOMAIN sources \subseteq {Manual} /\ Manual \in Ids
  BY Constants DEF AddManualKeys, SyncInv, Typed, Owned, Ids
<1>3. source \in Source /\ source.session <= remote.token
  BY <1>2, WhenFree, Constants DEF NewSource, Source
<1> HIDE DEF source
<1>4. /\ [source EXCEPT !.entries = @ \cup ks, !.synced = TRUE] \in Source
      /\ [source EXCEPT !.entries = @ \cup ks, !.synced = TRUE].session = source.session
  BY <1>3 DEF Source
<1>5. QED
  BY <1>1, <1>2, <1>3, <1>4, ChangeKeeps

LEMMA RemoveManualKeysKeeps ==
    ASSUME SyncInv, RemoveManualKeys
    PROVE  SyncInv'
<1>1. Free /\ Manual \in DOMAIN sources /\ UNCHANGED <<interval, task, op, remote>>
  BY DEF RemoveManualKeys
<1>2. ASSUME NEW ks \in SUBSET sources[Manual].entries,
             Apply(Manual, [sources[Manual] EXCEPT !.entries = @ \ ks, !.disabled = @ \ ks])
      PROVE  SyncInv'
  <2> DEFINE old == sources[Manual]
             new == [old EXCEPT !.entries = @ \ ks, !.disabled = @ \ ks]
  <2>1. old \in Source
    BY <1>1, WhenFree
  <2>2. Apply(Manual, new)
    BY <1>2
  <2> HIDE DEF old
  <2>3. new \in Source /\ new.session = old.session
    BY <2>1 DEF Source
  <2>4. QED
    BY <1>1, <2>2, <2>3, WhenFree, ChangeKeeps DEF Change, old
<1>3. CASE Drop(Manual)
  BY <1>1, <1>3, WhenFree, DropKeeps
<1>4. QED
  BY <1>2, <1>3 DEF RemoveManualKeys

LEMMA DeleteKeeps ==
    ASSUME SyncInv, Delete
    PROVE  SyncInv'
<1>1. PICK s \in DOMAIN sources : Drop(s)
  BY DEF Delete
<1>2. Free /\ UNCHANGED <<interval, op, remote>> /\ task' = Stopped
  BY DEF Delete
<1>3. task' \in {"none", "sleeping"}
  BY <1>2, WhenFree DEF Stopped
<1>4. QED
  BY <1>1, <1>2, <1>3, DropKeeps

LEMMA DisconnectKeeps ==
    ASSUME SyncInv, Disconnect
    PROVE  SyncInv'
<1>1. PICK s \in DOMAIN sources \cap Online :
          sources' = [sources EXCEPT ![s].session = 0]
  BY DEF Disconnect
<1>2. /\ Free /\ UNCHANGED <<pool, cooled, check, interval, op, remote>> /\ Save
      /\ task' = Stopped
  BY DEF Disconnect, poolVars
<1>3. task' \in {"none", "sleeping"} /\ 0 \in 0 .. remote.token
  BY <1>2, WhenFree, Constants DEF Stopped
<1>4. DOMAIN sources' = DOMAIN sources
  BY <1>1
<1>5. Checked' /\ check' \in Check
  BY <1>2, <1>4 DEF SyncInv, Typed, Checked
<1>6. OneCall' /\ op' \in Call /\ op'.session <= remote.token /\ op' # Down
  BY <1>2, <1>3, WhenFree, Calls DEF SyncInv, Typed, OneCall
<1>7. QED
  BY <1>1, <1>2, <1>3, <1>5, <1>6, WhenFree, SaveKeeps

LEMMA SetSettingsKeeps ==
    ASSUME SyncInv, SetSettings
    PROVE  SyncInv'
<1>1. /\ Free /\ UNCHANGED <<sources, pool, cooled, check, interval, task, op, remote>>
      /\ Save
  BY DEF SetSettings, poolVars
<1>2. OneCall' /\ Checked' /\ check' \in Check
  BY <1>1 DEF SyncInv, Typed, OneCall, Checked
<1>3. op' \in Call /\ op'.session <= remote.token /\ op' # Down
      /\ task' \in {"none", "sleeping", "syncing"}
  BY <1>1, WhenFree DEF SyncInv, Typed
<1>4. QED
  BY <1>1, <1>2, <1>3, WhenFree, SaveKeeps

LEMMA SetIntervalKeeps ==
    ASSUME SyncInv, SetInterval
    PROVE  SyncInv'
<1>1. /\ Free /\ op # Down /\ interval' \in BOOLEAN
      /\ task' \in {"none", "sleeping"}
      /\ disk'.sources = sources /\ disk'.interval = interval' /\ dirty' = FALSE
      /\ UNCHANGED <<sources, pool, cooled, check, op, remote>>
  BY WhenFree DEF SetInterval, poolVars
<1>2. dirty' \in BOOLEAN /\ disk'.interval \in BOOLEAN
  BY <1>1
<1>3. Typed'
  BY <1>1, <1>2 DEF SyncInv, Typed
<1>4. OneCall' /\ Serving' /\ Checked'
  BY <1>1, WhenFree, Calls DEF SyncInv, OneCall, Serving, Checked
<1>5. Written'
  BY <1>1 DEF Written
<1>6. QED
  BY <1>3, <1>4, <1>5 DEF SyncInv

\* The models a source was told it has not are the one thing the file may lack.
LEMMA RejectedOnly ==
    ASSUME SyncInv, Free, NEW s \in DOMAIN sources, NEW new \in SUBSET Groups,
           sources' = [sources EXCEPT ![s].rejected = new], UNCHANGED <<interval, op>>,
           \/ Save
           \/ dirty' = TRUE /\ UNCHANGED disk
           \/ UNCHANGED fileVars /\ new = sources[s].rejected
    PROVE  /\ Owned(sources', remote.token) /\ DOMAIN sources' = {s}
           /\ sources'[s] \in Source /\ Owned(disk'.sources, remote.token)
           /\ dirty' \in BOOLEAN /\ interval' \in BOOLEAN /\ disk'.interval \in BOOLEAN
           /\ Written'
<1>1. /\ sources[s] \in Source /\ DOMAIN sources = {s} /\ op = NoOp /\ op # Down
      /\ sources[s].session <= remote.token
  BY WhenFree
<1>2. /\ DOMAIN sources' = {s} /\ sources'[s] = [sources[s] EXCEPT !.rejected = new]
      /\ sources' \in [{s} -> Source] /\ sources'[s] \in Source
      /\ sources'[s].session = sources[s].session
  BY <1>1 DEF Source
<1>3. Owned(sources', remote.token)
  BY <1>1, <1>2, WhenFree DEF Owned
<1>4. /\ disk.interval = interval /\ Settled(disk.sources) = Settled(sources)
      /\ ~dirty => disk.sources = sources
  BY <1>1, Calls DEF SyncInv, Written
<1>5. Settled(sources') = Settled(sources)
  <2>1. [sources'[s] EXCEPT !.rejected = {}] = [sources[s] EXCEPT !.rejected = {}]
    BY <1>1, <1>2 DEF Source
  <2>2. Settled(sources) = [t \in {s} |-> [sources[s] EXCEPT !.rejected = {}]]
    BY <1>1 DEF Settled
  <2>3. Settled(sources') = [t \in {s} |-> [sources'[s] EXCEPT !.rejected = {}]]
    BY <1>2 DEF Settled
  <2>4. QED
    BY <2>1, <2>2, <2>3
<1>6. CASE Save
  <2>1. disk'.sources = sources' /\ disk'.interval = interval' /\ dirty' = FALSE
    BY <1>6 DEF Save
  <2>2. dirty' \in BOOLEAN /\ interval' \in BOOLEAN /\ disk'.interval \in BOOLEAN
    BY <2>1 DEF SyncInv, Typed
  <2>3. Written'
    BY <2>1 DEF Written
  <2>4. QED
    BY <1>2, <1>3, <2>1, <2>2, <2>3
<1>7. CASE UNCHANGED fileVars /\ new = sources[s].rejected
  <2>1. disk' = disk /\ dirty' = dirty
    BY <1>7 DEF fileVars
  <2>2. sources' = sources
    <3>1. sources'[s] = sources[s]
      BY <1>1, <1>2, <1>7 DEF Source
    <3>2. sources' = [sources EXCEPT ![s] = sources[s]]
      BY <3>1
    <3>3. QED
      BY <3>2 DEF SyncInv, Typed, Owned
  <2>3. QED
    BY <1>2, <1>3, <2>1, <2>2 DEF SyncInv, Typed, Written
<1>8. CASE dirty' = TRUE /\ UNCHANGED disk
  BY <1>2, <1>3, <1>4, <1>5, <1>8 DEF SyncInv, Typed, Written
<1>9. QED
  BY <1>6, <1>7, <1>8

LEMMA MarkUnsupportedKeeps ==
    ASSUME SyncInv, MarkUnsupported
    PROVE  SyncInv'
<1>1. PICK s \in DOMAIN sources, g \in Groups :
          LET new == [sources[s] EXCEPT !.rejected = @ \cup {g}]
          IN  sources' = Put(s, new) /\ Swap(PoolFrom(new))
  BY DEF MarkUnsupported
<1>2. /\ Free /\ UNCHANGED <<interval, task, op, remote>>
      /\ Save \/ (dirty' = TRUE /\ UNCHANGED disk)
  BY DEF MarkUnsupported, SaveOrDefer
<1> DEFINE models == sources[s].rejected \cup {g}
           new == [sources[s] EXCEPT !.rejected = models]
<1>3. /\ sources[s] \in Source /\ DOMAIN sources = {s} /\ op = NoOp /\ op # Down
  BY <1>2, WhenFree
<1>4. models \in SUBSET Groups /\ new \in Source
  BY <1>3 DEF Source
<1>5. sources' = Put(s, new) /\ Swap(PoolFrom(new))
  BY <1>1
<1>6. sources' = [sources EXCEPT ![s].rejected = models] /\ sources'[s] = new
  BY <1>3, <1>5 DEF Put, SyncInv, Typed, Owned
<1> HIDE DEF models, new
<1>7. /\ Owned(sources', remote.token) /\ DOMAIN sources' = {s}
      /\ Owned(disk'.sources, remote.token)
      /\ dirty' \in BOOLEAN /\ interval' \in BOOLEAN /\ disk'.interval \in BOOLEAN
      /\ Written'
  BY <1>2, <1>4, <1>6, RejectedOnly
<1>8. /\ pool' = PoolFrom(new) /\ pool' \in Pool /\ cooled' \subseteq pool'.keys
      /\ check' \in Check /\ Checked'
  <2>1. PoolFrom(new) \in Pool
    BY <1>4, PoolTypes
  <2>2. QED
    BY <1>3, <1>5, <1>7, <2>1, SwapKeeps DEF Swap, SyncInv, Checked
<1>9. Typed'
  BY <1>2, <1>7, <1>8 DEF SyncInv, Typed
<1>10. OneCall'
  BY <1>2, <1>3, Calls DEF SyncInv, OneCall
<1>11. Serving'
  BY <1>6, <1>7, <1>8 DEF Serving
<1>12. QED
  BY <1>7, <1>8, <1>9, <1>10, <1>11 DEF SyncInv

-----------------------------------------------------------------------------
(* Circuits and checks.                                                    *)

\* Only circuits, or the end of a check.
LEMMA CircuitsKeep ==
    ASSUME SyncInv, cooled' \subseteq pool.keys, check' \in {check, NoCheck},
           UNCHANGED <<sources, pool, fileVars, interval, task, op, remote>>
    PROVE  SyncInv'
<1>1. check' \in Check /\ Checked'
  BY Calls DEF SyncInv, Typed, Checked
<1>2. Typed'
  BY <1>1 DEF SyncInv, Typed, fileVars
<1>3. OneCall' /\ Serving' /\ Written'
  BY DEF SyncInv, OneCall, Serving, Written, fileVars
<1>4. QED
  BY <1>1, <1>2, <1>3 DEF SyncInv

LEMMA KeyFailsKeeps ==
    ASSUME SyncInv, KeyFails
    PROVE  SyncInv'
BY CircuitsKeep DEF KeyFails, SyncInv, Typed

LEMMA ResetKeeps ==
    ASSUME SyncInv, Reset
    PROVE  SyncInv'
BY CircuitsKeep DEF Reset, SyncInv, Typed

LEMMA CheckFailsKeeps ==
    ASSUME SyncInv, CheckFails
    PROVE  SyncInv'
BY CircuitsKeep DEF CheckFails, SyncInv, Typed

LEMMA CheckBeginsKeeps ==
    ASSUME SyncInv, CheckBegins
    PROVE  SyncInv'
<1>1. PICK s \in DOMAIN sources :
          check' = [there |-> TRUE, source |-> s, keys |-> pool.keys, renewed |-> {},
                    gone |-> FALSE]
  BY DEF CheckBegins
<1>2. Free /\ Save /\ UNCHANGED <<sources, pool, cooled, interval, task, op, remote>>
  BY DEF CheckBegins
<1>3. s \in Ids /\ pool.keys \subseteq Keys
  BY <1>2, WhenFree DEF SyncInv, Typed, Pool
<1>4. check' \in Check /\ Checked'
  BY <1>1, <1>2, <1>3 DEF Check, Checked
<1>5. OneCall'
  BY <1>2 DEF SyncInv, OneCall
<1>6. op' \in Call /\ op'.session <= remote.token /\ op' # Down
      /\ task' \in {"none", "sleeping", "syncing"}
  BY <1>2, WhenFree DEF SyncInv, Typed
<1>7. QED
  BY <1>2, <1>4, <1>5, <1>6, WhenFree, SaveKeeps

\* A verdict changes the pool of the source that was probed, if that is still
\* the source of the URL, and opens circuits of its entries.
LEMMA CheckAppliesKeeps ==
    ASSUME SyncInv, CheckApplies
    PROVE  SyncInv'
<1> DEFINE s   == check.source
           old == sources[s].rejected
           of(answer, a) == {g \in DOMAIN answer : answer[g] = a}
<1>1. /\ Free /\ check.there /\ ~check.gone /\ check' = NoCheck
      /\ UNCHANGED <<interval, task, op, remote>>
  BY DEF CheckApplies, SameEntries
<1>2. /\ s \in DOMAIN sources /\ op = NoOp /\ op # Down /\ sources[s] \in Source
      /\ DOMAIN sources = {s}
  BY <1>1, WhenFree DEF SyncInv, Checked
<1>3. PICK answer \in [{GroupOf[k] : k \in check.keys} ->
                          {"available", "unsupported", "refused", "down"}] :
         LET new == (old \ of(answer, "available")) \cup of(answer, "unsupported")
         IN  /\ sources' = [sources EXCEPT ![s].rejected = new]
             /\ pool' = IF new = old THEN pool ELSE PoolFrom(sources'[s])
             /\ cooled' = (cooled \cup (check.keys \cap InGroups(of(answer, "down"))))
                             \cap pool'.keys
             /\ IF new = old THEN UNCHANGED fileVars ELSE SaveOrDefer
  BY DEF CheckApplies
<1> DEFINE new == (old \ of(answer, "available")) \cup of(answer, "unsupported")
<1>4. /\ sources' = [sources EXCEPT ![s].rejected = new]
      /\ pool' = IF new = old THEN pool ELSE PoolFrom(sources'[s])
      /\ cooled' \subseteq pool'.keys
      /\ \/ Save
         \/ dirty' = TRUE /\ UNCHANGED disk
         \/ UNCHANGED fileVars /\ new = old
  BY <1>3 DEF SaveOrDefer
<1>5. DOMAIN answer \subseteq Groups
  BY Constants DEF SyncInv, Typed, Check
<1>6. new \in SUBSET Groups
  BY <1>2, <1>5 DEF Source
<1> HIDE DEF new
<1>7. /\ Owned(sources', remote.token) /\ DOMAIN sources' = {s} /\ sources'[s] \in Source
      /\ Owned(disk'.sources, remote.token)
      /\ dirty' \in BOOLEAN /\ interval' \in BOOLEAN /\ disk'.interval \in BOOLEAN
      /\ Written'
  BY <1>1, <1>2, <1>4, <1>6, RejectedOnly
<1>8. pool' \in Pool
  BY <1>4, <1>7, PoolTypes DEF SyncInv, Typed
<1>9. sources'[s] = [sources[s] EXCEPT !.rejected = new]
  BY <1>2, <1>4
<1>10. Serving'
  <2>1. sources'[s].synced = sources[s].synced
    BY <1>2, <1>9 DEF Source
  <2>2. CASE new = old
    <3>1. PoolFrom(sources'[s]) = PoolFrom(sources[s])
      BY <1>2, <1>7, <1>9, <2>2, PoolOfSession DEF Source
    <3>2. QED
      BY <1>2, <1>4, <1>7, <2>1, <2>2, <3>1 DEF SyncInv, Serving
  <2>3. CASE new # old
    BY <1>4, <1>7, <2>3 DEF Serving
  <2>4. QED
    BY <2>2, <2>3
<1>11. Typed' /\ Checked'
  BY <1>1, <1>4, <1>7, <1>8, Calls DEF SyncInv, Typed, Checked
<1>12. OneCall'
  BY <1>1, <1>2, Calls DEF SyncInv, OneCall
<1>13. QED
  BY <1>7, <1>10, <1>11, <1>12 DEF SyncInv

-----------------------------------------------------------------------------
(* The end of the process, and the next one.                               *)

\* Whatever call was under way: the next process finds a file of one source.
LEMMA DiesKeeps ==
    ASSUME SyncInv, Dies, disk' \in {disk, [sources |-> sources, interval |-> interval]}
    PROVE  SyncInv'
<1>1. /\ op' = Down /\ sources' = <<>> /\ pool' = NoPool /\ cooled' = {}
      /\ check' = NoCheck /\ dirty' = FALSE /\ interval' = TRUE /\ task' = "none"
      /\ UNCHANGED remote
  BY DEF Dies
<1>2. remote.token \in Nat /\ 0 <= remote.token
  BY Constants DEF SyncInv, Typed
<1>3. Owned(sources', remote.token)
  BY <1>1, <1>2, NoSources, OwnedLater
<1>4. Owned(disk'.sources, remote.token)
  BY DEF SyncInv, Typed
<1>5. dirty' \in BOOLEAN /\ interval' \in BOOLEAN /\ disk'.interval \in BOOLEAN
  <2>1. disk' = disk \/ disk'.interval = interval
    OBVIOUS
  <2>2. interval \in BOOLEAN /\ disk.interval \in BOOLEAN
    BY DEF SyncInv, Typed
  <2>3. QED
    BY <1>1, <2>1, <2>2
<1>6. op' \in Call /\ op'.session <= remote.token /\ check' \in Check
  BY <1>1, <1>2, Calls
<1>7. Typed'
  BY <1>1, <1>3, <1>4, <1>5, <1>6, PoolTypes DEF SyncInv, Typed
<1>8. OneCall' /\ Serving' /\ Written' /\ Checked'
  BY <1>1, Calls DEF OneCall, Serving, Written, Checked
<1>9. QED
  BY <1>7, <1>8 DEF SyncInv

\* The pool is made of the one source of the file that serves it.
LEMMA RestoredServes ==
    ASSUME NEW saved, NEW token \in Nat, Owned(saved, token)
    PROVE  /\ Restored(saved) \in Pool
           /\ \A s \in DOMAIN saved : saved[s].synced => Restored(saved) = PoolFrom(saved[s])
           /\ DOMAIN saved = {} => Restored(saved) = StaticPool
<1> DEFINE active == {s \in DOMAIN saved : saved[s].synced \/ saved[s].entries # {}}
<1>1. Restored(saved) = IF active = {} THEN StaticPool
                                       ELSE PoolFrom(saved[CHOOSE s \in active : TRUE])
  BY DEF Restored
<1>2. \A s \in active : active = {s} /\ saved[s] \in Source
  BY DEF Owned
<1>3. \A s \in active : (CHOOSE t \in active : TRUE) = s
  BY <1>2
<1>4. \A s \in active : Restored(saved) = PoolFrom(saved[s])
  BY <1>1, <1>3
<1>5. QED
  BY <1>1, <1>2, <1>4, PoolTypes

LEMMA BootKeeps ==
    ASSUME SyncInv, Boot
    PROVE  SyncInv'
<1>1. /\ op = Down /\ op' = NoOp /\ sources' = disk.sources /\ interval' = disk.interval
      /\ pool' = Restored(disk.sources) /\ task' \in {"none", "sleeping"}
      /\ UNCHANGED <<cooled, check, disk, dirty, remote>>
  BY DEF Boot, fileVars
<1>2. remote.token \in Nat /\ 0 <= remote.token
  BY Constants DEF SyncInv, Typed
<1>3. /\ pool' \in Pool
      /\ \A s \in DOMAIN sources' : sources'[s].synced => pool' = PoolFrom(sources'[s])
      /\ DOMAIN sources' = {} => pool' = StaticPool
  BY <1>1, <1>2, RestoredServes DEF SyncInv, Typed
<1>4. pool.keys = {} /\ cooled' = {} /\ ~(check.there /\ ~check.gone)
  BY <1>1, NoSources DEF SyncInv, Typed, OneCall, Checked, NoPool
<1>5. op' \in Call /\ op'.session <= remote.token
  BY <1>1, <1>2, Calls
<1>6. interval' \in BOOLEAN /\ dirty' \in BOOLEAN /\ disk'.interval \in BOOLEAN
  BY <1>1 DEF SyncInv, Typed
<1>7. Typed'
  BY <1>1, <1>3, <1>4, <1>5, <1>6 DEF SyncInv, Typed
<1>8. OneCall'
  BY <1>1, Calls DEF OneCall
<1>9. Serving' /\ Written' /\ Checked'
  BY <1>1, <1>3, <1>4 DEF SyncInv, Serving, Written, Checked
<1>10. QED
  BY <1>7, <1>8, <1>9 DEF SyncInv

-----------------------------------------------------------------------------
(* Every step.                                                             *)

LEMMA NextKeeps ==
    ASSUME SyncInv, [SyncNext]_syncVars
    PROVE  SyncInv'
<1>1. CASE Connect \/ LoginOk \/ LoginFails \/ Ask \/ AutoSync
  BY <1>1, ConnectKeeps, LoginOkKeeps, LoginFailsKeeps, AskKeeps, AutoSyncKeeps
<1>2. CASE Refresh \/ RequestFails \/ WriteOne \/ WritesEnd \/ CatalogOk \/ FetchOk
  BY <1>2, RefreshKeeps, RequestFailsKeeps, WriteOneKeeps, WritesEndKeeps, CatalogOkKeeps,
     FetchOkKeeps
<1>3. CASE SetKeyEnabled \/ SetGroupRules \/ SetExperience \/ MarkUnsupported
  BY <1>3, SetKeyEnabledKeeps, SetGroupRulesKeeps, SetExperienceKeeps, MarkUnsupportedKeeps
<1>4. CASE AddManualKeys \/ RemoveManualKeys \/ Delete \/ Disconnect
  BY <1>4, AddManualKeysKeeps, RemoveManualKeysKeeps, DeleteKeeps, DisconnectKeeps
<1>5. CASE SetInterval \/ SetSettings
  BY <1>5, SetIntervalKeeps, SetSettingsKeeps
<1>6. CASE KeyFails \/ Reset \/ CheckBegins \/ CheckApplies \/ CheckFails
  BY <1>6, KeyFailsKeeps, ResetKeeps, CheckBeginsKeeps, CheckAppliesKeeps, CheckFailsKeeps
<1>7. CASE Crash \/ Stop
  BY <1>7, DiesKeeps DEF Crash, Stop
<1>8. CASE Boot
  BY <1>8, BootKeeps
<1>9. CASE UNCHANGED syncVars
  <2>1. Typed'
    BY <1>9 DEF syncVars, poolVars, fileVars, SyncInv, Typed
  <2>2. OneCall' /\ Serving' /\ Written' /\ Checked'
    BY <1>9 DEF syncVars, SyncInv, OneCall, Serving, Written, Checked
  <2>3. QED
    BY <2>1, <2>2 DEF SyncInv
<1>10. QED
  BY <1>1, <1>2, <1>3, <1>4, <1>5, <1>6, <1>7, <1>8, <1>9 DEF SyncNext

\* The inductive invariant, whatever the adapters, keys, groups and static
\* pool are, and whether or not adapters renew sessions in place.
THEOREM SyncInvariant == SyncSpec => []SyncInv
<1>1. SyncInit => SyncInv
  BY InitHolds
<1>2. SyncInv /\ [SyncNext]_syncVars => SyncInv'
  BY NextKeeps
<1>3. QED
  BY <1>1, <1>2, PTL DEF SyncSpec

\* Every variable has its type; the circuits open are those of keys the pool
\* has, and no session was issued later than the provider's current one.
THEOREM SyncTypeCorrect == SyncSpec => []SyncTypeOK
<1>1. SyncInv => SyncTypeOK
  <2> SUFFICES ASSUME SyncInv PROVE SyncTypeOK
    OBVIOUS
  <2>1. /\ DOMAIN sources \subseteq Ids /\ \A s \in DOMAIN sources : sources[s] \in Source
        /\ DOMAIN disk.sources \subseteq Ids
        /\ \A s \in DOMAIN disk.sources : disk.sources[s] \in Source
    BY DEF SyncInv, Typed, Owned
  <2>2. pool \in Pool /\ cooled \subseteq pool.keys
    BY DEF SyncInv, Typed
  <2>3. {dirty, interval, disk.interval} \subseteq BOOLEAN
    BY DEF SyncInv, Typed
  <2>4. task \in {"none", "sleeping", "syncing"} /\ (task = "syncing" <=> op.kind = "auto")
    BY DEF SyncInv, Typed, OneCall
  <2>5. op.source \in Ids /\ op.session \in 0 .. remote.token
    BY Constants DEF SyncInv, Typed, Call
  <2>6. check.keys \subseteq Keys /\ (check.there \/ check = NoCheck)
    BY DEF SyncInv, Typed, Checked, Check
  <2>7. remote.keys \subseteq Keys /\ remote.token \in 0 .. MaxRotations
    BY DEF SyncInv, Typed
  <2>8. QED
    BY <2>1, <2>2, <2>3, <2>4, <2>5, <2>6, <2>7 DEF SyncTypeOK, Pool
<1>2. QED
  BY <1>1, SyncInvariant, PTL

\* connect, delete and add_manual_keys, in any order and with crashes between
\* their awaits, leave one source of an upstream URL at most.
THEOREM UrlHasOneOwner == SyncSpec => []OneOwner
<1>1. SyncInv => OneOwner
  <2> SUFFICES ASSUME SyncInv PROVE Cardinality(DOMAIN sources) <= 1
    BY DEF OneOwner
  <2>1. CASE DOMAIN sources = {}
    BY <2>1, FS_EmptySet
  <2>2. ASSUME NEW s \in DOMAIN sources PROVE Cardinality(DOMAIN sources) <= 1
    <3>1. DOMAIN sources = {s}
      BY DEF SyncInv, Typed, Owned
    <3>2. QED
      BY <3>1, FS_Singleton
  <2>3. QED
    BY <2>1, <2>2
<1>2. QED
  BY <1>1, SyncInvariant, PTL

\* Between two calls, and after a restart, the pool is what its source says
\* after its last sync, and the static pool when there is no source.
THEOREM PoolFollowsSource == SyncSpec => []PoolServesSource
<1>1. SyncInv => PoolServesSource
  BY Calls DEF SyncInv, Serving, PoolServesSource, Free
<1>2. QED
  BY <1>1, SyncInvariant, PTL

\* Between two calls the state file lacks nothing but the models a source was
\* told it has not, and those only while a write is due.
THEOREM FileFollowsSources == SyncSpec => []DiskIsCurrent
<1>1. SyncInv => DiskIsCurrent
  BY Calls DEF SyncInv, Written, Settled, DiskIsCurrent, Free
<1>2. QED
  BY <1>1, SyncInvariant, PTL

-----------------------------------------------------------------------------
(* Sessions and verdicts.                                                  *)

\* With an adapter that renews in place, a current session that the call or the
\* source holds is the source's.
LEMMA HeldByTheSource ==
    ASSUME SyncInv, InPlace, NEW s \in DOMAIN sources, Connected(s), Held(s)
    PROVE  /\ s \in Online /\ remote.token = sources[s].session
           /\ DOMAIN sources = {s} /\ sources[s] \in Source
<1>1. s \in Online /\ DOMAIN sources = {s} /\ sources[s] \in Source
  BY DEF Connected, SyncInv, Typed, Owned
<1>2. CASE op.source = s /\ op.session = remote.token
  <2>1. op.stage # "none"
    BY <1>1, <1>2, Calls, Constants DEF SyncInv, OneCall
  <2>2. QED
    BY <1>1, <1>2, <2>1 DEF SyncInv, OneCall
<1>3. QED
  BY <1>1, <1>2 DEF Held

LEMMA StepKeepsSession ==
    ASSUME SyncInv, InPlace, SyncNext, NEW s \in DOMAIN sources, s \in DOMAIN sources',
           Connected(s), Held(s), sources'[s].session > 0
    PROVE  remote'.token = sources'[s].session
<1>1. /\ s \in Online /\ s # Manual /\ remote.token = sources[s].session
      /\ DOMAIN sources = {s} /\ sources[s] \in Source
  BY HeldByTheSource, Constants
<1>2. op # Down
  BY <1>1, NoSources DEF SyncInv, OneCall
<1>3. CASE remote'.token = remote.token /\ sources'[s].session = sources[s].session
  BY <1>1, <1>3
<1>4. CASE Connect \/ LoginFails \/ Ask \/ AutoSync \/ RequestFails \/ SetInterval \/ SetSettings
  BY <1>4, <1>3 DEF Connect, LoginFails, Ask, AutoSync, RequestFails, SetInterval, SetSettings
<1>5. CASE KeyFails \/ Reset \/ CheckBegins \/ CheckFails
  BY <1>5, <1>3 DEF KeyFails, Reset, CheckBegins, CheckFails
<1>6. CASE WriteOne
  BY <1>6, <1>3 DEF WriteOne, Create, Clear, SyncInv, Typed
<1>7. CASE LoginOk
  <2>1. op.source = s
    BY <1>7 DEF LoginOk, Without, TakenOver, Conflict
  <2>2. sources'[s] = [sources[s] EXCEPT !.session = remote.token + 1]
    BY <1>1, <1>7, <2>1 DEF LoginOk, LoggedIn, Mine
  <2>3. sources'[s].session = remote.token + 1
    BY <1>1, <2>2 DEF Source
  <2>4. QED
    BY <1>7, <2>3 DEF LoginOk, SyncInv, Typed
<1>8. CASE Refresh
  <2>1. op.source = s
    BY <1>1, <1>8 DEF Refresh, SyncInv, OneCall
  <2>2. sources'[s] = [sources[s] EXCEPT !.session = remote.token + 1]
    BY <1>1, <1>8, <2>1 DEF Refresh, RenewInPlace
  <2>3. sources'[s].session = remote.token + 1
    BY <1>1, <2>2 DEF Source
  <2>4. QED
    BY <1>8, <2>3 DEF Refresh, SyncInv, Typed
<1>9. CASE WritesEnd \/ CatalogOk
  <2>1. /\ op.source = s /\ op.session = remote.token /\ remote' = remote
        /\ sources' = [sources EXCEPT ![op.source].session = op.session]
    BY <1>1, <1>9 DEF WritesEnd, CatalogOk, SyncInv, OneCall
  <2>2. sources'[s] = [sources[s] EXCEPT !.session = remote.token]
    BY <1>1, <2>1
  <2>3. QED
    BY <1>1, <2>1, <2>2 DEF Source
<1>10. CASE FetchOk
  <2>1. op.source = s /\ op.session = remote.token /\ remote'.token = remote.token
    BY <1>1, <1>10 DEF FetchOk, SyncInv, OneCall, Typed
  <2>2. PICK open \in SUBSET Groups, bad \in SUBSET Groups :
            sources'[s] = Synced(sources[s], open, bad)
    BY <1>1, <1>10, <2>1 DEF FetchOk, Apply, Put, Mine
  <2>3. sources'[s].session = op.session
    BY <1>1, <2>2 DEF Synced, Source
  <2>4. QED
    BY <2>1, <2>3
<1>11. CASE SetKeyEnabled \/ SetGroupRules \/ SetExperience
  <2>1. PICK new \in {sources[s]} \cup {Toggled(sources[s], k) : k \in sources[s].entries}
                     \cup {[sources[s] EXCEPT !.failing = bad] : bad \in SUBSET Groups} :
            sources'[s] = new
    BY <1>1, <1>11 DEF SetKeyEnabled, SetGroupRules, SetExperience, Change, Apply, Put
  <2>2. new.session = sources[s].session
    BY <1>1 DEF Toggled, Source
  <2>3. remote' = remote
    BY <1>11 DEF SetKeyEnabled, SetGroupRules, SetExperience, Change
  <2>4. QED
    BY <1>3, <2>1, <2>2, <2>3
<1>12. CASE MarkUnsupported \/ CheckApplies
  <2>1. \E new : sources'[s] = [sources[s] EXCEPT !.rejected = new]
    <3>1. CASE MarkUnsupported
      BY <1>1, <3>1 DEF MarkUnsupported, Put
    <3>2. CASE CheckApplies
      <4>1. PICK new : sources' = [sources EXCEPT ![check.source].rejected = new]
        BY <3>2 DEF CheckApplies
      <4>2. check.source = s
        BY <1>1, <3>2 DEF CheckApplies, SameEntries, SyncInv, Checked
      <4>3. QED
        BY <1>1, <4>1, <4>2
    <3>3. QED
      BY <1>12, <3>1, <3>2
  <2>2. remote' = remote
    BY <1>12 DEF MarkUnsupported, CheckApplies
  <2>3. QED
    BY <1>1, <1>3, <2>1, <2>2 DEF Source
<1>13. ~AddManualKeys /\ ~RemoveManualKeys
  BY <1>1 DEF AddManualKeys, RemoveManualKeys
<1>14. ~Delete
  BY <1>1 DEF Delete, Drop, Without
<1>15. ~Disconnect
  <2>1. ASSUME Disconnect PROVE FALSE
    <3>1. sources'[s] = [sources[s] EXCEPT !.session = 0]
      BY <1>1, <2>1 DEF Disconnect
    <3>2. sources'[s].session = 0
      BY <1>1, <3>1 DEF Source
    <3>3. QED
      BY <3>2
  <2>2. QED
    BY <2>1
<1>16. ~Crash /\ ~Stop /\ ~Boot
  BY <1>2, NoSources DEF Crash, Stop, Dies, Boot
<1>17. QED
  BY <1>4, <1>5, <1>6, <1>7, <1>8, <1>9, <1>10, <1>11, <1>12, <1>13, <1>14, <1>15, <1>16
     DEF SyncNext

\* A refresh token that replaced another is never lost while the process runs,
\* when the adapter renews the session of the source itself, as sub2api does:
\* whatever fails after it, the source has it.
THEOREM SessionsAreKept ==
    ASSUME InPlace
    PROVE  SyncSpec => SessionsSurvive
<1>1. SyncInv /\ [SyncNext]_syncVars =>
        [\A s \in DOMAIN sources \cap DOMAIN sources' :
             Connected(s) /\ Held(s) /\ Connected(s)' => Held(s)']_syncVars
  <2> SUFFICES ASSUME SyncInv, SyncNext, NEW s \in DOMAIN sources, s \in DOMAIN sources',
                      Connected(s), Held(s), Connected(s)'
               PROVE  Held(s)'
    OBVIOUS
  <2>1. sources'[s].session > 0
    BY DEF Connected
  <2>2. QED
    BY <2>1, StepKeepsSession DEF Held
<1>2. QED
  BY <1>1, SyncInvariant, PTL DEF SyncSpec, SessionsSurvive

\* An availability check opens circuits of entries that it probed and that are
\* still the pool's, and of none when its source is gone.
THEOREM OnlyFreshVerdicts == SyncSpec => VerdictsAreFresh
<1>1. SyncInv /\ [SyncNext]_syncVars =>
        [check.there /\ ~check'.there =>
             cooled' \ cooled \subseteq IF check.gone THEN {}
                                        ELSE check.keys \ check.renewed]_syncVars
  <2> SUFFICES ASSUME SyncInv, SyncNext, check.there, ~check'.there
               PROVE  cooled' \ cooled \subseteq IF check.gone THEN {}
                                                 ELSE check.keys \ check.renewed
    OBVIOUS
  <2>1. CASE CheckApplies
    <3>1. ~check.gone /\ check.renewed \cap check.keys = {}
      BY <2>1 DEF CheckApplies, SameEntries
    <3>2. cooled' \subseteq cooled \cup check.keys
      BY <2>1 DEF CheckApplies
    <3>3. QED
      BY <3>1, <3>2
  <2>2. CASE cooled' \subseteq cooled
    BY <2>2
  <2>3. CASE KeyFails \/ CheckFails \/ CheckBegins
    BY <2>2, <2>3 DEF KeyFails, CheckFails, CheckBegins
  <2>4. CASE Connect \/ LoginOk \/ LoginFails \/ Ask \/ AutoSync \/ Refresh \/ RequestFails
    BY <2>2, <2>4 DEF Connect, LoginOk, LoginFails, Ask, AutoSync, Refresh, RequestFails, poolVars
  <2>5. CASE WriteOne \/ WritesEnd \/ CatalogOk \/ FetchOk
    BY <2>2, <2>5 DEF WriteOne, WritesEnd, CatalogOk, FetchOk, Apply, Swap, poolVars
  <2>6. CASE SetKeyEnabled \/ SetGroupRules \/ SetExperience \/ MarkUnsupported \/ AddManualKeys
    BY <2>2, <2>6 DEF SetKeyEnabled, SetGroupRules, SetExperience, MarkUnsupported,
                      AddManualKeys, Change, Apply, Swap
  <2>7. CASE RemoveManualKeys \/ Delete \/ Disconnect \/ SetInterval \/ SetSettings \/ Reset
    BY <2>2, <2>7 DEF RemoveManualKeys, Delete, Drop, Disconnect, SetInterval, SetSettings,
                      Reset, Apply, Swap, poolVars
  <2>8. CASE Crash \/ Stop \/ Boot
    BY <2>2, <2>8 DEF Crash, Stop, Dies, Boot
  <2>9. QED
    BY <2>1, <2>3, <2>4, <2>5, <2>6, <2>7, <2>8 DEF SyncNext
<1>2. QED
  BY <1>1, SyncInvariant, PTL DEF SyncSpec, VerdictsAreFresh
=============================================================================

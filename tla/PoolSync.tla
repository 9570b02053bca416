------------------------------ MODULE PoolSync ------------------------------
(***************************************************************************)
(* PoolSyncManager (pool_sync.py) and what it asks of its adapters: the    *)
(* sources of one upstream URL, the pool that serves it, the state file,   *)
(* the periodic task, and the provider's account behind the adapter.       *)
(*                                                                         *)
(* Administrators' calls hold one asyncio lock while they await the        *)
(* provider; op is the call that holds it.  A call that awaits nothing     *)
(* but the lock is one step.  Availability checks probe without the lock,  *)
(* and the process may die anywhere.  A runtime entry of the pool lives as *)
(* long as hot updates keep its key.                                       *)
(***************************************************************************)
EXTENDS Naturals, FiniteSets

CONSTANTS
    Online,         \* adapters that sync, one source each: source ids
    Manual,         \* the source of keys that were added by hand
    Keys,
    Groups,
    GroupOf,        \* [Keys -> Groups]
    Static,         \* keys of the URL's static pool, {} for no pool
    InPlace,        \* does the adapter refresh the session it was given
    MaxRotations    \* bound on the provider's refresh tokens

ASSUME PoolSyncAssumption ==
    /\ Manual \notin Online
    /\ GroupOf \in [Keys -> Groups]
    /\ Static \subseteq Keys
    /\ InPlace \in BOOLEAN
    /\ MaxRotations \in Nat

VARIABLES
    sources,        \* self.sources
    pool,           \* self.pools[url]
    cooled,         \* keys with an open circuit
    disk, dirty,    \* the state file, _state_dirty
    interval,       \* is key_pool_sync_interval > 0
    task,           \* _task: "none", "sleeping" or "syncing"
    op,             \* the call that holds the lock
    check,          \* the availability check in flight
    remote          \* the account at the provider: its keys, its current token

syncVars == <<sources, pool, cooled, disk, dirty, interval, task, op, check,
              remote>>

poolVars == <<pool, cooled, check>>
fileVars == <<disk, dirty>>

Ids == Online \cup {Manual}

-----------------------------------------------------------------------------
(* Sources and the pools they make *)

NoPool     == [there |-> FALSE, keys |-> {}, rejected |-> {}]
StaticPool == [there |-> Static # {}, keys |-> Static, rejected |-> {}]

NewSource == [session |-> 0, entries |-> {}, disabled |-> {}, failing |-> {},
              rejected |-> {}, synced |-> FALSE]

Connected(s) == s \in Online /\ sources[s].session > 0

HasConnected == \E s \in DOMAIN sources : Connected(s)

InGroups(gs) == {k \in Keys : GroupOf[k] \in gs}

\* A key that was disabled, or whose group fails the detection, is left out.
Allowed(source) == source.entries \ (source.disabled \cup InGroups(source.failing))

\* _pool_from_source, _routing_capabilities
PoolFrom(source) ==
    [there |-> TRUE, keys |-> Allowed(source), rejected |-> source.rejected]

WithKeys(saved) ==                                      \* mutant of Restored
    LET active == {s \in DOMAIN saved : saved[s].entries # {}}
    IN  IF active = {} THEN StaticPool ELSE PoolFrom(saved[CHOOSE s \in active : TRUE])

\* load_state: a source that was synced, even without a key, serves the URL.
Restored(saved) ==
    LET active == {s \in DOMAIN saved : saved[s].synced \/ saved[s].entries # {}}
    IN  IF active = {} THEN StaticPool ELSE PoolFrom(saved[CHOOSE s \in active : TRUE])

\* replace_key_pool, or pools.pop: entries whose key stays are kept with their
\* circuits, and the others are new objects, unknown to a check in flight.
Swap(new) ==
    /\ pool' = new
    /\ cooled' = cooled \cap new.keys
    /\ check' = [check EXCEPT !.renewed = IF check.there THEN @ \cup (new.keys \ pool.keys)
                                          ELSE {}]

Put(s, source) == [t \in DOMAIN sources \cup {s} |-> IF t = s THEN source ELSE sources[t]]
Without(ss)    == [t \in DOMAIN sources \ ss |-> sources[t]]

Save == disk' = [sources |-> sources', interval |-> interval] /\ dirty' = FALSE

\* _save_state_throttled
SaveOrDefer == Save \/ (dirty' = TRUE /\ UNCHANGED disk)

SwapOnly(s, source) ==                                  \* mutant of Apply
    sources' = Put(s, source) /\ Swap(PoolFrom(source)) /\ UNCHANGED fileVars

\* _activate and _save_state after a source was changed.
Apply(s, source) == sources' = Put(s, source) /\ Swap(PoolFrom(source)) /\ Save

-----------------------------------------------------------------------------
(* The lock *)

NoOp == [kind |-> "none", stage |-> "none", source |-> Manual, session |-> 0,
         groups |-> {}]

Free == op = NoOp

Mine == sources[op.source]

NoCheck == [there |-> FALSE, source |-> Manual, keys |-> {}, renewed |-> {},
            gone |-> FALSE]

Begin(kind, s, stage, gs) ==
    op' = [kind |-> kind, stage |-> stage, source |-> s, groups |-> gs,
           session |-> IF s \in DOMAIN sources THEN sources[s].session ELSE 0]

\* start, and the stop of a call that left no connection.
Started == IF task = "none" /\ interval /\ HasConnected' THEN "sleeping" ELSE task
Stopped == IF HasConnected' THEN task ELSE "none"

SyncInit ==
    /\ sources = <<>> /\ pool = StaticPool /\ cooled = {}
    /\ interval = TRUE /\ disk = [sources |-> <<>>, interval |-> TRUE] /\ dirty = FALSE
    /\ task = "none" /\ op = NoOp /\ check = NoCheck
    /\ remote \in [keys : SUBSET Keys, token : {0}]

-----------------------------------------------------------------------------
(* connect, and what starts a request of the adapter *)

Conflict(s) == DOMAIN sources \ {s}

Connect ==
    /\ Free
    /\ \E s \in Online :
          /\ \A t \in Conflict(s) : ~Connected(t) /\ t # Manual
          /\ Begin("connect", s, "login", {})
    /\ UNCHANGED <<sources, poolVars, fileVars, interval, task, remote>>

KeepBoth(s) == {}                                       \* mutant of TakenOver

\* A source of the same URL that is not connected gives way.
TakenOver(s) == Conflict(s)

\* adapter.connect
LoggedIn(source) == [source EXCEPT !.session = remote.token + 1]

LoginOk ==
    /\ op.stage = "login" /\ remote.token < MaxRotations
    /\ remote' = [remote EXCEPT !.token = @ + 1]
    /\ LET s      == op.source
           others == Without(TakenOver(s))
           source == LoggedIn(IF s \in DOMAIN sources THEN Mine ELSE NewSource)
       IN  /\ sources' = [t \in DOMAIN others \cup {s} |->
                             IF t = s THEN source ELSE others[t]]
           /\ check' = [check EXCEPT !.gone = @ \/ (check.there /\ check.source \in TakenOver(s))]
    /\ op' = [op EXCEPT !.stage = "fetch", !.session = remote.token + 1]
    /\ Save
    /\ UNCHANGED <<pool, cooled, interval, task>>

LoginFails ==
    /\ op.stage = "login"
    /\ op' = NoOp
    /\ UNCHANGED <<sources, poolVars, fileVars, interval, task, remote>>

\* sync_now and catalog; create_keys and clear_keys of some groups.
Ask ==
    /\ Free
    /\ \E s \in DOMAIN sources :
          /\ Connected(s)
          /\ \/ Begin("sync", s, "fetch", {})
             \/ Begin("catalog", s, "catalog", {})
             \/ \E gs \in SUBSET Groups \ {{}}, kind \in {"create", "clear"} :
                   Begin(kind, s, "write", gs)
    /\ UNCHANGED <<sources, poolVars, fileVars, interval, task, remote>>

\* _run after its sleep
AutoSync ==
    /\ Free /\ task = "sleeping"
    /\ \E s \in DOMAIN sources : Connected(s) /\ Begin("auto", s, "fetch", {})
    /\ task' = "syncing"
    /\ UNCHANGED <<sources, poolVars, fileVars, interval, remote>>

-----------------------------------------------------------------------------
(* Requests of an adapter *)

\* new_api renews a copy, which the source gets when the call has succeeded.
RenewCopy(s, token) == sources

\* sub2api renews the session of the source itself.
RenewInPlace(s, token) == [sources EXCEPT ![s].session = token]

\* The access token has expired: the refresh token is spent for the next one.
Refresh ==
    /\ op.stage \in {"fetch", "write", "catalog"} /\ op.session = remote.token
    /\ remote.token < MaxRotations
    /\ remote' = [remote EXCEPT !.token = @ + 1]
    /\ op' = [op EXCEPT !.session = remote.token + 1]
    /\ sources' = IF InPlace THEN RenewInPlace(op.source, remote.token + 1)
                  ELSE RenewCopy(op.source, remote.token + 1)
    /\ UNCHANGED <<poolVars, fileVars, interval, task>>

Resumed == IF op.kind = "auto" THEN "sleeping" ELSE task

\* A request failed, with a spent token or otherwise: what is known is saved.
RequestFails ==
    /\ op.stage \in {"fetch", "write", "catalog"}
    /\ op' = NoOp
    /\ task' = Resumed
    /\ UNCHANGED sources
    /\ Save
    /\ UNCHANGED <<poolVars, interval, remote>>

Create(g) ==
    \E k \in InGroups({g}) \ remote.keys : remote' = [remote EXCEPT !.keys = @ \cup {k}]

Clear(g) ==
    \E gone \in SUBSET (InGroups({g}) \cap remote.keys) :
       remote' = [remote EXCEPT !.keys = @ \ gone]

\* The groups are asked one after another, whether or not the last one worked.
WriteOne ==
    /\ op.stage = "write" /\ op.session = remote.token
    /\ \E g \in op.groups :
          /\ op' = [op EXCEPT !.groups = @ \ {g}]
          /\ \/ UNCHANGED remote
             \/ op.kind = "create" /\ Create(g)
             \/ op.kind = "clear" /\ Clear(g)
    /\ UNCHANGED <<sources, poolVars, fileVars, interval, task>>

\* All were asked, or the provider's rate limit was met: the session is stored
\* and the source is synced under the same lock.
WritesEnd ==
    /\ op.stage = "write" /\ op.session = remote.token
    /\ sources' = [sources EXCEPT ![op.source].session = op.session]
    /\ op' = [op EXCEPT !.stage = "fetch", !.groups = {}]
    /\ Save
    /\ UNCHANGED <<poolVars, interval, task, remote>>

CatalogOk ==
    /\ op.stage = "catalog" /\ op.session = remote.token
    /\ sources' = [sources EXCEPT ![op.source].session = op.session]
    /\ op' = NoOp
    /\ Save
    /\ UNCHANGED <<poolVars, interval, task, remote>>

\* fetch: the keys of closed groups are deleted at the provider, as far as it
\* answers, and left out in any case.
Offered(open) == remote.keys \cap InGroups(open)

Synced(source, open, bad) ==
    [source EXCEPT !.session = op.session, !.entries = Offered(open),
                   !.failing = bad, !.synced = TRUE]

\* _sync_source_locked: detection results are renewed if their service answers.
FetchOk ==
    /\ op.stage = "fetch" /\ op.session = remote.token
    /\ \E open \in SUBSET Groups, bad \in SUBSET Groups :
          /\ \E left \in SUBSET (remote.keys \ Offered(open)) :
                remote' = [remote EXCEPT !.keys = Offered(open) \cup left]
          /\ Apply(op.source, Synced(Mine, open, bad))
    /\ op' = NoOp
    /\ task' = IF op.kind = "connect" THEN Started ELSE Resumed
    /\ UNCHANGED interval

-----------------------------------------------------------------------------
(* Changes of a source *)

Change(s, source) ==
    /\ Apply(s, source)
    /\ UNCHANGED <<interval, task, op, remote>>

Toggled(source, k) ==
    [source EXCEPT !.disabled = IF k \in @ THEN @ \ {k} ELSE @ \cup {k}]

SetKeyEnabled ==
    /\ Free
    /\ \E s \in DOMAIN sources : \E k \in sources[s].entries :
          Change(s, Toggled(sources[s], k))

\* set_experience_source and set_experience_mapping: their service names the
\* groups that fail its detection.
SetExperience ==
    /\ Free
    /\ \E s \in DOMAIN sources, bad \in SUBSET Groups :
          Change(s, [sources[s] EXCEPT !.failing = bad])

\* A request was told that the group has no such model.
MarkUnsupported ==
    /\ Free
    /\ \E s \in DOMAIN sources, g \in Groups :
          /\ g \notin sources[s].rejected
          /\ LET new == [sources[s] EXCEPT !.rejected = @ \cup {g}]
             IN  sources' = Put(s, new) /\ Swap(PoolFrom(new))
    /\ SaveOrDefer
    /\ UNCHANGED <<interval, task, op, remote>>

AddManualKeys ==
    /\ Free /\ DOMAIN sources \cap Online = {}
    /\ LET source == IF Manual \in DOMAIN sources THEN sources[Manual] ELSE NewSource
       IN  \E ks \in SUBSET (Keys \ source.entries) \ {{}} :
              Change(Manual, [source EXCEPT !.entries = @ \cup ks, !.synced = TRUE])

\* delete, and remove_manual_keys of the last key: the static pool is back.
Drop(s) ==
    /\ sources' = Without({s})
    /\ pool' = StaticPool
    /\ cooled' = cooled \cap Static
    /\ check' = [check EXCEPT !.gone = @ \/ (check.there /\ check.source = s)]
    /\ Save

RemoveManualKeys ==
    /\ Free /\ Manual \in DOMAIN sources
    /\ LET source == sources[Manual]
       IN  \/ \E ks \in SUBSET source.entries \ {{}, source.entries} :
                 Apply(Manual, [source EXCEPT !.entries = @ \ ks, !.disabled = @ \ ks])
           \/ Drop(Manual)
    /\ UNCHANGED <<interval, task, op, remote>>

\* The provider's logout may fail, which changes nothing.
Delete ==
    /\ Free
    /\ \E s \in DOMAIN sources : Drop(s)
    /\ task' = Stopped
    /\ UNCHANGED <<interval, op, remote>>

Disconnect ==
    /\ Free
    /\ \E s \in DOMAIN sources \cap Online :
          sources' = [sources EXCEPT ![s].session = 0]
    /\ task' = Stopped
    /\ Save
    /\ UNCHANGED <<poolVars, interval, op, remote>>

\* set_interval, which cancels a task that sleeps or waits for the lock.
SetInterval ==
    /\ Free
    /\ interval' \in BOOLEAN
    /\ task' = IF interval' /\ HasConnected THEN "sleeping" ELSE "none"
    /\ disk' = [sources |-> sources, interval |-> interval'] /\ dirty' = FALSE
    /\ UNCHANGED <<sources, poolVars, op, remote>>

\* The rules name models and paths for the keys, which stay the same.
SetGroupRules ==
    /\ Free
    /\ \E s \in DOMAIN sources : Change(s, sources[s])

\* set_source_settings, which no other state here tells apart.
SetSettings ==
    /\ Free /\ dirty
    /\ UNCHANGED sources
    /\ Save
    /\ UNCHANGED <<poolVars, interval, task, op, remote>>

-----------------------------------------------------------------------------
(* Circuits and availability checks *)

\* mark_cooldown for a request that this key failed, and reset_key and groups.
KeyFails ==
    /\ \E k \in pool.keys \ cooled : cooled' = cooled \cup {k}
    /\ UNCHANGED <<sources, pool, fileVars, interval, task, op, check, remote>>

Reset ==
    /\ Free /\ DOMAIN sources # {}
    /\ \E ks \in SUBSET cooled \ {{}} : cooled' = cooled \ ks
    /\ UNCHANGED <<sources, pool, fileVars, interval, task, op, check, remote>>

CheckBegins ==
    /\ Free /\ ~check.there /\ pool.keys # {}
    /\ \E s \in DOMAIN sources :
          check' = [there |-> TRUE, source |-> s, keys |-> pool.keys, renewed |-> {},
                    gone |-> FALSE]
    /\ UNCHANGED sources
    /\ Save
    /\ UNCHANGED <<pool, cooled, interval, task, op, remote>>

AnyEntries == ~check.gone                               \* mutant of SameEntries

\* The source is the same and so are the pool's runtime entries.
SameEntries == ~check.gone /\ pool.keys = check.keys /\ check.renewed \cap check.keys = {}

\* Each group was answered ("open"), told that it has no such model, refused
\* for another reason, or failed by every key it has, which opens its circuits.
CheckApplies ==
    /\ Free /\ check.there /\ SameEntries
    /\ \E answer \in [{GroupOf[k] : k \in check.keys} ->
                         {"available", "unsupported", "refused", "down"}] :
          LET of(a) == {g \in DOMAIN answer : answer[g] = a}
              old   == sources[check.source].rejected
              new   == (old \ of("available")) \cup of("unsupported")
          IN  /\ sources' = [sources EXCEPT ![check.source].rejected = new]
              /\ pool' = IF new = old THEN pool ELSE PoolFrom(sources'[check.source])
              /\ cooled' = (cooled \cup (check.keys \cap InGroups(of("down")))) \cap pool'.keys
              /\ IF new = old THEN UNCHANGED fileVars ELSE SaveOrDefer
    /\ check' = NoCheck
    /\ UNCHANGED <<interval, task, op, remote>>

\* The check is refused, or it had no request for this group.
CheckFails ==
    /\ check.there
    /\ check' = NoCheck
    /\ UNCHANGED <<sources, pool, cooled, fileVars, interval, task, op, remote>>

-----------------------------------------------------------------------------
(* The end of the process, and the next one *)

Down == [NoOp EXCEPT !.kind = "down"]

\* What is in memory is lost, and the call in progress with it.
Dies ==
    /\ op # Down /\ op' = Down
    /\ sources' = <<>> /\ pool' = NoPool /\ cooled' = {} /\ check' = NoCheck
    /\ dirty' = FALSE /\ interval' = TRUE /\ task' = "none"
    /\ UNCHANGED remote

Crash == Dies /\ UNCHANGED disk

\* stop: what was deferred is written first.
Stop == Dies /\ disk' = IF dirty THEN [sources |-> sources, interval |-> interval] ELSE disk

\* load_state, start
Boot ==
    /\ op = Down /\ op' = NoOp
    /\ sources' = disk.sources /\ interval' = disk.interval
    /\ pool' = Restored(disk.sources)
    /\ task' = IF disk.interval /\ HasConnected' THEN "sleeping" ELSE "none"
    /\ UNCHANGED <<cooled, check, fileVars, remote>>

SyncNext ==
    \/ Connect \/ LoginOk \/ LoginFails \/ Ask \/ AutoSync
    \/ Refresh \/ RequestFails \/ WriteOne \/ WritesEnd \/ CatalogOk \/ FetchOk
    \/ SetKeyEnabled \/ SetGroupRules \/ SetExperience \/ MarkUnsupported
    \/ AddManualKeys \/ RemoveManualKeys \/ Delete \/ Disconnect
    \/ SetInterval \/ SetSettings
    \/ KeyFails \/ Reset \/ CheckBegins \/ CheckApplies \/ CheckFails
    \/ Crash \/ Stop \/ Boot

SyncSpec == SyncInit /\ [][SyncNext]_syncVars

-----------------------------------------------------------------------------
(* Properties *)

Source == [session : 0 .. MaxRotations, entries : SUBSET Keys, disabled : SUBSET Keys,
           failing : SUBSET Groups, rejected : SUBSET Groups, synced : BOOLEAN]

\* Type invariant.
SyncTypeOK ==
    /\ DOMAIN sources \subseteq Ids /\ \A s \in DOMAIN sources : sources[s] \in Source
    /\ pool \in [there : BOOLEAN, keys : SUBSET Keys, rejected : SUBSET Groups]
    /\ cooled \subseteq pool.keys
    /\ DOMAIN disk.sources \subseteq Ids
    /\ \A s \in DOMAIN disk.sources : disk.sources[s] \in Source
    /\ {dirty, interval, disk.interval} \subseteq BOOLEAN
    /\ task \in {"none", "sleeping", "syncing"} /\ (task = "syncing" <=> op.kind = "auto")
    /\ op.source \in Ids /\ op.session \in 0 .. remote.token
    /\ check.keys \subseteq Keys /\ (check.there \/ check = NoCheck)
    /\ remote.keys \subseteq Keys /\ remote.token \in 0 .. MaxRotations

\* An upstream URL is served by one source, whatever connections replaced
\* one another and whatever keys were added by hand.
OneOwner == Cardinality(DOMAIN sources) <= 1

\* Between two calls the pool is what its source says after its last sync,
\* with no key that was disabled and no circuit of a key that is gone, and the
\* static pool when there is no source; a restart does not change that.
PoolServesSource ==
    Free => /\ \A s \in DOMAIN sources : sources[s].synced => pool = PoolFrom(sources[s])
            /\ DOMAIN sources = {} => pool = StaticPool

\* Between two calls the state file has all but the rejected models that are
\* still to be written.
DiskIsCurrent ==
    LET settled(ss) == [s \in DOMAIN ss |-> [ss[s] EXCEPT !.rejected = {}]]
    IN  Free => /\ settled(disk.sources) = settled(sources)
                /\ disk.interval = interval
                /\ ~dirty => disk.sources = sources

\* Until a source of the URL has synced, its static pool serves it.
StaticUntilSynced ==
    [][pool = StaticPool /\ pool' # StaticPool /\ op' # Down =>
          \E s \in DOMAIN sources' : sources'[s].synced]_syncVars

\* The provider's current session is not lost while the process runs: a
\* refresh token that replaced another is kept, by the call or in the source.
Held(s) == remote.token \in {sources[s].session} \cup
                            (IF op.source = s THEN {op.session} ELSE {})

SessionsSurvive ==
    [][\A s \in DOMAIN sources \cap DOMAIN sources' :
          Connected(s) /\ Held(s) /\ Connected(s)' => Held(s)']_syncVars

\* A check opens the circuits of the entries it probed and no others, though
\* the pool may have been changed while it waited.
VerdictsAreFresh ==
    [][check.there /\ ~check'.there =>
          cooled' \ cooled \subseteq IF check.gone THEN {}
                                     ELSE check.keys \ check.renewed]_syncVars
=============================================================================

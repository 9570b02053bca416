--------------------------- MODULE ProviderRounds ---------------------------
(***************************************************************************)
(* One connected account of a Sub2API or AIHub provider, request by        *)
(* request (sync_adapters/base.py, sub2api.py, aihub.py): the rounds that  *)
(* fetch the keys, create keys and clear groups.                           *)
(*                                                                         *)
(* The manager runs one round at a time and follows a round that wrote by  *)
(* a fetch.  In between, and between any two requests, the provider        *)
(* changes its groups and its hall, expires the access token, refuses a    *)
(* request, limits writes, or loses an answer after having obeyed.         *)
(***************************************************************************)
EXTENDS Naturals, FiniteSets

CONSTANTS
    Groups,
    MaxKeys,        \* the provider's bound on the keys of the account
    PageSize,       \* page_size=100
    Paged,          \* does the provider honour the page parameter
    Retries,        \* _TRANSPORT_RETRIES
    HasHall,        \* AIHub, or plain Sub2API
    HallEntries,    \* what the hall may say of a group, see Blocked
    Fickle,         \* the groups whose state changes
    MaxFaults       \* bound on the requests that are not answered as asked

\* What a hall entry says, of which only this decides: is the group listed, did
\* its detection fail, did the basic stage of the detection complete.
HallEntry == [visible : BOOLEAN, failed : BOOLEAN, basic : BOOLEAN]

ASSUME RoundsAssumption ==
    /\ PageSize \in Nat \ {0}
    /\ {MaxKeys, Retries, MaxFaults} \subseteq Nat
    /\ {Paged, HasHall} \subseteq BOOLEAN
    /\ HallEntries \subseteq HallEntry
    /\ Fickle \subseteq Groups

VARIABLES
    account,        \* the keys at the provider: <<id, group>>
    active,         \* groups/available
    hall,           \* public/providers
    access,         \* has the session an access token
    round,          \* the round in progress, see Idle
    snapshot,       \* source["hall_groups"], <<>> for none
    pending,        \* source["hall_blocked_pending"]
    entries,        \* the keys of the last fetch
    judged, read,   \* ghosts: for how many fetches, and for how many readings
                    \* of the hall, on end has a group been blocked (2: or more)
    faults          \* so far

roundsVars == <<account, active, hall, access, round, snapshot, pending,
                entries, judged, read, faults>>

providerVars == <<account, active, hall>>
sourceVars   == <<snapshot, pending, entries, judged, read>>

Healthy == [visible |-> TRUE, failed |-> FALSE, basic |-> TRUE]

\* A failed detection whose basic stage completed is no verdict on the group.
Blocked(entry) == ~entry.visible \/ (entry.failed /\ ~entry.basic)

BlockedIn(shown) == {g \in DOMAIN shown : Blocked(shown[g])}

KeysOf(group, keys) == {k \in keys : k[2] = group}

Idle == [kind |-> "idle", step |-> "idle", chosen |-> {}, page |-> 1, seen |-> {},
         last |-> {}, attempt |-> 1, again |-> TRUE, groups |-> {}, targets |-> {},
         stale |-> {}, limited |-> FALSE]

RoundsInit ==
    /\ account = {} /\ active = Groups /\ hall = [g \in Groups |-> Healthy]
    /\ access = TRUE /\ round = Idle
    /\ snapshot = <<>> /\ pending = {} /\ entries = {}
    /\ judged = [g \in Groups |-> 0] /\ read = judged
    /\ faults = 0

-----------------------------------------------------------------------------
(* The provider *)

GroupChanges ==
    /\ \E g \in Fickle : active' = IF g \in active THEN active \ {g} ELSE active \cup {g}
    /\ UNCHANGED <<account, hall, access, round, sourceVars, faults>>

HallChanges ==
    /\ HasHall
    /\ \E g \in Fickle : \E e \in HallEntries \ {hall[g]} :
          hall' = [hall EXCEPT ![g] = e]
    /\ UNCHANGED <<account, active, access, round, sourceVars, faults>>

FreshId == CHOOSE i \in 1..MaxKeys :
    /\ \A k \in account : k[1] # i
    /\ \A j \in 1..(i - 1) : \E k \in account : k[1] = j

\* What a write does at the provider.
Obeyed(target) ==
    IF round.step = "create"
      THEN IF Cardinality(account) < MaxKeys THEN account \cup {<<FreshId, target>>}
           ELSE account
      ELSE account \ {target}

\* The keys are listed by id.
Position(k, keys) == Cardinality({j \in keys : j[1] <= k[1]})

Page(n) ==
    LET from == IF Paged THEN (n - 1) * PageSize ELSE 0
    IN  {k \in account : Position(k, account) \in (from + 1)..(from + PageSize)}

-----------------------------------------------------------------------------
(* Rounds *)

Started(kind, chosen) == [Idle EXCEPT !.kind = kind, !.chosen = chosen, !.step = "keys"]

BeginFetch ==
    /\ round.kind = "idle" /\ round' = Started("fetch", {})
    /\ UNCHANGED <<providerVars, access, sourceVars, faults>>

BeginWrites ==
    /\ round.kind = "idle"
    /\ \E chosen \in SUBSET Groups, kind \in {"fill", "create", "clear"} :
          /\ chosen = {} => kind = "fill"
          /\ round' = Started(kind, chosen)
    /\ UNCHANGED <<providerVars, access, sourceVars, faults>>

Writes(r) == r.step \in {"create", "delete"}

\* An exception ends the round; one of a write is recorded and the next is tried.
Failed(r, target) ==
    IF Writes(r) THEN [r EXCEPT !.targets = @ \ {target}, !.again = TRUE] ELSE Idle

Requesting == round.step \notin {"idle", "hall"} /\ (Writes(round) => round.targets # {})

\* The target the request is about; a read has none.
Target == IF Writes(round) THEN round.targets ELSE {<<>>}

Fault == faults < MaxFaults /\ faults' = faults + 1

Refresh ==
    /\ Requesting /\ ~access
    /\ \/ access' = TRUE /\ UNCHANGED <<round, faults>>
       \/ Fault /\ UNCHANGED access /\ \E t \in Target : round' = Failed(round, t)
    /\ UNCHANGED <<providerVars, sourceVars>>

\* 401: the token is dropped and the request sent again, once.
Refused ==
    /\ Requesting /\ access /\ Fault
    /\ \/ /\ round.again /\ access' = FALSE
          /\ round' = [round EXCEPT !.again = FALSE, !.attempt = 1]
       \/ ~round.again /\ UNCHANGED access /\ \E t \in Target : round' = Failed(round, t)
    /\ UNCHANGED <<providerVars, sourceVars>>

RetryAll(r) == r.attempt <= Retries                        \* mutant of SentAgain

SentAgain(r) == ~Writes(r) /\ r.attempt <= Retries

\* No answer: the request is lost, or a write is obeyed and its answer is lost.
Lost ==
    /\ Requesting /\ access /\ Fault
    /\ \E t \in Target :
          /\ round' = IF SentAgain(round) THEN [round EXCEPT !.attempt = @ + 1]
                      ELSE Failed(round, t)
          /\ account' \in {account} \cup (IF Writes(round) THEN {Obeyed(t)} ELSE {})
    /\ UNCHANGED <<active, hall, access, sourceVars>>

Errs ==
    /\ Requesting /\ access /\ Fault
    /\ \E t \in Target : round' = Failed(round, t)
    /\ UNCHANGED <<providerVars, access, sourceVars>>

NeverStops(r) == FALSE                                     \* mutant of StopsAtLimit

\* Sub2API's own fetch logs the error and goes on.
StopsAtLimit(r) == HasHall \/ r.kind # "fetch"

Limited ==
    /\ Requesting /\ access /\ Writes(round) /\ Fault
    /\ \E t \in round.targets :
          round' = [Failed(round, t) EXCEPT
                      !.limited = TRUE,
                      !.targets = IF StopsAtLimit(round) THEN {} ELSE @]
    /\ UNCHANGED <<providerVars, access, sourceVars>>

-----------------------------------------------------------------------------
(* Answers *)

\* mutant of Stale
Inactive(r, groups, confirmed) == {k \in r.seen : k[2] \notin groups}

Stale(r, groups, confirmed) ==
    {k \in r.seen : k[2] \notin groups \/ k[2] \in confirmed}

Catalog(groups, blocked) == groups \ blocked

Wanted(r, catalog) ==
    IF r.kind = "create" THEN r.chosen \cap catalog
    ELSE {g \in catalog : /\ KeysOf(g, r.seen) = {}
                          /\ r.chosen = {} \/ g \in r.chosen}

\* What is left to do, once the groups and the verdicts are known.
Planned(r, groups, blocked, confirmed) ==
    LET stale  == Stale(r, groups, confirmed)
        wanted == Wanted(r, Catalog(groups, blocked))
    IN  IF r.kind = "fetch"
          THEN [r EXCEPT !.step = "delete", !.groups = groups, !.stale = stale,
                         !.targets = stale, !.again = TRUE]
          ELSE IF wanted = {} THEN Idle
          ELSE [r EXCEPT !.step = "create", !.groups = groups, !.targets = wanted,
                         !.again = TRUE]

LastPage(batch, seen) ==
    \/ Cardinality(seen) >= Cardinality(account)
    \/ Cardinality(batch) < PageSize

Listed ==
    /\ round.step = "keys" /\ access
    /\ LET batch == Page(round.page)
           next  == [round EXCEPT !.seen = @ \cup batch, !.attempt = 1, !.again = TRUE]
       IN  round' = IF batch # {} /\ batch = round.last THEN Idle
                    ELSE IF ~LastPage(batch, next.seen)
                      THEN [next EXCEPT !.page = @ + 1, !.last = batch]
                    ELSE IF round.kind = "clear"
                      THEN [next EXCEPT !.step = "delete",
                              !.targets = {k \in next.seen : k[2] \in round.chosen}]
                    ELSE [next EXCEPT !.step = "groups"]
    /\ UNCHANGED <<providerVars, access, sourceVars, faults>>

GroupsRead ==
    /\ round.step = "groups" /\ access
    /\ round' = IF HasHall
                  THEN [round EXCEPT !.step = "hall", !.groups = active,
                                     !.attempt = 1, !.again = TRUE]
                  ELSE Planned(round, active, {}, {})
    /\ UNCHANGED <<providerVars, access, sourceVars, faults>>

OneVerdict(blocked) == blocked                             \* mutant of Confirmed

Confirmed(blocked) == blocked \cap pending

Longer(counts, blocked) ==
    [g \in Groups |-> IF g \notin blocked THEN 0
                      ELSE IF counts[g] = 0 THEN 1 ELSE 2]

Filtered(shown) ==
    LET blocked == BlockedIn(shown)
    IN  /\ round' = Planned(round, round.groups, blocked, Confirmed(blocked))
        /\ IF round.kind = "fetch"
             THEN pending' = blocked /\ judged' = Longer(judged, blocked)
             ELSE UNCHANGED <<pending, judged>>
        /\ UNCHANGED <<providerVars, access, entries>>

HallRead ==
    /\ round.step = "hall"
    /\ snapshot' = hall /\ read' = Longer(read, BlockedIn(hall))
    /\ Filtered(hall)
    /\ UNCHANGED faults

\* Neither path answers: the last snapshot is used, if there is one.
HallDown ==
    /\ round.step = "hall" /\ Fault
    /\ UNCHANGED <<snapshot, read>>
    /\ IF snapshot = <<>>
         THEN round' = Idle /\ UNCHANGED <<providerVars, access, pending, judged, entries>>
         ELSE Filtered(snapshot)

Written ==
    /\ Requesting /\ access /\ Writes(round)
    /\ round.step = "create" => Cardinality(account) < MaxKeys
    /\ \E t \in round.targets : account' = Obeyed(t) /\ round' = Failed(round, t)
    /\ UNCHANGED <<active, hall, access, sourceVars, faults>>

Full ==
    /\ Requesting /\ access /\ round.step = "create" /\ Cardinality(account) = MaxKeys
    /\ \E t \in round.targets : round' = Failed(round, t)
    /\ UNCHANGED <<providerVars, access, sourceVars, faults>>

Everything(r) == r.seen                                    \* mutant of Served

\* A key that should go is not served, whether or not its deletion succeeded.
Served(r) == r.seen \ r.stale

\* The manager follows a round that wrote by a fetch.
Finish ==
    /\ Writes(round) /\ round.targets = {}
    /\ IF round.kind = "fetch" THEN entries' = Served(round) /\ round' = Idle
       ELSE UNCHANGED entries /\ round' = Started("fetch", {})
    /\ UNCHANGED <<providerVars, access, snapshot, pending, judged, read, faults>>

-----------------------------------------------------------------------------

Provider == GroupChanges \/ HallChanges
Answered == Refresh \/ Listed \/ GroupsRead \/ HallRead \/ Written \/ Full \/ Finish
Faulty   == Refused \/ Lost \/ Errs \/ Limited \/ HallDown

RoundsNext == Provider \/ BeginFetch \/ BeginWrites \/ Answered \/ Faulty

\* The transport's timeouts end every request; the timer asks for fetches, and
\* the manager's lock is first come, first served.
RoundsSpec ==
    /\ RoundsInit /\ [][RoundsNext]_roundsVars
    /\ WF_roundsVars(Answered) /\ SF_roundsVars(BeginFetch)

-----------------------------------------------------------------------------
(* Properties *)

RoundsTypeOK ==
    /\ account \subseteq (1..MaxKeys) \X Groups
    /\ entries \subseteq (1..MaxKeys) \X Groups
    /\ active \subseteq Groups /\ pending \subseteq Groups
    /\ hall \in [Groups -> HallEntries \cup {Healthy}]
    /\ access \in BOOLEAN
    /\ snapshot \in {<<>>} \cup [Groups -> HallEntries \cup {Healthy}]
    /\ round.kind \in {"idle", "fetch", "fill", "create", "clear"}
    /\ round.step \in {"idle", "keys", "groups", "hall", "create", "delete"}
    /\ \A a, b \in account : a[1] = b[1] => a = b
    /\ round.attempt \in 1..(Retries + 1)
    /\ round.page > 1 => (round.page - 1) * PageSize < Cardinality(round.seen \cup account)
    /\ faults \in 0..MaxFaults

\* Filling the groups that have no key never gives a group a second one, though
\* the list comes in pages, tokens expire and answers of writes are lost.
FillsOnlyMissing ==
    [][round.kind = "fill" =>
         \A k \in account' \ account : KeysOf(k[2], account) = {}]_roundsVars

\* A fetch deletes a key of an active group only when it and the fetch before
\* both found the group blocked.
DeletionConfirmed ==
    [][round.kind = "fetch" =>
         \A k \in account \ account' : k[2] \in round.groups => judged[k[2]] = 2]_roundsVars

\* "so that momentary data does not empty the pool, and flapping does not create
\* and delete keys in turn" (aihub.py:305-306): the hall said so twice on end.
TwoReadings ==
    [][round.kind = "fetch" =>
         \A k \in account \ account' : k[2] \in round.groups => read[k[2]] = 2]_roundsVars

\* After a write was limited, the round sends no other.
QuietAfterLimit == round.limited => round.targets = {}

\* What a fetch hands to the pool exists at the provider, whatever became of the
\* deletions it asked for.
ServedKeysExist == [][entries' # entries => entries' \subseteq account']_roundsVars

\* Keys of a group that stays blocked or inactive are all deleted in the end.
DeadGroupsEmptied ==
    \A g \in Fickle :
        <>[](g \notin active) \/ <>[](HasHall /\ Blocked(hall[g])) =>
            <>[](KeysOf(g, account) = {})
=============================================================================

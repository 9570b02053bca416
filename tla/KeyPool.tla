------------------------------- MODULE KeyPool -------------------------------
(***************************************************************************)
(* The key pool of one upstream: which upstream key a request gets, and    *)
(* how the outcome of an attempt changes that choice (key_pool.py).        *)
(*                                                                         *)
(* A pool holds KeyEntry objects.  A request never uses the pool itself    *)
(* but a cached VIEW of it: the entries its model and path may use, with a *)
(* scheduler state of its own (current key, sticky window, failover floor, *)
(* and the same three per Codex session).  The health of an entry is       *)
(* shared by all views.                                                    *)
(*                                                                         *)
(* Time.  Every deadline of the code (cooldown_until, sticky_until) is     *)
(* compared with the clock only, so it is kept as the time that is left.   *)
(*                                                                         *)
(* Strategies.  "cost" is modelled exactly.  "grouped" stands for ttft and *)
(* cache: the group is a free choice, since latencies and hit rates are    *)
(* not modelled here.  The balanced strategy is module BalancedView.       *)
(***************************************************************************)
EXTENDS Integers

CONSTANTS
    Entries,        \* KeyEntry objects, those of later synchronisations too
    KeyOf,          \* [Entries -> upstream key]
    GroupOf,        \* [Entries -> group], _group_key
    Position,       \* [Entries -> Nat], the order of the upstream's listing
    Workloads,      \* (endpoint family, model) of a request
    Dedicated,      \* [Workloads -> SUBSET Entries], rows whose rules match
    General,        \* entries without rules
    Sessions,       \* Codex sessions; {} when session_affinity is off
    NoSession,      \* a request without a session
    None,           \* no entry
    Prices,         \* the values of effective_sort / sort
    Strategy,       \* "cost" or "grouped"
    Kinds,          \* failure kinds
    Severity,       \* _FAILURE_KIND_PRIORITY
    Base,           \* [Kinds -> Nat], cooldown of a first failure
    MaxCooldown,    \* KEY_COOLDOWN_MAX
    LevelCap,       \* level at which every kind has reached MaxCooldown
    RetryAfters,    \* the values of a Retry-After header, 0 for none
    Sticky,         \* KEY_STICKY
    Repricing,      \* may a synchronisation change the price of a kept key
    MaxUpdates      \* bound on the number of hot updates

ASSUME KeyPoolAssumption ==
    /\ NoSession \notin Sessions
    /\ None \notin Entries
    /\ Prices \subseteq Nat \ {0}
    /\ Position \in [Entries -> Nat]
    /\ \A e, f \in Entries : Position[e] = Position[f] => e = f
    /\ Dedicated \in [Workloads -> SUBSET Entries]
    /\ General \subseteq Entries
    /\ Base \in [Kinds -> Nat]
    /\ Severity \in [Kinds -> Nat]
    /\ "" \notin Kinds
    /\ MaxCooldown \in Nat
    /\ LevelCap \in Nat \ {0}
    /\ \A k \in Kinds : Base[k] * 2 ^ (LevelCap - 1) >= MaxCooldown
    /\ RetryAfters \subseteq Nat
    /\ Sticky \in Nat
    /\ Repricing \in BOOLEAN
    /\ MaxUpdates \in Nat

VARIABLES
    live,           \* pool.entries
    retired,        \* entries a hot update dropped: entry._retired
    price,          \* _sort_value of an entry
    health,         \* circuit state of an entry
    sched,          \* scheduler state of every view ever created
    updates         \* number of hot updates so far

poolVars == <<live, retired, price, health, sched, updates>>

-----------------------------------------------------------------------------
(* Data *)

Keys == {KeyOf[e] : e \in Entries}

Slots == Sessions \cup {NoSession}

View == [workload: Workloads, members: SUBSET Entries,
         before: SUBSET (Entries \X Entries)]

Health == [left: Nat, kind: Kinds \cup {""}, level: 0..LevelCap]

Slot == [current: Entries \cup {None}, sticky: Nat, floor: Nat]

Healthy == [left |-> 0, kind |-> "", level |-> 0]

\* floor = 0 is the code's None: no price is below it.
FreshSlot == [current |-> None, sticky |-> 0, floor |-> 0]

FreshSched == [s \in Slots |-> FreshSlot]

Larger(a, b) == IF a >= b THEN a ELSE b

Capped(seconds) == IF seconds \in 0..MaxCooldown THEN seconds ELSE MaxCooldown

Cooling(e) == health[e].left > 0

-----------------------------------------------------------------------------
(* Views: for_request *)

Precedes(a, b) == \/ price[a] < price[b]
                  \/ price[a] = price[b] /\ Position[a] < Position[b]

Selected(w) == IF Dedicated[w] \cap live # {} THEN Dedicated[w] \cap live
                                              ELSE General \cap live

\* The code identifies a view by the ordered tuple of its entries' ids.
ViewOf(w) == [workload |-> w, members |-> Selected(w),
              before |-> {p \in Selected(w) \X Selected(w) :
                                                   Precedes(p[1], p[2])}]

\* A hot update discards the views that hold a retired entry; a request
\* that started earlier may still hold one.
NeverDiscarded(v) == v \in DOMAIN sched     \* mutant of Cached

Cached(v) == v \in DOMAIN sched /\ v.members \cap retired = {}

WithView(v) == [u \in DOMAIN sched \cup {v} |->
                    IF u \in DOMAIN sched THEN sched[u] ELSE FreshSched]

ForRequest(w) ==
    /\ Selected(w) # {}
    /\ sched' = WithView(ViewOf(w))
    /\ UNCHANGED <<live, retired, price, health, updates>>

-----------------------------------------------------------------------------
(* Selection: pick *)

\* _eligible_entries: the view's own floor only.
AboveViewFloor(v) == {e \in v.members : price[e] >= sched[v][NoSession].floor}

Eligible(v, s, excluded) == {e \in AboveViewFloor(v) :
                                /\ KeyOf[e] \notin excluded
                                /\ price[e] >= sched[v][s].floor}

\* The first of C in the order of the view.
IsFirst(v, e, C) == e \in C /\ \A f \in C \ {e} : <<e, f>> \in v.before

FirstToRecover(v, C) ==
    LET earliest == {e \in C : \A f \in C : health[e].left <= health[f].left}
    IN  {e \in earliest : IsFirst(v, e, earliest)}

\* _prefer_sticky: the current key while its window lasts, else the first.
Preferred(v, s, C) ==
    IF sched[v][s].current \in C /\ sched[v][s].sticky > 0
    THEN {sched[v][s].current}
    ELSE {e \in C : IsFirst(v, e, C)}

InGroup(g, C) == {e \in C : GroupOf[e] = g}

CandidateSets(C) == IF Strategy = "cost" THEN {C}
                    ELSE {InGroup(GroupOf[e], C) : e \in C}

\* What pick may return; the empty set is the code's None.
Picks(v, s, excluded) ==
    LET eligible  == Eligible(v, s, excluded)
        available == {e \in eligible : ~Cooling(e)}
    IN  IF available = {} THEN FirstToRecover(v, eligible)
        ELSE UNION {Preferred(v, s, C) : C \in CandidateSets(available)}

\* Taking the current key inside its window renews the window.
Renewed(slot, e) == IF slot.current = e /\ slot.sticky > 0 /\ ~Cooling(e)
                    THEN [slot EXCEPT !.sticky = Sticky] ELSE slot

Picked(v, s, e) == sched' = [sched EXCEPT ![v][s] = Renewed(@, e)]

Pick(v, s, excluded) ==
    /\ \E e \in Picks(v, s, excluded) : Picked(v, s, e)
    /\ UNCHANGED <<live, retired, price, health, updates>>

HasFresh(v, excluded) == \E e \in AboveViewFloor(v) :
                             KeyOf[e] \notin excluded /\ ~Cooling(e)

NextAvailableIn(v) ==
    IF AboveViewFloor(v) = {} THEN 0
    ELSE health[CHOOSE e \in AboveViewFloor(v) : \A f \in AboveViewFloor(v) :
                                       health[e].left <= health[f].left].left

-----------------------------------------------------------------------------
(* Outcomes: mark_cooldown, mark_success *)

\* KEY_COOLDOWN_BACKOFF is on, its default: 1, 2, 4, ... times the base.
Backoff(kind, level) ==
    Capped(Base[kind] * 2 ^ (IF level = 0 THEN 0 ELSE level - 1))

NextLevel(h, kind) == IF h.kind # kind THEN 1
                      ELSE IF h.level < LevelCap THEN h.level + 1 ELSE LevelCap

\* Mutant of AfterTrip: every failure of an outage raises the level.
EachFailureCounts(h, kind, retryAfter) ==
    LET level == NextLevel(h, kind)
    IN  [left  |-> Larger(h.left, Larger(Backoff(kind, level), retryAfter)),
         kind  |-> kind,
         level |-> level]

\* A failure while the circuit is open neither raises the level nor shortens
\* the wait; it renames the cause if it is graver or lasts longer.
AfterTrip(h, kind, retryAfter) ==
    LET open     == h.left > 0
        level    == IF open THEN h.level ELSE NextLevel(h, kind)
        cooldown == Larger(Backoff(kind, level), retryAfter)
        renamed  == ~open \/ Severity[kind] > Severity[h.kind] \/ cooldown > h.left
    IN  [left  |-> Larger(h.left, cooldown),
         kind  |-> IF renamed THEN kind ELSE h.kind,
         level |-> level]

\* Mutant of AfterFailure: the whole price tier of the failed key is skipped.
FloorAboveFailed(slot, e) ==
    IF slot.current = e
    THEN [slot EXCEPT !.floor = price[e] + 1, !.sticky = 0]
    ELSE slot

\* The failover floor: the current key failed, or a cheaper one than it did.
AfterFailure(slot, e) ==
    IF slot.current = e
    THEN [slot EXCEPT !.floor = price[e], !.sticky = 0]
    ELSE IF slot.current # None /\ price[e] < price[slot.current]
         THEN [slot EXCEPT !.floor = price[slot.current]]
         ELSE slot

MarkCooldown(v, s, e, kind, retryAfter) ==
    /\ IF e \in retired THEN UNCHANGED <<health, sched>>
       ELSE /\ health' = [health EXCEPT ![e] = AfterTrip(@, kind, retryAfter)]
            /\ sched' = [sched EXCEPT ![v][s] = AfterFailure(@, e)]
    /\ UNCHANGED <<live, retired, price, updates>>

\* A success closes the circuit, whoever opened it, and ends the failover
\* round of the view and of the session.
Succeeded(e) == [current |-> e, sticky |-> Sticky, floor |-> 0]

MarkSuccess(v, s, e) ==
    /\ IF e \in retired THEN UNCHANGED <<health, sched>>
       ELSE /\ health' = [health EXCEPT ![e] = Healthy]
            /\ sched' = [sched EXCEPT ![v] = [t \in Slots |->
                    IF t \in {s, NoSession} THEN Succeeded(e) ELSE @[t]]]
    /\ UNCHANGED <<live, retired, price, updates>>

-----------------------------------------------------------------------------
(* Administration: reset_circuit, apply_settings, replace_key_pool *)

Forget(views) == [v \in DOMAIN sched |->
                      IF v \in views THEN FreshSched ELSE sched[v]]

\* reset_circuit of one key, of one group, or of the whole pool.
ResetTargets == {{e} : e \in live} \cup {InGroup(GroupOf[e], live) : e \in live}

Reset(targets, views) ==
    /\ health' = [e \in Entries |-> IF e \in targets THEN Healthy ELSE health[e]]
    /\ sched' = Forget(views)
    /\ UNCHANGED <<live, retired, price, updates>>

ResetCircuit ==
    \/ \E targets \in ResetTargets :
           Reset(targets, {v \in DOMAIN sched :
                               Cached(v) /\ v.members \cap targets # {}})
    \/ Reset(live, {v \in DOMAIN sched : Cached(v)})

\* The settings of a source are saved again (or changed).
ApplySettings ==
    /\ sched' = Forget({v \in DOMAIN sched : Cached(v)})
    /\ UNCHANGED <<live, retired, price, health, updates>>

\* The entries after a synchronisation: the object of a key that was there is
\* kept, any other is new.
Mergeable(S) ==
    /\ S \cap retired = {}
    /\ \A e, f \in S : KeyOf[e] = KeyOf[f] => e = f
    /\ \A e \in S \ live : \A f \in live : KeyOf[e] # KeyOf[f]

HotUpdate ==
    /\ updates < MaxUpdates
    /\ \E S \in SUBSET (Entries \ retired), p \in [Entries -> Prices] :
        /\ Mergeable(S)
        /\ \A e \in Entries : e \notin S => p[e] = price[e]
        /\ ~Repricing => \A e \in S \cap live : p[e] = price[e]
        /\ live' = S
        /\ retired' = retired \cup (live \ S)
        /\ price' = p
    /\ updates' = updates + 1
    /\ UNCHANGED <<health, sched>>

Overrun(left) == left - 1       \* mutant of Elapsed

Elapsed(left) == IF left > 0 THEN left - 1 ELSE 0

Tick ==
    /\ health' = [e \in Entries |-> [health[e] EXCEPT !.left = Elapsed(@)]]
    /\ sched' = [v \in DOMAIN sched |-> [s \in Slots |->
                    [sched[v][s] EXCEPT !.sticky = Elapsed(@)]]]
    /\ UNCHANGED <<live, retired, price, updates>>

-----------------------------------------------------------------------------

\* Any non-empty set of entries with distinct keys may be configured first.
PoolInit ==
    /\ live \in {S \in SUBSET Entries :
                    S # {} /\ \A e, f \in S : KeyOf[e] = KeyOf[f] => e = f}
    /\ retired = {}
    /\ price \in [Entries -> Prices]
    /\ health = [e \in Entries |-> Healthy]
    /\ sched = [v \in {} |-> FreshSched]
    /\ updates = 0

\* The attempts in flight may report any member of the view they hold.
Report == \E v \in DOMAIN sched : \E s \in Slots, e \in v.members :
              \/ \E k \in Kinds, ra \in RetryAfters : MarkCooldown(v, s, e, k, ra)
              \/ MarkSuccess(v, s, e)

Admin == ResetCircuit \/ ApplySettings \/ HotUpdate

PoolNext ==
    \/ \E w \in Workloads : ForRequest(w)
    \/ \E v \in DOMAIN sched, s \in Slots, excluded \in SUBSET Keys :
           Pick(v, s, excluded)
    \/ Report
    \/ Admin
    \/ Tick

PoolSpec == PoolInit /\ [][PoolNext]_poolVars

-----------------------------------------------------------------------------
(* Properties *)

\* Every variable has its type; in particular a current key is an entry or
\* None, and the level of a circuit saturates.
TypeOK ==
    /\ live \subseteq Entries
    /\ retired \subseteq Entries
    /\ price \in [Entries -> Prices]
    /\ health \in [Entries -> Health]
    /\ DOMAIN sched \subseteq View
    /\ sched \in [DOMAIN sched -> [Slots -> Slot]]
    /\ updates \in 0..MaxUpdates

\* A request that asks the pool for its view now is never served from an
\* entry that a synchronisation has dropped: the views the pool still caches
\* hold live entries only, and so do their current keys and sessions.
ViewsAreLive ==
    \A v \in DOMAIN sched : Cached(v) =>
        /\ v.members \subseteq live
        /\ \A s \in Slots : sched[v][s].current \in v.members \cup {None}

\* The failover floor never locks a request out: as long as synchronisations
\* keep the prices of the kept keys, every view has a key for every session.
\* (pick returning None sends the request without any key of the pool.)
Serves ==
    ~Repricing => \A v \in DOMAIN sched, s \in Slots :
                      v.members # {} => Eligible(v, s, {}) # {}
=============================================================================

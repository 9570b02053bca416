-------------------------- MODULE SerialRetryProofs --------------------------
(***************************************************************************)
(* KeyPool, proved for every set of keys, prices, workloads and sessions,  *)
(* and that the circuit of any entry of it implements Breaker.             *)
(*                                                                         *)
(* SerialRetry, proved for any number of requests: every step of a request *)
(* is a step of the pool, so that the theorems of KeyPool hold of the pool *)
(* in use, and a request that was refused by a key or a group does not     *)
(* come back to it while it has set it aside.                              *)
(***************************************************************************)
EXTENDS SerialRetry, KeyPoolBreaker, TLAPS, WellFoundedInduction

-----------------------------------------------------------------------------
(* The inductive invariant of the pool *)

\* An entry is never in the pool and dropped at once.
NoResurrection == live \cap retired = {}

\* A view was made of live entries; what it holds has at most been dropped.
ViewsAreKnown == \A v \in DOMAIN sched : v.members \subseteq live \cup retired

\* A current key belongs to its view.
CurrentIsMember == \A v \in DOMAIN sched, s \in Slots :
                       sched[v][s].current \in v.members \cup {None}

\* A floor is the price of the current key, which therefore never falls
\* below its own floor.
FloorIsCurrent ==
    ~Repricing => \A v \in DOMAIN sched, s \in Slots :
        sched[v][s].floor # 0 =>
            /\ sched[v][s].current # None
            /\ sched[v][s].floor = price[sched[v][s].current]

IInv ==
    /\ TypeOK
    /\ NoResurrection
    /\ ViewsAreKnown
    /\ CurrentIsMember
    /\ FloorIsCurrent

-----------------------------------------------------------------------------
(* The types of the pool *)

LEMMA ConstantTypes ==
    /\ None \notin Entries
    /\ Prices \subseteq Nat \ {0}
    /\ Dedicated \in [Workloads -> SUBSET Entries]
    /\ General \subseteq Entries
    /\ Base \in [Kinds -> Nat]
    /\ Severity \in [Kinds -> Nat]
    /\ MaxCooldown \in Nat
    /\ LevelCap \in Nat \ {0}
    /\ RetryAfters \subseteq Nat
    /\ Sticky \in Nat
    /\ MaxUpdates \in Nat
BY KeyPoolAssumption

LEMMA FreshTypes ==
    /\ FreshSlot \in Slot
    /\ FreshSched \in [Slots -> Slot]
    /\ Healthy \in Health
BY ConstantTypes DEF FreshSlot, FreshSched, Slot, Healthy, Health

LEMMA TripType ==
    ASSUME NEW h \in Health, NEW kind \in Kinds, NEW ra \in RetryAfters
    PROVE  AfterTrip(h, kind, ra) \in Health
<1> DEFINE level == IF h.left > 0 THEN h.level ELSE NextLevel(h, kind)
<1> DEFINE cooldown == Larger(Backoff(kind, level), ra)
<1>1. level \in 0..LevelCap
  <2>1. LevelCap \in Nat /\ LevelCap # 0
    BY ConstantTypes
  <2>2. h.level \in 0..LevelCap
    BY DEF Health
  <2>3. NextLevel(h, kind) \in 0..LevelCap
    BY <2>1, <2>2 DEF NextLevel
  <2> QED
    BY <2>2, <2>3
<1>2. Backoff(kind, level) \in Nat
  BY ConstantTypes DEF Backoff, Capped
<1>3. cooldown \in Nat
  BY <1>2, ConstantTypes DEF Larger
<1>4. Larger(h.left, cooldown) \in Nat
  BY <1>3 DEF Larger, Health
<1> HIDE DEF level, cooldown
<1>5. AfterTrip(h, kind, ra).kind \in Kinds \cup {""}
  BY DEF AfterTrip, Health
<1>6. AfterTrip(h, kind, ra) = [left  |-> Larger(h.left, cooldown),
                               kind  |-> AfterTrip(h, kind, ra).kind,
                               level |-> level]
  BY DEF AfterTrip, level, cooldown
<1> DEFINE left == Larger(h.left, cooldown)
<1> DEFINE cause == AfterTrip(h, kind, ra).kind
<1>7. left \in Nat /\ cause \in Kinds \cup {""} /\ level \in 0..LevelCap
  BY <1>1, <1>4, <1>5
<1> HIDE DEF left, cause
<1>8. [left |-> left, kind |-> cause, level |-> level] \in Health
  BY <1>7 DEF Health
<1> QED
  BY <1>6, <1>8 DEF left, cause

LEMMA FailureType ==
    ASSUME TypeOK, NEW slot \in Slot, NEW e \in Entries
    PROVE  AfterFailure(slot, e) \in Slot
<1>1. \A f \in Entries : price[f] \in Nat
  BY ConstantTypes DEF TypeOK
<1>2. slot.current # None => slot.current \in Entries
  BY DEF Slot
<1> QED
  BY <1>1, <1>2 DEF AfterFailure, Slot

LEMMA SuccessType ==
    ASSUME NEW e \in Entries
    PROVE  Succeeded(e) \in Slot
BY ConstantTypes DEF Succeeded, Slot

LEMMA RenewedType ==
    ASSUME NEW slot \in Slot, NEW e \in Entries
    PROVE  Renewed(slot, e) \in Slot
BY ConstantTypes DEF Renewed, Slot

\* Changing one slot of one view, or adding a view, keeps the type of sched.
LEMMA SlotUpdate ==
    ASSUME TypeOK, NEW v \in DOMAIN sched, NEW s \in Slots, NEW new \in Slot,
           sched' = [sched EXCEPT ![v][s] = new]
    PROVE  /\ DOMAIN sched' = DOMAIN sched
           /\ sched' \in [DOMAIN sched' -> [Slots -> Slot]]
<1>1. sched[v] \in [Slots -> Slot]
  BY DEF TypeOK
<1>2. [sched[v] EXCEPT ![s] = new] \in [Slots -> Slot]
  BY <1>1
<1>3. sched' = [sched EXCEPT ![v] = [sched[v] EXCEPT ![s] = new]]
  OBVIOUS
<1> QED
  BY <1>2, <1>3 DEF TypeOK

LEMMA ViewType ==
    ASSUME TypeOK, NEW w \in Workloads
    PROVE  /\ ViewOf(w) \in View
           /\ ViewOf(w).members = Selected(w)
           /\ Selected(w) \subseteq live
<1>1. Selected(w) \subseteq live
  BY DEF Selected
<1>2. Selected(w) \in SUBSET Entries
  BY <1>1 DEF TypeOK
<1> DEFINE order == {p \in Selected(w) \X Selected(w) : Precedes(p[1], p[2])}
<1>3. order \in SUBSET (Entries \X Entries)
  BY <1>2
<1> HIDE DEF order
<1>4. [workload |-> w, members |-> Selected(w), before |-> order] \in View
  BY <1>2, <1>3 DEF View
<1> QED
  BY <1>1, <1>4 DEF ViewOf, order

LEMMA TypeInit == PoolInit => TypeOK
<1> SUFFICES ASSUME PoolInit
             PROVE  TypeOK
  OBVIOUS
<1>1. health \in [Entries -> Health]
  BY FreshTypes DEF PoolInit
<1>2. sched \in [DOMAIN sched -> [Slots -> Slot]] /\ DOMAIN sched \subseteq View
  BY DEF PoolInit
<1> QED
  BY <1>1, <1>2, ConstantTypes DEF PoolInit, TypeOK

LEMMA TypeStep == TypeOK /\ [PoolNext]_poolVars => TypeOK'
<1> SUFFICES ASSUME TypeOK, [PoolNext]_poolVars
             PROVE  TypeOK'
  OBVIOUS
<1>1. ASSUME NEW w \in Workloads, ForRequest(w)
      PROVE  TypeOK'
  <2>1. ViewOf(w) \in View
    BY ViewType
  <2>2. DOMAIN sched' = DOMAIN sched \cup {ViewOf(w)}
    BY <1>1 DEF ForRequest, WithView
  <2>3. sched' \in [DOMAIN sched' -> [Slots -> Slot]]
    BY <1>1, <2>2, FreshTypes DEF ForRequest, WithView, TypeOK
  <2> QED
    BY <1>1, <2>1, <2>2, <2>3 DEF ForRequest, TypeOK
<1>2. ASSUME NEW v \in DOMAIN sched, NEW s \in Slots,
             NEW excluded \in SUBSET Keys, Pick(v, s, excluded)
      PROVE  TypeOK'
  <2>1. PICK e \in Picks(v, s, excluded) : Picked(v, s, e)
    BY <1>2 DEF Pick
  <2>2. sched[v][s] \in Slot
    BY DEF TypeOK
  <2>3. Renewed(sched[v][s], e) \in Slot
    BY <2>2, ConstantTypes DEF Renewed, Slot
  <2>4. sched' = [sched EXCEPT ![v][s] = Renewed(sched[v][s], e)]
    BY <2>1 DEF Picked
  <2> QED
    BY <1>2, <2>3, <2>4, SlotUpdate DEF Pick, TypeOK
<1>3. ASSUME NEW v \in DOMAIN sched, NEW s \in Slots, NEW e \in v.members,
             NEW k \in Kinds, NEW ra \in RetryAfters,
             MarkCooldown(v, s, e, k, ra)
      PROVE  TypeOK'
  <2>1. CASE e \in retired
    BY <1>3, <2>1 DEF MarkCooldown, TypeOK
  <2>2. CASE e \notin retired
    <3>1. e \in Entries
      BY DEF TypeOK, View
    <3>2. health' \in [Entries -> Health]
      BY <1>3, <2>2, <3>1, TripType DEF MarkCooldown, TypeOK
    <3>3. sched[v][s] \in Slot
      BY DEF TypeOK
    <3>4. AfterFailure(sched[v][s], e) \in Slot
      BY <3>1, <3>3, FailureType
    <3>5. sched' = [sched EXCEPT ![v][s] = AfterFailure(sched[v][s], e)]
      BY <1>3, <2>2 DEF MarkCooldown
    <3> QED
      BY <1>3, <3>2, <3>4, <3>5, SlotUpdate DEF MarkCooldown, TypeOK
  <2> QED
    BY <2>1, <2>2
<1>4. ASSUME NEW v \in DOMAIN sched, NEW s \in Slots, NEW e \in v.members,
             MarkSuccess(v, s, e)
      PROVE  TypeOK'
  <2>1. CASE e \in retired
    BY <1>4, <2>1 DEF MarkSuccess, TypeOK
  <2>2. CASE e \notin retired
    <3>1. e \in Entries
      BY DEF TypeOK, View
    <3>2. health' \in [Entries -> Health]
      BY <1>4, <2>2, FreshTypes DEF MarkSuccess, TypeOK
    <3>3. DOMAIN sched' = DOMAIN sched
      BY <1>4, <2>2 DEF MarkSuccess
    <3>4. sched' \in [DOMAIN sched' -> [Slots -> Slot]]
      BY <1>4, <2>2, <3>1, <3>3, SuccessType DEF MarkSuccess, TypeOK
    <3> QED
      BY <1>4, <3>2, <3>3, <3>4 DEF MarkSuccess, TypeOK
  <2> QED
    BY <2>1, <2>2
<1>5. ASSUME NEW targets, NEW views, Reset(targets, views)
      PROVE  TypeOK'
  BY <1>5, FreshTypes DEF Reset, Forget, TypeOK
<1>6. ASSUME ApplySettings
      PROVE  TypeOK'
  BY <1>6, FreshTypes DEF ApplySettings, Forget, TypeOK
<1>7. ASSUME HotUpdate
      PROVE  TypeOK'
  BY <1>7, ConstantTypes DEF HotUpdate, TypeOK
<1>8. ASSUME Tick
      PROVE  TypeOK'
  <2>1. \A n \in Nat : Elapsed(n) \in Nat
    BY DEF Elapsed
  <2>2. health' \in [Entries -> Health]
    BY <1>8, <2>1 DEF Tick, TypeOK, Health
  <2>3. DOMAIN sched' = DOMAIN sched
    BY <1>8 DEF Tick
  <2>4. \A slot \in Slot : [slot EXCEPT !.sticky = Elapsed(@)] \in Slot
    BY <2>1 DEF Slot
  <2>5. sched' \in [DOMAIN sched' -> [Slots -> Slot]]
    BY <1>8, <2>3, <2>4 DEF Tick, TypeOK
  <2> QED
    BY <1>8, <2>2, <2>3, <2>5 DEF Tick, TypeOK
<1>9. CASE UNCHANGED poolVars
  BY <1>9 DEF poolVars, TypeOK
<1> QED
  BY <1>1, <1>2, <1>3, <1>4, <1>5, <1>6, <1>7, <1>8, <1>9
     DEF PoolNext, Report, Admin, ResetCircuit

\* The state of the pool is always of its type: KeyPool.TypeOK, the pool,
\* its views and its circuits after any sequence of calls.
THEOREM PoolTypeCorrect == PoolSpec => []TypeOK
BY TypeInit, TypeStep, PTL DEF PoolSpec

-----------------------------------------------------------------------------
(* The inductive invariant of the pool holds *)

\* What the two conjuncts about the schedulers say of one slot of a view.
Owned(v, slot) ==
    /\ slot.current \in v.members \cup {None}
    /\ ~Repricing => (slot.floor # 0 =>
           slot.current # None /\ slot.floor = price[slot.current])

LEMMA OwnedEverywhere ==
    CurrentIsMember /\ FloorIsCurrent
        <=> \A v \in DOMAIN sched, s \in Slots : Owned(v, sched[v][s])
BY DEF CurrentIsMember, FloorIsCurrent, Owned

LEMMA FreshIsOwned == \A v : Owned(v, FreshSlot)
BY DEF Owned, FreshSlot

LEMMA OwnedSlots ==
    ASSUME TypeOK, CurrentIsMember, FloorIsCurrent, UNCHANGED price,
           \A v \in DOMAIN sched', s \in Slots : Owned(v, sched'[v][s])
    PROVE  CurrentIsMember' /\ FloorIsCurrent'
BY DEF CurrentIsMember, FloorIsCurrent, Owned

LEMMA IInvInit == PoolInit => IInv
BY TypeInit DEF PoolInit, IInv, NoResurrection, ViewsAreKnown, CurrentIsMember,
                FloorIsCurrent

LEMMA OneSlotChanged ==
    ASSUME IInv, NEW v \in DOMAIN sched, NEW s \in Slots, NEW new,
           Owned(v, new), UNCHANGED price,
           sched' = [sched EXCEPT ![v][s] = new]
    PROVE  CurrentIsMember' /\ FloorIsCurrent'
<1>1. sched[v] \in [Slots -> Slot]
  BY DEF IInv, TypeOK
<1>2. \A u \in DOMAIN sched', t \in Slots :
          sched'[u][t] = IF u = v /\ t = s THEN new ELSE sched[u][t]
  BY <1>1 DEF IInv, TypeOK
<1>3. \A u \in DOMAIN sched', t \in Slots : Owned(u, sched'[u][t])
  BY <1>2, OwnedEverywhere DEF IInv
<1> QED
  BY <1>3, OwnedSlots DEF IInv

\* Dropping the scheduler state of some views.
LEMMA ViewsForgotten ==
    ASSUME IInv, NEW views, sched' = Forget(views), UNCHANGED price
    PROVE  DOMAIN sched' = DOMAIN sched /\ CurrentIsMember' /\ FloorIsCurrent'
<1>1. \A u \in DOMAIN sched', t \in Slots : Owned(u, sched'[u][t])
  BY OwnedEverywhere, FreshIsOwned DEF IInv, Forget, FreshSched
<1> QED
  BY <1>1, OwnedSlots DEF IInv, Forget

LEMMA IInvStep == IInv /\ [PoolNext]_poolVars => IInv'
<1> SUFFICES ASSUME IInv, [PoolNext]_poolVars
             PROVE  IInv'
  OBVIOUS
<1>0. TypeOK'
  BY TypeStep DEF IInv
<1>a. ASSUME UNCHANGED <<live, retired>>, DOMAIN sched' = DOMAIN sched
      PROVE  NoResurrection' /\ ViewsAreKnown'
  BY <1>a DEF IInv, NoResurrection, ViewsAreKnown
<1>1. ASSUME NEW w \in Workloads, ForRequest(w)
      PROVE  IInv'
  <2>1. /\ ViewOf(w).members \subseteq live
        /\ DOMAIN sched' = DOMAIN sched \cup {ViewOf(w)}
    BY <1>1, ViewType DEF ForRequest, WithView, IInv
  <2>2. NoResurrection' /\ ViewsAreKnown'
    BY <1>1, <2>1 DEF ForRequest, IInv, NoResurrection, ViewsAreKnown
  <2>3. \A v \in DOMAIN sched', s \in Slots : Owned(v, sched'[v][s])
    BY <1>1, OwnedEverywhere, FreshIsOwned
       DEF ForRequest, WithView, FreshSched, IInv
  <2> QED
    BY <1>0, <1>1, <2>2, <2>3, OwnedSlots DEF ForRequest, IInv
<1>2. ASSUME NEW v \in DOMAIN sched, NEW s \in Slots,
             NEW excluded \in SUBSET Keys, Pick(v, s, excluded)
      PROVE  IInv'
  <2>1. PICK e \in Picks(v, s, excluded) : Picked(v, s, e)
    BY <1>2 DEF Pick
  <2>2. sched[v][s] \in Slot /\ Owned(v, sched[v][s])
    BY OwnedEverywhere DEF IInv, TypeOK
  <2>3. Owned(v, Renewed(sched[v][s], e))
    BY <2>2 DEF Renewed, Owned, Slot
  <2>4. sched' = [sched EXCEPT ![v][s] = Renewed(sched[v][s], e)]
    BY <2>1 DEF Picked
  <2>5. CurrentIsMember' /\ FloorIsCurrent'
    BY <1>2, <2>3, <2>4, OneSlotChanged DEF Pick
  <2> QED
    BY <1>0, <1>2, <1>a, <2>4, <2>5 DEF Pick, IInv
<1>3. ASSUME NEW v \in DOMAIN sched, NEW s \in Slots, NEW e \in v.members,
             NEW k \in Kinds, NEW ra \in RetryAfters,
             MarkCooldown(v, s, e, k, ra)
      PROVE  IInv'
  <2>1. CASE e \in retired
    BY <1>0, <1>3, <1>a, <2>1
       DEF MarkCooldown, IInv, CurrentIsMember, FloorIsCurrent
  <2>2. CASE e \notin retired
    <3>1. e \in Entries
      BY DEF IInv, TypeOK, View
    <3>2. sched[v][s] \in Slot /\ Owned(v, sched[v][s])
      BY OwnedEverywhere DEF IInv, TypeOK
    <3>3. Owned(v, AfterFailure(sched[v][s], e))
      BY <3>1, <3>2, ConstantTypes DEF AfterFailure, Owned, Slot
    <3>4. sched' = [sched EXCEPT ![v][s] = AfterFailure(sched[v][s], e)]
      BY <1>3, <2>2 DEF MarkCooldown
    <3>5. CurrentIsMember' /\ FloorIsCurrent'
      BY <1>3, <3>3, <3>4, OneSlotChanged DEF MarkCooldown
    <3> QED
      BY <1>0, <1>3, <1>a, <3>4, <3>5 DEF MarkCooldown, IInv
  <2> QED
    BY <2>1, <2>2
<1>4. ASSUME NEW v \in DOMAIN sched, NEW s \in Slots, NEW e \in v.members,
             MarkSuccess(v, s, e)
      PROVE  IInv'
  <2>1. CASE e \in retired
    BY <1>0, <1>4, <1>a, <2>1
       DEF MarkSuccess, IInv, CurrentIsMember, FloorIsCurrent
  <2>2. CASE e \notin retired
    <3>1. Owned(v, Succeeded(e))
      BY DEF Owned, Succeeded
    <3>2. \A u \in DOMAIN sched', t \in Slots : Owned(u, sched'[u][t])
      BY <1>4, <2>2, <3>1, OwnedEverywhere DEF MarkSuccess, IInv
    <3>3. CurrentIsMember' /\ FloorIsCurrent'
      BY <1>4, <3>2, OwnedSlots DEF MarkSuccess, IInv
    <3> QED
      BY <1>0, <1>4, <1>a, <2>2, <3>3 DEF MarkSuccess, IInv
  <2> QED
    BY <2>1, <2>2
<1>5. ASSUME NEW targets, NEW views, Reset(targets, views)
      PROVE  IInv'
  BY <1>0, <1>5, <1>a, ViewsForgotten DEF Reset, IInv
<1>6. ASSUME ApplySettings
      PROVE  IInv'
  BY <1>0, <1>6, <1>a, ViewsForgotten DEF ApplySettings, IInv
<1>7. ASSUME HotUpdate
      PROVE  IInv'
  <2>1. PICK S \in SUBSET (Entries \ retired), p \in [Entries -> Prices] :
            /\ \A e \in Entries : e \notin S => p[e] = price[e]
            /\ ~Repricing => \A e \in S \cap live : p[e] = price[e]
            /\ live' = S
            /\ retired' = retired \cup (live \ S)
            /\ price' = p
            /\ UNCHANGED sched
    BY <1>7 DEF HotUpdate
  <2>2. NoResurrection' /\ ViewsAreKnown'
    BY <2>1 DEF IInv, NoResurrection, ViewsAreKnown
  <2>3. CurrentIsMember'
    BY <2>1 DEF IInv, CurrentIsMember
  <2>4. ASSUME ~Repricing, NEW v \in DOMAIN sched, NEW e \in v.members
        PROVE  p[e] = price[e]
    <3>1. e \in live \cup retired /\ e \in Entries
      BY DEF IInv, ViewsAreKnown, TypeOK
    <3> QED
      BY <2>1, <2>4, <3>1
  <2>5. FloorIsCurrent'
    BY <2>1, <2>4 DEF IInv, FloorIsCurrent, CurrentIsMember
  <2> QED
    BY <1>0, <2>2, <2>3, <2>5 DEF IInv
<1>8. ASSUME Tick
      PROVE  IInv'
  <2>1. DOMAIN sched' = DOMAIN sched
    BY <1>8 DEF Tick
  <2>2. \A v \in DOMAIN sched, s \in Slots :
            /\ sched'[v][s].current = sched[v][s].current
            /\ sched'[v][s].floor = sched[v][s].floor
    <3>1. \A v \in DOMAIN sched, s \in Slots : sched[v][s] \in Slot
      BY DEF IInv, TypeOK
    <3> QED
      BY <1>8, <3>1 DEF Tick, Slot
  <2>3. CurrentIsMember' /\ FloorIsCurrent'
    BY <1>8, <2>1, <2>2 DEF Tick, IInv, CurrentIsMember, FloorIsCurrent
  <2> QED
    BY <1>0, <1>8, <1>a, <2>1, <2>3 DEF Tick, IInv
<1>9. CASE UNCHANGED poolVars
  BY <1>0, <1>9, <1>a DEF poolVars, IInv, CurrentIsMember, FloorIsCurrent
<1> QED
  BY <1>1, <1>2, <1>3, <1>4, <1>5, <1>6, <1>7, <1>8, <1>9
     DEF PoolNext, Report, Admin, ResetCircuit

\* The inductive invariant holds in every state of the pool.
THEOREM PoolInvariant == PoolSpec => []IInv
BY IInvInit, IInvStep, PTL DEF PoolSpec

-----------------------------------------------------------------------------
(* What follows for the pool *)

LEMMA IInvViewsAreLive == IInv => ViewsAreLive
BY DEF IInv, ViewsAreLive, ViewsAreKnown, CurrentIsMember, Cached

LEMMA IInvServes == IInv => Serves
<1> SUFFICES ASSUME IInv, ~Repricing,
                    NEW v \in DOMAIN sched, NEW s \in Slots, v.members # {}
             PROVE  Eligible(v, s, {}) # {}
  BY DEF Serves
<1>1. NoSession \in Slots
  BY DEF Slots
<1>2. /\ sched[v][s].floor \in Nat
      /\ sched[v][NoSession].floor \in Nat
      /\ \A e \in v.members : e \in Entries /\ price[e] \in Nat
  BY <1>1, ConstantTypes DEF IInv, TypeOK, Slot, View
<1> DEFINE view == sched[v][NoSession]
<1> DEFINE slot == sched[v][s]
<1>3. /\ view.current \in v.members \cup {None}
      /\ slot.current \in v.members \cup {None}
      /\ view.floor # 0 => view.current # None /\ view.floor = price[view.current]
      /\ slot.floor # 0 => slot.current # None /\ slot.floor = price[slot.current]
  BY <1>1 DEF IInv, CurrentIsMember, FloorIsCurrent
<1>4. \A e \in v.members :
          price[e] >= view.floor /\ price[e] >= slot.floor => e \in Eligible(v, s, {})
  BY DEF Eligible, AboveViewFloor
<1>5. CASE view.floor >= slot.floor /\ view.floor # 0
  BY <1>2, <1>3, <1>4, <1>5
<1>6. CASE slot.floor >= view.floor /\ slot.floor # 0
  BY <1>2, <1>3, <1>4, <1>6
<1>7. CASE view.floor = 0 /\ slot.floor = 0
  BY <1>2, <1>4, <1>7
<1> QED
  BY <1>2, <1>5, <1>6, <1>7

\* The views the pool hands out never name a dropped key (replace_key_pool
\* discards the ones that do, and keeps the others' schedulers).
THEOREM PoolViewsAreLive == PoolSpec => []ViewsAreLive
BY PoolInvariant, IInvViewsAreLive, PTL

\* mark_cooldown raises the failover floor, mark_success, reset_circuit and
\* apply_settings remove it, and it never locks a request out of its view.
THEOREM PoolServes == PoolSpec => []Serves
BY PoolInvariant, IInvServes, PTL

-----------------------------------------------------------------------------
(* Every entry of every pool implements Breaker. *)

\* The observed circuit does nothing, as far as a breaker can see.
LEMMA Stutter ==
    ASSUME UNCHANGED <<health[Observed].left, health[Observed].level>>
    PROVE  [Circuit!Next]_Circuit!vars
BY DEF Circuit!vars

LEMMA ObservedType ==
    ASSUME TypeOK
    PROVE  /\ Observed \in Entries
           /\ health[Observed] \in Health
           /\ health[Observed].left \in Nat
           /\ health[Observed].level \in 0..LevelCap
BY ObservedAssumption DEF TypeOK, Health

LEMMA TripRefines ==
    ASSUME TypeOK, NEW k \in Kinds, NEW ra \in RetryAfters,
           health' = [health EXCEPT ![Observed] = AfterTrip(@, k, ra)]
    PROVE  Circuit!Open \/ Circuit!Extend
<1> DEFINE h == health[Observed]
<1> DEFINE level == IF h.left > 0 THEN h.level ELSE NextLevel(h, k)
<1> DEFINE cooldown == Larger(Backoff(k, level), ra)
<1>1. h \in Health /\ h.left \in Nat /\ h.level \in 0..LevelCap
  BY ObservedType
<1>2. LevelCap \in Nat /\ LevelCap # 0 /\ ra \in Nat
  BY ConstantTypes
<1>3. Backoff(k, level) \in Nat
  BY ConstantTypes DEF Backoff, Capped
<1>4. health'[Observed] = AfterTrip(h, k, ra)
  BY ObservedType DEF TypeOK
<1>5. /\ health'[Observed].left = Larger(h.left, cooldown)
      /\ health'[Observed].level = level
  BY <1>4 DEF AfterTrip
<1>6. /\ cooldown \in Nat
      /\ cooldown >= Backoff(k, level)
  BY <1>2, <1>3 DEF Larger
<1>7. CASE h.left > 0
  <2>1. level = h.level
    BY <1>7
  <2> HIDE DEF level, cooldown
  <2>2. health'[Observed].left \in Nat /\ health'[Observed].left >= h.left
    BY <1>1, <1>5, <1>6 DEF Larger
  <2> QED
    BY <1>5, <1>7, <2>1, <2>2 DEF Circuit!Extend
<1>8. CASE ~(h.left > 0)
  <2>1. h.left = 0 /\ level = NextLevel(h, k)
    BY <1>1, <1>8
  <2>2. /\ level \in {1, IF h.level < LevelCap THEN h.level + 1 ELSE LevelCap}
        /\ level \in 1..LevelCap
    BY <1>1, <1>2, <2>1 DEF NextLevel
  <2>3. Backoff(k, level) >= LeastWait[level] /\ LeastWait[level] \in Nat
    BY <2>2, ObservedAssumption
  <2> HIDE DEF level, cooldown
  <2>4. /\ health'[Observed].left \in Nat
        /\ health'[Observed].left >= LeastWait[level]
    BY <1>3, <1>5, <1>6, <2>1, <2>3 DEF Larger
  <2> QED
    BY <1>5, <2>1, <2>2, <2>4 DEF Circuit!Open
<1> QED
  BY <1>7, <1>8

LEMMA CloseRefines ==
    ASSUME health'[Observed] = Healthy
    PROVE  Circuit!Close
<1>1. Healthy.left = 0 /\ Healthy.level = 0
  BY DEF Healthy
<1>2. health'[Observed].left = 0 /\ health'[Observed].level = 0
  BY <1>1
<1> QED
  BY <1>2 DEF Circuit!Close

LEMMA BreakerInit == PoolInit => Circuit!Init
<1>1. Healthy.left = 0 /\ Healthy.level = 0
  BY DEF Healthy
<1>2. PoolInit => health[Observed] = Healthy
  BY ObservedAssumption DEF PoolInit
<1> QED
  BY <1>1, <1>2 DEF Circuit!Init

LEMMA BreakerStep ==
    TypeOK /\ [PoolNext]_poolVars => [Circuit!Next]_Circuit!vars
<1> SUFFICES ASSUME TypeOK, [PoolNext]_poolVars
             PROVE  [Circuit!Next]_Circuit!vars
  OBVIOUS
<1>1. ASSUME NEW v \in DOMAIN sched, NEW s \in Slots, NEW e \in v.members,
             NEW k \in Kinds, NEW ra \in RetryAfters,
             MarkCooldown(v, s, e, k, ra)
      PROVE  [Circuit!Next]_Circuit!vars
  <2>1. CASE e = Observed /\ e \notin retired
    BY <1>1, <2>1, TripRefines DEF MarkCooldown, Circuit!Next
  <2>2. CASE e # Observed \/ e \in retired
    <3>1. health'[Observed] = health[Observed]
      BY <1>1, <2>2, ObservedType DEF MarkCooldown, TypeOK
    <3> QED
      BY <3>1, Stutter
  <2> QED
    BY <2>1, <2>2
<1>2. ASSUME NEW v \in DOMAIN sched, NEW s \in Slots, NEW e \in v.members,
             MarkSuccess(v, s, e)
      PROVE  [Circuit!Next]_Circuit!vars
  <2>1. health'[Observed] \in {health[Observed], Healthy}
    BY <1>2, ObservedType DEF MarkSuccess, TypeOK
  <2> QED
    BY <2>1, Stutter, CloseRefines DEF Circuit!Next
<1>3. ASSUME NEW targets, NEW views, Reset(targets, views)
      PROVE  [Circuit!Next]_Circuit!vars
  <2>1. health'[Observed] \in {health[Observed], Healthy}
    BY <1>3, ObservedType DEF Reset
  <2> QED
    BY <2>1, Stutter, CloseRefines DEF Circuit!Next
<1>4. ASSUME Tick
      PROVE  [Circuit!Next]_Circuit!vars
  <2>1. /\ health'[Observed].left = Elapsed(health[Observed].left)
        /\ health'[Observed].level = health[Observed].level
    BY <1>4, ObservedType DEF Tick, Health
  <2>2. CASE health[Observed].left > 0
    BY <2>1, <2>2 DEF Elapsed, Circuit!Wait, Circuit!Next
  <2>3. CASE ~(health[Observed].left > 0)
    BY <2>1, <2>3, ObservedType, Stutter DEF Elapsed
  <2> QED
    BY <2>2, <2>3
<1>5. ASSUME UNCHANGED health
      PROVE  [Circuit!Next]_Circuit!vars
  BY <1>5, Stutter
<1> QED
  BY <1>1, <1>2, <1>3, <1>4, <1>5
     DEF PoolNext, ForRequest, Pick, Report, Admin, ResetCircuit, ApplySettings,
         HotUpdate, poolVars

\* For every set of requests, prices and failure kinds, the circuit of any
\* entry keeps the promises of Breaker: failures reported late or twice never
\* shorten a wait nor count one outage more than once.
THEOREM KeysAreBreakers == PoolSpec => KeyIsABreaker
BY BreakerInit, BreakerStep, PoolTypeCorrect, PTL
   DEF PoolSpec, KeyIsABreaker, Circuit!Spec

-----------------------------------------------------------------------------
(* The pool's operators *)

LEMMA LeastExists ==
    ASSUME NEW S \in SUBSET Nat, S # {}
    PROVE  \E m \in S : \A n \in S : m <= n
<1> DEFINE R == OpToRel(<, Nat)
<1>1. IsWellFoundedOn(R, Nat)
  BY NatLessThanWellFounded
<1>2. \A y, x \in Nat : <<y, x>> \in R <=> y < x
  BY DEF OpToRel
<1> HIDE DEF R
<1>3. \E x \in S : \A y \in S : ~ (<<y, x>> \in R)
  BY <1>1, WFMin
<1>4. PICK m \in S : \A n \in S : ~ (<<n, m>> \in R)
  BY <1>3
<1>5. \A n \in S : ~ (n < m) /\ n \in Nat /\ m \in Nat
  BY <1>2, <1>4
<1>6. \A n \in S : m <= n
  BY <1>5
<1> QED
  BY <1>6

LEMMA NextAvailableType ==
    TypeOK => \A v \in View : NextAvailableIn(v) \in Nat
<1> SUFFICES ASSUME TypeOK, NEW v \in View, AboveViewFloor(v) # {}
             PROVE  NextAvailableIn(v) \in Nat
  BY DEF NextAvailableIn
<1> DEFINE A == AboveViewFloor(v)
<1>1. A \subseteq Entries
  BY DEF AboveViewFloor, View
<1>2. \A e \in A : health[e].left \in Nat
  BY <1>1 DEF TypeOK, Health
<1> DEFINE waits == {health[e].left : e \in A}
<1>3. waits \in SUBSET Nat /\ waits # {}
  BY <1>2
<1>4. \E m \in waits : \A n \in waits : m <= n
  BY <1>3, LeastExists
<1>5. \E e \in A : \A f \in A : health[e].left <= health[f].left
  BY <1>4
<1> DEFINE first == CHOOSE e \in A : \A f \in A : health[e].left <= health[f].left
<1>6. first \in A
  BY <1>5
<1> QED
  BY <1>2, <1>6 DEF NextAvailableIn

LEMMA PicksAreCandidates ==
    ASSUME NEW v, NEW s, NEW excluded, NEW e \in Picks(v, s, excluded)
    PROVE  e \in v.members /\ KeyOf[e] \notin excluded
<1> DEFINE eligible == Eligible(v, s, excluded)
<1> DEFINE available == {f \in eligible : ~Cooling(f)}
<1>1. \A C : Preferred(v, s, C) \subseteq C
  BY DEF Preferred
<1>2. \A C : FirstToRecover(v, C) \subseteq C
  BY DEF FirstToRecover
<1>3. \A C \in CandidateSets(available) : C \subseteq available
  BY DEF CandidateSets, InGroup
<1>4. e \in eligible
  BY <1>1, <1>2, <1>3 DEF Picks
<1> QED
  BY <1>4 DEF Eligible, AboveViewFloor

-----------------------------------------------------------------------------
(* The inductive invariant of a request *)

\* What a request's local state q must satisfy, given the views V of the pool.
Sound(q, V) ==
    /\ q \in Request
    /\ q.pc = "idle" => q.key = None /\ q.rejected = {}
    /\ q.pc \notin {"idle", "done"} =>
           /\ q.view \in V
           /\ q.view.members # {}
           /\ q.key \in q.view.members \cup {None}
    /\ q.pc = "sent" /\ q.key # None => KeyOf[q.key] \notin q.rejected \cup q.stalled

RInv ==
    /\ TypeOK
    /\ req \in [Requests -> Request]
    /\ \A r \in Requests : Sound(req[r], DOMAIN sched)

LEMMA RetryConstants ==
    /\ WorkloadOf \in [Requests -> Workloads]
    /\ SlotOf \in [Requests -> Slots]
    /\ \A o \in Outcomes : o \in {"upstream", "rate_limit", "transport"} => o \in Kinds
    /\ \A o \in Outcomes : o \in {"denied", "auth"} => "auth" \in Kinds
    /\ 0 \in RetryAfters
    /\ MaxAttempts \in Nat
    /\ WaitTimeout \in Nat
    /\ Intervals \subseteq Nat
BY SerialRetryAssumption

LEMMA RInvImplies == RInv => SerialTypeOK
BY DEF RInv, Sound, SerialTypeOK, Running

LEMMA IdleType == Idle \in Request
BY DEF Idle, Request

LEMMA FinishedSound ==
    ASSUME NEW V, NEW why \in {"response", "gave_up", "wait_timeout", "abandoned"}
    PROVE  Sound([Idle EXCEPT !.pc = "done", !.result = why], V)
BY DEF Sound, Idle, Request

\* A step of one request to a sound local state keeps the invariant.
LEMMA BecomeSound ==
    ASSUME RInv, TypeOK', DOMAIN sched \subseteq DOMAIN sched',
           NEW r \in Requests, NEW q, Sound(q, DOMAIN sched'), Become(r, q)
    PROVE  RInv'
<1>1. \A p \in Requests \ {r} : Sound(req[p], DOMAIN sched')
  BY DEF RInv, Sound
<1>2. q \in Request
  BY DEF Sound
<1>3. req' \in [Requests -> Request]
  BY <1>2 DEF Become, RInv
<1>4. \A p \in Requests : Sound(req'[p], DOMAIN sched')
  BY <1>1 DEF Become, RInv
<1> QED
  BY <1>3, <1>4 DEF RInv

LEMMA FinishKeepsRInv ==
    ASSUME RInv, TypeOK', DOMAIN sched \subseteq DOMAIN sched', NEW r \in Requests,
           NEW why \in {"response", "gave_up", "wait_timeout", "abandoned"},
           Finish(r, why)
    PROVE  RInv'
BY FinishedSound, BecomeSound DEF Finish

-----------------------------------------------------------------------------
(* Picking: Select and WakeToPick *)

\* A local state that is about to pick.
Draft(q) ==
    /\ q \in Request
    /\ q.view \in DOMAIN sched
    /\ q.view.members # {}
    /\ q.key \in q.view.members \cup {None}

LEMMA MembersAreEntries ==
    ASSUME TypeOK, NEW v \in DOMAIN sched
    PROVE  v \in View /\ v.members \subseteq Entries
BY DEF TypeOK, View

LEMMA SendSound ==
    ASSUME RInv, TypeOK', DOMAIN sched' = DOMAIN sched, NEW r \in Requests,
           NEW q, Draft(q), NEW e \in q.view.members \cup {None},
           e # None => KeyOf[e] \notin q.stalled \cup q.rejected, Send(r, q, e)
    PROVE  RInv'
<1>1. CASE MaxAttempts > 0 /\ q.attempt > MaxAttempts
  BY <1>1, FinishKeepsRInv DEF Send
<1>2. CASE ~(MaxAttempts > 0 /\ q.attempt > MaxAttempts)
  <2> DEFINE new == [q EXCEPT !.pc = "sent", !.key = e, !.timer = 0, !.deadline = 0]
  <2>1. e \in Entries \cup {None}
    BY MembersAreEntries DEF Draft, RInv
  <2>2. new \in Request
    BY <2>1 DEF Draft, Request
  <2>3. /\ new.pc = "sent" /\ new.view = q.view /\ new.key = e
        /\ new.stalled = q.stalled /\ new.rejected = q.rejected
    BY DEF Draft, Request
  <2>4. Become(r, new)
    BY <1>2 DEF Send
  <2> HIDE DEF new
  <2>5. Sound(new, DOMAIN sched')
    BY <2>2, <2>3 DEF Sound, Draft
  <2> QED
    BY <2>4, <2>5, BecomeSound
<1> QED
  BY <1>1, <1>2

LEMMA WaitSound ==
    ASSUME RInv, TypeOK', DOMAIN sched' = DOMAIN sched, NEW r \in Requests,
           NEW q, Draft(q), NEW e \in q.view.members, WaitFor(r, q, e)
    PROVE  RInv'
<1>1. e \in Entries
  BY MembersAreEntries DEF Draft, RInv
<1>2. health[e].left \in Nat
  BY <1>1 DEF RInv, TypeOK, Health
<1>3. ASSUME NEW d \in BOOLEAN, NEW t \in Nat,
             Become(r, [q EXCEPT !.pc = "waiting", !.doomed = d, !.timer = t])
      PROVE  RInv'
  <2> DEFINE new == [q EXCEPT !.pc = "waiting", !.doomed = d, !.timer = t]
  <2>1. new \in Request
    BY DEF Draft, Request
  <2>2. new.pc = "waiting" /\ new.view = q.view /\ new.key = q.key
    BY DEF Draft, Request
  <2> HIDE DEF new
  <2>3. Sound(new, DOMAIN sched')
    BY <2>1, <2>2 DEF Sound, Draft
  <2> QED
    BY <1>3, <2>3, BecomeSound DEF new
<1>4. CASE WaitTimeout = 0
  <2> DEFINE new == [q EXCEPT !.pc = "waiting", !.timer = health[e].left]
  <2>1. new \in Request
    BY <1>2 DEF Draft, Request
  <2>2. new.pc = "waiting" /\ new.view = q.view /\ new.key = q.key
    BY DEF Draft, Request
  <2>3. Become(r, new)
    BY <1>4 DEF WaitFor
  <2> HIDE DEF new
  <2>4. Sound(new, DOMAIN sched')
    BY <2>1, <2>2 DEF Sound, Draft
  <2> QED
    BY <2>3, <2>4, BecomeSound
<1>5. CASE WaitTimeout # 0 /\ q.deadline = 0
  BY <1>5, FinishKeepsRInv DEF WaitFor
<1>6. CASE WaitTimeout # 0 /\ q.deadline # 0
  <2> DEFINE doomed == health[e].left > q.deadline
  <2>1. q.deadline \in Nat
    BY DEF Draft, Request
  <2>2. doomed \in BOOLEAN /\ (IF doomed THEN q.deadline ELSE health[e].left) \in Nat
    BY <1>2, <2>1
  <2>3. Become(r, [q EXCEPT !.pc = "waiting", !.doomed = doomed,
                            !.timer = IF doomed THEN q.deadline ELSE health[e].left])
    BY <1>6 DEF WaitFor
  <2> HIDE DEF doomed
  <2> QED
    BY <1>3, <2>2, <2>3
<1> QED
  BY <1>4, <1>5, <1>6

\* One round of _pick_key: a step of the pool, and a sound local state.
LEMMA TryPickSound ==
    ASSUME RInv, NEW r \in Requests, NEW q, Draft(q), TryPick(r, q)
    PROVE  [PoolNext]_poolVars /\ RInv'
<1> DEFINE s == SlotOf[r]
<1> DEFINE excluded == q.stalled \cup q.rejected
<1>1. s \in Slots /\ excluded \in SUBSET Keys /\ q.view \in DOMAIN sched
  BY RetryConstants DEF Draft, Request
<1>2. UNCHANGED <<live, retired, price, health, updates>>
  BY DEF TryPick
<1> HIDE DEF s, excluded
<1>3. CASE UNCHANGED sched /\ Send(r, q, None)
  <2>1. UNCHANGED poolVars
    BY <1>2, <1>3 DEF poolVars
  <2>2. TypeOK' /\ DOMAIN sched' = DOMAIN sched
    BY <2>1, TypeStep DEF RInv, poolVars
  <2> QED
    BY <1>3, <2>1, <2>2, SendSound
<1>4. ASSUME NEW e \in Picks(q.view, s, excluded), Picked(q.view, s, e),
             IF Cooling(e) THEN WaitFor(r, q, e) ELSE Send(r, q, e)
      PROVE  [PoolNext]_poolVars /\ RInv'
  <2>1. PoolNext
    BY <1>1, <1>2, <1>4 DEF PoolNext, Pick
  <2>2. TypeOK' /\ DOMAIN sched' = DOMAIN sched
    BY <1>4, <2>1, TypeStep DEF RInv, Picked
  <2>3. e \in q.view.members /\ KeyOf[e] \notin excluded
    BY PicksAreCandidates
  <2>4. CASE Cooling(e)
    BY <1>4, <2>1, <2>2, <2>3, <2>4, WaitSound
  <2>5. CASE ~Cooling(e)
    BY <1>4, <2>1, <2>2, <2>3, <2>5, SendSound DEF excluded
  <2> QED
    BY <2>4, <2>5
<1> QED
  BY <1>3, <1>4 DEF TryPick, s, excluded

LEMMA RunningDraft ==
    ASSUME RInv, NEW r \in Requests, Running(r)
    PROVE  Draft(req[r])
BY DEF RInv, Sound, Running, Draft

LEMMA SelectPicks ==
    ASSUME RInv, NEW r \in Requests, Select(r)
    PROVE  \E q : /\ Draft(q) /\ TryPick(r, q)
                  /\ q.view = req[r].view /\ q.rejected = req[r].rejected
<1> DEFINE retry == ~HasFresh(req[r].view, req[r].stalled)
<1> DEFINE attempt == NextAttempt(req[r].attempt)
<1> DEFINE stalled == IF retry THEN {} ELSE req[r].stalled
<1> DEFINE q == [req[r] EXCEPT !.attempt = attempt, !.stalled = stalled,
                               !.deadline = WaitTimeout]
<1>1. Draft(req[r])
  BY RunningDraft DEF Select, Running
<1> HIDE DEF retry
<1>0. attempt \in Nat /\ stalled \in SUBSET Keys /\ WaitTimeout \in Nat
  <2>1. req[r].attempt \in Nat /\ req[r].stalled \in SUBSET Keys
    BY <1>1 DEF Draft, Request
  <2>2. attempt \in Nat
    BY <2>1 DEF NextAttempt
  <2>3. stalled \in SUBSET Keys
    BY <2>1
  <2> QED
    BY <2>2, <2>3, RetryConstants
<1> HIDE DEF attempt, stalled
<1>2. /\ q \in Request /\ q.view = req[r].view /\ q.key = req[r].key
      /\ q.rejected = req[r].rejected
  BY <1>1, <1>0 DEF Draft, Request
<1>3. Draft(q)
  BY <1>1, <1>2 DEF Draft
<1>4. TryPick(r, q)
  BY DEF Select, retry, attempt, stalled
<1> HIDE DEF q
<1> QED
  BY <1>2, <1>3, <1>4

LEMMA SelectSound ==
    ASSUME RInv, NEW r \in Requests, Select(r)
    PROVE  [PoolNext]_poolVars /\ RInv'
BY SelectPicks, TryPickSound

LEMMA WakeToPickSound ==
    ASSUME RInv, NEW r \in Requests, WakeToPick(r)
    PROVE  [PoolNext]_poolVars /\ RInv'
<1>1. CASE req[r].doomed
  <2>1. UNCHANGED poolVars /\ Finish(r, "wait_timeout")
    BY <1>1 DEF WakeToPick
  <2>2. TypeOK' /\ DOMAIN sched' = DOMAIN sched
    BY <2>1, TypeStep DEF RInv, poolVars
  <2> QED
    BY <2>1, <2>2, FinishKeepsRInv
<1>2. CASE ~req[r].doomed
  <2>1. Draft(req[r]) /\ TryPick(r, req[r])
    BY <1>2, RunningDraft DEF WakeToPick, Running
  <2> QED
    BY <2>1, TryPickSound
<1> QED
  BY <1>1, <1>2

-----------------------------------------------------------------------------
(* Sleeping, and the outcomes of an attempt *)

LEMMA AsleepSound ==
    ASSUME NEW q, Draft(q), NEW wait \in Nat, NEW poolWait \in Nat,
           wait >= poolWait
    PROVE  Sound(Asleep(q, wait, poolWait), DOMAIN sched)
<1> DEFINE split == poolWait > WaitTimeout /\ WaitTimeout > 0
<1> DEFINE timer == IF split THEN WaitTimeout ELSE wait
<1> DEFINE rest == IF split THEN wait - WaitTimeout ELSE 0
<1> DEFINE new == [q EXCEPT !.pc = "sleeping", !.key = None, !.interval = 0,
                            !.timer = timer, !.rest = rest, !.checks = split]
<1>1. timer \in Nat /\ rest \in Nat /\ split \in BOOLEAN
  BY RetryConstants
<1>2. Asleep(q, wait, poolWait) = new
  BY DEF Asleep
<1> HIDE DEF timer, rest, split
<1>3. new \in Request
  BY <1>1 DEF Draft, Request
<1>4. new.pc = "sleeping" /\ new.view = q.view /\ new.key = None
  BY DEF Draft, Request
<1> HIDE DEF new
<1> QED
  BY <1>2, <1>3, <1>4 DEF Sound, Draft

LEMMA AsleepKeepsRInv ==
    ASSUME RInv, TypeOK', DOMAIN sched' = DOMAIN sched, NEW r \in Requests,
           NEW q, Draft(q), NEW wait \in Nat, NEW poolWait \in Nat,
           wait >= poolWait, Become(r, Asleep(q, wait, poolWait))
    PROVE  RInv'
BY AsleepSound, BecomeSound

\* A request that goes on without having sent anything.
LEMMA StaySound ==
    ASSUME RInv, TypeOK', DOMAIN sched' = DOMAIN sched,
           NEW r \in Requests, Running(r),
           NEW q \in Request, q.view = req[r].view, q.key = req[r].key,
           q.pc \in {"select", "again", "closing", "sleeping"}, Become(r, q)
    PROVE  RInv'
<1>1. Sound(q, DOMAIN sched')
  BY RunningDraft DEF Sound, Draft
<1> QED
  BY <1>1, BecomeSound

LEMMA MarkStep ==
    ASSUME RInv, NEW r \in Requests, NEW v \in DOMAIN sched,
           NEW e \in v.members \cup {None}, NEW k \in Kinds,
           NEW ra \in RetryAfters, Mark(r, v, e, k, ra)
    PROVE  [PoolNext]_poolVars /\ TypeOK' /\ DOMAIN sched' = DOMAIN sched
<1>1. CASE e = None
  BY <1>1, TypeStep DEF Mark, RInv, poolVars
<1>2. CASE e # None
  <2>1. MarkCooldown(v, SlotOf[r], e, k, ra) /\ SlotOf[r] \in Slots
    BY <1>2, RetryConstants DEF Mark
  <2>2. PoolNext
    BY <1>2, <2>1 DEF PoolNext, Report
  <2>3. DOMAIN sched' = DOMAIN sched
    BY <2>1 DEF MarkCooldown
  <2> QED
    BY <2>2, <2>3, TypeStep DEF RInv
<1> QED
  BY <1>1, <1>2

LEMMA QuietStep ==
    ASSUME RInv, UNCHANGED poolVars
    PROVE  [PoolNext]_poolVars /\ TypeOK' /\ DOMAIN sched' = DOMAIN sched
BY TypeStep DEF RInv, poolVars

LEMMA LargerIsLarger ==
    ASSUME NEW a \in Nat, NEW b \in Nat
    PROVE  Larger(a, b) \in Nat /\ Larger(a, b) >= a /\ Larger(a, b) >= b
BY DEF Larger

LEMMA NextAvailableStaysTyped ==
    (TypeOK => \A v \in View : NextAvailableIn(v) \in Nat)'
BY NextAvailableType, PTL

\* The attempt in flight when an answer comes.
InFlight(r, v, e) == v = req[r].view /\ e = req[r].key /\ req[r].pc = "sent"

LEMMA InFlightTypes ==
    ASSUME RInv, NEW r \in Requests, NEW v, NEW e, InFlight(r, v, e)
    PROVE  /\ v \in DOMAIN sched /\ v \in View
           /\ e \in v.members \cup {None}
           /\ Running(r) /\ Draft(req[r])
           /\ \A f \in v.members : f \in Entries /\ KeyOf[f] \in Keys
<1>1. Running(r)
  BY DEF InFlight, Running
<1>2. Draft(req[r])
  BY <1>1, RunningDraft
<1>3. v \in DOMAIN sched
  BY <1>2 DEF Draft, InFlight
<1>4. v \in View /\ v.members \subseteq Entries
  BY <1>3, MembersAreEntries DEF RInv
<1> QED
  BY <1>1, <1>2, <1>3, <1>4 DEF Draft, InFlight, Keys

LEMMA GoesOn ==
    ASSUME RInv, TypeOK', DOMAIN sched' = DOMAIN sched,
           NEW r \in Requests, Running(r),
           NEW pc \in {"select", "again", "closing"},
           NEW i \in Nat, NEW stalled \in SUBSET Keys, NEW rejected \in SUBSET Keys,
           Become(r, [req[r] EXCEPT !.pc = pc, !.interval = i, !.stalled = stalled,
                                    !.rejected = rejected])
    PROVE  RInv'
<1> DEFINE q == [req[r] EXCEPT !.pc = pc, !.interval = i, !.stalled = stalled,
                               !.rejected = rejected]
<1>0. req[r] \in Request
  BY DEF RInv
<1>1. q \in Request
  BY <1>0 DEF Request
<1>2. q.view = req[r].view /\ q.key = req[r].key /\ q.pc = pc
  BY <1>0 DEF Request
<1> HIDE DEF q
<1> QED
  BY <1>1, <1>2, StaySound DEF q

\* What the last lemma says of the local states the code writes.
LEMMA OnlyPc ==
    ASSUME RInv, NEW r \in Requests, NEW pc
    PROVE  [req[r] EXCEPT !.pc = pc]
             = [req[r] EXCEPT !.pc = pc, !.interval = req[r].interval,
                              !.stalled = req[r].stalled,
                              !.rejected = req[r].rejected]
BY DEF RInv, Request

LEMMA FieldTypes ==
    ASSUME RInv, NEW r \in Requests
    PROVE  /\ req[r].interval \in Nat
           /\ req[r].stalled \in SUBSET Keys
           /\ req[r].rejected \in SUBSET Keys
BY DEF RInv, Request

LEMMA MovesTo ==
    ASSUME RInv, TypeOK', DOMAIN sched' = DOMAIN sched,
           NEW r \in Requests, Running(r), NEW pc \in {"select", "again", "closing"},
           Become(r, [req[r] EXCEPT !.pc = pc])
    PROVE  RInv'
<1>1. Become(r, [req[r] EXCEPT !.pc = pc, !.interval = req[r].interval,
                               !.stalled = req[r].stalled,
                               !.rejected = req[r].rejected])
  BY OnlyPc
<1> QED
  BY <1>1, FieldTypes, GoesOn

LEMMA SucceedSound ==
    ASSUME RInv, NEW r \in Requests, NEW v, NEW e, InFlight(r, v, e), Succeed(r, v, e)
    PROVE  [PoolNext]_poolVars /\ RInv'
<1>1. CASE e = None
  BY <1>1, QuietStep, FinishKeepsRInv DEF Succeed
<1>2. CASE e # None
  <2>1. /\ MarkSuccess(v, SlotOf[r], e) /\ SlotOf[r] \in Slots
        /\ v \in DOMAIN sched /\ e \in v.members
    BY <1>2, InFlightTypes, RetryConstants DEF Succeed
  <2>2. PoolNext
    BY <2>1 DEF PoolNext, Report
  <2>3. DOMAIN sched' = DOMAIN sched /\ TypeOK'
    BY <2>1, <2>2, TypeStep DEF RInv, MarkSuccess
  <2> QED
    BY <2>2, <2>3, FinishKeepsRInv DEF Succeed
<1> QED
  BY <1>1, <1>2

LEMMA DenySound ==
    ASSUME RInv, NEW r \in Requests, NEW v, NEW e, InFlight(r, v, e),
           "auth" \in Kinds, Deny(r, v, e)
    PROVE  [PoolNext]_poolVars /\ RInv'
<1>1. [PoolNext]_poolVars /\ TypeOK' /\ DOMAIN sched' = DOMAIN sched
  BY InFlightTypes, MarkStep, RetryConstants DEF Deny
<1> QED
  BY <1>1, FinishKeepsRInv DEF Deny

LEMMA UnauthorizedSound ==
    ASSUME RInv, NEW r \in Requests, NEW v, NEW e, InFlight(r, v, e),
           "auth" \in Kinds, Unauthorized(r, v, e)
    PROVE  [PoolNext]_poolVars /\ RInv'
<1>1. [PoolNext]_poolVars /\ TypeOK' /\ DOMAIN sched' = DOMAIN sched
  BY InFlightTypes, MarkStep, RetryConstants DEF Unauthorized
<1>2. CASE Finish(r, "response")
  BY <1>1, <1>2, FinishKeepsRInv
<1>3. CASE Become(r, [req[r] EXCEPT !.pc = "select"])
  BY <1>1, <1>3, InFlightTypes, MovesTo
<1> QED
  BY <1>1, <1>2, <1>3 DEF Unauthorized

LEMMA FailSound ==
    ASSUME RInv, NEW r \in Requests, NEW v, NEW e, InFlight(r, v, e),
           NEW k \in Kinds, Fail(r, v, e, k)
    PROVE  [PoolNext]_poolVars /\ RInv'
<1>1. PICK ra \in (IF k = "rate_limit" THEN RetryAfters ELSE {0}), i \in Intervals :
          /\ Mark(r, v, e, k, ra)
          /\ IF HasFresh(v, {})'
             THEN Become(r, [req[r] EXCEPT !.pc = "select"])
             ELSE Become(r, [req[r] EXCEPT !.pc = "closing",
                                           !.interval = Larger(i, ra)])
  BY DEF Fail
<1>2. ra \in RetryAfters /\ ra \in Nat /\ i \in Nat
  BY RetryConstants, ConstantTypes
<1>3. [PoolNext]_poolVars /\ TypeOK' /\ DOMAIN sched' = DOMAIN sched
  BY <1>1, <1>2, InFlightTypes, MarkStep
<1>4. CASE Become(r, [req[r] EXCEPT !.pc = "select"])
  BY <1>3, <1>4, InFlightTypes, MovesTo
<1>5. CASE Become(r, [req[r] EXCEPT !.pc = "closing", !.interval = Larger(i, ra)])
  <2>1. Larger(i, ra) \in Nat
    BY <1>2, LargerIsLarger
  <2>2. Become(r, [req[r] EXCEPT !.pc = "closing", !.interval = Larger(i, ra),
                                 !.stalled = req[r].stalled,
                                 !.rejected = req[r].rejected])
    BY <1>5 DEF RInv, Request
  <2> QED
    BY <1>3, <2>1, <2>2, InFlightTypes, FieldTypes, GoesOn
<1> QED
  BY <1>1, <1>3, <1>4, <1>5

LEMMA BreakSound ==
    ASSUME RInv, NEW r \in Requests, NEW v, NEW e, InFlight(r, v, e),
           "transport" \in Kinds, Break(r, v, e)
    PROVE  [PoolNext]_poolVars /\ RInv'
<1>1. [PoolNext]_poolVars /\ TypeOK' /\ DOMAIN sched' = DOMAIN sched
  BY InFlightTypes, MarkStep, RetryConstants DEF Break
<1>2. CASE Become(r, [req[r] EXCEPT !.pc = "again"])
  BY <1>1, <1>2, InFlightTypes, MovesTo
<1>3. ASSUME NEW i \in Intervals, NEW wait \in {IF e = None THEN 0 ELSE NextAvailableIn(v)'},
             Become(r, Asleep(req[r], Larger(i, wait), wait))
      PROVE  RInv'
  <2>1. NextAvailableIn(v)' \in Nat
    BY <1>1, InFlightTypes, NextAvailableStaysTyped
  <2>2. i \in Nat /\ wait \in Nat
    BY <2>1, RetryConstants
  <2>3. Larger(i, wait) \in Nat /\ Larger(i, wait) >= wait
    BY <2>2, LargerIsLarger
  <2> QED
    BY <1>1, <1>3, <2>2, <2>3, InFlightTypes, AsleepKeepsRInv
<1> QED
  BY <1>1, <1>2, <1>3 DEF Break

LEMMA HostErrorSound ==
    ASSUME RInv, NEW r \in Requests, NEW v, NEW e, InFlight(r, v, e), HostError(r)
    PROVE  [PoolNext]_poolVars /\ RInv'
<1>1. [PoolNext]_poolVars /\ TypeOK' /\ DOMAIN sched' = DOMAIN sched
  BY QuietStep DEF HostError
<1>2. PICK i \in Intervals : Become(r, Asleep(req[r], i, 0))
  BY DEF HostError
<1>3. i \in Nat /\ i >= 0
  BY RetryConstants
<1> QED
  BY <1>1, <1>2, <1>3, InFlightTypes, AsleepKeepsRInv

LEMMA StallSound ==
    ASSUME RInv, NEW r \in Requests, NEW v, NEW e, InFlight(r, v, e), Stall(r, v, e)
    PROVE  [PoolNext]_poolVars /\ RInv'
<1> DEFINE stalled == req[r].stalled \cup (IF e = None THEN {} ELSE {KeyOf[e]})
<1> DEFINE poolWait == NextAvailableIn(v)
<1>1. [PoolNext]_poolVars /\ TypeOK' /\ DOMAIN sched' = DOMAIN sched
  BY QuietStep DEF Stall
<1>2. stalled \in SUBSET Keys
  BY InFlightTypes, FieldTypes
<1>3. poolWait \in Nat
  BY InFlightTypes, NextAvailableType DEF RInv
<1> HIDE DEF stalled, poolWait
<1>4. CASE Become(r, [req[r] EXCEPT !.pc = "again", !.stalled = stalled])
  <2>1. Become(r, [req[r] EXCEPT !.pc = "again", !.interval = req[r].interval,
                                 !.stalled = stalled, !.rejected = req[r].rejected])
    BY <1>4 DEF RInv, Request
  <2> QED
    BY <1>1, <1>2, <2>1, InFlightTypes, FieldTypes, GoesOn
<1>5. ASSUME NEW i \in Intervals,
             Become(r, Asleep([req[r] EXCEPT !.stalled = {}],
                              Larger(i, poolWait), poolWait))
      PROVE  RInv'
  <2> DEFINE q == [req[r] EXCEPT !.stalled = {}]
  <2>1. Draft(req[r])
    BY InFlightTypes
  <2>2. q \in Request /\ q.view = req[r].view /\ q.key = req[r].key
    BY <2>1 DEF Draft, Request
  <2>3. Draft(q)
    BY <2>1, <2>2 DEF Draft
  <2> HIDE DEF q
  <2>4. Larger(i, poolWait) \in Nat /\ Larger(i, poolWait) >= poolWait
    BY <1>3, RetryConstants, LargerIsLarger
  <2> QED
    BY <1>1, <1>3, <1>5, <2>3, <2>4, AsleepKeepsRInv DEF q
<1> QED
  BY <1>1, <1>4, <1>5 DEF Stall, stalled, poolWait

LEMMA RejectSound ==
    ASSUME RInv, NEW r \in Requests, NEW v, NEW e, InFlight(r, v, e), Reject(r, v, e)
    PROVE  [PoolNext]_poolVars /\ RInv'
<1> DEFINE rejected == req[r].rejected \cup SetAsideGroup(v, e)
<1>1. [PoolNext]_poolVars /\ TypeOK' /\ DOMAIN sched' = DOMAIN sched
  BY QuietStep DEF Reject
<1>2. rejected \in SUBSET Keys
  BY InFlightTypes, FieldTypes DEF SetAsideGroup, InGroup
<1> HIDE DEF rejected
<1>3. CASE Become(r, [req[r] EXCEPT !.pc = "select", !.rejected = rejected])
  <2>1. Become(r, [req[r] EXCEPT !.pc = "select", !.interval = req[r].interval,
                                 !.stalled = req[r].stalled, !.rejected = rejected])
    BY <1>3 DEF RInv, Request
  <2> QED
    BY <1>1, <1>2, <2>1, InFlightTypes, FieldTypes, GoesOn
<1>4. CASE Finish(r, "response")
  BY <1>1, <1>4, FinishKeepsRInv
<1> QED
  BY <1>1, <1>3, <1>4 DEF Reject, rejected

LEMMA AnswerSound ==
    ASSUME RInv, NEW r \in Requests, Answer(r)
    PROVE  [PoolNext]_poolVars /\ RInv'
<1> PICK v \in {req[r].view}, e \in {req[r].key}, o \in Outcomes :
        \/ o = "success"   /\ Succeed(r, v, e)
        \/ o = "denied"    /\ Deny(r, v, e)
        \/ o = "auth"      /\ Unauthorized(r, v, e)
        \/ o \in Failures  /\ Fail(r, v, e, o)
        \/ o = "transport" /\ Break(r, v, e)
        \/ o = "host"      /\ HostError(r)
        \/ o = "stall"     /\ Stall(r, v, e)
        \/ o = "rejection" /\ Reject(r, v, e)
  BY DEF Answer
<1>1. InFlight(r, v, e)
  BY DEF Answer, InFlight
<1>2. /\ o \in {"denied", "auth"} => "auth" \in Kinds
      /\ o = "transport" => "transport" \in Kinds
      /\ o \in Failures => o \in Kinds
  BY RetryConstants DEF Failures
<1>3. CASE o = "success" /\ Succeed(r, v, e)
  BY <1>1, <1>3, SucceedSound
<1>4. CASE o = "denied" /\ Deny(r, v, e)
  BY <1>1, <1>2, <1>4, DenySound
<1>5. CASE o = "auth" /\ Unauthorized(r, v, e)
  BY <1>1, <1>2, <1>5, UnauthorizedSound
<1>6. CASE o \in Failures /\ Fail(r, v, e, o)
  BY <1>1, <1>2, <1>6, FailSound
<1>7. CASE o = "transport" /\ Break(r, v, e)
  BY <1>1, <1>2, <1>7, BreakSound
<1>8. CASE o = "host" /\ HostError(r)
  BY <1>1, <1>8, HostErrorSound
<1>9. CASE o = "stall" /\ Stall(r, v, e)
  BY <1>1, <1>9, StallSound
<1>10. CASE o = "rejection" /\ Reject(r, v, e)
  BY <1>1, <1>10, RejectSound
<1> QED
  BY <1>3, <1>4, <1>5, <1>6, <1>7, <1>8, <1>9, <1>10

LEMMA StartSound ==
    ASSUME RInv, NEW r \in Requests, Start(r)
    PROVE  [PoolNext]_poolVars /\ RInv'
<1> DEFINE v == ViewOf(WorkloadOf[r])
<1> DEFINE q == [req[r] EXCEPT !.pc = "select", !.view = v]
<1>1. ForRequest(WorkloadOf[r]) /\ Become(r, q) /\ req[r].pc = "idle"
  BY DEF Start
<1>2. WorkloadOf[r] \in Workloads
  BY RetryConstants
<1>3. PoolNext /\ TypeOK'
  BY <1>1, <1>2, TypeStep DEF PoolNext, RInv
<1>4. /\ v \in View /\ v.members # {}
      /\ v \in DOMAIN sched' /\ DOMAIN sched \subseteq DOMAIN sched'
  BY <1>1, <1>2, ViewType DEF ForRequest, WithView, RInv
<1> HIDE DEF v
<1>5. req[r] \in Request
  BY DEF RInv
<1>6. q \in Request
  BY <1>4, <1>5 DEF Request
<1>7. q.pc = "select" /\ q.view = v /\ q.key = req[r].key
  BY <1>5 DEF Request
<1> HIDE DEF q
<1>8. req[r].key = None
  BY <1>1 DEF RInv, Sound
<1>9. Sound(q, DOMAIN sched')
  BY <1>4, <1>6, <1>7, <1>8 DEF Sound
<1> QED
  BY <1>1, <1>3, <1>4, <1>9, BecomeSound

LEMMA WakeToRetrySound ==
    ASSUME RInv, NEW r \in Requests, WakeToRetry(r)
    PROVE  [PoolNext]_poolVars /\ RInv'
<1>1. [PoolNext]_poolVars /\ TypeOK' /\ DOMAIN sched' = DOMAIN sched
  BY QuietStep DEF WakeToRetry
<1>2. Running(r) /\ Draft(req[r]) /\ req[r] \in Request
  BY RunningDraft DEF WakeToRetry, Running, RInv
<1>3. CASE Finish(r, "wait_timeout")
  BY <1>1, <1>3, FinishKeepsRInv
<1>4. CASE Become(r, [req[r] EXCEPT !.timer = req[r].rest, !.rest = 0, !.checks = FALSE])
  <2> DEFINE q == [req[r] EXCEPT !.timer = req[r].rest, !.rest = 0, !.checks = FALSE]
  <2>1. q \in Request
    BY <1>2 DEF Request
  <2>2. q.view = req[r].view /\ q.key = req[r].key /\ q.pc = "sleeping"
    BY <1>2 DEF Request, WakeToRetry
  <2> HIDE DEF q
  <2> QED
    BY <1>1, <1>2, <1>4, <2>1, <2>2, StaySound DEF q
<1>5. CASE Become(r, [req[r] EXCEPT !.pc = "again", !.checks = FALSE])
  <2> DEFINE q == [req[r] EXCEPT !.pc = "again", !.checks = FALSE]
  <2>1. q \in Request
    BY <1>2 DEF Request
  <2>2. q.view = req[r].view /\ q.key = req[r].key /\ q.pc = "again"
    BY <1>2 DEF Request
  <2> HIDE DEF q
  <2> QED
    BY <1>1, <1>2, <1>5, <2>1, <2>2, StaySound DEF q
<1> QED
  BY <1>1, <1>3, <1>4, <1>5 DEF WakeToRetry

LEMMA ClosedSound ==
    ASSUME RInv, NEW r \in Requests, Closed(r)
    PROVE  [PoolNext]_poolVars /\ RInv'
<1> DEFINE v == req[r].view
<1> DEFINE poolWait == IF HasFresh(v, {}) THEN 0 ELSE NextAvailableIn(v)
<1>1. [PoolNext]_poolVars /\ TypeOK' /\ DOMAIN sched' = DOMAIN sched
  BY QuietStep DEF Closed
<1>2. Draft(req[r]) /\ req[r].interval \in Nat
  BY RunningDraft, FieldTypes DEF Closed, Running
<1>3. v \in View
  BY <1>2, MembersAreEntries DEF Draft, RInv
<1>4. poolWait \in Nat
  BY <1>3, NextAvailableType DEF RInv
<1>5. Become(r, Asleep(req[r], Larger(req[r].interval, poolWait), poolWait))
  BY DEF Closed
<1> HIDE DEF poolWait
<1>6. /\ Larger(req[r].interval, poolWait) \in Nat
      /\ Larger(req[r].interval, poolWait) >= poolWait
  BY <1>2, <1>4, LargerIsLarger
<1> QED
  BY <1>1, <1>2, <1>4, <1>5, <1>6, AsleepKeepsRInv

LEMMA PassSound ==
    ASSUME RInv, Pass
    PROVE  [PoolNext]_poolVars /\ RInv'
<1>1. PoolNext /\ TypeOK' /\ DOMAIN sched' = DOMAIN sched
  BY TypeStep DEF Pass, PoolNext, Tick, RInv
<1>2. ASSUME NEW r \in Requests
      PROVE  req'[r] \in Request /\ Sound(req'[r], DOMAIN sched')
  <2>1. req[r] \in Request /\ Sound(req[r], DOMAIN sched)
    BY DEF RInv
  <2>01. req[r].timer \in Nat /\ req[r].deadline \in Nat
    BY <2>1 DEF Request
  <2>02. \A n \in Nat : Elapsed(n) \in Nat
    BY DEF Elapsed
  <2>2. Elapsed(req[r].timer) \in Nat /\ Elapsed(req[r].deadline) \in Nat
    BY <2>01, <2>02
  <2>3. req'[r] = [req[r] EXCEPT !.timer = Elapsed(req[r].timer),
                                 !.deadline = Elapsed(req[r].deadline)]
    BY DEF Pass
  <2>4. req'[r] \in Request
    BY <2>1, <2>2, <2>3 DEF Request
  <2>5. /\ req'[r].pc = req[r].pc /\ req'[r].view = req[r].view
        /\ req'[r].key = req[r].key /\ req'[r].stalled = req[r].stalled
        /\ req'[r].rejected = req[r].rejected
    BY <2>1, <2>3 DEF Request
  <2> QED
    BY <1>1, <2>1, <2>4, <2>5 DEF Sound
<1>3. req' \in [Requests -> Request]
  BY <1>2 DEF Pass
<1> QED
  BY <1>1, <1>2, <1>3 DEF RInv

-----------------------------------------------------------------------------
(* The invariant of a request, and the refinement of the pool *)

LEMMA RInvInit == SerialInit => RInv
<1> SUFFICES ASSUME SerialInit
             PROVE  RInv
  OBVIOUS
<1>1. TypeOK
  BY TypeInit DEF SerialInit
<1>2. Sound(Idle, DOMAIN sched)
  BY IdleType DEF Sound, Idle
<1> QED
  BY <1>1, <1>2, IdleType DEF RInv, SerialInit

LEMMA SerialStep ==
    RInv /\ [SerialNext]_retryVars => [PoolNext]_poolVars /\ RInv'
<1> SUFFICES ASSUME RInv, [SerialNext]_retryVars
             PROVE  [PoolNext]_poolVars /\ RInv'
  OBVIOUS
<1>1. ASSUME NEW r \in Requests, Start(r)
      PROVE  [PoolNext]_poolVars /\ RInv'
  BY <1>1, StartSound
<1>2. ASSUME NEW r \in Requests, Step(r)
      PROVE  [PoolNext]_poolVars /\ RInv'
  BY <1>2, SelectSound, WakeToPickSound, WakeToRetrySound, AnswerSound, ClosedSound
     DEF Step
<1>3. ASSUME NEW r \in Requests, Abandon(r)
      PROVE  [PoolNext]_poolVars /\ RInv'
  BY <1>3, QuietStep, FinishKeepsRInv DEF Abandon
<1>4. ASSUME Operate
      PROVE  [PoolNext]_poolVars /\ RInv'
  <2>1. PoolNext /\ TypeOK'
    BY <1>4, TypeStep DEF Operate, PoolNext, RInv
  <2>2. DOMAIN sched' = DOMAIN sched
    BY <1>4 DEF Operate, Admin, ResetCircuit, Reset, ApplySettings, HotUpdate, Forget
  <2> QED
    BY <1>4, <2>1, <2>2 DEF Operate, RInv
<1>5. ASSUME Pass
      PROVE  [PoolNext]_poolVars /\ RInv'
  BY <1>5, PassSound
<1>6. CASE UNCHANGED retryVars
  <2>1. UNCHANGED poolVars /\ UNCHANGED req
    BY <1>6 DEF retryVars, poolVars
  <2> QED
    BY <2>1, QuietStep DEF RInv
<1> QED
  BY <1>1, <1>2, <1>3, <1>4, <1>5, <1>6 DEF SerialNext

-----------------------------------------------------------------------------
(* Sending *)

\* The request that takes a step is the only one whose local state changes.
LEMMA OthersStay ==
    ASSUME NEW p \in Requests, NEW r \in Requests \ {p}, NEW q, Become(p, q),
           RInv
    PROVE  ~Sends(r)
BY DEF RInv, Become, Sends

LEMMA FinishedDoesNotSend ==
    ASSUME RInv, NEW r \in Requests, NEW why, Finish(r, why)
    PROVE  ~Sends(r)
BY DEF RInv, Finish, Become, Sends, Idle

LEMMA SendsOnlyWhatItPicked ==
    ASSUME RInv, NEW r \in Requests, NEW q \in Request, TryPick(r, q), Sends(r)
    PROVE  req'[r].key # None => ~Cooling(req'[r].key)
<1>1. ASSUME NEW e, Send(r, q, e)
      PROVE  req'[r].key = e
  <2>1. Become(r, [q EXCEPT !.pc = "sent", !.key = e, !.timer = 0, !.deadline = 0])
    BY <1>1, FinishedDoesNotSend DEF Send
  <2> QED
    BY <2>1 DEF Become, RInv, Request
<1>2. ASSUME NEW e, WaitFor(r, q, e)
      PROVE  ~Sends(r)
  <2>1. CASE Finish(r, "wait_timeout")
    BY <2>1, FinishedDoesNotSend
  <2>2. ASSUME ~Finish(r, "wait_timeout")
        PROVE  req'[r].pc = "waiting"
    <3> DEFINE doomed == health[e].left > q.deadline
    <3> DEFINE timer == IF doomed THEN q.deadline ELSE health[e].left
    <3>1. \/ Become(r, [q EXCEPT !.pc = "waiting", !.timer = health[e].left])
          \/ Become(r, [q EXCEPT !.pc = "waiting", !.doomed = doomed, !.timer = timer])
      BY <1>2, <2>2 DEF WaitFor
    <3> HIDE DEF doomed, timer
    <3> QED
      BY <3>1 DEF Become, RInv, Request
  <2> QED
    BY <2>1, <2>2 DEF Sends
<1>3. CASE Send(r, q, None)
  BY <1>1, <1>3
<1>4. ASSUME NEW e, IF Cooling(e) THEN WaitFor(r, q, e) ELSE Send(r, q, e)
      PROVE  ~Cooling(req'[r].key)
  BY <1>1, <1>2, <1>4
<1> QED
  BY <1>3, <1>4 DEF TryPick

LEMMA SomeoneBecame ==
    ASSUME NEW p \in Requests, Start(p) \/ Step(p) \/ Abandon(p)
    PROVE  \E q : Become(p, q)
<1>1. CASE Start(p)
  BY <1>1 DEF Start
<1>2. CASE Abandon(p)
  BY <1>2 DEF Abandon, Finish
<1>3. CASE WakeToRetry(p) \/ Closed(p)
  BY <1>3 DEF WakeToRetry, Closed, Finish
<1>4. ASSUME NEW q, TryPick(p, q)
      PROVE  \E x : Become(p, x)
  BY <1>4 DEF TryPick, Send, WaitFor, Finish
<1>5. CASE Select(p) \/ WakeToPick(p)
  BY <1>4, <1>5 DEF Select, WakeToPick, Finish
<1>6. ASSUME Answer(p)
      PROVE  \E x : Become(p, x)
  <2> PICK v \in {req[p].view}, e \in {req[p].key}, o \in Outcomes :
          \/ Succeed(p, v, e) \/ Deny(p, v, e) \/ Unauthorized(p, v, e)
          \/ Fail(p, v, e, o) \/ Break(p, v, e) \/ HostError(p)
          \/ Stall(p, v, e)   \/ Reject(p, v, e)
    BY <1>6 DEF Answer
  <2>1. CASE Succeed(p, v, e) \/ Deny(p, v, e) \/ Unauthorized(p, v, e)
    BY <2>1 DEF Succeed, Deny, Unauthorized, Finish
  <2>2. CASE Fail(p, v, e, o)
    BY <2>2 DEF Fail
  <2>3. CASE Break(p, v, e) \/ HostError(p)
    BY <2>3 DEF Break, HostError
  <2>4. CASE Stall(p, v, e)
    BY <2>4 DEF Stall
  <2>5. CASE Reject(p, v, e)
    BY <2>5 DEF Reject, Finish
  <2> QED
    BY <2>1, <2>2, <2>3, <2>4, <2>5
<1> QED
  BY <1>1, <1>2, <1>3, <1>5, <1>6 DEF Step

LEMMA StepSendsFresh ==
    ASSUME RInv, NEW p \in Requests, NEW r \in Requests, Sends(r),
           Start(p) \/ Step(p) \/ Abandon(p)
    PROVE  req'[r].key # None => ~Cooling(req'[r].key)
<1>1. \E q : Become(p, q)
  BY SomeoneBecame
<1>2. p = r
  BY <1>1, OthersStay
<1>0. req[r] \in Request /\ req \in [Requests -> Request]
  BY DEF RInv
<1>3. CASE Start(p)
  <2>1. req'[r] = [req[r] EXCEPT !.pc = "select", !.view = ViewOf(WorkloadOf[r])]
    BY <1>2, <1>3, <1>0 DEF Start, Become
  <2>2. req'[r].pc = "select"
    BY <1>0, <2>1 DEF Request
  <2> QED
    BY <2>2 DEF Sends
<1>4. CASE Abandon(p)
  BY <1>2, <1>4, FinishedDoesNotSend DEF Abandon
<1>5. CASE WakeToRetry(p)
  <2>1. ~Finish(r, "wait_timeout") /\ req[r].pc = "sleeping"
    BY <1>2, <1>5, FinishedDoesNotSend DEF WakeToRetry
  <2>2. \/ req'[r] = [req[r] EXCEPT !.timer = req[r].rest, !.rest = 0, !.checks = FALSE]
        \/ req'[r] = [req[r] EXCEPT !.pc = "again", !.checks = FALSE]
    BY <1>2, <1>5, <1>0, <2>1 DEF WakeToRetry, Become
  <2>3. req'[r].pc \in {"sleeping", "again"}
    BY <1>0, <2>1, <2>2 DEF Request
  <2> QED
    BY <2>3 DEF Sends
<1>6. CASE Closed(p)
  <2>1. \E w, pw : req'[r] = Asleep(req[r], w, pw)
    BY <1>2, <1>6, <1>0 DEF Closed, Become
  <2>2. req'[r].pc = "sleeping"
    BY <1>0, <2>1 DEF Asleep, Request
  <2> QED
    BY <2>2 DEF Sends
<1>7. CASE Answer(p)
  BY <1>2, <1>7 DEF Answer, Sends
<1>8. ASSUME NEW q \in Request, TryPick(p, q)
      PROVE  req'[r].key # None => ~Cooling(req'[r].key)
  BY <1>2, <1>8, SendsOnlyWhatItPicked
<1>9. CASE WakeToPick(p)
  <2>1. TryPick(p, req[p]) /\ req[p] \in Request
    BY <1>2, <1>9, FinishedDoesNotSend DEF WakeToPick, RInv
  <2> QED
    BY <1>8, <2>1
<1>10. CASE Select(p)
  BY <1>8, <1>10, SelectPicks DEF Draft
<1> QED
  BY <1>3, <1>4, <1>5, <1>6, <1>7, <1>9, <1>10 DEF Step

LEMMA NextSendsFresh ==
    ASSUME RInv, [SerialNext]_retryVars, NEW r \in Requests, Sends(r)
    PROVE  req'[r].key # None => ~Cooling(req'[r].key)
<1>1. CASE \E p \in Requests : Start(p) \/ Step(p) \/ Abandon(p)
  BY <1>1, StepSendsFresh
<1>2. CASE Operate
  BY <1>2 DEF Operate, Sends
<1>3. CASE Pass
  BY <1>3 DEF Pass, RInv, Request, Sends
<1>4. CASE UNCHANGED retryVars
  BY <1>4 DEF retryVars, Sends
<1> QED
  BY <1>1, <1>2, <1>3, <1>4 DEF SerialNext

-----------------------------------------------------------------------------
(* Groups set aside *)

\* The keys of a request's view differ, and those it has set aside are whole
\* groups.
WholeGroups(v, rejected) ==
    \A f, g \in v.members :
        /\ KeyOf[f] = KeyOf[g] => f = g
        /\ KeyOf[f] \in rejected /\ GroupOf[f] = GroupOf[g] => KeyOf[g] \in rejected

\* Two entries of the pool never have the same key.
KeysDiffer == \A e, f \in live : KeyOf[e] = KeyOf[f] => e = f

GInv == /\ RInv
        /\ KeysDiffer
        /\ \A r \in Requests : Running(r) => WholeGroups(req[r].view, req[r].rejected)

LEMMA GInvImplies == GInv => SetAsideStaysAside
BY RunningDraft DEF GInv, RInv, Sound, Draft, SetAsideStaysAside, WholeGroups, Running

LEMMA KeysStayDifferent ==
    ASSUME KeysDiffer, [PoolNext]_poolVars
    PROVE  KeysDiffer'
<1>1. CASE UNCHANGED live
  BY <1>1 DEF KeysDiffer
<1>2. CASE HotUpdate
  BY <1>2 DEF HotUpdate, Mergeable, KeysDiffer
<1> QED
  BY <1>1, <1>2 DEF PoolNext, ForRequest, Pick, Report, MarkCooldown, MarkSuccess,
                    Admin, ResetCircuit, Reset, ApplySettings, Tick, poolVars

LEMMA ViewsAreWhole ==
    ASSUME TypeOK, KeysDiffer, NEW w \in Workloads
    PROVE  WholeGroups(ViewOf(w), {})
BY ViewType DEF KeysDiffer, WholeGroups

LEMMA GroupsStayWhole ==
    ASSUME NEW v, NEW rejected, WholeGroups(v, rejected), NEW e
    PROVE  WholeGroups(v, rejected \cup SetAsideGroup(v, e))
BY DEF WholeGroups, SetAsideGroup, InGroup

\* What the local state q of a request may have become.
Grown(q, old) ==
    \/ q.pc = "done"
    \/ /\ q.view = old.view
       /\ \/ q.rejected = old.rejected
          \/ \E e \in q.view.members :
                 q.rejected = old.rejected \cup SetAsideGroup(q.view, e)

LEMMA BecameIt ==
    ASSUME RInv, NEW r \in Requests, NEW q, Become(r, q)
    PROVE  req'[r] = q
BY DEF RInv, Become

LEMMA FinishGrows ==
    ASSUME RInv, NEW r \in Requests, NEW why, Finish(r, why), NEW old
    PROVE  Grown(req'[r], old)
BY DEF RInv, Finish, Become, Grown, Idle

LEMMA SendGrows ==
    ASSUME RInv, NEW r \in Requests, NEW q \in Request, NEW e, Send(r, q, e)
    PROVE  Grown(req'[r], q)
<1>1. CASE Finish(r, "gave_up")
  BY <1>1, FinishGrows
<1>2. CASE Become(r, [q EXCEPT !.pc = "sent", !.key = e, !.timer = 0, !.deadline = 0])
  BY <1>2, BecameIt DEF Grown, Request
<1> QED
  BY <1>1, <1>2 DEF Send

LEMMA WaitGrows ==
    ASSUME RInv, NEW r \in Requests, NEW q \in Request, NEW e, WaitFor(r, q, e)
    PROVE  Grown(req'[r], q)
<1> DEFINE doomed == health[e].left > q.deadline
<1> DEFINE timer == IF doomed THEN q.deadline ELSE health[e].left
<1>1. CASE Finish(r, "wait_timeout")
  BY <1>1, FinishGrows
<1>2. CASE Become(r, [q EXCEPT !.pc = "waiting", !.timer = health[e].left])
  BY <1>2, BecameIt DEF Grown, Request
<1>3. CASE Become(r, [q EXCEPT !.pc = "waiting", !.doomed = doomed, !.timer = timer])
  <2>1. req'[r] = [q EXCEPT !.pc = "waiting", !.doomed = doomed, !.timer = timer]
    BY <1>3, BecameIt
  <2> HIDE DEF doomed, timer
  <2>2. req'[r].view = q.view /\ req'[r].rejected = q.rejected
    BY <2>1 DEF Request
  <2> QED
    BY <2>2 DEF Grown
<1> QED
  BY <1>1, <1>2, <1>3 DEF WaitFor

LEMMA TryPickGrows ==
    ASSUME RInv, NEW r \in Requests, NEW q \in Request, TryPick(r, q)
    PROVE  Grown(req'[r], q)
BY SendGrows, WaitGrows DEF TryPick

LEMMA AsleepGrows ==
    ASSUME RInv, NEW r \in Requests, NEW q \in Request, NEW wait, NEW poolWait,
           Become(r, Asleep(q, wait, poolWait))
    PROVE  Grown(req'[r], q)
<1> DEFINE new == Asleep(q, wait, poolWait)
<1>1. new.view = q.view /\ new.rejected = q.rejected
  BY DEF Asleep, Request
<1> QED
  BY <1>1, BecameIt DEF Grown

LEMMA MoveGrows ==
    ASSUME RInv, NEW r \in Requests, NEW pc, Become(r, [req[r] EXCEPT !.pc = pc])
    PROVE  Grown(req'[r], req[r])
<1>1. req[r] \in Request
  BY DEF RInv
<1> QED
  BY <1>1, BecameIt DEF Grown, Request

LEMMA AnswerGrows ==
    ASSUME RInv, NEW r \in Requests, Answer(r)
    PROVE  Grown(req'[r], req[r])
<1> PICK v \in {req[r].view}, e \in {req[r].key}, o \in Outcomes :
        \/ Succeed(r, v, e) \/ Deny(r, v, e) \/ Unauthorized(r, v, e)
        \/ Fail(r, v, e, o) \/ Break(r, v, e) \/ HostError(r)
        \/ Stall(r, v, e)   \/ Reject(r, v, e)
  BY DEF Answer
<1>0. req[r] \in Request
  BY DEF RInv
<1>1. CASE Succeed(r, v, e) \/ Deny(r, v, e) \/ Unauthorized(r, v, e)
  BY <1>1, FinishGrows, MoveGrows DEF Succeed, Deny, Unauthorized
<1>2. CASE Fail(r, v, e, o)
  <2>1. \/ Become(r, [req[r] EXCEPT !.pc = "select"])
        \/ \E i : Become(r, [req[r] EXCEPT !.pc = "closing", !.interval = i])
    BY <1>2 DEF Fail
  <2>2. ASSUME NEW i, Become(r, [req[r] EXCEPT !.pc = "closing", !.interval = i])
        PROVE  Grown(req'[r], req[r])
    BY <1>0, <2>2, BecameIt DEF Grown, Request
  <2> QED
    BY <2>1, <2>2, MoveGrows
<1>3. CASE Break(r, v, e) \/ HostError(r)
  BY <1>0, <1>3, MoveGrows, AsleepGrows DEF Break, HostError
<1>4. CASE Stall(r, v, e)
  <2> DEFINE q == [req[r] EXCEPT !.stalled = {}]
  <2>1. q \in Request /\ q.view = req[r].view /\ q.rejected = req[r].rejected
    BY <1>0 DEF Request
  <2>2. \/ \E s : Become(r, [req[r] EXCEPT !.pc = "again", !.stalled = s])
        \/ \E w, pw : Become(r, Asleep(q, w, pw))
    BY <1>4 DEF Stall
  <2>3. ASSUME NEW s, Become(r, [req[r] EXCEPT !.pc = "again", !.stalled = s])
        PROVE  Grown(req'[r], req[r])
    BY <1>0, <2>3, BecameIt DEF Grown, Request
  <2> HIDE DEF q
  <2>4. ASSUME NEW w, NEW pw, Become(r, Asleep(q, w, pw))
        PROVE  Grown(req'[r], req[r])
    BY <2>1, <2>4, AsleepGrows DEF Grown
  <2> QED
    BY <2>2, <2>3, <2>4
<1>5. CASE Reject(r, v, e)
  <2> DEFINE rejected == req[r].rejected \cup SetAsideGroup(v, e)
  <2>1. CASE Finish(r, "response")
    BY <2>1, FinishGrows
  <2>2. CASE Become(r, [req[r] EXCEPT !.pc = "select", !.rejected = rejected])
    <3>0. req'[r] = [req[r] EXCEPT !.pc = "select", !.rejected = rejected]
      BY <2>2, BecameIt
    <3> HIDE DEF rejected
    <3>1. req'[r].view = v /\ req'[r].rejected = rejected
      BY <1>0, <3>0 DEF Request
    <3>2. e \in v.members
      BY <1>5, InFlightTypes DEF Answer, Reject, InFlight
    <3> QED
      BY <3>1, <3>2 DEF Grown, rejected
  <2> QED
    BY <1>5, <2>1, <2>2 DEF Reject
<1> QED
  BY <1>1, <1>2, <1>3, <1>4, <1>5

LEMMA StepGrows ==
    ASSUME RInv, NEW r \in Requests, Step(r)
    PROVE  Grown(req'[r], req[r])
<1>0. req[r] \in Request
  BY DEF RInv
<1>1. CASE Select(r)
  BY <1>1, SelectPicks, TryPickGrows DEF Draft, Grown
<1>2. CASE WakeToPick(r)
  BY <1>0, <1>2, TryPickGrows, FinishGrows DEF WakeToPick
<1>3. CASE WakeToRetry(r)
  <2>1. ASSUME Become(r, [req[r] EXCEPT !.timer = req[r].rest, !.rest = 0, !.checks = FALSE])
        PROVE  Grown(req'[r], req[r])
    BY <1>0, <2>1, BecameIt DEF Grown, Request
  <2>2. ASSUME Become(r, [req[r] EXCEPT !.pc = "again", !.checks = FALSE])
        PROVE  Grown(req'[r], req[r])
    BY <1>0, <2>2, BecameIt DEF Grown, Request
  <2> QED
    BY <1>3, <2>1, <2>2, FinishGrows DEF WakeToRetry
<1>4. CASE Closed(r)
  BY <1>0, <1>4, AsleepGrows DEF Closed
<1> QED
  BY <1>1, <1>2, <1>3, <1>4, AnswerGrows DEF Step

LEMMA GroupsKept == GInv /\ [SerialNext]_retryVars => GInv'
<1> SUFFICES ASSUME GInv, [SerialNext]_retryVars
             PROVE  GInv'
  OBVIOUS
<1>0. RInv /\ RInv' /\ [PoolNext]_poolVars
  BY SerialStep DEF GInv
<1>1. KeysDiffer'
  BY <1>0, KeysStayDifferent DEF GInv
<1>2. ASSUME NEW r \in Requests, Running(r)'
      PROVE  WholeGroups(req'[r].view, req'[r].rejected)
  <2>0. req[r] \in Request /\ (~Running(r) => req[r].pc \in {"idle", "done"})
    BY <1>0 DEF RInv, Running
  <2>1. CASE req'[r].view = req[r].view /\ req'[r].rejected = req[r].rejected /\ Running(r)
    BY <2>1 DEF GInv
  <2>2. CASE Start(r)
    <3>1. req[r].rejected = {} /\ req[r].pc = "idle"
      BY <1>0, <2>2 DEF RInv, Sound, Start
    <3>2. req'[r] = [req[r] EXCEPT !.pc = "select", !.view = ViewOf(WorkloadOf[r])]
      BY <1>0, <2>2, BecameIt DEF Start
    <3>3. req'[r].view = ViewOf(WorkloadOf[r]) /\ req'[r].rejected = {}
      BY <2>0, <3>1, <3>2 DEF Request
    <3> QED
      BY <1>0, <3>3, ViewsAreWhole, RetryConstants DEF GInv, RInv
  <2>3. CASE Step(r)
    <3>1. Running(r) /\ Grown(req'[r], req[r]) /\ req'[r].pc # "done"
      BY <1>0, <1>2, <2>3, StepGrows DEF Step, Select, WakeToPick, WakeToRetry, Answer,
                                         Closed, Running
    <3>2. WholeGroups(req[r].view, req[r].rejected)
      BY <3>1 DEF GInv
    <3> QED
      BY <3>1, <3>2, GroupsStayWhole DEF Grown
  <2>4. CASE Abandon(r)
    BY <1>0, <1>2, <2>4, BecameIt DEF Abandon, Finish, Idle, Running
  <2>5. CASE \E p \in Requests \ {r} : Start(p) \/ Step(p) \/ Abandon(p)
    <3>1. req'[r] = req[r]
      BY <1>0, <2>5, SomeoneBecame DEF RInv, Become
    <3> QED
      BY <1>2, <2>1, <3>1 DEF Running
  <2>6. CASE Operate \/ UNCHANGED retryVars
    BY <1>2, <2>1, <2>6 DEF Operate, retryVars, Running
  <2>7. CASE Pass
    <3>1. req'[r] = [req[r] EXCEPT !.timer = Elapsed(req[r].timer),
                                   !.deadline = Elapsed(req[r].deadline)]
      BY <2>7 DEF Pass
    <3>2. /\ req'[r].view = req[r].view /\ req'[r].rejected = req[r].rejected
          /\ req'[r].pc = req[r].pc
      BY <2>0, <3>1 DEF Request
    <3> QED
      BY <1>2, <2>1, <3>2 DEF Running
  <2> QED
    BY <2>2, <2>3, <2>4, <2>5, <2>6, <2>7 DEF SerialNext
<1> QED
  BY <1>0, <1>1, <1>2 DEF GInv

-----------------------------------------------------------------------------
(* The theorems about requests *)

\* RInv, the inductive invariant of the retry loop, holds of every request in
\* every reachable state of RetryProxy._request and the pool it uses.
THEOREM RetryInvariant == SerialSpec => []RInv
BY RInvInit, SerialStep, PTL DEF SerialSpec

\* Whatever the requests do, in any number and order, they only ever take
\* the steps of KeyPool: so its views stay live, its floors never lock a
\* request out and its circuits are breakers under RetryProxy._request too.
THEOREM RetriesUseThePool == SerialSpec => UsesThePool
BY RInvInit, SerialStep, PTL DEF SerialSpec, SerialInit, PoolSpec, UsesThePool

\* A request in any state holds a view the pool knows and a key of that view.
THEOREM RetryTypeCorrect == SerialSpec => []SerialTypeOK
BY RetryInvariant, RInvImplies, PTL

\* The floor of KeyPool never locks out a request of the retry loop.
THEOREM RetriesAreServed == SerialSpec => []Serves
BY RetriesUseThePool, PoolServes, PTL DEF UsesThePool

\* No attempt is ever sent with a key whose circuit is open at that moment,
\* although _pick_key may have slept on it and others tripped it meanwhile.
THEOREM SendsOnClosedCircuits == SerialSpec => NoSendWhileCooling
<1>1. RInv /\ [SerialNext]_retryVars =>
        [\A r \in Requests : Sends(r) /\ req'[r].key # None
                               => ~Cooling(req'[r].key)]_retryVars
  BY NextSendsFresh
<1> QED
  BY <1>1, RetryInvariant, PTL DEF SerialSpec, NoSendWhileCooling

\* A group that refused the model is not asked again by the same request, by
\* whichever of its keys, and a key that stalled is not while _request keeps
\* it aside.
THEOREM AsideStaysAside == SerialSpec => []SetAsideStaysAside
<1>1. SerialInit => GInv
  <2>1. ASSUME SerialInit, NEW r \in Requests
        PROVE  ~Running(r)
    <3>1. req[r] = Idle /\ Idle.pc = "idle"
      BY <2>1 DEF SerialInit, Idle
    <3> QED
      BY <3>1 DEF Running
  <2>2. SerialInit => KeysDiffer
    BY DEF SerialInit, PoolInit, KeysDiffer
  <2> QED
    BY <2>1, <2>2, RInvInit DEF GInv
<1>2. GInv /\ [SerialNext]_retryVars => GInv'
  BY GroupsKept
<1> QED
  BY <1>1, <1>2, GInvImplies, PTL DEF SerialSpec

-----------------------------------------------------------------------------
(* A request always has a key *)

\* The entries of a view are in one order: of any of them, one is the first.
Ordered(v) == \A C \in SUBSET v.members : C # {} => \E e \in C : IsFirst(v, e, C)

ViewsAreOrdered == \A v \in DOMAIN sched : Ordered(v)

\* The cheapest entries, and of those the one that is listed first.
LEMMA NewViewIsOrdered ==
    ASSUME TypeOK, NEW w \in Workloads
    PROVE  Ordered(ViewOf(w))
<1> DEFINE v == ViewOf(w)
<1>1. /\ v.members = Selected(w)
      /\ v.before = {p \in Selected(w) \X Selected(w) : Precedes(p[1], p[2])}
  BY DEF ViewOf
<1>2. Selected(w) \subseteq Entries
  BY DEF Selected, TypeOK
<1>3. \A e \in Entries : price[e] \in Nat /\ Position[e] \in Nat
  BY KeyPoolAssumption DEF TypeOK
<1> HIDE DEF v
<1>4. ASSUME NEW C \in SUBSET v.members, C # {}
      PROVE  \E e \in C : IsFirst(v, e, C)
  <2>1. C \subseteq Entries
    BY <1>1, <1>2
  <2> DEFINE prices == {price[e] : e \in C}
  <2>2. \E p \in prices : \A q \in prices : p <= q
    <3>1. prices \in SUBSET Nat /\ prices # {}
      BY <1>3, <1>4, <2>1
    <3> HIDE DEF prices
    <3> QED
      BY <3>1, LeastExists
  <2>3. PICK p \in prices : \A q \in prices : p <= q
    BY <2>2
  <2> DEFINE places == {Position[e] : e \in {f \in C : price[f] = p}}
  <2>4. \E n \in places : \A m \in places : n <= m
    <3>1. places \in SUBSET Nat /\ places # {}
      BY <1>3, <2>1, <2>3
    <3> HIDE DEF places
    <3> QED
      BY <3>1, LeastExists
  <2>5. PICK n \in places : \A m \in places : n <= m
    BY <2>4
  <2>6. PICK e \in C : price[e] = p /\ Position[e] = n
    BY <2>5
  <2>7. ASSUME NEW f \in C \ {e}
        PROVE  <<e, f>> \in v.before
    <3>1. e \in Entries /\ f \in Entries /\ e \in Selected(w) /\ f \in Selected(w)
      BY <1>1, <1>2
    <3>2. p <= price[f]
      BY <2>3
    <3>3. price[f] = p => n <= Position[f]
      BY <2>5
    <3>4. Position[e] # Position[f]
      BY <2>7, <3>1, KeyPoolAssumption
    <3>5. Precedes(e, f)
      <4>1. /\ price[e] \in Nat /\ price[f] \in Nat
            /\ Position[e] \in Nat /\ Position[f] \in Nat
        BY <1>3, <3>1
      <4> QED
        BY <2>6, <3>2, <3>3, <3>4, <4>1 DEF Precedes
    <3> QED
      BY <1>1, <3>1, <3>5
  <2> QED
    BY <2>7 DEF IsFirst
<1> QED
  BY <1>4 DEF Ordered, v

LEMMA OrderKept == TypeOK /\ ViewsAreOrdered /\ [PoolNext]_poolVars => ViewsAreOrdered'
<1> SUFFICES ASSUME TypeOK, ViewsAreOrdered, [PoolNext]_poolVars
             PROVE  ViewsAreOrdered'
  OBVIOUS
<1>1. CASE DOMAIN sched' = DOMAIN sched
  BY <1>1 DEF ViewsAreOrdered
<1>2. ASSUME NEW w \in Workloads, ForRequest(w)
      PROVE  ViewsAreOrdered'
  <2>1. DOMAIN sched' = DOMAIN sched \cup {ViewOf(w)}
    BY <1>2 DEF ForRequest, WithView
  <2>2. \A v \in DOMAIN sched' : Ordered(v)
    BY <2>1, NewViewIsOrdered DEF ViewsAreOrdered
  <2> QED
    BY <2>2 DEF ViewsAreOrdered
<1>3. ASSUME NEW v \in DOMAIN sched, NEW s \in Slots, NEW excluded \in SUBSET Keys,
             Pick(v, s, excluded)
      PROVE  DOMAIN sched' = DOMAIN sched
  BY <1>3 DEF Pick, Picked
<1>4. CASE Report
  BY <1>1, <1>4 DEF Report, MarkCooldown, MarkSuccess
<1>5. CASE Admin \/ Tick \/ UNCHANGED poolVars
  BY <1>1, <1>5 DEF Admin, ResetCircuit, Reset, ApplySettings, HotUpdate, Forget, Tick, poolVars
<1> QED
  BY <1>1, <1>2, <1>3, <1>4, <1>5 DEF PoolNext

\* pick finds a key when the floors and the exclusions leave one, and one that
\* is not cooling when they leave such a one.
LEMMA PicksSomething ==
    ASSUME TypeOK, NEW v \in DOMAIN sched, Ordered(v), NEW s \in Slots, NEW excluded,
           Eligible(v, s, excluded) # {}
    PROVE  /\ Picks(v, s, excluded) # {}
           /\ (\E e \in Eligible(v, s, excluded) : ~Cooling(e)) =>
                  \A e \in Picks(v, s, excluded) : ~Cooling(e)
<1> DEFINE eligible == Eligible(v, s, excluded)
           available == {e \in eligible : ~Cooling(e)}
<1>1. eligible \subseteq v.members /\ eligible # {}
  BY DEF Eligible, AboveViewFloor
<1>2. v.members \subseteq Entries
  BY DEF TypeOK, View
<1>3. Picks(v, s, excluded) =
          IF available = {} THEN FirstToRecover(v, eligible)
          ELSE UNION {Preferred(v, s, C) : C \in CandidateSets(available)}
  BY DEF Picks
<1>4. (\E e \in eligible : ~Cooling(e)) <=> available # {}
  OBVIOUS
<1>5. available \subseteq eligible /\ \A e \in available : ~Cooling(e)
  OBVIOUS
<1> HIDE DEF eligible, available
<1>6. CASE available = {}
  <2> DEFINE waits == {health[e].left : e \in eligible}
             earliest == {e \in eligible : \A f \in eligible : health[e].left <= health[f].left}
  <2>1. \A e \in eligible : health[e].left \in Nat
    BY <1>1, <1>2 DEF TypeOK, Health
  <2>2. \E m \in waits : \A n \in waits : m <= n
    <3>1. waits \in SUBSET Nat /\ waits # {}
      BY <1>1, <2>1
    <3> HIDE DEF waits
    <3> QED
      BY <3>1, LeastExists
  <2>3. earliest # {} /\ earliest \in SUBSET v.members
    BY <1>1, <2>2
  <2>4. FirstToRecover(v, eligible) = {e \in earliest : IsFirst(v, e, earliest)}
    BY DEF FirstToRecover
  <2> HIDE DEF earliest, waits
  <2>5. \E e \in earliest : IsFirst(v, e, earliest)
    BY <2>3 DEF Ordered
  <2> QED
    BY <1>3, <1>4, <1>6, <2>4, <2>5 DEF eligible
<1>7. CASE available # {}
  <2>0. \E C \in CandidateSets(available) : C # {} /\ C \subseteq available
    <3>1. CASE Strategy = "cost"
      BY <1>7, <3>1 DEF CandidateSets
    <3>2. CASE Strategy # "cost"
      <4>1. PICK f \in available : TRUE
        BY <1>7
      <4> DEFINE D == InGroup(GroupOf[f], available)
      <4>2. D \in CandidateSets(available)
        BY <3>2 DEF CandidateSets
      <4>3. f \in D /\ D \subseteq available
        BY DEF InGroup
      <4> QED
        BY <4>2, <4>3
    <3> QED
      BY <3>1, <3>2
  <2>1. PICK C \in CandidateSets(available) : C # {} /\ C \subseteq available
    BY <2>0
  <2>2. Preferred(v, s, C) # {}
    <3>1. C \in SUBSET v.members
      BY <1>1, <1>5, <2>1
    <3>2. \E e \in C : IsFirst(v, e, C)
      BY <2>1, <3>1 DEF Ordered
    <3> QED
      BY <3>2 DEF Preferred
  <2>3. \A D : Preferred(v, s, D) \subseteq D
    BY DEF Preferred
  <2>4. \A D \in CandidateSets(available) : D \subseteq available
    BY DEF CandidateSets, InGroup
  <2>5. Picks(v, s, excluded) # {}
    BY <1>3, <1>7, <2>1, <2>2
  <2>6. \A e \in Picks(v, s, excluded) : e \in available
    BY <1>3, <1>7, <2>3, <2>4
  <2> QED
    BY <1>5, <2>5, <2>6
<1> QED
  BY <1>6, <1>7

\* What a local state q of request r keeps, where no group is ever set aside:
\* a request that waits for a key has set none aside.
Keyed(r, q) ==
    /\ q.rejected = {}
    /\ q.pc = "waiting" => q.stalled = {}
    /\ q.stalled # {} => SlotOf[r] = NoSession
    /\ q.pc = "sent" => q.key # None

\* The floor of a session is not looked at before a key is set aside.
StallsAreSessionless ==
    "stall" \in Outcomes => \A r \in Requests : SlotOf[r] = NoSession

KInv == /\ RInv
        /\ ViewsAreOrdered
        /\ \A r \in Requests : Keyed(r, req[r])

LEMMA FinishKeyed ==
    ASSUME RInv, NEW r \in Requests, NEW why, Finish(r, why)
    PROVE  Keyed(r, req'[r])
BY DEF RInv, Finish, Become, Keyed, Idle

LEMMA SendKeyed ==
    ASSUME RInv, NEW r \in Requests, NEW q, Draft(q), NEW e, e # None,
           q.rejected = {}, q.stalled # {} => SlotOf[r] = NoSession, Send(r, q, e)
    PROVE  Keyed(r, req'[r])
<1>1. CASE Finish(r, "gave_up")
  BY <1>1, FinishKeyed
<1>2. CASE Become(r, [q EXCEPT !.pc = "sent", !.key = e, !.timer = 0, !.deadline = 0])
  <2>1. req'[r] = [q EXCEPT !.pc = "sent", !.key = e, !.timer = 0, !.deadline = 0]
    BY <1>2, BecameIt
  <2>2. /\ req'[r].pc = "sent" /\ req'[r].key = e
        /\ req'[r].rejected = q.rejected /\ req'[r].stalled = q.stalled
    BY <2>1 DEF Draft, Request
  <2> QED
    BY <2>2 DEF Keyed
<1> QED
  BY <1>1, <1>2 DEF Send

LEMMA WaitKeyed ==
    ASSUME RInv, NEW r \in Requests, NEW q, Draft(q), NEW e,
           q.rejected = {}, q.stalled = {}, WaitFor(r, q, e)
    PROVE  Keyed(r, req'[r])
<1> DEFINE doomed == health[e].left > q.deadline
<1> DEFINE timer == IF doomed THEN q.deadline ELSE health[e].left
<1>0. \/ Finish(r, "wait_timeout")
      \/ Become(r, [q EXCEPT !.pc = "waiting", !.timer = health[e].left])
      \/ Become(r, [q EXCEPT !.pc = "waiting", !.doomed = doomed, !.timer = timer])
  BY DEF WaitFor
<1> HIDE DEF doomed, timer
<1>1. CASE Finish(r, "wait_timeout")
  BY <1>1, FinishKeyed
<1>2. ASSUME ~Finish(r, "wait_timeout")
      PROVE  /\ req'[r].pc = "waiting"
             /\ req'[r].rejected = q.rejected /\ req'[r].stalled = q.stalled
  <2>1. \/ req'[r] = [q EXCEPT !.pc = "waiting", !.timer = health[e].left]
        \/ req'[r] = [q EXCEPT !.pc = "waiting", !.doomed = doomed, !.timer = timer]
    BY <1>0, <1>2, BecameIt
  <2> QED
    BY <2>1 DEF Draft, Request
<1> QED
  BY <1>1, <1>2 DEF Keyed

LEMMA TryPickKeyed ==
    ASSUME RInv, NEW r \in Requests, NEW q, Draft(q), TryPick(r, q), q.rejected = {},
           Picks(q.view, SlotOf[r], q.stalled) # {},
           q.stalled # {} => /\ SlotOf[r] = NoSession
                             /\ \A e \in Picks(q.view, SlotOf[r], q.stalled) : ~Cooling(e)
    PROVE  Keyed(r, req'[r])
<1>0. q.stalled \cup q.rejected = q.stalled
  OBVIOUS
<1>1. PICK e \in Picks(q.view, SlotOf[r], q.stalled) :
          IF Cooling(e) THEN WaitFor(r, q, e) ELSE Send(r, q, e)
  BY <1>0 DEF TryPick
<1>2. e # None
  <2>1. e \in q.view.members
    BY PicksAreCandidates
  <2>2. q.view.members \subseteq Entries
    BY MembersAreEntries DEF Draft, RInv
  <2> QED
    BY <2>1, <2>2, KeyPoolAssumption
<1>3. CASE Cooling(e)
  <2>1. q.stalled = {} /\ WaitFor(r, q, e)
    BY <1>1, <1>3
  <2> QED
    BY <2>1, WaitKeyed
<1>4. CASE ~Cooling(e)
  <2>1. Send(r, q, e) /\ (q.stalled # {} => SlotOf[r] = NoSession)
    BY <1>1, <1>4
  <2> QED
    BY <1>2, <2>1, SendKeyed
<1> QED
  BY <1>3, <1>4

\* With no key set aside the floors leave one, whatever the session.
LEMMA ViewServes ==
    ASSUME RInv, ViewsAreOrdered, Serves, ~Repricing, NEW r \in Requests,
           NEW q, Draft(q)
    PROVE  Picks(q.view, SlotOf[r], {}) # {}
<1>1. SlotOf[r] \in Slots /\ q.view \in DOMAIN sched
  BY RetryConstants DEF Draft
<1>2. Eligible(q.view, SlotOf[r], {}) # {}
  BY <1>1 DEF Serves, Draft
<1> QED
  BY <1>1, <1>2, PicksSomething DEF ViewsAreOrdered, RInv

\* With some set aside it is has_fresh that knows of another, which a request
\* without a session may take.
LEMMA FreshServes ==
    ASSUME RInv, ViewsAreOrdered, NEW q, Draft(q), HasFresh(q.view, q.stalled)
    PROVE  /\ Picks(q.view, NoSession, q.stalled) # {}
           /\ \A e \in Picks(q.view, NoSession, q.stalled) : ~Cooling(e)
<1>1. NoSession \in Slots /\ q.view \in DOMAIN sched /\ Ordered(q.view)
  BY DEF Draft, Slots, ViewsAreOrdered
<1>2. PICK e \in AboveViewFloor(q.view) : KeyOf[e] \notin q.stalled /\ ~Cooling(e)
  BY DEF HasFresh
<1>3. e \in Eligible(q.view, NoSession, q.stalled)
  BY <1>2 DEF Eligible, AboveViewFloor
<1> QED
  BY <1>1, <1>2, <1>3, PicksSomething DEF RInv

LEMMA SelectKeyed ==
    ASSUME KInv, Serves, ~Repricing, NEW r \in Requests, Select(r)
    PROVE  Keyed(r, req'[r])
<1> DEFINE attempt == NextAttempt(req[r].attempt)
           stalled == IF ~HasFresh(req[r].view, req[r].stalled) THEN {}
                      ELSE req[r].stalled
           q == [req[r] EXCEPT !.attempt = attempt, !.stalled = stalled,
                               !.deadline = WaitTimeout]
<1>1. Draft(req[r]) /\ Keyed(r, req[r])
  BY RunningDraft DEF Select, Running, KInv
<1>2. attempt \in Nat /\ stalled \in SUBSET Keys /\ WaitTimeout \in Nat
  <2>1. req[r].attempt \in Nat /\ req[r].stalled \in SUBSET Keys
    BY <1>1 DEF Draft, Request
  <2>2. attempt \in Nat
    BY <2>1 DEF NextAttempt
  <2>3. stalled \in SUBSET Keys
    BY <2>1
  <2> QED
    BY <2>2, <2>3, RetryConstants
<1>3. TryPick(r, q)
  BY DEF Select
<1>4. stalled # {} => HasFresh(req[r].view, stalled) /\ SlotOf[r] = NoSession
  BY <1>1 DEF Keyed
<1> HIDE DEF attempt, stalled
<1>5. /\ q \in Request /\ q.view = req[r].view /\ q.key = req[r].key
      /\ q.rejected = req[r].rejected /\ q.stalled = stalled
  BY <1>1, <1>2 DEF Draft, Request
<1> HIDE DEF q
<1>6. Draft(q) /\ q.rejected = {}
  BY <1>1, <1>5 DEF Draft, Keyed
<1>7. CASE q.stalled = {}
  BY <1>3, <1>6, <1>7, ViewServes, TryPickKeyed DEF KInv
<1>8. CASE q.stalled # {}
  <2>1. HasFresh(q.view, q.stalled) /\ SlotOf[r] = NoSession
    BY <1>4, <1>5, <1>8
  <2>2. /\ Picks(q.view, SlotOf[r], q.stalled) # {}
        /\ \A e \in Picks(q.view, SlotOf[r], q.stalled) : ~Cooling(e)
    BY <1>6, <2>1, FreshServes DEF KInv
  <2> QED
    BY <1>3, <1>6, <2>1, <2>2, TryPickKeyed DEF KInv
<1> QED
  BY <1>7, <1>8

LEMMA WakeToPickKeyed ==
    ASSUME KInv, Serves, ~Repricing, NEW r \in Requests, WakeToPick(r)
    PROVE  Keyed(r, req'[r])
<1>1. CASE Finish(r, "wait_timeout")
  BY <1>1, FinishKeyed DEF KInv
<1>2. CASE TryPick(r, req[r])
  <2>1. Draft(req[r]) /\ Keyed(r, req[r]) /\ req[r].pc = "waiting"
    BY RunningDraft DEF WakeToPick, Running, KInv
  <2>2. req[r].stalled = {} /\ req[r].rejected = {}
    BY <2>1 DEF Keyed
  <2>3. Picks(req[r].view, SlotOf[r], req[r].stalled) # {}
    BY <2>1, <2>2, ViewServes DEF KInv
  <2> QED
    BY <1>2, <2>1, <2>2, <2>3, TryPickKeyed DEF KInv
<1> QED
  BY <1>1, <1>2 DEF WakeToPick

\* A request that goes on keeps what it has set aside, or forgets it.
LEMMA GoesOnKeyed ==
    ASSUME KInv, NEW r \in Requests, NEW q, req'[r] = q, q.rejected = req[r].rejected,
           q.stalled \in {{}, req[r].stalled}, q.pc \notin {"waiting", "sent"}
    PROVE  Keyed(r, req'[r])
BY DEF KInv, Keyed

LEMMA AsleepKeyed ==
    ASSUME KInv, NEW r \in Requests, NEW q \in Request, q.rejected = req[r].rejected,
           q.stalled \in {{}, req[r].stalled}, NEW wait, NEW poolWait,
           Become(r, Asleep(q, wait, poolWait))
    PROVE  Keyed(r, req'[r])
<1> DEFINE new == Asleep(q, wait, poolWait)
<1>1. new.pc = "sleeping" /\ new.stalled = q.stalled /\ new.rejected = q.rejected
  BY DEF Asleep, Request
<1>2. req'[r] = new
  BY BecameIt DEF KInv
<1> HIDE DEF new
<1> QED
  BY <1>1, <1>2, GoesOnKeyed

LEMMA MoveKeyed ==
    ASSUME KInv, NEW r \in Requests, NEW pc, pc \notin {"waiting", "sent"},
           Become(r, [req[r] EXCEPT !.pc = pc])
    PROVE  Keyed(r, req'[r])
<1>1. req[r] \in Request /\ req'[r] = [req[r] EXCEPT !.pc = pc]
  BY BecameIt DEF KInv, RInv
<1>2. /\ req'[r].pc = pc /\ req'[r].stalled = req[r].stalled
      /\ req'[r].rejected = req[r].rejected
  BY <1>1 DEF Request
<1> QED
  BY <1>2, GoesOnKeyed

LEMMA AnswerKeyed ==
    ASSUME KInv, StallsAreSessionless, "rejection" \notin Outcomes,
           NEW r \in Requests, Answer(r)
    PROVE  Keyed(r, req'[r])
<1> PICK v \in {req[r].view}, e \in {req[r].key}, o \in Outcomes :
        \/ Succeed(r, v, e) \/ Deny(r, v, e) \/ Unauthorized(r, v, e)
        \/ Fail(r, v, e, o) \/ Break(r, v, e) \/ HostError(r)
        \/ o = "stall" /\ Stall(r, v, e)
  BY DEF Answer
<1>0. req[r] \in Request /\ RInv /\ Keyed(r, req[r])
  BY DEF KInv, RInv
<1>1. CASE Succeed(r, v, e) \/ Deny(r, v, e) \/ Unauthorized(r, v, e)
  BY <1>0, <1>1, FinishKeyed, MoveKeyed DEF Succeed, Deny, Unauthorized
<1>2. CASE Fail(r, v, e, o)
  <2>1. \/ Become(r, [req[r] EXCEPT !.pc = "select"])
        \/ \E i : Become(r, [req[r] EXCEPT !.pc = "closing", !.interval = i])
    BY <1>2 DEF Fail
  <2>2. ASSUME NEW i, Become(r, [req[r] EXCEPT !.pc = "closing", !.interval = i])
        PROVE  Keyed(r, req'[r])
    <3>1. req'[r] = [req[r] EXCEPT !.pc = "closing", !.interval = i]
      BY <1>0, <2>2, BecameIt
    <3>2. /\ req'[r].pc = "closing" /\ req'[r].stalled = req[r].stalled
          /\ req'[r].rejected = req[r].rejected
      BY <1>0, <3>1 DEF Request
    <3> QED
      BY <3>2, GoesOnKeyed
  <2>3. CASE Become(r, [req[r] EXCEPT !.pc = "select"])
    <3>1. "select" \notin {"waiting", "sent"}
      OBVIOUS
    <3> QED
      BY <2>3, <3>1, MoveKeyed
  <2> QED
    BY <2>1, <2>2, <2>3
<1>3. CASE Break(r, v, e) \/ HostError(r)
  BY <1>0, <1>3, MoveKeyed, AsleepKeyed DEF Break, HostError
<1>4. CASE o = "stall" /\ Stall(r, v, e)
  <2> DEFINE q == [req[r] EXCEPT !.stalled = {}]
  <2>0. SlotOf[r] = NoSession
    BY <1>4 DEF StallsAreSessionless
  <2>1. q \in Request /\ q.stalled = {} /\ q.rejected = req[r].rejected
    BY <1>0 DEF Request
  <2>2. \/ \E s : Become(r, [req[r] EXCEPT !.pc = "again", !.stalled = s])
        \/ \E w, pw : Become(r, Asleep(q, w, pw))
    BY <1>4 DEF Stall
  <2>3. ASSUME NEW s, Become(r, [req[r] EXCEPT !.pc = "again", !.stalled = s])
        PROVE  Keyed(r, req'[r])
    <3>1. req'[r] = [req[r] EXCEPT !.pc = "again", !.stalled = s]
      BY <1>0, <2>3, BecameIt
    <3>2. req'[r].pc = "again" /\ req'[r].rejected = req[r].rejected
      BY <1>0, <3>1 DEF Request
    <3> QED
      BY <1>0, <2>0, <3>2 DEF Keyed
  <2> HIDE DEF q
  <2>4. ASSUME NEW w, NEW pw, Become(r, Asleep(q, w, pw))
        PROVE  Keyed(r, req'[r])
    BY <2>1, <2>4, AsleepKeyed
  <2> QED
    BY <2>2, <2>3, <2>4
<1> QED
  BY <1>1, <1>2, <1>3, <1>4

LEMMA WakeToRetryKeyed ==
    ASSUME KInv, NEW r \in Requests, WakeToRetry(r)
    PROVE  Keyed(r, req'[r])
<1>0. req[r] \in Request /\ RInv /\ req[r].pc = "sleeping"
  BY DEF KInv, RInv, WakeToRetry
<1>1. CASE Finish(r, "wait_timeout")
  BY <1>0, <1>1, FinishKeyed
<1>2. ASSUME ~Finish(r, "wait_timeout")
      PROVE  /\ req'[r].pc \in {"sleeping", "again"}
             /\ req'[r].stalled = req[r].stalled
             /\ req'[r].rejected = req[r].rejected
  <2>1. \/ req'[r] = [req[r] EXCEPT !.timer = req[r].rest, !.rest = 0, !.checks = FALSE]
        \/ req'[r] = [req[r] EXCEPT !.pc = "again", !.checks = FALSE]
    BY <1>0, <1>2, BecameIt DEF WakeToRetry
  <2> QED
    BY <1>0, <2>1 DEF Request
<1> QED
  BY <1>1, <1>2, GoesOnKeyed

LEMMA StepKeyed ==
    ASSUME KInv, Serves, ~Repricing, StallsAreSessionless, "rejection" \notin Outcomes,
           NEW r \in Requests, Step(r)
    PROVE  Keyed(r, req'[r])
<1>1. CASE Closed(r)
  <2>1. req[r] \in Request
    BY DEF KInv, RInv
  <2> QED
    BY <1>1, <2>1, AsleepKeyed DEF Closed
<1> QED
  BY <1>1, SelectKeyed, WakeToPickKeyed, WakeToRetryKeyed, AnswerKeyed DEF Step

LEMMA KeysKept ==
    ASSUME ~Repricing, StallsAreSessionless, "rejection" \notin Outcomes
    PROVE  KInv /\ Serves /\ [SerialNext]_retryVars => KInv'
<1> SUFFICES ASSUME KInv, Serves, [SerialNext]_retryVars
             PROVE  KInv'
  OBVIOUS
<1>0. RInv /\ RInv' /\ [PoolNext]_poolVars
  BY SerialStep DEF KInv
<1>1. ViewsAreOrdered'
  BY <1>0, OrderKept DEF KInv, RInv
<1>2. ASSUME NEW r \in Requests
      PROVE  Keyed(r, req'[r])
  <2>0. req[r] \in Request /\ Keyed(r, req[r])
    BY DEF KInv, RInv
  <2>1. CASE Start(r)
    <3>1. req'[r] = [req[r] EXCEPT !.pc = "select", !.view = ViewOf(WorkloadOf[r])]
      BY <1>0, <2>1, BecameIt DEF Start
    <3>2. /\ req'[r].pc = "select" /\ req'[r].stalled = req[r].stalled
          /\ req'[r].rejected = req[r].rejected
      BY <2>0, <3>1 DEF Request
    <3> QED
      BY <3>2, GoesOnKeyed
  <2>2. CASE Step(r)
    BY <2>2, StepKeyed
  <2>3. CASE Abandon(r)
    BY <1>0, <2>3, FinishKeyed DEF Abandon
  <2>4. CASE \E p \in Requests \ {r} : Start(p) \/ Step(p) \/ Abandon(p)
    <3>1. req'[r] = req[r]
      BY <1>0, <2>4, SomeoneBecame DEF RInv, Become
    <3> QED
      BY <2>0, <3>1
  <2>5. CASE Operate \/ UNCHANGED retryVars
    BY <2>0, <2>5 DEF Operate, retryVars
  <2>6. CASE Pass
    <3>1. req'[r] = [req[r] EXCEPT !.timer = Elapsed(req[r].timer),
                                   !.deadline = Elapsed(req[r].deadline)]
      BY <2>6 DEF Pass
    <3>2. /\ req'[r].pc = req[r].pc /\ req'[r].key = req[r].key
          /\ req'[r].stalled = req[r].stalled /\ req'[r].rejected = req[r].rejected
      BY <2>0, <3>1 DEF Request
    <3> QED
      BY <2>0, <3>2 DEF Keyed
  <2> QED
    BY <2>1, <2>2, <2>3, <2>4, <2>5, <2>6 DEF SerialNext
<1> QED
  BY <1>0, <1>1, <1>2 DEF KInv

\* A pool request is never sent with the client's own headers, whichever
\* circuits open while it sleeps and whatever the other requests do to the
\* floors: as long as kept keys keep their price, no group is set aside, and
\* keys are set aside by requests without a session only: has_fresh, which
\* decides whether they stay aside, does not know the floor of a session.
THEOREM PoolKeyAlways ==
    ASSUME ~Repricing, StallsAreSessionless, "rejection" \notin Outcomes
    PROVE  SerialSpec => []PoolKeyInjected
<1>1. SerialInit => KInv
  <2>1. SerialInit => ViewsAreOrdered
    BY DEF SerialInit, PoolInit, ViewsAreOrdered
  <2>2. ASSUME SerialInit, NEW r \in Requests
        PROVE  Keyed(r, req[r])
    BY <2>2 DEF SerialInit, Keyed, Idle
  <2> QED
    BY <2>1, <2>2, RInvInit DEF KInv
<1>2. KInv /\ Serves /\ [SerialNext]_retryVars => KInv'
  BY KeysKept
<1>3. KInv => PoolKeyInjected
  BY DEF KInv, Keyed, PoolKeyInjected
<1> QED
  BY <1>1, <1>2, <1>3, RetriesAreServed, PTL DEF SerialSpec
=============================================================================

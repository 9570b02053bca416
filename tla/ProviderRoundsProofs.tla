------------------------- MODULE ProviderRoundsProofs -------------------------
(***************************************************************************)
(* Proofs about the rounds of one account, for any number of groups, keys, *)
(* pages, retries and faults.                                              *)
(*                                                                         *)
(* What a round may write rests on what it has read: page by page it has   *)
(* collected the keys up to a position (Collected), so that the last page  *)
(* leaves none out, whatever the size of a page; from then on only the     *)
(* round changes the account, one target at a time (Creating, Deleting).   *)
(***************************************************************************)
EXTENDS ProviderRounds, FiniteSetTheorems, TLAPS

Key == (1..MaxKeys) \X Groups

Shown == [Groups -> HallEntries \cup {Healthy}]

Round == [kind : {"idle", "fetch", "fill", "create", "clear"},
          step : {"idle", "keys", "groups", "hall", "create", "delete"},
          chosen : SUBSET Groups, page : Nat \ {0},
          seen : SUBSET Key, last : SUBSET Key,
          attempt : 1..(Retries + 1), again : BOOLEAN, groups : SUBSET Groups,
          targets : SUBSET (Groups \cup Key), stale : SUBSET Key, limited : BOOLEAN]

\* An id belongs to one key.
Distinct(keys) == \A a, b \in keys : a[1] = b[1] => a = b

Typed ==
    /\ account \subseteq Key /\ Distinct(account) /\ entries \subseteq Key
    /\ active \subseteq Groups /\ hall \in Shown
    /\ access \in BOOLEAN /\ round \in Round
    /\ snapshot \in {<<>>} \cup Shown
    /\ judged \in [Groups -> 0..2] /\ faults \in 0..MaxFaults

\* The kinds of round and their steps; after a limit nothing is left to write.
Shape(r) ==
    /\ r.kind = "idle" <=> r.step = "idle"
    /\ r.step \in {"groups", "hall"} => r.kind # "clear"
    /\ r.step = "create" => r.kind \in {"fill", "create"} /\ r.targets \subseteq Groups
    /\ r.step = "delete" => r.kind \in {"fetch", "clear"} /\ r.targets \subseteq r.seen
    /\ r.limited => Writes(r) /\ (StopsAtLimit(r) => r.targets = {})

UpTo(n, keys) == {k \in keys : Position(k, keys) <= n}

\* The pages so far are the keys up to a position.  A provider that knows no
\* pages repeats the first, and the round ends there.
Collected(r, keys) ==
    /\ r.step = "keys" =>
          /\ r.seen = UpTo((r.page - 1) * PageSize, keys)
          /\ Paged \/ r.page = 1 \/ (r.page = 2 /\ r.last = r.seen /\ r.seen # {})
    /\ r.step \in {"groups", "hall"} => r.seen = keys
    /\ IsFiniteSet(r.seen)
    /\ r.page > 1 => (r.page - 1) * PageSize < Cardinality(r.seen \cup keys)

Creating(r, keys) ==
    r.kind = "fill" /\ r.step = "create" => \A g \in r.targets : KeysOf(g, keys) = {}

Deleting(r, keys, counts) ==
    r.kind = "fetch" /\ r.step = "delete" =>
        /\ r.targets \subseteq r.stale /\ r.seen \ r.stale \subseteq keys
        /\ \A k \in r.targets : k[2] \in r.groups => counts[k[2]] = 2

\* A group that waits for its second verdict has had its first.
Condemned == pending \subseteq {g \in Groups : judged[g] > 0}

Fits(r, keys, counts) ==
    Shape(r) /\ Collected(r, keys) /\ Creating(r, keys) /\ Deleting(r, keys, counts)

RoundsInv == Typed /\ Fits(round, account, judged) /\ Condemned

-----------------------------------------------------------------------------
(* The order of the keys.                                                  *)

LEMMA Constants ==
    /\ PageSize \in Nat /\ PageSize > 0
    /\ MaxKeys \in Nat /\ Retries \in Nat /\ MaxFaults \in Nat
    /\ HasHall \in BOOLEAN /\ Fickle \subseteq Groups
BY RoundsAssumption

LEMMA KeyIds == \A k \in Key : k[1] \in 1..MaxKeys /\ k[1] \in Nat /\ k[2] \in Groups
BY Constants DEF Key

LEMMA LeastExists ==
    ASSUME NEW S \in SUBSET Nat, S # {}
    PROVE  \E m \in S : \A n \in S : m <= n
<1> DEFINE R == OpToRel(<, Nat)
<1>1. IsWellFoundedOn(R, Nat)
  BY NatLessThanWellFounded
<1>2. \A y, x \in Nat : <<y, x>> \in R <=> y < x
  BY DEF OpToRel
<1> HIDE DEF R
<1>3. \E m \in S : \A n \in S : ~ (<<n, m>> \in R)
  BY <1>1, WFMin
<1>4. PICK m \in S : \A n \in S : ~ (<<n, m>> \in R)
  BY <1>3
<1>5. \A n \in S : ~ (n < m) /\ n \in Nat /\ m \in Nat
  BY <1>2, <1>4
<1>6. \A n \in S : m <= n
  BY <1>5
<1> QED
  BY <1>6

\* Ids tell keys apart, so there are at most MaxKeys.
LEMMA FewKeys ==
    ASSUME NEW keys \in SUBSET Key, Distinct(keys)
    PROVE  /\ IsFiniteSet(keys) /\ Cardinality(keys) \in Nat
           /\ Cardinality(keys) < MaxKeys =>
                 \E i \in 1..MaxKeys : \A k \in keys : k[1] # i
<1> DEFINE id == [k \in keys |-> k[1]]
<1>1. id \in Injection(keys, 1..MaxKeys)
  BY KeyIds DEF Injection, IsInjective, Distinct
<1>2. IsFiniteSet(1..MaxKeys) /\ Cardinality(1..MaxKeys) = MaxKeys
  BY Constants, FS_Interval
<1>3. /\ IsFiniteSet(keys)
      /\ Cardinality(keys) = Cardinality(1..MaxKeys) <=> id \in Surjection(keys, 1..MaxKeys)
  BY <1>1, <1>2, FS_Injection
<1>4. ASSUME Cardinality(keys) < MaxKeys, \A i \in 1..MaxKeys : \E k \in keys : k[1] = i
      PROVE  FALSE
  <2>1. id \in Surjection(keys, 1..MaxKeys)
    BY <1>1, <1>4 DEF Injection, Surjection
  <2>2. Cardinality(keys) = MaxKeys
    BY <1>2, <1>3, <2>1
  <2> QED
    BY <1>4, <2>2, Constants
<1> QED
  BY <1>3, <1>4, FS_CardinalityType

LEMMA Positions ==
    ASSUME NEW keys \in SUBSET Key, Distinct(keys), NEW k \in keys
    PROVE  Position(k, keys) \in 1..Cardinality(keys)
<1> DEFINE upto == {j \in keys : j[1] <= k[1]}
<1>1. IsFiniteSet(keys) /\ Cardinality(keys) \in Nat
  BY FewKeys
<1>2. upto \in SUBSET keys /\ k \in upto
  BY KeyIds
<1>3. /\ IsFiniteSet(upto) /\ Cardinality(upto) <= Cardinality(keys)
      /\ Cardinality(upto) \in Nat
  BY <1>1, <1>2, FS_Subset, FS_CardinalityType
<1>4. Cardinality(upto) # 0
  BY <1>2, <1>3, FS_EmptySet
<1> QED
  BY <1>1, <1>3, <1>4 DEF Position

\* The keys before a key that is not the first have a last one.
LEMMA Predecessor ==
    ASSUME NEW keys \in SUBSET Key, Distinct(keys), NEW k \in keys,
           Position(k, keys) > 1
    PROVE  \E j \in keys : Position(j, keys) = Position(k, keys) - 1
<1> DEFINE before == {j \in keys : j[1] < k[1]}
           gaps == {n \in Nat : \E j \in before : n = MaxKeys - j[1]}
<1>1. IsFiniteSet(before)
  BY FewKeys, FS_Subset
<1>2. {j \in keys : j[1] <= k[1]} = before \cup {k}
  BY KeyIds DEF Distinct
<1>3. k \notin before
  BY KeyIds
<1>4. Position(k, keys) = Cardinality(before) + 1 /\ Cardinality(before) \in Nat
  BY <1>1, <1>2, <1>3, FS_AddElement, FS_CardinalityType DEF Position
<1>5. before # {}
  <2>1. Cardinality(before) # 0
    <3> HIDE DEF before
    <3> QED
      BY <1>4
  <2> QED
    BY <2>1, FS_EmptySet
<1>6. \A j \in before : MaxKeys - j[1] \in gaps
  BY KeyIds, Constants
<1>7. PICK m \in gaps : \A n \in gaps : m <= n
  <2>1. gaps \in SUBSET Nat /\ gaps # {}
    BY <1>5, <1>6
  <2> QED
    BY <2>1, LeastExists
<1>8. PICK j \in before : m = MaxKeys - j[1]
  BY <1>7
<1>9. \A i \in before : i[1] <= j[1]
  <2> TAKE i \in before
  <2>1. m <= MaxKeys - i[1]
    BY <1>6, <1>7
  <2> QED
    BY <1>8, <2>1, KeyIds, Constants
<1>10. {i \in keys : i[1] <= j[1]} = before
  BY <1>9, KeyIds
<1>11. j \in keys /\ Position(j, keys) = Cardinality(before)
  BY <1>10 DEF Position
<1> HIDE DEF before
<1> QED
  BY <1>4, <1>11

\* No position is left out.
LEMMA Reached ==
    ASSUME NEW keys \in SUBSET Key, Distinct(keys), NEW k \in keys,
           NEW n \in Nat \ {0}, n <= Position(k, keys)
    PROVE  \E j \in keys : Position(j, keys) = n
<1> DEFINE beyond == {p \in Nat : n <= p /\ \E j \in keys : Position(j, keys) = p}
<1>1. \A j \in keys : Position(j, keys) \in Nat
  BY Positions, FewKeys
<1>2. beyond \in SUBSET Nat /\ beyond # {}
  BY <1>1
<1>3. PICK p \in beyond : \A q \in beyond : p <= q
  BY <1>2, LeastExists
<1>4. PICK j \in keys : Position(j, keys) = p
  BY <1>3
<1>5. CASE p = n
  BY <1>4, <1>5
<1>6. CASE p # n
  <2>1. p \in Nat /\ n < p
    BY <1>3, <1>6
  <2>2. Position(j, keys) > 1
    BY <1>4, <2>1
  <2>3. PICK i \in keys : Position(i, keys) = p - 1
    BY <1>4, <2>2, Predecessor
  <2>4. p - 1 \in beyond
    BY <2>1, <2>3
  <2> QED
    BY <1>3, <2>1, <2>4
<1> QED
  BY <1>5, <1>6

\* A page before the last is full.
LEMMA FullPage ==
    ASSUME NEW keys \in SUBSET Key, Distinct(keys), NEW from \in Nat, NEW k \in keys,
           Position(k, keys) > from + PageSize
    PROVE  Cardinality({j \in keys : Position(j, keys) \in (from + 1)..(from + PageSize)})
               >= PageSize
<1> DEFINE batch == {j \in keys : Position(j, keys) \in (from + 1)..(from + PageSize)}
           place == [j \in batch |-> Position(j, keys)]
           places == (from + 1)..(from + PageSize)
<1>1. IsFiniteSet(batch) /\ Cardinality(batch) \in Nat
  BY FewKeys, FS_Subset, FS_CardinalityType
<1>2. Position(k, keys) \in Nat
  BY Positions, FewKeys
<1>3. ASSUME NEW p \in places
      PROVE  \E j \in batch : place[j] = p
  <2>1. p \in Nat \ {0} /\ p <= Position(k, keys)
    BY <1>2, Constants
  <2>2. PICK j \in keys : Position(j, keys) = p
    BY <2>1, Reached
  <2> QED
    BY <2>2
<1>4. place \in Surjection(batch, places)
  BY <1>3 DEF Surjection
<1>5. Cardinality(places) <= Cardinality(batch)
  BY <1>1, <1>4, FS_Surjection
<1>6. Cardinality(places) = PageSize
  <2>1. from + 1 \in Int /\ from + PageSize \in Int /\ ~(from + 1 > from + PageSize)
    BY Constants
  <2> QED
    BY <2>1, FS_Interval, Constants
<1> QED
  BY <1>1, <1>5, <1>6, Constants

\* One more page, and what the end of the list is told by.
LEMMA OnePage ==
    ASSUME NEW keys \in SUBSET Key, Distinct(keys), NEW n \in Nat, NEW batch,
           batch = {k \in keys : Position(k, keys) \in (n + 1)..(n + PageSize)}
    PROVE  LET upto == UpTo(n + PageSize, keys)
           IN  /\ UpTo(n, keys) \cup batch = upto
               /\ Cardinality(batch) < PageSize => upto = keys
               /\ Cardinality(upto) >= Cardinality(keys) => upto = keys
               /\ ~(Cardinality(upto) >= Cardinality(keys)) => n + PageSize < Cardinality(keys)
<1> DEFINE upto == UpTo(n + PageSize, keys)
<1>1. \A k \in keys : Position(k, keys) \in 1..Cardinality(keys) /\ Position(k, keys) \in Nat
  BY Positions, FewKeys
<1>2. IsFiniteSet(keys) /\ Cardinality(keys) \in Nat
  BY FewKeys
<1>3. UpTo(n, keys) \cup batch = upto
  BY <1>1, Constants DEF UpTo
<1>4. ASSUME Cardinality(batch) < PageSize
      PROVE  upto = keys
  <2>1. ASSUME NEW k \in keys, ~(Position(k, keys) <= n + PageSize)
        PROVE  FALSE
    <3>1. Position(k, keys) > n + PageSize
      BY <1>1, <2>1, Constants
    <3>2. Cardinality(batch) >= PageSize
      BY <3>1, FullPage
    <3>3. Cardinality(batch) \in Nat
      BY <1>2, FS_Subset, FS_CardinalityType
    <3> QED
      BY <1>4, <3>2, <3>3, Constants
  <2> QED
    BY <2>1 DEF UpTo
<1>5. upto \in SUBSET keys
  BY DEF UpTo
<1>6. /\ Cardinality(upto) \in Nat /\ Cardinality(upto) <= Cardinality(keys)
      /\ Cardinality(keys) = Cardinality(upto) => keys = upto
  BY <1>2, <1>5, FS_Subset, FS_CardinalityType
<1>7. ASSUME Cardinality(upto) < Cardinality(keys), ~(n + PageSize < Cardinality(keys))
      PROVE  FALSE
  <2>1. \A k \in keys : Position(k, keys) <= n + PageSize
    BY <1>1, <1>2, <1>7, Constants
  <2>2. upto = keys
    BY <2>1 DEF UpTo
  <2> QED
    BY <1>2, <1>7, <2>2
<1> HIDE DEF upto
<1>8. /\ Cardinality(upto) >= Cardinality(keys) => upto = keys
      /\ ~(Cardinality(upto) >= Cardinality(keys)) => n + PageSize < Cardinality(keys)
  BY <1>2, <1>6, <1>7
<1> QED
  BY <1>3, <1>4, <1>8 DEF upto

LEMMA NoPage ==
    ASSUME NEW keys \in SUBSET Key, Distinct(keys)
    PROVE  UpTo(0, keys) = {}
BY Positions, FewKeys DEF UpTo

\* A key that is created has an id of its own.
LEMMA NewId ==
    ASSUME Typed, Cardinality(account) < MaxKeys
    PROVE  FreshId \in 1..MaxKeys /\ \A k \in account : k[1] # FreshId
<1> DEFINE free == {i \in Nat : i \in 1..MaxKeys /\ \A k \in account : k[1] # i}
<1>1. account \in SUBSET Key /\ Distinct(account)
  BY DEF Typed
<1>2. free \in SUBSET Nat /\ free # {}
  BY <1>1, FewKeys
<1>3. PICK m \in free : \A i \in free : m <= i
  BY <1>2, LeastExists
<1>4. m \in 1..MaxKeys /\ \A k \in account : k[1] # m
  BY <1>3
<1>5. \A j \in 1..(m - 1) : \E k \in account : k[1] = j
  BY <1>3, Constants
<1> QED
  BY <1>4, <1>5 DEF FreshId

-----------------------------------------------------------------------------
(* What becomes of a round.                                                *)

LEMMA IdleFits ==
    ASSUME NEW keys, NEW counts
    PROVE  Idle \in Round /\ Fits(Idle, keys, counts)
<1>1. Idle \in Round
  BY Constants DEF Idle, Round
<1>2. /\ Idle.kind = "idle" /\ Idle.step = "idle" /\ Idle.page = 1 /\ ~Idle.limited
      /\ Idle.targets = {}
  BY DEF Idle
<1> QED
  BY <1>1, <1>2, FS_EmptySet DEF Idle, Fits, Shape, Collected, Creating, Deleting

LEMMA StartedFits ==
    ASSUME NEW keys \in SUBSET Key, Distinct(keys), NEW counts,
           NEW kind \in {"fetch", "fill", "create", "clear"}, NEW chosen \in SUBSET Groups
    PROVE  Started(kind, chosen) \in Round /\ Fits(Started(kind, chosen), keys, counts)
<1> DEFINE r == Started(kind, chosen)
<1>1. r \in Round
  <2>1. Idle \in Round
    BY IdleFits
  <2>2. r = [Idle EXCEPT !.kind = kind, !.chosen = chosen, !.step = "keys"]
    BY DEF Started
  <2> QED
    BY <2>1, <2>2 DEF Round
<1>2. /\ r.kind = kind /\ r.step = "keys" /\ r.page = 1 /\ r.limited = FALSE
      /\ r.targets = {} /\ r.seen = {}
  BY DEF Idle, Started
<1> HIDE DEF r
<1>3. (r.page - 1) * PageSize = 0
  BY <1>2, Constants
<1>4. r.seen = UpTo((r.page - 1) * PageSize, keys)
  BY <1>2, <1>3, NoPage
<1>5. Fits(r, keys, counts)
  BY <1>2, <1>4, FS_EmptySet DEF Fits, Shape, Collected, Creating, Deleting
<1> QED
  BY <1>1, <1>5 DEF r

\* One target less.
LEMMA FailedIs ==
    ASSUME NEW r \in Round, NEW t, Writes(r)
    PROVE  /\ Failed(r, t) \in Round
           /\ Failed(r, t).kind = r.kind /\ Failed(r, t).step = r.step
           /\ Failed(r, t).page = r.page /\ Failed(r, t).seen = r.seen
           /\ Failed(r, t).groups = r.groups /\ Failed(r, t).stale = r.stale
           /\ Failed(r, t).limited = r.limited /\ Failed(r, t).last = r.last
           /\ Failed(r, t).targets = r.targets \ {t}
<1>1. Failed(r, t) = [r EXCEPT !.targets = @ \ {t}, !.again = TRUE]
  BY DEF Failed
<1>2. Failed(r, t) \in Round
  <2>1. r.targets \ {t} \in SUBSET (Groups \cup Key)
    BY DEF Round
  <2> QED
    BY <1>1, <2>1 DEF Round
<1>3. /\ Failed(r, t).kind = r.kind /\ Failed(r, t).step = r.step
      /\ Failed(r, t).page = r.page /\ Failed(r, t).seen = r.seen
      /\ Failed(r, t).groups = r.groups /\ Failed(r, t).stale = r.stale
      /\ Failed(r, t).limited = r.limited /\ Failed(r, t).last = r.last
      /\ Failed(r, t).targets = r.targets \ {t}
  BY <1>1 DEF Round
<1> QED
  BY <1>2, <1>3

LEMMA FailedFits ==
    ASSUME NEW r \in Round, NEW t, NEW keys, NEW counts, Fits(r, keys, counts)
    PROVE  Failed(r, t) \in Round /\ Fits(Failed(r, t), keys, counts)
<1>1. CASE Writes(r)
  <2> DEFINE f == Failed(r, t)
  <2>1. /\ f \in Round /\ f.kind = r.kind /\ f.step = r.step /\ f.page = r.page
        /\ f.seen = r.seen /\ f.groups = r.groups /\ f.stale = r.stale
        /\ f.limited = r.limited /\ f.targets = r.targets \ {t}
    BY <1>1, FailedIs
  <2> HIDE DEF f
  <2>2. Shape(f)
    BY <2>1 DEF Fits, Shape, Writes, StopsAtLimit
  <2>3. Collected(f, keys)
    BY <1>1, <2>1 DEF Fits, Collected, Writes
  <2>4. Creating(f, keys) /\ Deleting(f, keys, counts)
    BY <2>1 DEF Fits, Creating, Deleting
  <2>5. f \in Round /\ Fits(f, keys, counts)
    BY <2>1, <2>2, <2>3, <2>4 DEF Fits
  <2> QED
    BY <2>5 DEF f
<1>2. CASE ~Writes(r)
  BY <1>2, IdleFits DEF Failed
<1> QED
  BY <1>1, <1>2

\* The provider obeyed: the account has a key for the target, or lost it.
LEMMA ObeyedFits ==
    ASSUME Typed, Fits(round, account, judged), Writes(round), NEW t \in round.targets
    PROVE  /\ Obeyed(t) \subseteq Key /\ Distinct(Obeyed(t))
           /\ Failed(round, t) \in Round /\ Fits(Failed(round, t), Obeyed(t), judged)
<1> DEFINE r == Failed(round, t)
<1>1. round \in Round /\ account \in SUBSET Key /\ Distinct(account)
  BY DEF Typed
<1>2. /\ r \in Round
      /\ r.kind = round.kind /\ r.step = round.step /\ r.page = round.page
      /\ r.seen = round.seen /\ r.groups = round.groups /\ r.stale = round.stale
      /\ r.limited = round.limited /\ r.targets = round.targets \ {t}
  BY <1>1, FailedIs
<1> HIDE DEF r
<1>3. Obeyed(t) \subseteq Key /\ Distinct(Obeyed(t))
  <2>1. CASE round.step = "create" /\ Cardinality(account) < MaxKeys
    <3>1. Obeyed(t) = account \cup {<<FreshId, t>>}
      BY <2>1 DEF Obeyed
    <3>2. t \in Groups
      BY <2>1 DEF Fits, Shape
    <3>3. FreshId \in 1..MaxKeys /\ \A k \in account : k[1] # FreshId
      BY <2>1, NewId
    <3>4. <<FreshId, t>> \in Key
      BY <3>2, <3>3 DEF Key
    <3> QED
      BY <1>1, <3>1, <3>3, <3>4 DEF Distinct
  <2>2. CASE ~(round.step = "create" /\ Cardinality(account) < MaxKeys)
    <3>1. Obeyed(t) \subseteq account
      BY <2>2 DEF Obeyed
    <3> QED
      BY <1>1, <3>1 DEF Distinct
  <2> QED
    BY <2>1, <2>2
<1>4. Shape(r)
  BY <1>2 DEF Fits, Shape, Writes, StopsAtLimit
<1>5. Collected(r, Obeyed(t))
  <2>1. r.step \notin {"keys", "groups", "hall"}
    BY <1>2 DEF Writes
  <2>2. round.seen \cup account \subseteq round.seen \cup Obeyed(t)
    BY DEF Obeyed, Writes, Fits, Shape
  <2>3. IsFiniteSet(account) /\ IsFiniteSet(Obeyed(t)) /\ IsFiniteSet(round.seen)
    BY <1>1, <1>3, FewKeys DEF Fits, Collected
  <2>4. IsFiniteSet(round.seen \cup account) /\ IsFiniteSet(round.seen \cup Obeyed(t))
    BY <2>3, FS_Union
  <2>5. /\ Cardinality(round.seen \cup account) <= Cardinality(round.seen \cup Obeyed(t))
        /\ Cardinality(round.seen \cup account) \in Nat
        /\ Cardinality(round.seen \cup Obeyed(t)) \in Nat
    BY <2>2, <2>4, FS_Subset, FS_CardinalityType
  <2>6. round.page > 1 => (round.page - 1) * PageSize < Cardinality(round.seen \cup account)
    BY DEF Fits, Collected
  <2>7. (round.page - 1) * PageSize \in Int
    BY <1>1, Constants DEF Round
  <2>8. round.page > 1 => (round.page - 1) * PageSize < Cardinality(round.seen \cup Obeyed(t))
    BY <2>5, <2>6, <2>7
  <2> QED
    BY <1>2, <2>1, <2>3, <2>8 DEF Collected
<1>6. Creating(r, Obeyed(t))
  <2> SUFFICES ASSUME r.kind = "fill", r.step = "create", NEW g \in r.targets
               PROVE  KeysOf(g, Obeyed(t)) = {}
    BY DEF Creating
  <2>1. KeysOf(g, account) = {} /\ g # t
    BY <1>2 DEF Fits, Creating
  <2>2. Obeyed(t) \subseteq account \cup {<<FreshId, t>>}
    BY <1>2 DEF Obeyed
  <2> QED
    BY <2>1, <2>2 DEF KeysOf
<1>7. Deleting(r, Obeyed(t), judged)
  <2> SUFFICES ASSUME r.kind = "fetch", r.step = "delete"
               PROVE  Deleting(r, Obeyed(t), judged)
    BY DEF Deleting
  <2>1. Obeyed(t) = account \ {t}
    BY <1>2 DEF Obeyed
  <2> QED
    BY <1>2, <2>1 DEF Fits, Deleting
<1>8. r \in Round /\ Fits(r, Obeyed(t), judged)
  BY <1>2, <1>4, <1>5, <1>6, <1>7 DEF Fits
<1> QED
  BY <1>3, <1>8 DEF r

LEMMA PlannedIs ==
    ASSUME NEW r \in Round, NEW groups \in SUBSET Groups, NEW blocked, NEW confirmed
    PROVE  LET p == Planned(r, groups, blocked, confirmed)
               wanted == Wanted(r, Catalog(groups, blocked))
           IN  \/ /\ r.kind = "fetch"
                  /\ p \in Round /\ p.step = "delete" /\ p.kind = "fetch"
                  /\ p.groups = groups /\ p.stale = Stale(r, groups, confirmed)
                  /\ p.targets = p.stale
                  /\ p.page = r.page /\ p.seen = r.seen /\ p.limited = r.limited
               \/ p = Idle
               \/ /\ r.kind # "fetch"
                  /\ p \in Round /\ p.step = "create" /\ p.kind = r.kind
                  /\ p.groups = groups /\ p.targets = wanted /\ wanted \subseteq Groups
                  /\ p.page = r.page /\ p.seen = r.seen /\ p.limited = r.limited
<1> DEFINE stale == Stale(r, groups, confirmed)
           wanted == Wanted(r, Catalog(groups, blocked))
<1>1. stale \subseteq Key
  BY DEF Stale, Round
<1>2. wanted \subseteq Groups
  BY DEF Wanted, Catalog
<1> HIDE DEF stale, wanted
<1>3. CASE r.kind = "fetch"
  <2>1. Planned(r, groups, blocked, confirmed) =
            [r EXCEPT !.step = "delete", !.groups = groups, !.stale = stale,
                      !.targets = stale, !.again = TRUE]
    BY <1>3 DEF Planned, stale
  <2> DEFINE p == Planned(r, groups, blocked, confirmed)
  <2>2. p \in Round
    BY <1>1, <2>1 DEF Round
  <2>3. /\ p.step = "delete" /\ p.kind = "fetch" /\ p.groups = groups /\ p.stale = stale
        /\ p.targets = p.stale /\ p.page = r.page /\ p.seen = r.seen /\ p.limited = r.limited
    BY <1>3, <2>1 DEF Round
  <2> HIDE DEF p
  <2>4. /\ r.kind = "fetch" /\ p \in Round /\ p.step = "delete" /\ p.kind = "fetch"
        /\ p.groups = groups /\ p.stale = stale /\ p.targets = p.stale
        /\ p.page = r.page /\ p.seen = r.seen /\ p.limited = r.limited
    BY <1>3, <2>2, <2>3
  <2> QED
    BY <2>4, Zenon DEF p, stale
<1>4. CASE r.kind # "fetch" /\ wanted = {}
  BY <1>4 DEF Planned, wanted
<1>5. CASE r.kind # "fetch" /\ wanted # {}
  <2>1. Planned(r, groups, blocked, confirmed) =
            [r EXCEPT !.step = "create", !.groups = groups, !.targets = wanted,
                      !.again = TRUE]
    BY <1>5 DEF Planned, wanted
  <2> DEFINE p == Planned(r, groups, blocked, confirmed)
  <2>2. p \in Round
    BY <1>2, <2>1 DEF Round
  <2>3. /\ p.step = "create" /\ p.kind = r.kind /\ p.groups = groups /\ p.targets = wanted
        /\ p.page = r.page /\ p.seen = r.seen /\ p.limited = r.limited
    BY <2>1 DEF Round
  <2> HIDE DEF p
  <2>4. /\ r.kind # "fetch" /\ p \in Round /\ p.step = "create" /\ p.kind = r.kind
        /\ p.groups = groups /\ p.targets = wanted /\ wanted \subseteq Groups
        /\ p.page = r.page /\ p.seen = r.seen /\ p.limited = r.limited
    BY <1>2, <1>5, <2>2, <2>3
  <2> QED
    BY <2>4, Zenon DEF p, wanted
<1> QED
  BY <1>3, <1>4, <1>5

\* The plan of a round that has read the account and what it must know of the groups.
LEMMA PlannedFits ==
    ASSUME NEW keys \in SUBSET Key, NEW counts, NEW later,
           NEW r \in Round, Fits(r, keys, counts), r.step \in {"groups", "hall"},
           NEW groups \in SUBSET Groups, NEW blocked, NEW confirmed,
           r.kind = "fetch" => \A g \in confirmed : later[g] = 2
    PROVE  LET p == Planned(r, groups, blocked, confirmed)
           IN  p \in Round /\ Fits(p, keys, later)
<1> DEFINE p == Planned(r, groups, blocked, confirmed)
           wanted == Wanted(r, Catalog(groups, blocked))
<1>1. /\ r.seen = keys /\ ~r.limited /\ IsFiniteSet(r.seen)
      /\ r.kind \in {"fetch", "fill", "create"}
      /\ r.page > 1 => (r.page - 1) * PageSize < Cardinality(r.seen \cup keys)
  BY DEF Fits, Shape, Collected, Writes, Round
<1>2. \/ /\ r.kind = "fetch"
         /\ p \in Round /\ p.step = "delete" /\ p.kind = "fetch"
         /\ p.groups = groups /\ p.stale = Stale(r, groups, confirmed)
         /\ p.targets = p.stale
         /\ p.page = r.page /\ p.seen = r.seen /\ p.limited = r.limited
      \/ p = Idle
      \/ /\ r.kind # "fetch"
         /\ p \in Round /\ p.step = "create" /\ p.kind = r.kind
         /\ p.groups = groups /\ p.targets = wanted /\ wanted \subseteq Groups
         /\ p.page = r.page /\ p.seen = r.seen /\ p.limited = r.limited
  BY PlannedIs
<1>3. r.kind = "fill" => \A g \in wanted : KeysOf(g, keys) = {}
  BY <1>1 DEF Wanted
<1> HIDE DEF p, wanted
<1>4. CASE r.kind = "fetch" /\ p.step = "delete" /\ p \in Round
  <2>1. Shape(p)
    BY <1>1, <1>2, <1>4 DEF Shape, Stale, Idle
  <2>2. Collected(p, keys)
    BY <1>1, <1>2, <1>4 DEF Collected, Idle
  <2>3. Deleting(p, keys, later)
    BY <1>1, <1>2, <1>4 DEF Deleting, Stale, Idle
  <2> QED
    BY <1>2, <1>4, <2>1, <2>2, <2>3 DEF Fits, Creating, p
<1>5. CASE p = Idle
  BY <1>5, IdleFits DEF p
<1>6. CASE r.kind # "fetch" /\ p.step = "create" /\ p \in Round
  <2>1. Shape(p)
    BY <1>1, <1>2, <1>6 DEF Shape, Idle
  <2>2. Collected(p, keys)
    <3>1. p.seen = r.seen /\ p.page = r.page
      BY <1>2, <1>6 DEF Idle
    <3> QED
      BY <1>1, <1>6, <3>1 DEF Collected
  <2>3. Creating(p, keys)
    BY <1>1, <1>2, <1>3, <1>6 DEF Creating, Idle
  <2> QED
    BY <1>2, <1>6, <2>1, <2>2, <2>3 DEF Fits, Deleting, p
<1> QED
  BY <1>2, <1>4, <1>5, <1>6

\* A request that is sent again.
LEMMA RetriedFits ==
    ASSUME NEW r \in Round, NEW q \in Round, NEW keys, NEW counts, Fits(r, keys, counts),
           q.kind = r.kind, q.step = r.step, q.page = r.page, q.seen = r.seen,
           q.last = r.last, q.groups = r.groups, q.targets = r.targets,
           q.stale = r.stale, q.limited = r.limited
    PROVE  Fits(q, keys, counts)
<1>1. Shape(q)
  BY DEF Fits, Shape, Writes, StopsAtLimit
<1>2. Collected(q, keys)
  BY DEF Fits, Collected
<1>3. Creating(q, keys) /\ Deleting(q, keys, counts)
  BY DEF Fits, Creating, Deleting
<1> QED
  BY <1>1, <1>2, <1>3 DEF Fits

-----------------------------------------------------------------------------
(* The steps.                                                              *)

LEMMA InitHolds ==
    ASSUME RoundsInit
    PROVE  RoundsInv
<1>1. Idle \in Round /\ Fits(Idle, account, judged)
  BY IdleFits
<1>2. hall \in Shown
  BY DEF RoundsInit, Shown
<1>3. judged \in [Groups -> 0..2]
  BY DEF RoundsInit
<1>4. access \in BOOLEAN
  BY DEF RoundsInit
<1> QED
  BY <1>1, <1>2, <1>3, <1>4, Constants
     DEF RoundsInit, RoundsInv, Typed, Distinct, Condemned

\* What a step has to show if neither the account nor the verdicts change.
LEMMA RoundOnly ==
    ASSUME RoundsInv, UNCHANGED <<account, sourceVars>>,
           active' \subseteq Groups, hall' \in Shown, access' \in BOOLEAN,
           faults' \in 0..MaxFaults,
           round' \in Round, Fits(round', account, judged)
    PROVE  RoundsInv'
BY DEF RoundsInv, Typed, Distinct, Condemned, sourceVars

LEMMA FaultTyped ==
    ASSUME RoundsInv, Fault
    PROVE  faults' \in 0..MaxFaults
BY Constants DEF RoundsInv, Typed, Fault

LEMMA ProviderHolds ==
    ASSUME RoundsInv, Provider
    PROVE  RoundsInv'
<1>1. CASE GroupChanges
  <2>1. active' \subseteq Groups
    BY <1>1, Constants DEF GroupChanges, RoundsInv, Typed
  <2> QED
    BY <1>1, <2>1, RoundOnly DEF GroupChanges, RoundsInv, Typed
<1>2. CASE HallChanges
  <2>1. PICK g \in Fickle : \E e \in HallEntries : hall' = [hall EXCEPT ![g] = e]
    BY <1>2 DEF HallChanges
  <2>2. hall' \in Shown
    BY <2>1 DEF RoundsInv, Typed, Shown
  <2> QED
    BY <1>2, <2>2, RoundOnly DEF HallChanges, RoundsInv, Typed
<1> QED
  BY <1>1, <1>2 DEF Provider

LEMMA BeginHolds ==
    ASSUME RoundsInv, BeginFetch \/ BeginWrites
    PROVE  RoundsInv'
<1>1. \E kind \in {"fetch", "fill", "create", "clear"}, chosen \in SUBSET Groups :
          round' = Started(kind, chosen)
  BY DEF BeginFetch, BeginWrites
<1>2. round' \in Round /\ Fits(round', account, judged)
  BY <1>1, StartedFits DEF RoundsInv, Typed
<1> QED
  BY <1>2, RoundOnly DEF BeginFetch, BeginWrites, providerVars, RoundsInv, Typed

LEMMA RefreshHolds ==
    ASSUME RoundsInv, Refresh
    PROVE  RoundsInv'
<1>1. round' \in Round /\ Fits(round', account, judged)
  BY FailedFits DEF Refresh, RoundsInv, Typed
<1>2. access' \in BOOLEAN
  BY DEF Refresh, RoundsInv, Typed
<1>3. faults' \in 0..MaxFaults
  BY FaultTyped DEF Refresh, RoundsInv, Typed
<1> QED
  BY <1>1, <1>2, <1>3, RoundOnly DEF Refresh, providerVars, RoundsInv, Typed

LEMMA RefusedHolds ==
    ASSUME RoundsInv, Refused
    PROVE  RoundsInv'
<1>1. round \in Round /\ Fits(round, account, judged)
  BY DEF RoundsInv, Typed
<1>2. round' \in Round /\ Fits(round', account, judged)
  <2>1. CASE round' = [round EXCEPT !.again = FALSE, !.attempt = 1]
    <3>1. 1 \in 1..(Retries + 1)
      BY Constants
    <3>2. round' \in Round
      BY <1>1, <2>1, <3>1 DEF Round
    <3>3. /\ round'.kind = round.kind /\ round'.step = round.step
          /\ round'.page = round.page /\ round'.seen = round.seen
          /\ round'.last = round.last /\ round'.groups = round.groups
          /\ round'.targets = round.targets /\ round'.stale = round.stale
          /\ round'.limited = round.limited
      BY <1>1, <2>1 DEF Round
    <3> QED
      BY <1>1, <3>2, <3>3, RetriedFits
  <2>2. CASE \E t \in Target : round' = Failed(round, t)
    BY <1>1, <2>2, FailedFits
  <2> QED
    BY <2>1, <2>2 DEF Refused
<1>3. access' \in BOOLEAN
  BY DEF Refused, RoundsInv, Typed
<1>4. faults' \in 0..MaxFaults
  BY FaultTyped DEF Refused
<1> QED
  BY <1>2, <1>3, <1>4, RoundOnly DEF Refused, providerVars, RoundsInv, Typed

\* The account changes as a write asked.
LEMMA WriteHolds ==
    ASSUME RoundsInv, Writes(round), NEW t \in round.targets,
           account' = Obeyed(t), round' = Failed(round, t),
           UNCHANGED <<active, hall, access, sourceVars>>, faults' \in 0..MaxFaults
    PROVE  RoundsInv'
<1>1. /\ account' \subseteq Key /\ Distinct(account')
      /\ round' \in Round /\ Fits(round', account', judged)
  BY ObeyedFits DEF RoundsInv
<1> QED
  BY <1>1 DEF RoundsInv, Typed, Distinct, Condemned, sourceVars

LEMMA LostHolds ==
    ASSUME RoundsInv, Lost
    PROVE  RoundsInv'
<1>1. round \in Round /\ Fits(round, account, judged)
  BY DEF RoundsInv, Typed
<1>2. faults' \in 0..MaxFaults
  BY FaultTyped DEF Lost
<1>3. PICK t \in Target :
          /\ round' = IF SentAgain(round) THEN [round EXCEPT !.attempt = @ + 1]
                      ELSE Failed(round, t)
          /\ account' \in {account} \cup (IF Writes(round) THEN {Obeyed(t)} ELSE {})
  BY DEF Lost
<1>4. CASE account' = account
  <2>1. CASE SentAgain(round)
    <3>1. round.attempt + 1 \in 1..(Retries + 1)
      BY <1>1, <2>1, Constants DEF SentAgain, Round
    <3>2. /\ round' \in Round
          /\ round'.kind = round.kind /\ round'.step = round.step
          /\ round'.page = round.page /\ round'.seen = round.seen
          /\ round'.last = round.last /\ round'.groups = round.groups
          /\ round'.targets = round.targets /\ round'.stale = round.stale
          /\ round'.limited = round.limited
      BY <1>1, <1>3, <2>1, <3>1 DEF Round
    <3>3. Fits(round', account, judged)
      BY <1>1, <3>2, RetriedFits
    <3> QED
      BY <1>2, <1>4, <3>2, <3>3, RoundOnly DEF Lost, RoundsInv, Typed
  <2>2. CASE ~SentAgain(round)
    <3>1. round' \in Round /\ Fits(round', account, judged)
      BY <1>1, <1>3, <2>2, FailedFits
    <3> QED
      BY <1>2, <1>4, <3>1, RoundOnly DEF Lost, RoundsInv, Typed
  <2> QED
    BY <2>1, <2>2
<1>5. CASE Writes(round) /\ account' = Obeyed(t)
  <2>1. round' = Failed(round, t) /\ t \in round.targets
    BY <1>3, <1>5 DEF SentAgain, Target
  <2> QED
    BY <1>2, <1>5, <2>1, WriteHolds DEF Lost
<1> QED
  BY <1>3, <1>4, <1>5

LEMMA ErrsHolds ==
    ASSUME RoundsInv, Errs
    PROVE  RoundsInv'
<1>1. round' \in Round /\ Fits(round', account, judged)
  BY FailedFits DEF Errs, RoundsInv, Typed
<1> QED
  BY <1>1, FaultTyped, RoundOnly DEF Errs, providerVars, RoundsInv, Typed

LEMMA LimitedHolds ==
    ASSUME RoundsInv, Limited
    PROVE  RoundsInv'
<1>1. PICK t \in round.targets :
          round' = [Failed(round, t) EXCEPT
                      !.limited = TRUE,
                      !.targets = IF StopsAtLimit(round) THEN {} ELSE @]
  BY DEF Limited
<1> DEFINE f == Failed(round, t)
<1>2. Writes(round) /\ round \in Round
  BY DEF Limited, RoundsInv, Typed
<1>3. f \in Round /\ Fits(f, account, judged)
  BY FailedFits DEF RoundsInv, Typed
<1>4. f.kind = round.kind /\ f.step = round.step
  BY <1>2, FailedIs
<1> HIDE DEF f
<1>5. round' = [f EXCEPT !.limited = TRUE,
                         !.targets = IF StopsAtLimit(round) THEN {} ELSE @]
  BY <1>1 DEF f
<1>6. /\ round' \in Round
      /\ round'.kind = f.kind /\ round'.step = f.step /\ round'.page = f.page
      /\ round'.seen = f.seen /\ round'.last = f.last /\ round'.groups = f.groups
      /\ round'.stale = f.stale /\ round'.limited = TRUE
      /\ round'.targets = IF StopsAtLimit(round) THEN {} ELSE f.targets
  BY <1>3, <1>5 DEF Round
<1>7. Shape(round')
  BY <1>2, <1>3, <1>4, <1>6 DEF Fits, Shape, Writes, StopsAtLimit
<1>8. Collected(round', account)
  BY <1>3, <1>6 DEF Fits, Collected
<1>9. Creating(round', account) /\ Deleting(round', account, judged)
  BY <1>3, <1>6 DEF Fits, Creating, Deleting
<1>10. Fits(round', account, judged)
  BY <1>7, <1>8, <1>9 DEF Fits
<1> QED
  BY <1>6, <1>10, FaultTyped, RoundOnly DEF Limited, providerVars, RoundsInv, Typed

LEMMA LimitedIs ==
    ASSUME RoundsInv, round.step \in {"keys", "groups", "hall"}
    PROVE  ~round.limited
BY DEF RoundsInv, Fits, Shape, Writes

\* A page is read: there is another, or all keys are known.
LEMMA ListedHolds ==
    ASSUME RoundsInv, Listed
    PROVE  RoundsInv'
<1> DEFINE n == (round.page - 1) * PageSize
           batch == Page(round.page)
           next == [round EXCEPT !.seen = @ \cup batch, !.attempt = 1, !.again = TRUE]
<1>1. /\ round \in Round /\ account \in SUBSET Key /\ Distinct(account)
      /\ round.step = "keys" /\ round.kind # "idle" /\ round.page \in Nat \ {0}
      /\ ~round.limited
  BY LimitedIs DEF Listed, RoundsInv, Typed, Fits, Shape, Round
<1>2. /\ round.seen = UpTo(n, account)
      /\ Paged \/ round.page = 1 \/ (round.page = 2 /\ round.last = round.seen /\ round.seen # {})
  BY <1>1 DEF RoundsInv, Fits, Collected
<1>3. n \in Nat
  <2>1. round.page - 1 \in Nat
    BY <1>1
  <2> QED
    BY <2>1, Constants
<1>4. n + PageSize = round.page * PageSize
  BY <1>1, Constants
<1>5. CASE ~Paged /\ round.page = 2
  <2>1. n = PageSize
    BY <1>5, Constants
  <2>2. batch = {k \in account : Position(k, account) \in 1..PageSize}
    BY <1>5, Constants DEF Page
  <2>3. batch = UpTo(n, account)
    BY <1>1, <2>1, <2>2, Positions, FewKeys, Constants DEF UpTo
  <2>4. round' = Idle
    BY <1>2, <1>5, <2>3 DEF Listed
  <2> QED
    BY <2>4, IdleFits, RoundOnly DEF Listed, providerVars, RoundsInv, Typed
<1>6. CASE Paged \/ round.page = 1
  <2>1. batch = {k \in account : Position(k, account) \in (n + 1)..(n + PageSize)}
    BY <1>6, Constants DEF Page
  <2> DEFINE upto == UpTo(n + PageSize, account)
  <2> HIDE DEF n, batch
  <2>2. /\ UpTo(n, account) \cup batch = upto
        /\ Cardinality(batch) < PageSize => upto = account
        /\ Cardinality(upto) >= Cardinality(account) => upto = account
        /\ ~(Cardinality(upto) >= Cardinality(account)) => n + PageSize < Cardinality(account)
    BY <1>1, <1>3, <2>1, OnePage
  <2>3. batch \in SUBSET account /\ IsFiniteSet(account) /\ IsFiniteSet(upto)
    BY <1>1, <2>1, FewKeys, FS_Subset DEF UpTo
  <2>4. next.seen = upto
    BY <1>1, <1>2, <2>2 DEF Round
  <2>5. /\ next \in Round /\ next.page = round.page /\ next.kind = round.kind
        /\ next.limited = FALSE /\ next.step = "keys"
    <3>1. 1 \in 1..(Retries + 1) /\ batch \subseteq Key
      BY <1>1, <2>3, Constants
    <3>2. next \in Round
      BY <1>1, <3>1 DEF Round
    <3>3. /\ next.page = round.page /\ next.kind = round.kind
          /\ next.limited = round.limited /\ next.step = "keys"
      BY <1>1 DEF Round
    <3>4. round.limited \in BOOLEAN
      BY <1>1 DEF Round
    <3>5. round.limited = FALSE
      BY <1>1, <3>4
    <3> QED
      BY <3>2, <3>3, <3>5
  <2> HIDE DEF next, upto
  <2>6. \/ round' = Idle
        \/ /\ ~LastPage(batch, next.seen)
           /\ round' = [next EXCEPT !.page = @ + 1, !.last = batch]
        \/ /\ LastPage(batch, next.seen) /\ round.kind = "clear"
           /\ round' = [next EXCEPT !.step = "delete",
                          !.targets = {k \in next.seen : k[2] \in round.chosen}]
        \/ /\ LastPage(batch, next.seen) /\ round.kind # "clear"
           /\ round' = [next EXCEPT !.step = "groups"]
    BY DEF Listed, next, batch
  <2>7. CASE ~LastPage(batch, next.seen) /\ round' = [next EXCEPT !.page = @ + 1, !.last = batch]
    <3>1. n + PageSize < Cardinality(account) /\ ~(Cardinality(batch) < PageSize)
      BY <2>2, <2>4, <2>7 DEF LastPage
    <3>2. round.page + 1 \in Nat \ {0} /\ batch \subseteq Key
      BY <1>1, <2>3
    <3>3. /\ round' \in Round /\ round'.page = round.page + 1 /\ round'.last = batch
          /\ round'.seen = upto /\ round'.step = "keys" /\ round'.kind = round.kind
          /\ round'.limited = FALSE
      BY <2>4, <2>5, <2>7, <3>2 DEF Round
    <3>4. (round'.page - 1) * PageSize = n + PageSize
      BY <1>1, <1>4, <3>3
    <3>5. Paged \/ (round'.page = 2 /\ round'.last = upto /\ upto # {})
      <4> SUFFICES ASSUME ~Paged
                   PROVE  round'.page = 2 /\ batch = upto /\ batch # {}
        BY <3>3
      <4>1. round.page = 1
        BY <1>6
      <4>2. n = 0
        BY <4>1, Constants DEF n
      <4>3. UpTo(n, account) = {}
        BY <1>1, <4>2, NoPage
      <4>4. batch # {}
        BY <3>1, FS_EmptySet, Constants
      <4> QED
        BY <2>2, <3>3, <4>1, <4>3, <4>4
    <3>6. round'.seen \cup account = account
      BY <2>3, <3>3 DEF upto, UpTo
    <3>7. Collected(round', account)
      <4>1. round'.seen = UpTo((round'.page - 1) * PageSize, account)
        BY <3>3, <3>4 DEF upto
      <4>2. (round'.page - 1) * PageSize < Cardinality(round'.seen \cup account)
        BY <3>1, <3>4, <3>6
      <4> QED
        BY <2>3, <3>3, <3>5, <4>1, <4>2 DEF Collected
    <3>8. Fits(round', account, judged)
      BY <1>1, <3>3, <3>7 DEF Fits, Shape, Creating, Deleting
    <3> QED
      BY <3>3, <3>8, RoundOnly DEF Listed, providerVars, RoundsInv, Typed
  <2>8. ASSUME LastPage(batch, next.seen)
        PROVE  /\ next.seen = account
               /\ next.page > 1 => (next.page - 1) * PageSize < Cardinality(account)
    <3>1. upto = account
      BY <2>2, <2>4, <2>8 DEF LastPage
    <3>2. round.page > 1 => (round.page - 1) * PageSize < Cardinality(round.seen \cup account)
      BY DEF RoundsInv, Fits, Collected
    <3>3. round.seen \cup account = account
      BY <1>2 DEF UpTo
    <3> QED
      BY <2>4, <2>5, <3>1, <3>2, <3>3
  <2>9. CASE /\ LastPage(batch, next.seen) /\ round.kind = "clear"
             /\ round' = [next EXCEPT !.step = "delete",
                            !.targets = {k \in next.seen : k[2] \in round.chosen}]
    <3> DEFINE targets == {k \in next.seen : k[2] \in round.chosen}
    <3>1. targets \subseteq Key /\ targets \subseteq account
      BY <1>1, <2>8, <2>9
    <3> HIDE DEF targets
    <3>2. round' = [next EXCEPT !.step = "delete", !.targets = targets]
      BY <2>9 DEF targets
    <3>3. /\ round' \in Round /\ round'.page = next.page /\ round'.targets = targets
          /\ round'.seen = next.seen /\ round'.step = "delete" /\ round'.kind = "clear"
          /\ round'.limited = FALSE
      BY <2>5, <2>9, <3>1, <3>2 DEF Round
    <3>4. Collected(round', account)
      BY <2>3, <2>8, <2>9, <3>3 DEF Collected
    <3>5. Fits(round', account, judged)
      BY <2>8, <2>9, <3>1, <3>3, <3>4 DEF Fits, Shape, Creating, Deleting
    <3> QED
      BY <3>3, <3>5, RoundOnly DEF Listed, providerVars, RoundsInv, Typed
  <2>10. CASE /\ LastPage(batch, next.seen) /\ round.kind # "clear"
              /\ round' = [next EXCEPT !.step = "groups"]
    <3>1. /\ round' \in Round /\ round'.page = next.page /\ round'.seen = next.seen
          /\ round'.step = "groups" /\ round'.kind = round.kind /\ round'.limited = FALSE
      BY <2>5, <2>10 DEF Round
    <3>2. Collected(round', account)
      BY <2>3, <2>8, <2>10, <3>1 DEF Collected
    <3>3. Fits(round', account, judged)
      BY <1>1, <2>10, <3>1, <3>2 DEF Fits, Shape, Creating, Deleting
    <3> QED
      BY <3>1, <3>3, RoundOnly DEF Listed, providerVars, RoundsInv, Typed
  <2>11. CASE round' = Idle
    BY <2>11, IdleFits, RoundOnly DEF Listed, providerVars, RoundsInv, Typed
  <2> QED
    BY <2>6, <2>7, <2>9, <2>10, <2>11
<1> QED
  BY <1>2, <1>5, <1>6

LEMMA GroupsReadHolds ==
    ASSUME RoundsInv, GroupsRead
    PROVE  RoundsInv'
<1>1. /\ round \in Round /\ account \in SUBSET Key /\ active \in SUBSET Groups
      /\ round.step = "groups" /\ Fits(round, account, judged)
  BY DEF GroupsRead, RoundsInv, Typed
<1>2. CASE HasHall
  <2>1. round' = [round EXCEPT !.step = "hall", !.groups = active,
                               !.attempt = 1, !.again = TRUE]
    BY <1>2 DEF GroupsRead
  <2>2. 1 \in 1..(Retries + 1)
    BY Constants
  <2>3. round' \in Round
    BY <1>1, <2>1, <2>2 DEF Round
  <2>4. /\ round'.step = "hall" /\ round'.kind = round.kind /\ round'.page = round.page
        /\ round'.seen = round.seen /\ round'.limited = round.limited
    BY <1>1, <2>1 DEF Round
  <2>5. Shape(round')
    BY <1>1, <2>4 DEF Fits, Shape, Writes
  <2>6. Collected(round', account)
    BY <1>1, <2>4 DEF Fits, Collected
  <2>7. Fits(round', account, judged)
    BY <2>4, <2>5, <2>6 DEF Fits, Creating, Deleting
  <2> QED
    BY <2>3, <2>7, RoundOnly DEF GroupsRead, providerVars, RoundsInv, Typed
<1>3. CASE ~HasHall
  <2>1. round' = Planned(round, active, {}, {})
    BY <1>3 DEF GroupsRead
  <2>2. round' \in Round /\ Fits(round', account, judged)
    BY <1>1, <2>1, PlannedFits
  <2> QED
    BY <2>2, RoundOnly DEF GroupsRead, providerVars, RoundsInv, Typed
<1> QED
  BY <1>2, <1>3

\* The hall's verdicts, new or old, and what they are used for.
LEMMA FilteredHolds ==
    ASSUME RoundsInv, NEW shown \in Shown, round.step = "hall", Filtered(shown),
           snapshot' \in {<<>>} \cup Shown, faults' \in 0..MaxFaults
    PROVE  RoundsInv'
<1> DEFINE blocked == BlockedIn(shown)
<1>1. /\ round \in Round /\ account \in SUBSET Key /\ round.groups \in SUBSET Groups
      /\ Fits(round, account, judged) /\ judged \in [Groups -> 0..2]
  BY DEF RoundsInv, Typed, Round
<1>2. blocked \subseteq Groups
  BY DEF BlockedIn, Shown
<1>3. round' = Planned(round, round.groups, blocked, Confirmed(blocked))
  BY DEF Filtered
<1> HIDE DEF blocked
<1>4. /\ judged' \in [Groups -> 0..2] /\ Condemned'
      /\ round.kind = "fetch" => \A g \in Confirmed(blocked) : judged'[g] = 2
  <2>1. CASE round.kind = "fetch"
    <3>1. pending' = blocked /\ judged' = Longer(judged, blocked)
      BY <2>1 DEF Filtered, blocked
    <3>2. \A g \in Groups : judged'[g] = IF g \notin blocked THEN 0
                                         ELSE IF judged[g] = 0 THEN 1 ELSE 2
      BY <3>1 DEF Longer
    <3>3. judged' \in [Groups -> 0..2]
      BY <1>1, <3>1 DEF Longer
    <3>4. \A g \in Confirmed(blocked) : g \in blocked /\ g \in Groups /\ judged[g] > 0
      BY <1>2 DEF Confirmed, RoundsInv, Condemned
    <3>5. Condemned'
      BY <1>2, <3>1, <3>2 DEF Condemned
    <3> QED
      BY <1>1, <3>2, <3>3, <3>4, <3>5
  <2>2. CASE round.kind # "fetch"
    BY <1>1, <2>2 DEF Filtered, RoundsInv, Condemned
  <2> QED
    BY <2>1, <2>2
<1>5. round' \in Round /\ Fits(round', account, judged')
  BY <1>1, <1>3, <1>4, PlannedFits
<1> QED
  BY <1>4, <1>5 DEF Filtered, providerVars, RoundsInv, Typed, Distinct

LEMMA HallHolds ==
    ASSUME RoundsInv, HallRead \/ HallDown
    PROVE  RoundsInv'
<1>1. CASE HallRead
  <2>1. hall \in Shown /\ snapshot' = hall /\ faults' \in 0..MaxFaults
    BY <1>1 DEF HallRead, RoundsInv, Typed
  <2> QED
    BY <1>1, <2>1, FilteredHolds DEF HallRead
<1>2. CASE HallDown /\ snapshot = <<>>
  <2>1. round' = Idle /\ UNCHANGED <<account, sourceVars>>
    BY <1>2 DEF HallDown, providerVars, sourceVars
  <2>2. round' \in Round /\ Fits(round', account, judged)
    BY <2>1, IdleFits
  <2>3. faults' \in 0..MaxFaults
    BY <1>2, FaultTyped DEF HallDown
  <2> QED
    BY <1>2, <2>1, <2>2, <2>3, RoundOnly DEF HallDown, providerVars, RoundsInv, Typed
<1>3. CASE HallDown /\ snapshot # <<>>
  <2>1. snapshot \in Shown /\ snapshot' = snapshot
    BY <1>3 DEF HallDown, RoundsInv, Typed
  <2>2. faults' \in 0..MaxFaults
    BY <1>3, FaultTyped DEF HallDown
  <2> QED
    BY <1>3, <2>1, <2>2, FilteredHolds DEF HallDown
<1> QED
  BY <1>1, <1>2, <1>3

LEMMA WrittenHolds ==
    ASSUME RoundsInv, Written
    PROVE  RoundsInv'
BY WriteHolds DEF Written, RoundsInv, Typed

LEMMA FullHolds ==
    ASSUME RoundsInv, Full
    PROVE  RoundsInv'
<1>1. round' \in Round /\ Fits(round', account, judged)
  BY FailedFits DEF Full, RoundsInv, Typed
<1> QED
  BY <1>1, RoundOnly DEF Full, providerVars, RoundsInv, Typed

LEMMA FinishHolds ==
    ASSUME RoundsInv, Finish
    PROVE  RoundsInv'
<1>1. account \in SUBSET Key /\ Distinct(account) /\ round \in Round
  BY DEF RoundsInv, Typed
<1>2. round' \in Round /\ Fits(round', account, judged)
  <2>1. round' \in {Idle, Started("fetch", {})}
    BY DEF Finish
  <2> QED
    BY <1>1, <2>1, IdleFits, StartedFits
<1>3. entries' \subseteq Key
  BY <1>1 DEF Finish, Served, RoundsInv, Typed, Round
<1> QED
  BY <1>2, <1>3 DEF Finish, providerVars, RoundsInv, Typed, Distinct, Condemned

LEMMA StepHolds ==
    ASSUME RoundsInv, [RoundsNext]_roundsVars
    PROVE  RoundsInv'
<1>1. CASE UNCHANGED roundsVars
  BY <1>1 DEF roundsVars, RoundsInv, Typed, Distinct, Condemned
<1>2. CASE Answered
  BY <1>2, RefreshHolds, ListedHolds, GroupsReadHolds, HallHolds, WrittenHolds, FullHolds,
     FinishHolds DEF Answered
<1>3. CASE Faulty
  BY <1>3, RefusedHolds, LostHolds, ErrsHolds, LimitedHolds, HallHolds DEF Faulty
<1> QED
  BY <1>1, <1>2, <1>3, ProviderHolds, BeginHolds DEF RoundsNext

-----------------------------------------------------------------------------
(* The theorems.                                                           *)

\* Between any two requests, a round has read the keys up to a position, or it
\* has read them all and what it has yet to write follows from that.
THEOREM RoundsInvariant == RoundsSpec => []RoundsInv
<1>1. RoundsInit => RoundsInv
  BY InitHolds
<1>2. RoundsInv /\ [RoundsNext]_roundsVars => RoundsInv'
  BY StepHolds
<1> QED
  BY <1>1, <1>2, PTL DEF RoundsSpec

\* Every variable has its type, ids tell keys apart, and no page is asked for
\* that lies behind the keys there are.
THEOREM RoundsTypeCorrect == RoundsSpec => []RoundsTypeOK
<1>1. RoundsInv => RoundsTypeOK
  <2> SUFFICES ASSUME RoundsInv
               PROVE  RoundsTypeOK
    OBVIOUS
  <2>1. /\ account \subseteq Key /\ entries \subseteq Key /\ Distinct(account)
        /\ active \subseteq Groups /\ pending \subseteq Groups
        /\ hall \in Shown /\ access \in BOOLEAN /\ snapshot \in {<<>>} \cup Shown
        /\ round \in Round /\ faults \in 0..MaxFaults
    BY DEF RoundsInv, Typed, Condemned
  <2>2. round.page > 1 => (round.page - 1) * PageSize < Cardinality(round.seen \cup account)
    BY DEF RoundsInv, Fits, Collected
  <2>3. /\ round.kind \in {"idle", "fetch", "fill", "create", "clear"}
        /\ round.step \in {"idle", "keys", "groups", "hall", "create", "delete"}
        /\ round.attempt \in 1..(Retries + 1)
    BY <2>1 DEF Round
  <2> QED
    BY <2>1, <2>2, <2>3 DEF RoundsTypeOK, Key, Shown, Distinct
<1> QED
  BY <1>1, RoundsInvariant, PTL

\* After a 429 a round that fills, creates or clears sends no other write, with
\* either adapter (create_keys, delete_keys).
THEOREM WritingRoundsStop == RoundsSpec => [](round.kind # "fetch" => QuietAfterLimit)
<1>1. RoundsInv => (round.kind # "fetch" => QuietAfterLimit)
  BY DEF RoundsInv, Fits, Shape, QuietAfterLimit, StopsAtLimit
<1> QED
  BY <1>1, RoundsInvariant, PTL

\* With the AIHub adapter a fetch stops as well (_delete_keys).
THEOREM NoWriteAfterLimit ==
    ASSUME HasHall
    PROVE  RoundsSpec => []QuietAfterLimit
<1>1. RoundsInv => QuietAfterLimit
  BY DEF RoundsInv, Fits, Shape, QuietAfterLimit, StopsAtLimit
<1> QED
  BY <1>1, RoundsInvariant, PTL

\* What changes the account in a step: one target, of a round that writes.
LEMMA AccountChanges ==
    ASSUME [RoundsNext]_roundsVars, account' # account
    PROVE  Writes(round) /\ \E t \in round.targets : account' = Obeyed(t)
<1>1. Lost \/ Written
  BY DEF RoundsNext, Provider, Answered, Faulty, roundsVars, providerVars,
         GroupChanges, HallChanges, BeginFetch, BeginWrites, Refresh, Listed, GroupsRead,
         HallRead, HallDown, Filtered, Full, Finish, Refused, Errs, Limited
<1> QED
  BY <1>1 DEF Lost, Written, Target

\* Filling gives no group a second key, whatever the size of a page, whatever
\* pages the provider honours, and whatever answers are lost (create_keys).
THEOREM FillingAddsNoSecond == RoundsSpec => FillsOnlyMissing
<1>1. RoundsInv /\ [RoundsNext]_roundsVars =>
          (round.kind = "fill" =>
              \A k \in account' \ account : KeysOf(k[2], account) = {})
  <2> SUFFICES ASSUME RoundsInv, [RoundsNext]_roundsVars, round.kind = "fill",
                      NEW k \in account' \ account
               PROVE  KeysOf(k[2], account) = {}
    OBVIOUS
  <2>1. Writes(round) /\ \E t \in round.targets : account' = Obeyed(t)
    BY AccountChanges
  <2>2. PICK t \in round.targets : account' = Obeyed(t)
    BY <2>1
  <2>3. round.step = "create"
    BY <2>1 DEF Writes, RoundsInv, Fits, Shape
  <2>4. k = <<FreshId, t>>
    BY <2>2, <2>3 DEF Obeyed
  <2>5. KeysOf(t, account) = {}
    BY <2>3 DEF RoundsInv, Fits, Creating
  <2> QED
    BY <2>4, <2>5
<1> QED
  BY <1>1, RoundsInvariant, PTL DEF RoundsSpec, FillsOnlyMissing

\* A fetch deletes a key of an active group only if it and the fetch before it
\* both found the group blocked (_confirmed_blocked).
THEOREM DeletionsAreConfirmed == RoundsSpec => DeletionConfirmed
<1>1. RoundsInv /\ [RoundsNext]_roundsVars =>
          (round.kind = "fetch" =>
              \A k \in account \ account' : k[2] \in round.groups => judged[k[2]] = 2)
  <2> SUFFICES ASSUME RoundsInv, [RoundsNext]_roundsVars, round.kind = "fetch",
                      NEW k \in account \ account', k[2] \in round.groups
               PROVE  judged[k[2]] = 2
    OBVIOUS
  <2>1. Writes(round) /\ \E t \in round.targets : account' = Obeyed(t)
    BY AccountChanges
  <2>2. round.step = "delete"
    BY <2>1 DEF Writes, RoundsInv, Fits, Shape
  <2>3. k \in round.targets
    BY <2>1, <2>2 DEF Obeyed
  <2> QED
    BY <2>2, <2>3 DEF RoundsInv, Fits, Deleting
<1> QED
  BY <1>1, RoundsInvariant, PTL DEF RoundsSpec, DeletionConfirmed

\* What a fetch hands to the pool exists at the provider, whichever of its
\* deletions succeeded (fetch).
THEOREM ServedKeysAreThere == RoundsSpec => ServedKeysExist
<1>1. RoundsInv /\ [RoundsNext]_roundsVars => (entries' # entries => entries' \subseteq account')
  <2> SUFFICES ASSUME RoundsInv, [RoundsNext]_roundsVars, entries' # entries
               PROVE  entries' \subseteq account'
    OBVIOUS
  <2>1. Finish
    BY DEF RoundsNext, Provider, Answered, Faulty, roundsVars, sourceVars,
           GroupChanges, HallChanges, BeginFetch, BeginWrites, Refresh, Listed, GroupsRead,
           HallRead, HallDown, Filtered, Written, Lost, Full, Refused, Errs, Limited
  <2>2. round.kind = "fetch" /\ Writes(round) /\ entries' = Served(round)
    BY <2>1 DEF Finish
  <2>3. round.step = "delete"
    BY <2>2 DEF Writes, RoundsInv, Fits, Shape
  <2>4. Served(round) \subseteq account /\ account' = account
    BY <2>1, <2>2, <2>3 DEF Finish, providerVars, Served, RoundsInv, Fits, Deleting
  <2> QED
    BY <2>2, <2>4
<1> QED
  BY <1>1, RoundsInvariant, PTL DEF RoundsSpec, ServedKeysExist
=============================================================================

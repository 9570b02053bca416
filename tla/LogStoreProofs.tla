---------------------------- MODULE LogStoreProofs ----------------------------
(***************************************************************************)
(* Proofs about the log, its totals and its index, for any number of       *)
(* records, days, shards, deaths and I/O errors, if an append does not     *)
(* fail after the offset was taken (~LateErrors) and the files can be read *)
(* while the totals are counted anew ("rebuild" \notin ReadErrors).        *)
(*                                                                         *)
(* Every record has at most one line (OneLine), which no death, recovery   *)
(* or migration changes.  The totals, those on the disk and those of the   *)
(* process, divide the lines of a file at their offset: what lies before   *)
(* it is counted, what lies beyond is not (Divided).  So are the rows of   *)
(* the index by its progress, but for the dates whose files have become    *)
(* shorter (Indexed).                                                      *)
(***************************************************************************)
EXTENDS LogStore, FiniteSetTheorems, SequenceTheorems, WellFoundedInduction, TLAPS

Offsets == UNION {[S -> Nat] : S \in SUBSET Shard}

Totals == [count : [Ids -> {0, 1}], offsets : Offsets]

\* Between the ends of two lines there is a head.
Whole(cells) == \A p \in LineEnds(cells) : p > 1 /\ p - 1 \notin LineEnds(cells)

OneLine(fs) ==
    \A s, u \in DOMAIN fs : \A p \in LineEnds(fs[s]), q \in LineEnds(fs[u]) :
        fs[s][p][1] = fs[u][q][1] => s = u /\ p = q

\* A shard is there, or its whole day was removed and is over.
Kept(s, fs, now) == s \in DOMAIN fs \/ (s[1] < now /\ OfDate(s[1], DOMAIN fs) = {})

FilesAre(fs, now, n) ==
    /\ DOMAIN fs \subseteq Shard /\ \E b \in Nat : \A s \in DOMAIN fs : s[2] <= b
    /\ \A s \in DOMAIN fs :
          /\ s[1] <= now
          /\ fs[s] \in Seq(Cell) /\ Len(fs[s]) <= ShardCells /\ Whole(fs[s])
          /\ \A p \in LineEnds(fs[s]) : fs[s][p][1] <= n
    /\ OneLine(fs)

FilesFit == FilesAre(files, today, last)

\* An offset is 0 or the end of a line.
AtLines(offsets, fs) ==
    \A s \in DOMAIN fs : At(offsets, s) \in {0} \cup LineEnds(fs[s])

\* What lies before the offset is counted, what lies beyond is not.
Divided(t, fs) ==
    \A s \in DOMAIN fs : \A p \in LineEnds(fs[s]) :
        IF p <= At(t.offsets, s) THEN p \in Parsed(fs[s], 0) => t.count[fs[s][p][1]] = 1
                                 ELSE t.count[fs[s][p][1]] = 0

Fits(t, fs, now, n) ==
    /\ t \in Totals
    /\ \A s \in DOMAIN t.offsets : Kept(s, fs, now)
    /\ AtLines(t.offsets, fs) /\ Divided(t, fs)
    /\ \A id \in Ids : id > n => t.count[id] = 0

\* The totals on the disk and those of the process, which are behind only if it
\* failed to read the others.
TotalsFit ==
    /\ summary # <<>> => Fits(summary, files, today, last)
    /\ cache # <<>> => Fits(cache, files, today, last)
    /\ summary # <<>> /\ cache # <<>> /\ unread = {} =>
           \A id \in Ids : summary.count[id] <= cache.count[id]

Writing == pc \in {"appended", "indexed"}

\* The place of the record that is being written, if it has one.
InHand(s, p) == s = writing.shard /\ p = writing.offset

\* A record that is written is not yet counted.
WritingFits ==
    Writing =>
        /\ writing \in [id : 1..last, shard : DOMAIN files, offset : Nat]
        /\ cache.count[writing.id] = 0
        /\ writing.offset # 0 =>
              /\ writing.offset = Len(files[writing.shard])
              /\ files[writing.shard][writing.offset] = <<writing.id, "tail">>
        /\ writing.offset = 0 =>
              \A s \in DOMAIN files : \A p \in LineEnds(files[s]) :
                  files[s][p][1] # writing.id

\* A process counts every line but the one it writes.
AllCounted ==
    /\ cache = <<>> <=> pc = "down"
    /\ pc # "down" =>
          \A s \in DOMAIN files : \A p \in LineEnds(files[s]) :
              p <= At(cache.offsets, s) \/ (Writing /\ InHand(s, p))

Unchanged(s) == s[1] \notin ChangedDates

\* The rows of the index lie before its progress, each record once.
RowsFit ==
    /\ progress \in Offsets /\ \A s \in DOMAIN progress : Kept(s, files, today)
    /\ DOMAIN rows \subseteq Shard \X Nat
    /\ \A r \in DOMAIN rows : /\ r[1] \in DOMAIN progress /\ r[2] <= progress[r[1]]
                              /\ rows[r] \in 1..last
    /\ \A r, q \in DOMAIN rows : rows[r] = rows[q] => r = q

\* A row of a record is at its line; a migration moves lines within a day only.
RowsOfLines ==
    \A s \in DOMAIN files : \A p \in LineEnds(files[s]), r \in DOMAIN rows :
        /\ rows[r] = files[s][p][1] => r[1][1] = s[1]
        /\ Unchanged(s) => (rows[r] = files[s][p][1] <=> r = <<s, p>>)

\* A file that became shorter is not the last of its day: nothing is appended.
ShortFiles ==
    \A s \in DOMAIN files :
        At(progress, s) > Len(files[s]) => \E u \in DOMAIN files : u[1] = s[1] /\ u[2] > s[2]

RowsAreThere ==
    \A s \in DOMAIN files : Unchanged(s) =>
        /\ At(progress, s) \in {0} \cup LineEnds(files[s])
        /\ \A p \in Parsed(files[s], 0) : p <= At(progress, s) => <<s, p>> \in DOMAIN rows

Indexed == RowsFit /\ RowsOfLines /\ ShortFiles /\ RowsAreThere

\* While the index is in use, it lacks at most the record that is written.
InUse ==
    indexing =>
        /\ pc \in {"ready", "appended", "indexed"} /\ ChangedDates = {}
        /\ \A s \in DOMAIN files : \A p \in LineEnds(files[s]) :
               p <= At(progress, s) \/ (pc = "appended" /\ InHand(s, p))

Typed ==
    /\ pc \in {"down", "loaded", "cleaned", "saved", "ready", "appended", "indexed"}
    /\ indexing \in BOOLEAN /\ today \in Dates /\ last \in 0..MaxRecords
    /\ unread \subseteq ReadErrors

LogInv == Typed /\ FilesFit /\ TotalsFit /\ WritingFits /\ AllCounted /\ Indexed /\ InUse

-----------------------------------------------------------------------------
(* Naturals, sequences and lines *)

LEMMA LeastExists ==
    ASSUME NEW S \in SUBSET Nat, S # {}
    PROVE  \E m \in S : \A n \in S : m <= n
<1> DEFINE R == OpToRel(<, Nat)
<1>1. IsWellFoundedOn(R, Nat)
  BY NatLessThanWellFounded
<1>2. \A y, x \in Nat : <<y, x>> \in R <=> y < x
  BY DEF OpToRel
<1> HIDE DEF R
<1>3. \E x \in S : \A y \in S : ~ (<<y, x>> \in R)
  BY <1>1, WFMin
<1>4. PICK m \in S : \A n \in S : ~ (<<n, m>> \in R)
  BY <1>3
<1>5. \A n \in S : ~ (n < m) /\ n \in Nat /\ m \in Nat
  BY <1>2, <1>4
<1>6. \A n \in S : m <= n
  BY <1>5
<1> QED
  BY <1>6

LEMMA MaxIs ==
    ASSUME NEW S \in SUBSET Nat, S # {}, NEW b \in Nat, \A n \in S : n <= b
    PROVE  Max(S) \in S /\ \A n \in S : n <= Max(S)
<1> DEFINE T == {b - n : n \in S}
<1>1. T \in SUBSET Nat /\ T # {}
  OBVIOUS
<1>2. PICK m \in T : \A n \in T : m <= n
  BY <1>1, LeastExists
<1>3. PICK x \in S : m = b - x
  OBVIOUS
<1>4. \A y \in S : x >= y
  <2>1. TAKE y \in S
  <2>2. b - y \in T
    OBVIOUS
  <2>3. m <= b - y
    BY <1>2, <2>2
  <2> QED
    BY <1>3, <2>3
<1>5. Max(S) \in S /\ \A y \in S : Max(S) >= y
  BY <1>4 DEF Max
<1> QED
  BY <1>5

LEMMA MinIs ==
    ASSUME NEW S \in SUBSET Nat, S # {}
    PROVE  Min(S) \in S /\ \A n \in S : Min(S) <= n
BY LeastExists DEF Min

\* The ends of lines are places of the file, and their cells name a record.
LEMMA EndsAre ==
    ASSUME NEW cells \in Seq(Cell)
    PROVE  /\ Len(cells) \in Nat
           /\ \A p : p \in LineEnds(cells) <=> p \in 1..Len(cells) /\ cells[p][2] = "tail"
           /\ \A p \in LineEnds(cells) : /\ p \in Nat \ {0} /\ p <= Len(cells)
                                         /\ cells[p] \in Cell /\ cells[p][1] \in Ids
<1>1. Len(cells) \in Nat /\ DOMAIN cells = 1..Len(cells)
  BY LenProperties
<1>2. \A p \in 1..Len(cells) : cells[p] \in Cell
  BY ElementOfSeq
<1>3. \A p : p \in LineEnds(cells) <=> p \in 1..Len(cells) /\ cells[p][2] = "tail"
  BY <1>1 DEF LineEnds
<1>4. \A p \in LineEnds(cells) : cells[p] \in Cell
  BY <1>2, <1>3
<1>5. \A c \in Cell : c[1] \in Ids
  BY DEF Cell
<1> QED
  BY <1>1, <1>3, <1>4, <1>5

\* Which lines are read from the end of a line does not depend on which.
LEMMA ParsedIs ==
    ASSUME NEW cells \in Seq(Cell), Whole(cells), NEW from \in {0} \cup LineEnds(cells)
    PROVE  /\ Parsed(cells, 0) = {p \in LineEnds(cells) : p = 2 \/ p - 2 \in LineEnds(cells)}
           /\ Parsed(cells, from) = {p \in Parsed(cells, 0) : p > from}
<1>1. \A p \in LineEnds(cells) : p \in Nat \ {0} /\ p <= Len(cells)
  BY EndsAre
<1>2. \A p \in LineEnds(cells) : p > 1 /\ p - 1 \notin LineEnds(cells)
  BY DEF Whole
<1>3. Parsed(cells, 0) = {p \in LineEnds(cells) : p = 2 \/ p - 2 \in LineEnds(cells)}
  BY <1>1 DEF Parsed
<1>4. ASSUME NEW p \in LineEnds(cells)
      PROVE  p = from + 2 \/ (p > from + 2 /\ p - 2 \in LineEnds(cells))
             <=> (p = 2 \/ p - 2 \in LineEnds(cells)) /\ p > from
  <2>1. CASE from = 0
    BY <1>1, <2>1
  <2>2. CASE from \in LineEnds(cells)
    <3>1. p # from + 1
      BY <1>1, <1>2, <2>2
    <3>2. from > 1
      BY <1>2, <2>2
    <3>3. p = from + 2 => p - 2 \in LineEnds(cells)
      BY <1>1, <2>2
    <3> QED
      BY <1>1, <2>2, <3>1, <3>2, <3>3
  <2> QED
    BY <2>1, <2>2
<1> QED
  BY <1>3, <1>4 DEF Parsed

\* Where a reading from the end of a line stops: behind all lines.
LEMMA SafeEndIs ==
    ASSUME NEW cells \in Seq(Cell), NEW from \in {0} \cup LineEnds(cells)
    PROVE  /\ SafeEnd(cells, from) \in {0} \cup LineEnds(cells)
           /\ from <= SafeEnd(cells, from)
           /\ \A p \in LineEnds(cells) : p <= SafeEnd(cells, from)
<1> DEFINE S == {from} \cup {p \in LineEnds(cells) : p > from}
<1>1. /\ \A p \in LineEnds(cells) : p \in Nat \ {0} /\ p <= Len(cells)
      /\ Len(cells) \in Nat
  BY EndsAre
<1>2. S \in SUBSET Nat /\ S # {} /\ \A n \in S : n <= Len(cells)
  BY <1>1
<1>3. Max(S) \in S /\ \A n \in S : n <= Max(S)
  BY <1>1, <1>2, MaxIs
<1>4. \A p \in LineEnds(cells) : p <= Max(S)
  <2>1. TAKE p \in LineEnds(cells)
  <2>2. CASE p > from
    BY <1>3, <2>2
  <2>3. CASE p <= from
    BY <1>1, <1>2, <1>3, <2>3
  <2> QED
    BY <1>1, <2>2, <2>3
<1>5. SafeEnd(cells, from) = Max(S)
  BY DEF SafeEnd
<1> QED
  BY <1>3, <1>4, <1>5
-----------------------------------------------------------------------------
(* Files that grow *)

\* An append: a whole payload, or less than a line.
Grown(old, new, id) ==
    /\ new \in Seq(Cell) /\ Len(old) <= Len(new) /\ Len(new) <= Len(old) + 2
    /\ \A p \in 1..Len(old) : new[p] = old[p]
    /\ \/ LineEnds(new) = LineEnds(old)
       \/ /\ Len(new) = Len(old) + 2
          /\ LineEnds(new) = LineEnds(old) \cup {Len(new)}
          /\ new[Len(new)] = <<id, "tail">>

Grew(fs, gs, w, id) ==
    /\ DOMAIN gs = DOMAIN fs \cup {w}
    /\ \A s \in DOMAIN fs \ {w} : gs[s] = fs[s]
    /\ w \in DOMAIN fs => Grown(fs[w], gs[w], id)
    /\ w \notin DOMAIN fs => Grown(<<>>, gs[w], id)

\* What is appended to a file.
LEMMA AppendGrows ==
    ASSUME NEW cells \in Seq(Cell), NEW id \in Ids, NEW torn \in {0, 1}
    PROVE  /\ Grown(cells, cells \o Payload(id), id)
           /\ Len(cells \o Payload(id)) = Len(cells) + 2
           /\ (cells \o Payload(id))[Len(cells) + 2] = <<id, "tail">>
           /\ Grown(cells, cells \o SubSeq(Payload(id), 1, torn), id)
           /\ LineEnds(cells \o SubSeq(Payload(id), 1, torn)) = LineEnds(cells)
<1> DEFINE head == <<id, "head">>
           tail == <<id, "tail">>
           rest == SubSeq(Payload(id), 1, torn)
<1>1. head \in Cell /\ tail \in Cell
  BY DEF Cell
<1>2. /\ Payload(id) \in Seq(Cell) /\ Len(Payload(id)) = 2
      /\ Payload(id)[1] = head /\ Payload(id)[2] = tail
  BY <1>1 DEF Payload
<1>3. /\ rest \in Seq(Cell) /\ Len(rest) = torn
      /\ \A i \in 1..torn : rest[i] = head
  <2>1. \A i \in 1..torn : Payload(id)[i] \in Cell
    BY <1>1, <1>2
  <2>2. /\ rest \in Seq(Cell)
        /\ Len(rest) = IF 1 <= torn THEN torn - 1 + 1 ELSE 0
        /\ \A i \in 1..(torn - 1 + 1) : rest[i] = Payload(id)[1 + i - 1]
    <3> HIDE DEF Payload
    <3> QED
      BY <2>1, SubSeqProperties
  <2> QED
    BY <1>2, <2>2
<1> HIDE DEF rest, head, tail
<1>4. Len(cells) \in Nat
  BY LenProperties
<1>5. ASSUME NEW more \in Seq(Cell), Len(more) \in 0..2
      PROVE  /\ cells \o more \in Seq(Cell) /\ Len(cells \o more) = Len(cells) + Len(more)
             /\ \A p \in 1..Len(cells) : (cells \o more)[p] = cells[p]
             /\ \A i \in 1..Len(more) : (cells \o more)[Len(cells) + i] = more[i]
  <2>1. /\ cells \o more \in Seq(Cell) /\ Len(cells \o more) = Len(cells) + Len(more)
        /\ \A i \in 1..Len(cells) + Len(more) :
              (cells \o more)[i] = IF i <= Len(cells) THEN cells[i] ELSE more[i - Len(cells)]
    BY ConcatProperties
  <2>2. ASSUME NEW i \in 1..Len(more)
        PROVE  (cells \o more)[Len(cells) + i] = more[i]
    <3>1. Len(cells) + i \in 1..Len(cells) + Len(more) /\ ~ (Len(cells) + i <= Len(cells))
          /\ Len(cells) + i - Len(cells) = i
      BY <1>4, <1>5
    <3> QED
      BY <2>1, <3>1
  <2>3. ASSUME NEW p \in 1..Len(cells)
        PROVE  (cells \o more)[p] = cells[p]
    <3>1. p \in 1..Len(cells) + Len(more) /\ p <= Len(cells)
      BY <1>4, <1>5
    <3> QED
      BY <2>1, <3>1
  <2> QED
    BY <2>1, <2>2, <2>3
<1>6. ASSUME NEW more \in Seq(Cell), Len(more) \in 0..2,
             \A i \in 1..Len(more) : i # 2 => more[i] = head
      PROVE  LineEnds(cells \o more) = LineEnds(cells) \cup
                 {p \in {Len(cells) + 2} : Len(more) = 2 /\ more[2][2] = "tail"}
  <2> DEFINE new == cells \o more
  <2>1. /\ new \in Seq(Cell) /\ Len(new) = Len(cells) + Len(more)
        /\ \A p \in 1..Len(cells) : new[p] = cells[p]
        /\ \A i \in 1..Len(more) : new[Len(cells) + i] = more[i]
    BY <1>5, <1>6
  <2> HIDE DEF new
  <2>2. \A p : p \in LineEnds(new) <=> p \in 1..Len(new) /\ new[p][2] = "tail"
    BY <2>1, EndsAre
  <2>3. \A p : p \in LineEnds(cells) <=> p \in 1..Len(cells) /\ cells[p][2] = "tail"
    BY EndsAre
  <2>4. head[2] # "tail"
    BY DEF head
  <2>5. ASSUME NEW p \in 1..Len(new), p \notin 1..Len(cells)
        PROVE  /\ p = Len(cells) + 1 \/ p = Len(cells) + 2
               /\ p = Len(cells) + 1 => new[p] = head
               /\ p = Len(cells) + 2 => Len(more) = 2 /\ new[p] = more[2]
    <3>1. Len(new) = Len(cells) + Len(more) /\ Len(more) \in 0..2
      BY <1>6, <2>1
    <3>2. \/ p = Len(cells) + 1 /\ 1 \in 1..Len(more)
          \/ p = Len(cells) + 2 /\ Len(more) = 2
      <4>1. p \in Nat /\ Len(cells) < p /\ p <= Len(cells) + Len(more)
        BY <1>4, <2>5, <3>1
      <4>2. CASE Len(more) = 2
        BY <1>4, <4>1, <4>2
      <4>3. CASE Len(more) = 1
        <5>1. p = Len(cells) + 1
          BY <1>4, <4>1, <4>3
        <5> QED
          BY <4>3, <5>1
      <4>4. CASE Len(more) = 0
        BY <1>4, <4>1, <4>4
      <4> QED
        BY <3>1, <4>2, <4>3, <4>4
    <3> QED
      BY <1>4, <1>6, <2>1, <3>2
  <2>6. ASSUME NEW p \in LineEnds(new)
        PROVE  p \in LineEnds(cells) \/ (p = Len(cells) + 2 /\ Len(more) = 2 /\ more[2][2] = "tail")
    BY <2>1, <2>2, <2>3, <2>4, <2>5, <2>6
  <2>7. LineEnds(cells) \subseteq LineEnds(new)
    BY <1>4, <1>6, <2>1, <2>2, <2>3
  <2>8. Len(more) = 2 /\ more[2][2] = "tail" => Len(cells) + 2 \in LineEnds(new)
    BY <1>4, <2>1, <2>2
  <2> QED
    BY <2>6, <2>7, <2>8 DEF new
<1>7. tail[2] = "tail" /\ tail = <<id, "tail">>
  BY DEF tail
<1>8. /\ Len(cells \o Payload(id)) = Len(cells) + 2
      /\ (cells \o Payload(id))[Len(cells) + 2] = tail
      /\ LineEnds(cells \o Payload(id)) = LineEnds(cells) \cup {Len(cells) + 2}
  <2>1. \A i \in 1..2 : i # 2 => Payload(id)[i] = head
    BY <1>2
  <2> HIDE DEF Payload
  <2>2. Len(cells \o Payload(id)) = Len(cells) + 2
        /\ (cells \o Payload(id))[Len(cells) + 2] = tail
    <3>1. /\ Len(cells \o Payload(id)) = Len(cells) + Len(Payload(id))
          /\ \A i \in 1..Len(Payload(id)) :
                 (cells \o Payload(id))[Len(cells) + i] = Payload(id)[i]
      <4>1. Len(Payload(id)) \in 0..2 /\ Payload(id) \in Seq(Cell)
        BY <1>2
      <4> QED
        BY <1>5, <4>1
    <3>2. 2 \in 1..Len(Payload(id))
      BY <1>2
    <3> QED
      BY <1>2, <3>1, <3>2
  <2>3. LineEnds(cells \o Payload(id)) = LineEnds(cells) \cup
                 {p \in {Len(cells) + 2} : Len(Payload(id)) = 2 /\ Payload(id)[2][2] = "tail"}
    BY <1>2, <1>6, <2>1
  <2> QED
    BY <1>2, <1>7, <2>2, <2>3
<1>9. /\ Len(cells \o rest) = Len(cells) + torn
      /\ LineEnds(cells \o rest) = LineEnds(cells)
  <2>1. Len(rest) \in 0..2 /\ Len(rest) # 2 /\ \A i \in 1..Len(rest) : i # 2 => rest[i] = head
    BY <1>3
  <2>2. LineEnds(cells \o rest) = LineEnds(cells) \cup
                 {p \in {Len(cells) + 2} : Len(rest) = 2 /\ rest[2][2] = "tail"}
    BY <1>3, <1>6, <2>1
  <2> QED
    BY <1>3, <1>5, <2>1, <2>2
<1>10. Grown(cells, cells \o Payload(id), id)
  BY <1>2, <1>4, <1>5, <1>7, <1>8 DEF Grown
<1>11. Grown(cells, cells \o rest, id)
  BY <1>3, <1>4, <1>5, <1>9 DEF Grown
<1> QED
  BY <1>7, <1>8, <1>9, <1>10, <1>11 DEF rest
LEMMA ShardsAre == \A s \in Shard : s[1] \in Nat /\ s[2] \in Nat /\ s = <<s[1], s[2]>>
<1>1. Dates \subseteq Nat
  BY LogStoreAssumption DEF Dates
<1>2. ASSUME NEW s \in Shard
      PROVE  s[1] \in Nat /\ s[2] \in Nat /\ s = <<s[1], s[2]>>
  <2>1. s[1] \in Dates /\ s[2] \in Nat /\ s = <<s[1], s[2]>>
    BY DEF Shard
  <2> QED
    BY <1>1, <2>1
<1> QED
  BY <1>2

\* An offset at the most is a place.
LEMMA OffsetsAre ==
    ASSUME NEW offsets \in Offsets, NEW s
    PROVE  /\ DOMAIN offsets \subseteq Shard
           /\ At(offsets, s) \in Nat
           /\ s \in DOMAIN offsets => At(offsets, s) = offsets[s] /\ offsets[s] \in Nat
           /\ s \notin DOMAIN offsets => At(offsets, s) = 0
<1>1. PICK S \in SUBSET Shard : offsets \in [S -> Nat]
  BY DEF Offsets
<1> QED
  BY <1>1 DEF At

LEMMA PutOffset ==
    ASSUME NEW offsets \in Offsets, NEW s \in Shard, NEW n \in Nat
    PROVE  /\ Put(offsets, s, n) \in Offsets
           /\ DOMAIN Put(offsets, s, n) = DOMAIN offsets \cup {s}
           /\ \A u : At(Put(offsets, s, n), u) = IF u = s THEN n ELSE At(offsets, u)
<1>1. PICK S \in SUBSET Shard : offsets \in [S -> Nat]
  BY DEF Offsets
<1>2. Put(offsets, s, n) \in [S \cup {s} -> Nat]
  BY <1>1 DEF Put
<1>3. S \cup {s} \in SUBSET Shard
  BY <1>1
<1> QED
  BY <1>1, <1>2, <1>3 DEF Offsets, Put, At

\* Totals are not "no totals".
LEMMA TotalsAre ==
    ASSUME NEW t \in Totals
    PROVE  /\ t # <<>>
           /\ t.offsets \in Offsets
           /\ \A id \in Ids : t.count[id] \in {0, 1}
           /\ t.count \in [Ids -> {0, 1}]
           /\ t = [count |-> t.count, offsets |-> t.offsets]
<1>1. DOMAIN t = {"count", "offsets"}
  BY DEF Totals
<1>2. DOMAIN <<>> = {}
  <2>1. <<>> \in Seq(Nat) /\ Len(<<>>) = 0
    BY EmptySeq
  <2> QED
    BY <2>1, LenProperties
<1>3. t # <<>>
  BY <1>1, <1>2
<1> QED
  BY <1>3 DEF Totals

\* The lines of files of which one grew.
LEMMA GrewLines ==
    ASSUME NEW fs, NEW gs, NEW w, NEW id \in Ids, NEW now, NEW n,
           FilesAre(fs, now, n), Grew(fs, gs, w, id)
    PROVE  /\ \A s \in DOMAIN gs :
                 /\ gs[s] \in Seq(Cell) /\ Whole(gs[s])
                 /\ \A p \in LineEnds(gs[s]) :
                       \/ /\ s \in DOMAIN fs /\ p \in LineEnds(fs[s]) /\ gs[s][p] = fs[s][p]
                          /\ p \in Parsed(gs[s], 0) => p \in Parsed(fs[s], 0)
                       \/ /\ s = w /\ p = Len(gs[w]) /\ gs[s][p] = <<id, "tail">>
                          /\ w \in DOMAIN fs => p > Len(fs[w])
           /\ \A s \in DOMAIN fs :
                 /\ s \in DOMAIN gs /\ Len(fs[s]) <= Len(gs[s])
                 /\ \A p \in LineEnds(fs[s]) : p \in LineEnds(gs[s]) /\ gs[s][p] = fs[s][p]
<1> DEFINE Same(old, new) ==
             /\ new \in Seq(Cell) /\ Whole(new) /\ Len(old) <= Len(new)
             /\ \A p \in LineEnds(old) : p \in LineEnds(new) /\ new[p] = old[p]
             /\ \A p \in LineEnds(new) :
                   \/ /\ p \in LineEnds(old) /\ new[p] = old[p]
                      /\ p \in Parsed(new, 0) => p \in Parsed(old, 0)
                   \/ p = Len(new) /\ new[p] = <<id, "tail">> /\ p > Len(old)
<1>1. ASSUME NEW old \in Seq(Cell), Whole(old), NEW new, Grown(old, new, id)
      PROVE  Same(old, new)
  <2>1. /\ new \in Seq(Cell) /\ Len(old) <= Len(new)
        /\ \A p \in 1..Len(old) : new[p] = old[p]
        /\ \/ LineEnds(new) = LineEnds(old)
           \/ /\ Len(new) = Len(old) + 2
              /\ LineEnds(new) = LineEnds(old) \cup {Len(new)}
              /\ new[Len(new)] = <<id, "tail">>
    BY <1>1 DEF Grown
  <2>2. /\ Len(old) \in Nat /\ Len(new) \in Nat
        /\ \A p \in LineEnds(old) : p \in Nat \ {0} /\ p <= Len(old) /\ p \in 1..Len(old)
        /\ \A p \in LineEnds(new) : p \in Nat \ {0}
    BY <2>1, EndsAre
  <2>3. \A p \in LineEnds(old) : p > 1 /\ p - 1 \notin LineEnds(old)
    BY <1>1 DEF Whole
  <2>4. Whole(new)
    <3>1. CASE LineEnds(new) = LineEnds(old)
      BY <2>3, <3>1 DEF Whole
    <3>2. CASE LineEnds(new) = LineEnds(old) \cup {Len(new)} /\ Len(new) = Len(old) + 2
      <4>1. ASSUME NEW p \in LineEnds(new)
            PROVE  p > 1 /\ p - 1 \notin LineEnds(new)
        <5>1. CASE p \in LineEnds(old)
          BY <2>2, <2>3, <3>2, <5>1
        <5>2. CASE p = Len(old) + 2
          BY <2>2, <3>2, <5>2
        <5> QED
          BY <3>2, <5>1, <5>2
      <4> QED
        BY <4>1 DEF Whole
    <3> QED
      BY <2>1, <3>1, <3>2
  <2>5. \A p \in LineEnds(old) : p \in LineEnds(new) /\ new[p] = old[p]
    BY <2>1, <2>2
  <2>6. Parsed(old, 0) = {p \in LineEnds(old) : p = 2 \/ p - 2 \in LineEnds(old)}
    BY <1>1, ParsedIs
  <2>7. Parsed(new, 0) = {p \in LineEnds(new) : p = 2 \/ p - 2 \in LineEnds(new)}
    BY <2>1, <2>4, ParsedIs
  <2>8. ASSUME NEW p \in LineEnds(old), p \in Parsed(new, 0)
        PROVE  p \in Parsed(old, 0)
    <3>1. p = 2 \/ p - 2 \in LineEnds(new)
      BY <2>7, <2>8
    <3>2. CASE p - 2 \in LineEnds(new)
      <4>1. p - 2 <= Len(old) /\ p <= Len(old)
        BY <2>2
      <4>2. p - 2 \in LineEnds(old)
        BY <2>1, <2>2, <3>2, <4>1
      <4> QED
        BY <2>6, <4>2
    <3> QED
      BY <2>6, <3>1, <3>2
  <2>9. ASSUME NEW p \in LineEnds(new), p \notin LineEnds(old)
        PROVE  p = Len(new) /\ new[p] = <<id, "tail">> /\ p > Len(old)
    BY <2>1, <2>2, <2>9
  <2> QED
    BY <2>1, <2>4, <2>5, <2>8, <2>9
<1>2. /\ DOMAIN gs = DOMAIN fs \cup {w}
      /\ \A s \in DOMAIN fs : s # w => gs[s] = fs[s]
      /\ w \in DOMAIN fs => Grown(fs[w], gs[w], id)
      /\ w \notin DOMAIN fs => Grown(<<>>, gs[w], id)
  BY DEF Grew
<1>3. \A s \in DOMAIN fs : fs[s] \in Seq(Cell) /\ Whole(fs[s])
  BY DEF FilesAre
<1>4. /\ <<>> \in Seq(Cell) /\ Len(<<>>) = 0 /\ LineEnds(<<>>) = {} /\ Whole(<<>>)
  <2>1. <<>> \in Seq(Cell) /\ Len(<<>>) = 0
    BY EmptySeq
  <2>2. \A p : p \in LineEnds(<<>>) <=> p \in 1..Len(<<>>) /\ <<>>[p][2] = "tail"
    BY <2>1, EndsAre
  <2> QED
    BY <2>1, <2>2 DEF Whole
<1>5. w \in DOMAIN fs => Same(fs[w], gs[w])
  BY <1>1, <1>2, <1>3
<1>6. w \notin DOMAIN fs => Same(<<>>, gs[w])
  BY <1>1, <1>2, <1>4
<1>7. \A s \in DOMAIN fs : Len(fs[s]) \in Nat
  BY <1>3, EndsAre
<1>8. ASSUME NEW s \in DOMAIN gs
      PROVE  /\ gs[s] \in Seq(Cell) /\ Whole(gs[s])
             /\ \A p \in LineEnds(gs[s]) :
                   \/ /\ s \in DOMAIN fs /\ p \in LineEnds(fs[s]) /\ gs[s][p] = fs[s][p]
                      /\ p \in Parsed(gs[s], 0) => p \in Parsed(fs[s], 0)
                   \/ /\ s = w /\ p = Len(gs[w]) /\ gs[s][p] = <<id, "tail">>
                      /\ w \in DOMAIN fs => p > Len(fs[w])
  <2>1. CASE s # w
    BY <1>2, <1>3, <2>1
  <2>2. CASE s = w /\ w \in DOMAIN fs
    BY <1>5, <2>2
  <2>3. CASE s = w /\ w \notin DOMAIN fs
    BY <1>4, <1>6, <2>3
  <2> QED
    BY <2>1, <2>2, <2>3
<1>9. ASSUME NEW s \in DOMAIN fs
      PROVE  /\ s \in DOMAIN gs /\ Len(fs[s]) <= Len(gs[s])
             /\ \A p \in LineEnds(fs[s]) : p \in LineEnds(gs[s]) /\ gs[s][p] = fs[s][p]
  <2>1. CASE s # w
    BY <1>2, <1>7, <2>1
  <2>2. CASE s = w
    BY <1>2, <1>5, <2>2
  <2> QED
    BY <2>1, <2>2
<1> QED
  BY <1>8, <1>9
\* A shard of today, if it is there at all, has not been removed.
LEMMA NewFile ==
    ASSUME NEW fs, NEW w, NEW now \in Nat, w[1] = now, w \notin DOMAIN fs
    PROVE  ~ Kept(w, fs, now)
BY DEF Kept

LEMMA KeptGrew ==
    ASSUME NEW fs, NEW gs, NEW w, NEW now \in Nat, w[1] = now,
           DOMAIN gs = DOMAIN fs \cup {w},
           NEW s \in Shard, Kept(s, fs, now)
    PROVE  Kept(s, gs, now)
<1>1. CASE s \in DOMAIN fs
  BY <1>1 DEF Kept
<1>2. CASE s[1] < now /\ OfDate(s[1], DOMAIN fs) = {}
  <2>1. s[1] # w[1]
    BY <1>2, ShardsAre
  <2>2. OfDate(s[1], DOMAIN gs) = {}
    BY <1>2, <2>1 DEF OfDate
  <2> QED
    BY <1>2, <2>2 DEF Kept
<1> QED
  BY <1>1, <1>2 DEF Kept

LEMMA FilesGrew ==
    ASSUME NEW fs, NEW gs, NEW w \in Shard, NEW now \in Nat, NEW n \in Nat, w[1] = now,
           n + 1 \in Ids, FilesAre(fs, now, n), Grew(fs, gs, w, n + 1), Len(gs[w]) <= ShardCells
    PROVE  FilesAre(gs, now, n + 1)
<1>1. /\ \A s \in DOMAIN gs :
            /\ gs[s] \in Seq(Cell) /\ Whole(gs[s])
            /\ \A p \in LineEnds(gs[s]) :
                  \/ s \in DOMAIN fs /\ p \in LineEnds(fs[s]) /\ gs[s][p] = fs[s][p]
                  \/ s = w /\ p = Len(gs[w]) /\ gs[s][p] = <<n + 1, "tail">>
  BY GrewLines
<1>2. /\ DOMAIN gs = DOMAIN fs \cup {w}
      /\ \A s \in DOMAIN fs : s # w => gs[s] = fs[s]
  BY DEF Grew
<1>3. /\ DOMAIN fs \subseteq Shard
      /\ \A s \in DOMAIN fs :
          /\ s[1] <= now /\ fs[s] \in Seq(Cell) /\ Len(fs[s]) <= ShardCells
          /\ \A p \in LineEnds(fs[s]) : fs[s][p][1] <= n
  BY DEF FilesAre
<1>4. \A s \in DOMAIN fs : \A p \in LineEnds(fs[s]) :
          fs[s][p][1] \in Nat /\ fs[s][p][1] <= n /\ fs[s][p][1] # n + 1
  <2>1. \A s \in DOMAIN fs : \A p \in LineEnds(fs[s]) : fs[s][p][1] \in Ids
    BY <1>3, EndsAre
  <2>2. Ids \subseteq Nat
    BY LogStoreAssumption DEF Ids
  <2>3. ASSUME NEW i \in Ids, i <= n
        PROVE  i \in Nat /\ i # n + 1
    BY <2>2, <2>3
  <2> QED
    BY <1>3, <2>1, <2>3
<1>5. DOMAIN gs \subseteq Shard /\ \E b \in Nat : \A s \in DOMAIN gs : s[2] <= b
  <2>1. PICK b \in Nat : \A s \in DOMAIN fs : s[2] <= b
    BY DEF FilesAre
  <2>2. \A s \in DOMAIN gs : s[2] \in Nat /\ s[2] <= b + w[2]
    <3>1. DOMAIN gs \subseteq Shard
      BY <1>2, <1>3
    <3>2. w[2] \in Nat /\ \A s \in DOMAIN gs : s[2] \in Nat
      BY <3>1, ShardsAre
    <3>3. \A s \in DOMAIN gs : s[2] <= b + w[2]
      BY <1>2, <2>1, <3>2
    <3> QED
      BY <3>2, <3>3
  <2>3. b + w[2] \in Nat
    BY ShardsAre
  <2> QED
    BY <1>2, <1>3, <2>2, <2>3
<1>6. \A s \in DOMAIN gs : s[1] <= now /\ Len(gs[s]) <= ShardCells
  BY <1>2, <1>3
<1>7. \A s \in DOMAIN gs : \A p \in LineEnds(gs[s]) : gs[s][p][1] <= n + 1
  <2>1. TAKE s \in DOMAIN gs
  <2>2. TAKE p \in LineEnds(gs[s])
  <2>3. CASE s \in DOMAIN fs /\ p \in LineEnds(fs[s]) /\ gs[s][p] = fs[s][p]
    BY <1>4, <2>3
  <2>4. CASE gs[s][p] = <<n + 1, "tail">>
    BY <2>4
  <2> QED
    BY <1>1, <2>3, <2>4
<1>8. OneLine(gs)
  <2>1. SUFFICES ASSUME NEW s \in DOMAIN gs, NEW u \in DOMAIN gs,
                        NEW p \in LineEnds(gs[s]), NEW q \in LineEnds(gs[u]),
                        gs[s][p][1] = gs[u][q][1]
                 PROVE  s = u /\ p = q
    BY DEF OneLine
  <2> DEFINE Old(v, x) == v \in DOMAIN fs /\ x \in LineEnds(fs[v]) /\ gs[v][x] = fs[v][x]
             New(v, x) == v = w /\ x = Len(gs[w]) /\ gs[v][x][1] = n + 1
  <2>2. (Old(s, p) \/ New(s, p)) /\ (Old(u, q) \/ New(u, q))
    <3>1. \A c : c = <<n + 1, "tail">> => c[1] = n + 1
      OBVIOUS
    <3> QED
      BY <1>1, <3>1
  <2>3. CASE Old(s, p) /\ Old(u, q)
    <3>1. OneLine(fs)
      BY DEF FilesAre
    <3> QED
      BY <2>1, <2>3, <3>1 DEF OneLine
  <2>4. CASE New(s, p) /\ New(u, q)
    BY <2>4
  <2>5. CASE Old(s, p) /\ New(u, q)
    BY <1>4, <2>1, <2>5
  <2>6. CASE New(s, p) /\ Old(u, q)
    BY <1>4, <2>1, <2>6
  <2> QED
    BY <2>2, <2>3, <2>4, <2>5, <2>6
<1> QED
  BY <1>1, <1>5, <1>6, <1>7, <1>8 DEF FilesAre

\* What is appended is not counted, and lies beyond every offset.
LEMMA FitsGrew ==
    ASSUME NEW fs, NEW gs, NEW w \in Shard, NEW now \in Nat, NEW n \in Nat, w[1] = now,
           n + 1 \in Ids, FilesAre(fs, now, n), Grew(fs, gs, w, n + 1),
           NEW t, Fits(t, fs, now, n)
    PROVE  Fits(t, gs, now, n + 1)
<1>1. /\ t \in Totals /\ \A s \in DOMAIN t.offsets : Kept(s, fs, now)
      /\ AtLines(t.offsets, fs) /\ Divided(t, fs)
      /\ \A id \in Ids : id > n => t.count[id] = 0
  BY DEF Fits
<1>2. /\ \A s \in DOMAIN gs :
             /\ gs[s] \in Seq(Cell) /\ Whole(gs[s])
             /\ \A p \in LineEnds(gs[s]) :
                   \/ /\ s \in DOMAIN fs /\ p \in LineEnds(fs[s]) /\ gs[s][p] = fs[s][p]
                      /\ p \in Parsed(gs[s], 0) => p \in Parsed(fs[s], 0)
                   \/ /\ s = w /\ p = Len(gs[w]) /\ gs[s][p] = <<n + 1, "tail">>
                      /\ w \in DOMAIN fs => p > Len(fs[w])
      /\ \A s \in DOMAIN fs : \A p \in LineEnds(fs[s]) : p \in LineEnds(gs[s])
  BY GrewLines
<1>3. /\ DOMAIN gs = DOMAIN fs \cup {w} /\ DOMAIN fs \subseteq Shard
      /\ \A s \in DOMAIN fs : fs[s] \in Seq(Cell)
  BY DEF Grew, FilesAre
<1>4. t.offsets \in Offsets
  BY <1>1, TotalsAre
<1>5. \A s : At(t.offsets, s) \in Nat
  BY <1>4, OffsetsAre
<1>6. \A s \in DOMAIN gs : s \notin DOMAIN fs => At(t.offsets, s) = 0
  <2>1. w \notin DOMAIN fs => w \notin DOMAIN t.offsets
    BY <1>1, NewFile
  <2> QED
    BY <1>3, <2>1 DEF At
<1>7. \A s \in DOMAIN t.offsets : Kept(s, gs, now)
  <2>1. DOMAIN t.offsets \subseteq Shard
    BY <1>4, OffsetsAre
  <2> QED
    BY <1>1, <1>3, <2>1, KeptGrew
<1>8. AtLines(t.offsets, gs)
  BY <1>1, <1>2, <1>6 DEF AtLines
<1>9. Divided(t, gs)
  <2>1. SUFFICES ASSUME NEW s \in DOMAIN gs, NEW p \in LineEnds(gs[s])
                 PROVE  IF p <= At(t.offsets, s)
                        THEN p \in Parsed(gs[s], 0) => t.count[gs[s][p][1]] = 1
                        ELSE t.count[gs[s][p][1]] = 0
    BY DEF Divided
  <2>2. CASE /\ s \in DOMAIN fs /\ p \in LineEnds(fs[s]) /\ gs[s][p] = fs[s][p]
             /\ p \in Parsed(gs[s], 0) => p \in Parsed(fs[s], 0)
    BY <1>1, <2>2 DEF Divided
  <2>3. CASE /\ s = w /\ gs[s][p] = <<n + 1, "tail">>
             /\ w \in DOMAIN fs => p > Len(fs[w])
    <3>1. p \in Nat \ {0}
      BY <1>2, EndsAre
    <3>2. ~ (p <= At(t.offsets, s))
      <4>1. CASE w \in DOMAIN fs
        <5>1. At(t.offsets, w) \in {0} \cup LineEnds(fs[w])
          BY <1>1, <4>1 DEF AtLines
        <5>2. Len(fs[w]) \in Nat /\ \A q \in LineEnds(fs[w]) : q \in Nat /\ q <= Len(fs[w])
          BY <1>3, <4>1, EndsAre
        <5>3. At(t.offsets, w) <= Len(fs[w])
          BY <5>1, <5>2
        <5> QED
          BY <1>5, <2>3, <3>1, <4>1, <5>2, <5>3
      <4>2. CASE w \notin DOMAIN fs
        BY <1>6, <2>3, <3>1, <4>2
      <4> QED
        BY <4>1, <4>2
    <3>3. gs[s][p][1] = n + 1
      BY <2>3
    <3>4. t.count[n + 1] = 0
      BY <1>1
    <3> QED
      BY <3>2, <3>3, <3>4
  <2> QED
    BY <1>2, <2>2, <2>3
<1>10. ASSUME NEW id \in Ids, id > n + 1
       PROVE  t.count[id] = 0
  <2>1. id \in Nat
    BY LogStoreAssumption DEF Ids
  <2>2. id > n
    BY <1>10, <2>1
  <2> QED
    BY <1>1, <2>2
<1> QED
  BY <1>1, <1>7, <1>8, <1>9, <1>10 DEF Fits
-----------------------------------------------------------------------------
(* An append *)

\* The file that is written to is the last of today, and has room.
LEMMA FileOfToday ==
    ASSUME Typed, FilesFit
    PROVE  /\ WriteFilename \in Shard /\ WriteFilename[1] = today
           /\ \A s \in DOMAIN files : s[1] = today => s[2] <= WriteFilename[2]
           /\ Size(WriteFilename) \in Nat /\ Size(WriteFilename) + 2 <= ShardCells
<1> DEFINE S == {0} \cup {s[2] : s \in OfDate(today, DOMAIN files)}
<1>1. /\ DOMAIN files \subseteq Shard /\ today \in Dates
      /\ \A s \in DOMAIN files : files[s] \in Seq(Cell) /\ Len(files[s]) <= ShardCells
  BY DEF FilesFit, FilesAre, Typed
<1>2. PICK b \in Nat : \A s \in DOMAIN files : s[2] <= b
  BY DEF FilesFit, FilesAre
<1>3. \A s \in DOMAIN files : s[2] \in Nat
  BY <1>1, ShardsAre
<1>4. S \in SUBSET Nat /\ S # {} /\ \A i \in S : i <= b
  BY <1>2, <1>3 DEF OfDate
<1>5. Max(S) \in S /\ \A i \in S : i <= Max(S)
  BY <1>4, MaxIs
<1> DEFINE m == Max(S)
<1>6. m \in Nat /\ \A s \in DOMAIN files : s[1] = today => s[2] <= m
  <2>1. \A s \in DOMAIN files : s[1] = today => s[2] \in S
    BY DEF OfDate
  <2> QED
    BY <1>4, <1>5, <2>1
<1>7. Latest = <<today, m>>
  BY DEF Latest
<1> HIDE DEF m, S
<1>8. Latest \in Shard /\ Latest[1] = today /\ Latest[2] = m
  BY <1>1, <1>6, <1>7 DEF Shard
<1>9. \A s : Size(s) \in Nat /\ Size(s) <= ShardCells
  BY <1>1, EndsAre, LogStoreAssumption DEF Size
<1>10. CASE Size(Latest) > 0 /\ Size(Latest) + 2 > ShardCells
  <2>1. WriteFilename = <<today, m + 1>>
    BY <1>8, <1>10 DEF WriteFilename
  <2>2. <<today, m + 1>> \in Shard
    BY <1>1, <1>6 DEF Shard
  <2>3. \A s \in DOMAIN files : s[1] = today => s[2] <= m + 1 /\ s[2] # m + 1
    BY <1>3, <1>6
  <2>4. <<today, m + 1>> \notin DOMAIN files
    BY <2>3
  <2>5. Size(<<today, m + 1>>) = 0
    BY <2>4 DEF Size
  <2> QED
    BY <2>1, <2>2, <2>3, <2>5, LogStoreAssumption
<1>11. CASE ~ (Size(Latest) > 0 /\ Size(Latest) + 2 > ShardCells)
  <2>1. WriteFilename = Latest
    BY <1>11 DEF WriteFilename
  <2>2. Size(Latest) + 2 <= ShardCells
    BY <1>9, <1>11, LogStoreAssumption
  <2> QED
    BY <1>6, <1>8, <1>9, <2>1, <2>2
<1> QED
  BY <1>10, <1>11

\* An append changes the file of today only, by a whole payload or by less.
LEMMA Appends ==
    ASSUME Typed, FilesFit, last < MaxRecords, NEW torn \in {0, 1},
           NEW cells, cells \in {Payload(last + 1), SubSeq(Payload(last + 1), 1, torn)},
           Store(cells)
    PROVE  /\ last + 1 \in Ids /\ last \in Nat /\ today \in Nat
           /\ DOMAIN files' = DOMAIN files \cup {WriteFilename}
           /\ Grew(files, files', WriteFilename, last + 1)
           /\ Len(files'[WriteFilename]) <= ShardCells
           /\ cells = Payload(last + 1) =>
                 /\ Len(files'[WriteFilename]) = Size(WriteFilename) + 2
                 /\ files'[WriteFilename][Size(WriteFilename) + 2] = <<last + 1, "tail">>
           /\ cells = SubSeq(Payload(last + 1), 1, torn) =>
                 \A s \in DOMAIN files' : \A p \in LineEnds(files'[s]) :
                     s \in DOMAIN files /\ p \in LineEnds(files[s]) /\ files'[s][p] = files[s][p]
<1> DEFINE w == WriteFilename
           id == last + 1
           old == IF Size(w) > 0 THEN files[w] ELSE <<>>
<1>1. last \in Nat /\ today \in Nat /\ id \in Ids
  BY LogStoreAssumption DEF Typed, Dates, Ids
<1>2. \A s \in DOMAIN files : files[s] \in Seq(Cell) /\ Len(files[s]) \in Nat
  BY EndsAre DEF FilesFit, FilesAre
<1>3. /\ w \in Shard /\ w[1] = today
      /\ Size(w) \in Nat /\ Size(w) + 2 <= ShardCells
  BY FileOfToday
<1> HIDE DEF w
<1>4. <<>> \in Seq(Cell) /\ Len(<<>>) = 0 /\ LineEnds(<<>>) = {}
  <2>1. <<>> \in Seq(Cell) /\ Len(<<>>) = 0
    BY EmptySeq
  <2>2. \A p : p \in LineEnds(<<>>) <=> p \in 1..Len(<<>>) /\ <<>>[p][2] = "tail"
    BY <2>1, EndsAre
  <2> QED
    BY <2>1, <2>2
<1>5. \A c \in Seq(Cell) : Len(c) = 0 => c = <<>>
  BY EmptySeq
<1>6. /\ old \in Seq(Cell) /\ Len(old) = Size(w)
      /\ w \in DOMAIN files => old = files[w]
      /\ w \notin DOMAIN files => old = <<>>
  BY <1>2, <1>4, <1>5 DEF Size
<1>7. files' = Put(files, w, old \o cells)
  BY DEF Store, w
<1> HIDE DEF old
<1>8. /\ DOMAIN files' = DOMAIN files \cup {w}
      /\ files'[w] = old \o cells
      /\ \A s \in DOMAIN files \ {w} : files'[s] = files[s]
  BY <1>7 DEF Put
<1>9. /\ Grown(old, old \o cells, id)
      /\ cells = Payload(id) => /\ Len(old \o cells) = Len(old) + 2
                                /\ (old \o cells)[Len(old) + 2] = <<id, "tail">>
      /\ cells = SubSeq(Payload(id), 1, torn) => LineEnds(old \o cells) = LineEnds(old)
  <2> HIDE DEF id
  <2>1. /\ Grown(old, old \o Payload(id), id)
        /\ Len(old \o Payload(id)) = Len(old) + 2
        /\ (old \o Payload(id))[Len(old) + 2] = <<id, "tail">>
        /\ Grown(old, old \o SubSeq(Payload(id), 1, torn), id)
        /\ LineEnds(old \o SubSeq(Payload(id), 1, torn)) = LineEnds(old)
    BY <1>1, <1>6, AppendGrows
  <2>2. cells \in {Payload(id), SubSeq(Payload(id), 1, torn)}
    BY DEF id
  <2>3. cells = Payload(id) /\ cells = SubSeq(Payload(id), 1, torn) =>
            LineEnds(old \o cells) = LineEnds(old)
    BY <2>1
  <2> QED
    BY <2>1, <2>2, <2>3
<1>10. Grew(files, files', w, id)
  BY <1>6, <1>8, <1>9 DEF Grew
<1>11. Len(files'[w]) <= ShardCells
  <2>1. files'[w] \in Seq(Cell) /\ Len(files'[w]) <= Len(old) + 2
    BY <1>8, <1>9 DEF Grown
  <2>2. Len(files'[w]) \in Nat
    BY <2>1, EndsAre
  <2> QED
    BY <1>3, <1>6, <2>1, <2>2, LogStoreAssumption
<1>12. ASSUME cells = SubSeq(Payload(id), 1, torn)
       PROVE  \A s \in DOMAIN files' : \A p \in LineEnds(files'[s]) :
                  s \in DOMAIN files /\ p \in LineEnds(files[s]) /\ files'[s][p] = files[s][p]
  <2>1. LineEnds(files'[w]) = LineEnds(old)
    BY <1>8, <1>9, <1>12
  <2>2. \A p \in LineEnds(old) : files'[w][p] = old[p]
    <3>1. \A p \in LineEnds(old) : p \in 1..Len(old)
      BY <1>6, EndsAre
    <3> QED
      BY <1>8, <1>9, <3>1 DEF Grown
  <2> QED
    BY <1>4, <1>6, <1>8, <2>1, <2>2
<1> QED
  BY <1>1, <1>6, <1>8, <1>9, <1>10, <1>11, <1>12 DEF w, id
\* The parts of Indexed survive an append.
LEMMA IndexGrew ==
    ASSUME Typed, FilesFit, Indexed, last + 1 \in Ids,
           DOMAIN files' = DOMAIN files \cup {WriteFilename},
           Grew(files, files', WriteFilename, last + 1),
           UNCHANGED <<rows, progress, today>>, last' = last + 1
    PROVE  Indexed' /\ ChangedDates' = ChangedDates
<1> DEFINE w == WriteFilename
<1>1. /\ w \in Shard /\ w[1] = today
      /\ \A s \in DOMAIN files : s[1] = today => s[2] <= w[2]
  BY FileOfToday
<1> HIDE DEF w
<1>2. /\ DOMAIN files' = DOMAIN files \cup {w} /\ Grew(files, files', w, last + 1)
      /\ FilesAre(files, today, last) /\ DOMAIN files \subseteq Shard
      /\ rows' = rows /\ progress' = progress /\ today' = today
      /\ today \in Nat /\ last \in Nat
  <2>1. today \in Nat /\ last \in Nat
    BY LogStoreAssumption DEF Typed, Dates
  <2>2. FilesAre(files, today, last)
    BY DEF FilesFit
  <2> QED
    BY <2>1, <2>2 DEF w, FilesAre
<1>3. /\ \A s \in DOMAIN files' :
             /\ files'[s] \in Seq(Cell) /\ Whole(files'[s])
             /\ \A p \in LineEnds(files'[s]) :
                   \/ /\ s \in DOMAIN files /\ p \in LineEnds(files[s]) /\ files'[s][p] = files[s][p]
                      /\ p \in Parsed(files'[s], 0) => p \in Parsed(files[s], 0)
                   \/ /\ s = w /\ p = Len(files'[w]) /\ files'[s][p] = <<last + 1, "tail">>
                      /\ w \in DOMAIN files => p > Len(files[w])
      /\ \A s \in DOMAIN files :
                 /\ s \in DOMAIN files' /\ Len(files[s]) <= Len(files'[s])
                 /\ \A p \in LineEnds(files[s]) : p \in LineEnds(files'[s]) /\ files'[s][p] = files[s][p]
  BY <1>2, GrewLines
<1>4. /\ \A s \in DOMAIN files : files[s] \in Seq(Cell) /\ Len(files[s]) \in Nat
      /\ \A s \in DOMAIN files' : Len(files'[s]) \in Nat
  BY <1>2, <1>3, EndsAre DEF FilesAre
<1>5. /\ progress \in Offsets /\ \A s \in DOMAIN progress : Kept(s, files, today)
      /\ DOMAIN rows \subseteq Shard \X Nat
      /\ \A r \in DOMAIN rows : /\ r[1] \in DOMAIN progress /\ r[2] <= progress[r[1]]
                                /\ rows[r] \in 1..last
      /\ \A r, q \in DOMAIN rows : rows[r] = rows[q] => r = q
  BY DEF Indexed, RowsFit
<1>6. \A s : At(progress, s) \in Nat /\ (s \in DOMAIN progress => At(progress, s) = progress[s])
  BY <1>5, OffsetsAre
<1>7. w \notin DOMAIN files => w \notin DOMAIN progress /\ At(progress, w) = 0
  BY <1>1, <1>2, <1>5, NewFile, OffsetsAre
<1>8. w \in DOMAIN files => At(progress, w) <= Len(files[w])
  <2>1. SUFFICES ASSUME w \in DOMAIN files, ~ (At(progress, w) <= Len(files[w]))
                 PROVE  FALSE
    OBVIOUS
  <2>2. At(progress, w) > Len(files[w])
    BY <1>4, <1>6, <2>1
  <2>3. PICK u \in DOMAIN files : u[1] = w[1] /\ u[2] > w[2]
    BY <2>1, <2>2 DEF Indexed, ShortFiles
  <2>4. u[2] \in Nat /\ w[2] \in Nat /\ u[2] <= w[2]
    BY <1>1, <1>2, <2>3, ShardsAre
  <2> QED
    BY <2>3, <2>4
<1>9. \A s \in DOMAIN files : At(progress, s) > Len(files'[s]) <=> At(progress, s) > Len(files[s])
  <2>1. TAKE s \in DOMAIN files
  <2>2. CASE s = w
    <3>1. /\ Len(files[s]) \in Nat /\ Len(files'[s]) \in Nat /\ Len(files[s]) <= Len(files'[s])
          /\ At(progress, s) \in Nat /\ At(progress, s) <= Len(files[s])
      BY <1>3, <1>4, <1>6, <1>8, <2>2
    <3> QED
      BY <3>1
  <2>3. CASE s # w
    BY <1>2, <2>3 DEF Grew
  <2> QED
    BY <2>2, <2>3
<1>10. w \notin DOMAIN files => ~ (At(progress, w) > Len(files'[w]))
  BY <1>2, <1>4, <1>7
<1>11. ChangedDates' = ChangedDates
  <2>1. {t \in DOMAIN files' : At(progress, t) > Len(files'[t])}
            = {t \in DOMAIN files : At(progress, t) > Len(files[t])}
    BY <1>2, <1>9, <1>10
  <2> QED
    BY <1>2, <2>1 DEF ChangedDates
<1>12. RowsFit'
  <2>1. \A s \in DOMAIN progress : Kept(s, files', today)
    <3>1. DOMAIN progress \subseteq Shard
      BY <1>5, OffsetsAre
    <3> QED
      BY <1>1, <1>2, <1>5, <3>1, KeptGrew
  <2>2. \A r \in DOMAIN rows : rows[r] \in 1..(last + 1)
    BY <1>2, <1>5
  <2> QED
    BY <1>2, <1>5, <2>1, <2>2 DEF RowsFit
<1>13. RowsOfLines'
  <2>1. SUFFICES ASSUME NEW s \in DOMAIN files', NEW p \in LineEnds(files'[s]), NEW r \in DOMAIN rows
                 PROVE  /\ rows[r] = files'[s][p][1] => r[1][1] = s[1]
                        /\ Unchanged(s) => (rows[r] = files'[s][p][1] <=> r = <<s, p>>)
    BY <1>2, <1>11 DEF RowsOfLines, Unchanged
  <2>2. CASE s \in DOMAIN files /\ p \in LineEnds(files[s]) /\ files'[s][p] = files[s][p]
    BY <2>2 DEF Indexed, RowsOfLines
  <2>3. CASE /\ s = w /\ files'[s][p] = <<last + 1, "tail">>
             /\ w \in DOMAIN files => p > Len(files[w])
    <3>1. rows[r] # files'[s][p][1]
      BY <1>2, <1>5, <2>3
    <3>2. r # <<s, p>>
      <4>1. SUFFICES ASSUME r = <<s, p>>
                     PROVE  FALSE
        OBVIOUS
      <4>2. w \in DOMAIN progress /\ p <= progress[w]
        BY <1>5, <2>3, <4>1
      <4>3. w \in DOMAIN files /\ progress[w] <= Len(files[w])
        BY <1>6, <1>7, <1>8, <4>2
      <4>4. p \in Nat /\ progress[w] \in Nat /\ Len(files[w]) \in Nat
        BY <1>3, <1>4, <1>6, <4>2, <4>3, EndsAre
      <4> QED
        BY <2>3, <4>2, <4>3, <4>4
    <3> QED
      BY <3>1, <3>2
  <2> QED
    BY <1>3, <2>2, <2>3
<1>14. ShortFiles'
  <2>1. SUFFICES ASSUME NEW s \in DOMAIN files', At(progress, s) > Len(files'[s])
                 PROVE  \E u \in DOMAIN files' : u[1] = s[1] /\ u[2] > s[2]
    BY <1>2 DEF ShortFiles
  <2>2. s \in DOMAIN files /\ At(progress, s) > Len(files[s])
    BY <1>2, <1>9, <1>10, <2>1
  <2> QED
    BY <1>2, <2>2 DEF Indexed, ShortFiles
<1>15. RowsAreThere'
  <2>1. SUFFICES ASSUME NEW s \in DOMAIN files', Unchanged(s)
                 PROVE  /\ At(progress, s) \in {0} \cup LineEnds(files'[s])
                        /\ \A p \in Parsed(files'[s], 0) :
                               p <= At(progress, s) => <<s, p>> \in DOMAIN rows
    BY <1>2, <1>11 DEF RowsAreThere, Unchanged
  <2>2. CASE s \in DOMAIN files
    <3>1. /\ At(progress, s) \in {0} \cup LineEnds(files[s])
          /\ \A p \in Parsed(files[s], 0) : p <= At(progress, s) => <<s, p>> \in DOMAIN rows
      BY <2>1, <2>2 DEF Indexed, RowsAreThere
    <3>2. ASSUME NEW p \in Parsed(files'[s], 0), p <= At(progress, s)
          PROVE  p \in Parsed(files[s], 0)
      <4>1. p \in LineEnds(files'[s])
        BY DEF Parsed
      <4>2. CASE s = w /\ p > Len(files[w])
        <5>1. p \in Nat /\ Len(files[w]) \in Nat /\ At(progress, w) \in Nat
          BY <1>3, <1>4, <1>6, <2>2, <4>1, <4>2, EndsAre
        <5> QED
          BY <1>8, <2>2, <3>2, <4>2, <5>1
      <4> QED
        BY <1>3, <2>2, <4>1, <4>2
    <3> QED
      BY <1>3, <2>2, <3>1, <3>2
  <2>3. CASE s \notin DOMAIN files
    <3>1. At(progress, s) = 0
      BY <1>2, <1>7, <2>3
    <3>2. \A p \in Parsed(files'[s], 0) : p \in Nat \ {0}
      BY <1>3, EndsAre DEF Parsed
    <3> QED
      BY <3>1, <3>2
  <2> QED
    BY <2>2, <2>3
<1> QED
  BY <1>11, <1>12, <1>13, <1>14, <1>15 DEF Indexed
LEMMA KeepAppend ==
    ASSUME LogInv, AppendRecord, ~LateErrors
    PROVE  LogInv'
<1> DEFINE id == last + 1
           w == WriteFilename
<1>1. /\ Typed /\ FilesFit /\ TotalsFit /\ WritingFits /\ AllCounted /\ Indexed /\ InUse
  BY DEF LogInv
<1>2. /\ pc = "ready" /\ last < MaxRecords /\ last' = id /\ pc' = "appended"
      /\ UNCHANGED <<summary, rows, progress, cache, indexing, today, unread, crashes>>
  BY DEF AppendRecord, Writes
<1> DEFINE Done(torn, cells, offset) ==
             /\ cells \in {Payload(id), SubSeq(Payload(id), 1, torn)} /\ Store(cells)
             /\ Writes(id, offset)
             /\ offset # 0 => cells = Payload(id)
             /\ offset = 0 => cells = SubSeq(Payload(id), 1, torn)
<1>3. PICK torn \in {0, 1}, offset \in {0, Size(w) + 2},
               cells \in {Payload(id), SubSeq(Payload(id), 1, 0), SubSeq(Payload(id), 1, 1)} :
          Done(torn, cells, offset)
  <2>1. CASE Store(Payload(id)) /\ Writes(id, Size(w) + 2)
    <3>1. Size(w) + 2 # 0
      BY <1>1, FileOfToday
    <3>2. Done(0, Payload(id), Size(w) + 2)
      BY <2>1, <3>1
    <3> HIDE DEF Done
    <3> QED
      BY <3>2
  <2>2. CASE /\ \E written \in {0, 1} : Store(SubSeq(Payload(id), 1, written))
             /\ \E offset \in {0} \cup (IF LateErrors THEN {Size(w) + 2} ELSE {}) :
                    Writes(id, offset)
    <3>1. PICK torn \in {0, 1} : Store(SubSeq(Payload(id), 1, torn))
      BY <2>2
    <3>2. Writes(id, 0)
      BY <2>2
    <3>3. Done(torn, SubSeq(Payload(id), 1, torn), 0)
      BY <3>1, <3>2
    <3> HIDE DEF Done
    <3> QED
      BY <3>3
  <2> QED
    BY <2>1, <2>2 DEF AppendRecord
<1>4. /\ id \in Ids /\ last \in Nat /\ today \in Nat
      /\ DOMAIN files' = DOMAIN files \cup {w}
      /\ Grew(files, files', w, id)
      /\ Len(files'[w]) <= ShardCells
      /\ cells = Payload(id) => /\ Len(files'[w]) = Size(w) + 2
                                /\ files'[w][Size(w) + 2] = <<id, "tail">>
      /\ cells = SubSeq(Payload(id), 1, torn) =>
             \A s \in DOMAIN files' : \A p \in LineEnds(files'[s]) :
                     s \in DOMAIN files /\ p \in LineEnds(files[s]) /\ files'[s][p] = files[s][p]
  BY <1>1, <1>2, <1>3, Appends
<1>5. w \in Shard /\ w[1] = today /\ Size(w) \in Nat
  BY <1>1, FileOfToday
<1>6. writing' = [id |-> id, shard |-> w, offset |-> offset]
  BY <1>3 DEF Writes
<1> HIDE DEF w
<1>7. FilesAre(files, today, last)
  BY <1>1 DEF FilesFit
<1>8. Typed'
  BY <1>1, <1>2, <1>4 DEF Typed, Ids
<1>9. FilesFit'
  BY <1>2, <1>4, <1>5, <1>7, FilesGrew DEF FilesFit
<1>10. TotalsFit'
  BY <1>1, <1>2, <1>4, <1>5, <1>7, FitsGrew DEF TotalsFit
<1>11. /\ cache # <<>> /\ Fits(cache, files, today, last)
       /\ \A s \in DOMAIN files : \A p \in LineEnds(files[s]) : p <= At(cache.offsets, s)
  BY <1>1, <1>2 DEF TotalsFit, AllCounted, Writing
<1>12. \A s \in DOMAIN files' : \A p \in LineEnds(files'[s]) :
           \/ s \in DOMAIN files /\ p \in LineEnds(files[s]) /\ files'[s][p] = files[s][p]
           \/ /\ s = w /\ p = Len(files'[w]) /\ files'[s][p] = <<id, "tail">>
              /\ offset # 0 /\ p = offset
  <2>1. \A s \in DOMAIN files' : \A p \in LineEnds(files'[s]) :
           \/ s \in DOMAIN files /\ p \in LineEnds(files[s]) /\ files'[s][p] = files[s][p]
           \/ s = w /\ p = Len(files'[w]) /\ files'[s][p] = <<id, "tail">>
    <3> HIDE DEF id
    <3> QED
      BY <1>4, <1>7, GrewLines
  <2>2. CASE offset = 0
    BY <1>3, <1>4, <2>2
  <2>3. CASE offset # 0
    <3>1. offset = Size(w) + 2 /\ Len(files'[w]) = offset
      BY <1>3, <1>4, <2>3
    <3> QED
      BY <2>1, <2>3, <3>1
  <2> QED
    BY <2>2, <2>3
<1>13. WritingFits'
  <2>1. writing' \in [id : 1..last', shard : DOMAIN files', offset : Nat]
    BY <1>2, <1>3, <1>4, <1>5, <1>6 DEF Ids
  <2>2. cache.count[id] = 0
    <3>1. id > last
      BY <1>4
    <3> QED
      BY <1>4, <1>11, <3>1 DEF Fits
  <2>3. offset # 0 => offset = Len(files'[w]) /\ files'[w][offset] = <<id, "tail">>
    BY <1>3, <1>4
  <2>4. ASSUME offset = 0, NEW s \in DOMAIN files', NEW p \in LineEnds(files'[s])
        PROVE  files'[s][p][1] # id
    <3>1. s \in DOMAIN files /\ p \in LineEnds(files[s]) /\ files'[s][p] = files[s][p]
      BY <1>12, <2>4
    <3>2. files[s][p][1] <= last /\ files[s] \in Seq(Cell)
      BY <1>7, <3>1 DEF FilesAre
    <3>3. files[s][p][1] \in Nat
      BY <3>1, <3>2, EndsAre, LogStoreAssumption DEF Ids
    <3> QED
      BY <1>4, <3>1, <3>2, <3>3
  <2> QED
    BY <1>2, <1>6, <2>1, <2>2, <2>3, <2>4 DEF WritingFits
<1>14. AllCounted'
  <2>1. (cache = <<>> <=> pc = "down")'
    BY <1>2, <1>11
  <2>2. ASSUME NEW s \in DOMAIN files', NEW p \in LineEnds(files'[s])
        PROVE  p <= At(cache.offsets, s) \/ (s = w /\ p = offset)
    BY <1>11, <1>12
  <2> QED
    BY <1>2, <1>6, <2>1, <2>2 DEF AllCounted, Writing, InHand
<1>15. Indexed' /\ ChangedDates' = ChangedDates
  BY <1>1, <1>2, <1>4, IndexGrew DEF w
<1>16. InUse'
  <2>1. SUFFICES ASSUME indexing
                 PROVE  /\ ChangedDates' = {}
                        /\ \A s \in DOMAIN files' : \A p \in LineEnds(files'[s]) :
                               p <= At(progress, s) \/ (s = w /\ p = offset)
    BY <1>2, <1>6 DEF InUse, InHand
  <2>2. /\ ChangedDates = {}
        /\ \A s \in DOMAIN files : \A p \in LineEnds(files[s]) : p <= At(progress, s)
    BY <1>1, <1>2, <2>1 DEF InUse
  <2> QED
    BY <1>12, <1>15, <2>2
<1> QED
  BY <1>8, <1>9, <1>10, <1>13, <1>14, <1>15, <1>16 DEF LogInv

\* A death may leave the head of a record behind.
LEMMA KeepCrash ==
    ASSUME LogInv, Crash
    PROVE  LogInv'
<1>1. /\ Typed /\ FilesFit /\ TotalsFit /\ WritingFits /\ AllCounted /\ Indexed /\ InUse
  BY DEF LogInv
<1>2. /\ pc' = "down" /\ cache' = <<>> /\ indexing' = FALSE /\ writing' = <<>>
      /\ unread' = {} /\ UNCHANGED <<summary, rows, progress, today, errors>>
  BY DEF Crash, Forgotten
<1>3. WritingFits' /\ AllCounted' /\ InUse'
  BY <1>2 DEF WritingFits, Writing, AllCounted, InUse
<1>4. CASE UNCHANGED <<files, last>>
  <2>1. Typed' /\ FilesFit' /\ TotalsFit' /\ Indexed'
    <3>1. ChangedDates' = ChangedDates
      BY <1>2, <1>4 DEF ChangedDates
    <3>2. Typed'
      BY <1>1, <1>2, <1>4 DEF Typed
    <3>3. FilesFit'
      BY <1>1, <1>2, <1>4 DEF FilesFit
    <3>4. TotalsFit'
      BY <1>1, <1>2, <1>4 DEF TotalsFit
    <3>5. Indexed'
      BY <1>1, <1>2, <1>4, <3>1 DEF Indexed, RowsFit, RowsOfLines, ShortFiles, RowsAreThere,
                                     Unchanged
    <3> QED
      BY <3>2, <3>3, <3>4, <3>5
  <2> QED
    BY <1>3, <2>1 DEF LogInv
<1>5. CASE last < MaxRecords /\ last' = last + 1 /\ Store(SubSeq(Payload(last + 1), 1, 1))
  <2> DEFINE w == WriteFilename
  <2>1. /\ last + 1 \in Ids /\ last \in Nat /\ today \in Nat
        /\ DOMAIN files' = DOMAIN files \cup {w}
        /\ Grew(files, files', w, last + 1) /\ Len(files'[w]) <= ShardCells
    BY <1>1, <1>5, Appends
  <2>2. w \in Shard /\ w[1] = today
    BY <1>1, FileOfToday
  <2>3. FilesAre(files, today, last)
    BY <1>1 DEF FilesFit
  <2>4. Indexed'
    BY <1>1, <1>2, <1>5, <2>1, IndexGrew
  <2> HIDE DEF w
  <2>5. FilesFit'
    BY <1>2, <1>5, <2>1, <2>2, <2>3, FilesGrew DEF FilesFit
  <2>6. TotalsFit'
    BY <1>1, <1>2, <1>5, <2>1, <2>2, <2>3, FitsGrew DEF TotalsFit
  <2>7. Typed'
    <3>1. last' \in 0..MaxRecords /\ today' \in Dates
      BY <1>1, <1>2, <1>5, <2>1 DEF Typed, Ids
    <3> QED
      BY <1>2, <3>1 DEF Typed
  <2> QED
    BY <1>3, <2>4, <2>5, <2>6, <2>7 DEF LogInv
<1> QED
  BY <1>4, <1>5 DEF Crash
-----------------------------------------------------------------------------
(* The rest of write, the ends of a process and the next day *)

\* The record being written gets its row, if it has a line.
LEMMA KeepIndexAppend ==
    ASSUME LogInv, IndexAppend
    PROVE  LogInv'
<1> DEFINE place == <<writing.shard, writing.offset>>
           known == indexing /\ writing.offset # 0
<1>1. /\ Typed /\ FilesFit /\ TotalsFit /\ WritingFits /\ AllCounted /\ Indexed /\ InUse
  BY DEF LogInv
<1>2. /\ pc = "appended" /\ pc' = "indexed"
      /\ UNCHANGED <<files, summary, cache, writing, today, last, unread>>
      /\ indexing' \in BOOLEAN /\ (indexing' => indexing)
  <2>1. indexing' = indexing \/ indexing' = FALSE
    BY DEF IndexAppend
  <2>2. indexing \in BOOLEAN
    BY <1>1 DEF Typed
  <2>3. indexing' \in BOOLEAN
    BY <2>1, <2>2
  <2>4. indexing' => indexing
    BY <2>1
  <2> QED
    BY <2>3, <2>4 DEF IndexAppend
<1>3. Typed' /\ FilesFit' /\ TotalsFit' /\ WritingFits' /\ AllCounted'
  <2>1. Typed'
    BY <1>1, <1>2 DEF Typed
  <2>2. FilesFit' /\ TotalsFit'
    BY <1>1, <1>2 DEF FilesFit, TotalsFit
  <2>3. WritingFits'
    BY <1>1, <1>2 DEF WritingFits, Writing
  <2>4. AllCounted'
    BY <1>1, <1>2 DEF AllCounted, Writing, InHand
  <2> QED
    BY <2>1, <2>2, <2>3, <2>4
<1>4. /\ DOMAIN files \subseteq Shard /\ last \in Nat
      /\ \A s \in DOMAIN files : files[s] \in Seq(Cell) /\ Len(files[s]) \in Nat
      /\ \A s \in DOMAIN files : \A p \in LineEnds(files[s]) : p \in Nat \ {0} /\ p <= Len(files[s])
  <2>1. last \in Nat
    BY <1>1, LogStoreAssumption DEF Typed
  <2>2. DOMAIN files \subseteq Shard /\ \A s \in DOMAIN files : files[s] \in Seq(Cell)
    BY <1>1 DEF FilesFit, FilesAre
  <2> QED
    BY <2>1, <2>2, EndsAre
<1>5. /\ progress \in Offsets /\ \A s \in DOMAIN progress : Kept(s, files, today)
      /\ DOMAIN rows \subseteq Shard \X Nat
      /\ \A r \in DOMAIN rows : /\ r[1] \in DOMAIN progress /\ r[2] <= progress[r[1]]
                                /\ rows[r] \in 1..last
      /\ \A r, q \in DOMAIN rows : rows[r] = rows[q] => r = q
  BY <1>1 DEF Indexed, RowsFit
<1>6. \A s : At(progress, s) \in Nat /\ (s \in DOMAIN progress => At(progress, s) = progress[s])
  BY <1>5, OffsetsAre
<1>7. CASE ~known \/ ~indexing'
  <2>1. rows' = rows /\ progress' = progress
    <3>1. CASE known
      BY <1>7, <3>1 DEF IndexAppend
    <3>2. CASE ~known
      BY <3>2 DEF IndexAppend
    <3> QED
      BY <3>1, <3>2
  <2>2. ChangedDates' = ChangedDates
    BY <1>2, <2>1 DEF ChangedDates
  <2>3. Indexed'
    BY <1>1, <1>2, <2>1, <2>2 DEF Indexed, RowsFit, RowsOfLines, ShortFiles, RowsAreThere,
                                   Unchanged
  <2>4. InUse'
    <3>1. SUFFICES ASSUME indexing'
                   PROVE  /\ ChangedDates = {}
                          /\ \A s \in DOMAIN files : \A p \in LineEnds(files[s]) :
                                 p <= At(progress, s)
      BY <1>2, <2>1, <2>2 DEF InUse
    <3>2. indexing /\ writing.offset = 0
      BY <1>2, <1>7, <3>1
    <3>3. \A s \in DOMAIN files : \A p \in LineEnds(files[s]) :
              p <= At(progress, s) \/ InHand(s, p)
      BY <1>1, <3>2 DEF InUse
    <3>4. \A s \in DOMAIN files : \A p \in LineEnds(files[s]) : ~InHand(s, p)
      BY <1>4, <3>2 DEF InHand
    <3> QED
      BY <1>1, <3>2, <3>3, <3>4 DEF InUse
  <2> QED
    BY <1>3, <2>3, <2>4 DEF LogInv
<1>8. CASE known /\ indexing'
  <2> DEFINE w == writing.shard
             end == writing.offset
             id == writing.id
  <2>1. /\ w \in DOMAIN files /\ end \in Nat \ {0} /\ id \in 1..last
        /\ end = Len(files[w]) /\ files[w][end] = <<id, "tail">>
    BY <1>1, <1>2, <1>8 DEF WritingFits, Writing
  <2>2. /\ progress' = Put(progress, w, end)
        /\ rows' = IF place \in DOMAIN rows THEN rows ELSE Put(rows, place, id)
    <3>1. indexing \in BOOLEAN
      BY <1>1 DEF Typed
    <3> QED
      BY <1>8, <3>1 DEF IndexAppend
  <2>3. /\ ChangedDates = {}
        /\ \A s \in DOMAIN files : \A p \in LineEnds(files[s]) :
               p <= At(progress, s) \/ (s = w /\ p = end)
    BY <1>1, <1>2, <1>8 DEF InUse, InHand
  <2> HIDE DEF w, end, id
  <2>4. end \in LineEnds(files[w]) /\ files[w][end][1] = id
    BY <1>4, <2>1, EndsAre
  <2>5. place = <<w, end>>
    BY DEF w, end
  <2> HIDE DEF place
  <2>6. /\ progress' \in Offsets /\ DOMAIN progress' = DOMAIN progress \cup {w}
        /\ \A u : At(progress', u) = IF u = w THEN end ELSE At(progress, u)
    <3>1. w \in Shard /\ end \in Nat
      BY <1>4, <2>1
    <3>2. progress \in Offsets
      BY <1>5
    <3>3. /\ Put(progress, w, end) \in Offsets
          /\ DOMAIN Put(progress, w, end) = DOMAIN progress \cup {w}
          /\ \A u : At(Put(progress, w, end), u) = IF u = w THEN end ELSE At(progress, u)
      BY <3>1, <3>2, PutOffset, ZenonT(30)
    <3>4. progress' = Put(progress, w, end)
      BY <2>2
    <3> QED
      BY <3>3, <3>4
  <2>7. \A s \in DOMAIN files : \A p \in LineEnds(files[s]), r \in DOMAIN rows :
            rows[r] = files[s][p][1] <=> r = <<s, p>>
    BY <1>1, <2>3 DEF Indexed, RowsOfLines, Unchanged
  <2>8. /\ DOMAIN rows' = DOMAIN rows \cup {place}
        /\ \A r \in DOMAIN rows : rows'[r] = rows[r]
        /\ rows'[place] = id
    <3>1. place \in DOMAIN rows => rows[place] = id
      BY <2>1, <2>4, <2>5, <2>7
    <3>2. place \notin DOMAIN rows => rows' = Put(rows, place, id)
      BY <2>2
    <3>3. place \in DOMAIN rows => rows' = rows
      BY <2>2
    <3>4. CASE place \in DOMAIN rows
      BY <3>1, <3>3, <3>4
    <3>5. CASE place \notin DOMAIN rows
      BY <3>2, <3>5 DEF Put
    <3> QED
      BY <3>4, <3>5
  <2>9. \A s \in DOMAIN files : \A p \in LineEnds(files[s]), r \in DOMAIN rows' :
            rows'[r] = files[s][p][1] <=> r = <<s, p>>
    <3>1. TAKE s \in DOMAIN files
    <3>2. TAKE p \in LineEnds(files[s]), r \in DOMAIN rows'
    <3>3. CASE r \in DOMAIN rows
      BY <2>7, <2>8, <3>3
    <3>4. CASE r = place
      <4>1. OneLine(files)
        BY <1>1 DEF FilesFit, FilesAre
      <4>2. files[s][p][1] = id <=> s = w /\ p = end
        <5>1. files[w][end][1] = id
          BY <2>4
        <5>2. ASSUME files[s][p][1] = files[w][end][1]
              PROVE  s = w /\ p = end
          <6>1. w \in DOMAIN files /\ end \in LineEnds(files[w])
            BY <2>1, <2>4
          <6> QED
            BY <4>1, <5>2, <6>1 DEF OneLine
        <5> QED
          BY <5>1, <5>2
      <4> QED
        BY <2>5, <2>8, <3>4, <4>2
    <3> QED
      BY <2>8, <3>3, <3>4
  <2>10. \A s \in DOMAIN files : ~ (At(progress', s) > Len(files[s]))
    <3>1. \A s \in DOMAIN files : ~ (At(progress, s) > Len(files[s]))
      BY <2>3 DEF ChangedDates
    <3> QED
      BY <1>4, <2>1, <2>6, <3>1
  <2>11. ChangedDates' = {}
    BY <1>2, <2>10 DEF ChangedDates
  <2>12. At(progress, w) <= end
    <3>1. At(progress, w) \in {0} \cup LineEnds(files[w])
      BY <1>1, <2>1, <2>3 DEF Indexed, RowsAreThere, Unchanged
    <3> QED
      BY <1>4, <2>1, <3>1
  <2>13. RowsFit'
    <3>1. \A s \in DOMAIN progress' : Kept(s, files, today)
      BY <1>5, <2>1, <2>6 DEF Kept
    <3>2. DOMAIN rows' \subseteq Shard \X Nat
      BY <1>4, <1>5, <2>1, <2>5, <2>8
    <3>3. ASSUME NEW r \in DOMAIN rows'
          PROVE  r[1] \in DOMAIN progress' /\ r[2] <= progress'[r[1]] /\ rows'[r] \in 1..last
      <4>1. \A u \in DOMAIN progress' : progress'[u] = At(progress', u)
        BY <2>6, OffsetsAre
      <4>2. CASE r \in DOMAIN rows
        <5>1. r[1] \in DOMAIN progress /\ r[2] <= At(progress, r[1]) /\ r[2] \in Nat
          BY <1>5, <1>6, <4>2
        <5>2. r[2] <= At(progress', r[1])
          BY <1>6, <2>1, <2>6, <2>12, <5>1
        <5> QED
          BY <1>5, <2>6, <2>8, <4>1, <4>2, <5>1, <5>2
      <4>3. CASE r = place
        <5>1. r[1] = w /\ r[2] = end
          BY <2>5, <4>3
        <5>2. progress'[w] = end /\ end <= end
          BY <2>1, <2>6, <4>1
        <5> QED
          BY <2>1, <2>6, <2>8, <4>3, <5>1, <5>2
      <4> QED
        BY <2>8, <4>2, <4>3
    <3>4. ASSUME NEW r \in DOMAIN rows', NEW q \in DOMAIN rows', rows'[r] = rows'[q]
          PROVE  r = q
      <4>1. CASE r \in DOMAIN rows /\ q \in DOMAIN rows
        BY <1>5, <2>8, <3>4, <4>1
      <4>2. CASE r = place
        BY <2>1, <2>4, <2>5, <2>8, <2>9, <3>4, <4>2
      <4>3. CASE q = place
        BY <2>1, <2>4, <2>5, <2>8, <2>9, <3>4, <4>3
      <4> QED
        BY <2>8, <4>1, <4>2, <4>3
    <3> QED
      BY <1>2, <2>6, <3>1, <3>2, <3>3, <3>4 DEF RowsFit
  <2>14. RowsOfLines'
    <3>1. \A s \in DOMAIN files : \A p \in LineEnds(files[s]), r \in DOMAIN rows' :
              rows'[r] = files[s][p][1] => r[1][1] = s[1]
      BY <2>9
    <3> QED
      BY <1>2, <2>9, <3>1 DEF RowsOfLines
  <2>15. ShortFiles'
    BY <1>2, <2>10 DEF ShortFiles
  <2>16. RowsAreThere'
    <3>1. \A s \in DOMAIN files : At(progress', s) \in {0} \cup LineEnds(files[s])
      BY <1>1, <2>3, <2>4, <2>6 DEF Indexed, RowsAreThere, Unchanged
    <3>2. ASSUME NEW s \in DOMAIN files, NEW p \in Parsed(files[s], 0)
          PROVE  <<s, p>> \in DOMAIN rows'
      <4>1. p \in LineEnds(files[s])
        BY DEF Parsed
      <4>2. CASE p <= At(progress, s)
        BY <1>1, <2>3, <2>8, <4>2 DEF Indexed, RowsAreThere, Unchanged
      <4> QED
        BY <2>3, <2>5, <2>8, <4>1, <4>2
    <3> QED
      BY <1>2, <3>1, <3>2 DEF RowsAreThere
  <2>17. InUse'
    <3>1. \A s \in DOMAIN files : \A p \in LineEnds(files[s]) : p <= At(progress', s)
      BY <1>4, <2>1, <2>3, <2>6
    <3> QED
      BY <1>2, <2>11, <3>1 DEF InUse
  <2> QED
    BY <1>3, <2>13, <2>14, <2>15, <2>16, <2>17 DEF LogInv, Indexed
<1> QED
  BY <1>7, <1>8
\* The record is counted, and its line with it.
LEMMA KeepCount ==
    ASSUME LogInv, Count
    PROVE  LogInv'
<1> DEFINE w == writing.shard
           end == writing.offset
           id == writing.id
<1>1. /\ Typed /\ FilesFit /\ TotalsFit /\ WritingFits /\ AllCounted /\ Indexed /\ InUse
  BY DEF LogInv
<1>2. /\ pc = "indexed" /\ pc' = "ready" /\ writing' = <<>>
      /\ UNCHANGED <<files, rows, progress, indexing, today, last, unread>>
      /\ cache' = [count   |-> [cache.count EXCEPT ![id] = @ + 1],
                   offsets |-> IF end = 0 THEN cache.offsets ELSE Put(cache.offsets, w, end)]
      /\ summary' = cache' \/ summary' = summary
  BY DEF Count
<1>3. /\ w \in DOMAIN files /\ end \in Nat /\ id \in 1..last
      /\ cache.count[id] = 0
      /\ end # 0 => end = Len(files[w]) /\ files[w][end] = <<id, "tail">>
      /\ end = 0 => \A s \in DOMAIN files : \A p \in LineEnds(files[s]) : files[s][p][1] # id
  BY <1>1, <1>2 DEF WritingFits, Writing
<1>4. /\ cache # <<>> /\ Fits(cache, files, today, last)
      /\ \A s \in DOMAIN files : \A p \in LineEnds(files[s]) :
             p <= At(cache.offsets, s) \/ (s = w /\ p = end)
  BY <1>1, <1>2 DEF TotalsFit, AllCounted, Writing, InHand
<1> HIDE DEF w, end, id
<1>5. /\ DOMAIN files \subseteq Shard /\ OneLine(files)
      /\ \A s \in DOMAIN files : files[s] \in Seq(Cell) /\ Len(files[s]) \in Nat
      /\ \A s \in DOMAIN files : \A p \in LineEnds(files[s]) :
             p \in Nat \ {0} /\ p <= Len(files[s]) /\ files[s][p][1] \in Ids
  <2>1. /\ DOMAIN files \subseteq Shard /\ OneLine(files)
        /\ \A s \in DOMAIN files : files[s] \in Seq(Cell)
    BY <1>1 DEF FilesFit, FilesAre
  <2> QED
    BY <2>1, EndsAre
<1>6. id \in Ids
  <2>1. last \in Nat /\ last <= MaxRecords /\ MaxRecords \in Nat
    BY <1>1, LogStoreAssumption DEF Typed
  <2> QED
    BY <1>3, <2>1 DEF Ids
<1>7. /\ cache \in Totals /\ cache.offsets \in Offsets
      /\ cache.count \in [Ids -> {0, 1}]
  BY <1>4, TotalsAre DEF Fits
<1> DEFINE count == [cache.count EXCEPT ![id] = @ + 1]
           offsets == IF end = 0 THEN cache.offsets ELSE Put(cache.offsets, w, end)
<1>8. /\ count \in [Ids -> {0, 1}] /\ count[id] = 1
      /\ \A i \in Ids : i # id => count[i] = cache.count[i]
      /\ \A i \in Ids : cache.count[i] <= count[i]
  BY <1>3, <1>6, <1>7
<1>9. cache' = [count |-> count, offsets |-> offsets]
  BY <1>2
<1> HIDE DEF count, offsets
<1>10. /\ offsets \in Offsets
       /\ DOMAIN offsets \subseteq DOMAIN cache.offsets \cup {w}
       /\ \A u : At(offsets, u) = IF end # 0 /\ u = w THEN end ELSE At(cache.offsets, u)
  <2>1. CASE end = 0
    BY <1>7, <2>1 DEF offsets
  <2>2. CASE end # 0
    <3>1. cache.offsets \in Offsets /\ w \in Shard /\ end \in Nat
      BY <1>3, <1>5, <1>7
    <3>2. /\ Put(cache.offsets, w, end) \in Offsets
          /\ DOMAIN Put(cache.offsets, w, end) = DOMAIN cache.offsets \cup {w}
          /\ \A u : At(Put(cache.offsets, w, end), u) = IF u = w THEN end ELSE At(cache.offsets, u)
      BY <3>1, PutOffset, ZenonT(30)
    <3>3. offsets = Put(cache.offsets, w, end)
      BY <2>2 DEF offsets
    <3> QED
      BY <2>2, <3>2, <3>3
  <2> QED
    BY <2>1, <2>2
<1>11. cache' \in Totals /\ cache'.count = count /\ cache'.offsets = offsets
  BY <1>8, <1>9, <1>10 DEF Totals
<1>12. cache' # <<>>
  BY <1>11, TotalsAre
<1>13. end # 0 => end \in LineEnds(files[w])
  <2>1. ASSUME end # 0
        PROVE  end \in 1..Len(files[w]) /\ files[w][end][2] = "tail"
    BY <1>3, <2>1
  <2> QED
    BY <1>3, <1>5, <2>1, EndsAre
<1>14. \A s \in DOMAIN files : \A p \in LineEnds(files[s]) :
           (s = w /\ p = end) <=> files[s][p][1] = id
  <2>1. CASE end = 0
    BY <1>3, <1>5, <2>1
  <2>2. CASE end # 0
    <3>1. TAKE s \in DOMAIN files
    <3>2. TAKE p \in LineEnds(files[s])
    <3>3. files[w][end][1] = id /\ end \in LineEnds(files[w])
      BY <1>3, <1>13, <2>2
    <3>4. ASSUME files[s][p][1] = files[w][end][1]
          PROVE  s = w /\ p = end
      <4>1. w \in DOMAIN files /\ end \in LineEnds(files[w]) /\ OneLine(files)
        BY <1>3, <1>5, <3>3
      <4> QED
        BY <3>4, <4>1 DEF OneLine
    <3> QED
      BY <3>3, <3>4
  <2> QED
    BY <2>1, <2>2
<1>15. \A s \in DOMAIN files : \A p \in LineEnds(files[s]) : p <= At(offsets, s)
  <2>1. TAKE s \in DOMAIN files
  <2>2. TAKE p \in LineEnds(files[s])
  <2>3. CASE s = w /\ end # 0
    BY <1>3, <1>5, <1>10, <2>3
  <2>4. CASE ~ (s = w /\ end # 0)
    BY <1>4, <1>5, <1>10, <2>4
  <2> QED
    BY <2>3, <2>4
<1>16. Fits(cache', files, today, last)
  <2>1. \A s \in DOMAIN offsets : Kept(s, files, today)
    <3>1. \A s \in DOMAIN cache.offsets : Kept(s, files, today)
      BY <1>4 DEF Fits
    <3>2. Kept(w, files, today)
      BY <1>3 DEF Kept
    <3> QED
      BY <1>10, <3>1, <3>2
  <2>2. AtLines(offsets, files)
    BY <1>4, <1>10, <1>13 DEF AtLines, Fits
  <2>3. ASSUME NEW s \in DOMAIN files, NEW p \in LineEnds(files[s]), p \in Parsed(files[s], 0)
        PROVE  count[files[s][p][1]] = 1
    <3>1. CASE s = w /\ p = end
      BY <1>8, <1>14, <3>1
    <3>2. CASE ~ (s = w /\ p = end)
      <4>1. p <= At(cache.offsets, s)
        BY <1>4, <3>2
      <4>2. cache.count[files[s][p][1]] = 1
        BY <1>4, <2>3, <4>1 DEF Fits, Divided
      <4>3. files[s][p][1] \in Ids /\ files[s][p][1] # id
        BY <1>5, <1>14, <3>2
      <4> QED
        BY <1>8, <4>2, <4>3
    <3> QED
      BY <3>1, <3>2
  <2>4. Divided(cache', files)
    BY <1>11, <1>15, <2>3 DEF Divided
  <2>5. ASSUME NEW i \in Ids, i > last
        PROVE  count[i] = 0
    <3>1. i # id
      <4>1. last \in Nat
        BY <1>1, LogStoreAssumption DEF Typed
      <4> QED
        BY <1>3, <2>5, <4>1
    <3> QED
      BY <1>4, <1>8, <2>5, <3>1 DEF Fits
  <2> QED
    BY <1>11, <2>1, <2>2, <2>4, <2>5 DEF Fits
<1>17. TotalsFit'
  <2>1. Fits(summary', files, today, last) \/ summary' = <<>>
    BY <1>1, <1>2, <1>16 DEF TotalsFit
  <2>2. ASSUME summary' # <<>>, unread = {}, NEW i \in Ids
        PROVE  summary'.count[i] <= cache'.count[i]
    <3>1. CASE summary' = cache'
      BY <1>8, <1>11, <3>1
    <3>2. CASE summary' = summary
      <4>1. summary # <<>> /\ Fits(summary, files, today, last)
        BY <1>1, <2>2, <3>2 DEF TotalsFit
      <4>2. summary.count[i] \in {0, 1}
        BY <4>1, TotalsAre DEF Fits
      <4>3. summary.count[i] <= cache.count[i]
        BY <1>1, <1>4, <2>2, <4>1 DEF TotalsFit
      <4>4. cache.count[i] \in {0, 1} /\ count[i] \in {0, 1} /\ cache.count[i] <= count[i]
        BY <1>7, <1>8
      <4> QED
        BY <1>11, <3>2, <4>2, <4>3, <4>4
    <3> QED
      BY <1>2, <3>1, <3>2
  <2> QED
    BY <1>2, <1>16, <2>1, <2>2 DEF TotalsFit
<1>18. WritingFits' /\ Typed' /\ FilesFit'
  <2>1. Typed'
    BY <1>1, <1>2 DEF Typed
  <2> QED
    BY <1>1, <1>2, <2>1 DEF WritingFits, Writing, FilesFit
<1>19. AllCounted'
  BY <1>2, <1>11, <1>12, <1>15 DEF AllCounted, Writing
<1>20. ChangedDates' = ChangedDates
  BY <1>2 DEF ChangedDates
<1>21. Indexed'
  BY <1>1, <1>2, <1>20 DEF Indexed, RowsFit, RowsOfLines, ShortFiles, RowsAreThere, Unchanged
<1>22. InUse'
  BY <1>1, <1>2, <1>20 DEF InUse
<1> QED
  BY <1>17, <1>18, <1>19, <1>21, <1>22 DEF LogInv

LEMMA KeepStop ==
    ASSUME LogInv, Stop
    PROVE  LogInv'
<1>1. /\ Typed /\ FilesFit /\ TotalsFit /\ WritingFits /\ AllCounted /\ Indexed /\ InUse
  BY DEF LogInv
<1>2. /\ pc = "ready" /\ pc' = "down" /\ cache' = <<>> /\ indexing' = FALSE /\ writing' = <<>>
      /\ unread' = {} /\ UNCHANGED <<files, rows, progress, today, last>>
      /\ summary' = cache \/ summary' = summary
  BY DEF Stop, Forgotten
<1>3. WritingFits' /\ AllCounted' /\ InUse'
  BY <1>2 DEF WritingFits, Writing, AllCounted, InUse
<1>4. TotalsFit'
  BY <1>1, <1>2 DEF TotalsFit
<1>5. ChangedDates' = ChangedDates
  BY <1>2 DEF ChangedDates
<1>6. Indexed'
  BY <1>1, <1>2, <1>5 DEF Indexed, RowsFit, RowsOfLines, ShortFiles, RowsAreThere, Unchanged
<1>7. FilesFit'
  BY <1>1, <1>2 DEF FilesFit
<1>8. Typed'
  BY <1>1, <1>2 DEF Typed
<1> QED
  BY <1>3, <1>4, <1>6, <1>7, <1>8 DEF LogInv

\* A day that is over stays over.
LEMMA KeepNextDay ==
    ASSUME LogInv, NextDay
    PROVE  LogInv'
<1>1. /\ Typed /\ FilesFit /\ TotalsFit /\ WritingFits /\ AllCounted /\ Indexed /\ InUse
  BY DEF LogInv
<1>2. /\ today' = today + 1 /\ today < MaxDate
      /\ UNCHANGED <<files, summary, rows, progress, pc, cache, indexing, writing, last, unread>>
  BY DEF NextDay
<1>3. today \in Nat /\ today + 1 \in Dates
  BY <1>1, <1>2, LogStoreAssumption DEF Typed, Dates
<1>4. ASSUME NEW s \in Shard, Kept(s, files, today)
      PROVE  Kept(s, files, today + 1)
  BY <1>3, <1>4, ShardsAre DEF Kept
<1>5. ASSUME NEW t, Fits(t, files, today, last)
      PROVE  Fits(t, files, today + 1, last)
  <2>1. DOMAIN t.offsets \subseteq Shard
    BY <1>5, TotalsAre, OffsetsAre DEF Fits
  <2> QED
    BY <1>4, <1>5, <2>1 DEF Fits
<1>6. TotalsFit'
  BY <1>1, <1>2, <1>5 DEF TotalsFit
<1>7. FilesFit'
  <2>1. DOMAIN files \subseteq Shard
    BY <1>1 DEF FilesFit, FilesAre
  <2>2. \A s \in DOMAIN files : s[1] <= today + 1
    <3>1. \A s \in DOMAIN files : s[1] <= today /\ s[1] \in Nat
      BY <1>1, <2>1, ShardsAre DEF FilesFit, FilesAre
    <3> QED
      BY <1>3, <3>1
  <2> QED
    BY <1>1, <1>2, <2>2 DEF FilesFit, FilesAre
<1>8. ChangedDates' = ChangedDates
  BY <1>2 DEF ChangedDates
<1>9. Indexed'
  <2>1. DOMAIN progress \subseteq Shard
    BY <1>1, OffsetsAre DEF Indexed, RowsFit
  <2>2. RowsFit'
    BY <1>1, <1>2, <1>4, <2>1 DEF Indexed, RowsFit
  <2> QED
    BY <1>1, <1>2, <1>8, <2>2 DEF Indexed, RowsOfLines, ShortFiles, RowsAreThere, Unchanged
<1>10. WritingFits' /\ AllCounted' /\ InUse'
  <2>1. WritingFits'
    BY <1>1, <1>2 DEF WritingFits, Writing
  <2>2. AllCounted'
    BY <1>1, <1>2 DEF AllCounted, Writing, InHand
  <2>3. InUse'
    BY <1>1, <1>2, <1>8 DEF InUse, InHand
  <2> QED
    BY <2>1, <2>2, <2>3
<1>11. Typed'
  BY <1>1, <1>2, <1>3 DEF Typed
<1> QED
  BY <1>6, <1>7, <1>9, <1>10, <1>11 DEF LogInv
-----------------------------------------------------------------------------
(* initialize *)

\* Lines beyond an offset are counted by the reading that begins there.
LEMMA ReplayedFits ==
    ASSUME Typed, FilesFit, NEW t, Fits(t, files, today, last)
    PROVE  /\ Fits(Replayed(t), files, today, last)
           /\ \A id \in Ids : t.count[id] <= Replayed(t).count[id]
           /\ \A s \in DOMAIN files : \A p \in LineEnds(files[s]) :
                  p <= At(Replayed(t).offsets, s)
<1> DEFINE From(s) == At(t.offsets, s)
           C(id) == {s \in DOMAIN files : id \in Records(files[s], From(s))}
           count == [id \in Ids |-> t.count[id] + Cardinality(C(id))]
           D == DOMAIN t.offsets \cup DOMAIN files
           offsets == [s \in D |-> IF s \in DOMAIN files THEN SafeEnd(files[s], From(s))
                                                         ELSE t.offsets[s]]
<1>1. /\ DOMAIN files \subseteq Shard /\ OneLine(files) /\ last \in Nat
      /\ \A s \in DOMAIN files : files[s] \in Seq(Cell) /\ Whole(files[s])
      /\ \A s \in DOMAIN files : \A p \in LineEnds(files[s]) : files[s][p][1] <= last
  BY LogStoreAssumption DEF FilesFit, FilesAre, Typed
<1>2. \A s \in DOMAIN files : \A p \in LineEnds(files[s]) :
          p \in Nat \ {0} /\ files[s][p][1] \in Ids
  BY <1>1, EndsAre
<1>3. /\ t \in Totals /\ \A s \in DOMAIN t.offsets : Kept(s, files, today)
      /\ AtLines(t.offsets, files) /\ Divided(t, files)
      /\ \A id \in Ids : id > last => t.count[id] = 0
  BY DEF Fits
<1>4. t.offsets \in Offsets /\ \A id \in Ids : t.count[id] \in {0, 1}
  BY <1>3, TotalsAre
<1>5. \A s : From(s) \in Nat
  BY <1>4, OffsetsAre
<1>6. \A s \in DOMAIN files : From(s) \in {0} \cup LineEnds(files[s])
  BY <1>3 DEF AtLines
<1>7. Replayed(t) = [count |-> count, offsets |-> offsets]
  <2>1. \A id \in Ids : {s \in DOMAIN files :
            id \in [u \in DOMAIN files |-> Records(files[u], At(t.offsets, u))][s]} = C(id)
    OBVIOUS
  <2> QED
    BY <2>1 DEF Replayed, Recount
<1> HIDE DEF From
<1>8. \A s \in DOMAIN files : Parsed(files[s], From(s)) = {p \in Parsed(files[s], 0) : p > From(s)}
  BY <1>1, <1>6, ParsedIs
<1>9. \A id : \A s \in DOMAIN files :
          s \in C(id) <=> \E p \in Parsed(files[s], 0) : p > From(s) /\ files[s][p][1] = id
  BY <1>8 DEF Records
<1>10. \A s \in DOMAIN files : Parsed(files[s], 0) \subseteq LineEnds(files[s])
  BY DEF Parsed
<1> HIDE DEF C
<1>11. ASSUME NEW id \in Ids
       PROVE  /\ C(id) = {} \/ \E s : C(id) = {s}
              /\ C(id) # {} => t.count[id] = 0 /\ id <= last
  <2>1. ASSUME NEW s \in C(id), NEW u \in C(id)
        PROVE  s = u
    <3>1. s \in DOMAIN files /\ u \in DOMAIN files
      BY DEF C
    <3>2. PICK p \in Parsed(files[s], 0) : files[s][p][1] = id
      BY <1>9, <3>1
    <3>3. PICK q \in Parsed(files[u], 0) : files[u][q][1] = id
      BY <1>9, <3>1
    <3>4. p \in LineEnds(files[s]) /\ q \in LineEnds(files[u])
      BY <1>10, <3>1
    <3> QED
      BY <1>1, <3>1, <3>2, <3>3, <3>4 DEF OneLine
  <2>2. ASSUME NEW s \in C(id)
        PROVE  t.count[id] = 0 /\ id <= last
    <3>1. s \in DOMAIN files
      BY DEF C
    <3>2. PICK p \in Parsed(files[s], 0) : p > From(s) /\ files[s][p][1] = id
      BY <1>9, <3>1
    <3>3. p \in LineEnds(files[s]) /\ p \in Nat
      BY <1>2, <1>10, <3>1
    <3>4. ~ (p <= At(t.offsets, s))
      BY <1>5, <3>2, <3>3 DEF From
    <3>5. t.count[files[s][p][1]] = 0
      BY <1>3, <3>1, <3>3, <3>4 DEF Divided
    <3> QED
      BY <1>1, <3>1, <3>2, <3>3, <3>5
  <2>3. ASSUME NEW s \in C(id)
        PROVE  C(id) = {s}
    BY <2>1
  <2> QED
    BY <2>2, <2>3
<1>12. \A id \in Ids : /\ C(id) = {} => Cardinality(C(id)) = 0
                       /\ C(id) # {} => Cardinality(C(id)) = 1
  BY <1>11, FS_EmptySet, FS_Singleton
<1>13. \A id \in Ids : /\ count[id] \in {0, 1} /\ t.count[id] <= count[id]
                       /\ C(id) # {} => count[id] = 1
                       /\ C(id) = {} => count[id] = t.count[id]
  BY <1>4, <1>11, <1>12
<1>14. count \in [Ids -> {0, 1}]
  BY <1>13
<1> HIDE DEF count
<1>15. /\ offsets \in Offsets
       /\ \A s \in DOMAIN files : At(offsets, s) = SafeEnd(files[s], From(s))
  <2>1. D \in SUBSET Shard
    BY <1>1, <1>4, OffsetsAre
  <2>2. \A s \in DOMAIN files : SafeEnd(files[s], From(s)) \in Nat
    BY <1>1, <1>2, <1>6, SafeEndIs
  <2>3. \A s \in DOMAIN t.offsets : t.offsets[s] \in Nat
    BY <1>4, OffsetsAre
  <2>4. offsets \in [D -> Nat]
    BY <2>2, <2>3
  <2> QED
    BY <2>1, <2>4 DEF Offsets, At
<1>16. \A s \in DOMAIN files : /\ At(offsets, s) \in {0} \cup LineEnds(files[s])
                               /\ \A p \in LineEnds(files[s]) : p <= At(offsets, s)
  BY <1>1, <1>6, <1>15, SafeEndIs
<1>17. \A s \in DOMAIN offsets : Kept(s, files, today)
  BY <1>3 DEF Kept
<1> HIDE DEF offsets
<1> DEFINE r == Replayed(t)
<1>18. r \in Totals /\ r.count = count /\ r.offsets = offsets
  BY <1>7, <1>14, <1>15 DEF Totals
<1> HIDE DEF r
<1>19. ASSUME NEW s \in DOMAIN files, NEW p \in LineEnds(files[s]), p \in Parsed(files[s], 0)
       PROVE  count[files[s][p][1]] = 1
  <2>1. CASE p <= From(s)
    <3>1. t.count[files[s][p][1]] = 1
      BY <1>3, <1>19, <2>1 DEF Divided, From
    <3>2. count[files[s][p][1]] \in {0, 1} /\ t.count[files[s][p][1]] <= count[files[s][p][1]]
      BY <1>2, <1>13
    <3> QED
      BY <3>1, <3>2
  <2>2. CASE p > From(s)
    <3>1. s \in C(files[s][p][1])
      BY <1>9, <1>19, <2>2
    <3> QED
      BY <1>2, <1>13, <3>1
  <2> QED
    BY <1>2, <1>5, <2>1, <2>2
<1>20. Divided(r, files)
  BY <1>16, <1>18, <1>19 DEF Divided
<1>21. AtLines(r.offsets, files)
  BY <1>16, <1>18 DEF AtLines
<1>22. ASSUME NEW id \in Ids, id > last
       PROVE  count[id] = 0
  <2>1. id \in Nat
    BY LogStoreAssumption DEF Ids
  <2>2. ~ (id <= last)
    BY <1>1, <1>22, <2>1
  <2> QED
    BY <1>3, <1>11, <1>13, <1>22, <2>2
<1>23. Fits(r, files, today, last)
  BY <1>17, <1>18, <1>20, <1>21, <1>22 DEF Fits
<1> QED
  BY <1>13, <1>16, <1>18, <1>23 DEF r

\* Nothing counted, nothing read.
LEMMA NoTotalsFit ==
    ASSUME FilesFit
    PROVE  Fits(NoTotals, files, today, last)
<1>1. <<>> \in Offsets /\ DOMAIN <<>> = {}
  <2>1. <<>> \in Seq(Nat) /\ Len(<<>>) = 0
    BY EmptySeq
  <2>2. <<>> \in [1..0 -> Nat] /\ DOMAIN <<>> = 1..0
    BY <2>1, LenProperties
  <2>3. 1..0 = {}
    OBVIOUS
  <2>4. {} \in SUBSET Shard
    OBVIOUS
  <2> QED
    BY <2>2, <2>3, <2>4 DEF Offsets
<1>2. /\ NoTotals \in Totals /\ NoTotals.offsets = <<>>
      /\ \A id \in Ids : NoTotals.count[id] = 0
  BY <1>1 DEF NoTotals, Totals
<1>3. \A s : At(<<>>, s) = 0
  BY <1>1 DEF At
<1>4. AtLines(NoTotals.offsets, files)
  BY <1>2, <1>3 DEF AtLines
<1>5. Divided(NoTotals, files)
  <2>1. \A s \in DOMAIN files : files[s] \in Seq(Cell)
    BY DEF FilesFit, FilesAre
  <2>2. \A s \in DOMAIN files : \A p \in LineEnds(files[s]) :
            p \in Nat \ {0} /\ files[s][p][1] \in Ids
    BY <2>1, EndsAre
  <2>3. \A s \in DOMAIN files : \A p \in LineEnds(files[s]) :
            ~ (p <= 0) /\ NoTotals.count[files[s][p][1]] = 0
    BY <1>2, <2>2
  <2> QED
    BY <1>2, <1>3, <2>3 DEF Divided
<1> QED
  BY <1>1, <1>2, <1>4, <1>5 DEF Fits

\* Under LogInv no saved offset is ahead of its file: unless something cannot be
\* read, the totals are never counted anew from the files that are left.
LEMMA RecoveredFits ==
    ASSUME LogInv, "rebuild" \notin ReadErrors,
           NEW failed \in SUBSET ReadErrors, NEW t \in Recovered(failed)
    PROVE  /\ Fits(t, files, today, last)
           /\ failed = {} /\ summary # <<>> =>
                  \A id \in Ids : summary.count[id] <= t.count[id]
           /\ \A s \in DOMAIN files : \A p \in LineEnds(files[s]) : p <= At(t.offsets, s)
<1>1. Typed /\ FilesFit /\ TotalsFit
  BY DEF LogInv
<1>2. Rebuilds(failed) = {Rebuilt}
  BY DEF Rebuilds
<1>3. /\ Fits(Rebuilt, files, today, last)
      /\ \A s \in DOMAIN files : \A p \in LineEnds(files[s]) : p <= At(Rebuilt.offsets, s)
  BY <1>1, NoTotalsFit, ReplayedFits DEF Rebuilt
<1>4. ASSUME NEW u, Fits(u, files, today, last), t \in TailRead(u, failed)
      PROVE  /\ Fits(t, files, today, last)
             /\ failed = {} => \A id \in Ids : u.count[id] <= t.count[id]
             /\ \A s \in DOMAIN files : \A p \in LineEnds(files[s]) : p <= At(t.offsets, s)
  <2>1. ASSUME NEW s \in DOMAIN files
        PROVE  ~ (At(u.offsets, s) > Len(files[s]))
    <3>1. At(u.offsets, s) \in {0} \cup LineEnds(files[s])
      BY <1>4 DEF Fits, AtLines
    <3>2. files[s] \in Seq(Cell)
      BY <1>1 DEF FilesFit, FilesAre
    <3>3. Len(files[s]) \in Nat /\ \A p \in LineEnds(files[s]) : p \in Nat /\ p <= Len(files[s])
      BY <3>2, EndsAre
    <3> QED
      BY <3>1, <3>3
  <2>2. ~Truncated(u)
    BY <2>1 DEF Truncated
  <2>3. t = Replayed(u) \/ (t = Rebuilt /\ failed # {})
    BY <1>2, <1>4, <2>2 DEF TailRead
  <2> QED
    BY <1>1, <1>3, <1>4, <2>3, ReplayedFits
<1>5. PICK u \in IF summary = <<>> \/ "summary" \in failed THEN Rebuilds(failed) ELSE {summary} :
          t \in TailRead(u, failed)
  BY DEF Recovered
<1>6. CASE summary = <<>> \/ "summary" \in failed
  <2>1. u = Rebuilt
    BY <1>2, <1>5, <1>6
  <2> QED
    BY <1>3, <1>4, <1>5, <1>6, <2>1
<1>7. CASE summary # <<>> /\ "summary" \notin failed
  <2>1. u = summary
    BY <1>5, <1>7
  <2> QED
    BY <1>1, <1>4, <1>5, <1>7, <2>1 DEF TotalsFit
<1> QED
  BY <1>6, <1>7

LEMMA KeepLoad ==
    ASSUME LogInv, Load, "rebuild" \notin ReadErrors
    PROVE  LogInv'
<1>1. /\ Typed /\ FilesFit /\ TotalsFit /\ WritingFits /\ AllCounted /\ Indexed /\ InUse
  BY DEF LogInv
<1>2. /\ pc = "down" /\ pc' = "loaded"
      /\ UNCHANGED <<files, summary, rows, progress, indexing, writing, today, last>>
      /\ unread' \in SUBSET ReadErrors /\ cache' \in Recovered(unread')
  BY DEF Load
<1>3. /\ Fits(cache', files, today, last)
      /\ unread' = {} /\ summary # <<>> =>
             \A id \in Ids : summary.count[id] <= cache'.count[id]
      /\ \A s \in DOMAIN files : \A p \in LineEnds(files[s]) : p <= At(cache'.offsets, s)
  BY <1>2, RecoveredFits
<1>4. cache' # <<>>
  BY <1>3, TotalsAre DEF Fits
<1>5. TotalsFit'
  BY <1>1, <1>2, <1>3 DEF TotalsFit
<1>6. AllCounted'
  BY <1>2, <1>3, <1>4 DEF AllCounted
<1>7. WritingFits' /\ FilesFit' /\ Typed'
  <2>1. Typed'
    BY <1>1, <1>2 DEF Typed
  <2> QED
    BY <1>1, <1>2, <2>1 DEF WritingFits, Writing, FilesFit
<1>8. ChangedDates' = ChangedDates
  BY <1>2 DEF ChangedDates
<1>9. Indexed'
  BY <1>1, <1>2, <1>8 DEF Indexed, RowsFit, RowsOfLines, ShortFiles, RowsAreThere, Unchanged
<1>10. InUse'
  BY <1>1, <1>2 DEF InUse
<1> QED
  BY <1>5, <1>6, <1>7, <1>9, <1>10 DEF LogInv

\* Old files go, day by day; what was counted in them stays counted.
LEMMA KeepCleanup ==
    ASSUME LogInv, Cleanup
    PROVE  LogInv'
<1>1. /\ Typed /\ FilesFit /\ TotalsFit /\ WritingFits /\ AllCounted /\ Indexed /\ InUse
  BY DEF LogInv
<1>2. PICK cutoff \in 1..today : files' = Without(files, {s \in DOMAIN files : s[1] < cutoff})
  BY DEF Cleanup
<1>3. /\ pc = "loaded" /\ pc' = "cleaned"
      /\ UNCHANGED <<summary, rows, progress, cache, indexing, writing, today, last, unread>>
  BY DEF Cleanup
<1>4. /\ DOMAIN files \subseteq Shard /\ today \in Nat
      /\ \A s \in DOMAIN files : s[1] \in Nat /\ s[1] <= today
  BY <1>1, ShardsAre, LogStoreAssumption DEF FilesFit, FilesAre, Typed, Dates
<1>5. /\ DOMAIN files' = {s \in DOMAIN files : ~ (s[1] < cutoff)}
      /\ \A s \in DOMAIN files' : files'[s] = files[s] /\ s \in DOMAIN files
  BY <1>2 DEF Without
<1>6. ASSUME NEW s \in Shard, Kept(s, files, today)
      PROVE  Kept(s, files', today)
  <2>1. CASE s[1] < cutoff
    <3>1. s[1] \in Nat /\ s[1] < today
      BY <1>4, <2>1, ShardsAre
    <3>2. OfDate(s[1], DOMAIN files') = {}
      BY <1>5, <2>1 DEF OfDate
    <3> QED
      BY <3>1, <3>2 DEF Kept
  <2>2. CASE ~ (s[1] < cutoff)
    BY <1>5, <1>6, <2>2 DEF Kept, OfDate
  <2> QED
    BY <2>1, <2>2
<1>7. ASSUME NEW t, Fits(t, files, today, last)
      PROVE  Fits(t, files', today, last)
  <2>1. DOMAIN t.offsets \subseteq Shard
    BY <1>7, TotalsAre, OffsetsAre DEF Fits
  <2>2. AtLines(t.offsets, files') /\ Divided(t, files')
    BY <1>5, <1>7 DEF Fits, AtLines, Divided
  <2> QED
    BY <1>6, <1>7, <2>1, <2>2 DEF Fits
<1>8. FilesFit'
  <2>1. OneLine(files')
    BY <1>1, <1>5 DEF OneLine, FilesFit, FilesAre
  <2>2. \E b \in Nat : \A s \in DOMAIN files' : s[2] <= b
    BY <1>1, <1>5 DEF FilesFit, FilesAre
  <2> QED
    BY <1>1, <1>3, <1>4, <1>5, <2>1, <2>2 DEF FilesFit, FilesAre
<1>9. TotalsFit'
  BY <1>1, <1>3, <1>7 DEF TotalsFit
<1>10. AllCounted'
  BY <1>1, <1>3, <1>5 DEF AllCounted, Writing
<1>11. WritingFits' /\ Typed' /\ InUse'
  <2>1. Typed'
    BY <1>1, <1>3 DEF Typed
  <2>2. WritingFits'
    BY <1>3 DEF WritingFits, Writing
  <2>3. InUse'
    BY <1>1, <1>3 DEF InUse
  <2> QED
    BY <2>1, <2>2, <2>3
<1>12. ASSUME NEW s \in DOMAIN files', Unchanged(s)'
       PROVE  Unchanged(s)
  <2>1. SUFFICES ASSUME NEW u \in DOMAIN files, At(progress, u) > Len(files[u]), u[1] = s[1]
                 PROVE  FALSE
    BY DEF Unchanged, ChangedDates
  <2>2. u \in DOMAIN files'
    BY <1>5, <2>1
  <2>3. At(progress', u) > Len(files'[u])
    BY <1>3, <1>5, <2>1, <2>2
  <2>4. s[1] \in ChangedDates'
    BY <2>1, <2>2, <2>3 DEF ChangedDates
  <2> QED
    BY <1>12, <2>4 DEF Unchanged
<1>13. RowsFit'
  <2>1. DOMAIN progress \subseteq Shard
    BY <1>1, OffsetsAre DEF Indexed, RowsFit
  <2> QED
    BY <1>1, <1>3, <1>6, <2>1 DEF Indexed, RowsFit
<1>14. RowsOfLines'
  <2>1. ASSUME NEW s \in DOMAIN files', NEW p \in LineEnds(files'[s]), NEW r \in DOMAIN rows
        PROVE  /\ rows[r] = files'[s][p][1] => r[1][1] = s[1]
               /\ Unchanged(s)' => (rows[r] = files'[s][p][1] <=> r = <<s, p>>)
    BY <1>1, <1>5, <1>12 DEF Indexed, RowsOfLines
  <2> QED
    BY <1>3, <2>1 DEF RowsOfLines
<1>15. ShortFiles'
  <2>1. ASSUME NEW s \in DOMAIN files', At(progress, s) > Len(files'[s])
        PROVE  \E u \in DOMAIN files' : u[1] = s[1] /\ u[2] > s[2]
    <3>1. PICK u \in DOMAIN files : u[1] = s[1] /\ u[2] > s[2]
      BY <1>1, <1>5, <2>1 DEF Indexed, ShortFiles
    <3> QED
      BY <1>5, <3>1
  <2> QED
    BY <1>3, <2>1 DEF ShortFiles
<1>16. RowsAreThere'
  <2>1. ASSUME NEW s \in DOMAIN files', Unchanged(s)'
        PROVE  /\ At(progress, s) \in {0} \cup LineEnds(files'[s])
               /\ \A p \in Parsed(files'[s], 0) : p <= At(progress, s) => <<s, p>> \in DOMAIN rows
    <3>1. s \in DOMAIN files /\ files'[s] = files[s] /\ Unchanged(s)
      BY <1>5, <1>12, <2>1
    <3> QED
      BY <1>1, <3>1 DEF Indexed, RowsAreThere
  <2> QED
    BY <1>3, <2>1 DEF RowsAreThere
<1> QED
  BY <1>8, <1>9, <1>10, <1>11, <1>13, <1>14, <1>15, <1>16 DEF LogInv, Indexed

LEMMA KeepSaveRecovered ==
    ASSUME LogInv, SaveRecovered
    PROVE  LogInv'
<1>1. /\ Typed /\ FilesFit /\ TotalsFit /\ WritingFits /\ AllCounted /\ Indexed /\ InUse
  BY DEF LogInv
<1>2. /\ pc = "cleaned" /\ pc' = "saved"
      /\ UNCHANGED <<files, rows, progress, cache, indexing, writing, today, last, unread>>
      /\ summary' = cache \/ summary' = summary
  BY DEF SaveRecovered
<1>3. cache # <<>>
  BY <1>1, <1>2 DEF AllCounted
<1>4. TotalsFit'
  <2>1. CASE summary' = summary
    BY <1>1, <1>2, <2>1 DEF TotalsFit
  <2>2. CASE summary' = cache
    <3>1. \A id \in Ids : cache.count[id] <= cache.count[id]
      BY <1>1, <1>3, TotalsAre DEF TotalsFit, Fits
    <3> QED
      BY <1>1, <1>2, <2>2, <3>1 DEF TotalsFit
  <2> QED
    BY <1>2, <2>1, <2>2
<1>5. ChangedDates' = ChangedDates
  BY <1>2 DEF ChangedDates
<1>6. Indexed'
  BY <1>1, <1>2, <1>5 DEF Indexed, RowsFit, RowsOfLines, ShortFiles, RowsAreThere, Unchanged
<1>7. Typed'
  BY <1>1, <1>2 DEF Typed
<1>8. WritingFits' /\ AllCounted' /\ InUse' /\ FilesFit'
  BY <1>1, <1>2 DEF WritingFits, Writing, AllCounted, InUse, FilesFit
<1> QED
  BY <1>4, <1>6, <1>7, <1>8 DEF LogInv
-----------------------------------------------------------------------------
(* The recovery of the index *)

\* A day that is forgotten is indexed anew.
LEMMA KeepIndexForget ==
    ASSUME LogInv, IndexForget
    PROVE  LogInv'
<1>1. /\ Typed /\ FilesFit /\ TotalsFit /\ WritingFits /\ AllCounted /\ Indexed /\ InUse
  BY DEF LogInv
<1>2. /\ pc = "saved"
      /\ UNCHANGED <<files, summary, pc, cache, indexing, writing, today, last, unread>>
  BY DEF IndexForget
<1>3. PICK d \in ChangedDates :
          /\ rows' = Without(rows, {r \in DOMAIN rows : r[1][1] = d})
          /\ progress' = Without(progress, OfDate(d, DOMAIN progress))
  BY DEF IndexForget
<1>4. /\ progress \in Offsets /\ \A s \in DOMAIN progress : Kept(s, files, today)
      /\ DOMAIN rows \subseteq Shard \X Nat
      /\ \A r \in DOMAIN rows : /\ r[1] \in DOMAIN progress /\ r[2] <= progress[r[1]]
                                /\ rows[r] \in 1..last
      /\ \A r, q \in DOMAIN rows : rows[r] = rows[q] => r = q
  BY <1>1 DEF Indexed, RowsFit
<1>5. /\ DOMAIN rows' = {r \in DOMAIN rows : r[1][1] # d}
      /\ \A r \in DOMAIN rows' : rows'[r] = rows[r] /\ r \in DOMAIN rows
  BY <1>3 DEF Without
<1>6. /\ progress' \in Offsets /\ DOMAIN progress' \subseteq DOMAIN progress
      /\ \A s : s[1] # d => /\ At(progress', s) = At(progress, s)
                            /\ s \in DOMAIN progress =>
                                  s \in DOMAIN progress' /\ progress'[s] = progress[s]
      /\ \A s : s[1] = d => At(progress', s) = 0
  <2>1. PICK S \in SUBSET Shard : progress \in [S -> Nat]
    BY <1>4 DEF Offsets
  <2>2. S \ OfDate(d, S) \in SUBSET Shard
    OBVIOUS
  <2>3. progress' \in [S \ OfDate(d, S) -> Nat]
    BY <1>3, <2>1 DEF Without
  <2>4. progress' \in Offsets
    BY <2>2, <2>3 DEF Offsets
  <2>5. /\ DOMAIN progress' = {s \in DOMAIN progress : s[1] # d}
        /\ \A s \in DOMAIN progress' : progress'[s] = progress[s]
    BY <1>3 DEF Without, OfDate
  <2> QED
    BY <2>4, <2>5 DEF At
<1>7. /\ \A s \in DOMAIN files : files[s] \in Seq(Cell) /\ Len(files[s]) \in Nat
      /\ \A s \in DOMAIN files : \A p \in Parsed(files[s], 0) : p \in Nat \ {0}
  <2>1. \A s \in DOMAIN files : files[s] \in Seq(Cell)
    BY <1>1 DEF FilesFit, FilesAre
  <2> QED
    BY <2>1, EndsAre DEF Parsed
<1>8. ASSUME NEW s \in DOMAIN files, Unchanged(s)', s[1] # d
      PROVE  Unchanged(s)
  <2>1. SUFFICES ASSUME NEW u \in DOMAIN files, At(progress, u) > Len(files[u]), u[1] = s[1]
                 PROVE  FALSE
    BY DEF Unchanged, ChangedDates
  <2>2. At(progress', u) > Len(files'[u]) /\ u \in DOMAIN files'
    BY <1>2, <1>6, <1>8, <2>1
  <2>3. s[1] \in ChangedDates'
    BY <2>1, <2>2 DEF ChangedDates
  <2> QED
    BY <1>8, <2>3 DEF Unchanged
<1>9. RowsFit'
  <2>1. ASSUME NEW r \in DOMAIN rows'
        PROVE  r[1] \in DOMAIN progress' /\ r[2] <= progress'[r[1]] /\ rows'[r] \in 1..last
    <3>1. r \in DOMAIN rows /\ r[1][1] # d /\ rows'[r] = rows[r]
      BY <1>5
    <3> QED
      BY <1>4, <1>6, <3>1
  <2>2. \A r, q \in DOMAIN rows' : rows'[r] = rows'[q] => r = q
    BY <1>4, <1>5
  <2>3. DOMAIN rows' \subseteq Shard \X Nat
    BY <1>4, <1>5
  <2> QED
    BY <1>2, <1>4, <1>6, <2>1, <2>2, <2>3 DEF RowsFit
<1>10. RowsOfLines'
  <2>1. ASSUME NEW s \in DOMAIN files, NEW p \in LineEnds(files[s]), NEW r \in DOMAIN rows'
        PROVE  /\ rows'[r] = files[s][p][1] => r[1][1] = s[1]
               /\ Unchanged(s)' => (rows'[r] = files[s][p][1] <=> r = <<s, p>>)
    <3>1. r \in DOMAIN rows /\ r[1][1] # d /\ rows'[r] = rows[r]
      BY <1>5
    <3>2. rows[r] = files[s][p][1] => r[1][1] = s[1]
      BY <1>1, <3>1 DEF Indexed, RowsOfLines
    <3>3. CASE s[1] = d
      <4>1. r # <<s, p>>
        BY <3>1, <3>3
      <4> QED
        BY <3>1, <3>2, <3>3, <4>1
    <3>4. CASE s[1] # d
      BY <1>1, <1>8, <3>1, <3>2, <3>4 DEF Indexed, RowsOfLines
    <3> QED
      BY <3>3, <3>4
  <2> QED
    BY <1>2, <2>1 DEF RowsOfLines
<1>11. ShortFiles'
  <2>1. ASSUME NEW s \in DOMAIN files, At(progress', s) > Len(files[s])
        PROVE  \E u \in DOMAIN files : u[1] = s[1] /\ u[2] > s[2]
    <3>1. CASE s[1] = d
      <4>1. At(progress', s) = 0 /\ Len(files[s]) \in Nat
        BY <1>6, <1>7, <3>1
      <4> QED
        BY <2>1, <4>1
    <3>2. CASE s[1] # d
      BY <1>1, <1>6, <2>1, <3>2 DEF Indexed, ShortFiles
    <3> QED
      BY <3>1, <3>2
  <2> QED
    BY <1>2, <2>1 DEF ShortFiles
<1>12. RowsAreThere'
  <2>1. ASSUME NEW s \in DOMAIN files, Unchanged(s)'
        PROVE  /\ At(progress', s) \in {0} \cup LineEnds(files[s])
               /\ \A p \in Parsed(files[s], 0) : p <= At(progress', s) => <<s, p>> \in DOMAIN rows'
    <3>1. CASE s[1] = d
      <4>1. At(progress', s) = 0
        BY <1>6, <3>1
      <4>2. \A p \in Parsed(files[s], 0) : ~ (p <= 0)
        BY <1>7
      <4> QED
        BY <4>1, <4>2
    <3>2. CASE s[1] # d
      <4>1. /\ At(progress, s) \in {0} \cup LineEnds(files[s])
            /\ \A p \in Parsed(files[s], 0) : p <= At(progress, s) => <<s, p>> \in DOMAIN rows
        BY <1>1, <1>8, <2>1, <3>2 DEF Indexed, RowsAreThere
      <4>2. At(progress', s) = At(progress, s)
        BY <1>6, <3>2
      <4> QED
        BY <1>5, <3>2, <4>1, <4>2
    <3> QED
      BY <3>1, <3>2
  <2> QED
    BY <1>2, <2>1 DEF RowsAreThere
<1>13. Typed'
  BY <1>1, <1>2 DEF Typed
<1>14. WritingFits' /\ AllCounted' /\ InUse' /\ FilesFit' /\ TotalsFit'
  BY <1>1, <1>2 DEF WritingFits, Writing, AllCounted, InHand, InUse, FilesFit, TotalsFit
<1> QED
  BY <1>9, <1>10, <1>11, <1>12, <1>13, <1>14 DEF LogInv, Indexed

\* A batch of lines gets its rows.
LEMMA KeepIndexBatch ==
    ASSUME LogInv, IndexBatch
    PROVE  LogInv'
<1>1. /\ Typed /\ FilesFit /\ TotalsFit /\ WritingFits /\ AllCounted /\ Indexed /\ InUse
  BY DEF LogInv
<1>2. /\ pc = "saved" /\ ChangedDates = {}
      /\ UNCHANGED <<files, summary, pc, cache, indexing, writing, today, last, unread>>
  BY DEF IndexBatch
<1>3. PICK s \in Behind : \E to \in {p \in LineEnds(files[s]) : p > At(progress, s)} :
          LET new == {p \in Parsed(files[s], At(progress, s)) : p <= to}
          IN  /\ rows' = [r \in DOMAIN rows \cup ({s} \X new) |->
                             IF r \in DOMAIN rows THEN rows[r] ELSE files[s][r[2]][1]]
              /\ progress' = Put(progress, s, to)
  BY DEF IndexBatch
<1> DEFINE from == At(progress, s)
<1>4. PICK to \in LineEnds(files[s]) :
          /\ to > from
          /\ LET new == {p \in Parsed(files[s], from) : p <= to}
             IN  /\ rows' = [r \in DOMAIN rows \cup ({s} \X new) |->
                                IF r \in DOMAIN rows THEN rows[r] ELSE files[s][r[2]][1]]
                 /\ progress' = Put(progress, s, to)
  BY <1>3
<1> DEFINE new == {p \in Parsed(files[s], from) : p <= to}
<1>5. /\ s \in DOMAIN files /\ DOMAIN files \subseteq Shard /\ OneLine(files) /\ last \in Nat
      /\ \A u \in DOMAIN files : files[u] \in Seq(Cell) /\ Whole(files[u])
      /\ \A u \in DOMAIN files : \A p \in LineEnds(files[u]) : files[u][p][1] <= last
  BY <1>1, LogStoreAssumption DEF Behind, FilesFit, FilesAre, Typed
<1>6. \A u \in DOMAIN files : /\ Len(files[u]) \in Nat
                              /\ \A p \in LineEnds(files[u]) : /\ p \in Nat \ {0} /\ p <= Len(files[u])
                                                               /\ files[u][p][1] \in Ids
  BY <1>5, EndsAre
<1>7. /\ progress \in Offsets /\ \A u \in DOMAIN progress : Kept(u, files, today)
      /\ DOMAIN rows \subseteq Shard \X Nat
      /\ \A r \in DOMAIN rows : /\ r[1] \in DOMAIN progress /\ r[2] <= progress[r[1]]
                                /\ rows[r] \in 1..last
      /\ \A r, q \in DOMAIN rows : rows[r] = rows[q] => r = q
  BY <1>1 DEF Indexed, RowsFit
<1>8. \A u : At(progress, u) \in Nat /\ (u \in DOMAIN progress => At(progress, u) = progress[u])
  BY <1>7, OffsetsAre
<1>9. \A u \in DOMAIN files :
          /\ At(progress, u) \in {0} \cup LineEnds(files[u])
          /\ \A p \in Parsed(files[u], 0) : p <= At(progress, u) => <<u, p>> \in DOMAIN rows
  BY <1>1, <1>2 DEF Indexed, RowsAreThere, Unchanged
<1>10. \A u \in DOMAIN files : \A p \in LineEnds(files[u]), r \in DOMAIN rows :
            rows[r] = files[u][p][1] <=> r = <<u, p>>
  BY <1>1, <1>2 DEF Indexed, RowsOfLines, Unchanged
<1>11. /\ progress' \in Offsets /\ DOMAIN progress' = DOMAIN progress \cup {s}
       /\ \A u : At(progress', u) = IF u = s THEN to ELSE At(progress, u)
  <2>1. progress \in Offsets /\ s \in Shard /\ to \in Nat
    BY <1>5, <1>6, <1>7
  <2>2. /\ Put(progress, s, to) \in Offsets
        /\ DOMAIN Put(progress, s, to) = DOMAIN progress \cup {s}
        /\ \A u : At(Put(progress, s, to), u) = IF u = s THEN to ELSE At(progress, u)
    BY <2>1, PutOffset, ZenonT(30)
  <2>3. progress' = Put(progress, s, to)
    BY <1>4
  <2> QED
    BY <2>2, <2>3
<1>12. new = {p \in Parsed(files[s], 0) : p > from /\ p <= to}
  BY <1>5, <1>9, ParsedIs
<1>13. /\ DOMAIN rows' = DOMAIN rows \cup ({s} \X new)
       /\ \A r \in DOMAIN rows : rows'[r] = rows[r]
       /\ \A r \in DOMAIN rows' : r \notin DOMAIN rows => rows'[r] = files[s][r[2]][1]
  <2>1. rows' = [r \in DOMAIN rows \cup ({s} \X new) |->
                                IF r \in DOMAIN rows THEN rows[r] ELSE files[s][r[2]][1]]
    BY <1>4
  <2> QED
    BY <2>1
<1> HIDE DEF from
<1>14. new \subseteq LineEnds(files[s]) /\ \A p \in new : p \in Nat /\ p > from /\ p <= to
  BY <1>5, <1>6, <1>12 DEF Parsed
<1> HIDE DEF new
<1>15. ASSUME NEW r \in DOMAIN rows'
       PROVE  \/ r \in DOMAIN rows /\ rows'[r] = rows[r]
              \/ \E p \in LineEnds(files[s]) : /\ r = <<s, p>> /\ p \in new
                                               /\ rows'[r] = files[s][p][1]
  <2>1. CASE r \in DOMAIN rows
    BY <1>13, <2>1
  <2>2. CASE r \notin DOMAIN rows
    <3>1. r \in {s} \X new /\ rows'[r] = files[s][r[2]][1]
      BY <1>13, <2>2
    <3>2. r = <<s, r[2]>> /\ r[2] \in new
      BY <3>1
    <3> QED
      BY <1>14, <3>1, <3>2
  <2> QED
    BY <2>1, <2>2
<1>16. ASSUME NEW u \in DOMAIN files, NEW q \in LineEnds(files[u]), NEW r \in DOMAIN rows'
       PROVE  rows'[r] = files[u][q][1] <=> r = <<u, q>>
  <2>1. CASE r \in DOMAIN rows /\ rows'[r] = rows[r]
    BY <1>10, <2>1
  <2>2. CASE \E p \in LineEnds(files[s]) : /\ r = <<s, p>> /\ p \in new
                                           /\ rows'[r] = files[s][p][1]
    <3>1. PICK p \in LineEnds(files[s]) : r = <<s, p>> /\ rows'[r] = files[s][p][1]
      BY <2>2
    <3>2. ASSUME files[s][p][1] = files[u][q][1]
          PROVE  s = u /\ p = q
      <4>1. OneLine(files) /\ s \in DOMAIN files
        BY <1>5
      <4> QED
        BY <3>2, <4>1 DEF OneLine
    <3> QED
      BY <3>1, <3>2
  <2> QED
    BY <1>15, <2>1, <2>2
<1>17. \A u \in DOMAIN files : ~ (At(progress', u) > Len(files[u]))
  <2>1. \A u \in DOMAIN files : ~ (At(progress, u) > Len(files[u]))
    BY <1>2 DEF ChangedDates
  <2>2. ~ (to > Len(files[s]))
    BY <1>5, <1>6
  <2> QED
    BY <1>11, <2>1, <2>2
<1>18. ChangedDates' = {}
  BY <1>2, <1>17 DEF ChangedDates
<1>19. RowsFit'
  <2>1. \A u \in DOMAIN progress' : Kept(u, files, today)
    BY <1>5, <1>7, <1>11 DEF Kept
  <2>2. DOMAIN rows' \subseteq Shard \X Nat
    BY <1>5, <1>7, <1>13, <1>14
  <2>3. ASSUME NEW r \in DOMAIN rows'
        PROVE  r[1] \in DOMAIN progress' /\ r[2] <= progress'[r[1]] /\ rows'[r] \in 1..last
    <3>1. \A u \in DOMAIN progress' : progress'[u] = At(progress', u)
      BY <1>11, OffsetsAre
    <3>2. CASE r \in DOMAIN rows /\ rows'[r] = rows[r]
      <4>1. r[1] \in DOMAIN progress /\ r[2] <= At(progress, r[1]) /\ r[2] \in Nat
        BY <1>7, <1>8, <3>2
      <4>2. to \in Nat /\ At(progress, s) <= to
        BY <1>4, <1>5, <1>6, <1>8 DEF from
      <4>3. r[2] <= At(progress', r[1])
        BY <1>8, <1>11, <4>1, <4>2
      <4> QED
        BY <1>7, <1>11, <3>1, <3>2, <4>1, <4>3
    <3>3. CASE \E p \in LineEnds(files[s]) : /\ r = <<s, p>> /\ p \in new
                                             /\ rows'[r] = files[s][p][1]
      <4>1. PICK p \in LineEnds(files[s]) : /\ r = <<s, p>> /\ p \in new
                                            /\ rows'[r] = files[s][p][1]
        BY <3>3
      <4>2. r[1] = s /\ r[2] = p /\ p <= to /\ progress'[s] = to
        BY <1>11, <1>14, <3>1, <4>1
      <4>3. files[s][p][1] \in 1..last
        <5>1. files[s][p][1] \in Ids /\ files[s][p][1] <= last
          BY <1>5, <1>6
        <5> QED
          BY <1>5, <5>1, LogStoreAssumption DEF Ids
      <4> QED
        BY <1>11, <4>1, <4>2, <4>3
    <3> QED
      BY <1>15, <3>2, <3>3
  <2>4. ASSUME NEW r \in DOMAIN rows', NEW q \in DOMAIN rows', rows'[r] = rows'[q]
        PROVE  r = q
    <3>1. CASE r \in DOMAIN rows /\ rows'[r] = rows[r] /\ q \in DOMAIN rows /\ rows'[q] = rows[q]
      BY <1>7, <2>4, <3>1
    <3>2. CASE \E p \in LineEnds(files[s]) : r = <<s, p>> /\ rows'[r] = files[s][p][1]
      BY <1>5, <1>16, <2>4, <3>2
    <3>3. CASE \E p \in LineEnds(files[s]) : q = <<s, p>> /\ rows'[q] = files[s][p][1]
      BY <1>5, <1>16, <2>4, <3>3
    <3> QED
      BY <1>15, <3>1, <3>2, <3>3
  <2> QED
    BY <1>2, <1>11, <2>1, <2>2, <2>3, <2>4 DEF RowsFit
<1>20. RowsOfLines'
  <2>1. \A u \in DOMAIN files : \A p \in LineEnds(files[u]), r \in DOMAIN rows' :
            /\ rows'[r] = files[u][p][1] => r[1][1] = u[1]
            /\ rows'[r] = files[u][p][1] <=> r = <<u, p>>
    BY <1>16
  <2> QED
    BY <1>2, <2>1 DEF RowsOfLines
<1>21. ShortFiles'
  BY <1>2, <1>17 DEF ShortFiles
<1>22. RowsAreThere'
  <2>1. \A u \in DOMAIN files : At(progress', u) \in {0} \cup LineEnds(files[u])
    BY <1>9, <1>11
  <2>2. ASSUME NEW u \in DOMAIN files, NEW p \in Parsed(files[u], 0), p <= At(progress', u)
        PROVE  <<u, p>> \in DOMAIN rows'
    <3>1. CASE p <= At(progress, u)
      BY <1>9, <1>13, <3>1
    <3>2. CASE ~ (p <= At(progress, u))
      <4>1. u = s /\ p <= to
        BY <1>11, <2>2, <3>2
      <4>2. p \in Nat /\ from \in Nat
        BY <1>6, <1>8 DEF Parsed, from
      <4>3. p > from
        BY <3>2, <4>1, <4>2 DEF from
      <4>4. p \in new
        BY <1>12, <4>1, <4>3 DEF new
      <4> QED
        BY <1>13, <4>1, <4>4
    <3> QED
      BY <3>1, <3>2
  <2> QED
    BY <1>2, <2>1, <2>2 DEF RowsAreThere
<1>23. Typed'
  BY <1>1, <1>2 DEF Typed
<1>24. WritingFits' /\ AllCounted' /\ InUse' /\ FilesFit' /\ TotalsFit'
  BY <1>1, <1>2 DEF WritingFits, Writing, AllCounted, InHand, InUse, FilesFit, TotalsFit
<1> QED
  BY <1>19, <1>20, <1>21, <1>22, <1>23, <1>24 DEF LogInv, Indexed

LEMMA KeepReady ==
    ASSUME LogInv, Ready
    PROVE  LogInv'
<1>1. /\ Typed /\ FilesFit /\ TotalsFit /\ WritingFits /\ AllCounted /\ Indexed /\ InUse
  BY DEF LogInv
<1>2. /\ pc = "saved" /\ pc' = "ready"
      /\ UNCHANGED <<files, summary, rows, progress, cache, writing, today, last, unread>>
      /\ \/ ChangedDates = {} /\ Behind = {} /\ indexing' = TRUE
         \/ indexing' = indexing
  BY DEF Ready
<1>3. ~indexing
  BY <1>1, <1>2 DEF InUse
<1>4. ChangedDates' = ChangedDates
  BY <1>2 DEF ChangedDates
<1>5. Indexed'
  BY <1>1, <1>2, <1>4 DEF Indexed, RowsFit, RowsOfLines, ShortFiles, RowsAreThere, Unchanged
<1>6. Typed'
  <2>1. indexing \in BOOLEAN
    BY <1>1 DEF Typed
  <2>2. indexing' \in BOOLEAN
    BY <1>2, <2>1
  <2> QED
    BY <1>1, <1>2, <2>2 DEF Typed
<1>7. InUse'
  <2>1. CASE ChangedDates = {} /\ Behind = {}
    <3>1. ASSUME NEW s \in DOMAIN files, NEW p \in LineEnds(files[s])
          PROVE  p <= At(progress, s)
      <4>1. files[s] \in Seq(Cell)
        BY <1>1 DEF FilesFit, FilesAre
      <4>2. At(progress, s) \in {0} \cup LineEnds(files[s])
        BY <1>1, <2>1 DEF Indexed, RowsAreThere, Unchanged
      <4>3. /\ p <= SafeEnd(files[s], At(progress, s))
            /\ SafeEnd(files[s], At(progress, s)) \in {0} \cup LineEnds(files[s])
            /\ At(progress, s) <= SafeEnd(files[s], At(progress, s))
        BY <4>1, <4>2, SafeEndIs
      <4>4. ~ (SafeEnd(files[s], At(progress, s)) > At(progress, s))
        BY <2>1 DEF Behind
      <4>5. At(progress, s) \in Nat /\ p \in Nat /\ SafeEnd(files[s], At(progress, s)) \in Nat
        BY <4>1, <4>2, <4>3, EndsAre
      <4> QED
        BY <4>3, <4>4, <4>5
    <3> QED
      BY <1>2, <1>4, <2>1, <3>1 DEF InUse
  <2>2. CASE indexing' = indexing
    BY <1>3, <2>2 DEF InUse
  <2> QED
    BY <1>2, <2>1, <2>2
<1>8. WritingFits' /\ AllCounted' /\ FilesFit' /\ TotalsFit'
  BY <1>1, <1>2 DEF WritingFits, Writing, AllCounted, FilesFit, TotalsFit
<1> QED
  BY <1>5, <1>6, <1>7, <1>8 DEF LogInv
-----------------------------------------------------------------------------
(* The migration *)

After(cells, from) == {p \in LineEnds(cells) : p > from + SplitCells}

Cut(cells, from) == IF After(cells, from) = {} THEN Len(cells) ELSE Min(After(cells, from))

\* A function can be defined by what follows a value.
LEMMA IterationExists ==
    ASSUME NEW N \in Nat, NEW g \in [0..N -> 0..N]
    PROVE  \E f \in [0..N -> 0..N] : f[0] = 0 /\ \A i \in 1..N : f[i] = g[f[i - 1]]
<1> DEFINE Good(k, f) == f[0] = 0 /\ \A i \in 1..k : f[i] = g[f[i - 1]]
           S == {k \in 0..N : ~ \E f \in [0..k -> 0..N] : Good(k, f)}
<1>1. SUFFICES ASSUME S # {}
               PROVE  FALSE
  <2>1. SUFFICES ASSUME N \notin S
                 PROVE  \E f \in [0..N -> 0..N] : Good(N, f)
    BY DEF Good
  <2>2. N \in 0..N
    OBVIOUS
  <2> HIDE DEF Good
  <2> QED
    BY <2>1, <2>2
<1>2. S \in SUBSET Nat
  OBVIOUS
<1>3. PICK m \in S : \A k \in S : m <= k
  BY <1>1, <1>2, LeastExists
<1>4. m \in 0..N /\ ~ \E f \in [0..m -> 0..N] : Good(m, f)
  BY <1>3
<1>5. CASE m = 0
  <2> DEFINE f == [i \in 0..0 |-> 0]
  <2>1. f \in [0..m -> 0..N] /\ Good(m, f)
    BY <1>5
  <2> QED
    BY <1>4, <2>1
<1>6. CASE m # 0
  <2>1. m - 1 \in 0..N /\ m - 1 \notin S
    <3>1. m - 1 \in 0..N /\ ~ (m <= m - 1)
      BY <1>4, <1>6
    <3> HIDE DEF S
    <3> QED
      BY <1>3, <3>1
  <2>2. PICK f \in [0..(m - 1) -> 0..N] : Good(m - 1, f)
    BY <2>1
  <2> DEFINE h == [i \in 0..m |-> IF i = m THEN g[f[m - 1]] ELSE f[i]]
  <2>3. m - 1 \in 0..(m - 1) /\ f[m - 1] \in 0..N
    BY <1>4, <1>6, <2>2
  <2>4. h \in [0..m -> 0..N]
    BY <1>4, <2>2, <2>3
  <2>5. h[0] = 0
    BY <1>4, <1>6, <2>2
  <2>6. ASSUME NEW i \in 1..m
        PROVE  h[i] = g[h[i - 1]]
    <3>1. i - 1 \in 0..m /\ i - 1 # m /\ i \in 0..m
      BY <1>4
    <3>2. h[i - 1] = f[i - 1]
      BY <3>1
    <3>3. CASE i = m
      BY <3>1, <3>2, <3>3
    <3>4. CASE i # m
      <4>1. i \in 1..(m - 1)
        BY <1>4, <3>4
      <4> QED
        BY <2>2, <3>1, <3>2, <3>4, <4>1
    <3> QED
      BY <3>3, <3>4
  <2> HIDE DEF h
  <2> QED
    BY <1>4, <2>4, <2>5, <2>6
<1> QED
  BY <1>5, <1>6

\* Where a file is cut.
LEMMA CutsAre ==
    ASSUME NEW cells \in Seq(Cell)
    PROVE  LET N == Len(cells)
           IN  /\ N \in Nat
               /\ Cuts(cells) \in [0..N -> 0..N]
               /\ Cuts(cells)[0] = 0
               /\ \A i \in 1..N : Cuts(cells)[i] = Cut(cells, Cuts(cells)[i - 1])
               /\ \A x \in 0..N : /\ Cut(cells, x) \in {N} \cup LineEnds(cells)
                                  /\ x < N => x < Cut(cells, x)
<1> DEFINE N == Len(cells)
           g == [x \in 0..N |-> Cut(cells, x)]
<1>1. N \in Nat /\ \A p \in LineEnds(cells) : p \in Nat \ {0} /\ p <= N
  BY EndsAre
<1>2. ASSUME NEW x \in 0..N
      PROVE  /\ Cut(cells, x) \in {N} \cup LineEnds(cells)
             /\ x < N => x < Cut(cells, x)
  <2>1. CASE After(cells, x) = {}
    BY <2>1 DEF Cut
  <2>2. CASE After(cells, x) # {}
    <3>1. After(cells, x) \in SUBSET Nat
      BY <1>1 DEF After
    <3>2. Min(After(cells, x)) \in After(cells, x)
      BY <2>2, <3>1, MinIs
    <3>3. Cut(cells, x) \in LineEnds(cells) /\ Cut(cells, x) > x + SplitCells
      BY <2>2, <3>2 DEF Cut, After
    <3>4. Cut(cells, x) > x
      BY <1>1, <3>3, LogStoreAssumption
    <3> QED
      BY <3>3, <3>4
  <2> QED
    BY <2>1, <2>2
<1>3. \A x \in 0..N : Cut(cells, x) \in 0..N
  BY <1>1, <1>2
<1>4. g \in [0..N -> 0..N] /\ \A x \in 0..N : g[x] = Cut(cells, x)
  BY <1>3
<1> HIDE DEF g
<1>5. PICK f \in [0..N -> 0..N] : f[0] = 0 /\ \A i \in 1..N : f[i] = g[f[i - 1]]
  BY <1>1, <1>4, IterationExists
<1> DEFINE F(h) == [i \in 0..N |-> IF i = 0 THEN 0 ELSE Cut(cells, h[i - 1])]
<1>6. f = F(f)
  <2>1. ASSUME NEW i \in 0..N
        PROVE  f[i] = IF i = 0 THEN 0 ELSE Cut(cells, f[i - 1])
    <3>1. CASE i = 0
      BY <1>5, <3>1
    <3>2. CASE i # 0
      <4>1. i \in 1..N /\ i - 1 \in 0..N
        BY <1>1, <3>2
      <4>2. f[i - 1] \in 0..N
        BY <1>5, <4>1
      <4> QED
        BY <1>4, <1>5, <3>2, <4>1, <4>2
    <3> QED
      BY <3>1, <3>2
  <2> QED
    BY <1>5, <2>1
<1>7. Cuts(cells) = CHOOSE h : h = F(h)
  BY DEF Cuts, Cut, After
<1>8. Cuts(cells) = F(Cuts(cells))
  <2>1. \E h : h = F(h)
    BY <1>6
  <2> HIDE DEF F
  <2> QED
    BY <1>7, <2>1
<1> DEFINE c == Cuts(cells)
<1>9. DOMAIN c = 0..N /\ c[0] = 0 /\ \A i \in 1..N : c[i] = Cut(cells, c[i - 1])
  <2>1. c = F(c)
    BY <1>8
  <2> HIDE DEF c
  <2>2. /\ DOMAIN F(c) = 0..N /\ F(c)[0] = 0
        /\ \A i \in 1..N : F(c)[i] = Cut(cells, c[i - 1])
    BY <1>1
  <2> HIDE DEF F
  <2> QED
    BY <2>1, <2>2
<1>10. c = [i \in 0..N |-> c[i]]
  <2>1. c = F(c)
    BY <1>8
  <2> HIDE DEF c
  <2> QED
    BY <1>9, <2>1
<1> HIDE DEF c
<1>11. \A i \in 0..N : c[i] \in 0..N
  <2> DEFINE S == {i \in 0..N : c[i] \notin 0..N}
  <2>1. SUFFICES ASSUME S # {} PROVE FALSE
    OBVIOUS
  <2>2. S \in SUBSET Nat
    OBVIOUS
  <2>3. PICK m \in S : \A k \in S : m <= k
    BY <2>1, <2>2, LeastExists
  <2>4. m # 0
    BY <1>1, <1>9, <2>3
  <2>5. m \in 1..N /\ m - 1 \in 0..N /\ m - 1 \notin S
    BY <1>1, <2>3, <2>4
  <2>6. c[m - 1] \in 0..N
    BY <2>5
  <2>7. c[m] \in 0..N
    BY <1>3, <1>9, <2>5, <2>6
  <2> QED
    BY <2>3, <2>7
<1>12. c \in [0..N -> 0..N]
  BY <1>10, <1>11
<1> QED
  BY <1>1, <1>2, <1>9, <1>12 DEF c

\* A file of length N cut into n pieces: piece i begins behind start[i].
Division(cells, start, n) ==
    /\ n \in Nat \ {0}
    /\ start[0] = 0 /\ start[n] = Len(cells)
    /\ \A i \in 0..(n - 1) : start[i] \in {0} \cup LineEnds(cells) /\ start[i] < Len(cells)
    /\ \A i \in 0..n : start[i] \in 0..Len(cells)
    /\ \A i, j \in 0..n : i < j => start[i] < start[j]

LEMMA CutsDivide ==
    ASSUME NEW cells \in Seq(Cell), Len(cells) > SplitCells
    PROVE  Division(cells, Cuts(cells), Min({i \in DOMAIN Cuts(cells) : Cuts(cells)[i] = Len(cells)}))
<1> DEFINE N == Len(cells)
           c == Cuts(cells)
           T == {i \in DOMAIN c : c[i] = N}
           n == Min(T)
<1>1. /\ N \in Nat /\ c \in [0..N -> 0..N] /\ c[0] = 0
      /\ \A i \in 1..N : c[i] = Cut(cells, c[i - 1])
      /\ \A x \in 0..N : /\ Cut(cells, x) \in {N} \cup LineEnds(cells)
                         /\ x < N => x < Cut(cells, x)
  BY CutsAre
<1> HIDE DEF c
<1>2. ASSUME NEW i \in 1..N
      PROVE  /\ i \in 0..N /\ i - 1 \in 0..N /\ c[i] \in 0..N /\ c[i - 1] \in 0..N
             /\ c[i] \in {N} \cup LineEnds(cells)
             /\ c[i - 1] < N => c[i - 1] < c[i]
  <2>1. i \in 0..N /\ i - 1 \in 0..N
    BY <1>1
  <2>2. c[i] \in 0..N /\ c[i - 1] \in 0..N /\ c[i] = Cut(cells, c[i - 1])
    BY <1>1, <2>1
  <2> QED
    BY <1>1, <2>1, <2>2
<1>3. \A i \in 0..N : c[i] = N \/ c[i] >= i
  <2> DEFINE S == {i \in 0..N : ~ (c[i] = N \/ c[i] >= i)}
  <2>1. SUFFICES ASSUME S # {} PROVE FALSE
    OBVIOUS
  <2>2. S \in SUBSET Nat
    OBVIOUS
  <2>3. PICK m \in S : \A k \in S : m <= k
    BY <2>1, <2>2, LeastExists
  <2>4. m # 0
    BY <1>1, <2>3
  <2>5. m \in 1..N
    BY <1>1, <2>3, <2>4
  <2>6. m - 1 \notin S
    <3>1. ~ (m <= m - 1)
      BY <2>5
    <3> HIDE DEF S
    <3> QED
      BY <2>3, <3>1
  <2>7. c[m - 1] = N \/ c[m - 1] >= m - 1
    BY <1>2, <2>5, <2>6
  <2>8. c[m - 1] = N => c[m] = N
    <3>1. ASSUME c[m - 1] = N
          PROVE  c[m] = N
      <4>1. After(cells, N) = {}
        <5>1. \A p \in LineEnds(cells) : p \in Nat /\ p <= N
          BY EndsAre
        <5> QED
          BY <1>1, <5>1, LogStoreAssumption DEF After
      <4>2. c[m] = Cut(cells, N)
        BY <1>1, <2>5, <3>1
      <4> QED
        BY <4>1, <4>2 DEF Cut
    <3> QED
      BY <3>1
  <2>9. c[m - 1] < N => c[m] >= m
    BY <1>2, <2>5, <2>7
  <2>10. c[m - 1] = N \/ c[m - 1] < N
    BY <1>1, <1>2, <2>5
  <2> QED
    BY <2>3, <2>8, <2>9, <2>10
<1>4. N \in T
  <2>1. c[N] = N \/ (c[N] >= N /\ c[N] \in 0..N)
    BY <1>1, <1>3
  <2> QED
    BY <1>1, <2>1
<1>5. T \in SUBSET Nat /\ T \subseteq 0..N
  BY <1>1
<1>6. n \in T /\ \A i \in T : n <= i
  BY <1>4, <1>5, MinIs
<1>7. n \in 0..N /\ c[n] = N
  BY <1>5, <1>6
<1>8. n # 0
  <2>1. 0 # N
    BY <1>1, LogStoreAssumption
  <2> QED
    BY <1>1, <1>7, <2>1
<1> HIDE DEF T, n
<1>9. \A i \in 0..(n - 1) : i \in 0..N /\ i \notin T
  <2>1. TAKE i \in 0..(n - 1)
  <2>2. i \in 0..N /\ ~ (n <= i)
    BY <1>1, <1>7
  <2> QED
    BY <1>6, <2>2
<1>10. \A i \in 0..(n - 1) : c[i] \in 0..N /\ c[i] # N /\ c[i] < N
  <2>1. \A i \in 0..(n - 1) : i \in 0..N /\ c[i] # N /\ c[i] \in 0..N
    BY <1>1, <1>9 DEF T
  <2> QED
    BY <1>1, <2>1
<1>11. \A i \in 0..(n - 1) : c[i] \in {0} \cup LineEnds(cells)
  <2>1. TAKE i \in 0..(n - 1)
  <2>2. CASE i = 0
    BY <1>1, <2>2
  <2>3. CASE i # 0
    <3>1. i \in 1..N
      BY <1>7, <1>9, <2>3
    <3> QED
      BY <1>2, <1>10, <3>1
  <2> QED
    BY <2>2, <2>3
<1>12. \A i \in 0..n : c[i] \in 0..N
  <2>1. \A i \in 0..n : i \in 0..N
    BY <1>1, <1>7
  <2> QED
    BY <1>1, <2>1
<1>13. \A i, j \in 0..n : i < j => c[i] < c[j]
  <2>1. TAKE i \in 0..n
  <2> DEFINE S == {j \in 0..n : i < j /\ ~ (c[i] < c[j])}
  <2>2. SUFFICES ASSUME S # {} PROVE FALSE
    OBVIOUS
  <2>3. S \in SUBSET Nat
    OBVIOUS
  <2>4. PICK m \in S : \A k \in S : m <= k
    BY <2>2, <2>3, LeastExists
  <2>5. m \in 0..n /\ i < m /\ ~ (c[i] < c[m]) /\ i \in Nat /\ m \in Nat
    BY <2>4
  <2>6. m \in 1..N /\ m - 1 \in 0..(n - 1) /\ m - 1 \in 0..n
    BY <1>7, <2>5
  <2>7. m - 1 \notin S
    <3>1. ~ (m <= m - 1)
      BY <2>5
    <3> HIDE DEF S
    <3> QED
      BY <2>4, <3>1
  <2>8. i = m - 1 \/ c[i] < c[m - 1]
    BY <2>5, <2>6, <2>7
  <2>9. c[m - 1] < c[m]
    BY <1>2, <1>10, <2>6
  <2>10. c[i] \in Nat /\ c[m] \in Nat /\ c[m - 1] \in Nat
    BY <1>1, <1>12, <2>5, <2>6
  <2> QED
    BY <2>5, <2>8, <2>9, <2>10
<1>14. n \in Nat \ {0}
  BY <1>7, <1>8
<1> QED
  BY <1>1, <1>7, <1>10, <1>11, <1>12, <1>13, <1>14 DEF Division, c, n, T

\* The lines of a piece are lines of the file.
LEMMA PieceIs ==
    ASSUME NEW cells \in Seq(Cell), Whole(cells), NEW start, NEW n, Division(cells, start, n),
           NEW i \in 0..(n - 1)
    PROVE  LET piece == SubSeq(cells, start[i] + 1, start[i + 1])
           IN  /\ piece \in Seq(Cell) /\ Whole(piece)
               /\ Len(piece) = start[i + 1] - start[i]
               /\ \A p \in LineEnds(piece) :
                     /\ start[i] + p \in LineEnds(cells) /\ piece[p] = cells[start[i] + p]
                     /\ p \in Parsed(piece, 0) => start[i] + p \in Parsed(cells, 0)
               /\ \A p \in 1..Len(piece) :
                     start[i] + p \in LineEnds(cells) => p \in LineEnds(piece)
<1> DEFINE a == start[i]
           b == start[i + 1]
           piece == SubSeq(cells, a + 1, b)
<1>1. /\ a \in {0} \cup LineEnds(cells) /\ a \in Nat /\ b \in Nat /\ a < b /\ b <= Len(cells)
      /\ Len(cells) \in Nat
  <2>1. n \in Nat \ {0} /\ Len(cells) \in Nat
    BY EndsAre DEF Division
  <2>2. i \in 0..n /\ i + 1 \in 0..n /\ i < i + 1
    BY <2>1
  <2>3. a \in 0..Len(cells) /\ b \in 0..Len(cells) /\ a < b /\ a \in {0} \cup LineEnds(cells)
    BY <2>2 DEF Division
  <2> QED
    BY <2>1, <2>3
<1> HIDE DEF a, b
<1>2. /\ \A p : p \in LineEnds(cells) <=> p \in 1..Len(cells) /\ cells[p][2] = "tail"
      /\ \A p \in LineEnds(cells) : p > 1 /\ p - 1 \notin LineEnds(cells) /\ p \in Nat
  BY EndsAre DEF Whole
<1>3. /\ piece \in Seq(Cell) /\ Len(piece) = b - a
      /\ \A p \in 1..(b - a) : piece[p] = cells[a + p]
  <2>1. \A p \in (a + 1)..b : p \in 1..Len(cells) /\ cells[p] \in Cell
    <3>1. \A p \in (a + 1)..b : p \in 1..Len(cells)
      BY <1>1
    <3> QED
      BY <3>1, ElementOfSeq
  <2>2. a + 1 \in Int /\ b \in Int
    BY <1>1
  <2>3. /\ piece \in Seq(Cell)
        /\ Len(piece) = IF a + 1 <= b THEN b - (a + 1) + 1 ELSE 0
        /\ \A p \in 1..(b - (a + 1) + 1) : piece[p] = cells[a + 1 + p - 1]
    BY <2>1, <2>2, SubSeqProperties
  <2>4. a + 1 <= b /\ b - (a + 1) + 1 = b - a
    BY <1>1
  <2>5. \A p \in 1..(b - a) : a + 1 + p - 1 = a + p
    BY <1>1
  <2> QED
    BY <2>3, <2>4, <2>5
<1> HIDE DEF piece
<1>4. \A p : p \in LineEnds(piece) <=> p \in 1..(b - a) /\ piece[p][2] = "tail"
  BY <1>3, EndsAre
<1>5. \A p \in 1..(b - a) : a + p \in 1..Len(cells) /\ p \in Nat
  BY <1>1
<1>6. \A p : p \in LineEnds(piece) <=> p \in 1..(b - a) /\ a + p \in LineEnds(cells)
  BY <1>2, <1>3, <1>4, <1>5
<1>7. ASSUME NEW p \in LineEnds(piece)
      PROVE  p > 1 /\ p - 1 \notin LineEnds(piece)
  <2>1. p \in 1..(b - a) /\ p \in Nat /\ a + p \in LineEnds(cells)
    BY <1>5, <1>6
  <2>2. a + p > 1 /\ a + p - 1 \notin LineEnds(cells)
    <3>1. PICK q \in LineEnds(cells) : q = a + p
      BY <2>1
    <3>2. q > 1 /\ q - 1 \notin LineEnds(cells)
      BY <1>2
    <3>3. q - 1 = a + p - 1
      BY <1>1, <2>1, <3>1
    <3> QED
      BY <3>1, <3>2, <3>3
  <2>3. p # 1
    <3>1. SUFFICES ASSUME p = 1 PROVE FALSE
      OBVIOUS
    <3>2. a + p - 1 = a
      BY <1>1, <3>1
    <3> QED
      BY <1>1, <2>2, <3>1, <3>2
  <2>4. a + (p - 1) = a + p - 1
    BY <1>1, <2>1
  <2>5. p - 1 \notin LineEnds(piece)
    BY <1>6, <2>2, <2>4
  <2> QED
    BY <1>1, <2>1, <2>3, <2>5
<1>8. Whole(piece)
  BY <1>7 DEF Whole
<1>9. ASSUME NEW p \in LineEnds(piece), p \in Parsed(piece, 0)
      PROVE  a + p \in Parsed(cells, 0)
  <2>1. p = 2 \/ p - 2 \in LineEnds(piece)
    BY <1>3, <1>8, <1>9, ParsedIs
  <2>2. a + p \in LineEnds(cells) /\ p \in Nat
    BY <1>5, <1>6
  <2>3. a + p = 2 \/ a + p - 2 \in LineEnds(cells)
    <3>1. CASE p = 2
      <4>1. a + p - 2 = a
        BY <1>1, <3>1
      <4>2. CASE a = 0
        BY <3>1, <4>2
      <4> QED
        BY <1>1, <4>1, <4>2
    <3>2. CASE p - 2 \in LineEnds(piece)
      <4>1. a + (p - 2) \in LineEnds(cells)
        BY <1>6, <3>2
      <4>2. a + (p - 2) = a + p - 2
        BY <1>1, <2>2
      <4> QED
        BY <4>1, <4>2
    <3> QED
      BY <2>1, <3>1, <3>2
  <2>4. Parsed(cells, 0) = {q \in LineEnds(cells) : q = 2 \/ q - 2 \in LineEnds(cells)}
    BY ParsedIs
  <2>5. PICK q \in LineEnds(cells) : q = a + p
    BY <2>2
  <2>6. q - 2 = a + p - 2
    BY <1>1, <2>2, <2>5
  <2>7. q \in Parsed(cells, 0)
    BY <2>3, <2>4, <2>5, <2>6
  <2> QED
    BY <2>5, <2>7
<1>10. \A p \in LineEnds(piece) : a + p \in LineEnds(cells) /\ piece[p] = cells[a + p]
  BY <1>3, <1>6
<1> QED
  BY <1>3, <1>6, <1>8, <1>9, <1>10 DEF a, b, piece

\* What a migration does to the files and to the offsets.
Migrated(d, cells, start, n) ==
    LET base == <<d, 0>>
        pieces == {<<d, i>> : i \in 0..(n - 1)}
        piece(i) == SubSeq(cells, start[i] + 1, start[i + 1])
    IN  /\ pc = "down" /\ summary # <<>>
        /\ OfDate(d, DOMAIN files) = {base} /\ files[base] = cells
        /\ base \in DOMAIN summary.offsets
        /\ DOMAIN files' = DOMAIN files \cup pieces
        /\ \A i \in 0..(n - 1) : files'[<<d, i>>] = piece(i)
        /\ \A s \in DOMAIN files \ pieces : files'[s] = files[s]
        /\ summary' = [count |-> summary.count, offsets |-> summary'.offsets]
        /\ summary'.offsets = [s \in DOMAIN summary.offsets \cup pieces |-> summary'.offsets[s]]
        /\ \A i \in 0..(n - 1) :
              summary'.offsets[<<d, i>>] = Moved(summary.offsets[base], start[i], Len(piece(i)))
        /\ \A s \in DOMAIN summary.offsets \ pieces : summary'.offsets[s] = summary.offsets[s]
        /\ UNCHANGED <<rows, progress, pc, cache, indexing, writing, today, last, unread>>

LEMMA SplitMigrates ==
    ASSUME LogInv, Split
    PROVE  \E d \in Dates : \E start, n :
              /\ files[<<d, 0>>] \in Seq(Cell) /\ Whole(files[<<d, 0>>])
              /\ <<d, 0>> \in DOMAIN files
              /\ Division(files[<<d, 0>>], start, n)
              /\ Migrated(d, files[<<d, 0>>], start, n)
<1>1. PICK d \in Dates :
        LET base == <<d, 0>>
            cells == files[base]
            cut == Cuts(cells)
            n == Min({i \in DOMAIN cut : cut[i] = Len(cells)})
            pieces == {<<d, i>> : i \in 0..(n - 1)}
            piece(i) == SubSeq(cells, cut[i] + 1, cut[i + 1])
        IN  /\ OfDate(d, DOMAIN files) = {base}
            /\ Len(cells) > SplitCells
            /\ base \in DOMAIN summary.offsets
            /\ summary.offsets[base] <= Len(cells)
            /\ files' = [s \in DOMAIN files \cup pieces |->
                            IF s \in pieces THEN piece(s[2]) ELSE files[s]]
            /\ summary' = [summary EXCEPT !.offsets =
                   [s \in DOMAIN summary.offsets \cup pieces |->
                       IF s \in pieces
                       THEN Moved(summary.offsets[base], cut[s[2]], Len(piece(s[2])))
                       ELSE summary.offsets[s]]]
  BY DEF Split
<1> DEFINE base == <<d, 0>>
           cells == files[base]
           cut == Cuts(cells)
           n == Min({i \in DOMAIN cut : cut[i] = Len(cells)})
           pieces == {<<d, i>> : i \in 0..(n - 1)}
           piece(i) == SubSeq(cells, cut[i] + 1, cut[i + 1])
           offsets == [s \in DOMAIN summary.offsets \cup pieces |->
                       IF s \in pieces
                       THEN Moved(summary.offsets[base], cut[s[2]], Len(piece(s[2])))
                       ELSE summary.offsets[s]]
<1>2. base \in DOMAIN files
  BY <1>1 DEF OfDate
<1>3. cells \in Seq(Cell) /\ Whole(cells)
  BY <1>2 DEF LogInv, FilesFit, FilesAre
<1>4. Division(cells, cut, n)
  BY <1>1, <1>3, CutsDivide
<1>5. /\ pc = "down" /\ summary # <<>>
      /\ UNCHANGED <<rows, progress, pc, cache, indexing, writing, today, last, unread>>
  BY DEF Split
<1>6. summary = [count |-> summary.count, offsets |-> summary.offsets]
  BY <1>5, TotalsAre DEF LogInv, TotalsFit, Fits
<1>7. summary' = [summary EXCEPT !.offsets = offsets]
  BY <1>1
<1>8. files' = [s \in DOMAIN files \cup pieces |-> IF s \in pieces THEN piece(s[2]) ELSE files[s]]
  BY <1>1
<1>9. /\ OfDate(d, DOMAIN files) = {base} /\ base \in DOMAIN summary.offsets
  BY <1>1
<1>10. \A i \in 0..(n - 1) : <<d, i>> \in pieces /\ <<d, i>>[2] = i
  OBVIOUS
<1> HIDE DEF n, cut, piece, pieces, cells
<1>11. /\ DOMAIN files' = DOMAIN files \cup pieces
       /\ \A i \in 0..(n - 1) : files'[<<d, i>>] = piece(i)
       /\ \A s \in DOMAIN files \ pieces : files'[s] = files[s]
  BY <1>8, <1>10
<1>12. /\ offsets = [s \in DOMAIN summary.offsets \cup pieces |-> offsets[s]]
       /\ \A i \in 0..(n - 1) :
              offsets[<<d, i>>] = Moved(summary.offsets[base], cut[i], Len(piece(i)))
       /\ \A s \in DOMAIN summary.offsets \ pieces : offsets[s] = summary.offsets[s]
  BY <1>10
<1> HIDE DEF offsets
<1>13. summary'.offsets = offsets /\ summary' = [count |-> summary.count, offsets |-> offsets]
  BY <1>6, <1>7
<1>14. Migrated(d, cells, cut, n)
  BY <1>5, <1>9, <1>11, <1>12, <1>13 DEF Migrated, piece, pieces, cells
<1> QED
  BY <1>2, <1>3, <1>4, <1>14 DEF cells

\* A line of a migrated file is a line of another day, or of the file that was cut.
LEMMA MigratedLines ==
    ASSUME LogInv, NEW d \in Dates, NEW cells \in Seq(Cell), Whole(cells), NEW start, NEW n,
           Division(cells, start, n), Migrated(d, cells, start, n), <<d, 0>> \in DOMAIN files
    PROVE  /\ n \in Nat \ {0} /\ 0 \in 0..(n - 1)
           /\ \A i \in 0..(n - 1) :
                 /\ start[i] \in Nat /\ start[i + 1] \in Nat /\ start[i] < start[i + 1]
                 /\ start[i + 1] <= Len(cells)
                 /\ <<d, i>> \in DOMAIN files' /\ files'[<<d, i>>] \in Seq(Cell)
                 /\ Whole(files'[<<d, i>>])
                 /\ Len(files'[<<d, i>>]) = start[i + 1] - start[i]
                 /\ \A p \in LineEnds(files'[<<d, i>>]) :
                       /\ p \in Nat \ {0} /\ p <= start[i + 1] - start[i]
                       /\ start[i] + p \in LineEnds(cells)
                       /\ files'[<<d, i>>][p] = cells[start[i] + p]
                       /\ p \in Parsed(files'[<<d, i>>], 0) => start[i] + p \in Parsed(cells, 0)
                 /\ \A p \in 1..(start[i + 1] - start[i]) :
                       start[i] + p \in LineEnds(cells) => p \in LineEnds(files'[<<d, i>>])
           /\ \A i, j \in 0..(n - 1) : i < j => start[i + 1] <= start[j]
           /\ \A s \in DOMAIN files : s[1] = d => s = <<d, 0>>
           /\ \A s \in DOMAIN files' :
                 \/ \E i \in 0..(n - 1) : s = <<d, i>>
                 \/ s \in DOMAIN files /\ s[1] # d /\ files'[s] = files[s]
           /\ \A s \in DOMAIN files : s[1] # d => s \in DOMAIN files' /\ files'[s] = files[s]
<1>1. n \in Nat \ {0} /\ 0 \in 0..(n - 1) /\ Len(cells) \in Nat
  BY EndsAre DEF Division
<1>2. \A i \in 0..(n - 1) : i \in 0..n /\ i + 1 \in 0..n /\ i < i + 1
  BY <1>1
<1>3. /\ \A i \in 0..n : start[i] \in 0..Len(cells)
      /\ \A i, j \in 0..n : i < j => start[i] < start[j]
  BY DEF Division
<1>4. ASSUME NEW i \in 0..(n - 1)
      PROVE  /\ start[i] \in Nat /\ start[i + 1] \in Nat /\ start[i] < start[i + 1]
             /\ start[i + 1] <= Len(cells)
  BY <1>1, <1>2, <1>3
<1>5. ASSUME NEW i \in 0..(n - 1), NEW j \in 0..(n - 1), i < j
      PROVE  start[i + 1] <= start[j]
  <2>1. i + 1 = j \/ i + 1 < j
    BY <1>1, <1>5
  <2>2. i + 1 \in 0..n /\ j \in 0..n
    BY <1>2
  <2>3. i + 1 < j => start[i + 1] < start[j]
    BY <1>3, <2>2
  <2> QED
    BY <1>4, <2>1, <2>3
<1>6. /\ OfDate(d, DOMAIN files) = {<<d, 0>>}
      /\ DOMAIN files' = DOMAIN files \cup {<<d, i>> : i \in 0..(n - 1)}
      /\ \A i \in 0..(n - 1) :
             files'[<<d, i>>] = SubSeq(cells, start[i] + 1, start[i + 1])
      /\ \A s \in DOMAIN files \ {<<d, i>> : i \in 0..(n - 1)} : files'[s] = files[s]
  BY DEF Migrated
<1>7. ASSUME NEW i \in 0..(n - 1)
      PROVE  /\ <<d, i>> \in DOMAIN files' /\ files'[<<d, i>>] \in Seq(Cell)
             /\ Whole(files'[<<d, i>>])
             /\ Len(files'[<<d, i>>]) = start[i + 1] - start[i]
             /\ \A p \in LineEnds(files'[<<d, i>>]) :
                   /\ p \in Nat \ {0} /\ p <= start[i + 1] - start[i]
                   /\ start[i] + p \in LineEnds(cells)
                   /\ files'[<<d, i>>][p] = cells[start[i] + p]
                   /\ p \in Parsed(files'[<<d, i>>], 0) => start[i] + p \in Parsed(cells, 0)
             /\ \A p \in 1..(start[i + 1] - start[i]) :
                   start[i] + p \in LineEnds(cells) => p \in LineEnds(files'[<<d, i>>])
  <2> DEFINE piece == SubSeq(cells, start[i] + 1, start[i + 1])
  <2>1. /\ piece \in Seq(Cell) /\ Whole(piece)
        /\ Len(piece) = start[i + 1] - start[i]
        /\ \A p \in LineEnds(piece) :
              /\ start[i] + p \in LineEnds(cells) /\ piece[p] = cells[start[i] + p]
              /\ p \in Parsed(piece, 0) => start[i] + p \in Parsed(cells, 0)
        /\ \A p \in 1..Len(piece) :
              start[i] + p \in LineEnds(cells) => p \in LineEnds(piece)
    BY PieceIs
  <2>2. \A p \in LineEnds(piece) : p \in Nat \ {0} /\ p <= Len(piece)
    BY <2>1, EndsAre
  <2>3. files'[<<d, i>>] = piece /\ <<d, i>> \in DOMAIN files'
    BY <1>6
  <2> HIDE DEF piece
  <2> QED
    BY <2>1, <2>2, <2>3
<1>8. \A s \in DOMAIN files : s[1] = d => s = <<d, 0>>
  BY <1>6 DEF OfDate
<1>9. ASSUME NEW s \in DOMAIN files'
      PROVE  \/ \E i \in 0..(n - 1) : s = <<d, i>>
             \/ s \in DOMAIN files /\ s[1] # d /\ files'[s] = files[s]
  <2>1. SUFFICES ASSUME ~ \E i \in 0..(n - 1) : s = <<d, i>>
                 PROVE  s \in DOMAIN files /\ s[1] # d /\ files'[s] = files[s]
    OBVIOUS
  <2>2. s \in DOMAIN files /\ files'[s] = files[s]
    BY <1>6, <2>1
  <2> QED
    BY <1>1, <1>8, <2>1, <2>2
<1>10. ASSUME NEW s \in DOMAIN files, s[1] # d
       PROVE  s \in DOMAIN files' /\ files'[s] = files[s]
  <2>1. s \notin {<<d, i>> : i \in 0..(n - 1)}
    BY <1>10
  <2> QED
    BY <1>6, <2>1
<1> QED
  BY <1>1, <1>4, <1>5, <1>7, <1>8, <1>9, <1>10

LEMMA KeepSplit ==
    ASSUME LogInv, Split
    PROVE  LogInv'
<1>1. /\ Typed /\ FilesFit /\ TotalsFit /\ WritingFits /\ AllCounted /\ Indexed /\ InUse
  BY DEF LogInv
<1>2. PICK d \in Dates : \E start, n :
              /\ files[<<d, 0>>] \in Seq(Cell) /\ Whole(files[<<d, 0>>])
              /\ <<d, 0>> \in DOMAIN files
              /\ Division(files[<<d, 0>>], start, n)
              /\ Migrated(d, files[<<d, 0>>], start, n)
  BY SplitMigrates
<1> DEFINE base == <<d, 0>>
           cells == files[base]
<1>3. PICK start, n : /\ cells \in Seq(Cell) /\ Whole(cells) /\ base \in DOMAIN files
                      /\ Division(cells, start, n) /\ Migrated(d, cells, start, n)
  BY <1>2
<1>4. /\ n \in Nat \ {0} /\ 0 \in 0..(n - 1)
      /\ \A i \in 0..(n - 1) :
            /\ start[i] \in Nat /\ start[i + 1] \in Nat /\ start[i] < start[i + 1]
            /\ start[i + 1] <= Len(cells)
            /\ <<d, i>> \in DOMAIN files' /\ files'[<<d, i>>] \in Seq(Cell)
            /\ Whole(files'[<<d, i>>])
            /\ Len(files'[<<d, i>>]) = start[i + 1] - start[i]
            /\ \A p \in LineEnds(files'[<<d, i>>]) :
                  /\ p \in Nat \ {0} /\ p <= start[i + 1] - start[i]
                  /\ start[i] + p \in LineEnds(cells)
                  /\ files'[<<d, i>>][p] = cells[start[i] + p]
                  /\ p \in Parsed(files'[<<d, i>>], 0) => start[i] + p \in Parsed(cells, 0)
            /\ \A p \in 1..(start[i + 1] - start[i]) :
                  start[i] + p \in LineEnds(cells) => p \in LineEnds(files'[<<d, i>>])
      /\ \A i, j \in 0..(n - 1) : i < j => start[i + 1] <= start[j]
      /\ \A s \in DOMAIN files : s[1] = d => s = <<d, 0>>
      /\ \A s \in DOMAIN files' :
            \/ \E i \in 0..(n - 1) : s = <<d, i>>
            \/ s \in DOMAIN files /\ s[1] # d /\ files'[s] = files[s]
      /\ \A s \in DOMAIN files : s[1] # d => s \in DOMAIN files' /\ files'[s] = files[s]
  BY <1>3, MigratedLines
<1>5. /\ start[0] = 0
      /\ \A i \in 0..(n - 1) : start[i] \in {0} \cup LineEnds(cells)
  BY <1>3 DEF Division
<1>6. /\ pc = "down" /\ summary # <<>>
      /\ base \in DOMAIN summary.offsets
      /\ DOMAIN files' = DOMAIN files \cup {<<d, i>> : i \in 0..(n - 1)}
      /\ summary' = [count |-> summary.count, offsets |-> summary'.offsets]
      /\ summary'.offsets = [s \in DOMAIN summary.offsets \cup {<<d, i>> : i \in 0..(n - 1)} |->
                                summary'.offsets[s]]
      /\ DOMAIN summary'.offsets = DOMAIN summary.offsets \cup {<<d, i>> : i \in 0..(n - 1)}
      /\ \A i \in 0..(n - 1) :
              summary'.offsets[<<d, i>>] =
                  Moved(summary.offsets[base], start[i],
                        Len(SubSeq(cells, start[i] + 1, start[i + 1])))
      /\ \A s \in DOMAIN summary.offsets \ {<<d, i>> : i \in 0..(n - 1)} :
             summary'.offsets[s] = summary.offsets[s]
      /\ \A i \in 0..(n - 1) : files'[<<d, i>>] = SubSeq(cells, start[i] + 1, start[i + 1])
      /\ UNCHANGED <<rows, progress, pc, cache, indexing, writing, today, last, unread>>
  <2>1. /\ pc = "down" /\ summary # <<>>
        /\ base \in DOMAIN summary.offsets
        /\ DOMAIN files' = DOMAIN files \cup {<<d, i>> : i \in 0..(n - 1)}
        /\ summary' = [count |-> summary.count, offsets |-> summary'.offsets]
        /\ summary'.offsets = [s \in DOMAIN summary.offsets \cup {<<d, i>> : i \in 0..(n - 1)} |->
                                  summary'.offsets[s]]
        /\ \A i \in 0..(n - 1) :
                summary'.offsets[<<d, i>>] =
                    Moved(summary.offsets[base], start[i],
                          Len(SubSeq(cells, start[i] + 1, start[i + 1])))
        /\ \A s \in DOMAIN summary.offsets \ {<<d, i>> : i \in 0..(n - 1)} :
               summary'.offsets[s] = summary.offsets[s]
        /\ \A i \in 0..(n - 1) : files'[<<d, i>>] = SubSeq(cells, start[i] + 1, start[i + 1])
        /\ UNCHANGED <<rows, progress, pc, cache, indexing, writing, today, last, unread>>
    BY <1>3 DEF Migrated
  <2> DEFINE new == summary'.offsets
             D == DOMAIN summary.offsets \cup {<<d, i>> : i \in 0..(n - 1)}
  <2>2. new = [s \in D |-> new[s]]
    BY <2>1
  <2> HIDE DEF D, new
  <2>3. DOMAIN new = D
    BY <2>2
  <2> QED
    BY <2>1, <2>3 DEF D, new
<1>7. /\ DOMAIN files \subseteq Shard /\ OneLine(files)
      /\ d <= today /\ today \in Nat /\ d \in Nat
      /\ \A s \in DOMAIN files : s[1] <= today
      /\ \A s \in DOMAIN files : files[s] \in Seq(Cell) /\ Len(files[s]) <= ShardCells
      /\ \A s \in DOMAIN files : Whole(files[s])
      /\ \A s \in DOMAIN files : \A p \in LineEnds(files[s]) : files[s][p][1] <= last
  <2>1. FilesAre(files, today, last)
    BY <1>1 DEF FilesFit
  <2>2. d \in Nat /\ today \in Nat
    BY <1>1, LogStoreAssumption DEF Typed, Dates
  <2>3. d <= today
    BY <1>3, <2>1 DEF FilesAre
  <2> QED
    BY <2>1, <2>2, <2>3 DEF FilesAre
<1>8. Len(cells) \in Nat /\ \A p \in LineEnds(cells) : p \in Nat \ {0} /\ p <= Len(cells) /\ cells[p][1] \in Ids
  BY <1>3, EndsAre
<1> HIDE DEF cells
<1>9. /\ cells = files[base] /\ base[1] = d
      /\ \A i : <<d, i>>[1] = d /\ <<d, i>>[2] = i
  BY DEF cells
<1> HIDE DEF base
\* the files
<1>10. OneLine(files')
  <2>1. SUFFICES ASSUME NEW s \in DOMAIN files', NEW u \in DOMAIN files',
                        NEW p \in LineEnds(files'[s]), NEW q \in LineEnds(files'[u]),
                        files'[s][p][1] = files'[u][q][1]
                 PROVE  s = u /\ p = q
    BY DEF OneLine
  <2> DEFINE Old(v) == v \in DOMAIN files /\ v[1] # d /\ files'[v] = files[v]
  <2>2. CASE Old(s) /\ Old(u)
    BY <1>7, <2>1, <2>2 DEF OneLine
  <2>3. ASSUME NEW v \in DOMAIN files, v[1] # d, NEW x \in LineEnds(files[v]), NEW y \in LineEnds(cells)
        PROVE  files[v][x][1] # cells[y][1]
    <3>1. SUFFICES ASSUME files[v][x][1] = files[base][y][1]
                   PROVE  FALSE
      BY <1>9
    <3>2. base \in DOMAIN files /\ y \in LineEnds(files[base])
      BY <1>3, <1>9
    <3>3. v = base
      BY <1>7, <3>1, <3>2 DEF OneLine
    <3> QED
      BY <1>9, <2>3, <3>3
  <2>4. CASE Old(s) /\ \E j \in 0..(n - 1) : u = <<d, j>>
    <3>1. PICK j \in 0..(n - 1) : u = <<d, j>>
      BY <2>4
    <3>2. start[j] + q \in LineEnds(cells) /\ files'[u][q] = cells[start[j] + q]
      BY <1>4, <3>1
    <3>3. files[s][p][1] = cells[start[j] + q][1] /\ p \in LineEnds(files[s])
      BY <2>1, <2>4, <3>2
    <3> QED
      BY <2>3, <2>4, <3>2, <3>3
  <2>5. CASE Old(u) /\ \E i \in 0..(n - 1) : s = <<d, i>>
    <3>1. PICK i \in 0..(n - 1) : s = <<d, i>>
      BY <2>5
    <3>2. start[i] + p \in LineEnds(cells) /\ files'[s][p] = cells[start[i] + p]
      BY <1>4, <3>1
    <3>3. files[u][q][1] = cells[start[i] + p][1] /\ q \in LineEnds(files[u])
      BY <2>1, <2>5, <3>2
    <3> QED
      BY <2>3, <2>5, <3>2, <3>3
  <2>6. CASE (\E i \in 0..(n - 1) : s = <<d, i>>) /\ (\E j \in 0..(n - 1) : u = <<d, j>>)
    <3>1. PICK i \in 0..(n - 1) : s = <<d, i>>
      BY <2>6
    <3>2. PICK j \in 0..(n - 1) : u = <<d, j>>
      BY <2>6
    <3>3. /\ start[i] + p \in LineEnds(cells) /\ files'[s][p] = cells[start[i] + p]
          /\ p \in Nat \ {0} /\ p <= start[i + 1] - start[i]
          /\ start[i] \in Nat /\ start[i + 1] \in Nat
      BY <1>4, <3>1
    <3>4. /\ start[j] + q \in LineEnds(cells) /\ files'[u][q] = cells[start[j] + q]
          /\ q \in Nat \ {0} /\ q <= start[j + 1] - start[j]
          /\ start[j] \in Nat /\ start[j + 1] \in Nat
      BY <1>4, <3>2
    <3>5. start[i] + p = start[j] + q
      <4>1. base \in DOMAIN files /\ cells = files[base]
        BY <1>3, <1>9
      <4>2. files[base][start[i] + p][1] = files[base][start[j] + q][1]
        BY <2>1, <3>3, <3>4, <4>1
      <4>3. start[i] + p \in LineEnds(files[base]) /\ start[j] + q \in LineEnds(files[base])
        BY <3>3, <3>4, <4>1
      <4> QED
        BY <1>7, <4>1, <4>2, <4>3 DEF OneLine
    <3>6. ~ (i < j) /\ ~ (j < i)
      <4>1. i < j => start[i + 1] <= start[j]
        BY <1>4
      <4>2. j < i => start[j + 1] <= start[i]
        BY <1>4
      <4> QED
        BY <3>3, <3>4, <3>5, <4>1, <4>2
    <3>7. i = j
      BY <3>6
    <3> QED
      BY <3>1, <3>2, <3>3, <3>4, <3>5, <3>7
  <2>7. /\ Old(s) \/ \E i \in 0..(n - 1) : s = <<d, i>>
        /\ Old(u) \/ \E j \in 0..(n - 1) : u = <<d, j>>
    BY <1>4
  <2> HIDE DEF Old
  <2> QED
    BY <2>2, <2>4, <2>5, <2>6, <2>7
<1>11. FilesFit'
  <2>1. DOMAIN files' \subseteq Shard
    <3>1. \A i \in 0..(n - 1) : <<d, i>> \in Shard
      BY <1>4 DEF Shard
    <3> QED
      BY <1>6, <1>7, <3>1
  <2>2. \E b \in Nat : \A s \in DOMAIN files' : s[2] <= b
    <3>1. PICK b \in Nat : \A s \in DOMAIN files : s[2] <= b
      BY <1>1 DEF FilesFit, FilesAre
    <3>2. \A s \in DOMAIN files : s[2] \in Nat
      BY <1>7, ShardsAre
    <3>3. \A s \in DOMAIN files : s[2] <= b + n
      BY <1>4, <3>1, <3>2
    <3>4. \A i \in 0..(n - 1) : i <= b + n
      BY <1>4
    <3>5. \A s \in DOMAIN files' : s[2] <= b + n
      BY <1>4, <1>9, <3>3, <3>4
    <3> QED
      BY <1>4, <3>5
  <2>3. ASSUME NEW s \in DOMAIN files'
        PROVE  /\ s[1] <= today
               /\ files'[s] \in Seq(Cell) /\ Len(files'[s]) <= ShardCells /\ Whole(files'[s])
               /\ \A p \in LineEnds(files'[s]) : files'[s][p][1] <= last
    <3>1. CASE s \in DOMAIN files /\ s[1] # d /\ files'[s] = files[s]
      BY <1>7, <3>1
    <3>2. CASE \E k \in 0..(n - 1) : s = <<d, k>>
      <4>1. PICK i \in 0..(n - 1) : s = <<d, i>>
        BY <3>2
      <4>2. Len(files'[s]) <= ShardCells
        <5>1. Len(files'[s]) = start[i + 1] - start[i] /\ start[i + 1] <= Len(cells)
              /\ start[i] \in Nat /\ start[i + 1] \in Nat
          BY <1>4, <4>1
        <5>2. Len(cells) <= ShardCells
          BY <1>3, <1>7, <1>9
        <5> QED
          BY <1>8, <5>1, <5>2, LogStoreAssumption
      <4>3. \A p \in LineEnds(files'[s]) : files'[s][p][1] <= last
        <5>1. \A p \in LineEnds(cells) : cells[p][1] <= last
          BY <1>3, <1>7, <1>9
        <5> QED
          BY <1>4, <4>1, <5>1
      <4> QED
        BY <1>4, <1>7, <1>9, <4>1, <4>2, <4>3
    <3> QED
      BY <1>4, <3>1, <3>2
  <2> QED
    BY <1>6, <1>10, <2>1, <2>2, <2>3 DEF FilesFit, FilesAre
\* the totals
<1>12. ASSUME NEW s \in Shard, Kept(s, files, today)
       PROVE  /\ Kept(s, files', today)
              /\ s[1] = d => s = base
  <2>1. s[1] = d => s = base
    <3>1. base \in OfDate(d, DOMAIN files)
      BY <1>3, <1>9 DEF OfDate
    <3> QED
      BY <1>4, <1>12, <3>1 DEF Kept, base
  <2>2. base \in DOMAIN files'
    BY <1>4 DEF base
  <2>3. CASE s[1] = d
    BY <2>1, <2>2, <2>3 DEF Kept
  <2>4. CASE s[1] # d /\ s \in DOMAIN files
    BY <1>4, <2>4 DEF Kept
  <2>5. CASE s[1] # d /\ s[1] < today /\ OfDate(s[1], DOMAIN files) = {}
    <3>1. OfDate(s[1], DOMAIN files') = {}
      BY <1>4, <1>9, <2>5 DEF OfDate
    <3> QED
      BY <2>5, <3>1 DEF Kept
  <2> QED
    BY <1>12, <2>1, <2>3, <2>4, <2>5 DEF Kept
<1> DEFINE old == summary.offsets
           new == summary'.offsets
<1>13. Fits(summary, files, today, last)
  BY <1>1, <1>6 DEF TotalsFit
<1>14. /\ summary \in Totals /\ old \in Offsets /\ summary.count \in [Ids -> {0, 1}]
       /\ old[base] \in Nat /\ At(old, base) = old[base]
  <2>1. summary \in Totals /\ old \in Offsets /\ summary.count \in [Ids -> {0, 1}]
    BY <1>13, TotalsAre DEF Fits
  <2> QED
    BY <1>6, <2>1, OffsetsAre
<1>15. old[base] \in {0} \cup LineEnds(cells)
  BY <1>3, <1>9, <1>13, <1>14 DEF Fits, AtLines
<1>16. ASSUME NEW i \in 0..(n - 1)
       PROVE  /\ At(new, <<d, i>>) \in Nat
              /\ new[<<d, i>>] \in Nat
              /\ At(new, <<d, i>>) \in {0} \cup LineEnds(files'[<<d, i>>])
              /\ \A p \in LineEnds(files'[<<d, i>>]) :
                     p <= At(new, <<d, i>>) <=> start[i] + p <= old[base]
  <2> DEFINE a == start[i]
             b == start[i + 1]
             o == old[base]
             m == At(new, <<d, i>>)
  <2>1. a \in Nat /\ b \in Nat /\ a < b /\ b <= Len(cells) /\ o \in Nat
    BY <1>4, <1>14
  <2>2. m = new[<<d, i>>] /\ m = Moved(o, a, b - a)
    <3>1. <<d, i>> \in DOMAIN new
      BY <1>6
    <3>2. m = new[<<d, i>>]
      BY <3>1 DEF At
    <3>3. Len(SubSeq(cells, a + 1, b)) = b - a
      BY <1>4, <1>6
    <3> QED
      BY <1>6, <3>2, <3>3
  <2>3. \A p \in LineEnds(files'[<<d, i>>]) : p \in Nat \ {0} /\ p <= b - a
    BY <1>4
  <2>4. o \in {0} \cup LineEnds(cells)
    BY <1>15
  <2>5. \A p \in 1..(b - a) : a + p \in LineEnds(cells) => p \in LineEnds(files'[<<d, i>>])
    BY <1>4
  <2> HIDE DEF a, b, o, m
  <2>6. CASE o < a
    <3>1. m = 0
      BY <2>2, <2>6 DEF Moved
    <3>2. \A p \in LineEnds(files'[<<d, i>>]) : ~ (a + p <= o) /\ ~ (p <= 0)
      BY <2>1, <2>3, <2>6
    <3> QED
      BY <2>2, <3>1, <3>2 DEF a, o, m
  <2>7. CASE ~ (o < a)
    <3>1. {o - a, b - a} \in SUBSET Nat /\ o - a \in Nat /\ b - a \in Nat /\ b - a > 0
      BY <2>1, <2>7
    <3>2. m = Min({o - a, b - a})
      BY <2>2, <2>7 DEF Moved
    <3>3. m \in {o - a, b - a} /\ m <= o - a /\ m <= b - a
      BY <3>1, <3>2, MinIs
    <3>4. m \in Nat
      BY <3>1, <3>3
    <3>5. \A p \in LineEnds(files'[<<d, i>>]) : p <= m <=> a + p <= o
      <4>1. TAKE p \in LineEnds(files'[<<d, i>>])
      <4>2. p \in Nat /\ p <= b - a
        BY <2>3
      <4>3. a + p <= o <=> p <= o - a
        BY <2>1, <2>7, <4>2
      <4> QED
        BY <3>1, <3>3, <3>4, <4>2, <4>3
    <3>6. m \in {0} \cup LineEnds(files'[<<d, i>>])
      <4>1. CASE m = o - a
        <5>1. CASE m = 0
          BY <5>1
        <5>2. CASE m # 0
          <6>1. m \in 1..(b - a) /\ a + m = o /\ o # 0
            BY <2>1, <3>1, <3>3, <3>4, <4>1, <5>2
          <6>2. a + m \in LineEnds(cells)
            BY <2>4, <6>1
          <6> QED
            BY <2>5, <6>1, <6>2
        <5> QED
          BY <5>1, <5>2
      <4>2. CASE m # o - a
        <5>1. m = b - a /\ m < o - a
          BY <3>1, <3>3, <3>4, <4>2
        <5>2. b < o /\ b # Len(cells) /\ b # 0
          <6>1. b < o
            BY <2>1, <2>7, <5>1
          <6>2. o <= Len(cells)
            BY <1>8, <2>4
          <6> QED
            BY <1>8, <2>1, <6>1, <6>2
        <5>3. b \in LineEnds(cells)
          <6>1. i + 1 \in 0..(n - 1)
            <7>1. start[n] = Len(cells)
              BY <1>3 DEF Division
            <7>2. i + 1 # n
              BY <5>2, <7>1 DEF b
            <7> QED
              BY <1>4, <7>2
          <6> QED
            BY <1>5, <5>2, <6>1 DEF b
        <5>4. a + m = b /\ m \in 1..(b - a)
          BY <2>1, <3>1, <3>4, <5>1
        <5> QED
          BY <2>5, <5>3, <5>4
      <4> QED
        BY <4>1, <4>2
    <3> QED
      BY <2>2, <3>4, <3>5, <3>6 DEF a, o, m
  <2> QED
    BY <2>6, <2>7
<1>17. /\ new \in Offsets
       /\ \A s \in DOMAIN files : s[1] # d => At(new, s) = At(old, s)
       /\ \A s \in DOMAIN new : Kept(s, files', today)
  <2>1. DOMAIN old \subseteq Shard /\ \A s \in DOMAIN old : old[s] \in Nat
    BY <1>14, OffsetsAre
  <2>2. DOMAIN files' \subseteq Shard
    BY <1>11 DEF FilesFit, FilesAre
  <2>3. DOMAIN new \in SUBSET Shard
    BY <1>4, <1>6, <2>1, <2>2
  <2>4. \A s \in DOMAIN new : new[s] \in Nat
    BY <1>6, <1>16, <2>1
  <2>5. new = [s \in DOMAIN new |-> new[s]]
    <3>1. new = [s \in DOMAIN old \cup {<<d, i>> : i \in 0..(n - 1)} |-> new[s]]
      BY <1>6
    <3>2. DOMAIN new = DOMAIN old \cup {<<d, i>> : i \in 0..(n - 1)}
      BY <1>6
    <3> QED
      BY <3>1, <3>2
  <2>6. new \in [DOMAIN new -> Nat]
    BY <2>4, <2>5
  <2>7. new \in Offsets
    BY <2>3, <2>6 DEF Offsets
  <2>8. ASSUME NEW s \in DOMAIN files, s[1] # d
        PROVE  At(new, s) = At(old, s)
    <3>1. s \notin {<<d, i>> : i \in 0..(n - 1)}
      BY <1>9, <2>8
    <3> QED
      BY <1>6, <3>1 DEF At
  <2>9. ASSUME NEW s \in DOMAIN new
        PROVE  Kept(s, files', today)
    <3>1. CASE s \in DOMAIN old
      BY <1>12, <1>13, <2>1, <3>1 DEF Fits
    <3>2. CASE s \notin DOMAIN old
      BY <1>6, <3>2 DEF Kept
    <3> QED
      BY <3>1, <3>2
  <2> QED
    BY <2>7, <2>8, <2>9
<1> HIDE DEF new, old
<1>18. summary' \in Totals /\ summary'.count = summary.count /\ summary'.offsets = new
  <2>1. summary' = [count |-> summary.count, offsets |-> new]
    BY <1>6 DEF new
  <2> QED
    BY <1>14, <1>17, <2>1 DEF Totals
<1>19. AtLines(new, files')
  <2>1. ASSUME NEW s \in DOMAIN files'
        PROVE  At(new, s) \in {0} \cup LineEnds(files'[s])
    <3>1. CASE s \in DOMAIN files /\ s[1] # d /\ files'[s] = files[s]
      <4>1. At(old, s) \in {0} \cup LineEnds(files[s])
        BY <1>13, <3>1 DEF Fits, AtLines, old
      <4> QED
        BY <1>17, <3>1, <4>1
    <3>2. CASE \E k \in 0..(n - 1) : s = <<d, k>>
      BY <1>16, <3>2
    <3> QED
      BY <1>4, <3>1, <3>2
  <2> QED
    BY <2>1 DEF AtLines
<1>20. Divided(summary', files')
  <2>1. SUFFICES ASSUME NEW s \in DOMAIN files', NEW p \in LineEnds(files'[s])
                 PROVE  IF p <= At(new, s)
                        THEN p \in Parsed(files'[s], 0) => summary.count[files'[s][p][1]] = 1
                        ELSE summary.count[files'[s][p][1]] = 0
    BY <1>18 DEF Divided
  <2>2. Divided(summary, files)
    BY <1>13 DEF Fits
  <2>3. CASE s \in DOMAIN files /\ s[1] # d /\ files'[s] = files[s]
    <3>1. At(new, s) = At(summary.offsets, s)
      BY <1>17, <2>3 DEF old
    <3> QED
      BY <2>2, <2>3, <3>1 DEF Divided
  <2>4. CASE \E k \in 0..(n - 1) : s = <<d, k>>
    <3>1. PICK i \in 0..(n - 1) : s = <<d, i>>
      BY <2>4
    <3> DEFINE q == start[i] + p
    <3>2. /\ q \in LineEnds(cells) /\ files'[s][p] = cells[q]
          /\ p \in Parsed(files'[s], 0) => q \in Parsed(cells, 0)
      BY <1>4, <3>1
    <3>3. p <= At(new, s) <=> q <= At(summary.offsets, base)
      BY <1>14, <1>16, <3>1 DEF old
    <3> HIDE DEF q
    <3>4. IF q <= At(summary.offsets, base)
          THEN q \in Parsed(cells, 0) => summary.count[cells[q][1]] = 1
          ELSE summary.count[cells[q][1]] = 0
      BY <1>3, <1>9, <2>2, <3>2 DEF Divided
    <3> QED
      BY <3>2, <3>3, <3>4
  <2> QED
    BY <1>4, <2>3, <2>4
<1>21. Fits(summary', files', today, last)
  BY <1>13, <1>17, <1>18, <1>19, <1>20 DEF Fits
<1>22. cache = <<>>
  BY <1>1, <1>6 DEF AllCounted
<1>23. TotalsFit'
  BY <1>6, <1>21, <1>22 DEF TotalsFit
<1>24. Typed' /\ WritingFits' /\ AllCounted' /\ InUse'
  <2>1. Typed'
    BY <1>1, <1>6 DEF Typed
  <2>2. WritingFits' /\ AllCounted'
    BY <1>6, <1>22 DEF WritingFits, Writing, AllCounted
  <2>3. InUse'
    BY <1>1, <1>6 DEF InUse
  <2> QED
    BY <2>1, <2>2, <2>3
\* the index
<1>25. /\ progress \in Offsets /\ \A s \in DOMAIN progress : Kept(s, files, today)
       /\ \A r \in DOMAIN rows : /\ r[1] \in DOMAIN progress /\ r[2] <= progress[r[1]]
                                 /\ r \in Shard \X Nat
  BY <1>1 DEF Indexed, RowsFit
<1>26. /\ DOMAIN progress \subseteq Shard
       /\ \A s : At(progress, s) \in Nat
       /\ \A s \in DOMAIN progress : At(progress, s) = progress[s]
       /\ \A s \in DOMAIN progress : Kept(s, files', today)
       /\ \A s \in DOMAIN progress : s[1] = d => s = base
  BY <1>12, <1>25, OffsetsAre
<1>27. \A i \in 0..(n - 1) : i # 0 => <<d, i>> \notin DOMAIN progress /\ At(progress, <<d, i>>) = 0
  <2>1. \A i \in 0..(n - 1) : i # 0 => <<d, i>> # base
    BY DEF base
  <2> QED
    BY <1>9, <1>26, <2>1 DEF At
<1>28. d \notin ChangedDates
  <2>1. SUFFICES ASSUME NEW t \in DOMAIN files, At(progress, t) > Len(files[t]), t[1] = d
                 PROVE  FALSE
    BY DEF ChangedDates
  <2>2. PICK u \in DOMAIN files : u[1] = t[1] /\ u[2] > t[2]
    BY <1>1, <2>1 DEF Indexed, ShortFiles
  <2>3. u = t /\ u[2] \in Nat
    BY <1>4, <1>7, <2>1, <2>2, ShardsAre
  <2> QED
    BY <2>2, <2>3
<1>29. /\ At(progress, base) \in {0} \cup LineEnds(cells)
       /\ \A p \in Parsed(cells, 0) : p <= At(progress, base) => <<base, p>> \in DOMAIN rows
       /\ \A p \in LineEnds(cells), r \in DOMAIN rows : rows[r] = cells[p][1] <=> r = <<base, p>>
  BY <1>1, <1>3, <1>9, <1>28 DEF Indexed, RowsAreThere, RowsOfLines, Unchanged
<1>30. ASSUME NEW s \in DOMAIN files, s[1] # d
       PROVE  Unchanged(s)' => Unchanged(s)
  <2>1. SUFFICES ASSUME NEW t \in DOMAIN files, At(progress, t) > Len(files[t]), t[1] = s[1]
                 PROVE  s[1] \in ChangedDates'
    BY DEF Unchanged, ChangedDates
  <2>2. t \in DOMAIN files' /\ At(progress', t) > Len(files'[t])
    BY <1>4, <1>6, <1>30, <2>1
  <2> QED
    BY <2>1, <2>2 DEF ChangedDates
<1>31. RowsFit'
  BY <1>1, <1>6, <1>26 DEF Indexed, RowsFit
<1>32. ASSUME d \notin ChangedDates'
       PROVE  At(progress, base) <= start[1]
  <2>1. ~ (At(progress', base) > Len(files'[base]))
    BY <1>4, <1>9, <1>32 DEF ChangedDates, base
  <2>2. Len(files'[base]) = start[1] - start[0]
    <3>1. Len(files'[<<d, 0>>]) = start[0 + 1] - start[0] /\ 0 + 1 = 1
      BY <1>4
    <3> QED
      BY <3>1 DEF base
  <2>3. start[1] \in Nat
    <3>1. start[0 + 1] \in Nat /\ 0 + 1 = 1
      <4>1. 0 \in 0..(n - 1) /\ \A k \in 0..(n - 1) : start[k + 1] \in Nat
        BY <1>4
      <4> QED
        BY <4>1
    <3> QED
      BY <3>1
  <2> QED
    BY <1>5, <1>6, <1>26, <2>1, <2>2, <2>3
<1>33. RowsOfLines'
  <2>1. ASSUME NEW s \in DOMAIN files', NEW p \in LineEnds(files'[s]), NEW r \in DOMAIN rows
        PROVE  /\ rows[r] = files'[s][p][1] => r[1][1] = s[1]
               /\ Unchanged(s)' => (rows[r] = files'[s][p][1] <=> r = <<s, p>>)
    <3>1. CASE s \in DOMAIN files /\ s[1] # d /\ files'[s] = files[s]
      BY <1>1, <1>30, <3>1 DEF Indexed, RowsOfLines
    <3>2. CASE \E k \in 0..(n - 1) : s = <<d, k>>
      <4>1. PICK i \in 0..(n - 1) : s = <<d, i>>
        BY <3>2
      <4> DEFINE q == start[i] + p
      <4>2. /\ q \in LineEnds(cells) /\ files'[s][p] = cells[q]
            /\ p \in Nat \ {0} /\ start[i] \in Nat
        BY <1>4, <4>1
      <4>3. rows[r] = files'[s][p][1] <=> r = <<base, q>>
        BY <1>29, <4>2
      <4>4. rows[r] = files'[s][p][1] => r[1][1] = s[1]
        BY <1>9, <4>1, <4>3
      <4>5. CASE i = 0
        <5>1. q = p /\ s = base
          BY <1>5, <4>1, <4>2, <4>5 DEF base
        <5> QED
          BY <4>3, <4>4, <5>1
      <4>6. CASE i # 0
        <5>1. r # <<s, p>>
          <6>1. s \notin DOMAIN progress
            BY <1>27, <4>1, <4>6
          <6> QED
            BY <1>25, <6>1
        <5>2. ASSUME d \notin ChangedDates'
              PROVE  r # <<base, q>>
          <6>1. SUFFICES ASSUME r = <<base, q>> PROVE FALSE
            OBVIOUS
          <6>2. q <= At(progress, base)
            BY <1>25, <1>26, <6>1
          <6>3. start[1] <= start[i]
            <7>1. 0 < i => start[0 + 1] <= start[i]
              BY <1>4
            <7>2. 0 < i /\ 0 + 1 = 1
              BY <1>4, <4>6
            <7> QED
              BY <7>1, <7>2
          <6>4. At(progress, base) <= start[1] /\ At(progress, base) \in Nat /\ start[1] \in Nat
            <7>1. start[0 + 1] \in Nat /\ 0 + 1 = 1
              <8>1. 0 \in 0..(n - 1) /\ \A k \in 0..(n - 1) : start[k + 1] \in Nat
                BY <1>4
              <8> QED
                BY <8>1
            <7> QED
              BY <1>26, <1>32, <5>2, <7>1
          <6> QED
            BY <4>2, <6>2, <6>3, <6>4
        <5>3. Unchanged(s)' => d \notin ChangedDates'
          BY <1>9, <4>1 DEF Unchanged
        <5> QED
          BY <4>3, <4>4, <5>1, <5>2, <5>3
      <4> QED
        BY <4>5, <4>6
    <3> QED
      BY <1>4, <3>1, <3>2
  <2> QED
    BY <1>6, <2>1 DEF RowsOfLines
<1>34. ShortFiles'
  <2>1. ASSUME NEW s \in DOMAIN files', At(progress, s) > Len(files'[s])
        PROVE  \E u \in DOMAIN files' : u[1] = s[1] /\ u[2] > s[2]
    <3>1. CASE s \in DOMAIN files /\ s[1] # d /\ files'[s] = files[s]
      <4>1. PICK u \in DOMAIN files : u[1] = s[1] /\ u[2] > s[2]
        BY <1>1, <2>1, <3>1 DEF Indexed, ShortFiles
      <4> QED
        BY <1>4, <3>1, <4>1
    <3>2. CASE \E k \in 0..(n - 1) : s = <<d, k>>
      <4>1. PICK i \in 0..(n - 1) : s = <<d, i>>
        BY <3>2
      <4>2. Len(files'[s]) = start[i + 1] - start[i] /\ start[i] \in Nat /\ start[i + 1] \in Nat
            /\ start[i] < start[i + 1] /\ start[i + 1] <= Len(cells)
        BY <1>4, <4>1
      <4>3. i = 0
        <5>1. SUFFICES ASSUME i # 0 PROVE FALSE
          OBVIOUS
        <5>2. At(progress, s) = 0
          BY <1>27, <4>1, <5>1
        <5> QED
          BY <2>1, <4>2, <5>2
      <4>4. start[1] \in Nat /\ Len(files'[s]) = start[1] /\ s = base
        <5>1. 0 + 1 = 1
          OBVIOUS
        <5> QED
          BY <1>5, <4>1, <4>2, <4>3, <5>1 DEF base
      <4>5. At(progress, base) <= Len(cells)
        BY <1>8, <1>29
      <4>6. start[1] # Len(cells)
        BY <1>8, <1>26, <2>1, <4>4, <4>5
      <4>7. 1 \in 0..(n - 1)
        <5>1. start[n] = Len(cells)
          BY <1>3 DEF Division
        <5>2. n # 1
          BY <4>6, <5>1
        <5> QED
          BY <1>4, <5>2
      <4>8. <<d, 1>> \in DOMAIN files' /\ <<d, 1>>[1] = s[1] /\ <<d, 1>>[2] > s[2]
        BY <1>4, <1>9, <4>1, <4>3, <4>7
      <4> QED
        BY <4>8
    <3> QED
      BY <1>4, <3>1, <3>2
  <2> QED
    BY <1>6, <2>1 DEF ShortFiles
<1>35. RowsAreThere'
  <2>1. ASSUME NEW s \in DOMAIN files', Unchanged(s)'
        PROVE  /\ At(progress, s) \in {0} \cup LineEnds(files'[s])
               /\ \A p \in Parsed(files'[s], 0) : p <= At(progress, s) => <<s, p>> \in DOMAIN rows
    <3>1. CASE s \in DOMAIN files /\ s[1] # d /\ files'[s] = files[s]
      BY <1>1, <1>30, <2>1, <3>1 DEF Indexed, RowsAreThere
    <3>2. CASE \E k \in 0..(n - 1) : s = <<d, k>>
      <4>1. PICK i \in 0..(n - 1) : s = <<d, i>>
        BY <3>2
      <4>2. \A p \in Parsed(files'[s], 0) :
                /\ p \in Nat \ {0} /\ start[i] + p \in Parsed(cells, 0)
        BY <1>4, <4>1 DEF Parsed
      <4>3. CASE i # 0
        BY <1>27, <4>1, <4>2, <4>3
      <4>4. CASE i = 0
        <5>1. s = base /\ start[0] = 0
          BY <1>5, <4>1, <4>4 DEF base
        <5>2. d \notin ChangedDates'
          BY <1>9, <2>1, <5>1 DEF Unchanged
        <5>3. /\ start[1] \in Nat
              /\ \A p \in 1..(start[1] - start[0]) :
                     start[0] + p \in LineEnds(cells) => p \in LineEnds(files'[base])
          <6>1. /\ start[0 + 1] \in Nat
                /\ \A p \in 1..(start[0 + 1] - start[0]) :
                       start[0] + p \in LineEnds(cells) => p \in LineEnds(files'[<<d, 0>>])
            BY <1>4
          <6>2. 0 + 1 = 1
            OBVIOUS
          <6> QED
            BY <6>1, <6>2 DEF base
        <5>4. At(progress, base) <= start[1] /\ At(progress, base) \in Nat
          BY <1>26, <1>32, <5>2
        <5>5. At(progress, base) \in {0} \cup LineEnds(files'[base])
          <6>1. CASE At(progress, base) # 0
            <7>1. At(progress, base) \in 1..(start[1] - start[0])
              BY <5>1, <5>3, <5>4, <6>1
            <7>2. start[0] + At(progress, base) = At(progress, base)
              BY <5>1, <5>4
            <7> QED
              BY <1>29, <5>3, <6>1, <7>1, <7>2
          <6> QED
            BY <6>1
        <5>6. \A p \in Parsed(files'[s], 0) : p <= At(progress, s) => <<s, p>> \in DOMAIN rows
          BY <1>29, <4>2, <4>4, <5>1
        <5> QED
          BY <5>1, <5>5, <5>6
      <4> QED
        BY <4>3, <4>4
    <3> QED
      BY <1>4, <3>1, <3>2
  <2> QED
    BY <1>6, <2>1 DEF RowsAreThere
<1> QED
  BY <1>11, <1>23, <1>24, <1>31, <1>33, <1>34, <1>35 DEF LogInv, Indexed

-----------------------------------------------------------------------------
(* The theorems *)

\* Before the first start there is nothing.
LEMMA InitLog == LogInit => LogInv
<1> SUFFICES ASSUME LogInit
             PROVE  LogInv
  OBVIOUS
<1>1. <<>> \in Offsets /\ DOMAIN <<>> = {}
  <2>1. <<>> \in Seq(Nat) /\ Len(<<>>) = 0
    BY EmptySeq
  <2>2. <<>> \in [1..0 -> Nat] /\ DOMAIN <<>> = 1..0
    BY <2>1, LenProperties
  <2>3. 1..0 = {} /\ {} \in SUBSET Shard
    OBVIOUS
  <2> QED
    BY <2>2, <2>3 DEF Offsets
<1>2. /\ files = <<>> /\ rows = <<>> /\ progress = <<>>
      /\ summary = <<>> /\ cache = <<>> /\ writing = <<>>
      /\ pc = "down" /\ indexing = FALSE /\ today = 1 /\ last = 0 /\ unread = {}
  BY DEF LogInit
<1>3. Typed
  <2>1. today \in Dates /\ last \in 0..MaxRecords
    BY <1>2, LogStoreAssumption DEF Dates
  <2>2. indexing \in BOOLEAN
    BY <1>2
  <2> QED
    BY <1>2, <2>1, <2>2 DEF Typed
<1>4. FilesFit
  <2>1. DOMAIN files = {} /\ \E b \in Nat : \A s \in DOMAIN files : s[2] <= b
    BY <1>1, <1>2
  <2> QED
    BY <2>1 DEF FilesFit, FilesAre, OneLine
<1>5. TotalsFit /\ WritingFits /\ AllCounted /\ InUse
  BY <1>2 DEF TotalsFit, WritingFits, Writing, AllCounted, InUse
<1>6. RowsFit
  BY <1>1, <1>2 DEF RowsFit
<1>7. RowsOfLines /\ ShortFiles /\ RowsAreThere
  BY <1>1, <1>2 DEF RowsOfLines, ShortFiles, RowsAreThere
<1> QED
  BY <1>3, <1>4, <1>5, <1>6, <1>7 DEF LogInv, Indexed

LEMMA KeepStutter ==
    ASSUME LogInv, UNCHANGED logVars
    PROVE  LogInv'
<1>1. UNCHANGED <<files, summary, rows, progress, pc, cache, indexing, writing, today,
                  last, unread>>
  BY DEF logVars
<1>2. ChangedDates' = ChangedDates
  BY <1>1 DEF ChangedDates
<1>3. /\ Typed /\ FilesFit /\ TotalsFit /\ WritingFits /\ AllCounted /\ Indexed /\ InUse
  BY DEF LogInv
<1>4. Typed'
  BY <1>1, <1>3 DEF Typed
<1>5. FilesFit' /\ TotalsFit'
  BY <1>1, <1>3 DEF FilesFit, TotalsFit
<1>6. Indexed'
  BY <1>1, <1>2, <1>3 DEF Indexed, RowsFit, RowsOfLines, ShortFiles, RowsAreThere, Unchanged
<1>7. WritingFits' /\ AllCounted' /\ InUse'
  BY <1>1, <1>2, <1>3 DEF WritingFits, Writing, AllCounted, InUse, InHand
<1> QED
  BY <1>4, <1>5, <1>6, <1>7 DEF LogInv

\* One line per record, totals divided at their offsets and rows before the
\* progress of the index, whatever dies, fails, is cleaned up or migrated.
THEOREM LogInvariant ==
    ASSUME ~LateErrors, "rebuild" \notin ReadErrors
    PROVE  LogSpec => []LogInv
<1>1. LogInv /\ [LogNext]_logVars => LogInv'
  <2> SUFFICES ASSUME LogInv, [LogNext]_logVars
               PROVE  LogInv'
    OBVIOUS
  <2>1. CASE AppendRecord
    BY <2>1, KeepAppend
  <2>2. CASE IndexAppend
    BY <2>2, KeepIndexAppend
  <2>3. CASE Count
    BY <2>3, KeepCount
  <2>4. CASE Stop
    BY <2>4, KeepStop
  <2>5. CASE Crash
    BY <2>5, KeepCrash
  <2>6. CASE Load
    BY <2>6, KeepLoad
  <2>7. CASE Cleanup
    BY <2>7, KeepCleanup
  <2>8. CASE SaveRecovered
    BY <2>8, KeepSaveRecovered
  <2>9. CASE IndexForget
    BY <2>9, KeepIndexForget
  <2>10. CASE IndexBatch
    BY <2>10, KeepIndexBatch
  <2>11. CASE Ready
    BY <2>11, KeepReady
  <2>12. CASE Split
    BY <2>12, KeepSplit
  <2>13. CASE NextDay
    BY <2>13, KeepNextDay
  <2>14. CASE UNCHANGED logVars
    BY <2>14, KeepStutter
  <2>15. QED
    BY <2>1, <2>2, <2>3, <2>4, <2>5, <2>6, <2>7, <2>8, <2>9, <2>10, <2>11, <2>12, <2>13, <2>14
       DEF LogNext
<1>2. QED
  BY <1>1, InitLog, PTL DEF LogSpec

\* The log, its totals and its index are of their types, and no shard outgrows
\* its limit, also when the migration cuts it.
THEOREM LogTypeCorrect ==
    ASSUME ~LateErrors, "rebuild" \notin ReadErrors
    PROVE  LogSpec => []LogTypeOK
<1>1. LogInv => LogTypeOK
  <2> SUFFICES ASSUME LogInv
               PROVE  LogTypeOK
    OBVIOUS
  <2>1. /\ DOMAIN files \subseteq Shard
        /\ \A s \in DOMAIN files : files[s] \in Seq(Cell) /\ Len(files[s]) <= ShardCells
    BY DEF LogInv, FilesFit, FilesAre
  <2>2. ASSUME NEW t \in {summary, cache} \ {<<>>}
        PROVE  /\ t.count \in [Ids -> Nat]
               /\ DOMAIN t.offsets \subseteq Shard
               /\ \A s \in DOMAIN t.offsets : t.offsets[s] \in Nat
    <3>1. t \in Totals
      BY <2>2 DEF LogInv, TotalsFit, Fits
    <3>2. t.count \in [Ids -> {0, 1}] /\ t.offsets \in Offsets
      BY <3>1, TotalsAre
    <3> QED
      BY <3>2, OffsetsAre
  <2>3. DOMAIN rows \subseteq Shard \X Nat /\ \A r \in DOMAIN rows : rows[r] \in 1..last
    BY DEF LogInv, Indexed, RowsFit
  <2>4. DOMAIN progress \subseteq Shard
    <3>1. progress \in Offsets
      BY DEF LogInv, Indexed, RowsFit
    <3> QED
      BY <3>1, OffsetsAre
  <2>5. /\ pc \in {"down", "loaded", "cleaned", "saved", "ready", "appended", "indexed"}
        /\ indexing \in BOOLEAN /\ unread \subseteq ReadErrors
    BY DEF LogInv, Typed
  <2>6. \A r \in DOMAIN rows : rows[r] \in Ids
    <3>1. last \in 0..MaxRecords /\ MaxRecords \in Nat
      BY LogStoreAssumption DEF LogInv, Typed
    <3> QED
      BY <2>3, <3>1 DEF Ids
  <2> QED
    BY <2>1, <2>2, <2>3, <2>4, <2>5, <2>6 DEF LogTypeOK
<1>2. QED
  BY <1>1, LogInvariant, PTL

\* A saved offset is the end of a line: the next recovery reads whole lines.
THEOREM OffsetsStayLineEnds ==
    ASSUME ~LateErrors, "rebuild" \notin ReadErrors
    PROVE  LogSpec => []OffsetsAreLineEnds
<1>1. LogInv => OffsetsAreLineEnds
  BY DEF LogInv, TotalsFit, Fits, AtLines, OffsetsAreLineEnds
<1>2. QED
  BY <1>1, LogInvariant, PTL

\* A readable line is a whole payload of one file.
LEMMA ReadableIs ==
    ASSUME FilesFit, NEW l \in ReadableLines
    PROVE  /\ l[1] \in DOMAIN files /\ l[2] \in Parsed(files[l[1]], 0)
           /\ l[2] \in LineEnds(files[l[1]]) /\ l = <<l[1], l[2]>>
           /\ RecordAt(l) \in Ids
<1>1. l \in Lines /\ l[2] \in Parsed(files[l[1]], 0)
  BY DEF ReadableLines
<1>2. l[1] \in DOMAIN files /\ l = <<l[1], l[2]>>
  BY <1>1 DEF Lines
<1>3. l[2] \in LineEnds(files[l[1]])
  BY <1>1 DEF Parsed
<1>4. files[l[1]] \in Seq(Cell)
  BY <1>2 DEF FilesFit, FilesAre
<1>5. files[l[1]][l[2]][1] \in Ids
  BY <1>3, <1>4, EndsAre
<1> QED
  BY <1>1, <1>2, <1>3, <1>5 DEF RecordAt

\* A process counts what can be read, but for the record it writes.
LEMMA ReadableCounted ==
    ASSUME LogInv, pc # "down", NEW l \in ReadableLines
    PROVE  cache.count[RecordAt(l)] = 1 \/ (Writing /\ RecordAt(l) = writing.id)
<1>1. /\ l[1] \in DOMAIN files /\ l[2] \in Parsed(files[l[1]], 0)
      /\ l[2] \in LineEnds(files[l[1]])
  BY ReadableIs DEF LogInv
<1>2. Divided(cache, files)
  BY DEF LogInv, AllCounted, TotalsFit, Fits
<1>3. CASE l[2] <= At(cache.offsets, l[1])
  BY <1>1, <1>2, <1>3 DEF Divided, RecordAt
<1>4. CASE Writing /\ InHand(l[1], l[2])
  <2>1. files[l[1]] \in Seq(Cell)
    BY <1>1 DEF LogInv, FilesFit, FilesAre
  <2>2. l[2] # 0
    BY <1>1, <2>1, EndsAre
  <2>3. files[l[1]][l[2]] = <<writing.id, "tail">>
    BY <1>4, <2>2 DEF LogInv, WritingFits, InHand
  <2> QED
    BY <1>4, <2>3 DEF RecordAt
<1> QED
  BY <1>1, <1>3, <1>4 DEF LogInv, AllCounted

\* A running proxy has counted every readable record, and none is ever counted
\* twice, on the disk or in the process.
THEOREM CountsAreExact ==
    ASSUME ~LateErrors, "rebuild" \notin ReadErrors
    PROVE  LogSpec => []CountedOnce
<1>1. LogInv => CountedOnce
  <2> SUFFICES ASSUME LogInv
               PROVE  CountedOnce
    OBVIOUS
  <2>1. ASSUME pc = "ready", NEW l \in ReadableLines
        PROVE  cache.count[RecordAt(l)] = 1
    BY <2>1, ReadableCounted DEF Writing
  <2>2. ASSUME NEW t \in {summary, cache} \ {<<>>}, NEW id \in Ids
        PROVE  t.count[id] <= 1
    <3>1. t \in Totals
      BY <2>2 DEF LogInv, TotalsFit, Fits
    <3>2. t.count[id] \in {0, 1}
      BY <3>1, TotalsAre
    <3> QED
      BY <3>2
  <2> QED
    BY <2>1, <2>2 DEF CountedOnce
<1>2. QED
  BY <1>1, LogInvariant, PTL

\* An index in use has every readable record exactly once, at its place.
THEOREM IndexStaysExact ==
    ASSUME ~LateErrors, "rebuild" \notin ReadErrors
    PROVE  LogSpec => []IndexIsExact
<1>1. LogInv => IndexIsExact
  <2> SUFFICES ASSUME LogInv, pc = "ready", indexing
               PROVE  /\ \A l \in ReadableLines : l \in DOMAIN rows /\ rows[l] = RecordAt(l)
                      /\ \A r, q \in DOMAIN rows : rows[r] = rows[q] => r = q
    BY DEF IndexIsExact
  <2>1. FilesFit /\ RowsFit /\ RowsOfLines /\ RowsAreThere /\ InUse
    BY DEF LogInv, Indexed
  <2>2. ASSUME NEW l \in ReadableLines
        PROVE  l \in DOMAIN rows /\ rows[l] = RecordAt(l)
    <3>1. /\ l[1] \in DOMAIN files /\ l[2] \in Parsed(files[l[1]], 0)
          /\ l[2] \in LineEnds(files[l[1]]) /\ l = <<l[1], l[2]>>
      BY <2>1, ReadableIs
    <3>2. Unchanged(l[1]) /\ l[2] <= At(progress, l[1])
      BY <2>1, <3>1 DEF InUse, Unchanged
    <3>3. <<l[1], l[2]>> \in DOMAIN rows
      BY <2>1, <3>1, <3>2 DEF RowsAreThere
    <3>4. rows[<<l[1], l[2]>>] = files[l[1]][l[2]][1]
      BY <2>1, <3>1, <3>2, <3>3 DEF RowsOfLines
    <3> QED
      BY <3>1, <3>3, <3>4 DEF RecordAt
  <2> QED
    BY <2>1, <2>2 DEF RowsFit
<1>2. QED
  BY <1>1, LogInvariant, PTL

\* No step takes a record out of the saved totals or loses them, unless the start
\* failed to read the summary or a shard, and then no file has it any more.
THEOREM TotalsStay ==
    ASSUME ~LateErrors, "rebuild" \notin ReadErrors
    PROVE  LogSpec => TotalsAreKept
<1>1. LogInv /\ LogInv' /\ [LogNext]_logVars =>
        [summary # <<>> =>
            /\ summary' # <<>>
            /\ \A id \in Ids : \/ summary'.count[id] >= summary.count[id]
                               \/ unread # {} /\ Removed(id)]_logVars
  <2> SUFFICES ASSUME LogInv, LogInv', LogNext, summary # <<>>
               PROVE  /\ summary' # <<>>
                      /\ \A id \in Ids : \/ summary'.count[id] >= summary.count[id]
                                         \/ unread # {} /\ Removed(id)
    OBVIOUS
  <2>1. /\ summary \in Totals
        /\ cache # <<>> => cache \in Totals
        /\ cache # <<>> /\ unread = {} =>
               \A id \in Ids : summary.count[id] <= cache.count[id]
        /\ pc # "down" => cache # <<>>
        /\ Writing => cache.count[writing.id] = 0
    BY DEF LogInv, TotalsFit, Fits, AllCounted, WritingFits
  <2>2. /\ \A id \in Ids : summary.count[id] \in {0, 1}
        /\ cache # <<>> => /\ cache.count \in [Ids -> {0, 1}]
                           /\ \A id \in Ids : cache.count[id] \in {0, 1}
    BY <2>1, TotalsAre
  <2>3. ASSUME pc # "down", NEW id \in Ids
        PROVE  \/ summary.count[id] <= cache.count[id]
               \/ Writing /\ id = writing.id
               \/ unread # {} /\ Removed(id)
    <3>1. CASE unread = {}
      BY <2>1, <2>3, <3>1
    <3>2. CASE unread # {} /\ ~Removed(id)
      <4>1. PICK l \in ReadableLines : RecordAt(l) = id
        BY <3>2 DEF Removed
      <4>2. cache.count[id] = 1 \/ (Writing /\ id = writing.id)
        BY <2>3, <4>1, ReadableCounted
      <4> QED
        BY <2>2, <4>2
    <3> QED
      BY <3>1, <3>2
  <2>4. CASE UNCHANGED summary
    BY <2>2, <2>4
  <2>5. CASE summary' = cache /\ pc \in {"ready", "cleaned"}
    <3>1. ~Writing /\ pc # "down"
      BY <2>5 DEF Writing
    <3>2. \A id \in Ids : cache.count[id] \in Nat /\ summary.count[id] \in Nat
      BY <2>1, <2>2, <3>1
    <3> QED
      BY <2>1, <2>3, <2>5, <3>1, <3>2
  <2>6. CASE Count
    <3>1. /\ pc = "indexed" /\ pc' = "ready"
          /\ summary' = cache' \/ summary' = summary
          /\ cache' = [count   |-> [cache.count EXCEPT ![writing.id] = @ + 1],
                       offsets |-> cache'.offsets]
      BY <2>6 DEF Count
    <3>2. CASE summary' = cache'
      <4>1. cache'.count = [cache.count EXCEPT ![writing.id] = @ + 1]
        BY <3>1
      <4>2. /\ cache.count \in [Ids -> {0, 1}] /\ cache.count[writing.id] = 0
            /\ \A id \in Ids : cache.count[id] \in {0, 1}
        BY <2>1, <2>2, <3>1 DEF Writing
      <4>3. \A id \in Ids : cache'.count[id] >= cache.count[id]
        BY <4>1, <4>2
      <4>4. \A id \in Ids : id = writing.id => cache'.count[id] = 1
        BY <4>1, <4>2
      <4>5. \A id \in Ids : \/ cache'.count[id] >= summary.count[id]
                            \/ unread # {} /\ Removed(id)
        <5>1. TAKE id \in Ids
        <5>2. CASE id = writing.id
          BY <2>2, <4>4, <5>2
        <5>3. CASE id # writing.id
          <6>1. cache'.count[id] = cache.count[id]
            BY <4>1, <4>2, <5>3
          <6>2. summary.count[id] <= cache.count[id] \/ (unread # {} /\ Removed(id))
            BY <2>3, <3>1, <5>3
          <6> QED
            BY <2>2, <4>2, <6>1, <6>2
        <5> QED
          BY <5>2, <5>3
      <4>6. cache' # <<>>
        BY <3>1 DEF LogInv, AllCounted
      <4> QED
        BY <3>2, <4>5, <4>6
    <3> QED
      BY <2>4, <3>1, <3>2
  <2>7. CASE Split
    <3>1. summary = [count |-> summary.count, offsets |-> summary.offsets]
      BY <2>1, TotalsAre
    <3>2. PICK d \in Dates : \E start, n : Migrated(d, files[<<d, 0>>], start, n)
      BY <2>7, SplitMigrates
    <3>3. summary' = [count |-> summary.count, offsets |-> summary'.offsets]
      BY <3>2 DEF Migrated
    <3>4. summary'.count = summary.count
      BY <3>3
    <3>5. DOMAIN summary' = {"count", "offsets"}
      BY <3>3
    <3>6. DOMAIN <<>> = {}
      OBVIOUS
    <3>7. summary' # <<>>
      BY <3>5, <3>6
    <3> QED
      BY <2>2, <3>4, <3>7
  <2>8. CASE Stop \/ SaveRecovered
    BY <2>4, <2>5, <2>8 DEF Stop, SaveRecovered
  <2>9. CASE AppendRecord \/ IndexAppend \/ Crash \/ Load \/ Cleanup
    BY <2>4, <2>9 DEF AppendRecord, IndexAppend, Crash, Load, Cleanup
  <2>10. CASE IndexForget \/ IndexBatch \/ Ready \/ NextDay
    BY <2>4, <2>10 DEF IndexForget, IndexBatch, Ready, NextDay
  <2>11. QED
    BY <2>6, <2>7, <2>8, <2>9, <2>10 DEF LogNext
<1>2. QED
  BY <1>1, LogInvariant, PTL DEF LogSpec, TotalsAreKept

\* The cumulative totals are kept for good, as the docs promise, by starts that can
\* read what is there.
THEOREM TotalsStayIfRead ==
    ASSUME ~LateErrors, ReadErrors = {}
    PROVE  LogSpec => TotalsArePermanent
<1>1. "rebuild" \notin ReadErrors
  OBVIOUS
<1>2. LogInv => unread = {}
  BY DEF LogInv, Typed
<1>3. LogInv /\ [summary # <<>> =>
                    /\ summary' # <<>>
                    /\ \A id \in Ids : \/ summary'.count[id] >= summary.count[id]
                                       \/ unread # {} /\ Removed(id)]_logVars =>
        [summary # <<>> =>
            /\ summary' # <<>>
            /\ \A id \in Ids : summary'.count[id] >= summary.count[id]]_logVars
  BY <1>2
<1>4. QED
  BY <1>1, <1>3, LogInvariant, TotalsStay, PTL DEF TotalsAreKept, TotalsArePermanent
=============================================================================

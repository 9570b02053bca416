------------------------------- MODULE LogStore -------------------------------
(***************************************************************************)
(* The request log and what is derived from it: JSONL shards per day, the  *)
(* cumulative summary with its byte offsets (log_store.py), the SQLite     *)
(* index of statistics (stats_index.py) and the off-line migration of      *)
(* oversized files (log_split.py).                                         *)
(*                                                                         *)
(* RetryLogStore.write runs under a lock and does not await: two writes    *)
(* never interleave, but the process may die between any two of its        *)
(* effects on the disk.  What a process wrote survives its death; power    *)
(* failures are not modelled (the code does not call fsync here).          *)
(*                                                                         *)
(* A payload is two cells, its head and its tail with the newline: an      *)
(* append that is cut off leaves the head alone.  Offsets count cells.     *)
(***************************************************************************)
EXTENDS Naturals, Sequences, FiniteSetsExt

CONSTANTS
    MaxRecords,     \* bound on the records written
    MaxDate,        \* bound on the days on which something is logged
    ShardCells,     \* MAX_LOG_FILE_BYTES
    SplitCells,     \* target_bytes of the migration
    MaxErrors,      \* bound on I/O errors
    MaxCrashes,     \* bound on deaths of the process
    LateErrors,     \* may an append fail when the file is closed
    ReadErrors      \* what a start may fail to read: the "summary", a "shard" from
                    \* its offset on, or one while the totals are counted anew
                    \* ("rebuild")

ASSUME LogStoreAssumption ==
    /\ MaxRecords \in Nat /\ MaxDate \in Nat \ {0}
    /\ ShardCells \in Nat /\ ShardCells >= 2
    /\ SplitCells \in Nat \ {0}
    /\ MaxErrors \in Nat /\ MaxCrashes \in Nat
    /\ LateErrors \in BOOLEAN
    /\ ReadErrors \subseteq {"summary", "shard", "rebuild"}

VARIABLES
    files,          \* [shard -> its cells], the JSONL files
    summary,        \* _summary.json, <<>> when there is none
    rows,           \* table records: [<<shard, offset>> -> record]
    progress,       \* table progress: [shard -> offset]
    pc,             \* "down", the steps of initialize, "ready", those of write
    cache,          \* summary_cache
    indexing,       \* stats_index is not None
    writing,        \* the record being written, its shard and its offset
    today,
    last,           \* the number of records so far
    unread,         \* ghost: what this start failed to read
    errors, crashes

logVars == <<files, summary, rows, progress, pc, cache, indexing, writing,
             today, last, unread, errors, crashes>>

-----------------------------------------------------------------------------
(* Data *)

Ids == 1..MaxRecords
Dates == 1..MaxDate

Shard == Dates \X Nat                   \* date and number; base file: number 0

Cell == Ids \X {"head", "tail"}

Payload(id) == <<<<id, "head">>, <<id, "tail">>>>

LineEnds(cells) == {p \in DOMAIN cells : cells[p][2] = "tail"}

\* The ends of the lines after an offset that are one whole payload.
Parsed(cells, from) ==
    {p \in LineEnds(cells) : p = from + 2 \/ (p > from + 2 /\ p - 2 \in LineEnds(cells))}

WholeFile(cells, from) == Len(cells)        \* mutant of SafeEnd

\* Reading stops at a line without a newline.
SafeEnd(cells, from) == Max({from} \cup {p \in LineEnds(cells) : p > from})

Records(cells, from) == {cells[p][1] : p \in Parsed(cells, from)}

NoTotals == [count |-> [id \in Ids |-> 0], offsets |-> <<>>]

At(offsets, s) == IF s \in DOMAIN offsets THEN offsets[s] ELSE 0

Put(f, x, y) == [z \in DOMAIN f \cup {x} |-> IF z = x THEN y ELSE f[z]]

Without(f, S) == [z \in DOMAIN f \ S |-> f[z]]

Size(s) == IF s \in DOMAIN files THEN Len(files[s]) ELSE 0

OfDate(d, S) == {s \in S : s[1] = d}

Before(a, b) == a[1] < b[1] \/ (a[1] = b[1] /\ a[2] < b[2])

-----------------------------------------------------------------------------
(* write *)

\* The shard of today that is written to, before its size is looked at.
Latest == <<today, Max({0} \cup {s[2] : s \in OfDate(today, DOMAIN files)})>>

WriteFilename == IF Size(Latest) > 0 /\ Size(Latest) + 2 > ShardCells
                 THEN <<today, Latest[2] + 1>> ELSE Latest

Store(cells) ==
    files' = Put(files, WriteFilename,
                 (IF Size(WriteFilename) > 0 THEN files[WriteFilename] ELSE <<>>) \o cells)

MayErr == errors < MaxErrors /\ errors' = errors + 1

Writes(id, offset) ==
    /\ writing' = [id |-> id, shard |-> WriteFilename, offset |-> offset]
    /\ pc' = "appended"

\* offset = 0: the append raised before f.tell().  A full disk may also be
\* noticed when the file is closed, after f.tell().
AppendRecord ==
    /\ pc = "ready" /\ last < MaxRecords
    /\ last' = last + 1
    /\ LET id == last + 1
           end == Size(WriteFilename) + 2
       IN  \/ /\ Store(Payload(id))
              /\ Writes(id, end)
              /\ UNCHANGED errors
           \/ /\ MayErr
              /\ \E written \in {0, 1} : Store(SubSeq(Payload(id), 1, written))
              /\ \E offset \in {0} \cup (IF LateErrors THEN {end} ELSE {}) : Writes(id, offset)
    /\ UNCHANGED <<summary, rows, progress, cache, indexing, today, unread, crashes>>

\* INSERT OR IGNORE and the progress, in one transaction.
IndexAppend ==
    /\ pc = "appended"
    /\ pc' = "indexed"
    /\ LET place == <<writing.shard, writing.offset>>
           known == indexing /\ writing.offset # 0
       IN  \/ /\ known
              /\ rows' = IF place \in DOMAIN rows THEN rows ELSE Put(rows, place, writing.id)
              /\ progress' = Put(progress, writing.shard, writing.offset)
              /\ UNCHANGED <<indexing, errors>>
           \/ known /\ MayErr /\ indexing' = FALSE /\ UNCHANGED <<rows, progress>>
           \/ ~known /\ UNCHANGED <<rows, progress, indexing, errors>>
    /\ UNCHANGED <<files, summary, cache, writing, today, last, unread, crashes>>

\* The record is counted whether or not it was appended; the summary is saved
\* when SUMMARY_FLUSH_INTERVAL has passed or a shard was begun, if that works.
Count ==
    /\ pc = "indexed"
    /\ cache' = [count   |-> [cache.count EXCEPT ![writing.id] = @ + 1],
                 offsets |-> IF writing.offset = 0 THEN cache.offsets
                             ELSE Put(cache.offsets, writing.shard, writing.offset)]
    /\ summary' = cache' \/ UNCHANGED summary
    /\ pc' = "ready"
    /\ writing' = <<>>
    /\ UNCHANGED <<files, rows, progress, indexing, today, last, unread, errors, crashes>>

-----------------------------------------------------------------------------
(* The process ends *)

Forgotten ==
    /\ pc' = "down" /\ cache' = <<>> /\ indexing' = FALSE /\ writing' = <<>>
    /\ unread' = {}

\* The summary is flushed at a regular end.
Stop ==
    /\ pc = "ready"
    /\ \/ summary' = cache /\ UNCHANGED errors
       \/ MayErr /\ UNCHANGED summary
    /\ Forgotten
    /\ UNCHANGED <<files, rows, progress, today, last, crashes>>

Crash ==
    /\ pc # "down" /\ crashes < MaxCrashes
    /\ crashes' = crashes + 1
    /\ \/ UNCHANGED <<files, last>>
       \/ /\ pc = "ready" /\ last < MaxRecords      \* within an append
          /\ last' = last + 1
          /\ Store(SubSeq(Payload(last + 1), 1, 1))
    /\ Forgotten
    /\ UNCHANGED <<summary, rows, progress, today, errors>>

-----------------------------------------------------------------------------
(* initialize *)

Recount(totals, read, ends) ==
    [count   |-> [id \in Ids |-> totals.count[id] +
                     Cardinality({s \in DOMAIN files : id \in read[s]})],
     offsets |-> [s \in DOMAIN totals.offsets \cup DOMAIN files |->
                     IF s \in DOMAIN files THEN ends[s] ELSE totals.offsets[s]]]

\* Every file is read from the offset that was saved for it.
Replayed(totals) ==
    Recount(totals,
            [s \in DOMAIN files |-> Records(files[s], At(totals.offsets, s))],
            [s \in DOMAIN files |-> SafeEnd(files[s], At(totals.offsets, s))])

Rebuilt == Replayed(NoTotals)

\* A shard that cannot be read to its end: what was read is counted, and there is
\* no offset for it.
RebuiltBut(s, upto) ==
    LET lines(t) == {p \in Parsed(files[t], 0) : t = s => p <= upto}
        all == Recount(NoTotals,
                       [t \in DOMAIN files |-> {files[t][p][1] : p \in lines(t)}],
                       [t \in DOMAIN files |-> SafeEnd(files[t], 0)])
    IN  [count |-> all.count, offsets |-> Without(all.offsets, {s})]

\* _rebuild
Rebuilds(failed) ==
    IF "rebuild" \in failed
    THEN {RebuiltBut(s, upto) : s \in DOMAIN files, upto \in 0..ShardCells}
    ELSE {Rebuilt}

\* An offset beyond its file.
Truncated(totals) == \E s \in DOMAIN files : At(totals.offsets, s) > Len(files[s])

\* _recover_summary_tail
TailRead(totals, failed) ==
    IF "shard" \in failed \/ Truncated(totals) THEN Rebuilds(failed) ELSE {Replayed(totals)}

AlwaysRebuilt(failed) == {Rebuilt}          \* mutant of Recovered

\* With no summary, or none that can be read, the files are counted anew; so they
\* are when a file cannot be read on from its offset.
Recovered(failed) ==
    UNION {TailRead(t, failed) :
              t \in IF summary = <<>> \/ "summary" \in failed THEN Rebuilds(failed)
                    ELSE {summary}}

\* Only what is read can fail.
MayFail(failed) ==
    /\ "summary" \in failed => summary # <<>>
    /\ failed \cap {"shard", "rebuild"} # {} => DOMAIN files # {}
    /\ failed = {"rebuild"} => (summary # <<>> => Truncated(summary))

Load ==
    /\ pc = "down"
    /\ pc' = "loaded"
    /\ \E failed \in SUBSET ReadErrors :
           /\ MayFail(failed)
           /\ errors' = errors + Cardinality(failed) /\ errors' <= MaxErrors
           /\ cache' \in Recovered(failed)
           /\ unread' = failed
    /\ UNCHANGED <<files, summary, rows, progress, indexing, writing, today, last,
                   crashes>>

\* Days may pass between two dates of the model: any but the last may be old.
Cleanup ==
    /\ pc = "loaded"
    /\ pc' = "cleaned"
    /\ \E cutoff \in 1..today :
           files' = Without(files, {s \in DOMAIN files : s[1] < cutoff})
    /\ UNCHANGED <<summary, rows, progress, cache, indexing, writing, today, last,
                   unread, errors, crashes>>

SaveRecovered ==
    /\ pc = "cleaned"
    /\ pc' = "saved"
    /\ LET recovered == \/ unread \cap {"shard", "rebuild"} # {}
                        \/ summary # <<>> /\ "summary" \notin unread /\ summary # cache
           worth == cache.count # NoTotals.count \/ recovered
       IN  \/ worth /\ summary' = cache /\ UNCHANGED errors
           \/ worth /\ MayErr /\ UNCHANGED summary
           \/ ~worth /\ UNCHANGED <<summary, errors>>
    /\ UNCHANGED <<files, rows, progress, cache, indexing, writing, today, last,
                   unread, crashes>>

NoDates == {}                               \* mutant of ChangedDates

\* Dates with a file that is shorter than it was when it was indexed.
ChangedDates == {s[1] : s \in {t \in DOMAIN files : At(progress, t) > Len(files[t])}}

IndexForget ==
    /\ pc = "saved"
    /\ \E d \in ChangedDates :
           /\ rows' = Without(rows, {r \in DOMAIN rows : r[1][1] = d})
           /\ progress' = Without(progress, OfDate(d, DOMAIN progress))
    /\ UNCHANGED <<files, summary, pc, cache, indexing, writing, today, last,
                   unread, errors, crashes>>

Behind == {s \in DOMAIN files : SafeEnd(files[s], At(progress, s)) > At(progress, s)}

\* File by file, a batch of lines and the progress in one transaction.
IndexBatch ==
    /\ pc = "saved" /\ ChangedDates = {}
    /\ \E s \in Behind :
        LET from == At(progress, s)
        IN  /\ \A t \in Behind : ~Before(t, s)
            /\ \E to \in {p \in LineEnds(files[s]) : p > from} :
                LET new == {p \in Parsed(files[s], from) : p <= to}
                IN  /\ rows' = [r \in DOMAIN rows \cup ({s} \X new) |->
                                   IF r \in DOMAIN rows THEN rows[r] ELSE files[s][r[2]][1]]
                    /\ progress' = Put(progress, s, to)
    /\ UNCHANGED <<files, summary, pc, cache, indexing, writing, today, last,
                   unread, errors, crashes>>

Ready ==
    /\ pc = "saved"
    /\ \/ ChangedDates = {} /\ Behind = {} /\ indexing' = TRUE /\ UNCHANGED errors
       \/ MayErr /\ UNCHANGED indexing
    /\ pc' = "ready"
    /\ UNCHANGED <<files, summary, rows, progress, cache, writing, today, last,
                   unread, crashes>>

-----------------------------------------------------------------------------
(* The migration of an oversized file, while the proxy is down, as one step *)

\* A shard is cut at the first line end beyond the target size (split_file reads
\* in chunks; the cut it makes at a chunk's very end is not distinguished).
Cuts(cells) ==
    LET next(from) == {p \in LineEnds(cells) : p > from + SplitCells}
        cut[i \in 0..Len(cells)] ==
            IF i = 0 THEN 0
            ELSE IF next(cut[i - 1]) = {} THEN Len(cells) ELSE Min(next(cut[i - 1]))
    IN  cut

FromTheStart(offset, start, size) == 0      \* mutant of Moved

\* The summary's offset, carried over to a shard.
Moved(offset, start, size) ==
    IF offset < start THEN 0 ELSE Min({offset - start, size})

Split ==
    /\ pc = "down" /\ summary # <<>>
    /\ \E d \in Dates :
        LET base == <<d, 0>>
            cells == files[base]
            cut == Cuts(cells)
            n == Min({i \in DOMAIN cut : cut[i] = Len(cells)})
            pieces == {<<d, i>> : i \in 0..(n - 1)}
            piece(i) == SubSeq(cells, cut[i] + 1, cut[i + 1])
        IN  /\ OfDate(d, DOMAIN files) = {base}
            /\ Len(cells) > SplitCells
            /\ base \in DOMAIN summary.offsets
            /\ summary.offsets[base] <= Len(cells)
            /\ files' = [s \in DOMAIN files \cup pieces |->
                            IF s \in pieces THEN piece(s[2]) ELSE files[s]]
            /\ summary' = [summary EXCEPT !.offsets =
                   [s \in DOMAIN summary.offsets \cup pieces |->
                       IF s \in pieces
                       THEN Moved(summary.offsets[base], cut[s[2]], Len(piece(s[2])))
                       ELSE summary.offsets[s]]]
    /\ UNCHANGED <<rows, progress, pc, cache, indexing, writing, today, last, unread,
                   errors, crashes>>

NextDay ==
    /\ pc \in {"ready", "down"} /\ today < MaxDate
    /\ today' = today + 1
    /\ UNCHANGED <<files, summary, rows, progress, pc, cache, indexing, writing, last,
                   unread, errors, crashes>>

-----------------------------------------------------------------------------

LogInit ==
    /\ files = <<>> /\ summary = <<>> /\ rows = <<>> /\ progress = <<>>
    /\ pc = "down" /\ cache = <<>> /\ indexing = FALSE /\ writing = <<>>
    /\ today = 1 /\ last = 0 /\ unread = {} /\ errors = 0 /\ crashes = 0

LogNext == \/ AppendRecord \/ IndexAppend \/ Count
           \/ Stop \/ Crash
           \/ Load \/ Cleanup \/ SaveRecovered \/ IndexForget \/ IndexBatch \/ Ready
           \/ Split \/ NextDay

LogSpec == LogInit /\ [][LogNext]_logVars

-----------------------------------------------------------------------------
(* Properties *)

\* Every variable has its type; a shard never outgrows its limit.
LogTypeOK ==
    /\ DOMAIN files \subseteq Shard
    /\ \A s \in DOMAIN files : files[s] \in Seq(Cell) /\ Len(files[s]) <= ShardCells
    /\ \A t \in {summary, cache} \ {<<>>} :
           /\ t.count \in [Ids -> Nat]
           /\ DOMAIN t.offsets \subseteq Shard
           /\ \A s \in DOMAIN t.offsets : t.offsets[s] \in Nat
    /\ DOMAIN rows \subseteq Shard \X Nat
    /\ \A r \in DOMAIN rows : rows[r] \in Ids
    /\ DOMAIN progress \subseteq Shard
    /\ pc \in {"down", "loaded", "cleaned", "saved", "ready", "appended", "indexed"}
    /\ indexing \in BOOLEAN /\ unread \subseteq ReadErrors

\* The lines of the files that can be read.
Lines == {<<s, p>> : s \in DOMAIN files, p \in 1..ShardCells}

ReadableLines == {l \in Lines : l[2] \in Parsed(files[l[1]], 0)}

RecordAt(l) == files[l[1]][l[2]][1]

\* Whatever was interrupted before, a running proxy counts every record that
\* can be read once, and none twice.
CountedOnce ==
    /\ pc = "ready" => \A l \in ReadableLines : cache.count[RecordAt(l)] = 1
    /\ \A t \in {summary, cache} \ {<<>>}, id \in Ids : t.count[id] <= 1

\* No file has a line with the record any more.
Removed(id) == \A l \in ReadableLines : RecordAt(l) # id

\* The totals survive crashes, failed saves, the removal of old files and their
\* migration.  Only a process that failed to read the summary or a shard when it
\* started may replace them by less (log_store.py:145-148, 253-256, 285), and then
\* it still counts every record that is in a file.
TotalsAreKept ==
    [][summary # <<>> =>
          /\ summary' # <<>>
          /\ \A id \in Ids : \/ summary'.count[id] >= summary.count[id]
                             \/ unread # {} /\ Removed(id)]_logVars

\* "The cumulative totals are kept for good" (docs/logging-and-dlp.md:20), which
\* needs starts that can read what is there: ReadErrors = {}.
TotalsArePermanent ==
    [][summary # <<>> =>
          /\ summary' # <<>>
          /\ \A id \in Ids : summary'.count[id] >= summary.count[id]]_logVars

\* What a start recovers still counts the records of the days whose file was
\* removed before: "the cumulative totals are kept for good even if the details
\* are cleaned up" (docs/logging-and-dlp.md:20).  With LateErrors, or
\* ReadErrors, it need not.
RemovedDaysStayCounted ==
    pc = "loaded" /\ summary # <<>> =>
        \A r \in DOMAIN rows :
            r[1] \notin DOMAIN files /\ summary.count[rows[r]] = 1
                => cache.count[rows[r]] = 1

\* While the index is in use it has each record that can be read exactly
\* once, at its place, in spite of crashes, failed updates and the migration,
\* which changes the places.
IndexIsExact ==
    pc = "ready" /\ indexing =>
        /\ \A l \in ReadableLines : l \in DOMAIN rows /\ rows[l] = RecordAt(l)
        /\ \A r, q \in DOMAIN rows : rows[r] = rows[q] => r = q

\* An offset that is saved is the end of a line, never the middle of one that
\* is still to come: the next recovery starts between two records.
OffsetsAreLineEnds ==
    summary # <<>> => \A s \in DOMAIN files :
        At(summary.offsets, s) \in {0} \cup LineEnds(files[s])
=============================================================================

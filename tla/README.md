# TLA+ models of llm-retry-proxy

llm-retry-proxy forwards requests for language models to upstream providers. It
chooses an upstream key from a pool, retries what failed, hedges slow requests,
bridges WebSocket clients, keeps its pools in step with the providers' accounts,
and keeps a log with totals. This directory models these parts in TLA+, checks
the models with TLC and proves their safety properties, some under stated conditions, with TLAPS (section 4). All
paths below are relative to `src/`; line numbers are those of the modelled commit.

Run a check with `tlc -config X.cfg M` (the module of every configuration is in
the table of runs) and a proof with `tlapm M.tla`. `PROJECT.json` lists the
runs, the mutants that show each property can fail, the source lines of every
definition, the hazards and the theorems.

## 1. The system

One process, one asyncio event loop. Coroutines interleave only where they
await; threads are used only for aggregating statistics. The parts:

| Part (`retry_proxy/`) | State | Operations | Correct when |
|---|---|---|---|
| Key pool, `key_pool.py` | `KeyEntry` objects with circuit state; cached views with current key, sticky window, failover floor, session routes | `for_request`, `pick`, `mark_cooldown`, `mark_success`, `reset_circuit`, `apply_settings`, `replace_key_pool`; under balanced: probes, TTFT and cache metrics | an open circuit is not shortened or counted twice; dropped keys stay away; the floor locks nobody out |
| Serial retry, `retry.py` `_request`, `_pick_key` | locals of a coroutine: key, attempt, keys set aside | pick, wait, send, classify, report, sleep, retry | attempts go to usable keys of the pool; failed groups are not asked twice; every request ends |
| Hedged retry, `retry.py` `_race`, `_stagger` | tasks in flight, winner, gate, rounds | launch, collect, back off, cancel, close | no task or response is left; limits and pauses hold; an answer is never lost |
| Handler, `api.py` | per request: the body and its inspection, the work, the open response, the state of its stream, the log record | inspect, choose pool and view, run the request, watch for the disconnect, stream, judge the end, write the record | no secret passes that the policy keeps; one record per answer; a response is always closed; a key is blamed, or a group cooled, only for what was seen |
| Pool synchronisation, `pool_sync.py` | sources with sessions and entries, pools, a background task, an asyncio lock, a state file | connect, sync, catalogue, create and clear keys, switches, manual keys, delete, disconnect, settings, reset, availability check, save, load | an upstream has one source; its pool is what the source says; the file follows; sessions are not lost; verdicts meet the entries they were made of |
| Adapters, `sync_adapters/` | the session; the last state of the hall and the groups it condemned once | fetch, catalogue, create and delete keys, each several HTTP requests with retries | no key is created twice, deleted on one bad reading, or served when it is gone |
| WebSocket bridge, `sse2ws.py` | one turn at a time, one buffered frame, a bounded queue, the conversation so far | receive, run a turn, retry until the first event, relay, commit the replay | one verdict and one response per turn; turns in order; each output of a tool goes upstream after its call; nothing hangs or outlives the connection |
| Request log, `log_store.py`, `stats_index.py`, `log_split.py` | JSONL shards, `_summary.json` with byte offsets, an SQLite index with progress | write, initialize (recover, clean up, save, index), flush; off-line migration | each record counted and indexed once; totals are kept |
| Log reader, `log_reader.py`; statistics, `stats.py`, `usage.py` | none | aggregation within budgets | sums |
| Access, `access_control.py`, `admin_session.py`, `application.py` | bans, login attempts, sessions | ban, unban, log in, prune | caps and expiry |
| Routes and settings, `routes.py`, `settings_meta.py`, `env_file.py`, `config.py` | tables, `.env`, the live log's ring | validate, replace atomically, subscribe | no half-written file; no entry twice |
| Data-loss prevention, `dlp.py`; secrets, `secrets_crypto.py` | none | rewrite bodies; encrypt | out of scope |

How they interact. `api.py` asks the pool for a view (`for_request`) and gives it
to `RetryProxy.request`. A request with a pool is always serial
(`hedge_mode_for`); the others race or stagger if HEDGE_MODE says so. The retry
loop calls `pick` and reports each outcome to the same view. Pool
synchronisation and the admin API change the pool that running requests hold
views of. When the response has been streamed, `api.py` (or the bridge) writes
one record to the log store, which updates the file, the index and the totals.

What is hard: several requests on one key with outcomes in any order; views that
outlive the entries in them; waiting for keys that others trip again; late first tokens
of requests that were sent long ago; `asyncio.wait` batches with several answers;
cancellation at any await; a mode that changes while a body is inspected; two
coroutines around a full queue; lost answers to writes; a provider whose state
flaps; a process that dies between an append, the index and the totals. Section 5 and
`hazards` in `PROJECT.json` tie each to its line.

## 2. The modules

```
Breaker         one circuit, abstract          KeyPool        the pool
KeyPoolBreaker  KeyPool's key as a Breaker     SerialRetry  = KeyPool + requests
HedgedRetry     one request without a pool     BalancedView   one view, strategy balanced
ProxyHandler    requests, handler and answers  Sse2wsBridge   one WebSocket connection
Turns           answers, abstract              PoolSync       sources, pool, state file
ProviderRounds  one account, requests          LogStore       log, totals, index
```

**KeyPool** (`key_pool.py`). `live`, `retired`: the entries of the pool, and
those a hot update dropped (`entry._retired`). `health[e]`: `cooldown_until`,
`failure_kind`, `consecutive_failures`. `sched[v][s]`: `_current`,
`_sticky_until`, `_failover_floor` of view `v` for the slot of session `s`, or of the view itself.
Deadlines are kept as the time that is left; `Tick` lets a unit pass. A view is
identified by its workload and its ordered entries, as the code does by the ids
of its entries. `ForRequest`, `Pick`, `MarkCooldown`, `MarkSuccess`,
`ResetCircuit`, `ApplySettings`, `HotUpdate` are the methods. `Report` lets any
member of any view report any outcome: more than attempts in flight can do.
Under `Strategy = "grouped"` the group a pick comes from is free, which covers
the ttft and cache strategies, whose choice depends on measurements.

**Breaker** is what one key's circuit promises: a trip opens it at least as long
as its level requires and never shortens a wait, only a trip of a closed circuit
raises the level, a close resets everything. **KeyPoolBreaker** gives the refinement
mapping for one observed entry.

**SerialRetry** EXTENDS KeyPool with `req[r]`, the locals of `_request`. `Select`
and `WakeToPick` are a round of `_pick_key`, `Answer` an answer with its
classification, `mark_*` and the start of the close or sleep, `Closed` the rest
of the loop body, `Abandon` a cancellation at any await, `Operate` an operator or a
synchronisation, `Pass` time. A `continue` without an await is `pc = "again"`,
during which nobody else runs.

**BalancedView** is one view under the balanced strategy: `current`, `anchor`
(`_balanced_group`), `floor`, the reservation of a probe (`probing`, `reserve`, `cursor`,
`nextProbe`) and the streaks of each tier. A request goes through `Pick`, then `Headers`
(mark_success) or `Fails` (mark_cooldown), then `Token` (record_ttft), and may `End` before
any of them; each callback finds the view as others left it meanwhile. `req[r].left`, a ghost, is
what remains of the reservation a request was lent to a cheaper tier under.

**HedgedRetry** is one request with a task per attempt: `_race` and `_stagger`
action by action, from one await to the next, with `_cancel_spawned`, the closing
of losers, the header time-out, the disconnect, and a second cancellation during
the clean-up. `lag` is the age of the clock that `_stagger` reads once per batch.

**ProxyHandler** (`api.py`) has requests that share one view. `Arrive`
and `Inspected` are the two sides of the inspection in its thread, with `SetMode` in
between; `Send`, `AttemptFails`, `Answers`, `GivesUp`, `ClientLeaves` what the handler sees of
the retry service under `_run_until_disconnect`; `Denied` the error that is read and returned at once;
`Finalize` the end of `body_gen`. While it streams, only the request itself reads the state of its stream,
so the events are folded at the end: `Streams` is every state a sequence of events can
lead to. `metric` are the streaks of misses of `record_cache_usage`, `circuit` the circuits, here one
per group. `lax` and `cold` are ghosts: a mode that lets bodies pass was in force since the request arrived; misses in a row of a
group over all sessions.

**Sse2wsBridge** (`sse2ws.py`) is one connection with its four coroutines: `main` (`run`), `work` (the turn),
`watcher`, `producer`. `queue` is the bounded queue and `held` the item its producer waits to put. Items are
messages, calls and outputs with the turn they belong to, so that the replay (`replay`, `pending`, `collected`)
can be compared with what the client said. `got` is what the client got in the turn.

**Turns** is what a connection promises its client: requests are answered one at a time and in order, an answer is one response from its first event on
and without a gap, or a part of it and an error; it ends with its verdict, without which there is no next answer; and nothing is told once the connection
is given up. `Promise` in Sse2wsBridge is the refinement mapping: a connection is `"serving"` while `run` guards a turn, and
`"closed"` from the moment the watcher's news makes it cancel one, although that turn and its producer may still run.

**PoolSync** (`pool_sync.py`) has the sources of one upstream URL. `op` is the call that holds the asyncio lock, with the
session that the adapter uses meanwhile; calls that await nothing but the lock are one step. `pool`, `cooled`
are the runtime pool and the keys with an open circuit, `disk` and `dirty` the state file, `task` the background task, `check` an availability
check, which awaits without the lock, `remote` the account at the provider, whose refresh token is replaced with each use.

**ProviderRounds** (`sync_adapters/`) opens up what PoolSync takes for one answer: `round` is the
HTTP request in progress of a fetch, a filling, a creation or a deletion, page by page and key by key. Between two
requests the provider changes its groups and its hall. A request may be refused, limited, lost before or after it was obeyed,
or find its token expired. `snapshot` and `pending` are `hall_groups` and `hall_blocked_pending`; `judged` and
`read`, ghosts, count how often on end a group was found blocked.

**LogStore**. `files` maps a shard (date, number) to cells, two per record: a torn
append leaves the first. `summary` and `cache` are `_summary.json` and
`summary_cache` with counts per record and offsets; `rows` and `progress` the two
tables. `AppendRecord`, `IndexAppend`, `Count` are the effects of `write`; `Load`,
`Cleanup`, `SaveRecovered`, `IndexForget`, `IndexBatch`, `Ready` the steps of
`initialize`, before each of which the process may die (`Crash`). An append, a save and an
update of the index may fail (`MayErr`). So may what `Load` reads: `ReadErrors` says which of
`_summary.json` (log_store.py:253-256), a shard from its offset on (145-148) and a shard in
`_rebuild` (207) may be unreadable. The first two end in `_rebuild`, which counts what files are
left; after the third a file is counted in part and has no offset. `unread`, a ghost, is what the process failed to
read when it started. `Split` is the migration. Power failures are not modelled: what a
process has written stays.

How they fit together: SerialRetry uses KeyPool's actions and implements PoolSpec (`UsesThePool`), so that what is
proved of the pool holds under running requests. PoolSync drives the hot updates that KeyPool
allows. ProviderRounds justifies what PoolSync assumes of an adapter: it returns keys that exist, or fails. ProxyHandler abstracts SerialRetry to
"sent to a group that is not cooling, until one answers or it gives up". The bridge uses the same service and the same gate.

The MC modules only give the constants of an instance their values.

## 3. The runs

| Run | Module | Distinct states | Shows |
|---|---|---|---|
| PoolViews | MCKeyPool | 189 k | `TypeOK`; `ViewsAreLive`: no cached view, current key or session holds a dropped entry; `Serves`: the floor leaves every view and session a candidate; `KeyIsABreaker`: the circuit of a key implements Breaker |
| SerialFailover | MCSerialRetry | 456 k | `PoolKeyInjected`: no request goes out without a pool key; `UsesThePool`: requests implement PoolSpec |
| SerialEnds | MCSerialRetry | 33 k | `NoSendWhileCooling`; `SetAsideStaysAside`: stalled keys and rejected groups are not used while set aside; `EveryRequestEnds` |
| HedgeModes | HedgedRetry | 89 k | `NothingIsLeft`: no task or response; `NoAnswerIsLost`; `LaunchesAreDue`: pauses and MAX_CONCURRENT; `EveryHedgeEnds` |
| BalancedView | MCBalancedView | 53 k | `OneProbeAtATime`; `ProbesResume`: a cheaper tier that stays usable is probed again and again; `SlowTierLeft` |
| ProxyHandler | MCProxyHandler | 524 k | `RawOnlyIfAllowed`: no secret passes that no mode in force allowed; `AnswersAreAccounted`: each answer closed and logged once; `CacheLeavesOne`, `MissesAreConsecutive`: cache circuits |
| BridgeTurns | Sse2wsBridge | 729 k | `ContextKept`: the body sent upstream has each output after its call and no tool item twice; `FramesOfOneResponse`; `OneVerdict`; `NothingOutlives` the connection; `TurnsAsPromised`: the connection implements Turns, so that the turns come in order; `TurnsEnd` |
| PoolSync | MCPoolSync | 1.6 M | `OneOwner`; `PoolServesSource`; `DiskIsCurrent`; `SessionsSurvive`; `VerdictsAreFresh`: a check cools no entry it did not probe |
| ProviderRounds | MCProviderRounds | 264 k | `FillsOnlyMissing`: filling never gives a group a second key; `DeletionConfirmed`; `QuietAfterLimit`; `ServedKeysExist`; `DeadGroupsEmptied` |
| LogRecovery | LogStore | 701 k | `CountedOnce`; `IndexIsExact`; `OffsetsAreLineEnds`; `TotalsAreKept`: the totals on the disk lose a record only by a process that failed to read the summary or a shard when it started, and only one that no file has any more |
| LeakedWinner, BridgeHang | | | a property that documentation states and the code violates, see section 6 |

Every property of a passing run has a mutant in `PROJECT.json`: a definition that
maps to code, changed as a plausible bug would, with which TLC finds the property violated.
The type invariants `SerialTypeOK`, `HandlerTypeOK`, `HedgeTypeOK`, `SyncTypeOK`, `BridgeTypeOK`, `RoundsTypeOK` and `LogTypeOK` are proved; `BalancedTypeOK` documents
its module and holds when added to the configuration of its run.

### Bounds and why they are enough

- *Keys.* Two keys in two groups are the least with which failover, a floor and a
  group choice exist; the third entry is a dropped key that is listed again (PoolViews;
  a new object for the same key). In SerialEnds the two keys share a group, so that a rejection sets both aside.
- *Prices* {1, 2}: equal and different; entries of one price are ordered by position.
- *Time.* Cooldowns of at most 2 or 3 units with a back-off that saturates within them, so that
  a doubling, the cap and a Retry-After beyond the cap all occur.
- *Requests.* Two concurrent requests with two attempts each: a request, and another that
  trips or frees its key. Section 6 needs a third: one makes the dearer key current, one raises the floor,
  one stalls. The proofs have no bound on them.
- *MaxUpdates* = 1 hot update per behaviour; the proofs allow any number.
- *Balanced.* Three tiers of which the cheapest is slow: a tier that is left, the one that serves, and a second
  cheaper one whose turn a probe must not take for ever. Two requests; all times one unit, so that they run out in any order.
- *Handler.* Two requests of two sessions over two groups, one kind of failure, thresholds of 2 misses. Two is the least for one
  session's hit among another's misses, and for circuits that count on each other.
  FAIL_CLOSED on; modes audit and redact, one that lets pass and one that does not. The proofs cover all modes and both settings.
- *Bridge.* Three frames: a turn, one that continues it, one that was buffered. A queue of one place is full as
  soon as one event waits; one retry before the first event; two events: one to relay, one terminal.
- *Synchronisation.* Two connections and the manual source compete for one URL; one static key and one that is not; two rotations:
  a token that replaced another is replaced in its turn; any number of restarts.
- *Rounds.* Two groups, one of which stays healthy; pages of one key, so that two keys are two pages; one retry; one fault in a behaviour,
  of any kind at any request.
- *Hedging.* Three attempts, two at once: a full window, a batch of two answers,
  a last attempt. MaxLag is not below any wait, so that capping the clock's age changes nothing.
- *Log.* Four records on two days in shards of two records (or a torn one and two): rotation,
  retention, a recovery of a recovery (two deaths), two I/O errors, of which a start may use
  both up by failing to read the summary and a shard, a migration
  that cuts after every line. `ReadErrors` leaves out `"rebuild"`, with which `CountedOnce` fails (section 6).

PoolSync and ProxyHandler are checked modulo symmetry of members the code does not tell apart (connections; requests, sessions,
groups). Neither run has a liveness property.

### Fairness

`SerialFairness`: weak fairness of each request's `Step` and of `Pass`. A coroutine that
can run is run by the event loop; an attempt ends by the client's TIMEOUT and
CONNECT_TIMEOUT (defaults 300 s, 10 s); a sleep's timer fires. Nothing makes a client
come or leave, an operator act or an upstream answer well. `HedgeSpec` is the same for the
coroutine, its tasks and its clock. `EveryRequestEnds` and `EveryHedgeEnds` need MAX_RETRIES > 0
(default 60); with 0 a request goes on while its upstream fails, by design.

`BridgeSpec`: weak fairness of the coroutines, and of the upstream, whose silence ends in the read time-out of the
HTTP client. Nothing makes the client send or leave, and nothing makes a time-out win against an event.

`BalancedSpec`: time passes, a request that is under way goes on, and, for each request, strong fairness of `Pick`, `Headers` and `Token`: clients keep
sending requests, and not every one of them fails or is cancelled before its first token. Without traffic nothing is measured,
so nothing can resume. Failures are bounded by `MaxFailures`.

`RoundsSpec`: weak fairness of the requests of a round (they are answered or time out), strong fairness of
the start of a fetch, which the background task repeats for as long as it runs.

KeyPool, LogStore, PoolSync and ProxyHandler have no fairness: their properties are about what steps may not do.

`CHECK_DEADLOCK FALSE` is set where the system really stops: one hedged request
ends, requests are over, a connection closes, and the log's records and deaths are bounded.

## 4. The proofs

TLAPS proves for all values of the constants that satisfy the named assumptions
(`KeyPoolAssumption`, `SerialRetryAssumption`, `ObservedAssumption`, `BalancedAssumption`, `HandlerAssumption`, `HedgeAssumption`,
`PoolSyncAssumption`, `BridgeAssumption`, `RoundsAssumption`, `LogStoreAssumption`: types, `0 \in RetryAfters`, and that LevelCap is a level at which every kind's cooldown has reached the
maximum). A theorem that needs more says so, in its statement and in the table:

| Theorem | Module | Says |
|---|---|---|
| PoolTypeCorrect | SerialRetryProofs | `TypeOK` |
| PoolInvariant, PoolViewsAreLive, PoolServes | SerialRetryProofs | `IInv`, `ViewsAreLive`, `Serves` |
| KeysAreBreakers | SerialRetryProofs | PoolSpec implements Breaker for every entry |
| RetryInvariant, RetryTypeCorrect | SerialRetryProofs | `RInv`, `SerialTypeOK` |
| RetriesUseThePool, RetriesAreServed | SerialRetryProofs | SerialSpec implements PoolSpec; `Serves` carries over |
| PoolKeyAlways | SerialRetryProofs | `PoolKeyInjected`, if ~Repricing, no outcome is a rejection, and a stall is only one of requests without a session |
| SendsOnClosedCircuits, AsideStaysAside | SerialRetryProofs | `NoSendWhileCooling`, `SetAsideStaysAside` |
| OneProbe | BalancedViewProofs | `OneProbeAtATime`, if Interval > 0 |
| RawLeavesOnlyIfAllowed, EveryAnswerIsLoggedOnce | ProxyHandlerProofs | `RawOnlyIfAllowed`, `AnswersAreAccounted` |
| OneGroupIsLeft, OnlyMissesInARow, HandlerTypes | ProxyHandlerProofs | `CacheLeavesOne`, `MissesAreConsecutive`, `HandlerTypeOK` |
| HedgeInvariant, HedgeTypeCorrect | HedgedRetryProofs | `HedgeInv`, `HedgeTypeOK` |
| HedgeLeavesNothing, HedgeLosesNoAnswer, HedgeLaunchesAreDue | HedgedRetryProofs | `NothingIsLeft`, `NoAnswerIsLost`, `LaunchesAreDue` |
| SyncInvariant, SyncTypeCorrect | PoolSyncProofs | `SyncInv`, `SyncTypeOK` |
| UrlHasOneOwner, PoolFollowsSource, FileFollowsSources | PoolSyncProofs | `OneOwner`, `PoolServesSource`, `DiskIsCurrent` |
| SessionsAreKept, OnlyFreshVerdicts | PoolSyncProofs | `SessionsSurvive`, if InPlace; `VerdictsAreFresh` |
| BridgeInvariant, BridgeTypeCorrect | Sse2wsBridgeProofs | `BridgeInv`, `BridgeTypeOK` |
| FramesInOrder, NothingIsLeftBehind, TurnsFollowFrames | Sse2wsBridgeProofs | `FramesOfOneResponse`, `NothingOutlives`, `TurnsInOrder` |
| OneVerdictPerTurn | Sse2wsBridgeProofs | `OneVerdict`, if ~LateErrors |
| ContextIsKept | Sse2wsBridgeProofs | `ContextKept`, if ~LateErrors |
| TurnsArePromised | Sse2wsBridgeProofs | `TurnsAsPromised` (BridgeSpec implements Turns), if ~LateErrors |
| RoundsInvariant, RoundsTypeCorrect | ProviderRoundsProofs | `RoundsInv`, `RoundsTypeOK` |
| FillingAddsNoSecond, DeletionsAreConfirmed, ServedKeysAreThere | ProviderRoundsProofs | `FillsOnlyMissing`, `DeletionConfirmed`, `ServedKeysExist` |
| NoWriteAfterLimit, WritingRoundsStop | ProviderRoundsProofs | `QuietAfterLimit`, if HasHall, or for the rounds that are no fetch |
| LogInvariant, LogTypeCorrect | LogStoreProofs | `LogInv`, `LogTypeOK`, if ~LateErrors and `"rebuild" \notin ReadErrors` |
| OffsetsStayLineEnds, CountsAreExact | LogStoreProofs | `OffsetsAreLineEnds`, `CountedOnce`, if the same |
| IndexStaysExact, TotalsStay | LogStoreProofs | `IndexIsExact`, `TotalsAreKept`, if the same |
| TotalsStayIfRead | LogStoreProofs | `TotalsArePermanent`, no record ever leaves the totals, if ~LateErrors and `ReadErrors = {}` |

SerialRetryProofs holds the proofs about the pool and those about the requests that use it.

*The pool.* `Serves` is not inductive: a floor is harmless because of where it came from.
`IInv` adds that a view's members are known and live unless one was retired (`ViewsAreKnown`,
`NoResurrection`), that a current key is a member of its view (`CurrentIsMember`), and that a
floor that is set is the price of the slot's current key (`FloorIsCurrent`). A pick
respects the floor of the view and that of the session: of the two current keys the dearer
one is a member of the view and not below either floor. Only a change of price breaks this, hence
`~Repricing`; section 6 shows that the condition is needed.

*The requests.* `RInv` ties a request's view to `sched` (a view a request holds was created by
`for_request`) and its key to the view, and says that a key in use is not one that is set aside. Refinement is
the identity on the pool's variables: a `Step` is a Pick, a MarkCooldown, a MarkSuccess or a stutter;
`Pass` is a Tick and `Operate` an Admin step.

`PoolKeyAlways` needs more than `Serves`, which says that the floors leave a candidate: `pick` must also find one among them. It does because the entries of
a view are in one order, in which every set of them has a first (`ViewsAreOrdered`: prices and positions are natural numbers, and no two entries have
one position). What a request has set aside is left out of the candidates, and only `has_fresh` stands in for that: `Keyed` says that a request which
waits for a key has set none aside, so that it finds one when it wakes, whatever the floors have become. A request that has set keys aside picks in the step in
which `has_fresh` said that another is not cooling, and takes it at once. The conditions are those without which TLC finds a request with no key: a kept key
changes its price (section 6); the request has a session, of whose floor `has_fresh` knows nothing; or it has set a group
aside, which is not looked at again after an await (section 6).

*The probes.* That no two requests hold a reservation is not inductive: the view forgets a reservation when a late answer of
another request ends the probe early. `ProbeInv` adds `Spaced`: while a tier serves, no reservation outlasts
`_next_probe_at`, which every end of a probe leaves alone or moves on. With an interval of 0 the reservation (at least one unit) may outlast it and TLC
finds two probes at once; the theorem excludes it.

*The handler.* `HandlerInv` is proved inductive request by request: a body that is still to be inspected has `lax` when a mode that lets pass was
in force (`InspectionOf`), the records of a request say whether its answer is open or over (`AccountsOf`), and a session's streak
never exceeds the misses in a row of its group (`Misses`), although streaks of sessions are kept apart and hits clear all of them.
`OneGroupIsLeft` needs a group (`Groups # {}`); its core is that a circuit for misses only opens while another group
is closed, and that a worse cause keeps its name against a shorter cooldown for misses.

*Hedging.* None of the properties is inductive, for they speak of the end or of a launch. `HedgeInv` follows the request from await to await: while it
searches, every attempt that is not watched any more has its answer, and that answer is closed, about to be, or no response at all (`Searching`); once
there is a winner, what else is open is watched or about to be closed (`Won`), and in the end closed (`Ending`, `Leaving`). `Gaps` bounds what the upstream asked for
(`quiet`) by the gate that holds the next launch back. In a race that invariant is true only if `quiet` starts anew with
each round, since the code then waits once for all answers of a round; the attempt at the proof found that the history variable had not said so.

*Synchronisation.* The properties speak of the moments when no call holds the lock. `SyncInv` says what is true while one waits for the provider: it works for the
source that is there, with its session (`OneCall`); the pool still is what was synced last (`Serving`); the file may be behind only if the
call saves when it ends, or `dirty` is set, and then only by groups that were rejected meanwhile (`Written`); a check that was not told that its
source is gone has one (`Checked`). `SessionsAreKept` needs InPlace: section 6 shows the adapter for which it fails.

*The bridge.* The number an event has in its response is its place among what the client got, what is being relayed, what is queued and what the producer
holds (`Relayed`, `Queued`): so nothing is skipped or doubled, whatever the size of the queue, and as long as the turn may ask again nothing was relayed. A
verdict is the last event of its response (`Ending`); therefore it is the last frame of the turn, and a turn that has none gets an error frame (`Judged`), after which
the record is written (`Written`). A late transport error breaks the first step; `OneVerdictPerTurn` excludes it by ~LateErrors, and section 6 shows what
happens otherwise. `TurnsFollowFrames` needs that the watcher's buffer is older than the socket and the turn older than both.

That Sse2wsBridge implements Turns follows from `BridgeInv`, step by step, and from one thing more: a turn that is cancelled is over or about to close its
response (`Cancelling`), so it tells nothing while the mapping says `"closed"`. The relay of an event is a Tell because the event is the next of its response
(`Relayed`) and no verdict came before it (`Ending`); a turn that keeps the connection is a Finish because it was judged (`Judged`).

`ContextKept` looks at one request body, but what makes it true is spread over the client, the socket and several turns. `ContextInv` adds `Answerable`: a call
that the client may answer, or has answered in a frame that waits, will be in the replay when the turn in progress is over (`Lasting`), and every
frame before the answer goes on with the conversation (`GoesOn`), so that none of them starts a replay without the call. While a turn runs that is so
for one of two reasons: the call was in the replay before and is in this turn's input too, so that it stays whether or not the turn is committed; or
this response asked for it and the client has heard that it ended well, after which nothing keeps the turn from being committed (`Promised`).
The latter needs ~LateErrors (section 6). `MergeKeeps`, `DedupKeeps`, `PreparedKeeps` and `CommittedKeeps` say what the operators do to calls and outputs.
They rest on `AtIs`, which says that `At` returns the items at the given positions in their order; a recursive function, so it is proved by a least counterexample (`LeastExists`).

*The rounds.* What a round writes rests on what it read, several requests ago. `RoundsInv` says what it has read at each page: the keys up to a position
in the provider's list (`Collected`). `OnePage` shows that one more page takes that position on, and that a short page, or as many keys as there are, means
that all were read; it needs that no position of a finite list of distinct ids is left out (`Reached`), which is proved from least elements and
cardinalities, since the prover has no induction. A provider that ignores the page repeats the first one, at which the round ends. From then on each group that is to be
filled has no key (`Creating`), and each key to be deleted is one of the keys read, of a group that is gone or twice condemned (`Deleting`, `Condemned`);
a lost answer, obeyed or not, takes its target off the list either way. `NoWriteAfterLimit` needs HasHall: section 6 shows the fetch that goes on.

*The log.* Which records were counted before a death is nowhere written but in an offset per file. `LogInv` says what the offsets mean. Every record has
at most one line, in one file (`OneLine`). The offsets of the totals, of those on the disk and of those in memory, divide the lines: what lies before is counted once, what lies
beyond is not (`Divided`), so reading on from them counts each line once (`ReplayedFits`), and totals that are saved later are never behind, unless this process started with a file it could not read (`TotalsFit`).
Even then the totals in memory have each record that a file still has, since a rebuild, too, counts up to the end of every file and each later record is counted when it is written
(`ReadableCounted`); so a save can only lose records of files that are gone (`TotalsStay`). If a start reads whatever is there, nothing is lost at all (`TotalsStayIfRead`). A shard with
an offset is there, or its whole day is gone and over (`Kept`): hence no name of a shard is given twice, and an old offset never meets a new file. The rows of the index lie before its progress (`RowsFit`, `RowsAreThere`), each
at the line of its record (`RowsOfLines`), but for the days of which a file became shorter by a migration; such a file is never the last of its day (`ShortFiles`), so that no append hides that it is
shorter before the index has forgotten its day. The migration keeps all this because its cuts are ends of lines and divide the file (`CutsDivide`). The cuts are defined by recursion on their number; that such a function exists, and
what holds of all cuts, is proved by a least counterexample, in place of an induction. All theorems need ~LateErrors: with an append that fails after its offset was taken, the offset
may lie beyond the file. And they need rebuilds that read their files to the end. Section 6 shows what happens otherwise.

*Only model-checked:* liveness, which is out of reach of TLAPS (`EveryRequestEnds`, `EveryHedgeEnds`, `ProbesResume`, `SlowTierLeft`, `TurnsEnd`,
`DeadGroupsEmptied`), and every claim about an instance's numbers. All other properties of the passing runs are proved, under the conditions in the table;
what happens without them is in section 6 or said above.

## 5. Hazards

`hazards` lists 40 places where this code can go wrong in ways a unit test hardly reaches,
each with the property that would notice or the reason why none does. Eight have no property that a run could check:

- four are divergences of section 6, where TLC shows the failure in a changed configuration, so that the unchanged one cannot claim the opposite:
  prices that sink below a floor (`key_pool.py:1314`), two sets that exclude every key (`retry.py:838`),
  an offset that is taken before the file is closed (`log_store.py:333`), deletions of a fetch after a 429 (`sub2api.py:336`);
- of two, opinions may differ: the level that a graver failure inherits (`key_pool.py:1088`), and a success that closes a circuit opened after its request was sent (`key_pool.py:1115`), which
  the code means and `Breaker` allows;
- a death within the migration (`log_split.py:128`), and a state file that fails under `mark_model_unsupported` (`api.py:897`), are not modelled.

Two more are covered in part. `OneVerdict` and `ContextKept` see the end of a stream in any order, but not a transport error after the terminal event (`sse2ws.py:750`), with which they fail (section 6).
`TotalsAreKept` says which totals a failed read can cost (`log_store.py:124`), not that it costs none.
Not listed, because they are not questions about states: the unbounded cache of views (`key_pool.py:291`), the busy loop of
`_stagger` when its window is full (`retry.py:696`), the LRU of 10000 session routes (`key_pool.py:319`).

## 6. Where code and documentation disagree

Two runs are kept:

1. **LeakedWinner** (`retry.py:612`). Two good answers in one batch of a race: the first is
   overwritten as the winner and never closed.
2. **BridgeHang** (`sse2ws.py:684`). A client that leaves while the queue is full: the producer, cancelled in the middle of a put, waits for room for
   its end mark, and the turn waits for the producer. `TurnsEnd` exempts exactly this state (`Wedged`).

The others can be had from a configuration in this directory with the change that is given:

| Change | Result |
|---|---|
| SerialFailover, `Repricing = TRUE` | `PoolKeyInjected` fails (`key_pool.py:408`): docs/key-pool.md:65 says a pool key replaces the client's credentials. A synchronisation that lowers the price of the remaining keys below the failover floor leaves no candidate; `pick` returns None and the client's own headers are sent. |
| SerialFailover, `Requests = {r1, r2, r3}`, `MaxUpdates = 0`, with `"stall"` in `Outcomes` | `PoolKeyInjected` fails (`key_pool.py:1042`): `has_fresh` looks at the floor of the view, `pick` also at that of the Codex session. Of three requests in a session, one makes the dearer key current, one fails on it, which makes its price the session's floor, and one stalls on it when the cheaper key has recovered: the stalled key is kept aside because `has_fresh` sees the cheaper one, `pick` returns None for the floor, and the request goes out with the client's own headers (`retry.py:847-849`). |
| the same with `"rejection"` for `"stall"` and `SlotOf <- NoSessions` | `PoolKeyInjected` fails (`retry.py:957`): `has_fresh` is asked before the response of the rejection is closed, and while that is awaited another request may raise the floor of the view above every key that is not set aside. |
| LogRecovery, property `TotalsArePermanent` | fails (`log_store.py:145-148`, 253-256, 285): a start that cannot read `_summary.json`, or a shard beyond its offset, rebuilds the totals from the files that are left and saves them. The records of the days that retention removed are gone from them, though totals are documented as permanent "even if the details are cleaned up" (docs/logging-and-dlp.md:20). It fails with `ReadErrors = {"summary"}` as with `{"shard"}`, and holds with `{}`. |
| LogRecovery, `ReadErrors = {"rebuild"}` | `CountedOnce` fails (`log_store.py:194-207`): `_rebuild` swallows a read error in the middle of a file and keeps what it had counted of it, but notes no offset. The recovery of the tail, which follows at once, reads that file from its start and counts those records a second time. |
| LogRecovery, `LateErrors = TRUE`, `ReadErrors = {}`, invariant `RemovedDaysStayCounted` | fails (`log_store.py:333`): the offset of an append is taken before the file is closed. If closing fails on a full disk, offsets beyond the file are saved; the next start takes the file for truncated, rebuilds the totals from the files that are left and forgets the days that retention removed, though totals are documented as permanent (docs/logging-and-dlp.md:20). |
| BridgeTurns, `LateErrors = TRUE` | `OneVerdict` fails (`sse2ws.py:750`): a transport error after the terminal event gives the client an error frame on top of it, though terminal events are documented as the verdict (`sse2ws.py:21-23`). So do `TurnsAsPromised`, for the same reason, and `ContextKept`: the turn counts as failed and is not committed (`sse2ws.py:511-512`), though the client was told that it ended well; when the client then answers a call of it with the output alone, the output goes upstream without its call. |
| PoolSync, `InPlace = FALSE` | `SessionsSurvive` fails (`new_api.py:238`): the adapter renews a copy of the session; if a later request of the call fails, the spent refresh token stays in the source and the next call has to log in again (docs/key-pool.md:171). |
| PoolSync, property `StaticUntilSynced` | fails (`pool_sync.py:740`): new group rules activate a source that has never synced; its empty pool replaces the static one, which docs/key-pool.md:175 keeps until a successful sync. |
| ProviderRounds, `HasHall = FALSE` | `QuietAfterLimit` fails (`sub2api.py:328-343`): the deletions of a fetch bypass the throttle and go on after a 429; docs/key-pool.md:200-203 says all writes are limited and the round stops. |
| ProviderRounds, property `TwoReadings` | fails (`aihub.py:305`): when the hall cannot be read, the fetch judges by the last reading again, so one reading can condemn a group twice, against the comment there. |

Of the pool: under the cost strategy a session moves to a cheaper key of another group although its own
still works (`key_pool.py:381`, docs/key-pool.md:190), and a graver failure during an open circuit inherits the level of the
milder one (`key_pool.py:1088`, docs/key-pool.md:68-69). Smaller observations from writing the models:

- *Balanced.* A slow probe can become the tier that serves when its reservation ran out, or was ended early, before its first token
  (docs/key-pool.md:194). The anchor may be cheaper than the tier that serves after late fast tokens. A slow streak survives changes of the anchor.
- *Cache circuits.* A circuit for misses that is longer than an open one for another cause takes over its name, and a hit then lifts it all (`key_pool.py:1103-1107`, 793-804), where
  docs/key-pool.md:192 speaks of circuits for misses alone. The streak is not reset by tripping: after the circuit one further miss trips again. The alternative that
  must exist is looked for in the view: one view can cool a group that is the only one of another view.
- *Rounds.* The docstring of the write throttle says the round goes on (`base.py:82-88`) where its callers stop. An empty list of groups deletes every key. A list that changes between
  two pages can hide a key for one fetch.
- *Bridge.* A turn whose client disconnects is not logged (`sse2ws.py:495-496`; the branch at 520 cannot be reached), though docs/configuration.md:124 says turns are logged as ordinary requests are.
- *Handler.* `mark_model_unsupported` (`api.py:893-902`) waits for the lock of the synchronisation while the upstream's response is open.

## 7. What the models leave out

- *KeyPool*: the LRU of 10000 session routes, statistics fields, cloning of pools, CSV loading.
  KEY_COOLDOWN_BACKOFF is on, its default. The balanced strategy and the cache circuits have modules of their own.
- *BalancedView*: sessions, several groups of one price, several keys of a group, reference data of other users.
- *SerialRetry*: requests without a model (one attempt), the attempt budget and the deferred success of
  the bridge. With prices that change, `Serves` and `PoolKeyInjected` are not claimed; nor
  is `PoolKeyInjected` with rejections or with stalls in a session.
- *HedgedRetry*: MAX_RETRIES = 0, RETRY_BACKOFF_429 off, and the branches for pools, which
  `hedge_mode_for` makes unreachable. With RETRY_BROAD a 401/403 in the round of a race hides a
  Retry-After: `LaunchesAreDue` exempts that case.
- *ProxyHandler*: requests without a pool and lists of models, the choice of the route, several keys of a group (a failure cools one, a miss all),
  failures of the log and of the state file, which rules find a secret, exemption markers.
- *Sse2wsBridge*: the handshake, failures of the log, what the retry service does before it answers, the inspection (see ProxyHandler).
  Exceptions that nothing in a turn expects (`sse2ws.py:404-406`): the guard logs them and closes the connection; those of the retry service (time-outs, an exhausted budget, transport errors)
  become answers in `retry.py`. Events after the terminal one: the code relays them and lets the last terminal event be the verdict, the model's upstream sends none.
  What a response says in words is not replayed by the code either, and `ContextKept` speaks of tool calls and their outputs alone.
- *PoolSync*: update_manual_key, a login that changes the provider or the prefix of its source, experience data, failures of the state file.
- *ProviderRounds*: models and capabilities, prices, names. New API has no deletion within a fetch and no hall; its sessions are in PoolSync.
- *LogStore*: the import of the old single-file log and of summaries before version 8, the
  statistics snapshots (best effort, derived), lines beyond the size limit of the index, a death within the migration
  (exceptions are rolled back), power failures, old files that cannot be removed (they are tried again at the next start). A record whose append failed is counted all the same, and the tail that a
  crash leaves unsaved is lost if retention removes its file at the next start: both are what the code does and
  neither contradicts the properties.
- *Not modelled*: access control, sessions of administrators, routes and settings (tables that one step reads and changes), the rules of DLP, encryption, HTML and scripts, statistics, the reader of the log, field mapping of adapters: sequential
  data transformations that unit tests reach.

## 8. Plan

Done, in order: Breaker, KeyPool, KeyPoolBreaker and their proofs; SerialRetry and its proofs; HedgedRetry;
LogStore; Sse2wsBridge; PoolSync; ProviderRounds; BalancedView and its proof; ProxyHandler and its proofs; the proofs of HedgedRetry, PoolSync,
Sse2wsBridge, ProviderRounds and LogStore; Turns and the proof that Sse2wsBridge implements it; the proof of `ContextKept`. What is left, the most important first:

1. The migration of the log as steps with a death between them.
2. A handler whose group has several keys, over KeyPool instead of its abstraction.

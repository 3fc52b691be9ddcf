# Verification of expr_tracker

TLA+ models of the parts of expr_tracker where threads, failures and restarts
meet, the TLC runs that check them, and proofs of the main invariants for every
value of the constants. Paths are relative to the repository: `rust/` is the
native core, `src/expr_tracker/` the SDK around it.

## 1. The system

A run records rows of metrics. `log()` writes into an *open row*; the row is
closed by a commit, by a value for another step, or by `flush(commit_open=True)`
and `finish()`. A closed row is *admitted* to the buffered JSONL writer, which
gives it an ordinal, then *published* to the cache, and finally *delivered* to
callbacks, which feed the series, the run summary, sinks and alert rules. Rules
send notices through alert channels, some of them in the background. Queries
join what is on disk, what is cached and the open row.

| Component | State | Operations | Hard behaviour | Correct when |
|---|---|---|---|---|
| History store (`rust/history/state*`, `history/store.py`, `_store_writes.py`, `_store_types.py`) | open row, step counters, next ordinal, cache, flags for merging and for rows on disk only | log, record span, commit, evict, query, resume, finish | a transaction of several critical sections; eviction beside the writer's threads; queries that read a growing file after the snapshot; restart from a file that lost its tail | ordinals are lines, nothing vanishes, queries are exact, steps advance |
| JSONL writer (`rust/history/writer*`, `history/writer.py`) | queue, batch in flight, flags of a retry, a request and a timer, file, watermark; parts of the log and its metadata file | append, flush, wait for work, rotate, close, open | backpressure, worker and callers that flush at once, failed writes and failed rollbacks, several closers; a kill at any step, torn tails, metadata of any age | every record is written once, in order; losses are counted; callers return; reopening finds what was acknowledged |
| Commit queue (`rust/history/notifications.rs`) | staged rows, owner, depth, tickets | stage, drain, take next, finish | recursion from callbacks, hand-over between threads, callbacks cut short | rows are delivered once and in commit order, by one thread at a time |
| Reader (`rust/history/reader*`, `history/reader.py`) | segments, line index, hints | tail, range, count, scan | corrupt and torn lines, indexes older than the file | what a query reads is what was written |
| Series, summary (`history/series.rs`, `summary.rs`) | a ring of points per metric; last, min, max, mean | append, window, fold | growth and wrap-around | a window is the newest points |
| Codec (`history/json.rs`, `record.rs`, `encoders.py`) | none | encode, decode | special floats, large integers | decode undoes encode |
| Alert rules, watchdog (`alerts/rules.rs`, `watchdog.rs`, `alerts/engine.py`) | per rule: count, firing, last fire, fires, errors | add, remove, pass, tick | row delivery and watchdog evaluate one rule at once; backends that log; a rule replaced while it is evaluated | one notice per episode, limits kept, passes end |
| Alert lanes (`alerts/delivery.rs`, `alerts/dispatch.py`) | queue, message in flight, liveness of the worker, stop flag, deduplication window | send, flush, close, deliver | the worker leaves while somebody sends; timeouts; a stop flag outside the lock; a send that is refused or fails | what is queued is delivered in order, suppressed repeats are announced once, calls return |
| Alert expressions (`alerts_parser.rs`, `alerts_plan.rs`, `alerts/evaluation.rs`) | none | parse, evaluate | unknown values | three-valued logic |
| Spans and plugins (`spans.rs`, `spans.py`, `plugins.py`) | a stack of spans per context, active plugins | begin, end | threads and tasks that share plugins | a span ends once, measurements do not overlap |
| Artifacts (`artifacts.rs`, `artifacts.py`) | version directories, index, aliases | add, log, resolve, download | crash between rename and index append, two processes, sources rewritten meanwhile, an object used again | versions are complete, what was logged is found, readers see one registry |
| Run and tracker (`run.py`, `tracker.py`, `_process.py`) | current run, leader and outcome of each shutdown, sinks | init, log, flush, finish | finish races with log, callbacks and another finish; failed init; interrupts; fork | sinks close after the last delivery, one run at a time, nobody waits for himself |
| Trace export (`trace*`) | none beyond one call | convert, assign lanes | overlapping spans | no overlap within a lane |
| Viewer (`viewer*`, `web/`) | directory list, incremental index | serve | files that grow while they are indexed | index agrees with file |
| Command line, frames, naming, rotation | none beyond one call | – | – | – |

How they interact:

* `HistoryStore.log` takes the store's `_write_lock` and calls
  `NativeHistoryState` for the open row, the writer for admission, the state
  again for publication and eviction, and the commit queue for delivery. The
  locks of the native parts are taken one at a time and released before any
  Python callback runs.
* The writer has a worker thread that it asks its adapter to start. It reports
  diagnostics (a dropped record, a failed write) to a sink that may itself log.
* Callbacks run on whichever thread owns the commit queue. They may log and
  flush, which starts a nested transaction and a nested drain.
* `et.init` and `et.finish` share a lock; `Run.finish` elects one of its callers,
  which closes the store, waits until the queue is empty, closes the writer and
  then summary, alerts and backends. Callbacks are refused both.
* Rules are evaluated in such a callback and on the watchdog's thread. A notice
  goes to a synchronous backend on the evaluating thread or to a lane.

## 2. The modules

| Module | Models | Extends or instantiates |
|---|---|---|
| `WriterLog` | the abstract promise of the writer: an ordered log with losses only in outages | – |
| `JsonlWriter` | the writer and its threads | implements `WriterLog` (`ImplementsLog`) |
| `HistoryStore` | open row, admission, cache, eviction, resume, queries | over `WriterLog` |
| `SegmentedLog` | the bytes of the log, its parts, its metadata file, and its readers | – |
| `CommitQueue` | write transactions and delivery of their rows | – |
| `RunLifecycle` | init, log, flush and finish of runs by several threads | – |
| `AlertRules` | one rule, rows and watchdog | – |
| `AlertLane` | one background channel | – |
| `ArtifactRegistry` | the abstract promise of the artifact store: a table of versions per name | – |
| `Artifacts` | publication, reuse, look-up and download of artifacts | implements `ArtifactRegistry` (`ImplementsRegistry`) |
| `MC...` | instances for TLC: names of threads and metrics, options of rules, symmetry | the module each is named for |
| `..._proofs` | theorems, and the lemmas they rest on | the module each is named for; `Alerts_proofs` is about `AlertLane` and `AlertRules`, `SegmentedReader_proofs` goes on where `SegmentedLog_proofs` ends |

The composition is by refinement: `JsonlWriter` implements `WriterLog`, and
`HistoryStore` is written over `WriterLog` alone, so what is proved of the store
holds for whatever the writer's threads do, as long as rollbacks work (section 5). `CommitQueue` takes over where
`HistoryStore` ends a transaction; `HistoryStore` relies on it only for
serialised transactions, which is the `_write_lock` itself. `SegmentedLog` takes
up where `JsonlWriter` writes a batch: what is one step there is bytes, parts and
metadata here, with one writer at a time. `RunLifecycle` uses of the queue what
`CommitQueue` shows: rows are delivered in order, one thread at a time, by whoever
waits for them.

### WriterLog, JsonlWriter

One action is one critical section of the writer's state mutex. `pc` says what
a thread does next:

* `admit` and `observe` are the two looks of `enqueue_shared` at the queue,
  before and after the wait observer is called without the mutex; `wait` is the
  condition variable.
* `flush`, `write`, `commit` or `undo`, and `sched` are the steps of `flush`
  under `write_lock`. The file is written without the state mutex.
* `join`, `flush`, `end_close` is the thread whose `begin_close` won; `await` is
  every other thread that closes.

The file is a sequence of chunks, a whole line or a fragment left by an
interrupted write, with byte sizes: `size`, the number of bytes the writer
accounts for, is what a rollback truncates to, and the model needs both to show
where they part (section 4). Time is abstract: a deadline is set or not and may
expire at any moment. `lost` is a history variable. `BytesOf`, the sum behind
every byte counter, is a recursive function of the length, so that it can be
reasoned about.

### SegmentedLog

A record is three bytes, the last of them the newline, so that a line can be cut
inside the record, just before its end, or not at all. The writer takes a batch,
rotates when a record does not fit, writes chunk by chunk, commits and saves the
metadata; a system call may fail at each of these and the process may be killed
between any two. A rollback visits one part after the other. `Open` is what the
next writer does: it cuts a torn last line, then restores its books from the
metadata when the sizes agree, or reads everything.

A reader pins the lengths of the parts and a limit, and prepares a cache that is
found again by the limit alone. `ReaderExact` compares every query through that
cache, the lookup of a line, the walk backwards and the cursor with a full scan
of the pinned bytes. It speaks of pins whose bytes nobody will take back
(`settled`): a reader that saw a batch which was rolled back or torn afterwards
keeps a cache under a length that other bytes may later reach. That is a
limitation of the code (`rust/history/reader.rs:54`), not of the model, and it
needs a failure or a kill to show. Offsets, the order of parts and lines, sums of
lengths and the books are recursive functions here, so that they can be reasoned
about (section 5). Three facts met on the way: an empty last part
survives a rollback and is written to next; reader and writer
space their indexes alike (a thousand lines, `Every`); and as the writer never calls `fsync`, a crash of the
machine is outside what it promises, and outside the model.

### HistoryStore

`Log`, `RecordSpan` and `CommitOpen` are `ingest_values`, `ingest_object` and
`close` of the native state. They close zero, one or two rows; each goes through
`Admit` (the writer), `Publish` (ordinal, cache, merge flag) and `Settle`,
`FlushFirst`, `Resettle` (eviction, a flush when the cache is over its budget,
eviction again). Between admission and publication a row is in neither the open
row nor the cache, as in the code: queries are compared with what is published.
`Persist` and `Fail` are the writer's own threads, enabled at any time. `Resume`
is both a crash at any point and a regular restart: everything in memory is
forgotten and rebuilt from the file.

A row is a step and, per metric, the numbers of the calls whose values went into
it, which is all that merging can tell apart. `cache_rows` is the budget (the
byte budget works the same way and is left out). Eviction reads the writer's
watermark once; since the watermark only grows, an older value evicts less.

Queries (`TailAnswer`, `RangeAnswer`) follow `collect` and the snapshots it is
made of. Whether the file has grown between snapshot and read is a parameter,
`file`. The file is a sequence of rows here; `SegmentedLog` has the bytes.

One instance has rows that may be patched and a disk that may fail, the other
monotonic steps and a disk that works (`Settings`): the two options meet nowhere
else. Only the second one promises that the cache keeps to its budget.

### CommitQueue

A thread's stack holds the deliveries and drains it is in, so recursion from
callbacks is explicit. A transaction is `wlock`, `pending`, `fast` and `then`.
`Stage` and `PublishInline` are the two ways it ends; `Enter`, `TakeNext`,
`Return`, `Notified` and `Interrupted` are the native queue. `Interrupted` is a
callback cut short by an exception that callbacks do not catch; the second drain of a
`flush` is kept, which the exception would skip. `SinkLog` is a
diagnostic sink that logs inside the transaction.

### AlertRules

A pass selects the rule if it is enabled, takes the lock of the compiled rule,
evaluates and may send before it gives the lock up. Evaluation up to the notice
is one action, since nothing it changes can be seen by others without the lock.
Whether the condition holds is an input, in all four outcomes: error, unknown,
false, true. `AddRule` replaces the rule under its name while passes of the old
one go on; the new one is enabled on its own, although a caller may hand in a rule
object it has used before. Rows are delivered by the thread that logged them, one
thread at a
time; which thread delivers does not matter to a rule, and `CommitQueue` has the
general case. `reentrant` is a synchronous backend that logs from `send`.

### AlertLane

`send` starts the worker and queues the message under two holds of the lock.
The worker holds the lock from its look at the queue to its sleep (`parking`),
but the stop flag is an atomic outside the lock, so `Stop` and `Wake` may fall in
between. `flush` and the join in `close` may give up at any moment, which is
their timeout.

A delivery looks the key of the message up in the deduplication window
(`Suppress`, `Admit`), asks the rate limit, and calls the backend with its
retries; `Sent` and `Unsent` are the two ways that ends. The window counts the
repeats it suppressed and hands the count to the next message that is let
through. `RepeatsSummarised` follows that count: it is in the window, or with the
message in flight, or was taken along by a message that was refused or failed or
by a key that was forgotten. Windows and buckets are abstract: an entry may be
found expired and a token may be missing at any look.

### Artifacts

A publisher takes the lock, reads the index and either records a reuse or stages
the files one by one, compares their digests, renames the directory and appends
the record; it may die or meet an error at each of these. Source files are
rewritten by the user at any time, and lines of the index may be damaged. A
digest is the content itself. Reading the index is `Absorb` line by line, as the
code does it; `versions` keeps what that yields at hand, and `Versions(n)` are the
places of a name in it. A hard-linked file shares its inode with the
source (`Shared`): what it holds later is the user's affair, as the
documentation says, so `Complete` asks of it only that it is there.

`ArtifactRegistry` is what a reader should see of that: per name a table from
version numbers to contents and aliases, in which a call of `log` either finds its
version or takes the next number, in one step. `Table` is what the refinement maps
to it. `ArtifactsAssumption` says that `latest` is no alias, since the code drops it
(`rust/artifacts.rs:294`), and that no alias reads like a number (section 4).

### RunLifecycle

`stack` holds the calls a thread is in: `et.init`, `et.finish`, `Run.finish`,
`log`, `flush`, and the callbacks it runs while it waits for a row. A callback may
log again and may try every operation on runs. `Outside` is the check that refuses
it; it is made on the run that is current when the call begins, and again on the
run that is to be finished. `Elect`, `Closing`, `CommitOpen`, `Take`/`Drained`,
`CloseWriter`, `CloseSink` and `Finished` are the leader's way through
`Run._finish`. `CutCallback`, `CutWait` and `CutBuild` are a `KeyboardInterrupt`,
which no handler on the way catches: the calls end, `et.finish` leaves no run
current all the same, and a construction is not rolled back, because
`Run.__init__` rolls back on `Exception` only.

A construction fails in three ways. Before anything is open (an option is refused,
the log cannot be opened) it just raises: the first disjunct of `LockInit`. In the
`try` of `Run.__init__` (`run.py:152`) what was opened is closed again: `Rollback`.
In between, once `HistoryStore._init_run` has opened the writer of the log
(`store.py:218`) and until that `try`, nothing is rolled back: `Abandon`, for
instance when the spans file cannot be opened (`store.py:219`). Runs left that way,
or by an interrupt of their construction or of a call that finishes them, are
`abandoned`. `OneWriter` says that two runs have their files open at once only if
the earlier one is.

`Blocker` is the thread another one waits for: the holder of the tracker's lock, the
leader of a shutdown, or the thread in the callbacks of a run. `WaitsForSomebody`
says that a call which cannot go on waits for a thread that is in a call, and
`RingsCross` that threads wait in a ring only if one of them is in a callback of one
run and, from it, in a call on another; both are part of `CallsReturn`. `Outside`
refuses calls on the callback's own run only, so such a ring does happen (section 4),
and `CallsReturn` does not promise that a call returns from it (`Entangled`).

Left out: inline publication (with it no callback runs), calls from the threads of
alert lanes and of the watchdog, `flush` from callbacks, a `log` that closes more
than one row, sinks that raise while they are closed, fork checks and exit hooks.

## 3. The runs that pass

| Run | Shows | Bounds |
|---|---|---|
| `writer_safety` | pending records in order, honest watermark, limits, a frozen file after close, implementation of `WriterLog` (each record once, losses only in outages, a drained file after close) | two callers and the worker, three sizes of which one is oversized and two do not fit together, queue of two records and three bytes, three calls, one failing write, both modes |
| `writer_live` | blocked callers return, pending records reach the disk, closes return; repeated lines are flagged, although rollbacks may fail | two callers and the worker, two sizes, queue of two records and three bytes that a batch and a record overrun, one failing write, both modes |
| `disk` | acknowledged records stay, first and once, through failures and kills; a restart forgets nothing; restoring is rescanning; the books match; parts keep their limit; an indexed query is a full scan | two steps, three records of three bytes, parts of two records, an index of two entries thinned above that, two failures or kills in all, a pinned reader, and a second pin at the limit its cache was filled for |
| `queue_order` | commit order, targets; with interruptions | three threads, five rows, five calls, six frames per thread |
| `queue_live` | calls return and all rows are delivered when they have | two threads, four rows, five calls, sinks that log |
| `store` | ordinals are lines, steps advance, merging is flagged, answers are exact, nothing vanishes, and on a working disk the cache budget is met | two metrics, two steps, three calls, cache of one row, one restart; patched rows with outages and rejected rows, or monotonic steps without |
| `lifecycle` | a shutdown is complete before anybody is told; two runs are open only if the earlier was abandoned; whoever waits, waits for a thread in a call; waiting in a ring takes a callback of one run that calls another run; calls return otherwise | three threads, two runs of one row, eight calls, of which one by the third thread counts as four, three calls deep, one interrupt |
| `lane` | order, flush waits, what is queued is handled, calls return, suppressed repeats are announced once | two threads, queue of one message, three messages with two keys, one key remembered, one flush or close, the three policies |
| `rules` | one notice per episode, fires are earned, disabling, passes end | a caller and the watchdog, an edge rule, a level rule with a cooldown and a level rule over two steps, two versions of the rule, four passes, three errors to disable, a clock with two values |
| `artifacts` | versions are complete, what `log` returns is found, a directory without a record has a reason, implementation of `ArtifactRegistry` | two publishers, one name, one file with two contents, one alias, three modes, three calls, one error, two crashes, failed removals or damaged lines |

Why these bounds are enough to be interesting: every queue and cache is smaller
than what the calls put into it, so limits are met; two callers and a worker give
every pair of critical sections that can meet, and the third thread of
`queue_order` is the one that waits while two others hand over; one failing write
is retried, and a second failure only repeats the state (on disk, where a failure
and a kill leave different things, there are two of either kind); one restart with
calls before and after it meets every flag that is rebuilt. A shutdown has a
leader, a caller that waits for it and a thread that logs or delivers meanwhile;
a second run is what an interrupted one can be confused with. Two runs in callbacks
of each other take eight calls: start, log and finish for each, one `et.finish` that is
interrupted, and one more for the callback; two threads are enough for it, and
for three (lock, leader and delivery in different hands) five calls are. Eight calls
of three threads would be ten times the states, so the calls of the third cost more
(`Toll`). Three calls to the
artifact store publish a version, reuse it and publish another. `disk` stops where
a rollback or a repair has failed and said so (`Promised`), since nothing is
promised from there on; `writer_rollback_loss` goes on. Two metrics are needed for
a merge in which one value is replaced and the other kept. Four passes are needed
for a notice, a clearing, and a second notice or an error in between. Symmetry is
used for threads and metrics in safety runs only. Every bound is a constant named
`Max...` (or `Toll`) in the module and appears in a guard.

`rules` and `lifecycle` do not check for deadlock: with a watchdog and a backend
that logs, or two runs in callbacks of each other, it is possible (section 4). All
other runs do; the end of a behaviour is an explicit
action (`Finished`, `Ended`, `Rest`) or the outside world can always act. That
state components have their types is proved (`TypeCorrect`), and for the disk is
part of `LayoutOK`, proved too.

**Fairness.** Threads that have a step are scheduled, locks are granted,
callbacks, sends, constructions and deliveries return, set timers expire, and the timeouts of
`flush` and `close` run out: `WF` on the steps of each thread (of the life of runs,
only that some call goes on as long as one can), never on a call.
Nobody has to log, flush or close. Mutexes are not assumed fair beyond that: a
step that stays enabled is taken. Liveness of blocked callers also needs the
number of calls to be bounded, as it is in the models.

## 4. The runs that find a disagreement

* `writer_rollback_loss`. A failed rollback leaves a partial batch in the file
  that `size` does not count. The retry is committed behind it with
  `size = old size + batch`, short of the file, and the rollback of a later
  failure cuts lines that had been counted as durable
  (`rust/history/writer/persistence.rs:169`; `docs/architecture.md:283`). All
  other writer properties that would be affected exclude it by `duplicates`, the
  flag the code raises, or by `RollbackFails = FALSE`.
* `artifacts_relogged`. After `log()` the artifact object takes over the record it
  was given, whose entries have no source. When it is extended and logged again,
  or when an object from `use_artifact` is, entries without a source are skipped
  (`src/expr_tracker/artifacts.py:243`, `rust/artifacts.rs:470`): the new version
  is published without those files, against "atomically publishes complete
  versions" (`artifacts.py:9`). `VersionsComplete` states what holds: versions
  made from objects that knew all their sources are complete. In copy mode `log`
  also reuses a version of the same content that was logged by reference or by
  link, so the copy that was asked for is not made.

Divergences met on the way, without a run of their own:

* `_schedule_commit` reports diagnostics before it publishes or stages its own row,
  so a sink that logs there has the later row delivered first
  (`docs/architecture.md:345`); `queue_order` therefore has no such sink.
* Records discarded in an outage keep their ordinals, so once a later record is
  written they are below the watermark and are evicted although they never reached
  the disk (`docs/design.md:439`). `NothingVanishes` states what does hold: such a
  row was given up and counted.
* The watchdog holds the rule's lock while it sends; a backend that logs waits for
  its row behind a delivery that waits for that lock (`docs/architecture.md:347`,
  `:352`).
* A rule clears `firing` before the recovery notice is dispatched, so a failing
  dispatch loses it (`docs/design.md:454`). With a backend that logs, an edge rule
  may fire twice for one episode, because the nested pass runs before the notice
  is counted (`Episodes` and `FiresEarned` exclude `reentrant` for that reason).
* The lane asks the deduplication window before the token bucket
  (`rust/alerts/delivery.rs:242`, `:247`), the documentation has it the other way
  round (`docs/design.md:388`): a message refused for want of a token opens a
  window, and repeats of something that was never sent are suppressed. The count of
  repeats is lost when the message that carries it is refused or fails, or the key
  is forgotten (`docs/guide/alerts.md:175` promises it "on the next send").
* `et.finish` is documented as idempotent (`docs/reference/api.md:63`) but raises when
  no run is current; `Run.finish` is idempotent.
* "Construction is transactional: anything already opened is closed again if a later
  step (an invalid alert rule, say) raises" (`src/expr_tracker/run.py:108`). But
  `history.init` is called at `run.py:113`, the `try` begins at line 152, and what
  closes the history is registered at line 124. It opens the writer of the log and
  then that of the spans (`history/store.py:218`, `:219`); when the second raises, the
  first stays open, until the garbage collector finds it, and the next `et.init`
  opens another beside it, possibly on the same file. What raises between lines 125
  and 151 is not rolled back either, and an interrupt never is. Without its
  `r \in abandoned` TLC refutes `OneWriter` by `Abandon` and the next `LockInit`.
* "Lifecycle operations are rejected inside callbacks" (`docs/architecture.md:348`),
  but `require_outside_callback` (`history/store.py:459`) looks only at the
  callbacks of its own store. One thread is in a callback of the first run, whose
  leader waits for that callback; a wait in `et.finish` is interrupted, so no run is
  current and a second one is started while the first is being finished; a callback
  of the second finishes the first, and the callback of the first logs to the second,
  or finishes it. None of these calls is rejected and none returns. Without
  `Entangled` TLC refutes `CallsReturn` that way, in the run as it is.
* An interrupted wait in `et.finish` leaves no run current while another thread may
  still be finishing it.
* Explicit summary assignments are to win over later `log()` calls
  (`src/expr_tracker/summary.py:23`), but only the values are saved: the keys
  assigned are not (`rust/summary.rs:32`), so in a resumed run the next `log()` of
  such a metric overwrites the value.
* Custom aliases are recorded (`docs/guide/artifacts.md:23`), but one that reads like a
  version number, such as `v3`, is not found: `resolve` takes it for version 3
  (`rust/artifacts.rs:563`). `ArtifactsAssumption` leaves such aliases out, so
  `AnswersFound` does not speak of them.
* The watchdog is said to stop on `finish()` (`docs/guide/alerts.md:196`), but
  `add_rule` after `close` starts it again, and `close` gives up on it after two
  seconds.

`QueryExact` excludes one more state, `Drifting`: after a record was dropped,
lines and ordinals are apart, and a line written but not yet published is read
below older rows. The next snapshot puts it right.

## 5. What is proved

All proofs are for any set of threads or publishers, any capacities and sizes, any
number of calls, failures, interrupts and restarts: the bounds `Max...` that only
keep TLC's instances small are any numbers here. What is assumed of the constants
is the named assumption at the head of each module, which TLC evaluates on every
run. Four theorems have a hypothesis, and each for a reason a run or the code shows:

* `CommitOrdered` and `StopsAtOwnRow` assume `~SinkLogs`. With a sink that logs inside
  the transaction rows are staged out of order (section 4).
* `QuietDelivered` assumes `~Interrupts`: a callback cut short leaves its drain, and
  what was queued behind it waits for the next call.
* `JsonlWriter_proofs!Implements` assumes `~RollbackFails`: after a failed rollback
  the writer does lose rows it counted as durable (`writer_rollback_loss`).

`RecordOK` of the rules speaks of backends that do not log (`~reentrant`), as
`Episodes` and `FiresEarned` do.

| Theorem (property of a run) | Argument |
|---|---|
| **JsonlWriter** `TypeCorrect` | `write_lock` is held exactly in `write`, `commit`, `undo`: one owner of the batch |
| `ClosedFrozen` (`FrozenWhenClosed`) | a closed writer has no thread in those places, because `closed` is set under `write_lock` and a flush after it takes no batch |
| `PendingOrder` (`PendingInOrder`) | batch and queue are one ascending sequence above the watermark; a batch is put back where it was taken from, discards take from the front of the queue only |
| `LimitsHold` (`WithinLimits`) | inductive as it stands, once `BytesOf` is known to add up over concatenation and to split at any place |
| `WatermarkTrusted` (`WatermarkHonest`), `NoSilentRepeats` (`RepeatsFlagged`) | `FileOK`, below |
| `Implements` (`ImplementsLog`) | `LogInv`, below |
| **SegmentedLog** `Layout` (`LayoutOK`), `Durability` (`Durable`), `Remembers` (`NeverForgets`), `Books` (`BooksMatch`), `Restoring` (`RestoreIsRescan`) | `Invariance`, below |
| `Answers` (`ReaderExact`) | `Reading`, below |
| **CommitQueue** `TypeCorrect` | every frame is well formed; a thread's top frame decides its step |
| `CommitOrdered` (`CommitOrder`) | started, staged and pending rows together are `1..next-1`; inline publication needs that nothing is staged and nobody delivers while the transaction is fast |
| `StopsAtOwnRow` (`StopsAtTarget`) | `Ownership`: the deliveries under way are on one stack, the owner's, and `depth` counts them; `Beyond`: a drain above a delivery waits for a later row than the one delivered, so one that has what it waits for takes no more |
| `QuietDelivered` (`QuietMeansDelivered`) | `Awaited`: the last staged row has a drain on some stack that waits for it and delivers what is before it |
| **HistoryStore** `TypeCorrect`, `NothingLost` (`NothingVanishes`) | `IInv`, below |
| `OrdinalsAreLines` (`OrdinalIsLine`) | `Lines`: until a record is dropped, stored and pending together are `1..next-1`, each at its place |
| `MergeIsFlagged` (`MergeFlagged`) | `Emit`: no published row is newer than `emitted`, which is what the flag is decided by |
| `StepsDoAdvance` (`StepsAdvance`) | `Mono`: rows to be written follow `last`, and the open row or the next automatic step is past it |
| `QueriesExact` (`QueryExact`) | from `Base`, `Emit` and `Lines` alone, by what a query has before it (`Snapshot`), below |
| `CacheBudget` (`BudgetMet`) | `Drained`: on a working disk nothing is pending when the second eviction starts, so it may evict all that is too much |
| **RunLifecycle** `TypeCorrect` | what may be on top of what on a stack |
| `FinishedWhole` (`ShutdownComplete`) | `Delivery` and `Ending`, below |
| `OneOpen` (`OneWriter`) | `Holding` and `Writers`, below |
| **AlertLane** `LaneTypeCorrect`, `OnceInOrder` (`DeliveredInOrder`) | `OrderInv`: the number a thread is about to queue is nowhere yet and is its own; queueing extends the order behind, dropping the oldest takes its head away |
| `RepeatsAnnounced` (`RepeatsSummarised`) | `RepeatsInv`: the window holds counts of known keys and only a message in its delivery carries one |
| `FlushWaits` (`FlushMeansHandled`) | from `OrderInv`: `queued` is handled, dropped and waiting messages; a flush that finds nothing waiting finds its mark handled |
| **AlertRules** `TypeCorrect`, `DisabledByErrors` (`DisabledForErrors`) | `BooksOK`, below |
| `FiresAreEarned` (`FiresEarned`), `EpisodesKept` (`Episodes`) | `RecordOK`, below |
| **Artifacts** `TypeCorrect` | `Base`, below |
| `StoredWhole` (`VersionsComplete`), `NoOrphans` (`OrphansExplained`) | `DirsOK` and `Accounted`, below |
| `AnswersFound` (`AnswerFound`), `Implements` (`ImplementsRegistry`) | `TableOK`, below |

**The store.** `NothingVanishes` is not inductive: that an evicted row is on disk
follows from what the *writer* holds, which it does not mention. `IInv` adds
`LogInv` (pending ordinals ascend, are above everything stored and below `next`;
every ordinal below `next` is stored, pending or lost) and `Link` (the store's next
ordinal is the writer's, but for the row between admission and publication). An
evicted ordinal is at most the watermark, hence not pending, hence stored or lost
(`FlushedIsSafe`). `Base` adds the types, the rows of the file and what a
transaction in progress has in hand; the other theorems start from it.

**Queries.** `QueryExact` needs no invariant of its own: whatever cache and file hold
in a state of `Base`, `Emit` and `Lines`, an answer computed from them is the exact one.
The theorem has it for every limit and every range (`Answers`), where the run tries limits
1 and 2. `Snapshot` says what a query has before it: rows `D` that are on disk only, the
cached rows `C`, and lines `E` it reads although the cache holds them (none as long as
no record was dropped); all that can be known is `D` and then `C` (`KnownIs`, `DiskIs`).
Merging, the lines of `E` change neither which steps were written last (`LatestSkip`)
nor the value of a metric (`ReadTwice`), since every one of them comes again in `C`; a
merged row is given by its step and values (`MergeSame`). Without merging the rows
ascend (`PublishedAscend`), every answer is a selection of them, and two selections with
the same steps are equal (`PartsEqual`); that a tail or range which does not look at the
disk misses nothing is `SuffixFull` and `LatestTail`, or that all rows on disk are
before the range. `LatestIs` is the fact under all of this: a step is among the latest
`n` when fewer than `n` steps were written after its last row.

**The writer's file.** That every row up to the watermark is in the file does not
survive a step alone: between `write` and `commit` the file has more than it
counts, after a failed write a fragment more. `FileOK` says what it has exactly: the
durable part, whose bytes are `size`, followed by a prefix of the batch (`Splits`):
nothing outside a flush, everything in `commit`, some lines and perhaps a fragment
in `undo`. Cutting at `size` is then an identity on the durable part (`CutTo`,
`CutFrom`). `Covered` says where every row above the watermark is.
For the refinement, `ClosesOnce` and `Drained` say who closes, and that past its
last flush the queue is empty or the file cannot be written; `LogInv` collects them.
Each step then admits, persists, fails, gives up or closes in `WriterLog`, or
changes nothing it sees.

**The log on disk.** None of the five properties is inductive: what a rollback may
cut depends on what a failed write left, and what metadata is worth on how the lines
it speaks of came about. `IInv` names a sequence of records that the parts *spell*
(`Spells`: byte `i` of the parts put together is byte `PlaceOf(i)` of the record of
line `LineOf(i)`; only the last line of the last part may be cut). While nothing has
slipped that sequence rises, begins with what was acknowledged (`Held`), and at every
place of the writer is a known piece of `Accepted`, the acknowledged records, the
batch and the queue (`Stage`). A kill or a failed write leaves a longer piece and a
cut line (`WroteIs`), a rollback takes away all that is not acknowledged, part by
part, smallest first: `Undoing` says that the bytes still to keep and those of the
parts already visited are the committed ones. If the process is killed in the middle
of that, what remains can have a hole, but it still rises and still begins with the
acknowledged records (`ShortenedSpells`), which is all that `Open` needs: it keeps
all whole lines (`KeptIs`).
`Describes` says what counters, flags and anchors are true of a sequence of steps;
`TrackAllDescribes` that tracking more lines keeps it, through any number of
thinnings of the index. The metadata describes some first acknowledged records
(`MetaOf`). When its size is that of the parts those are all, and two descriptions of
the same steps agree (`Agreeing`); so the metadata is the rescan.
The lemmas under this are about the operators themselves: `BeforeIs` (sums of
lengths), `AscendingIs` and `LinesAre` (the places of newlines, in order, are the
lines), `VisitIs` and `LinesOfSpelled` (the lines of all parts are the records one
by one, at their offsets), `RowsOfSpelled` (all of them but a cut one).

**Readers of that log.** `ReaderExact` takes two arguments that have nothing to do with
each other. The first is about one snapshot (`SnapshotExact`): its bytes before the limit
are those of records, part by part (`Viewed`), and its index is right for them (`Right`:
each anchor is the start of the line it names and has its step, and an index that needs
no merge is of rising steps). Then a scan from an offset yields the lines from there on
(`VisitLists`), the walk backwards the same lines reversed (`BackwardsIs`),
the cursor all that follow (`CursorCounts`), and a search that starts at an anchor stops
where one from the beginning would. `Shown` and `Known` count the lines a limit shows and those of
them that are records: they differ only where the limit is the end of a part, since
there what is left of a cut line is read too.
What a query selects, merges and cuts off is compared over sequences of rows: the newest
steps backwards and forwards (`RecentNewest`, `TailStrict`), the range from an anchor
(`ScanStrict`), the merge of rising rows (`MergedStrict`).

The second argument is why the snapshot stays such a one. `RInv` says of an index that was
filled while its bytes were settled that it is right for the first records of `Done`, the
acknowledged ones (or, with no writer, those in the files), for some number of them, and
that the pinned bytes it is used for stay where they are (`Steady`). That is inductive
because `Done` only grows (`DoneGrows`): what is acknowledged is never cut, moved or
written over, by a rollback part by part, a repair, a rotation or a writer that starts
again, so `Cached` holds of every longer sequence (`CachedGrows`). A cache found by a limit
that was reached again is covered by the same number. The four ways to fill it are the
writer's own index, whose books describe the lines (`PinOwnReads`), metadata of the same
size, whose anchors are of acknowledged records (`UsableCached`), a scan of the pinned
lines (`ScannedCached`), and the cache that is found again (`PrepareReads` has them together). That the limit is *settled*
is needed in each, and the model says where: of a batch that is rolled back later nothing
of this is true.

**Runs.** `Delivery`: the owner of a run's queue is the thread in its callback, and a
row whose delivery began is done or on a stack. `Ending`: the leader of a shutdown is
on one stack, and its position says how far the store, the writer and the sinks are;
a result published says the same for good. No callback of a run is under the call
that leads its shutdown, so when the leader finds the queue empty it stays so.
`Holding`: of the calls of `init` and `finish` past the lock there is one, and
`current` is its run. `Writers`: an open writer is the current run's, or that of a
construction in progress, unless the run was abandoned.

**Rules.** The state of a rule is a summary of what happened to it, kept in `trace`.
`BooksOK` says of each field what it summarises: `Holding` (true since last seen
false), `OnFire` (fired since then), `Failing` (errors since the last evaluation),
`Failed` (`MaxErrors` in a row once). Each has a lemma for one more event. `RecordOK`
says that every fire and recovery of the past was due; `SendersOK` that one which is
being sent is, although row delivery and watchdog are both under way: only one of
them has the lock.

**Artifacts.** `Base`: the lock has one holder, `versions` is `Read(index)` (one line
more is one `Absorb` more, `ReadAppend`). `DirsOK`: the directory of a stored version
is in place and holds what its record says, in the index as in the hands of the
holder; what is staged agrees with the digests so far. `Accounted`: every directory
has its record or is the holder's. `TableOK`, while no line is damaged: versions of
a name are `0..n`, contents and aliases belong to one version each (`Table1`), and
the record of the holder extends that table (`Extends`) from the moment it decided,
because nobody else appends. `TableGrows` and `TablesGrow` show that a line which
extends the table is one step of `ArtifactRegistry`.

**Sums, counts and induction.** The library's induction theorems take an operator as a
parameter and no installed prover instantiates them. `Inductive` is
the same principle about sets (a set with 0 and with successors has all of `Nat`),
derived from the finite subsets of the library. With it the recursive functions
`BytesOf`, `Read`, `Before`, `Ascending`, `Visit`, `Backwards`, `Cursor`, `TrackAll`,
`ScanAll` and `InOrder` are shown to exist
and to obey their recursion (`Recursion` does it once for any such function); they
are written as functions for that reason.

Model-checked only:

* liveness (`CallsReturn`, `PendingDrains`, `AcceptedIsHandled`, `PassesEnd`) and
  everything else that needs fairness or `ENABLED` (`WaitsForSomebody`), and
  `RingsCross`, which stands beside it in `CallsReturn`;
* the two runs of section 4 that find a violation.

## 6. Not modelled, and the plan

Left out for good: parsing and formatting of values and expressions, floating
point, the command line, frames, the web page. Their cases are data, which the
repository's tests enumerate; they keep no state that others race for.

Left out of what is modelled, and named per component in `PROJECT.json`: the byte
budget of the cache, span reductions, corrupt lines, the lineage file of a run,
synchronous channels and routing, fork checks and exit hooks.

Done, in this order: writer, commit queue, store, lanes, rules; then the disk,
artifacts, the outcome of deliveries and the life of runs; then the safety
properties of all of them proved, with both refinements. Next:

1. `Spans`: the stack per context, a span ends once, plugins that refuse to overlap.
2. `Series` and `Summary` as pure modules with reference definitions; the lanes of
   the trace export; the incremental index of the viewer.

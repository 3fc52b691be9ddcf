----------------------------- MODULE HistoryStore -----------------------------
(***************************************************************************)
(* The history store: the open row, the commit path, the cache and the     *)
(* queries (rust/history/state.rs, rust/history/state/operations.rs,       *)
(* src/expr_tracker/history/store.py, _store_writes.py), over the buffered *)
(* writer of one run, which is taken at its word: WriterLog.               *)
(*                                                                         *)
(* Every admitted row has an ordinal, and `rows' holds them all in order;  *)
(* the writer, the file and the cache are sequences of ordinals.  A row    *)
(* has a step and, for each metric, the numbers of the calls whose values  *)
(* went into it: log() replaces a value, a span accumulates.               *)
(*                                                                         *)
(* Transactions are serialised by the store's write lock (CommitQueue), so *)
(* one `txn' is under way at a time; the writer's threads and the readers  *)
(* run beside it.  A crash ends the process; a run is resumed from its file*)
(* after a crash or a regular finish.                                      *)
(***************************************************************************)
EXTENDS Integers, Sequences, FiniteSets, SequencesExt

CONSTANTS
    Keys,           \* metric names
    Settings,       \* policies and disks a run may have
    CacheRows,      \* cache_rows
    Oversize,       \* the writer may reject a row for its size
    MaxStep,        \* bound: steps are 0..MaxStep
    MaxCalls,       \* bound: calls that write into the open row
    MaxRestarts     \* bound: crashes and regular restarts

ASSUME StoreAssumption ==
    /\ Settings \subseteq [allow : BOOLEAN, outages : BOOLEAN]
    /\ Oversize \in BOOLEAN
    /\ CacheRows \in Nat \ {0}
    /\ MaxStep \in Nat /\ MaxCalls \in Nat /\ MaxRestarts \in Nat

VARIABLES
    allow,      \* step_policy = "allow", not "monotonic"
    outages,    \* writes may fail
    open,       \* step of the open row, or NoStep
    data,       \* its metrics
    nextStep,   \* step of a log() that names none, when no row is open
    last,       \* step of the row closed last
    emitted,    \* step of the row admitted last
    row,        \* next ordinal the store hands out
    cache,      \* cached rows
    diskPrefix, \* some rows are on disk only
    merge,      \* a step was written more than once or out of order
    dropped,    \* the writer's dropped counter is not 0
    txn,        \* what the transaction under way does next
    closed,     \* rows closed by the transaction, still to be admitted
    finishing,  \* finish() has been called
    rows,       \* every row admitted to this run, by ordinal
    calls, restarts,
    pending, stored, lost, next, failing, phase     \* of WriterLog

Writer == INSTANCE WriterLog

openVars   == <<open, data, nextStep, last>>
cacheVars  == <<emitted, row, cache, diskPrefix, merge>>
writerVars == <<pending, stored, lost, next, failing, phase>>
runVars    == <<allow, outages, calls, restarts>>
vars == <<openVars, cacheVars, dropped, txn, closed, finishing, rows, runVars,
          writerVars>>

NoStep == -1
Steps  == 0..MaxStep
NoData == [k \in Keys |-> <<>>]
RowSet == [step : Steps, data : [Keys -> Seq(Nat)]]

Init ==
    /\ \E s \in Settings : allow = s.allow /\ outages = s.outages
    /\ open = NoStep /\ data = NoData /\ nextStep = 0 /\ last = NoStep
    /\ emitted = NoStep /\ row = 1 /\ cache = <<>>
    /\ diskPrefix = FALSE /\ merge = FALSE /\ dropped = FALSE
    /\ txn = "idle" /\ closed = <<>> /\ finishing = FALSE
    /\ rows = <<>> /\ calls = 0 /\ restarts = 0
    /\ Writer!Init

-----------------------------------------------------------------------------
(* The open row (ingest_values, ingest_object, close)                      *)

OpenRow == IF open = NoStep THEN <<>> ELSE <<[step |-> open, data |-> data]>>
Current == IF open = NoStep THEN nextStep ELSE open

\* Mutant: the open row is not looked at.
Backward_Last(step) == ~allow /\ step < last

\* monotonic: an explicit step behind the open row or the last one is dropped.
Backward(step) == ~allow /\ step < (IF open = NoStep THEN last ELSE open)

\* The metrics `keys' of call number c, over what the row held before.
Written(before, keys, accumulate, c) ==
    [k \in Keys |-> IF k \notin keys THEN before[k]
                    ELSE IF accumulate THEN Append(before[k], c) ELSE <<c>>]

Ingest(target, keys, accumulate, commit) ==
    LET fresh == target # open
        held  == Written(IF fresh THEN NoData ELSE data, keys, accumulate, calls + 1)
        older == IF fresh THEN OpenRow ELSE <<>>
    IN  /\ target \in Steps
        /\ closed' = older \o (IF commit THEN <<[step |-> target, data |-> held]>>
                               ELSE <<>>)
        /\ open' = IF commit THEN NoStep ELSE target
        /\ data' = IF commit THEN NoData ELSE held
        /\ last' = IF commit THEN target ELSE IF older # <<>> THEN open ELSE last
        /\ nextStep' = IF commit THEN target + 1
                       ELSE IF older # <<>> THEN open + 1 ELSE nextStep
        /\ txn' = IF closed' # <<>> THEN "admit" ELSE "idle"

Accepting == txn = "idle" /\ ~finishing /\ calls < MaxCalls /\ calls' = calls + 1

Log ==
    /\ Accepting
    /\ \E keys \in SUBSET Keys \ {{}}, commit \in BOOLEAN :
         \/ Ingest(Current, keys, FALSE, commit)
         \/ \E step \in Steps : ~Backward(step) /\ Ingest(step, keys, FALSE, commit)
    /\ UNCHANGED <<cacheVars, dropped, finishing, rows, allow, outages, restarts,
                   writerVars>>

\* A span ends: its measurements join the open row and commit nothing.
RecordSpan ==
    /\ Accepting
    /\ \E keys \in SUBSET Keys \ {{}} : Ingest(Current, keys, TRUE, FALSE)
    /\ UNCHANGED <<cacheVars, dropped, finishing, rows, allow, outages, restarts,
                   writerVars>>

\* flush(commit_open=True)
CommitOpen ==
    /\ txn = "idle" /\ open # NoStep /\ phase = "open"
    /\ closed' = OpenRow
    /\ open' = NoStep /\ data' = NoData /\ last' = open /\ nextStep' = open + 1
    /\ txn' = "admit"
    /\ UNCHANGED <<cacheVars, dropped, finishing, rows, runVars, writerVars>>

-----------------------------------------------------------------------------
(* Admission (enqueue_record, admitted): the writer first, then the cache  *)

Admit ==
    /\ txn = "admit"
    /\ Writer!Admit
    /\ dropped' = (dropped \/ lost' # lost)
    /\ rows' = Append(rows, Head(closed))
    /\ txn' = "publish"
    /\ UNCHANGED <<openVars, cacheVars, closed, finishing, runVars>>

AfterRow(rest) ==
    \/ txn' = "settle"
    \/ rest # <<>> /\ txn' = "admit"

\* Too large, or no room for it in an outage: the row has no ordinal.
Refuse ==
    /\ txn = "admit"
    /\ \/ Oversize /\ UNCHANGED writerVars
       \/ Writer!Discard
    /\ dropped' = TRUE
    /\ closed' = Tail(closed)
    /\ AfterRow(closed')
    /\ UNCHANGED <<openVars, cacheVars, finishing, rows, runVars>>

\* Mutant: only the same step again counts.
Repeats_Same(step) == step = emitted

Repeats(step) == step <= emitted

Publish ==
    /\ txn = "publish"
    /\ LET step == Head(closed).step
       IN  /\ merge' = (merge \/ Repeats(step))
           /\ emitted' = step
    /\ row' = row + 1
    /\ cache' = Append(cache, row)
    /\ closed' = Tail(closed)
    /\ AfterRow(closed')
    /\ UNCHANGED <<openVars, diskPrefix, dropped, finishing, rows, runVars, writerVars>>

-----------------------------------------------------------------------------
(* Eviction (evict, _evict): durable rows only, after a flush if need be   *)

\* Mutant: the watermark counts what is only queued.
Flushed_Queued == next - 1

Flushed == IF stored = <<>> THEN 0 ELSE Last(stored)    \* flushed_row

\* Mutant: one row too many.
Over_ByOne(c) == Len(c) > CacheRows + 1

Over(c) == Len(c) > CacheRows

Evict ==
    /\ \E n \in 0..Len(cache) :
         LET Left(m) == SubSeq(cache, m + 1, Len(cache))
             Goes(m) == Over(Left(m)) /\ cache[m + 1] <= Flushed
         IN  /\ \A m \in 0..(n - 1) : Goes(m)
             /\ ~Goes(n)
             /\ cache' = Left(n)
             /\ diskPrefix' = (diskPrefix \/ n > 0)
    /\ UNCHANGED <<emitted, row, merge>>

Continue == IF closed = <<>> THEN "idle" ELSE "admit"

Settle ==
    /\ txn = "settle"
    /\ Evict
    /\ txn' = IF Over(cache') THEN "flush" ELSE Continue
    /\ UNCHANGED <<openVars, dropped, closed, finishing, rows, runVars, writerVars>>

FlushFirst ==
    /\ txn = "flush"
    /\ \/ pending = <<>> /\ UNCHANGED writerVars
       \/ Writer!Persist /\ pending' = <<>>
       \/ outages /\ Writer!Fail
    /\ txn' = "resettle"
    /\ UNCHANGED <<openVars, cacheVars, dropped, closed, finishing, rows, runVars>>

Resettle ==
    /\ txn = "resettle"
    /\ Evict
    /\ txn' = Continue
    /\ UNCHANGED <<openVars, dropped, closed, finishing, rows, runVars, writerVars>>

-----------------------------------------------------------------------------
(* The writer at work, the end of a run and the next one                   *)

\* A flush by the caller, the writer's worker or another thread.
Persist ==
    /\ Writer!Persist
    /\ UNCHANGED <<openVars, cacheVars, dropped, txn, closed, finishing, rows, runVars>>

Fail ==
    /\ outages /\ Writer!Fail
    /\ UNCHANGED <<openVars, cacheVars, dropped, txn, closed, finishing, rows, runVars>>

Finish ==
    /\ txn = "idle" /\ ~finishing
    /\ finishing' = TRUE
    /\ UNCHANGED <<openVars, cacheVars, dropped, txn, closed, rows, runVars, writerVars>>

\* _finish commits the open row before it closes the writer.
Close ==
    /\ finishing /\ txn = "idle" /\ open = NoStep
    /\ Writer!Shut
    /\ UNCHANGED <<openVars, cacheVars, dropped, txn, closed, finishing, rows, runVars>>

StepsOf(s) == {s[i].step : i \in 1..Len(s)}
Ascending(s) == \A i \in 1..(Len(s) - 1) : s[i].step < s[i + 1].step

\* Mutant: ordinals start over.
FirstOrdinal_Restarts == 1
FirstOrdinal == Len(stored) + 1

\* The run is opened again, after a crash at any point or a regular finish:
\* _reset, the writer's scan of the file, and resume().
Resume ==
    /\ restarts < MaxRestarts /\ restarts' = restarts + 1
    /\ rows' = [i \in 1..Len(stored) |-> rows[stored[i]]]
    /\ LET top == IF rows' = <<>> THEN NoStep
                  ELSE CHOOSE s \in StepsOf(rows') : \A u \in StepsOf(rows') : u <= s
       IN  /\ nextStep' = top + 1
           /\ last' = top
           /\ emitted' = top
    /\ row' = FirstOrdinal
    /\ diskPrefix' = (stored # <<>>)
    /\ merge' = ~Ascending(rows')
    /\ open' = NoStep /\ data' = NoData /\ cache' = <<>>
    /\ dropped' = FALSE
    /\ txn' = "idle" /\ closed' = <<>> /\ finishing' = FALSE
    /\ stored' = [i \in 1..Len(stored) |-> i]
    /\ pending' = <<>> /\ lost' = {} /\ next' = Len(stored) + 1
    /\ failing' = FALSE /\ phase' = "open"
    /\ UNCHANGED <<allow, outages, calls>>

Ended == phase = "closed" /\ UNCHANGED vars

Next ==
    \/ Log \/ RecordSpan \/ CommitOpen
    \/ Admit \/ Refuse \/ Publish
    \/ Settle \/ FlushFirst \/ Resettle
    \/ Persist \/ Fail
    \/ Finish \/ Close \/ Resume
    \/ Ended

Spec == Init /\ [][Next]_vars

-----------------------------------------------------------------------------
(* Queries (collect)                                                       *)

All == -1       \* no limit

\* Some numbers, in order; the rows of a sequence with these steps.
LastOf(numbers) == CHOOSE n \in numbers \cup {0} : \A m \in numbers : m <= n
InOrder(numbers) ==
    LET upto[n \in Nat] ==
          IF n = 0 THEN <<>>
          ELSE IF n - 1 \in numbers THEN Append(upto[n - 1], n - 1) ELSE upto[n - 1]
    IN  upto[LastOf(numbers) + 1]
OfSteps(s, wanted) ==
    LET at == InOrder({i \in 1..Len(s) : s[i].step \in wanted})
    IN  [i \in 1..Len(at) |-> s[at[i]]]

Rows(ordinals) == [i \in 1..Len(ordinals) |-> rows[ordinals[i]]]
InRange(step, lo, hi) == (lo # NoStep => step >= lo) /\ (hi # NoStep => step < hi)
Within(s, lo, hi) == OfSteps(s, {u \in Steps : InRange(u, lo, hi)})
Newest(s, n) == IF n = All \/ Len(s) <= n THEN s ELSE SubSeq(s, Len(s) - n + 1, Len(s))

\* Rows that share a step become one; of a metric the last value counts.
Value(s, step, k) ==
    LET given == {i \in 1..Len(s) : s[i].step = step /\ s[i].data[k] # <<>>}
    IN  IF given = {} THEN <<>> ELSE s[LastOf(given)].data[k]
MergedRow(s, step) == [step |-> step, data |-> [k \in Keys |-> Value(s, step, k)]]
MergeSteps(s) ==
    LET order == InOrder(StepsOf(s)) IN [i \in 1..Len(order) |-> MergedRow(s, order[i])]

\* Start of the longest suffix that holds at most n different steps.
SuffixOf(s, n) ==
    IF n = All THEN 1
    ELSE CHOOSE j \in 1..(Len(s) + 1) :
           /\ Cardinality(StepsOf(SubSeq(s, j, Len(s)))) <= n
           /\ \A i \in 1..(j - 1) : Cardinality(StepsOf(SubSeq(s, i, Len(s)))) > n
LatestSteps(s, n) == StepsOf(SubSeq(s, SuffixOf(s, n), Len(s)))

\* What the snapshot under both locks takes from the cache, and whether that is all.
CacheTail(merging, n) ==
    LET cached == Rows(cache)
        from   == IF merging THEN 1 ELSE SuffixOf(cached, n)
    IN  [rows |-> SubSeq(cached, from, Len(cached)),
         complete |-> ~diskPrefix \/ from > 1]
CacheRange(merging, lo, hi) ==
    LET cached == Rows(cache)
    IN  [rows |-> Within(cached, lo, hi),
         complete |-> \/ ~diskPrefix
                      \/ ~merging /\ lo # NoStep /\ cached # <<>> /\ lo >= Head(cached).step]

\* The lines in front of the cache: by ordinal, or all that was durable
\* once ordinals and lines have drifted apart.  `file' may have grown.
Boundary == IF cache = <<>> THEN row ELSE Head(cache)
DiskLines(file) ==
    LET stop == IF dropped \/ Boundary > Len(stored) THEN Len(stored) ELSE Boundary - 1
    IN  Rows(SubSeq(file, 1, stop))

\* Mutant: drifting lines do not count.
Merging_NoDrop(withOpen) == merge \/ (withOpen /\ open # NoStep /\ open <= emitted)

Merging(withOpen) == merge \/ dropped \/ (withOpen /\ open # NoStep /\ open <= emitted)

TailAnswer(n, withOpen, file) ==
    LET opened  == IF withOpen THEN OpenRow ELSE <<>>
        merging == Merging(withOpen)
        view    == CacheTail(merging, n)
        newer   == view.rows \o opened
        old     == IF view.complete THEN <<>>
                   ELSE IF n = All THEN DiskLines(file)
                   ELSE IF ~merging
                   THEN Newest(DiskLines(file), IF n > Len(newer) THEN n - Len(newer) ELSE 0)
                   ELSE LET wanted == IF Cardinality(StepsOf(newer)) >= n
                                      THEN LatestSteps(newer, n)
                                      ELSE LatestSteps(DiskLines(file) \o newer, n)
                        IN  MergeSteps(OfSteps(DiskLines(file), wanted))
        records == old \o newer
        kept    == OfSteps(records, LatestSteps(records, n))
    IN  IF merging THEN MergeSteps(kept)
        ELSE IF view.complete THEN Newest(records, n) ELSE kept

RangeAnswer(n, lo, hi, withOpen, file) ==
    LET merging == Merging(withOpen)
        view    == CacheRange(merging, lo, hi)
        newer   == view.rows \o Within(IF withOpen THEN OpenRow ELSE <<>>, lo, hi)
        inside  == Within(DiskLines(file), lo, hi)
        old     == IF view.complete THEN <<>>
                   ELSE IF merging THEN MergeSteps(inside) ELSE inside
        records == old \o newer
    IN  Newest(IF merging THEN MergeSteps(records) ELSE records, n)

-----------------------------------------------------------------------------
(* The ordinal handed out with a row is its line in the file as long as no *)
(* record was dropped: ordinals are allocated and lines enqueued in step   *)
(* (design.md G.3).                                                        *)
OrdinalIsLine ==
    ~dropped => /\ \A i \in 1..Len(stored) : stored[i] = i
                /\ \A i \in 1..Len(pending) : pending[i] = Len(stored) + i
                /\ row = Len(stored) + Len(pending) + (IF txn = "publish" THEN 0 ELSE 1)

(* Every admitted row is cached, in the file, or was given up in an outage:*)
(* eviction never takes a row that is not on disk yet (design.md G.2).     *)
NothingVanishes ==
    /\ \A i \in 1..Len(cache) : cache[i] = row - Len(cache) + i - 1
    /\ 1..(row - 1 - Len(cache)) \subseteq Range(stored) \cup lost
    /\ ~diskPrefix => Len(cache) = row - 1

(* Queries only merge rows when `merge' says so: until then steps strictly *)
(* ascend, across the restarts of the run as well.                         *)
MergeFlagged == ~merge => Ascending(Rows([i \in 1..(row - 1) |-> i]))

(* step_policy "monotonic": steps never go back, and a log() without a     *)
(* step never lands on a step that was written before.                     *)
StepsAdvance ==
    ~allow =>
      LET steps == StepsOf(rows) \cup StepsOf(closed)
      IN  /\ \A i, j \in 1..Len(rows) : i <= j => rows[i].step <= rows[j].step
          /\ open # NoStep => \A s \in steps : s <= open
          /\ open = NoStep => \A s \in steps : s < nextStep

(* The rows a query can know of: published, and durable or cached.         *)
Known == InOrder({i \in 1..(row - 1) : i \in Range(stored) \cup Range(cache)})
\* With lines and ordinals apart, a line that is not published yet is read
\* under older rows: answers are then only as exact as the next snapshot.
Drifting == dropped /\ row \in Range(stored)

(* What history() promises: rows merged by step, no row missing or half    *)
(* merged, the newest n steps written (or the steps of a range), whatever  *)
(* was evicted, resumed, patched, reordered or dropped, and although the   *)
(* file grows between the snapshot and the read; with the open row, where  *)
(* there is one, and without it.                                           *)
QueryExact ==
    ~Drifting =>
    \A withOpen \in {FALSE, open # NoStep} :
      LET log == Rows(Known) \o (IF withOpen THEN OpenRow ELSE <<>>)
      IN  /\ \A n \in {All, 1, 2} :
               LET exact == MergeSteps(OfSteps(log, LatestSteps(log, n)))
               IN  \A file \in {stored, stored \o pending} :
                     TailAnswer(n, withOpen, file) = exact
          /\ \A lo \in {NoStep, 1}, hi \in {NoStep, 2} :
               LET exact == MergeSteps(Within(log, lo, hi))
               IN  \A file \in {stored, stored \o pending} :
                     RangeAnswer(All, lo, hi, withOpen, file) = exact

(* While the disk works, every commit leaves the cache within its budget.  *)
BudgetMet ==
    [][~outages /\ txn # "idle" /\ txn' = "idle" /\ restarts' = restarts =>
         Len(cache') <= CacheRows]_vars
=============================================================================

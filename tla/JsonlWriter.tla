----------------------------- MODULE JsonlWriter -----------------------------
(***************************************************************************)
(* The buffered JSONL writer: NativeWriter (rust/history/writer.rs and     *)
(* writer/persistence.rs) under the threads of its SDK adapter JsonlWriter *)
(* (src/expr_tracker/history/writer.py).                                   *)
(*                                                                         *)
(* Client threads append records, flush and close; one background worker   *)
(* flushes when it is asked to or when a timer runs out.  The queue is     *)
(* bounded in records and bytes.  A full queue blocks the caller while the *)
(* disk works, and discards the oldest records once a write has failed.    *)
(*                                                                         *)
(* One action is one critical section of the state mutex.  Time is         *)
(* abstract: a deadline is set or not, and a set one may expire at any     *)
(* moment.  A record is the number of its admission (`row') and its size.  *)
(* The file is a sequence of chunks: a whole line, or a fragment (row 0)   *)
(* that an interrupted write left without its newline.                     *)
(***************************************************************************)
EXTENDS Integers, Sequences, FiniteSets, SequencesExt

CONSTANTS
    Threads,        \* client threads
    Worker,         \* the background thread `expr-tracker-writer-...'
    NoOne,          \* not a thread
    Sizes,          \* encoded sizes a record can have
    MaxRecords,     \* max_pending_records
    MaxBytes,       \* max_pending_bytes
    MaxRecord,      \* max_record_bytes
    BufferSize,     \* buffer_size
    HasTimer,       \* max_buffer_seconds is not None
    Modes,          \* values async_write may have
    RollbackFails,  \* undoing a failed write may itself fail
    MaxCalls,       \* bound: append and flush calls in a behaviour
    MaxFails        \* bound: failing writes in a behaviour

ASSUME WriterAssumption ==
    /\ Worker \notin Threads /\ NoOne \notin Threads \cup {Worker}
    /\ Sizes \subseteq Nat \ {0}
    /\ BufferSize \in Nat \ {0}
    /\ MaxRecords \in Nat /\ MaxRecords >= BufferSize
    /\ MaxBytes \in Nat /\ MaxRecord \in Nat
    /\ MaxCalls \in Nat /\ MaxFails \in Nat
    /\ {HasTimer, RollbackFails} \subseteq BOOLEAN /\ Modes \subseteq BOOLEAN

VARIABLES
    async,          \* async_write: the worker flushes, not the caller
    pc,             \* what each thread is about to do
    need,           \* size of the record a thread is appending
    wlock,          \* holder of write_lock
    queue,          \* queued records, oldest first
    queuedBytes,
    inflight,       \* the batch being written
    inflightBytes,
    retry,          \* the last write failed and is to be retried
    requested,      \* a flush was requested
    deadline,       \* a flush timer is set
    started,        \* worker_started
    appended,       \* last_append is set
    closing, closed,
    closer,         \* the thread whose begin_close won
    disk,           \* the file
    size,           \* bytes of it the writer accounts for
    flushed,        \* flushed_row
    duplicates,     \* has_duplicate_steps
    dropped,        \* the dropped counter
    nextRow,        \* records admitted so far
    lost,           \* history: admitted records discarded from the queue
    calls, fails    \* how much of the bounds is used

queueVars == <<queue, queuedBytes>>
batchVars == <<inflight, inflightBytes>>
timerVars == <<requested, deadline, started>>
lifeVars  == <<async, closing, closed, closer>>
fileVars  == <<disk, size, flushed, duplicates, fails>>
countVars == <<appended, dropped, nextRow, lost>>
vars == <<pc, need, wlock, queueVars, batchVars, retry, timerVars, lifeVars,
          fileVars, countVars, calls>>

Everyone == Threads \cup {Worker}
Record   == [row : Nat \ {0}, bytes : Sizes]
Labels   == {"none", "work", "exited", "idle", "admit", "observe",
             "start_observe", "wait", "start", "flush", "write", "commit",
             "undo", "sched", "join", "await", "end_close"}

Init ==
    /\ async \in Modes
    /\ pc = [t \in Everyone |-> IF t = Worker THEN "none" ELSE "idle"]
    /\ need = [t \in Threads |-> 0]
    /\ wlock = NoOne
    /\ queue = <<>> /\ queuedBytes = 0
    /\ inflight = <<>> /\ inflightBytes = 0
    /\ retry = FALSE
    /\ requested = FALSE /\ deadline = FALSE /\ started = FALSE
    /\ appended = FALSE
    /\ closing = FALSE /\ closed = FALSE /\ closer = NoOne
    /\ disk = <<>> /\ size = 0 /\ flushed = 0 /\ duplicates = FALSE
    /\ dropped = 0 /\ nextRow = 1 /\ lost = {}
    /\ calls = 0 /\ fails = 0

-----------------------------------------------------------------------------
(* Helpers                                                                 *)

RowsOf(s)  == {s[i].row : i \in 1..Len(s)}
BytesOf(s) ==
    LET sum[i \in 0..Len(s)] == IF i = 0 THEN 0 ELSE sum[i - 1] + s[i].bytes
    IN  sum[Len(s)]

\* Mutant: a batch that is being written no longer takes up room.
Capacity_NoBatch(q, qb, n) == Len(q) < MaxRecords /\ qb + n <= MaxBytes

\* Writer::capacity, for a queue q holding qb bytes.
Capacity(q, qb, n) ==
    /\ Len(q) + Len(inflight) < MaxRecords
    /\ qb + inflightBytes + n <= MaxBytes

Blocked(n) == ~closing /\ ~retry /\ ~Capacity(queue, queuedBytes, n)

\* Writer::schedule; it asks for the worker to be started iff Starts.
Scheduled(q, immediate) ==
    IF closing \/ q = <<>> THEN UNCHANGED timerVars
    ELSE /\ requested' = (requested \/ immediate)
         /\ deadline' = (deadline \/ HasTimer)
         /\ started' = (started \/ requested' \/ deadline')
Starts == started' /\ ~started

\* notify_all on the condition, with thread t moving to `label'.
Goto(t, label) == pc' = [pc EXCEPT ![t] = label]

\* Mutant: nobody is woken.
GotoNotify_Silent(t, label) == Goto(t, label)

GotoNotify(t, label) ==
    pc' = [u \in Everyone |-> IF u = t THEN label
                              ELSE IF pc[u] = "wait" THEN "admit" ELSE pc[u]]

\* Where a thread is when the operation it was running returns.
Home(t) == IF t = Worker THEN "work"
           ELSE IF t = closer /\ ~closed THEN "end_close" ELSE "idle"

\* set_len(n): whole lines below n stay, the line it cuts becomes a fragment.
Truncated(d, n) ==
    LET fits == {k \in 0..Len(d) : BytesOf(SubSeq(d, 1, k)) <= n}
        k    == CHOOSE m \in fits : \A l \in fits : l <= m
        rest == n - BytesOf(SubSeq(d, 1, k))
    IN  SubSeq(d, 1, k) \o
        IF k < Len(d) /\ rest > 0 THEN <<[row |-> 0, bytes |-> rest]>> ELSE <<>>

\* A line is read back iff it does not continue a fragment.
Readable(i) == disk[i].row # 0 /\ (i = 1 \/ disk[i - 1].row # 0)
OnDisk == {disk[i].row : i \in {j \in 1..Len(disk) : Readable(j)}}

-----------------------------------------------------------------------------
(* Admission (enqueue_shared, append_with_status)                          *)

Append_(t) ==
    /\ pc[t] = "idle" /\ calls < MaxCalls
    /\ \E n \in Sizes : need' = [need EXCEPT ![t] = n]
    /\ calls' = calls + 1
    /\ Goto(t, "admit")
    /\ UNCHANGED <<wlock, queueVars, batchVars, retry, timerVars, lifeVars,
                   fileVars, countVars>>

\* "observe" is the recheck after the wait observer ran; when it does not
\* block, the loop ends under the same lock.
AtAdmission(t) == pc[t] \in {"admit", "observe"}
Oversized(n) == n > MaxRecord \/ n > MaxBytes

Refuse(t) ==
    /\ AtAdmission(t)
    /\ closing
    /\ Goto(t, "idle")
    /\ UNCHANGED <<need, wlock, queueVars, batchVars, retry, timerVars,
                   lifeVars, fileVars, countVars, calls>>

RejectOversized(t) ==
    /\ AtAdmission(t)
    /\ ~closing /\ Oversized(need[t])
    /\ dropped' = dropped + 1
    /\ Goto(t, "idle")
    /\ UNCHANGED <<need, wlock, queueVars, batchVars, retry, timerVars,
                   lifeVars, fileVars, appended, nextRow, lost, calls>>

Backpressure(t) ==
    /\ pc[t] = "admit"
    /\ ~Oversized(need[t]) /\ Blocked(need[t])
    /\ Scheduled(queue, TRUE)
    /\ GotoNotify(t, IF Starts THEN "start_observe" ELSE "observe")
    /\ UNCHANGED <<need, wlock, queueVars, batchVars, retry, lifeVars,
                   fileVars, countVars, calls>>

Wait(t) ==
    /\ pc[t] = "observe"
    /\ Blocked(need[t])
    /\ Goto(t, "wait")
    /\ UNCHANGED <<need, wlock, queueVars, batchVars, retry, timerVars,
                   lifeVars, fileVars, countVars, calls>>

\* k: how many of the oldest queued records the outage loop pops.
Pops(k, n) ==
    LET Fits(j) == Capacity(SubSeq(queue, j + 1, Len(queue)),
                            queuedBytes - BytesOf(SubSeq(queue, 1, j)), n)
    IN  /\ k = Len(queue) \/ Fits(k)
        /\ \A j \in 0..(k - 1) : ~Fits(j)

Discard(k) ==
    lost' = lost \cup RowsOf(SubSeq(queue, 1, k))

\* An outage (or spare capacity): the record is admitted after k pops.
Push(t) ==
    /\ AtAdmission(t)
    /\ ~closing /\ ~Oversized(need[t]) /\ ~Blocked(need[t])
    /\ \E k \in 0..Len(queue) :
         LET left      == SubSeq(queue, k + 1, Len(queue))
             leftBytes == queuedBytes - BytesOf(SubSeq(queue, 1, k))
         IN  /\ Pops(k, need[t])
             /\ Capacity(left, leftBytes, need[t])
             /\ queue' = Append(left, [row |-> nextRow, bytes |-> need[t]])
             /\ queuedBytes' = leftBytes + need[t]
             /\ dropped' = dropped + k
             /\ Discard(k)
    /\ nextRow' = nextRow + 1
    /\ appended' = TRUE
    /\ \E elapsed \in BOOLEAN :
         LET due == Len(queue') >= BufferSize \/ ~appended \/ elapsed
         IN  IF async
             THEN /\ Scheduled(queue', due)
                  /\ LET next == IF Starts THEN "start" ELSE "idle"
                     IN  IF <<requested, deadline>>' # <<requested, deadline>> \/ Starts
                         THEN GotoNotify(t, next) ELSE Goto(t, next)
             ELSE /\ Goto(t, IF due THEN "flush" ELSE "sched")
                  /\ UNCHANGED timerVars
    /\ UNCHANGED <<need, wlock, batchVars, retry, lifeVars, fileVars, calls>>

\* The batch in flight alone leaves no room: the queue was popped for nothing.
DropNewest(t) ==
    /\ AtAdmission(t)
    /\ ~closing /\ ~Oversized(need[t]) /\ ~Blocked(need[t])
    /\ ~Capacity(<<>>, queuedBytes - BytesOf(queue), need[t])
    /\ queue' = <<>>
    /\ queuedBytes' = queuedBytes - BytesOf(queue)
    /\ dropped' = dropped + Len(queue) + 1
    /\ Discard(Len(queue))
    /\ Goto(t, "idle")
    /\ UNCHANGED <<need, wlock, batchVars, retry, timerVars, lifeVars,
                   fileVars, appended, nextRow, calls>>

-----------------------------------------------------------------------------
(* Flushing                                                                *)

Flush(t) ==
    /\ pc[t] = "idle" /\ calls < MaxCalls
    /\ calls' = calls + 1
    /\ Goto(t, "flush")
    /\ UNCHANGED <<need, wlock, queueVars, batchVars, retry, timerVars,
                   lifeVars, fileVars, countVars>>

\* Mutant: a flush after close() writes what was left.
NothingToTake_Open == queue = <<>>

NothingToTake == closed \/ queue = <<>>

TakeBatch(t) ==
    /\ pc[t] = "flush" /\ wlock = NoOne
    /\ wlock' = t
    /\ IF closed
       THEN UNCHANGED <<requested, deadline>>
       ELSE requested' = FALSE /\ deadline' = FALSE
    /\ IF NothingToTake
       THEN Goto(t, "sched") /\ UNCHANGED <<queueVars, batchVars>>
       ELSE /\ inflight' = queue /\ inflightBytes' = queuedBytes
            /\ queue' = <<>> /\ queuedBytes' = 0
            /\ Goto(t, "write")
    /\ UNCHANGED <<need, retry, started, lifeVars, fileVars, countVars, calls>>

WriteBatch(t) ==
    /\ pc[t] = "write"
    /\ disk' = disk \o inflight
    /\ Goto(t, "commit")
    /\ UNCHANGED <<need, wlock, queueVars, batchVars, retry, timerVars,
                   lifeVars, size, flushed, duplicates, fails, countVars, calls>>

\* The write fails after n whole lines and cut bytes of the next one.
WriteFails(t) ==
    /\ pc[t] = "write" /\ fails < MaxFails
    /\ fails' = fails + 1
    /\ \E n \in 0..(Len(inflight) - 1) : \E cut \in 0..(inflight[n + 1].bytes - 1) :
         disk' = disk \o SubSeq(inflight, 1, n) \o
                 (IF cut = 0 THEN <<>> ELSE <<[row |-> 0, bytes |-> cut]>>)
    /\ Goto(t, "undo")
    /\ UNCHANGED <<need, wlock, queueVars, batchVars, retry, timerVars,
                   lifeVars, size, flushed, duplicates, countVars, calls>>

\* Mutant: the watermark is taken from what was admitted, not written.
Watermark_Admitted == nextRow - 1

Watermark == IF Last(inflight).row > flushed THEN Last(inflight).row ELSE flushed

CommitBatch(t) ==
    /\ pc[t] = "commit"
    /\ size' = size + BytesOf(inflight)
    /\ flushed' = Watermark
    /\ inflight' = <<>> /\ inflightBytes' = 0
    /\ retry' = FALSE
    /\ GotoNotify(t, "sched")
    /\ UNCHANGED <<need, wlock, queueVars, timerVars, lifeVars, disk,
                   duplicates, fails, countVars, calls>>

\* Mutants: the batch goes behind newer records; is dropped.
Requeued_Behind == queue \o inflight
Requeued_Lost   == queue

Requeued == inflight \o queue

\* Mutant: a failed rollback goes unmentioned.
Undone_Unflagged ==
    /\ \/ disk' = Truncated(disk, size)
       \/ RollbackFails /\ UNCHANGED disk
    /\ UNCHANGED duplicates

Undone ==
    \/ disk' = Truncated(disk, size) /\ UNCHANGED duplicates
    \/ RollbackFails /\ duplicates' = TRUE /\ UNCHANGED disk

\* The schedule in the failure path never starts the worker: its request is
\* withdrawn and repeated by the schedule that ends flush().
UndoBatch(t) ==
    /\ pc[t] = "undo"
    /\ Undone
    /\ queue' = Requeued
    /\ queuedBytes' = queuedBytes + inflightBytes
    /\ inflight' = <<>> /\ inflightBytes' = 0
    /\ retry' = TRUE
    /\ requested' = (requested \/ (async /\ ~closing))
    /\ deadline' = (deadline \/ (HasTimer /\ ~closing))
    /\ GotoNotify(t, "sched")
    /\ UNCHANGED <<need, wlock, started, lifeVars, size, flushed, fails,
                   countVars, calls>>

\* The schedule that ends flush() or serves a record that is not due yet.
Reschedule(t) ==
    /\ pc[t] = "sched"
    /\ Scheduled(queue, FALSE)
    /\ LET next == IF Starts THEN "start" ELSE Home(t)
       IN  IF <<requested, deadline>>' # <<requested, deadline>> \/ Starts
           THEN GotoNotify(t, next) ELSE Goto(t, next)
    /\ wlock' = IF wlock = t /\ ~Starts THEN NoOne ELSE wlock
    /\ UNCHANGED <<need, queueVars, batchVars, retry, lifeVars, fileVars,
                   countVars, calls>>

\* _ensure_worker, called back without the state mutex.
StartWorker(t) ==
    /\ pc[t] \in {"start", "start_observe"}
    /\ LET next == IF pc[t] = "start" THEN Home(t) ELSE "observe"
       IN  pc' = [u \in Everyone |-> IF u = t THEN next
                                     ELSE IF u = Worker /\ pc[u] = "none" THEN "work"
                                     ELSE pc[u]]
    /\ wlock' = IF wlock = t THEN NoOne ELSE wlock
    /\ UNCHANGED <<need, queueVars, batchVars, retry, timerVars, lifeVars,
                   fileVars, countVars, calls>>

-----------------------------------------------------------------------------
(* The worker (wait_work, _run_worker)                                     *)

\* Mutant: the worker waits for requests only.
WorkDue_NoTimer ==
    /\ pc[Worker] = "work"
    /\ ~closing /\ requested
    /\ Goto(Worker, "flush")
    /\ UNCHANGED <<need, wlock, queueVars, batchVars, retry, timerVars,
                   lifeVars, fileVars, countVars, calls>>

WorkDue ==
    /\ pc[Worker] = "work"
    /\ ~closing /\ (requested \/ deadline)
    /\ Goto(Worker, "flush")
    /\ UNCHANGED <<need, wlock, queueVars, batchVars, retry, timerVars,
                   lifeVars, fileVars, countVars, calls>>

WorkerExit ==
    /\ pc[Worker] = "work"
    /\ closing
    /\ Goto(Worker, "exited")
    /\ UNCHANGED <<need, wlock, queueVars, batchVars, retry, timerVars,
                   lifeVars, fileVars, countVars, calls>>

-----------------------------------------------------------------------------
(* Closing (close, begin_close, end_close)                                 *)

BeginClose(t) ==
    /\ pc[t] = "idle" /\ ~closing
    /\ closing' = TRUE /\ closer' = t
    /\ requested' = FALSE /\ deadline' = FALSE
    /\ GotoNotify(t, "join")
    /\ UNCHANGED <<need, wlock, queueVars, batchVars, retry, started, async,
                   closed, fileVars, countVars, calls>>

CloseAgain(t) ==
    /\ pc[t] = "idle" /\ closing /\ ~closed
    /\ Goto(t, "await")
    /\ UNCHANGED <<need, wlock, queueVars, batchVars, retry, timerVars,
                   lifeVars, fileVars, countVars, calls>>

AwaitClosed(t) ==
    /\ pc[t] = "await" /\ closed
    /\ Goto(t, "idle")
    /\ UNCHANGED <<need, wlock, queueVars, batchVars, retry, timerVars,
                   lifeVars, fileVars, countVars, calls>>

Join(t) ==
    /\ pc[t] = "join" /\ pc[Worker] \in {"none", "exited"}
    /\ Goto(t, "flush")
    /\ UNCHANGED <<need, wlock, queueVars, batchVars, retry, timerVars,
                   lifeVars, fileVars, countVars, calls>>

EndClose(t) ==
    /\ pc[t] = "end_close" /\ wlock = NoOne
    /\ closed' = TRUE
    /\ GotoNotify(t, "idle")
    /\ UNCHANGED <<need, wlock, queueVars, batchVars, retry, timerVars,
                   async, closing, closer, fileVars, countVars, calls>>

-----------------------------------------------------------------------------
ClientCall(t) == Append_(t) \/ Flush(t) \/ BeginClose(t) \/ CloseAgain(t)

ClientStep(t) ==
    \/ Refuse(t) \/ RejectOversized(t) \/ Backpressure(t) \/ Wait(t)
    \/ Push(t) \/ DropNewest(t) \/ AwaitClosed(t) \/ Join(t) \/ EndClose(t)

FlushStep(t) ==
    \/ TakeBatch(t) \/ WriteBatch(t) \/ WriteFails(t) \/ CommitBatch(t)
    \/ UndoBatch(t) \/ Reschedule(t) \/ StartWorker(t)

WorkerStep == WorkDue \/ WorkerExit

\* The bound on calls is reached and the writer is closed: nothing is left.
Finished ==
    /\ calls = MaxCalls /\ closed
    /\ \A t \in Everyone : pc[t] \in {"idle", "none", "exited"}
    /\ UNCHANGED vars

Next ==
    \/ \E t \in Threads : ClientCall(t) \/ ClientStep(t)
    \/ \E t \in Everyone : FlushStep(t)
    \/ WorkerStep
    \/ Finished

Spec == Init /\ [][Next]_vars

(* Every thread that has a step to take is eventually scheduled, and a set *)
(* timer eventually expires.  Callers need not call.                       *)
Fairness ==
    /\ \A t \in Threads : WF_vars(ClientStep(t))
    /\ \A t \in Everyone : WF_vars(FlushStep(t))
    /\ WF_vars(WorkerStep)

FairSpec == Spec /\ Fairness

-----------------------------------------------------------------------------
(* Every variable has its type.  The byte counters are WithinLimits' part. *)
TypeOK ==
    /\ pc \in [Everyone -> Labels]
    /\ need \in [Threads -> Sizes \cup {0}]
    /\ wlock \in Everyone \cup {NoOne}
    /\ queue \in Seq(Record) /\ inflight \in Seq(Record)
    /\ retry \in BOOLEAN /\ requested \in BOOLEAN /\ deadline \in BOOLEAN
    /\ started \in BOOLEAN /\ appended \in BOOLEAN /\ duplicates \in BOOLEAN
    /\ async \in BOOLEAN /\ closing \in BOOLEAN /\ closed \in BOOLEAN
    /\ closer \in Threads \cup {NoOne}
    /\ flushed \in Nat /\ dropped \in Nat /\ nextRow \in Nat \ {0}
    /\ lost \in SUBSET Nat
    /\ calls \in 0..MaxCalls /\ fails \in 0..MaxFails

Durable == Truncated(disk, size)

(* What is admitted but not yet durable stays in admission order, above    *)
(* the watermark, and none of it was given up; a batch that failed goes    *)
(* back in front of what was admitted meanwhile (flush, enqueue_shared).   *)
PendingInOrder ==
    LET pending == inflight \o queue
    IN  /\ \A i, j \in 1..Len(pending) : i < j => pending[i].row < pending[j].row
        /\ \A i \in 1..Len(pending) : /\ pending[i].row \in (flushed + 1)..(nextRow - 1)
                                       /\ pending[i].row \notin lost

(* The eviction watermark never passes a record that is still on its way   *)
(* to the disk (flushed_row, used by evict in rust/history/state).         *)
WatermarkHonest ==
    ~duplicates => \A r \in 1..flushed : r \in OnDisk \cup lost

(* The limits hold over queue and batch together, so also after a failed   *)
(* batch went back to the queue; the byte counters agree with the records. *)
WithinLimits ==
    /\ Len(queue) + Len(inflight) <= MaxRecords
    /\ queuedBytes + inflightBytes <= MaxBytes
    /\ queuedBytes = BytesOf(queue) /\ inflightBytes = BytesOf(inflight)

(* Lines that reach the file twice, because a failed write could not be    *)
(* undone, are announced to readers by has_duplicate_steps.                *)
RepeatsFlagged ==
    (\E i, j \in 1..Len(disk) : i # j /\ disk[i].row = disk[j].row /\ disk[i].row # 0)
        => duplicates

-----------------------------------------------------------------------------
(* The file and the watermark are frozen once the writer has closed.       *)
FrozenWhenClosed == [][closed => UNCHANGED <<disk, size, flushed, closed>>]_vars

(* A durable record stays in the file: architecture.md says a failed       *)
(* write's rollback truncates the stream to its pre-batch size.            *)
DurableStays == [][OnDisk \cap 1..flushed \subseteq OnDisk']_vars

-----------------------------------------------------------------------------
(* A caller held up by a full queue gets an answer, and every close()      *)
(* returns, the one that closes and the ones that wait for it.             *)
CallsReturn ==
    \A t \in Threads : pc[t] \in {"admit", "observe", "wait", "join", "await"} ~> pc[t] = "idle"

(* With a timer, an admitted record does not stay in memory: it reaches    *)
(* the watermark or is counted as dropped, unless the writer closed on it. *)
PendingDrains ==
    \A r \in 1..MaxCalls : (r < nextRow) ~> (r <= flushed \/ r \in lost \/ closed)

-----------------------------------------------------------------------------
(* The writer implements the abstract log.                                 *)
Rows(s) == [i \in 1..Len(s) |-> s[i].row]

Log == INSTANCE WriterLog WITH
    pending <- Rows(inflight \o queue),
    stored  <- Rows(Durable),
    next    <- nextRow,
    failing <- retry,
    phase   <- IF closed THEN "closed" ELSE IF closing THEN "closing" ELSE "open"

ImplementsLog == Log!Spec
=============================================================================

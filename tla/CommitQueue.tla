----------------------------- MODULE CommitQueue -----------------------------
(***************************************************************************)
(* Delivery of committed rows to callbacks: the write transaction of the   *)
(* store (src/expr_tracker/history/_store_types.py, _store_writes.py) and  *)
(* the native commit queue it feeds (rust/history/notifications.rs).       *)
(*                                                                         *)
(* A transaction admits rows under the store's write lock, in commit       *)
(* order.  It either publishes them inline or stages them in the queue,    *)
(* and then, without the lock, its thread delivers from the queue until    *)
(* its own last row is done.  A callback may log or flush again from       *)
(* inside a delivery.  Rows are numbered in commit order, and a row's      *)
(* ticket is done iff the row is in `done'.                                *)
(*                                                                         *)
(* A thread's stack holds the calls it is in:                              *)
(*   notify r   the callbacks of row r are running                         *)
(*   drain r    drain() with row r's ticket as the target, 0 for none      *)
(*   enter 0    drain() without a target, before it looks for its tail     *)
(* The transaction a thread is in sits on top of that; there is one at a   *)
(* time, so it is kept in wlock, pending, fast and then.                   *)
(***************************************************************************)
EXTENDS Integers, Sequences, FiniteSets, SequencesExt

CONSTANTS
    Threads,
    NoOne,          \* not a thread
    Inline,         \* the standard observers are installed: rows may be published inline
    Interrupts,     \* a callback may be cut short by an exception that is not caught
    SinkLogs,       \* a writer diagnostic sink may log from inside the transaction
    MaxRows,        \* bound: rows committed in a behaviour
    MaxCalls,       \* bound: log and flush calls in a behaviour
    MaxNesting      \* bound: calls on a thread's stack

ASSUME QueueAssumption ==
    /\ NoOne \notin Threads
    /\ {Inline, Interrupts, SinkLogs} \subseteq BOOLEAN
    /\ MaxRows \in Nat /\ MaxCalls \in Nat /\ MaxNesting \in Nat

VARIABLES
    wlock,      \* holder of the store's _write_lock
    pending,    \* rows of the transaction, in the order they will be staged
    fast,       \* the transaction found the queue idle when it admitted its rows
    then,       \* the transaction belongs to flush(): drain everything after it
    next,       \* number of the next row committed
    rows,       \* Queue.rows
    owner,      \* Queue.owner
    depth,      \* Queue.depth
    done,       \* rows whose ticket is done
    started,    \* history: rows in the order their delivery began
    stack,      \* calls each thread is in
    calls       \* how much of the bound is used

txnVars   == <<wlock, pending, fast, then, next>>
queueVars == <<rows, owner, depth, done, started>>
vars == <<txnVars, queueVars, stack, calls>>

Call(kind, row) == [kind |-> kind, row |-> row]
Frames == [kind : {"notify", "drain", "enter"}, row : Nat]

Init ==
    /\ wlock = NoOne /\ pending = <<>> /\ fast = FALSE /\ then = FALSE
    /\ next = 1
    /\ rows = <<>> /\ owner = NoOne /\ depth = 0
    /\ done = {} /\ started = <<>>
    /\ stack = [t \in Threads |-> <<>>]
    /\ calls = 0

-----------------------------------------------------------------------------
Top(t)  == Last(stack[t])
In(t, kind) == stack[t] # <<>> /\ wlock # t /\ Top(t).kind = kind
Pop(t)  == stack' = [stack EXCEPT ![t] = Front(@)]
Push(t, frames) == stack' = [stack EXCEPT ![t] = @ \o frames]

\* A thread calls into the store from its own code or from a callback.
MayCall(t) ==
    /\ wlock = NoOne
    /\ calls < MaxCalls /\ calls' = calls + 1
    /\ \/ stack[t] = <<>>
       \/ In(t, "notify") /\ Len(stack[t]) < MaxNesting

\* Mutant: half of the test.
Idle_NoOwner == owner = NoOne

Idle == owner = NoOne /\ rows = <<>>    \* NativeCommitQueue::idle

-----------------------------------------------------------------------------
(* The write transaction                                                   *)

Admit(n) ==
    /\ next + n <= MaxRows + 1
    /\ next' = next + n
    /\ pending' = [i \in 1..n |-> next + i - 1]

\* log(): at most two rows, when the call closes an older open row as well.
Log(t) ==
    /\ MayCall(t)
    /\ wlock' = t
    /\ \E n \in 0..2 : Admit(n)
    /\ fast' = Idle /\ then' = FALSE
    /\ UNCHANGED <<queueVars, stack>>

\* flush(commit_open): the open row, if any, then every notification.
Flush(t) ==
    /\ MayCall(t)
    /\ wlock' = t
    /\ \E n \in 0..1 : Admit(n)
    /\ fast' = FALSE /\ then' = TRUE
    /\ UNCHANGED <<queueVars, stack>>

\* The flush of _schedule_commit reports a diagnostic to a sink that logs:
\* the nested call joins the transaction and is staged before its caller.
SinkLog(t) ==
    /\ SinkLogs /\ wlock = t /\ pending # <<>>
    /\ next <= MaxRows
    /\ next' = next + 1
    /\ pending' = <<next>> \o pending
    /\ UNCHANGED <<wlock, fast, then, queueVars, stack, calls>>

Release == wlock' = NoOne /\ pending' = <<>> /\ UNCHANGED <<fast, then, next>>

\* _publish_local: series and summary are updated under the write lock.
PublishInline(t) ==
    /\ Inline /\ wlock = t /\ fast /\ pending # <<>>
    /\ started' = started \o pending
    /\ done' = done \cup Range(pending)
    /\ Release
    /\ UNCHANGED <<rows, owner, depth, stack, calls>>

\* Mutant: rows are staged in front of the queue.
Staged_First == pending \o rows

Staged == rows \o pending

\* _serialized_write: enqueue before the lock is released, deliver after.
Stage(t) ==
    /\ wlock = t
    /\ rows' = Staged
    /\ Release
    /\ Push(t, (IF then THEN <<Call("enter", 0)>> ELSE <<>>) \o
               (IF pending # <<>> THEN <<Call("drain", Last(pending))>> ELSE <<>>))
    /\ UNCHANGED <<owner, depth, done, started, calls>>

-----------------------------------------------------------------------------
(* drain, take_next, finish                                                *)

\* A recursive drain without a target stops at the tail it finds on entry.
Enter(t) ==
    /\ In(t, "enter")
    /\ LET tail == IF owner = t /\ rows # <<>> THEN Last(rows) ELSE 0
       IN  stack' = [stack EXCEPT ![t] = Append(Front(@), Call("drain", tail))]
    /\ UNCHANGED <<txnVars, queueVars, calls>>

Mine(t) == owner \in {NoOne, t}

\* Mutant: a call does not wait for a row that another thread delivers.
Satisfied_Early(t) == Top(t).row \in done \/ rows = <<>> \/ ~Mine(t)

Satisfied(t) ==
    \/ Top(t).row \in done
    \/ Top(t).row = 0 /\ rows = <<>> /\ Mine(t)

Return(t) ==
    /\ In(t, "drain") /\ Satisfied(t)
    /\ Pop(t)
    /\ UNCHANGED <<txnVars, queueVars, calls>>

TakeNext(t) ==
    /\ In(t, "drain") /\ ~Satisfied(t)
    /\ rows # <<>> /\ Mine(t)
    /\ owner' = t /\ depth' = depth + 1
    /\ rows' = Tail(rows)
    /\ started' = Append(started, Head(rows))
    /\ Push(t, <<Call("notify", Head(rows))>>)
    /\ UNCHANGED <<txnVars, done, calls>>

\* Mutant: ownership is never given up.
Released_Never == FALSE

Released == depth = 1

Finish(t) ==
    /\ done' = done \cup {Top(t).row}
    /\ depth' = depth - 1
    /\ owner' = IF Released THEN NoOne ELSE owner
    /\ UNCHANGED <<txnVars, rows, started, calls>>

\* The callbacks return; what they raised was logged.
Notified(t) ==
    /\ In(t, "notify")
    /\ Finish(t)
    /\ Pop(t)

\* The callbacks raise what nobody catches: drain() finishes the row and
\* raises in turn, into the callback below if there is one.
Interrupted(t) ==
    /\ Interrupts /\ In(t, "notify")
    /\ Finish(t)
    /\ stack' = [stack EXCEPT ![t] = Front(Front(@))]

-----------------------------------------------------------------------------
Step(t) ==
    \/ PublishInline(t) \/ Stage(t)
    \/ Enter(t) \/ Return(t) \/ TakeNext(t) \/ Notified(t)

\* Nobody is in a call: the system may rest here.
Quiet == wlock = NoOne /\ \A t \in Threads : stack[t] = <<>>

Next ==
    \/ \E t \in Threads : Log(t) \/ Flush(t) \/ SinkLog(t) \/ Interrupted(t) \/ Step(t)
    \/ Quiet /\ UNCHANGED vars

Spec == Init /\ [][Next]_vars

(* Threads are scheduled and callbacks return.  Nobody has to call.        *)
FairSpec == Spec /\ \A t \in Threads : WF_vars(Step(t))

-----------------------------------------------------------------------------
(* Every variable has its type.                                            *)
TypeOK ==
    /\ wlock \in Threads \cup {NoOne} /\ owner \in Threads \cup {NoOne}
    /\ pending \in Seq(Nat) /\ rows \in Seq(Nat) /\ started \in Seq(Nat)
    /\ fast \in BOOLEAN /\ then \in BOOLEAN
    /\ next \in Nat /\ depth \in Int
    /\ done \in SUBSET Nat
    /\ stack \in [Threads -> Seq(Frames)]
    /\ calls \in 0..MaxCalls

(* Callbacks see every row once and in commit order, whichever thread      *)
(* delivers it, inline or from the queue; what is not delivered yet waits  *)
(* in that order too (design.md: commit tickets preserve that order).      *)
CommitOrder ==
    LET all == started \o rows \o pending
    IN  /\ Len(all) = next - 1
        /\ \A i \in 1..Len(all) : all[i] = i

Deliveries(t) == {i \in 1..Len(stack[t]) : stack[t][i].kind = "notify"}

(* When all calls have returned, all rows were delivered.                  *)
QuietMeansDelivered ==
    Quiet => rows = <<>> /\ done = 1..(next - 1)

(* A call that waits for a row never delivers past it: a recursive flush   *)
(* stops at the tail captured on entry, so no thread delivers for others   *)
(* without end.                                                            *)
StopsAtTarget ==
    \A t \in Threads :
      In(t, "drain") /\ Top(t).row \notin done \cup {0} /\ rows # <<>> /\ Mine(t)
        => Head(rows) <= Top(t).row

(* Every log() and flush() returns, nested or not: callbacks that log again*)
(* do not wait for themselves or in a circle.                              *)
CallsReturn ==
    \A t \in Threads : (stack[t] # <<>> \/ wlock = t) ~> (stack[t] = <<>> /\ wlock # t)
=============================================================================

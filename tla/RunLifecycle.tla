----------------------------- MODULE RunLifecycle -----------------------------
(***************************************************************************)
(* The life of runs: init, log, flush and finish called by several threads *)
(* (src/expr_tracker/tracker.py, run.py, history/store.py).                *)
(*                                                                         *)
(* A run owns a store, whose rows are delivered to callbacks, and sinks    *)
(* the callbacks feed: the summary, the alert engine, the backends.        *)
(* finish() closes the store, waits for the callbacks of every row, closes *)
(* the writer and then the sinks; of several callers one does the work.    *)
(* The queue of commits is what CommitQueue shows of it: rows are          *)
(* delivered in order, one thread at a time, by whoever waits for them.    *)
(* A callback may log again, and may try to start and finish runs.         *)
(*                                                                         *)
(* A thread's stack holds the calls it is in, each at a step of its code.  *)
(***************************************************************************)
EXTENDS Integers, Sequences, FiniteSets, SequencesExt

CONSTANTS
    Threads,
    NoOne,          \* not a thread
    MaxRuns,        \* bound: runs built in a behaviour
    MaxRows,        \* bound: rows committed to one run
    MaxCalls,       \* bound: calls in a behaviour,
    Guests, Toll,   \* of which one by a thread in Guests counts as Toll
    MaxNesting,     \* bound: calls on a thread's stack
    MaxCuts         \* bound: KeyboardInterrupts in a behaviour

ASSUME LifecycleAssumption ==
    /\ NoOne \notin Threads /\ Guests \subseteq Threads /\ Toll \in Nat \ {0}
    /\ MaxRuns \in Nat /\ MaxRows \in Nat /\ MaxCalls \in Nat
    /\ MaxNesting \in Nat /\ MaxCuts \in Nat

VARIABLES
    current,    \* run._current, 0 for None
    lifecycle,  \* holder of tracker._lifecycle
    built,      \* runs constructed so far; they are 1..built
    store,      \* of each run: its history store
    shutdown,   \* of each run: who finishes it, and how far that is
    stack,      \* calls each thread is in
    returned,   \* history: runs some finish() returned from without raising
    abandoned,  \* history: runs left as they were, by an interrupt of their finish()
                \* or construction, or by one that failed and was not rolled back
    calls, cuts \* how much of the bounds is used

ghosts == <<returned, abandoned>>
bounds == <<calls, cuts>>
vars == <<current, lifecycle, built, store, shutdown, stack, ghosts, bounds>>

Runs  == 1..MaxRuns
Sinks == {"summary", "alerts", "backends"}

Frame(call, at, run, want) ==
    [call |-> call, at |-> at, run |-> run, want |-> want]

NewStore ==
    [closed    |-> FALSE,   \* _closing or _closed
     writer    |-> "none",
     open      |-> FALSE,   \* metrics wait in the open row
     committed |-> 0,       \* rows committed; they are 1..committed
     begun     |-> 0,       \* rows whose callbacks have begun, in order
     done      |-> {},      \* rows whose callbacks have ended
     owner     |-> NoOne]   \* the thread in them

Init ==
    /\ current = 0 /\ lifecycle = NoOne /\ built = 0
    /\ store = [r \in Runs |-> NewStore]
    /\ shutdown = [r \in Runs |-> [owner |-> NoOne, done |-> FALSE,
                                   error |-> FALSE, sinks |-> {}]]
    /\ stack = [t \in Threads |-> <<>>]
    /\ returned = {} /\ abandoned = {}
    /\ calls = 0 /\ cuts = 0

-----------------------------------------------------------------------------
Top(t)     == Last(stack[t])
At(t, at)  == stack[t] # <<>> /\ Top(t).at = at
Become(t, frame) == stack' = [stack EXCEPT ![t] = Append(Front(@), frame)]
Goto(t, at) == Become(t, [Top(t) EXCEPT !.at = at])

Locking(frames) == \E f \in Range(frames) : f.call \in {"et.init", "et.finish"}

\* The call returns or raises.  The functions of the tracker release its
\* lock, and et.finish() leaves no run current, whatever happened.
Return(t) ==
    /\ stack' = [stack EXCEPT ![t] = Front(@)]
    /\ lifecycle' = IF lifecycle = t /\ ~Locking(Front(stack[t])) THEN NoOne ELSE lifecycle
    /\ current' = IF Top(t).call = "et.finish" THEN 0 ELSE current

\* A KeyboardInterrupt is not caught: it ends every call the thread is in.
Unwound(t, call) == {f.run : f \in {g \in Range(stack[t]) : g.call = call}}

Unwind(t) ==
    LET led  == {r \in Runs : shutdown[r].owner = t /\ ~shutdown[r].done}
        held(r) == {f.want : f \in {g \in Range(stack[t]) :
                                         g.call = "callback" /\ g.run = r}}
        calling == {f.call : f \in Range(stack[t])}
    IN  /\ cuts < MaxCuts /\ cuts' = cuts + 1
        /\ stack' = [stack EXCEPT ![t] = <<>>]
        /\ store' = [r \in Runs |->
              IF store[r].owner = t
              THEN [store[r] EXCEPT !.owner = NoOne, !.done = @ \cup held(r)]
              ELSE store[r]]
        /\ shutdown' = [r \in Runs |->
              IF r \in led THEN [shutdown[r] EXCEPT !.done = TRUE, !.error = TRUE]
              ELSE shutdown[r]]
        /\ abandoned' = abandoned \cup Unwound(t, "finish") \cup Unwound(t, "et.finish")
                      \cup Unwound(t, "et.init")
        /\ lifecycle' = IF lifecycle = t THEN NoOne ELSE lifecycle
        /\ current' = IF "et.finish" \in calling THEN 0 ELSE current
        /\ UNCHANGED <<built, returned, calls>>

-----------------------------------------------------------------------------
(* Calls                                                                   *)

InCallback(t, r) == \E f \in Range(stack[t]) : f.call = "callback" /\ f.run = r

\* Mutant: nothing is refused.
Outside_Anywhere(t, r) == TRUE

\* _require_shutdown_context: not from a callback of this run.
Outside(t, r) == ~InCallback(t, r)

Call(t, frame) ==
    /\ calls' = calls + (IF t \in Guests THEN Toll ELSE 1) /\ calls' <= MaxCalls
    /\ stack' = [stack EXCEPT ![t] = Append(@, frame)]
    /\ UNCHANGED <<current, lifecycle, built, shutdown, ghosts, cuts>>

Idle(t) == stack[t] = <<>>
MayCall(t) == Idle(t) \/ (At(t, "callback") /\ Len(stack[t]) < MaxNesting)

\* A run its creator has been handed; a rolled back one never was.
Known(r) == current = r \/ shutdown[r].owner # NoOne

\* log() looks at the flags once before it takes the write lock.
Log(t) ==
    \E r \in Runs :
        /\ MayCall(t) /\ Known(r)
        /\ ~store[r].closed
        /\ Call(t, Frame("log", "admit", r, 0))
        /\ UNCHANGED store

Committed(s) == [s EXCEPT !.open = FALSE, !.committed = @ + 1]

\* flush(commit_open = True): the open row, then everything queued.
Flush(t) ==
    \E r \in Runs :
        /\ Idle(t) /\ Known(r)
        /\ store[r].open => store[r].committed < MaxRows
        /\ store' = [store EXCEPT ![r] = IF @.open THEN Committed(@) ELSE @]
        /\ Call(t, Frame("flush", "drain", r, 0))

RunFinish(t) ==
    \E r \in Runs :
        /\ MayCall(t) /\ Known(r) /\ Outside(t, r)
        /\ Call(t, Frame("finish", "elect", r, 0))
        /\ UNCHANGED store

\* Only for the bound: the calls of init() that may still build a run.
Builders ==
    Cardinality({t \in Threads :
                     \E f \in Range(stack[t]) : f.call = "et.init" /\ f.at = "lock"})

\* et.init() and et.finish() look at the current run before they lock.
EtCall(t) ==
    /\ MayCall(t)
    /\ current # 0 => Outside(t, current)
    /\ \/ Call(t, Frame("et.finish", "lock", 0, 0))
       \/ /\ Builders + built < MaxRuns
          /\ Call(t, Frame("et.init", "lock", 0, 0))
    /\ UNCHANGED store

-----------------------------------------------------------------------------
(* log() and the delivery of rows                                          *)

\* Mutant: the flags are not looked at again under the write lock.
Refused_Once(r) == FALSE

Refused(r) == store[r].closed

\* The transaction: the metrics stay in the open row, or commit it, or
\* commit it and open another.
Admit(t) ==
    /\ At(t, "admit")
    /\ LET r == Top(t).run
           s == store[r]
       IN  \/ /\ Refused(r)
              /\ Return(t)
              /\ UNCHANGED store
           \/ /\ ~Refused(r)
              /\ store' = [store EXCEPT ![r].open = TRUE]
              /\ Return(t)
           \/ /\ ~Refused(r) /\ s.committed < MaxRows
              /\ \E more \in {FALSE, s.open} :
                     store' = [store EXCEPT ![r] = [Committed(s) EXCEPT !.open = more]]
              /\ Become(t, [Top(t) EXCEPT !.at = "drain", !.want = s.committed + 1])
              /\ UNCHANGED <<current, lifecycle>>
    /\ UNCHANGED <<built, shutdown, ghosts, bounds>>

\* What a drain waits for: its own ticket, or all there is but the rows
\* the thread itself is in the callbacks of.
Satisfied(t) ==
    LET s == store[Top(t).run]
    IN  IF Top(t).want # 0 THEN Top(t).want \in s.done
        ELSE s.begun = s.committed /\ s.owner \in {t, NoOne}

\* Nobody else delivers: the waiting thread does the next row itself.
Take(t) ==
    /\ At(t, "drain")
    /\ LET r == Top(t).run
           row == store[r].begun + 1
       IN  /\ ~Satisfied(t) /\ store[r].owner \in {t, NoOne}
           /\ store' = [store EXCEPT ![r] = [@ EXCEPT !.owner = t, !.begun = row]]
           /\ stack' = [stack EXCEPT ![t] = Append(@, Frame("callback", "callback", r, row))]
    /\ UNCHANGED <<current, lifecycle, built, shutdown, ghosts, bounds>>

EndCallback(t) ==
    /\ At(t, "callback")
    /\ LET r == Top(t).run
           nested == \E f \in Range(Front(stack[t])) : f.call = "callback" /\ f.run = r
       IN  store' = [store EXCEPT ![r].owner = IF nested THEN t ELSE NoOne,
                                  ![r].done = @ \cup {Top(t).want}]
    /\ Return(t)
    /\ UNCHANGED <<built, shutdown, ghosts, bounds>>

CutCallback(t) == At(t, "callback") /\ Unwind(t)

\* log() and flush() return; the leader of a finish() goes on to the writer.
Drained(t) ==
    /\ At(t, "drain") /\ Satisfied(t)
    /\ \/ /\ Top(t).call \in {"log", "flush"}
          /\ Return(t)
       \/ /\ Top(t).call \notin {"log", "flush"}
          /\ Goto(t, "writer") /\ UNCHANGED <<current, lifecycle>>
    /\ UNCHANGED <<built, store, shutdown, ghosts, bounds>>

-----------------------------------------------------------------------------
(* Run.finish                                                              *)

\* One caller becomes the leader; the others wait for it.  The context is
\* checked again, and a leader that calls itself raises: neither happens,
\* or a call would be stuck here and CallsReturn would not hold.
Elect(t) ==
    /\ At(t, "elect")
    /\ LET r == Top(t).run
       IN  /\ Outside(t, r)
           /\ shutdown[r].owner = t => shutdown[r].done
           /\ \/ /\ shutdown[r].owner = NoOne
                 /\ shutdown' = [shutdown EXCEPT ![r].owner = t]
                 /\ Goto(t, "closing")
              \/ /\ shutdown[r].owner # NoOne
                 /\ Goto(t, "await")
                 /\ UNCHANGED shutdown
    /\ UNCHANGED <<current, lifecycle, built, store, ghosts, bounds>>

\* HistoryStore.finish(): no write is accepted any more...
Closing(t) ==
    /\ At(t, "closing")
    /\ store' = [store EXCEPT ![Top(t).run].closed = TRUE]
    /\ Goto(t, "commit")
    /\ UNCHANGED <<current, lifecycle, built, shutdown, ghosts, bounds>>

\* ... the open row is committed, then all is delivered (Take, Drained) ...
CommitOpen(t) ==
    /\ At(t, "commit")
    /\ store' = [store EXCEPT ![Top(t).run] = IF @.open THEN Committed(@) ELSE @]
    /\ Goto(t, "drain")
    /\ UNCHANGED <<current, lifecycle, built, shutdown, ghosts, bounds>>

\* ... and the writer is closed.
CloseWriter(t) ==
    /\ At(t, "writer")
    /\ store' = [store EXCEPT ![Top(t).run].writer = "closed"]
    /\ Goto(t, "summary")
    /\ UNCHANGED <<current, lifecycle, built, shutdown, ghosts, bounds>>

\* The sinks in order: summary.save, alerts.close, backend.finish.
CloseSink(t) ==
    /\ \/ At(t, "summary")  /\ Goto(t, "alerts")
       \/ At(t, "alerts")   /\ Goto(t, "backends")
       \/ At(t, "backends") /\ Goto(t, "done")
    /\ shutdown' = [shutdown EXCEPT ![Top(t).run].sinks = @ \cup {Top(t).at}]
    /\ UNCHANGED <<current, lifecycle, built, store, ghosts, bounds>>

Finished(t) ==
    /\ At(t, "done")
    /\ shutdown' = [shutdown EXCEPT ![Top(t).run].done = TRUE]
    /\ returned' = returned \cup {Top(t).run}
    /\ Return(t)
    /\ UNCHANGED <<built, store, abandoned, bounds>>

\* Another caller hears how it went: an error is raised again.
Awaited(t) ==
    /\ At(t, "await") /\ shutdown[Top(t).run].done
    /\ returned' = IF shutdown[Top(t).run].error THEN returned
                   ELSE returned \cup {Top(t).run}
    /\ Return(t)
    /\ UNCHANGED <<built, store, shutdown, abandoned, bounds>>

CutWait(t) == At(t, "await") /\ Unwind(t)

-----------------------------------------------------------------------------
(* tracker.init and tracker.finish                                         *)

\* Mutant: init() does not look at the current run again under the lock.
Vacant_Unchecked == TRUE

Vacant == current = 0

LockFinish(t) ==
    /\ At(t, "lock") /\ Top(t).call = "et.finish"
    /\ lifecycle \in {NoOne, t}      \* an RLock
    /\ \/ /\ current = 0            \* require_run() raises
          /\ Return(t)
       \/ /\ current # 0
          /\ lifecycle' = t
          /\ Become(t, [Top(t) EXCEPT !.at = "elect", !.run = current])
          /\ UNCHANGED current
    /\ UNCHANGED <<built, store, shutdown, ghosts, bounds>>

\* The construction opens the store first.  It opens nothing when an option
\* is refused or the log itself cannot be opened.
LockInit(t) ==
    /\ At(t, "lock") /\ Top(t).call = "et.init"
    /\ lifecycle \in {NoOne, t}      \* an RLock
    /\ \/ /\ Return(t)
          /\ UNCHANGED <<built, store>>
       \/ /\ Vacant
          /\ lifecycle' = t
          /\ built' = built + 1
          /\ store' = [store EXCEPT ![built'].writer = "open"]
          /\ Become(t, [Top(t) EXCEPT !.at = "build", !.run = built'])
          /\ UNCHANGED current
    /\ UNCHANGED <<shutdown, ghosts, bounds>>

Publish(t) ==
    /\ At(t, "build")
    /\ current' = Top(t).run
    /\ stack' = [stack EXCEPT ![t] = Front(@)]
    /\ lifecycle' = IF Locking(Front(stack[t])) THEN t ELSE NoOne
    /\ UNCHANGED <<built, store, shutdown, ghosts, bounds>>

\* An invalid alert rule, say: what raises in the try is rolled back.
Rollback(t) ==
    /\ At(t, "build")
    /\ store' = [store EXCEPT ![Top(t).run] =
                     [@ EXCEPT !.closed = TRUE, !.writer = "closed"]]
    /\ Return(t)
    /\ UNCHANGED <<built, shutdown, ghosts, bounds>>

\* What raises before the try of Run.__init__ is not rolled back: the spans
\* file cannot be opened, say, and the writer of the log stays open.
Abandon(t) ==
    /\ At(t, "build")
    /\ abandoned' = abandoned \cup {Top(t).run}
    /\ Return(t)
    /\ UNCHANGED <<built, store, shutdown, returned, bounds>>

\* A KeyboardInterrupt is no Exception, so nothing is rolled back.
CutBuild(t) == At(t, "build") /\ Unwind(t)

-----------------------------------------------------------------------------
Calls(t) == Log(t) \/ Flush(t) \/ RunFinish(t) \/ EtCall(t)

Advance(t) ==
    \/ Admit(t) \/ Take(t) \/ EndCallback(t) \/ Drained(t)
    \/ Elect(t) \/ Closing(t) \/ CommitOpen(t) \/ CloseWriter(t)
    \/ CloseSink(t) \/ Finished(t) \/ Awaited(t)
    \/ LockFinish(t) \/ LockInit(t) \/ Publish(t) \/ Rollback(t) \/ Abandon(t)

Cut(t) == CutCallback(t) \/ CutWait(t) \/ CutBuild(t)

\* Nobody is in a call.
Rest == (\A t \in Threads : Idle(t)) /\ UNCHANGED vars

Next == Rest \/ \E t \in Threads : Calls(t) \/ Advance(t) \/ Cut(t)

Spec == Init /\ [][Next]_vars

\* Threads inside calls are scheduled, and callbacks come to an end: as long as
\* a call can go on, one does.
FairSpec == Spec /\ WF_vars(\E t \in Threads : Advance(t))

-----------------------------------------------------------------------------
(* Properties                                                              *)

Quiet(r) ==
    LET s == store[r]
    IN  s.closed /\ ~s.open /\ s.done = 1..s.committed /\ s.owner = NoOne

\* Whoever is told that a run is finished may rely on it: nothing is left
\* in the open row, the callbacks of every row have ended, the writer and
\* all sinks are closed; and no sink was closed before that, so no callback
\* ever meets a closed one (run.py, _finish; a waiter returns like the
\* leader, and learns of its failure).
ShutdownComplete ==
    \A r \in Runs :
        /\ shutdown[r].sinks # {} => Quiet(r) /\ store[r].writer = "closed"
        /\ r \in returned =>
              ~shutdown[r].error /\ shutdown[r].sinks = Sinks

\* Two runs have their files open at once only when the earlier one was
\* abandoned: init() does not overtake a shutdown in progress, and what a
\* rolled back construction or a finished run had open is closed
\* (tracker.py: check, construct and publish atomically).
OneWriter ==
    \A r, s \in Runs :
        r < s /\ store[r].writer = "open" /\ store[s].writer = "open" => r \in abandoned

\* The thread that one waits for.
Blocker(t) ==
    CASE At(t, "lock") -> lifecycle
      [] At(t, "await") /\ ~shutdown[Top(t).run].done -> shutdown[Top(t).run].owner
      [] At(t, "drain") /\ ~Satisfied(t) -> store[Top(t).run].owner
      [] OTHER -> NoOne

\* Threads that wait for each other, all of them for one of them.
Ring(ts) == ts # {} /\ \A t \in ts : Blocker(t) \in ts \ {t}

\* The calls a thread makes inside a callback, each with the callback.
Inside(t) ==
    LET frames == Range(stack[t])
    IN  {c \in frames \X frames :
            /\ c[1].call = "callback"
            /\ \E i, j \in DOMAIN stack[t] :
                  i < j /\ stack[t][i] = c[1] /\ stack[t][j] = c[2]}

\* The thread is in a callback of one run, and in that in a call on another.
Crosses(t) == \E c \in Inside(t) : c[2].run \notin {0, c[1].run}

Entangled ==
    \E t \in Threads :
        Crosses(t) /\ \E ts \in SUBSET Threads : t \in ts /\ Ring(ts)

\* Neither the tracker's lock, nor a caller that waits for the leader of a
\* shutdown, nor the leader that waits for the callbacks of the rows, nor a
\* callback that logs again, closes a ring with others of its run
\* (tracker.py, run.py and store.py: require_outside_callback).
RingsCross == \A ts \in SUBSET Threads : Ring(ts) => \E t \in ts : Crosses(t)

\* A call that cannot go on waits for a thread that is in a call itself: no
\* lock, shutdown or callback is left to one that has returned or was
\* interrupted.
WaitsForSomebody ==
    \A t \in Threads :
        \/ Idle(t) \/ ENABLED Advance(t)
        \/ \E u \in Threads \ {t} : u = Blocker(t) /\ ~Idle(u)

\* Calls wait for each other for ever only when a callback of one run calls
\* another run, and every call returns, unless it comes to such a ring: log()
\* and finish() wait for callbacks and for each other, and callbacks may
\* themselves call init() and finish().
CallsReturn ==
    /\ [](RingsCross /\ WaitsForSomebody)
    /\ \A t \in Threads : stack[t] # <<>> ~> stack[t] = <<>> \/ Entangled
=============================================================================

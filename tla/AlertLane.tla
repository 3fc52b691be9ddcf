------------------------------- MODULE AlertLane -------------------------------
(***************************************************************************)
(* One alert channel that sends in the background: the lane of             *)
(* rust/alerts/delivery.rs under the Dispatcher of                         *)
(* src/expr_tracker/alerts/dispatch.py.                                    *)
(*                                                                         *)
(* Any thread may send, flush or close.  send() starts the worker when     *)
(* there is none and queues the message under the state lock; the worker   *)
(* delivers from the queue and leaves when it is told to stop and finds    *)
(* the queue empty.  The stop flag is an atomic outside the lock, so what  *)
(* the worker does between looking at it and going to sleep is a step of   *)
(* its own, in which it holds the lock.                                    *)
(*                                                                         *)
(* A message is the number of the send() that brought it.  A delivery ends *)
(* with it suppressed as a repeat, refused by the rate limit, sent or, once*)
(* the retries are used up, failed.  Time is abstract: the window of a key *)
(* may have expired when it is looked at, and a bucket may have no token.  *)
(***************************************************************************)
EXTENDS Integers, Sequences, FiniteSets, SequencesExt

CONSTANTS
    Callers,        \* threads that send, flush and close
    NoOne,          \* not a message
    QueueSize,      \* queue_size
    Policies,       \* values of on_queue_full
    Keys,           \* deduplication keys of messages
    MaxSeen,        \* keys the window remembers before it forgets expired ones
    MaxMessages,    \* bound: send() calls in a behaviour
    MaxCloses       \* bound: flush() and close() calls in a behaviour

ASSUME LaneAssumption ==
    /\ QueueSize \in Nat \ {0}
    /\ Policies \subseteq {"block", "drop_oldest", "drop_new"}
    /\ MaxSeen \in Nat \ {0}
    /\ NoOne \notin Nat
    /\ MaxMessages \in Nat /\ MaxCloses \in Nat

VARIABLES
    full,       \* on_queue_full
    pc,         \* what each thread is about to do
    mine,       \* the message a thread is sending
    mark,       \* history: messages queued before a thread's flush began
    queue,      \* LaneState.queue
    inflight,   \* the message being delivered, or NoOne
    alive,      \* LaneState.alive
    worker,     \* where the worker is
    stopping,   \* Lane.stopping
    next,       \* number of the next message
    key,        \* the key of the message that was let through, or NoOne
    seen,       \* Dedup.seen: repeats in the window of each key it knows
    carry,      \* repeats the message being delivered stands for
    due,        \* history: repeats of a key no message that was sent announced
    forfeited,  \* history: keys some of whose repeats will never be announced
    queued,     \* history: messages in the order they were queued
    handled,    \* history: messages whose delivery ended, in order
    dropped,    \* messages a full queue gave up
    closes      \* how much of the bound is used

threadVars  == <<pc, mine, mark>>
doneVars    == <<key, seen, carry, due, forfeited, handled>>
workVars    == <<inflight, worker, doneVars>>
endVars     == <<alive, stopping, closes>>
messageVars == <<full, next>>
laneVars == <<messageVars, threadVars, queue, workVars, endVars, queued, dropped>>

Labels == {"idle", "start", "push", "room", "full", "flush", "flushing",
           "close", "closing", "stop", "wake", "join", "joining"}
Places == {"none", "look", "parking", "asleep", "deliver", "send", "settle"}
Messages == 1..MaxMessages

LaneInit ==
    /\ full \in Policies
    /\ key = NoOne /\ seen = <<>> /\ carry = 0
    /\ due = [k \in Keys |-> 0] /\ forfeited = {}
    /\ pc = [t \in Callers |-> "idle"]
    /\ mine = [t \in Callers |-> 0] /\ mark = [t \in Callers |-> 0]
    /\ queue = <<>> /\ inflight = NoOne
    /\ alive = FALSE /\ worker = "none" /\ stopping = FALSE
    /\ next = 1 /\ queued = <<>> /\ handled = <<>> /\ dropped = {}
    /\ closes = 0

-----------------------------------------------------------------------------
Goto(t, label) == pc' = [pc EXCEPT ![t] = label]

\* The worker keeps the state lock from its look at the queue until it sleeps.
Unlocked == worker # "parking"

\* wake.notify: a sleeping worker looks again.
Woken == IF worker = "asleep" THEN "look" ELSE worker

\* Whoever waits for room, for the queue or for the worker.
Rechecks(label) == CASE label = "full" -> "room"
                     [] label = "flushing" -> "flush"
                     [] label = "closing" -> "close"
                     [] label = "joining" -> "join"
                     [] OTHER -> label

\* Mutant: nobody is told.
NotifyDone_Nobody == UNCHANGED pc

\* done.notify_all
NotifyDone == pc' = [t \in Callers |-> Rechecks(pc[t])]

-----------------------------------------------------------------------------
(* send                                                                    *)

Send(t) ==
    /\ pc[t] = "idle" /\ next <= MaxMessages
    /\ mine' = [mine EXCEPT ![t] = next]
    /\ next' = next + 1
    /\ Goto(t, "start")
    /\ UNCHANGED <<full, mark, queue, workVars, endVars, queued, dropped>>

\* Lane::start, which leaves a live worker alone.
Start(t) ==
    /\ pc[t] = "start" /\ Unlocked
    /\ IF alive THEN UNCHANGED <<alive, worker, stopping>>
       ELSE alive' = TRUE /\ worker' = "look" /\ stopping' = FALSE
    /\ Goto(t, "push")
    /\ UNCHANGED <<messageVars, mine, mark, queue, inflight, doneVars, closes, queued,
                   dropped>>

\* Mutant: one message too many.
HasRoom_OneMore == Len(queue) <= QueueSize

HasRoom == Len(queue) < QueueSize

\* The message of thread t goes behind `ahead'.
Enqueue(t, ahead) ==
    /\ queue' = Append(ahead, mine[t])
    /\ queued' = Append(queued, mine[t])
    /\ worker' = Woken
    /\ Goto(t, "idle")

Push(t) ==
    /\ pc[t] = "push" /\ Unlocked /\ HasRoom
    /\ Enqueue(t, queue)
    /\ UNCHANGED <<messageVars, mine, mark, inflight, doneVars, endVars, dropped>>

DropOldest(t) ==
    /\ pc[t] = "push" /\ Unlocked /\ ~HasRoom
    /\ full = "drop_oldest"
    /\ Enqueue(t, Tail(queue))
    /\ dropped' = dropped \cup {Head(queue)}
    /\ UNCHANGED <<messageVars, mine, mark, inflight, doneVars, endVars>>

DropNew(t) ==
    /\ pc[t] = "push" /\ Unlocked /\ ~HasRoom
    /\ full = "drop_new"
    /\ dropped' = dropped \cup {mine[t]}
    /\ Goto(t, "idle")
    /\ UNCHANGED <<messageVars, mine, mark, queue, workVars, endVars, queued>>

\* on_queue_full = "block": the lock is given up and taken again to wait.
Block(t) ==
    /\ pc[t] = "push" /\ Unlocked /\ ~HasRoom
    /\ full = "block"
    /\ Goto(t, "room")
    /\ UNCHANGED <<messageVars, mine, mark, queue, workVars, endVars, queued, dropped>>

AwaitRoom(t) ==
    /\ pc[t] = "room" /\ Unlocked /\ ~HasRoom
    /\ Goto(t, "full")
    /\ UNCHANGED <<messageVars, mine, mark, queue, workVars, endVars, queued, dropped>>

PushLate(t) ==
    /\ pc[t] = "room" /\ Unlocked /\ HasRoom
    /\ Enqueue(t, queue)
    /\ UNCHANGED <<messageVars, mine, mark, inflight, doneVars, endVars, dropped>>

-----------------------------------------------------------------------------
(* The worker                                                              *)

Take ==
    /\ worker = "look" /\ queue # <<>>
    /\ inflight' = Head(queue)
    /\ queue' = Tail(queue)
    /\ worker' = "deliver"
    /\ NotifyDone
    /\ UNCHANGED <<messageVars, mine, mark, doneVars, endVars, queued, dropped>>

\* Mutant: the worker leaves what is still queued.
MayLeave_Early == stopping

MayLeave == queue = <<>> /\ stopping

Leave ==
    /\ worker = "look" /\ MayLeave
    /\ alive' = FALSE /\ worker' = "none"
    /\ NotifyDone
    /\ UNCHANGED <<messageVars, mine, mark, queue, inflight, doneVars, stopping, closes,
                   queued, dropped>>

FindNothing ==
    /\ worker = "look" /\ queue = <<>> /\ ~stopping
    /\ worker' = "parking"
    /\ UNCHANGED <<messageVars, threadVars, queue, inflight, doneVars, endVars, queued,
                   dropped>>

Sleep ==
    /\ worker = "parking"
    /\ worker' = "asleep"
    /\ UNCHANGED <<messageVars, threadVars, queue, inflight, doneVars, endVars, queued,
                   dropped>>

-----------------------------------------------------------------------------
(* The delivery of one message (Lane::delivery)                            *)

inDelivery == <<messageVars, threadVars, queue, inflight, endVars, queued, dropped>>

\* The delivery is over; an error of it is only logged.
EndDelivery ==
    /\ handled' = Append(handled, inflight)
    /\ key' = NoOne /\ carry' = 0
    /\ worker' = "settle"

Count(k) == IF k \in DOMAIN seen THEN seen[k] ELSE 0
Remember(k, count) == [j \in DOMAIN seen \cup {k} |-> IF j = k THEN count ELSE seen[j]]

\* Mutant: a repeat opens the window anew.
Repeated_Resets(k) == Remember(k, 0)

Repeated(k) == Remember(k, Count(k) + 1)

\* Dedup::check within the window of a key; any message may have it.
Suppress ==
    /\ worker = "deliver"
    /\ \E k \in DOMAIN seen :
         /\ seen' = Repeated(k)
         /\ due' = [due EXCEPT ![k] = @ + 1]
    /\ EndDelivery
    /\ UNCHANGED <<inDelivery, forfeited>>

Forfeit(ks) == forfeited' = forfeited \cup {k \in ks : Count(k) > 0}

\* Dedup::check of a key that is new, or whose window has expired: with too
\* many keys, those that have expired are forgotten.
Admit ==
    /\ worker = "deliver"
    /\ \E k \in Keys :
         /\ key' = k
         /\ carry' = Count(k)
         /\ LET fresh == Remember(k, 0)
            IN  \E expired \in SUBSET (DOMAIN fresh \ {k}) :
                  /\ Cardinality(DOMAIN fresh) <= MaxSeen => expired = {}
                  /\ seen' = [j \in DOMAIN fresh \ expired |-> fresh[j]]
                  /\ Forfeit(expired)
    /\ worker' = "send"
    /\ UNCHANGED <<inDelivery, due, handled>>

\* The bucket has a token, at once or after a wait, and the backend takes the
\* message, at once or at a retry; it says how many repeats it stands for.
Sent ==
    /\ worker = "send"
    /\ due' = [due EXCEPT ![key] = @ - carry]
    /\ EndDelivery
    /\ UNCHANGED <<inDelivery, seen, forfeited>>

\* Refused by the rate limit, or failed for good.
Unsent ==
    /\ worker = "send"
    /\ forfeited' = IF carry > 0 THEN forfeited \cup {key} ELSE forfeited
    /\ EndDelivery
    /\ UNCHANGED <<inDelivery, seen, due>>

Deliver == Suppress \/ Admit \/ Sent \/ Unsent

Settle ==
    /\ worker = "settle"
    /\ inflight' = NoOne
    /\ worker' = "look"
    /\ NotifyDone
    /\ UNCHANGED <<messageVars, mine, mark, queue, doneVars, endVars, queued, dropped>>

-----------------------------------------------------------------------------
(* flush and close                                                         *)

Begin(t) ==
    /\ pc[t] = "idle" /\ closes < MaxCloses
    /\ closes' = closes + 1
    /\ mark' = [mark EXCEPT ![t] = Len(queued)]
    /\ \E label \in {"flush", "close"} : Goto(t, label)
    /\ UNCHANGED <<messageVars, mine, queue, workVars, alive, stopping, queued, dropped>>

\* Mutant: a delivery under way does not count.
Drained_Queue == queue = <<>>

Drained == queue = <<>> /\ inflight = NoOne

AfterFlush(t) == Goto(t, IF pc[t] \in {"close", "closing"} THEN "stop" ELSE "idle")

Flushed(t) ==
    /\ pc[t] \in {"flush", "close"} /\ Unlocked /\ Drained
    /\ AfterFlush(t)
    /\ UNCHANGED <<messageVars, mine, mark, queue, workVars, endVars, queued, dropped>>

AwaitQueue(t) ==
    /\ pc[t] \in {"flush", "close"} /\ Unlocked /\ ~Drained
    /\ Goto(t, IF pc[t] = "flush" THEN "flushing" ELSE "closing")
    /\ UNCHANGED <<messageVars, mine, mark, queue, workVars, endVars, queued, dropped>>

\* The timeout runs out while flush() waits.
GiveUpFlush(t) ==
    /\ pc[t] \in {"flushing", "closing"} /\ Unlocked
    /\ AfterFlush(t)
    /\ UNCHANGED <<messageVars, mine, mark, queue, workVars, endVars, queued, dropped>>

\* The flag is stored and the worker notified without the state lock.
Stop(t) ==
    /\ pc[t] = "stop"
    /\ stopping' = TRUE
    /\ Goto(t, "wake")
    /\ UNCHANGED <<messageVars, mine, mark, queue, workVars, alive, closes, queued,
                   dropped>>

Wake(t) ==
    /\ pc[t] = "wake"
    /\ worker' = Woken
    /\ Goto(t, "join")
    /\ UNCHANGED <<messageVars, mine, mark, queue, inflight, doneVars, endVars, queued,
                   dropped>>

Join(t) ==
    /\ pc[t] = "join" /\ Unlocked
    /\ Goto(t, IF alive THEN "joining" ELSE "idle")
    /\ UNCHANGED <<messageVars, mine, mark, queue, workVars, endVars, queued, dropped>>

GiveUpJoin(t) ==
    /\ pc[t] = "joining" /\ Unlocked
    /\ Goto(t, "idle")
    /\ UNCHANGED <<messageVars, mine, mark, queue, workVars, endVars, queued, dropped>>

-----------------------------------------------------------------------------
ThreadStep(t) ==
    \/ Start(t) \/ Push(t) \/ DropOldest(t) \/ DropNew(t) \/ Block(t)
    \/ AwaitRoom(t) \/ PushLate(t)
    \/ Flushed(t) \/ AwaitQueue(t) \/ GiveUpFlush(t)
    \/ Stop(t) \/ Wake(t) \/ Join(t) \/ GiveUpJoin(t)

WorkerStep == Take \/ Leave \/ FindNothing \/ Sleep \/ Deliver \/ Settle

\* Nobody calls any more and the worker has nothing to do; a sender may be
\* left behind, waiting for room in the queue of a lane without a worker.
Rest ==
    /\ \A t \in Callers : pc[t] \in {"idle", "full"}
    /\ worker \in {"none", "asleep"}
    /\ UNCHANGED laneVars

LaneNext ==
    \/ \E t \in Callers : Send(t) \/ Begin(t) \/ ThreadStep(t)
    \/ WorkerStep
    \/ Rest

LaneSpec == LaneInit /\ [][LaneNext]_laneVars

(* Threads are scheduled, a delivery ends and a timeout runs out.  Nobody  *)
(* has to send, flush or close.                                            *)
Fairness == (\A t \in Callers : WF_laneVars(ThreadStep(t))) /\ WF_laneVars(WorkerStep)

FairLaneSpec == LaneSpec /\ Fairness

-----------------------------------------------------------------------------
\* The delivery under way, until its outcome is counted.
Underway == IF worker \in {"deliver", "send"} THEN <<inflight>> ELSE <<>>

\* Of x and y, both queued, x was queued first.
Before(all, x, y) == \E a, b \in DOMAIN all : a < b /\ all[a] = x /\ all[b] = y

(* s holds the messages of `all' that are not missing, each once and in the *)
(* order of `all'.                                                         *)
Keeps(s, all, missing) ==
    /\ IsInjective(s) /\ IsInjective(all)
    /\ Range(s) = Range(all) \ missing
    /\ \A i, j \in DOMAIN s : i < j => Before(all, s[i], s[j])

(* Messages are delivered once and in the order they were queued; the only *)
(* ones missing are those a full queue dropped, and a queue that blocks    *)
(* drops none, whoever closes or restarts the lane meanwhile.              *)
DeliveredInOrder ==
    /\ Keeps(handled \o Underway \o queue, queued, dropped)
    /\ Len(queue) <= QueueSize
    /\ full = "block" => dropped = {}

(* flush() that returns in time, alone or in close(), has waited for every *)
(* message queued before it began, the one being delivered included.       *)
FlushMeansHandled ==
    [][\A t \in Callers :
         pc[t] \in {"flush", "close"} /\ pc'[t] \in {"idle", "stop"} =>
           \A i \in 1..mark[t] : queued[i] \in Range(handled) \cup dropped]_laneVars

Settled(m) == m \in Range(handled) \cup dropped

(* A message in the queue of a lane with a worker is dealt with: nothing   *)
(* the worker is told makes it leave or sleep before the queue is empty.   *)
AcceptedIsHandled ==
    \A m \in Messages : (alive /\ m \in Range(queue)) ~> Settled(m)

(* Every call returns, unless it is a send() waiting for room in the queue *)
(* of a lane whose worker has gone.                                        *)
CallsReturn ==
    \A t \in Callers : pc[t] # "idle" ~> pc[t] = "idle" \/ (pc[t] = "full" /\ ~alive)

(* The repeats of a key that were suppressed are announced, once, by       *)
(* messages that are sent: until then they are counted, or on their way.   *)
(* Only a message that stood for some and was refused or failed, or a key  *)
(* that was forgotten with some, takes them along.                         *)
RepeatsSummarised ==
    \A k \in Keys :
      LET ahead == Count(k) + IF key = k THEN carry ELSE 0
      IN  /\ due[k] >= ahead
          /\ k \notin forfeited => due[k] = ahead
=============================================================================

----------------------------- MODULE Alerts_proofs -----------------------------
(***************************************************************************)
(* The two halves of an alert.  First the lane of a channel: what it       *)
(* delivers and in which order, what flush() waited for, and where the     *)
(* repeats of a message are, for any number of threads, messages and keys. *)
(* Then the rule: when it fires, recovers and is disabled, for any         *)
(* threads, options and interleavings of row delivery with the watchdog.   *)
(***************************************************************************)
EXTENDS AlertLane, AlertRules, SequenceTheorems, FiniteSetTheorems, TLAPS

-----------------------------------------------------------------------------
(* Sequences                                                               *)

LEMMA RangeConcat ==
  ASSUME NEW s \in Seq(Nat), NEW r \in Seq(Nat)
  PROVE  Range(s \o r) = Range(s) \cup Range(r)
  <1> DEFINE c == s \o r
  <1>1. /\ c \in Seq(Nat) /\ Len(c) = Len(s) + Len(r)
        /\ \A i \in 1..Len(c) : c[i] = IF i <= Len(s) THEN s[i] ELSE r[i - Len(s)]
    BY ConcatProperties
  <1>2. DOMAIN c = 1..Len(c) /\ DOMAIN s = 1..Len(s) /\ DOMAIN r = 1..Len(r)
        /\ Len(s) \in Nat /\ Len(r) \in Nat
    BY <1>1
  <1> HIDE DEF c
  <1>3. ASSUME NEW x \in Range(c) PROVE x \in Range(s) \cup Range(r)
    <2>1. PICK i \in 1..Len(c) : c[i] = x
      BY <1>2 DEF Range
    <2>2. CASE i <= Len(s)
      <3>1. i \in DOMAIN s /\ s[i] = x
        BY <1>1, <1>2, <2>1, <2>2
      <3> QED
        BY <3>1, Zenon DEF Range
    <2>3. CASE i > Len(s)
      <3>1. i - Len(s) \in DOMAIN r /\ r[i - Len(s)] = x
        BY <1>1, <1>2, <2>1, <2>3
      <3> QED
        BY <3>1, Zenon DEF Range
    <2> QED
      BY <1>2, <2>2, <2>3
  <1>4. ASSUME NEW x \in Range(s) PROVE x \in Range(c)
    <2>1. PICK i \in 1..Len(s) : s[i] = x
      BY <1>2 DEF Range
    <2>3. Len(c) = Len(s) + Len(r)
      BY <1>1
    <2>4. i \in 1..Len(c) /\ i <= Len(s)
      BY <1>2, <2>1, <2>3
    <2>2. i \in DOMAIN c /\ c[i] = x
      BY <1>1, <1>2, <2>1, <2>4, Zenon
    <2> QED
      BY <2>2, Zenon DEF Range
  <1>5. ASSUME NEW x \in Range(r) PROVE x \in Range(c)
    <2>1. PICK i \in 1..Len(r) : r[i] = x
      BY <1>2 DEF Range
    <2>4. Len(c) = Len(s) + Len(r) /\ Len(s) \in Nat /\ Len(r) \in Nat
      BY <1>1, <1>2
    <2>3. i + Len(s) \in 1..Len(c) /\ ~(i + Len(s) <= Len(s)) /\ (i + Len(s)) - Len(s) = i
      BY <2>4
    <2>2. i + Len(s) \in DOMAIN c /\ c[i + Len(s)] = x
      BY <1>1, <1>2, <2>1, <2>3, Zenon
    <2> QED
      BY <2>2, Zenon DEF Range
  <1>6. Range(c) = Range(s) \cup Range(r)
    BY <1>3, <1>4, <1>5, Zenon
  <1> QED
    BY <1>6 DEF c

LEMMA RangeOne ==
  ASSUME NEW n \in Nat
  PROVE  <<n>> \in Seq(Nat) /\ Range(<<n>>) = {n}
  BY DEF Range

LEMMA RangeAppend ==
  ASSUME NEW s \in Seq(Nat), NEW n \in Nat
  PROVE  Range(Append(s, n)) = Range(s) \cup {n}
  <1>1. Append(s, n) = s \o <<n>> /\ <<n>> \in Seq(Nat) /\ Range(<<n>>) = {n}
    BY RangeOne, AppendIsConcat
  <1>2. Range(s \o <<n>>) = Range(s) \cup Range(<<n>>)
    BY <1>1, RangeConcat
  <1> QED
    BY <1>1, <1>2, Zenon

\* Sequences without repetitions.
LEMMA InjectiveConcat ==
  ASSUME NEW s \in Seq(Nat), NEW r \in Seq(Nat), IsInjective(s), IsInjective(r),
         Range(s) \cap Range(r) = {}
  PROVE  IsInjective(s \o r)
  <1> DEFINE c == s \o r
             In1(i) == i <= Len(s)
  <1>1. /\ Len(c) = Len(s) + Len(r) /\ DOMAIN c = 1..Len(c)
        /\ \A i \in 1..Len(c) : c[i] = IF i <= Len(s) THEN s[i] ELSE r[i - Len(s)]
    BY ConcatProperties
  <1>2. /\ Len(s) \in Nat /\ Len(r) \in Nat /\ DOMAIN s = 1..Len(s) /\ DOMAIN r = 1..Len(r)
    OBVIOUS
  <1> HIDE DEF c
  <1>3. \A i \in DOMAIN c : i <= Len(s) => i \in DOMAIN s /\ c[i] = s[i] /\ c[i] \in Range(s)
    <2>1. ASSUME NEW i \in DOMAIN c, i <= Len(s) PROVE i \in DOMAIN s /\ c[i] = s[i]
      BY <1>1, <1>2, <2>1
    <2> QED
      BY <2>1, Zenon DEF Range
  <1>4. \A i \in DOMAIN c : ~(i <= Len(s)) =>
           i - Len(s) \in DOMAIN r /\ c[i] = r[i - Len(s)] /\ c[i] \in Range(r)
    <2>1. ASSUME NEW i \in DOMAIN c, ~(i <= Len(s))
          PROVE  i - Len(s) \in DOMAIN r /\ c[i] = r[i - Len(s)]
      BY <1>1, <1>2, <2>1
    <2> QED
      BY <2>1, Zenon DEF Range
  <1>5. ASSUME NEW i \in DOMAIN c, NEW j \in DOMAIN c, c[i] = c[j] PROVE i = j
    <2>1. CASE i <= Len(s) /\ j <= Len(s)
      BY <1>3, <1>5, <2>1 DEF IsInjective
    <2>2. CASE ~(i <= Len(s)) /\ ~(j <= Len(s))
      <3>1. i - Len(s) = j - Len(s)
        BY <1>4, <1>5, <2>2, Zenon DEF IsInjective
      <3>2. i \in Int /\ j \in Int
        BY <1>1
      <3> QED
        BY <1>2, <3>1, <3>2
    <2>3. CASE ~((i <= Len(s)) <=> (j <= Len(s)))
      BY <1>3, <1>4, <1>5, <2>3
    <2> QED
      BY <2>1, <2>2, <2>3
  <1>6. IsInjective(c)
    BY <1>5 DEF IsInjective
  <1> QED
    BY <1>6 DEF c

-----------------------------------------------------------------------------

LaneTypeOK ==
    /\ full \in Policies
    /\ pc \in [Callers -> Labels]
    /\ mine \in [Callers -> Nat] /\ mark \in [Callers -> Nat]
    /\ queue \in Seq(Nat) /\ queued \in Seq(Nat) /\ handled \in Seq(Nat)
    /\ inflight \in Nat \cup {NoOne}
    /\ worker \in Places
    /\ next \in Nat
    /\ dropped \in SUBSET Nat

\* The worker is there while the lane counts it as alive, and has a message
\* in hand from when it takes it until the delivery is settled.
WorkerOK ==
    /\ alive <=> worker # "none"
    /\ inflight # NoOne <=> worker \in {"deliver", "send", "settle"}

LEMMA WokenIs ==
  ASSUME worker \in Places
  PROVE  /\ Woken \in Places
         /\ \A w \in {"none", "deliver", "send", "settle"} : Woken = w <=> worker = w
  BY DEF Woken, Places

LEMMA RechecksIs ==
  ASSUME NEW l \in Labels
  PROVE  /\ Rechecks(l) \in Labels
         /\ \A m \in {"idle", "start", "push", "flush", "close", "stop", "wake", "join"} :
              l = m => Rechecks(l) = m
         /\ \A m \in {"idle", "start", "push", "stop", "wake"} : Rechecks(l) = m => l = m
         /\ l \in {"room", "full"} <=> Rechecks(l) \in {"room", "full"}
  BY DEF Rechecks, Labels

LEMMA LaneTypesInit == LaneInit => LaneTypeOK /\ WorkerOK
  <1> SUFFICES ASSUME LaneInit PROVE LaneTypeOK /\ WorkerOK
    OBVIOUS
  <1>1. full \in Policies /\ pc \in [Callers -> Labels]
    BY DEF LaneInit, Labels
  <1>2. mine \in [Callers -> Nat] /\ mark \in [Callers -> Nat]
    BY DEF LaneInit
  <1>3. queue \in Seq(Nat) /\ queued \in Seq(Nat) /\ handled \in Seq(Nat)
    BY DEF LaneInit
  <1>4. inflight = NoOne /\ worker = "none" /\ next = 1 /\ dropped = {} /\ alive = FALSE
    BY Zenon DEF LaneInit
  <1>5. worker \in Places
    BY <1>4 DEF Places
  <1>6. WorkerOK
    BY <1>4 DEF WorkerOK
  <1> QED
    BY <1>1, <1>2, <1>3, <1>4, <1>5, <1>6 DEF LaneTypeOK

LEMMA GotoIs ==
  ASSUME LaneTypeOK, NEW t \in Callers, NEW l \in Labels, Goto(t, l)
  PROVE  /\ pc' \in [Callers -> Labels] /\ pc'[t] = l
         /\ \A u \in Callers \ {t} : pc'[u] = pc[u]
  BY DEF LaneTypeOK, Goto

LEMMA NotifyIs ==
  ASSUME LaneTypeOK, NotifyDone
  PROVE  /\ pc' \in [Callers -> Labels]
         /\ \A t \in Callers : pc'[t] = Rechecks(pc[t])
  <1>1. \A t \in Callers : pc[t] \in Labels
    BY DEF LaneTypeOK
  <1>2. \A t \in Callers : Rechecks(pc[t]) \in Labels
    BY <1>1, RechecksIs
  <1>3. pc' = [t \in Callers |-> Rechecks(pc[t])]
    BY DEF NotifyDone
  <1> QED
    BY <1>2, <1>3

\* Which variables a step of a thread may change besides its own.
LEMMA ThreadTypes ==
  ASSUME LaneTypeOK, WorkerOK, NEW t \in Callers, Send(t) \/ Begin(t) \/ ThreadStep(t)
  PROVE  /\ UNCHANGED <<full, inflight, doneVars>>
         /\ \/ UNCHANGED <<worker, alive>>
            \/ worker' = Woken /\ alive' = alive
            \/ worker = "none" /\ worker' = "look" /\ alive' = TRUE
  <1> USE DEF doneVars
  <1>1. CASE Send(t) \/ Begin(t)
    BY <1>1, Zenon DEF Send, Begin, workVars, endVars, messageVars, threadVars
  <1>2. CASE Start(t)
    BY <1>2, Zenon DEF Start, WorkerOK, messageVars
  <1>3. CASE Push(t) \/ DropOldest(t) \/ PushLate(t)
    BY <1>3, Zenon DEF Push, DropOldest, PushLate, Enqueue, endVars, messageVars
  <1>4. CASE DropNew(t) \/ Block(t) \/ AwaitRoom(t)
    BY <1>4, Zenon DEF DropNew, Block, AwaitRoom, workVars, endVars, messageVars
  <1>5. CASE Flushed(t) \/ AwaitQueue(t) \/ GiveUpFlush(t)
    BY <1>5, Zenon DEF Flushed, AwaitQueue, GiveUpFlush, workVars, endVars, messageVars
  <1>6. CASE Stop(t) \/ Wake(t)
    BY <1>6, Zenon DEF Stop, Wake, workVars, endVars, messageVars
  <1>7. CASE Join(t) \/ GiveUpJoin(t)
    BY <1>7, Zenon DEF Join, GiveUpJoin, workVars, endVars, messageVars
  <1> QED
    BY <1>1, <1>2, <1>3, <1>4, <1>5, <1>6, <1>7, Zenon DEF ThreadStep

\* The worker's steps outside a delivery.
LEMMA WorkerTypes ==
  ASSUME LaneTypeOK, Take \/ Leave \/ FindNothing \/ Sleep \/ Settle
  PROVE  /\ UNCHANGED <<full, mine, mark, next, doneVars, queued, dropped>>
         /\ worker # "send" /\ worker' # "send"
         /\ UNCHANGED pc \/ NotifyDone
  <1> USE DEF doneVars
  <1>1. CASE Take
    BY <1>1, Zenon DEF Take, messageVars
  <1>2. CASE Leave
    BY <1>2, Zenon DEF Leave, messageVars
  <1>3. CASE FindNothing \/ Sleep
    BY <1>3, Zenon DEF FindNothing, Sleep, messageVars, threadVars
  <1>4. CASE Settle
    BY <1>4, Zenon DEF Settle, messageVars
  <1> QED
    BY <1>1, <1>2, <1>3, <1>4, Zenon

LEMMA DeliveryTypes ==
  ASSUME Deliver
  PROVE  /\ UNCHANGED <<full, next, pc, mine, mark, queue, inflight, alive, queued, dropped>>
         /\ \/ Admit /\ worker = "deliver" /\ worker' = "send" /\ UNCHANGED handled
            \/ /\ worker \in {"deliver", "send"} /\ worker' = "settle"
               /\ handled' = Append(handled, inflight)
  <1> USE DEF inDelivery, messageVars, threadVars, endVars
  <1>1. CASE Admit
    BY <1>1, Zenon DEF Admit
  <1>2. CASE Suppress
    BY <1>2, Zenon DEF Suppress, EndDelivery
  <1>3. CASE Sent \/ Unsent
    BY <1>3, Zenon DEF Sent, Unsent, EndDelivery
  <1> QED
    BY <1>1, <1>2, <1>3, Zenon DEF Deliver

-----------------------------------------------------------------------------
(* The window of a key                                                     *)

WindowOK ==
    /\ DOMAIN seen \subseteq Keys
    /\ \A k \in DOMAIN seen : seen[k] \in Nat
    /\ due \in [Keys -> Int]
    /\ carry \in Nat
    /\ worker = "send" => key \in Keys
    /\ worker # "send" => key = NoOne /\ carry = 0

RepeatsInv == WindowOK /\ RepeatsSummarised

LEMMA RepeatsInit == LaneInit => RepeatsInv
  <1> SUFFICES ASSUME LaneInit PROVE RepeatsInv
    OBVIOUS
  <1>1. seen = <<>> /\ key = NoOne /\ carry = 0 /\ due = [k \in Keys |-> 0] /\ worker = "none"
    BY DEF LaneInit
  <1>2. DOMAIN seen = {}
    BY <1>1
  <1>3. WindowOK
    BY <1>1, <1>2 DEF WindowOK
  <1>4. RepeatsSummarised
    BY <1>1, <1>2 DEF RepeatsSummarised, Count
  <1> QED
    BY <1>3, <1>4 DEF RepeatsInv

\* Outside a delivery nothing of the window changes.
LEMMA Elsewhere ==
  ASSUME LaneTypeOK, WorkerOK, [LaneNext]_laneVars, ~Deliver
  PROVE  UNCHANGED doneVars /\ (worker' = "send" <=> worker = "send")
  <1>1. ASSUME NEW t \in Callers, Send(t) \/ Begin(t) \/ ThreadStep(t)
        PROVE  UNCHANGED doneVars /\ (worker' = "send" <=> worker = "send")
    <2>1. /\ UNCHANGED doneVars
          /\ worker' = worker \/ worker' = Woken \/ (worker = "none" /\ worker' = "look")
      BY <1>1, ThreadTypes
    <2>2. Woken = "send" <=> worker = "send"
      BY WokenIs DEF LaneTypeOK
    <2> QED
      BY <2>1, <2>2
  <1>2. CASE Take \/ Leave \/ FindNothing \/ Sleep \/ Settle
    BY <1>2, WorkerTypes
  <1>3. CASE UNCHANGED laneVars
    BY <1>3 DEF laneVars, workVars, doneVars
  <1> QED
    BY <1>1, <1>2, <1>3, Zenon DEF LaneNext, WorkerStep, Rest

LEMMA WorkerStep1 == LaneTypeOK /\ WorkerOK /\ [LaneNext]_laneVars => worker' \in Places /\ WorkerOK' /\ inflight' \in Nat \cup {NoOne}
  <1> SUFFICES ASSUME LaneTypeOK, WorkerOK, [LaneNext]_laneVars
               PROVE  worker' \in Places /\ WorkerOK' /\ inflight' \in Nat \cup {NoOne}
    OBVIOUS
  <1>0. worker \in Places /\ inflight \in Nat \cup {NoOne} /\ NoOne \notin Nat
    BY LaneAssumption DEF LaneTypeOK
  <1>1. ASSUME NEW t \in Callers, Send(t) \/ Begin(t) \/ ThreadStep(t)
        PROVE  worker' \in Places /\ WorkerOK' /\ inflight' \in Nat \cup {NoOne}
    <2>1. /\ inflight' = inflight
          /\ \/ UNCHANGED <<worker, alive>>
             \/ worker' = Woken /\ alive' = alive
             \/ worker = "none" /\ worker' = "look" /\ alive' = TRUE
      BY <1>1, ThreadTypes
    <2> QED
      BY <1>0, <2>1, WokenIs DEF WorkerOK, Places
  <1>2. CASE Deliver
    <2>1. inflight' = inflight /\ alive' = alive /\ worker \in {"deliver", "send"}
          /\ worker' \in {"send", "settle"}
      BY <1>2, DeliveryTypes
    <2> QED
      BY <1>0, <2>1 DEF WorkerOK, Places
  <1>3. CASE Take
    <2>1. queue \in Seq(Nat) /\ queue # <<>> /\ inflight' = Head(queue)
          /\ worker' = "deliver" /\ worker = "look" /\ alive' = alive
      BY <1>3 DEF Take, LaneTypeOK, endVars
    <2>2. inflight' \in Nat
      BY <2>1
    <2> QED
      BY <1>0, <2>1, <2>2 DEF WorkerOK, Places
  <1>4. CASE Leave
    BY <1>0, <1>4 DEF Leave, WorkerOK, Places
  <1>5. CASE FindNothing \/ Sleep
    BY <1>0, <1>5 DEF FindNothing, Sleep, WorkerOK, Places, endVars
  <1>6. CASE Settle
    BY <1>0, <1>6 DEF Settle, WorkerOK, Places, endVars
  <1>7. CASE UNCHANGED laneVars
    BY <1>0, <1>7 DEF laneVars, workVars, endVars, WorkerOK
  <1> QED
    BY <1>1, <1>2, <1>3, <1>4, <1>5, <1>6, <1>7, Zenon DEF LaneNext, WorkerStep, Rest

LEMMA RepeatsStep == RepeatsInv /\ LaneTypeOK /\ WorkerOK /\ [LaneNext]_laneVars => RepeatsInv'
  <1> SUFFICES ASSUME RepeatsInv, LaneTypeOK, WorkerOK, [LaneNext]_laneVars PROVE RepeatsInv'
    OBVIOUS
  <1> DEFINE Extra(k) == IF key = k THEN carry ELSE 0
             Ahead(k) == Count(k) + Extra(k)
  <1>1. WindowOK /\ RepeatsSummarised
    BY DEF RepeatsInv
  <1>2. \A k \in Keys : Count(k) \in Nat /\ Extra(k) \in Nat /\ due[k] \in Int
    BY <1>1 DEF WindowOK, Count
  <1>3. \A k \in Keys : due[k] >= Ahead(k) /\ (k \notin forfeited => due[k] = Ahead(k))
    BY <1>1 DEF RepeatsSummarised
  <1>4. SUFFICES WindowOK' /\ \A k \in Keys : (due[k] >= Ahead(k) /\ (k \notin forfeited => due[k] = Ahead(k)))'
    BY <1>4 DEF RepeatsInv, RepeatsSummarised
  <1>5. CASE ~Deliver
    <2>1. UNCHANGED doneVars /\ (worker' = "send" <=> worker = "send")
      BY <1>5, Elsewhere
    <2>2. WindowOK'
      BY <1>1, <2>1 DEF WindowOK, doneVars
    <2>3. \A k \in Keys : (due[k] >= Ahead(k) /\ (k \notin forfeited => due[k] = Ahead(k)))'
      BY <1>3, <2>1 DEF doneVars, Count
    <2> QED
      BY <2>2, <2>3
  <1>6. CASE Suppress
    <2>1. PICK k \in DOMAIN seen : seen' = Repeated(k) /\ due' = [due EXCEPT ![k] = @ + 1]
      BY <1>6 DEF Suppress
    <2>2. /\ worker = "deliver" /\ worker' = "settle" /\ key' = NoOne /\ carry' = 0
          /\ forfeited' = forfeited /\ key = NoOne /\ carry = 0
      BY <1>1, <1>6 DEF Suppress, EndDelivery, WindowOK
    <2>3. /\ DOMAIN seen' = DOMAIN seen
          /\ \A j \in DOMAIN seen : seen'[j] = IF j = k THEN seen[k] + 1 ELSE seen[j]
      BY <2>1 DEF Repeated, Remember, Count
    <2>4. WindowOK'
      BY <1>1, <2>1, <2>2, <2>3 DEF WindowOK
    <2>5. ASSUME NEW j \in Keys
          PROVE  (due[j] >= Ahead(j) /\ (j \notin forfeited => due[j] = Ahead(j)))'
      <3>1. Ahead(j) = Count(j) /\ Ahead(j)' = Count(j)'
        BY <1>2, <2>2, <2>4 DEF WindowOK, Count
      <3>2. k \in Keys /\ due \in [Keys -> Int]
        BY <1>1 DEF WindowOK
      <3>3. CASE j = k
        <4>1. Count(j)' = Count(j) + 1 /\ due'[j] = due[j] + 1
          BY <2>1, <2>3, <3>2, <3>3 DEF Count
        <4> QED
          BY <1>2, <1>3, <2>2, <3>1, <4>1
      <3>4. CASE j # k
        <4>1. Count(j)' = Count(j) /\ due'[j] = due[j]
          BY <2>1, <2>3, <3>2, <3>4 DEF Count
        <4> QED
          BY <1>2, <1>3, <2>2, <3>1, <4>1
      <3> QED
        BY <3>3, <3>4
    <2> QED
      BY <2>4, <2>5
  <1>7. CASE Admit
    <2>0. PICK k \in Keys : \E expired \in SUBSET (DOMAIN Remember(k, 0) \ {k}) :
            /\ key' = k /\ carry' = Count(k)
            /\ seen' = [j \in DOMAIN Remember(k, 0) \ expired |-> Remember(k, 0)[j]]
            /\ Forfeit(expired)
      BY <1>7, Zenon DEF Admit
    <2>1. PICK expired \in SUBSET (DOMAIN Remember(k, 0) \ {k}) :
            /\ key' = k /\ carry' = Count(k)
            /\ seen' = [j \in DOMAIN Remember(k, 0) \ expired |-> Remember(k, 0)[j]]
            /\ Forfeit(expired)
      BY <2>0
    <2>2. worker = "deliver" /\ worker' = "send" /\ due' = due /\ key = NoOne /\ carry = 0
      BY <1>1, <1>7 DEF Admit, WindowOK
    <2>3. PICK old : old = DOMAIN seen
      OBVIOUS
    <2>4. /\ k \notin expired /\ expired \subseteq old /\ old \subseteq Keys
          /\ DOMAIN seen' = (old \cup {k}) \ expired
          /\ \A j \in (old \cup {k}) \ expired : seen'[j] = IF j = k THEN 0 ELSE seen[j]
      BY <1>1, <2>1, <2>3 DEF Remember, WindowOK
    <2>5. forfeited' = forfeited \cup {j \in expired : Count(j) > 0}
      BY <2>1 DEF Forfeit
    <2>6. WindowOK'
      <3>1. DOMAIN seen' \subseteq Keys /\ \A j \in DOMAIN seen' : seen'[j] \in Nat
        BY <1>1, <2>3, <2>4 DEF WindowOK
      <3>2. carry' \in Nat /\ key' \in Keys
        BY <1>2, <2>1
      <3> QED
        BY <1>1, <2>2, <3>1, <3>2 DEF WindowOK
    <2>7. ASSUME NEW j \in Keys
          PROVE  (due[j] >= Ahead(j) /\ (j \notin forfeited => due[j] = Ahead(j)))'
      <3>1. Ahead(j) = Count(j) /\ Extra(j)' = IF j = k THEN Count(j) ELSE 0
        BY <1>2, <2>1, <2>2
      <3>2. Count(j)' = IF j = k \/ j \in expired THEN 0 ELSE Count(j)
        BY <2>3, <2>4 DEF Count
      <3>3. CASE j \notin expired
        <4>1. (Count(j) + Extra(j))' = Count(j)
          BY <1>2, <3>1, <3>2, <3>3
        <4>2. j \notin forfeited' => j \notin forfeited
          BY <2>5
        <4> QED
          BY <1>2, <1>3, <2>2, <3>1, <4>1, <4>2
      <3>4. CASE j \in expired
        <4>1. Ahead(j)' = 0
          BY <2>4, <3>1, <3>2, <3>4
        <4>2. j \notin forfeited' => j \notin forfeited /\ Count(j) = 0
          BY <1>2, <2>5, <3>4
        <4> QED
          BY <1>2, <1>3, <2>2, <3>1, <4>1, <4>2
      <3> QED
        BY <3>3, <3>4
    <2> QED
      BY <2>6, <2>7
  <1>8. CASE Sent \/ Unsent
    <2>1. /\ worker = "send" /\ key \in Keys /\ key' = NoOne /\ carry' = 0 /\ worker' = "settle"
          /\ seen' = seen
      BY <1>1, <1>8 DEF Sent, Unsent, EndDelivery, WindowOK
    <2>2. \/ due' = [due EXCEPT ![key] = @ - carry] /\ forfeited' = forfeited
          \/ due' = due /\ forfeited' = IF carry > 0 THEN forfeited \cup {key} ELSE forfeited
      BY <1>8 DEF Sent, Unsent
    <2>3. due \in [Keys -> Int] /\ carry \in Nat
      BY <1>1 DEF WindowOK
    <2>4. due' \in [Keys -> Int]
      BY <2>1, <2>2, <2>3
    <2>5. WindowOK'
      BY <1>1, <2>1, <2>4 DEF WindowOK
    <2>6. ASSUME NEW j \in Keys
          PROVE  (due[j] >= Ahead(j) /\ (j \notin forfeited => due[j] = Ahead(j)))'
      <3>1. Count(j)' = Count(j) /\ Extra(j)' = 0
        BY <2>1 DEF Count
      <3>2. CASE due' = [due EXCEPT ![key] = @ - carry] /\ forfeited' = forfeited
        <4>1. due'[j] = due[j] - Extra(j)
          BY <1>2, <2>1, <2>3, <3>2
        <4> QED
          BY <1>2, <1>3, <3>1, <3>2, <4>1
      <3>3. CASE due' = due /\ forfeited' = IF carry > 0 THEN forfeited \cup {key} ELSE forfeited
        <4>1. j \notin forfeited' => j \notin forfeited /\ Extra(j) = 0
          BY <2>3, <3>3
        <4> QED
          BY <1>2, <1>3, <3>1, <3>3, <4>1
      <3> QED
        BY <2>2, <3>2, <3>3
    <2> QED
      BY <2>5, <2>6
  <1> QED
    BY <1>5, <1>6, <1>7, <1>8, Zenon DEF Deliver

-----------------------------------------------------------------------------
(* What was queued                                                         *)

\* A message that is queued last is the last to come.
LEMMA KeepsAppend ==
  ASSUME NEW s \in Seq(Nat), NEW all \in Seq(Nat), NEW x, NEW m \in Nat,
         Keeps(s, all, x), m \notin Range(all) \cup x
  PROVE  Keeps(Append(s, m), Append(all, m), x)
  <1>1. PICK s1, all1 : s1 = Append(s, m) /\ all1 = Append(all, m)
    OBVIOUS
  <1>2. /\ IsInjective(s) /\ IsInjective(all) /\ Range(s) = Range(all) \ x
        /\ \A i, j \in DOMAIN s : i < j => Before(all, s[i], s[j])
    BY DEF Keeps
  <1>3. /\ s1 \in Seq(Nat) /\ Len(s1) = Len(s) + 1 /\ s1[Len(s) + 1] = m
        /\ \A i \in 1..Len(s) : s1[i] = s[i]
    BY <1>1, AppendProperties
  <1>4. /\ all1 \in Seq(Nat) /\ Len(all1) = Len(all) + 1 /\ all1[Len(all) + 1] = m
        /\ \A i \in 1..Len(all) : all1[i] = all[i]
    BY <1>1, AppendProperties
  <1>5. Len(s) \in Nat /\ Len(all) \in Nat /\ DOMAIN s = 1..Len(s) /\ DOMAIN all = 1..Len(all)
        /\ DOMAIN s1 = 1..Len(s1) /\ DOMAIN all1 = 1..Len(all1)
    BY <1>3, <1>4
  <1>6. Range(s1) = Range(s) \cup {m} /\ Range(all1) = Range(all) \cup {m}
    BY <1>1, RangeAppend
  <1>7. /\ <<m>> \in Seq(Nat) /\ Range(<<m>>) = {m} /\ IsInjective(<<m>>)
    BY RangeOne DEF IsInjective
  <1>8. IsInjective(s1) /\ IsInjective(all1)
    <2>1. s1 = s \o <<m>> /\ all1 = all \o <<m>>
      BY <1>1, AppendIsConcat
    <2>2. Range(s) \cap Range(<<m>>) = {} /\ Range(all) \cap Range(<<m>>) = {}
      BY <1>2, <1>7
    <2>3. IsInjective(s \o <<m>>)
      BY <1>2, <1>7, <2>2, InjectiveConcat
    <2>4. IsInjective(all \o <<m>>)
      BY <1>2, <1>7, <2>2, InjectiveConcat
    <2> QED
      BY <2>1, <2>3, <2>4
  <1>9. Range(s1) = Range(all1) \ x
    BY <1>2, <1>6
  <1>10. ASSUME NEW i \in DOMAIN s1, NEW j \in DOMAIN s1, i < j
         PROVE  Before(all1, s1[i], s1[j])
    <2>1. i \in DOMAIN s /\ s1[i] = s[i]
      BY <1>3, <1>5, <1>10
    <2>2. CASE j \in DOMAIN s
      <3>1. s1[j] = s[j]
        BY <1>3, <1>5, <2>2
      <3>2. PICK a, b \in DOMAIN all : a < b /\ all[a] = s[i] /\ all[b] = s[j]
        BY <1>2, <1>10, <2>1, <2>2 DEF Before
      <3>4. ASSUME NEW c \in DOMAIN all PROVE c \in DOMAIN all1 /\ all1[c] = all[c]
        <4>1. c \in 1..Len(all)
          BY <1>5
        <4>2. c \in 1..Len(all1)
          BY <1>4, <1>5, <4>1
        <4> QED
          BY <1>4, <1>5, <4>1, <4>2, Zenon
      <3>3. a \in DOMAIN all1 /\ b \in DOMAIN all1 /\ all1[a] = s1[i] /\ all1[b] = s1[j]
        BY <2>1, <3>1, <3>2, <3>4, Zenon
      <3> QED
        BY <3>2, <3>3, Zenon DEF Before
    <2>3. CASE j \notin DOMAIN s
      <3>1. j = Len(s) + 1 /\ s1[j] = m
        BY <1>3, <1>5, <2>3
      <3>2. s[i] \in Range(all)
        BY <1>2, <2>1, Zenon DEF Range
      <3>3. PICK a \in DOMAIN all : all[a] = s[i]
        BY <3>2, Zenon DEF Range
      <3>4. PICK b : b = Len(all) + 1
        OBVIOUS
      <3>5. a \in DOMAIN all1 /\ b \in DOMAIN all1 /\ a < b /\ all1[a] = s1[i] /\ all1[b] = s1[j]
        BY <1>4, <1>5, <2>1, <3>1, <3>3, <3>4
      <3> QED
        BY <3>5, Zenon DEF Before
    <2> QED
      BY <2>2, <2>3
  <1>11. Keeps(s1, all1, x)
    BY <1>8, <1>9, <1>10, Zenon DEF Keeps
  <1> QED
    BY <1>1, <1>11, Zenon

\* Of messages a, those of the queue s come next; the first of them is dropped.
LEMMA KeepsDrop ==
  ASSUME NEW a \in Seq(Nat), NEW s \in Seq(Nat), s # <<>>, NEW all, NEW x,
         Keeps(a \o s, all, x)
  PROVE  /\ Keeps(a \o Tail(s), all, x \cup {Head(s)}) /\ Head(s) \in Range(all)
  <1>1. PICK c, e : c = a \o s /\ e = a \o Tail(s)
    OBVIOUS
  <1>2. PICK u : u = Tail(s)
    OBVIOUS
  <1>3. PICK n \in Nat : n = Len(a)
    OBVIOUS
  <1>4. /\ u \in Seq(Nat) /\ Len(u) = Len(s) - 1 /\ Len(s) \in Nat \ {0} /\ Head(s) = s[1]
        /\ \A i \in 1..Len(u) : u[i] = s[i + 1]
    BY <1>2, HeadTailProperties
  <1>41. PICK k \in Nat : k = Len(u) /\ Len(s) = k + 1
    BY <1>4
  <1>5. /\ DOMAIN c = 1..(n + (k + 1))
        /\ \A i \in 1..(n + (k + 1)) : c[i] = IF i <= n THEN a[i] ELSE s[i - n]
    <2>1. /\ c \in Seq(Nat) /\ Len(c) = Len(a) + Len(s)
          /\ \A i \in 1..(Len(a) + Len(s)) : c[i] = IF i <= Len(a) THEN a[i] ELSE s[i - Len(a)]
      BY <1>1, ConcatProperties
    <2>2. Len(a) + Len(s) = n + (k + 1)
      BY <1>3, <1>41
    <2>3. DOMAIN c = 1..(n + (k + 1))
      BY <2>1, <2>2
    <2> QED
      BY <1>3, <2>1, <2>2, <2>3, Zenon
  <1>6. /\ DOMAIN e = 1..(n + k)
        /\ \A i \in 1..(n + k) : e[i] = IF i <= n THEN a[i] ELSE u[i - n]
    BY <1>1, <1>2, <1>3, <1>4, <1>41, ConcatProperties
  <1>7. /\ IsInjective(c) /\ IsInjective(all) /\ Range(c) = Range(all) \ x
        /\ \A i, j \in DOMAIN c : i < j => Before(all, c[i], c[j])
    BY <1>1, Zenon DEF Keeps
  <1> DEFINE f(i) == IF i <= n THEN i ELSE i + 1
  <1>8. \A i \in DOMAIN e : f(i) \in DOMAIN c /\ f(i) # n + 1 /\ e[i] = c[f(i)]
    <2>1. ASSUME NEW i \in DOMAIN e PROVE f(i) \in DOMAIN c /\ f(i) # n + 1 /\ e[i] = c[f(i)]
      <3>1. CASE i <= n
        BY <1>4, <1>5, <1>6, <3>1
      <3>2. CASE i > n
        <4>0. i \in 1..(n + k)
          BY <1>6
        <4>1. f(i) = i + 1 /\ i - n \in 1..k /\ (i - n) + 1 = (i + 1) - n
          BY <3>2, <4>0
        <4>2. i + 1 \in 1..(n + (k + 1)) /\ ~(i + 1 <= n) /\ i + 1 # n + 1 /\ ~(i <= n)
          BY <3>2, <4>0
        <4>3. e[i] = u[i - n] /\ c[i + 1] = s[(i + 1) - n]
          BY <1>5, <1>6, <4>0, <4>2
        <4>4. u[i - n] = s[(i - n) + 1]
          BY <1>4, <1>41, <4>1
        <4> QED
          BY <1>5, <4>1, <4>2, <4>3, <4>4
      <3> QED
        BY <1>6, <3>1, <3>2
    <2> QED
      BY <2>1
  <1>9. n + 1 \in DOMAIN c /\ c[n + 1] = Head(s)
    BY <1>4, <1>5
  <1>10. \A j \in DOMAIN c : j # n + 1 => \E i \in DOMAIN e : f(i) = j
    <2>1. ASSUME NEW j \in DOMAIN c, j # n + 1 PROVE \E i \in DOMAIN e : f(i) = j
      <3>1. CASE j <= n
        <4>1. j \in DOMAIN e /\ f(j) = j
          BY <1>4, <1>5, <1>6, <3>1
        <4> QED
          BY <4>1
      <3>2. CASE j > n
        <4>1. j \in 1..(n + (k + 1))
          BY <1>5
        <4>2. j - 1 \in 1..(n + k) /\ f(j - 1) = j
          BY <2>1, <3>2, <4>1
        <4> QED
          BY <1>6, <4>2
      <3> QED
        BY <1>5, <3>1, <3>2
    <2> QED
      BY <2>1
  <1>11. \A i, j \in DOMAIN e : i < j => f(i) < f(j)
    BY <1>4, <1>6
  <1>12. \A i, j \in DOMAIN e : i < j \/ j < i \/ i = j
    BY <1>4, <1>6
  <1>13. \A i, j \in DOMAIN c : i < j => i # j
    BY <1>4, <1>5
  <1> HIDE DEF f
  <1>14. IsInjective(e)
    <2>1. ASSUME NEW i \in DOMAIN e, NEW j \in DOMAIN e, i < j PROVE e[i] # e[j]
      BY <1>7, <1>8, <1>11, <1>13, <2>1 DEF IsInjective
    <2> QED
      BY <1>12, <2>1 DEF IsInjective
  <1>15. Range(e) = Range(c) \ {Head(s)}
    <2>1. ASSUME NEW y \in Range(e) PROVE y \in Range(c) /\ y # Head(s)
      <3>1. PICK i \in DOMAIN e : e[i] = y
        BY Zenon DEF Range
      <3>2. f(i) \in DOMAIN c /\ y = c[f(i)] /\ y # c[n + 1]
        BY <1>7, <1>8, <1>9, <3>1, Zenon DEF IsInjective
      <3> QED
        BY <1>9, <3>2, Zenon DEF Range
    <2>2. ASSUME NEW y \in Range(c), y # Head(s) PROVE y \in Range(e)
      <3>1. PICK j \in DOMAIN c : c[j] = y
        BY Zenon DEF Range
      <3>2. PICK i \in DOMAIN e : f(i) = j
        BY <1>9, <1>10, <2>2, <3>1
      <3>3. e[i] = y
        BY <1>8, <3>1, <3>2
      <3> QED
        BY <3>3, Zenon DEF Range
    <2> QED
      BY <2>1, <2>2
  <1>16. \A i, j \in DOMAIN e : i < j => Before(all, e[i], e[j])
    BY <1>7, <1>8, <1>11
  <1>17. Range(e) = Range(all) \ (x \cup {Head(s)})
    BY <1>7, <1>15
  <1>18. Head(s) \in Range(all)
    <2>1. Head(s) \in Range(c)
      BY <1>9, Zenon DEF Range
    <2> QED
      BY <1>7, <2>1
  <1> QED
    BY <1>1, <1>7, <1>14, <1>16, <1>17, <1>18, Zenon DEF Keeps

\* A thread has a message of its own until it is queued or given up.
Sending(label) == label \in {"start", "push", "room", "full"}

\* Every message that is queued, was delivered or was given up had its number
\* before; a message on its way to the queue is none of them, and of one thread.
ThreadsOK ==
    /\ \A t \in Callers : Sending(pc[t]) =>
         mine[t] < next /\ mine[t] \notin Range(queued) /\ mine[t] \notin dropped
    /\ \A t, u \in Callers :
         Sending(pc[t]) /\ Sending(pc[u]) /\ mine[t] = mine[u] => t = u
    /\ \A m \in Range(queued) \cup dropped : m \in Nat /\ m < next
    /\ \A t \in Callers : mark[t] <= Len(queued)

OrderInv == LaneTypeOK /\ WorkerOK /\ ThreadsOK /\ DeliveredInOrder

\* The five kinds of a thread's step.
Numbers(t) ==
    /\ pc[t] = "idle" /\ Goto(t, "start")
    /\ mine' = [mine EXCEPT ![t] = next] /\ next' = next + 1
    /\ UNCHANGED <<mark, queue, queued, dropped>>
Queues(t) ==
    /\ Sending(pc[t]) /\ HasRoom /\ Enqueue(t, queue)
    /\ UNCHANGED <<mine, mark, next, dropped>>
Replaces(t) ==
    /\ Sending(pc[t]) /\ ~HasRoom /\ full = "drop_oldest" /\ Enqueue(t, Tail(queue))
    /\ dropped' = dropped \cup {Head(queue)}
    /\ UNCHANGED <<mine, mark, next>>
GivesUp(t) ==
    /\ Sending(pc[t]) /\ full = "drop_new" /\ Goto(t, "idle")
    /\ dropped' = dropped \cup {mine[t]}
    /\ UNCHANGED <<mine, mark, next, queue, queued>>
Moves(t) ==
    /\ \E l \in Labels : Goto(t, l) /\ (Sending(l) => Sending(pc[t]))
    /\ mark' = mark \/ mark' = [mark EXCEPT ![t] = Len(queued)]
    /\ UNCHANGED <<mine, next, queue, queued, dropped>>

LEMMA ThreadKinds ==
  ASSUME NEW t \in Callers, Send(t) \/ Begin(t) \/ ThreadStep(t)
  PROVE  Numbers(t) \/ Queues(t) \/ Replaces(t) \/ GivesUp(t) \/ Moves(t)
  <1> USE DEF messageVars, Sending
  <1>0. \A l \in Labels : (Goto(t, l) /\ (Sending(l) => Sending(pc[t]))
                           /\ UNCHANGED <<mine, mark, next, queue, queued, dropped>>) => Moves(t)
    BY Zenon DEF Moves
  <1>00. "idle" \in Labels /\ "push" \in Labels /\ "room" \in Labels /\ "full" \in Labels
         /\ "flush" \in Labels /\ "close" \in Labels
         /\ "flushing" \in Labels /\ "closing" \in Labels /\ "stop" \in Labels
         /\ "wake" \in Labels /\ "join" \in Labels /\ "joining" \in Labels
    BY DEF Labels
  <1>1. CASE Send(t)
    BY <1>1, Zenon DEF Send, Numbers
  <1>2. CASE Begin(t)
    <2>1. PICK l \in {"flush", "close"} : Goto(t, l)
      BY <1>2, Zenon DEF Begin
    <2>2. l \in Labels /\ ~Sending(l)
      BY <1>00, <2>1
    <2>3. mark' = [mark EXCEPT ![t] = Len(queued)] /\ UNCHANGED <<mine, next, queue, queued, dropped>>
      BY <1>2, Zenon DEF Begin
    <2> QED
      BY <2>1, <2>2, <2>3, Zenon DEF Moves
  <1>3. CASE Push(t) \/ PushLate(t)
    BY <1>3 DEF Push, PushLate, Queues
  <1>4. CASE DropOldest(t)
    BY <1>4 DEF DropOldest, Replaces
  <1>5. CASE DropNew(t)
    BY <1>5 DEF DropNew, GivesUp
  <1>6. CASE Start(t) \/ Block(t) \/ AwaitRoom(t)
    <2>1. PICK l \in {"push", "room", "full"} : Goto(t, l) /\ Sending(pc[t])
      BY <1>6 DEF Start, Block, AwaitRoom
    <2>2. UNCHANGED <<mine, mark, next, queue, queued, dropped>>
      BY <1>6, Zenon DEF Start, Block, AwaitRoom
    <2> QED
      BY <1>0, <1>00, <2>1, <2>2
  <1>7. CASE Flushed(t) \/ GiveUpFlush(t) \/ AwaitQueue(t) \/ Stop(t) \/ Wake(t) \/ Join(t) \/ GiveUpJoin(t)
    <2>1. PICK l \in Labels : Goto(t, l) /\ ~Sending(l)
      <3>1. CASE Flushed(t) \/ GiveUpFlush(t)
        BY <1>00, <3>1 DEF Flushed, GiveUpFlush, AfterFlush
      <3>2. CASE AwaitQueue(t)
        BY <1>00, <3>2 DEF AwaitQueue
      <3>3. CASE Stop(t) \/ Wake(t)
        BY <1>00, <3>3 DEF Stop, Wake
      <3>4. CASE Join(t) \/ GiveUpJoin(t)
        BY <1>00, <3>4 DEF Join, GiveUpJoin
      <3> QED
        BY <1>7, <3>1, <3>2, <3>3, <3>4
    <2>2. UNCHANGED <<mine, mark, next, queue, queued, dropped>>
      BY <1>7, Zenon DEF Flushed, GiveUpFlush, AwaitQueue, Stop, Wake, Join, GiveUpJoin
    <2> QED
      BY <1>0, <2>1, <2>2, Zenon
  <1> QED
    BY <1>1, <1>2, <1>3, <1>4, <1>5, <1>6, <1>7, Zenon DEF ThreadStep

LEMMA Underways ==
  ASSUME LaneTypeOK, WorkerOK
  PROVE  Underway \in Seq(Nat) /\ handled \o Underway \in Seq(Nat)
  <1>1. Underway \in Seq(Nat)
    BY DEF Underway, LaneTypeOK, WorkerOK
  <1>2. handled \in Seq(Nat)
    BY DEF LaneTypeOK
  <1> QED
    BY <1>1, <1>2

LEMMA ThreadTypeStep ==
  ASSUME LaneTypeOK, WorkerOK, [LaneNext]_laneVars,
         NEW t \in Callers, Send(t) \/ Begin(t) \/ ThreadStep(t)
  PROVE  LaneTypeOK' /\ (t \in Callers /\ Underway' = Underway /\ UNCHANGED <<full, handled>>)
  <1>1. Numbers(t) \/ Queues(t) \/ Replaces(t) \/ GivesUp(t) \/ Moves(t)
    BY ThreadKinds
  <1>2. worker' \in Places /\ inflight' \in Nat \cup {NoOne}
    BY WorkerStep1
  <1>3. /\ UNCHANGED <<full, inflight, handled>>
        /\ worker' = worker \/ worker' = Woken \/ (worker = "none" /\ worker' = "look")
    BY ThreadTypes DEF doneVars
  <1>4. Underway' = Underway
    <2>1. worker' \in {"deliver", "send"} <=> worker \in {"deliver", "send"}
      BY <1>3, WokenIs DEF LaneTypeOK
    <2> QED
      BY <1>3, <2>1 DEF Underway
  <1>5. full' \in Policies /\ handled' \in Seq(Nat)
    BY <1>3 DEF LaneTypeOK
  <1>6. pc' \in [Callers -> Labels]
    <2>1. PICK l \in Labels : Goto(t, l)
      BY <1>1 DEF Numbers, Queues, Replaces, GivesUp, Moves, Enqueue, Labels
    <2> QED
      BY <2>1, GotoIs
  <1>7. mine' \in [Callers -> Nat] /\ mark' \in [Callers -> Nat] /\ next' \in Nat
    <2>1. mine' = mine \/ mine' = [mine EXCEPT ![t] = next]
      BY <1>1 DEF Numbers, Queues, Replaces, GivesUp, Moves
    <2>2. mark' = mark \/ mark' = [mark EXCEPT ![t] = Len(queued)]
      BY <1>1 DEF Numbers, Queues, Replaces, GivesUp, Moves
    <2>3. next' = next \/ next' = next + 1
      BY <1>1 DEF Numbers, Queues, Replaces, GivesUp, Moves
    <2>4. Len(queued) \in Nat
      BY DEF LaneTypeOK
    <2>5. mine \in [Callers -> Nat] /\ mark \in [Callers -> Nat] /\ next \in Nat
      BY DEF LaneTypeOK
    <2>6. mine' \in [Callers -> Nat]
      BY <2>1, <2>5
    <2>7. mark' \in [Callers -> Nat]
      BY <2>2, <2>4, <2>5
    <2> QED
      BY <2>3, <2>5, <2>6, <2>7
  <1>8. queue' \in Seq(Nat) /\ queued' \in Seq(Nat) /\ dropped' \in SUBSET Nat
    <2>1. mine[t] \in Nat /\ queue \in Seq(Nat) /\ queued \in Seq(Nat) /\ dropped \in SUBSET Nat
      BY DEF LaneTypeOK
    <2>2. CASE Numbers(t) \/ GivesUp(t) \/ Moves(t)
      BY <2>1, <2>2 DEF Numbers, GivesUp, Moves
    <2>3. CASE Queues(t)
      BY <2>1, <2>3 DEF Queues, Enqueue
    <2>4. CASE Replaces(t)
      <3>1. queue # <<>>
        BY <2>4, LaneAssumption DEF Replaces, HasRoom
      <3>2. Head(queue) \in Nat /\ Tail(queue) \in Seq(Nat)
        BY <2>1, <3>1, HeadTailProperties
      <3>3. /\ queue' = Append(Tail(queue), mine[t]) /\ queued' = Append(queued, mine[t])
            /\ dropped' = dropped \cup {Head(queue)}
        BY <2>4 DEF Replaces, Enqueue
      <3>4. queue' \in Seq(Nat) /\ queued' \in Seq(Nat)
        BY <2>1, <3>2, <3>3, AppendProperties
      <3> QED
        BY <2>1, <3>2, <3>3, <3>4
    <2> QED
      BY <1>1, <2>2, <2>3, <2>4
  <1> QED
    BY <1>2, <1>3, <1>4, <1>5, <1>6, <1>7, <1>8, Zenon DEF LaneTypeOK

LEMMA ConcatInOrder ==
  ASSUME NEW a \in Seq(Nat), NEW b \in Seq(Nat), NEW c \in Seq(Nat)
  PROVE  (a \o b) \o c = a \o (b \o c)
  BY ConcatAssociative

LEMMA AppendBehind ==
  ASSUME NEW a \in Seq(Nat), NEW b \in Seq(Nat), NEW m \in Nat
  PROVE  Append(a \o b, m) = a \o Append(b, m)
  <1>1. a \o b \in Seq(Nat)
    OBVIOUS
  <1>0. <<m>> \in Seq(Nat)
    OBVIOUS
  <1>2. PICK o : o = <<m>> /\ o \in Seq(Nat)
    BY <1>0
  <1>3. Append(a \o b, m) = (a \o b) \o o
    BY <1>1, <1>2, AppendIsConcat
  <1>4. Append(b, m) = b \o o
    BY <1>2, AppendIsConcat
  <1>5. (a \o b) \o o = a \o (b \o o)
    BY <1>2, ConcatInOrder
  <1> QED
    BY <1>3, <1>4, <1>5, Zenon

\* A step that queues a message: behind `ahead', which leaves the rest in order.
LEMMA QueuedInOrder ==
  ASSUME OrderInv, NEW t \in Callers, Sending(pc[t]), Enqueue(t, queue) \/ Enqueue(t, Tail(queue)),
         NEW ahead \in Seq(Nat), NEW gone, queue' = Append(ahead, mine[t]), queued' = Append(queued, mine[t]),
         Keeps(handled \o Underway \o ahead, queued, gone), mine[t] \notin gone,
         Underway' = Underway, handled' = handled, dropped' = gone
  PROVE  Keeps((handled \o Underway \o queue)', queued', dropped')
  <1>1. PICK a : a = handled \o Underway
    OBVIOUS
  <1>2. a \in Seq(Nat)
    BY <1>1, Underways DEF OrderInv
  <1>3. PICK m : m = mine[t]
    OBVIOUS
  <1>4. m \in Nat /\ queued \in Seq(Nat) /\ m \notin Range(queued)
    BY <1>3 DEF OrderInv, LaneTypeOK, ThreadsOK
  <1>5. a \o ahead \in Seq(Nat)
    BY <1>2
  <1>6. Keeps(Append(a \o ahead, m), Append(queued, m), gone)
    <2>1. Keeps(a \o ahead, queued, gone) /\ m \notin Range(queued) \cup gone
      BY <1>1, <1>3, <1>4
    <2> QED
      BY <1>4, <1>5, <2>1, KeepsAppend
  <1>7. Append(a \o ahead, m) = a \o Append(ahead, m)
    BY <1>2, <1>4, AppendBehind
  <1>8. (handled \o Underway \o queue)' = a \o Append(ahead, m)
    BY <1>1, <1>3
  <1> QED
    BY <1>3, <1>6, <1>7, <1>8, Zenon

LEMMA DroppedInOrder ==
  ASSUME OrderInv, queue # <<>>
  PROVE  /\ Keeps(handled \o Underway \o Tail(queue), queued, dropped \cup {Head(queue)})
         /\ Head(queue) \in Range(queued)
  <1>1. PICK a : a = handled \o Underway
    OBVIOUS
  <1>2. a \in Seq(Nat) /\ queue \in Seq(Nat)
    BY <1>1, Underways DEF OrderInv, LaneTypeOK
  <1>3. Keeps(a \o queue, queued, dropped)
    BY <1>1, Zenon DEF OrderInv, DeliveredInOrder
  <1>4. Keeps(a \o Tail(queue), queued, dropped \cup {Head(queue)}) /\ Head(queue) \in Range(queued)
    BY <1>2, <1>3, KeepsDrop
  <1> QED
    BY <1>1, <1>4, Zenon

LEMMA ThreadOrder ==
  ASSUME OrderInv, [LaneNext]_laneVars, NEW t \in Callers, Send(t) \/ Begin(t) \/ ThreadStep(t)
  PROVE  DeliveredInOrder'
  <1>1. Numbers(t) \/ Queues(t) \/ Replaces(t) \/ GivesUp(t) \/ Moves(t)
    BY ThreadKinds
  <1>2. LaneTypeOK /\ WorkerOK /\ ThreadsOK /\ DeliveredInOrder
    BY DEF OrderInv
  <1>3. Underway' = Underway /\ full' = full /\ handled' = handled
    BY <1>2, ThreadTypeStep
  <1>4. /\ Keeps(handled \o Underway \o queue, queued, dropped)
        /\ Len(queue) <= QueueSize /\ (full = "block" => dropped = {})
    BY <1>2, Zenon DEF DeliveredInOrder
  <1>5. queue \in Seq(Nat) /\ queued \in Seq(Nat) /\ mine[t] \in Nat /\ dropped \in SUBSET Nat
    BY <1>2 DEF LaneTypeOK
  <1>6. Sending(pc[t]) => mine[t] \notin Range(queued) /\ mine[t] \notin dropped
    BY <1>2 DEF ThreadsOK
  <1>7. CASE Numbers(t) \/ Moves(t)
    <2>1. UNCHANGED <<queue, queued, dropped>>
      BY <1>7, Zenon DEF Numbers, Moves
    <2> QED
      BY <1>3, <1>4, <2>1 DEF DeliveredInOrder
  <1>8. CASE GivesUp(t)
    <2>1. /\ UNCHANGED <<queue, queued>> /\ dropped' = dropped \cup {mine[t]}
          /\ Sending(pc[t]) /\ full = "drop_new"
      BY <1>8, Zenon DEF GivesUp
    <2>2. Range(queued) \ dropped = Range(queued) \ dropped'
      BY <1>6, <2>1
    <2>3. Keeps(handled \o Underway \o queue, queued, dropped')
      BY <1>4, <2>2, Zenon DEF Keeps
    <2> QED
      BY <1>3, <1>4, <2>1, <2>3 DEF DeliveredInOrder
  <1>9. CASE Queues(t)
    <2>1. /\ Sending(pc[t]) /\ HasRoom /\ Enqueue(t, queue) /\ dropped' = dropped
      BY <1>9, Zenon DEF Queues
    <2>2. queue' = Append(queue, mine[t]) /\ queued' = Append(queued, mine[t])
      BY <2>1, Zenon DEF Enqueue
    <2>3. Keeps((handled \o Underway \o queue)', queued', dropped')
      BY <1>3, <1>4, <1>5, <1>6, <2>1, <2>2, QueuedInOrder
    <2>4. Len(queue') <= QueueSize
      <3>1. Len(queue') = Len(queue) + 1 /\ Len(queue) \in Nat
        BY <1>5, <2>2, AppendProperties
      <3> QED
        BY <2>1, <3>1, LaneAssumption DEF HasRoom
    <2> QED
      BY <1>3, <1>4, <2>1, <2>3, <2>4, Zenon DEF DeliveredInOrder
  <1>10. CASE Replaces(t)
    <2>1. /\ Sending(pc[t]) /\ ~HasRoom /\ full = "drop_oldest" /\ Enqueue(t, Tail(queue))
          /\ dropped' = dropped \cup {Head(queue)}
      BY <1>10, Zenon DEF Replaces
    <2>2. queue' = Append(Tail(queue), mine[t]) /\ queued' = Append(queued, mine[t])
      BY <2>1, Zenon DEF Enqueue
    <2>3. queue # <<>>
      BY <2>1, LaneAssumption DEF HasRoom
    <2>4. Tail(queue) \in Seq(Nat) /\ Len(Tail(queue)) = Len(queue) - 1 /\ Len(queue) \in Nat
      BY <1>5, <2>3, HeadTailProperties
    <2>5. Keeps(handled \o Underway \o Tail(queue), queued, dropped \cup {Head(queue)})
          /\ Head(queue) \in Range(queued)
      BY <2>3, DroppedInOrder
    <2>6. mine[t] \notin dropped \cup {Head(queue)}
      BY <1>6, <2>1, <2>5
    <2>7. Keeps((handled \o Underway \o queue)', queued', dropped')
      <3>1. PICK ahead, gone : ahead = Tail(queue) /\ gone = dropped \cup {Head(queue)}
        OBVIOUS
      <3>2. ahead \in Seq(Nat) /\ queue' = Append(ahead, mine[t]) /\ dropped' = gone
            /\ mine[t] \notin gone
        BY <2>1, <2>2, <2>4, <2>6, <3>1, Zenon
      <3>3. Keeps(handled \o Underway \o ahead, queued, gone)
        BY <2>5, <3>1, Zenon
      <3> QED
        BY <1>3, <2>1, <2>2, <3>2, <3>3, QueuedInOrder
    <2>8. Len(queue') <= QueueSize
      <3>1. Len(queue') = Len(Tail(queue)) + 1
        BY <1>5, <2>2, <2>4, AppendProperties
      <3> QED
        BY <1>4, <2>4, <3>1
    <2> QED
      BY <1>3, <2>1, <2>7, <2>8, Zenon DEF DeliveredInOrder
  <1> QED
    BY <1>1, <1>7, <1>8, <1>9, <1>10

LEMMA ThreadThreads ==
  ASSUME OrderInv, NEW t \in Callers, Send(t) \/ Begin(t) \/ ThreadStep(t)
  PROVE  ThreadsOK'
  <1>1. Numbers(t) \/ Queues(t) \/ Replaces(t) \/ GivesUp(t) \/ Moves(t)
    BY ThreadKinds
  <1>2. LaneTypeOK /\ WorkerOK /\ ThreadsOK /\ DeliveredInOrder
    BY DEF OrderInv
  <1>3. /\ \A u \in Callers : Sending(pc[u]) =>
             mine[u] < next /\ mine[u] \notin Range(queued) /\ mine[u] \notin dropped
        /\ \A u, v \in Callers :
             Sending(pc[u]) /\ Sending(pc[v]) /\ mine[u] = mine[v] => u = v
        /\ \A m \in Range(queued) \cup dropped : m \in Nat /\ m < next
        /\ \A u \in Callers : mark[u] <= Len(queued)
    BY <1>2, Zenon DEF ThreadsOK
  <1>4. /\ next \in Nat /\ queued \in Seq(Nat) /\ Len(queued) \in Nat
        /\ \A u \in Callers : mine[u] \in Nat /\ mark[u] \in Nat
        /\ mine \in [Callers -> Nat] /\ mark \in [Callers -> Nat] /\ mine[t] \in Nat
    BY <1>2 DEF LaneTypeOK
  <1>5. \A l \in Labels : Goto(t, l) => pc'[t] = l /\ \A u \in Callers \ {t} : pc'[u] = pc[u]
    BY <1>2, GotoIs
  <1>6. "start" \in Labels /\ "idle" \in Labels /\ Sending("start") /\ ~Sending("idle")
    BY DEF Labels, Sending
  <1> HIDE DEF Sending
  <1>7. CASE Numbers(t)
    <2>1. Goto(t, "start") /\ mine' = [mine EXCEPT ![t] = next] /\ next' = next + 1
          /\ UNCHANGED <<mark, queued, dropped>>
      BY <1>7, Zenon DEF Numbers
    <2>2. mine'[t] = next /\ (\A u \in Callers \ {t} : mine'[u] = mine[u] /\ pc'[u] = pc[u])
      BY <1>4, <1>5, <1>6, <2>1
    <2>3. \A m \in Range(queued)' \cup dropped' : m \in Nat /\ m < next'
      BY <1>3, <1>4, <2>1
    <2>4. \A u \in Callers : Sending(pc'[u]) =>
             mine'[u] < next' /\ mine'[u] \notin Range(queued)' /\ mine'[u] \notin dropped'
      BY <1>3, <1>4, <2>1, <2>2
    <2>5. \A u \in Callers \ {t} : Sending(pc'[u]) => mine'[u] # next
      BY <1>3, <1>4, <2>2
    <2>6. \A u, v \in Callers :
             Sending(pc'[u]) /\ Sending(pc'[v]) /\ mine'[u] = mine'[v] => u = v
      BY <1>3, <2>2, <2>5
    <2> QED
      BY <1>3, <2>1, <2>3, <2>4, <2>6 DEF ThreadsOK
  <1>8. CASE Moves(t)
    <2>1. PICK l \in Labels : Goto(t, l) /\ (Sending(l) => Sending(pc[t]))
      BY <1>8 DEF Moves
    <2>2. UNCHANGED <<mine, next, queued, dropped>>
          /\ (mark' = mark \/ mark' = [mark EXCEPT ![t] = Len(queued)])
      BY <1>8, Zenon DEF Moves
    <2>3. \A u \in Callers : Sending(pc'[u]) => Sending(pc[u])
      BY <1>5, <2>1
    <2>4. \A u \in Callers : mark'[u] <= Len(queued)
      <3>1. PICK n \in Nat : n = Len(queued)
        BY <1>4
      <3>2. \A u \in Callers : mark[u] <= n
        BY <1>3, <3>1
      <3>3. mark' = mark \/ mark' = [mark EXCEPT ![t] = n]
        BY <2>2, <3>1
      <3>4. mark \in [Callers -> Nat]
        BY <1>4
      <3>5. \A u \in Callers : mark'[u] = mark[u] \/ mark'[u] = n
        BY <3>3, <3>4
      <3>6. \A u \in Callers : mark'[u] <= n
        BY <3>1, <3>2, <3>5
      <3> QED
        BY <3>1, <3>6
    <2> QED
      BY <1>3, <2>2, <2>3, <2>4 DEF ThreadsOK
  <1>9. ASSUME Sending(pc[t]), Goto(t, "idle"), UNCHANGED <<mine, mark, next>>,
               Len(queued') \in Nat, Len(queued) <= Len(queued'),
               Range(queued') \cup dropped' \subseteq Range(queued) \cup dropped \cup {mine[t]}
        PROVE  ThreadsOK'
    <2>1. ~Sending(pc'[t]) /\ \A u \in Callers \ {t} : pc'[u] = pc[u]
      BY <1>5, <1>6, <1>9
    <2>4. \A m \in Range(queued') \cup dropped' : m \in Nat /\ m < next'
      BY <1>3, <1>4, <1>9
    <2>5. \A u \in Callers : Sending(pc'[u]) => u # t /\ Sending(pc[u]) /\ mine[u] # mine[t]
      BY <1>3, <1>9, <2>1
    <2>6. \A u \in Callers : Sending(pc'[u]) =>
             mine'[u] < next' /\ mine'[u] \notin Range(queued') /\ mine'[u] \notin dropped'
      BY <1>3, <1>9, <2>5
    <2>7. \A u \in Callers : mark'[u] <= Len(queued')
      <3>1. mark' = mark
        BY <1>9
      <3>2. \A u \in Callers : mark[u] \in Nat /\ mark[u] <= Len(queued)
        BY <1>3, <1>4
      <3>3. Len(queued) \in Nat /\ Len(queued') \in Nat /\ Len(queued) <= Len(queued')
        BY <1>4, <1>9
      <3> QED
        BY <3>1, <3>2, <3>3
    <2> QED
      BY <1>3, <1>9, <2>4, <2>5, <2>6, <2>7 DEF ThreadsOK
  <1>10. CASE GivesUp(t)
    <2>1. /\ Sending(pc[t]) /\ Goto(t, "idle") /\ UNCHANGED <<mine, mark, next, queued>>
          /\ dropped' = dropped \cup {mine[t]}
      BY <1>10, Zenon DEF GivesUp
    <2> QED
      BY <1>4, <1>9, <2>1
  <1>11. CASE Queues(t) \/ Replaces(t)
    <2>1. /\ Sending(pc[t]) /\ Goto(t, "idle") /\ UNCHANGED <<mine, mark, next>>
          /\ queued' = Append(queued, mine[t])
          /\ dropped' = dropped \/ (queue # <<>> /\ dropped' = dropped \cup {Head(queue)})
      BY <1>11, LaneAssumption DEF Queues, Replaces, Enqueue, HasRoom
    <2>2. dropped' = dropped \/ dropped' \subseteq dropped \cup Range(queued)
      BY <2>1, DroppedInOrder
    <2>3. Len(queued') = Len(queued) + 1
      BY <1>4, <2>1, AppendProperties
    <2>4. Range(queued') = Range(queued) \cup {mine[t]}
      BY <1>4, <2>1, RangeAppend
    <2> QED
      BY <1>4, <1>9, <2>1, <2>2, <2>3, <2>4
  <1> QED
    BY <1>1, <1>7, <1>8, <1>10, <1>11

LEMMA HeadFirst ==
  ASSUME NEW s \in Seq(Nat), s # <<>>
  PROVE  s = <<Head(s)>> \o Tail(s)
  <1>1. PICK h \in Nat, u \in Seq(Nat) : h = Head(s) /\ u = Tail(s)
    BY HeadTailProperties
  <1>2. /\ Len(u) = Len(s) - 1 /\ Len(s) \in Nat \ {0} /\ h = s[1]
        /\ \A i \in 1..Len(u) : u[i] = s[i + 1]
    BY <1>1, HeadTailProperties
  <1>3. PICK c : c = <<h>> \o u
    OBVIOUS
  <1>4. /\ <<h>> \in Seq(Nat) /\ Len(<<h>>) = 1 /\ <<h>>[1] = h
    OBVIOUS
  <1>5. /\ c \in Seq(Nat) /\ Len(c) = 1 + Len(u)
        /\ \A i \in 1..(1 + Len(u)) : c[i] = IF i <= 1 THEN <<h>>[i] ELSE u[i - 1]
    <2>1. /\ c \in Seq(Nat) /\ Len(c) = Len(<<h>>) + Len(u)
          /\ \A i \in 1..(Len(<<h>>) + Len(u)) :
               c[i] = IF i <= Len(<<h>>) THEN <<h>>[i] ELSE u[i - Len(<<h>>)]
      BY <1>3, <1>4, ConcatProperties
    <2> QED
      BY <1>4, <2>1
  <1>6. \A i \in 1..Len(s) : c[i] = s[i]
    <2>1. ASSUME NEW i \in 1..Len(s) PROVE c[i] = s[i]
      <3>1. CASE i = 1
        BY <1>2, <1>4, <1>5, <3>1
      <3>2. CASE i # 1
        <4>1. i - 1 \in 1..Len(u) /\ (i - 1) + 1 = i /\ i \in 1..(1 + Len(u)) /\ ~(i <= 1)
          BY <1>2, <3>2
        <4> QED
          BY <1>2, <1>5, <4>1
      <3> QED
        BY <3>1, <3>2
    <2> QED
      BY <2>1
  <1>7. s = c
    <2>1. Len(c) = Len(s)
      BY <1>2, <1>5
    <2> QED
      BY <1>5, <1>6, <2>1, SeqEqual
  <1> QED
    BY <1>1, <1>3, <1>7, Zenon

\* The worker's steps change neither what was queued nor what is still to come.
LEMMA WorkerOrder ==
  ASSUME OrderInv, WorkerStep
  PROVE  /\ (handled \o Underway \o queue)' = handled \o Underway \o queue
         /\ handled' \in Seq(Nat) /\ queue' \in Seq(Nat) /\ Len(queue') <= Len(queue)
         /\ UNCHANGED <<full, mine, mark, next, queued, dropped>>
         /\ UNCHANGED pc \/ NotifyDone
  <1>1. LaneTypeOK /\ WorkerOK
    BY DEF OrderInv
  <1>2. queue \in Seq(Nat) /\ handled \in Seq(Nat) /\ Len(queue) \in Nat
    BY <1>1 DEF LaneTypeOK
  <1>3. worker \in {"deliver", "send", "settle"} => inflight \in Nat
    BY <1>1 DEF LaneTypeOK, WorkerOK
  <1>4. CASE Admit
    <2>1. /\ UNCHANGED <<full, next, pc, mine, mark, queue, inflight, queued, dropped, handled>>
          /\ worker = "deliver" /\ worker' = "send"
      BY <1>4, Zenon DEF Admit, inDelivery, messageVars, threadVars, endVars
    <2>2. Underway' = Underway
      BY <2>1 DEF Underway
    <2> QED
      BY <1>2, <2>1, <2>2
  <1>5. CASE Deliver /\ ~Admit
    <2>1. /\ UNCHANGED <<full, next, pc, mine, mark, queue, inflight, queued, dropped>>
          /\ handled' = Append(handled, inflight)
          /\ worker \in {"deliver", "send"} /\ worker' = "settle"
      BY <1>5, DeliveryTypes
    <2>2. Underway = <<inflight>> /\ Underway' = <<>> /\ inflight \in Nat
      BY <1>3, <2>1 DEF Underway
    <2>3. handled' = handled \o <<inflight>> /\ handled' \in Seq(Nat)
      BY <1>2, <2>1, <2>2, AppendIsConcat, AppendProperties
    <2>4. handled' \o <<>> = handled'
      BY <2>3, ConcatEmptySeq
    <2>5. (handled \o Underway \o queue)' = handled \o Underway \o queue
      BY <2>1, <2>2, <2>3, <2>4, Zenon
    <2>6. queue' \in Seq(Nat) /\ Len(queue') <= Len(queue)
      BY <1>2, <2>1
    <2> QED
      BY <2>1, <2>3, <2>5, <2>6, Zenon
  <1>6. CASE Take
    <2>1. /\ worker = "look" /\ queue # <<>> /\ inflight' = Head(queue) /\ queue' = Tail(queue)
          /\ worker' = "deliver" /\ NotifyDone /\ UNCHANGED <<full, mine, mark, next, queued, dropped, handled>>
      BY <1>6, Zenon DEF Take, messageVars, doneVars
    <2>2. Underway = <<>> /\ Underway' = <<Head(queue)>>
      BY <2>1 DEF Underway
    <2>3. Head(queue) \in Nat /\ Tail(queue) \in Seq(Nat) /\ Len(Tail(queue)) = Len(queue) - 1
      BY <1>2, <2>1, HeadTailProperties
    <2>4. PICK h \in Nat : h = Head(queue)
      BY <2>3
    <2>5. (handled \o <<h>>) \o Tail(queue) = handled \o (<<h>> \o Tail(queue))
      <3>1. <<h>> \in Seq(Nat)
        OBVIOUS
      <3>2. handled \in Seq(Nat) /\ Tail(queue) \in Seq(Nat)
        BY <1>2, <2>3
      <3> QED
        BY <3>1, <3>2, ConcatInOrder, Zenon
    <2>6. queue = <<h>> \o Tail(queue)
      BY <1>2, <2>1, <2>4, HeadFirst
    <2>7. handled \o <<>> = handled
      BY <1>2, ConcatEmptySeq
    <2>8. (handled \o Underway \o queue)' = (handled \o <<h>>) \o Tail(queue)
      BY <2>1, <2>2, <2>4, Zenon
    <2>9. handled \o Underway \o queue = handled \o queue
      BY <2>2, <2>7, Zenon
    <2>10. (handled \o Underway \o queue)' = handled \o Underway \o queue
      BY <2>5, <2>6, <2>8, <2>9, Zenon
    <2>11. handled' \in Seq(Nat) /\ queue' \in Seq(Nat) /\ Len(queue') <= Len(queue)
      BY <1>2, <2>1, <2>3
    <2> QED
      BY <2>1, <2>10, <2>11, Zenon
  <1>7. CASE Leave \/ FindNothing \/ Sleep \/ Settle
    <2>1. UNCHANGED <<full, mine, mark, next, queued, dropped, handled>> /\ (UNCHANGED pc \/ NotifyDone)
      BY <1>1, <1>7, WorkerTypes DEF doneVars
    <2>2. worker \in {"look", "parking", "settle"} /\ worker' \in {"none", "parking", "asleep", "look"}
          /\ queue' = queue
      BY <1>7 DEF Leave, FindNothing, Sleep, Settle
    <2>3. Underway = <<>> /\ Underway' = <<>>
      BY <2>2 DEF Underway
    <2> QED
      BY <1>2, <2>1, <2>2, <2>3
  <1> QED
    BY <1>4, <1>5, <1>6, <1>7, Zenon DEF WorkerStep

LEMMA WorkerInv ==
  ASSUME OrderInv, [LaneNext]_laneVars, WorkerStep
  PROVE  OrderInv'
  <1>1. /\ (handled \o Underway \o queue)' = handled \o Underway \o queue
        /\ handled' \in Seq(Nat) /\ queue' \in Seq(Nat) /\ Len(queue') <= Len(queue)
        /\ UNCHANGED <<full, mine, mark, next, queued, dropped>>
        /\ UNCHANGED pc \/ NotifyDone
    BY WorkerOrder
  <1>2. LaneTypeOK /\ WorkerOK /\ ThreadsOK /\ DeliveredInOrder
    BY DEF OrderInv
  <1>3. pc' \in [Callers -> Labels] /\ \A t \in Callers : Sending(pc'[t]) <=> Sending(pc[t])
    <2>1. CASE UNCHANGED pc
      BY <1>2, <2>1 DEF LaneTypeOK
    <2>2. CASE NotifyDone
      <3>1. \A l \in Labels : Sending(Rechecks(l)) <=> Sending(l)
        BY DEF Rechecks, Labels, Sending
      <3>2. \A t \in Callers : pc[t] \in Labels
        BY <1>2 DEF LaneTypeOK
      <3> QED
        BY <1>2, <2>2, <3>1, <3>2, NotifyIs
    <2> QED
      BY <1>1, <2>1, <2>2
  <1>4. worker' \in Places /\ inflight' \in Nat \cup {NoOne} /\ WorkerOK'
    BY <1>2, WorkerStep1
  <1>5. LaneTypeOK'
    BY <1>1, <1>2, <1>3, <1>4, Zenon DEF LaneTypeOK
  <1>6. ThreadsOK'
    BY <1>1, <1>2, <1>3 DEF ThreadsOK
  <1>7. DeliveredInOrder'
    <2>1. Len(queue) \in Nat /\ Len(queue') \in Nat /\ QueueSize \in Nat
      BY <1>1, <1>2, LaneAssumption DEF LaneTypeOK
    <2>2. Len(queue') <= QueueSize
      BY <1>1, <1>2, <2>1 DEF DeliveredInOrder
    <2> QED
      BY <1>1, <1>2, <2>2, Zenon DEF DeliveredInOrder
  <1> QED
    BY <1>4, <1>5, <1>6, <1>7 DEF OrderInv

LEMMA OrderInit == LaneInit => OrderInv
  <1> SUFFICES ASSUME LaneInit PROVE OrderInv
    OBVIOUS
  <1>1. LaneTypeOK /\ WorkerOK
    BY LaneTypesInit
  <1>2. /\ pc = [t \in Callers |-> "idle"] /\ queued = <<>> /\ handled = <<>> /\ queue = <<>>
        /\ dropped = {} /\ worker = "none" /\ mark = [t \in Callers |-> 0]
    BY Zenon DEF LaneInit
  <1>3. Range(<<>>) = {} /\ IsInjective(<<>>) /\ Len(<<>>) = 0
    BY DEF Range, IsInjective
  <1>4. ThreadsOK
    BY <1>2, <1>3 DEF ThreadsOK, Sending
  <1>5. handled \o Underway \o queue = <<>>
    BY <1>2 DEF Underway
  <1>6. DeliveredInOrder
    <2>1. Keeps(<<>>, <<>>, {})
      BY <1>3 DEF Keeps
    <2> QED
      BY <1>2, <1>3, <1>5, <2>1, LaneAssumption DEF DeliveredInOrder
  <1> QED
    BY <1>1, <1>4, <1>6 DEF OrderInv

LEMMA OrderStep == OrderInv /\ [LaneNext]_laneVars => OrderInv'
  <1> SUFFICES ASSUME OrderInv, [LaneNext]_laneVars PROVE OrderInv'
    OBVIOUS
  <1>1. LaneTypeOK /\ WorkerOK
    BY DEF OrderInv
  <1>2. ASSUME NEW t \in Callers, Send(t) \/ Begin(t) \/ ThreadStep(t) PROVE OrderInv'
    <2>1. LaneTypeOK'
      BY <1>1, <1>2, ThreadTypeStep
    <2>2. WorkerOK'
      BY <1>1, WorkerStep1
    <2>3. DeliveredInOrder'
      BY <1>2, ThreadOrder
    <2>4. ThreadsOK'
      BY <1>2, ThreadThreads
    <2> QED
      BY <2>1, <2>2, <2>3, <2>4 DEF OrderInv
  <1>3. CASE WorkerStep
    BY <1>3, WorkerInv
  <1>4. CASE UNCHANGED laneVars
    <2>1. UNCHANGED <<full, next, pc, mine, mark, queue, inflight, worker, alive, handled, queued, dropped>>
      BY <1>4, Zenon DEF laneVars, messageVars, threadVars, workVars, doneVars, endVars
    <2>2. LaneTypeOK' /\ WorkerOK' /\ ThreadsOK'
      BY <1>1, <2>1 DEF LaneTypeOK, WorkerOK, ThreadsOK, OrderInv
    <2>3. Underway' = Underway
      BY <2>1 DEF Underway
    <2>4. DeliveredInOrder'
      BY <2>1, <2>3 DEF DeliveredInOrder, OrderInv
    <2> QED
      BY <2>2, <2>4 DEF OrderInv
  <1> QED
    BY <1>2, <1>3, <1>4, Zenon DEF LaneNext, Rest

\* The lane's state keeps its types, whoever sends, flushes or closes.
THEOREM LaneTypeCorrect == LaneSpec => []LaneTypeOK
  <1>1. LaneInit => OrderInv
    BY OrderInit
  <1>2. OrderInv /\ [LaneNext]_laneVars => OrderInv'
    BY OrderStep
  <1>3. OrderInv => LaneTypeOK
    BY DEF OrderInv
  <1> QED
    BY <1>1, <1>2, <1>3, PTL DEF LaneSpec

\* Messages are delivered once and in the order they were queued, except those
\* a full queue dropped; one that blocks drops none (delivery.rs, Lane::send).
THEOREM OnceInOrder == LaneSpec => []DeliveredInOrder
  <1>1. LaneInit => OrderInv
    BY OrderInit
  <1>2. OrderInv /\ [LaneNext]_laneVars => OrderInv'
    BY OrderStep
  <1>3. OrderInv => DeliveredInOrder
    BY DEF OrderInv
  <1> QED
    BY <1>1, <1>2, <1>3, PTL DEF LaneSpec

\* Repeats that were suppressed are announced once, by a message that was sent,
\* or are still counted, unless the message that stood for them was refused or
\* failed, or their key was forgotten (delivery.rs, Dedup::check).
THEOREM RepeatsAnnounced == LaneSpec => []RepeatsSummarised
  <1>1. LaneInit => OrderInv /\ RepeatsInv
    BY OrderInit, RepeatsInit
  <1>2. OrderInv /\ RepeatsInv /\ [LaneNext]_laneVars => OrderInv' /\ RepeatsInv'
    BY OrderStep, RepeatsStep DEF OrderInv
  <1>3. RepeatsInv => RepeatsSummarised
    BY DEF RepeatsInv
  <1> QED
    BY <1>1, <1>2, <1>3, PTL DEF LaneSpec

LEMMA FlushStep ==
  ASSUME OrderInv, [LaneNext]_laneVars, NEW t \in Callers,
         pc[t] \in {"flush", "close"}, pc'[t] \in {"idle", "stop"}
  PROVE  Flushed(t)
  <1>1. LaneTypeOK /\ WorkerOK /\ pc[t] \in Labels
    BY DEF OrderInv, LaneTypeOK
  <1>2. ASSUME NEW u \in Callers, Send(u) \/ Begin(u) \/ ThreadStep(u) PROVE Flushed(t)
    <2>1. PICK l \in Labels : Goto(u, l)
      <3>1. Numbers(u) \/ Queues(u) \/ Replaces(u) \/ GivesUp(u) \/ Moves(u)
        BY <1>2, ThreadKinds
      <3> QED
        BY <3>1 DEF Numbers, Queues, Replaces, GivesUp, Moves, Enqueue, Labels
    <2>2. u = t
      BY <1>1, <2>1, GotoIs
    <2>3. AwaitQueue(t) => pc'[t] \in {"flushing", "closing"}
      <3>1. "flushing" \in Labels /\ "closing" \in Labels
        BY DEF Labels
      <3> QED
        BY <1>1, <3>1, GotoIs DEF AwaitQueue
    <2>4. ~AwaitQueue(t)
      BY <2>3
    <2>5. Flushed(t) \/ AwaitQueue(t)
      <3>1. ~Send(t) /\ ~Begin(t) /\ ~Start(t) /\ ~Push(t) /\ ~DropOldest(t) /\ ~DropNew(t)
        BY DEF Send, Begin, Start, Push, DropOldest, DropNew
      <3>2. ~Block(t) /\ ~AwaitRoom(t) /\ ~PushLate(t) /\ ~GiveUpFlush(t) /\ ~Stop(t) /\ ~Wake(t)
        BY DEF Block, AwaitRoom, PushLate, GiveUpFlush, Stop, Wake
      <3>3. ~Join(t) /\ ~GiveUpJoin(t)
        BY DEF Join, GiveUpJoin
      <3> QED
        BY <1>2, <2>2, <3>1, <3>2, <3>3, Zenon DEF ThreadStep
    <2> QED
      BY <2>4, <2>5
  <1>3. CASE WorkerStep
    <2>1. UNCHANGED pc \/ NotifyDone
      BY <1>3, WorkerOrder
    <2>2. pc'[t] = pc[t]
      BY <1>1, <2>1, NotifyIs, RechecksIs
    <2> QED
      BY <2>2
  <1>4. CASE UNCHANGED laneVars
    BY <1>4 DEF laneVars, threadVars
  <1> QED
    BY <1>2, <1>3, <1>4, Zenon DEF LaneNext, Rest

LEMMA FlushHandled ==
  ASSUME OrderInv, [LaneNext]_laneVars, NEW t \in Callers,
         pc[t] \in {"flush", "close"}, pc'[t] \in {"idle", "stop"},
         NEW i \in 1..mark[t]
  PROVE  queued[i] \in Range(handled) \cup dropped
  <1>1. Flushed(t)
    BY FlushStep
  <1>2. queue = <<>> /\ inflight = NoOne
    BY <1>1 DEF Flushed, Drained
  <1>3. LaneTypeOK /\ WorkerOK /\ ThreadsOK /\ DeliveredInOrder
    BY DEF OrderInv
  <1>4. Underway = <<>>
    BY <1>2, <1>3 DEF Underway, WorkerOK
  <1>5. handled \o Underway \o queue = handled
    <2>1. handled \in Seq(Nat)
      BY <1>3 DEF LaneTypeOK
    <2>2. handled \o <<>> = handled
      BY <2>1, ConcatEmptySeq
    <2> QED
      BY <1>2, <1>4, <2>2
  <1>6. Range(handled) = Range(queued) \ dropped
    BY <1>3, <1>5 DEF DeliveredInOrder, Keeps
  <1>7. i \in DOMAIN queued
    BY <1>3 DEF ThreadsOK, LaneTypeOK
  <1>8. queued[i] \in Range(queued)
    BY <1>7, Zenon DEF Range
  <1> QED
    BY <1>6, <1>8

\* flush() that returns in time, alone or in close(), has waited for every
\* message queued before it began, the one in delivery included
\* (delivery.rs, Lane::flush).
THEOREM FlushWaits == LaneSpec => FlushMeansHandled
  <1>1. LaneInit => OrderInv
    BY OrderInit
  <1>2. OrderInv /\ [LaneNext]_laneVars => OrderInv'
    BY OrderStep
  <1>3. OrderInv /\ [LaneNext]_laneVars =>
          [\A t \in Callers :
             pc[t] \in {"flush", "close"} /\ pc'[t] \in {"idle", "stop"} =>
               \A i \in 1..mark[t] : queued[i] \in Range(handled) \cup dropped]_laneVars
    BY FlushHandled
  <1> QED
    BY <1>1, <1>2, <1>3, PTL DEF LaneSpec, FlushMeansHandled

-----------------------------------------------------------------------------
(* Sequences                                                               *)

LEMMA FrontIs ==
  ASSUME NEW S, NEW s \in Seq(S), s # <<>>
  PROVE  /\ Front(s) \in Seq(S) /\ Len(Front(s)) = Len(s) - 1 /\ Len(s) \in Nat \ {0}
         /\ \A i \in 1..(Len(s) - 1) : Front(s)[i] = s[i]
  <1>1. Len(s) \in Nat /\ Len(s) > 0
    OBVIOUS
  <1>2. PICK n \in Nat : n = Len(s) - 1
    BY <1>1
  <1>3. \A i \in 1..n : s[i] \in S
    BY <1>1, <1>2
  <1>4. /\ SubSeq(s, 1, n) \in Seq(S)
        /\ Len(SubSeq(s, 1, n)) = IF 1 <= n THEN n - 1 + 1 ELSE 0
        /\ \A i \in 1..(n - 1 + 1) : SubSeq(s, 1, n)[i] = s[1 + i - 1]
    BY <1>3, SubSeqProperties
  <1>5. Front(s) = SubSeq(s, 1, n)
    BY <1>2 DEF Front
  <1> QED
    BY <1>1, <1>2, <1>4, <1>5

LEMMA LastIs ==
  ASSUME NEW S, NEW s \in Seq(S), s # <<>>
  PROVE  Last(s) = s[Len(s)] /\ Last(s) \in S /\ Len(s) \in Nat \ {0}
  BY DEF Last

-----------------------------------------------------------------------------
(* Counting over a trace                                                   *)

\* v is w with x behind it.
Grown(w, v, x) ==
    /\ Len(w) \in Nat /\ Len(v) = Len(w) + 1
    /\ v[Len(v)] = x
    /\ \A k \in 1..Len(w) : v[k] = w[k]

LEMMA CountNat ==
  ASSUME NEW w, NEW i \in Nat, NEW j \in Nat, NEW y
  PROVE  /\ IsFiniteSet({k \in i..j : w[k] = y}) /\ Tally(w, i, j, y) \in Nat
         /\ i > j => Tally(w, i, j, y) = 0
         /\ \A a \in i..(j + 1) : Tally(w, a, j, y) <= Tally(w, i, j, y)
  <1> DEFINE A(a) == {k \in a..j : w[k] = y}
  <1>1. IsFiniteSet(i..j)
    BY FS_Interval
  <1>2. A(i) \in SUBSET (i..j)
    OBVIOUS
  <1>3. IsFiniteSet(A(i))
    BY <1>1, <1>2, FS_Subset
  <1>4. Cardinality(A(i)) \in Nat
    BY <1>3, FS_CardinalityType
  <1>5. ASSUME i > j PROVE Cardinality(A(i)) = 0
    <2>1. A(i) = {}
      BY <1>5
    <2> QED
      BY <2>1, FS_EmptySet
  <1>6. ASSUME NEW a \in i..(j + 1) PROVE Cardinality(A(a)) <= Cardinality(A(i))
    <2>1. A(a) \in SUBSET A(i)
      OBVIOUS
    <2> QED
      BY <1>3, <2>1, FS_Subset
  <1> QED
    BY <1>3, <1>4, <1>5, <1>6 DEF Tally

\* What was seen counts.
LEMMA CountSeen ==
  ASSUME NEW w, NEW l \in Nat, NEW i \in 1..l, NEW y, w[i] = y
  PROVE  Tally(w, 1, l, y) > 0
  <1>1. PICK a : a = 1
    OBVIOUS
  <1>2. PICK A : A = {k \in a..l : w[k] = y}
    OBVIOUS
  <1>3. a \in Nat /\ i \in A
    BY <1>1, <1>2
  <1>4. IsFiniteSet(A) /\ Tally(w, a, l, y) = Cardinality(A)
    <2>1. A \in SUBSET (a..l)
      BY <1>2
    <2>2. IsFiniteSet(a..l)
      BY <1>3, FS_Interval
    <2>3. IsFiniteSet(A)
      BY <2>1, <2>2, FS_Subset
    <2> QED
      BY <1>2, <2>3, Zenon DEF Tally
  <1>5. Cardinality(A) \in Nat /\ (Cardinality(A) = 0 <=> A = {})
    BY <1>4, FS_CardinalityType, FS_EmptySet
  <1>6. Cardinality(A) > 0
    BY <1>3, <1>5
  <1> QED
    BY <1>1, <1>4, <1>6, Zenon

LEMMA CountBefore ==
  ASSUME NEW w, NEW v, NEW x, Grown(w, v, x), NEW i \in Nat \ {0}, NEW j \in Nat, j <= Len(w), NEW y
  PROVE  Tally(v, i, j, y) = Tally(w, i, j, y)
  <1>1. {k \in i..j : v[k] = y} = {k \in i..j : w[k] = y}
    BY DEF Grown
  <1> QED
    BY <1>1, Zenon DEF Tally

LEMMA CountLast ==
  ASSUME NEW w, NEW v, NEW x, Grown(w, v, x), NEW i \in 1..(Len(w) + 1), NEW y
  PROVE  /\ Tally(w, i, Len(w), y) \in Nat
         /\ Tally(v, i, Len(v), y) = Tally(w, i, Len(w), y) + IF x = y THEN 1 ELSE 0
  <1>1. PICK n \in Nat : n = Len(w) /\ Len(v) = n + 1
    BY DEF Grown
  <1>2. PICK A : A = {k \in i..n : w[k] = y}
    OBVIOUS
  <1>3. IsFiniteSet(A) /\ Tally(w, i, n, y) = Cardinality(A) /\ Cardinality(A) \in Nat
    <2>1. i \in Nat /\ n \in Nat
      BY <1>1
    <2>2. A \in SUBSET (i..n) /\ IsFiniteSet(i..n)
      BY <1>2, <2>1, FS_Interval
    <2>3. Tally(w, i, n, y) \in Nat
      BY <2>1, CountNat
    <2>4. Tally(w, i, n, y) = Cardinality(A)
      BY <1>2, Zenon DEF Tally
    <2>5. IsFiniteSet(A)
      BY <2>2, FS_Subset
    <2> QED
      BY <2>3, <2>4, <2>5
  <1>4. v[n + 1] = x /\ \A k \in 1..n : v[k] = w[k]
    BY <1>1 DEF Grown
  <1>5. n + 1 \notin A
    BY <1>1, <1>2
  <1>6. {k \in i..(n + 1) : v[k] = y} = IF x = y THEN A \cup {n + 1} ELSE A
    BY <1>1, <1>2, <1>4
  <1>7. Cardinality(A \cup {n + 1}) = Cardinality(A) + 1
    BY <1>3, <1>5, FS_AddElement, Zenon
  <1>8. Tally(v, i, n + 1, y) = Cardinality(IF x = y THEN A \cup {n + 1} ELSE A)
    BY <1>6, Zenon DEF Tally
  <1> QED
    BY <1>1, <1>3, <1>7, <1>8

\* The condition held n times since it was last seen not to.
Holding(w, n) ==
    \E i \in 1..(Len(w) + 1) :
      n = Tally(w, i, Len(w), "true") /\ \A k \in i..Len(w) : w[k] # "false"

\* The rule has fired since the condition was last seen not to hold.
OnFire(w) == \E i \in 1..Len(w) : w[i] = "fire" /\ \A k \in i..Len(w) : w[k] # "false"

\* There were n errors since the condition was last evaluated.
Failing(w, n) ==
    \E i \in 1..(Len(w) + 1) :
      /\ n = Tally(w, i, Len(w), "error")
      /\ \A k \in i..Len(w) : w[k] \notin Evaluated
      /\ i > 1 => w[i - 1] \in Evaluated

\* There were MaxErrors in a row.
Failed(w) ==
    \E i, j \in 1..Len(w) :
      Tally(w, i, j, "error") >= MaxErrors /\ \A k \in i..j : w[k] \notin Evaluated

LEMMA HoldingGrows ==
  ASSUME NEW w, NEW v, NEW x, Grown(w, v, x), NEW n \in Nat, Holding(w, n)
  PROVE  /\ x = "true" => Holding(v, n + 1)
         /\ x = "false" => Holding(v, 0)
         /\ x \notin {"true", "false"} => Holding(v, n)
  <1>1. PICK i \in 1..(Len(w) + 1) :
          n = Tally(w, i, Len(w), "true") /\ \A k \in i..Len(w) : w[k] # "false"
    BY Zenon DEF Holding
  <1>2. PICK l \in Nat : l = Len(w) /\ Len(v) = l + 1 /\ v[l + 1] = x /\ \A k \in 1..l : v[k] = w[k]
    BY DEF Grown
  <1>3. Tally(v, i, l + 1, "true") = n + IF x = "true" THEN 1 ELSE 0
    BY <1>1, <1>2, CountLast
  <1>4. i \in 1..(Len(v) + 1)
    BY <1>2
  <1>5. ASSUME x # "false" PROVE \A k \in i..(l + 1) : v[k] # "false"
    <2>1. ASSUME NEW k \in i..(l + 1) PROVE v[k] # "false"
      <3>1. k \in i..l \/ k = l + 1
        BY <1>2
      <3>2. k \in i..l => k \in 1..l
        BY <1>2
      <3> QED
        BY <1>1, <1>2, <1>5, <3>1, <3>2
    <2> QED
      BY <2>1
  <1>6. ASSUME x = "false" PROVE Holding(v, 0)
    <2>1. Len(v) + 1 \in 1..(Len(v) + 1) /\ Len(v) + 1 \in Nat /\ Len(v) \in Nat /\ Len(v) + 1 > Len(v)
      BY <1>2
    <2>2. Tally(v, Len(v) + 1, Len(v), "true") = 0
      BY <2>1, CountNat
    <2>3. \A k \in (Len(v) + 1)..Len(v) : v[k] # "false"
      BY <2>1
    <2> QED
      BY <2>1, <2>2, <2>3 DEF Holding
  <1>7. ASSUME x # "false" PROVE Holding(v, n + IF x = "true" THEN 1 ELSE 0)
    BY <1>2, <1>3, <1>4, <1>5, <1>7, Zenon DEF Holding
  <1> QED
    BY <1>6, <1>7

LEMMA OnFireGrows ==
  ASSUME NEW w, NEW v, NEW x, Grown(w, v, x)
  PROVE  /\ x = "fire" => OnFire(v)
         /\ x = "false" => ~OnFire(v)
         /\ x \notin {"fire", "false"} => (OnFire(v) <=> OnFire(w))
  <1>1. PICK l \in Nat : l = Len(w) /\ Len(v) = l + 1 /\ v[l + 1] = x /\ \A k \in 1..l : v[k] = w[k]
    BY DEF Grown
  <1>2. ASSUME x = "fire" PROVE OnFire(v)
    <2>1. l + 1 \in 1..Len(v) /\ v[l + 1] = "fire"
      BY <1>1, <1>2
    <2>2. \A k \in (l + 1)..Len(v) : v[k] # "false"
      BY <1>1, <1>2
    <2> QED
      BY <2>1, <2>2, Zenon DEF OnFire
  <1>3. ASSUME x = "false", OnFire(v) PROVE FALSE
    <2>1. PICK i \in 1..Len(v) : \A k \in i..Len(v) : v[k] # "false"
      BY <1>3, Zenon DEF OnFire
    <2>2. l + 1 \in i..Len(v)
      BY <1>1
    <2> QED
      BY <1>1, <1>3, <2>1, <2>2
  <1>4. ASSUME x \notin {"fire", "false"}, OnFire(w) PROVE OnFire(v)
    <2>1. PICK i \in 1..l : w[i] = "fire" /\ \A k \in i..l : w[k] # "false"
      BY <1>1, <1>4, Zenon DEF OnFire
    <2>2. i \in 1..Len(v) /\ v[i] = "fire"
      BY <1>1, <2>1
    <2>3. \A k \in i..Len(v) : k = l + 1 \/ (k \in i..l /\ k \in 1..l)
      BY <1>1
    <2>4. \A k \in i..Len(v) : v[k] # "false"
      BY <1>1, <1>4, <2>1, <2>3
    <2> QED
      BY <2>2, <2>4, Zenon DEF OnFire
  <1>5. ASSUME x \notin {"fire", "false"}, OnFire(v) PROVE OnFire(w)
    <2>1. PICK i \in 1..Len(v) : v[i] = "fire" /\ \A k \in i..Len(v) : v[k] # "false"
      BY <1>5, Zenon DEF OnFire
    <2>2. i \in 1..l
      BY <1>1, <1>5, <2>1
    <2>3. \A k \in i..l : k \in i..Len(v) /\ k \in 1..l
      BY <1>1, <2>2
    <2>4. w[i] = "fire" /\ \A k \in i..l : w[k] # "false"
      BY <1>1, <2>1, <2>2, <2>3
    <2> QED
      BY <1>1, <2>2, <2>4, Zenon DEF OnFire
  <1> QED
    BY <1>2, <1>3, <1>4, <1>5

LEMMA FailingGrows ==
  ASSUME NEW w, NEW v, NEW x, Grown(w, v, x), NEW n \in Nat, Failing(w, n)
  PROVE  /\ x = "error" => Failing(v, n + 1)
         /\ x \in Evaluated => Failing(v, 0)
         /\ x \notin Evaluated \cup {"error"} => Failing(v, n)
  <1>1. PICK i \in 1..(Len(w) + 1) :
          /\ n = Tally(w, i, Len(w), "error")
          /\ \A k \in i..Len(w) : w[k] \notin Evaluated
          /\ i > 1 => w[i - 1] \in Evaluated
    BY Zenon DEF Failing
  <1>2. PICK l \in Nat : l = Len(w) /\ Len(v) = l + 1 /\ v[l + 1] = x /\ \A k \in 1..l : v[k] = w[k]
    BY DEF Grown
  <1>3. Tally(v, i, l + 1, "error") = n + IF x = "error" THEN 1 ELSE 0
    BY <1>1, <1>2, CountLast
  <1>5. ASSUME x \notin Evaluated PROVE \A k \in i..(l + 1) : v[k] \notin Evaluated
    <2>1. ASSUME NEW k \in i..(l + 1) PROVE v[k] \notin Evaluated
      <3>1. k \in i..l \/ k = l + 1
        BY <1>2
      <3>2. k \in i..l => k \in 1..l
        BY <1>2
      <3> QED
        BY <1>1, <1>2, <1>5, <3>1, <3>2
    <2> QED
      BY <2>1
  <1>6. ASSUME x \in Evaluated PROVE Failing(v, 0)
    <2>1. PICK b : b = l + 2
      OBVIOUS
    <2>2. b \in 1..(Len(v) + 1) /\ b \in Nat /\ Len(v) \in Nat /\ b > Len(v) /\ b - 1 = l + 1
      BY <1>2, <2>1
    <2>3. Tally(v, b, Len(v), "error") = 0
      BY <2>2, CountNat
    <2>4. \A k \in b..Len(v) : v[k] \notin Evaluated
      BY <2>2
    <2>5. v[b - 1] \in Evaluated
      BY <1>2, <1>6, <2>2
    <2> QED
      BY <2>2, <2>3, <2>4, <2>5 DEF Failing
  <1>7. ASSUME x \notin Evaluated PROVE Failing(v, n + IF x = "error" THEN 1 ELSE 0)
    <2>1. i \in 1..(Len(v) + 1)
      BY <1>2
    <2>2. i > 1 => v[i - 1] \in Evaluated
      <3>1. i > 1 => i - 1 \in 1..l
        BY <1>2
      <3> QED
        BY <1>1, <1>2, <3>1
    <2> QED
      BY <1>2, <1>3, <1>5, <1>7, <2>1, <2>2, Zenon DEF Failing
  <1>8. "error" \notin Evaluated
    BY DEF Evaluated
  <1> QED
    BY <1>6, <1>7, <1>8

LEMMA FailedGrows ==
  ASSUME NEW w, NEW v, NEW x, Grown(w, v, x), NEW n \in Nat, Failing(w, n)
  PROVE  Failed(v) <=> (Failed(w) \/ (x = "error" /\ n + 1 >= MaxErrors))
  <1>1. PICK i \in 1..(Len(w) + 1) :
          /\ n = Tally(w, i, Len(w), "error")
          /\ \A k \in i..Len(w) : w[k] \notin Evaluated
          /\ i > 1 => w[i - 1] \in Evaluated
    BY Zenon DEF Failing
  <1>2. PICK l \in Nat : l = Len(w) /\ Len(v) = l + 1 /\ v[l + 1] = x /\ \A k \in 1..l : v[k] = w[k]
    BY DEF Grown
  <1>3. Tally(v, i, l + 1, "error") = n + IF x = "error" THEN 1 ELSE 0
    BY <1>1, <1>2, CountLast
  <1>4. ASSUME Failed(w) PROVE Failed(v)
    <2>1. PICK a, b \in 1..l : Tally(w, a, b, "error") >= MaxErrors
                               /\ \A k \in a..b : w[k] \notin Evaluated
      BY <1>2, <1>4, Zenon DEF Failed
    <2>2. Tally(v, a, b, "error") = Tally(w, a, b, "error")
      <3>1. a \in Nat \ {0} /\ b \in Nat /\ b <= Len(w)
        BY <1>2
      <3> QED
        BY <3>1, CountBefore
    <2>3. \A k \in a..b : v[k] \notin Evaluated
      BY <1>2, <2>1
    <2>4. a \in 1..Len(v) /\ b \in 1..Len(v)
      BY <1>2
    <2> QED
      BY <2>1, <2>2, <2>3, <2>4, Zenon DEF Failed
  <1>5. ASSUME x = "error", n + 1 >= MaxErrors PROVE Failed(v)
    <2>1. \A k \in i..(l + 1) : v[k] \notin Evaluated
      <3>1. ASSUME NEW k \in i..(l + 1) PROVE v[k] \notin Evaluated
        <4>1. k \in i..l \/ k = l + 1
          BY <1>2
        <4>2. k \in i..l => k \in 1..l
          BY <1>2
        <4>3. "error" \notin Evaluated
          BY DEF Evaluated
        <4> QED
          BY <1>1, <1>2, <1>5, <4>1, <4>2, <4>3
      <3> QED
        BY <3>1
    <2>2. i \in 1..Len(v) /\ l + 1 \in 1..Len(v)
      BY <1>2
    <2>3. Tally(v, i, l + 1, "error") >= MaxErrors
      BY <1>3, <1>5
    <2> QED
      BY <2>1, <2>2, <2>3, Zenon DEF Failed
  <1>6. ASSUME Failed(v), ~Failed(w) PROVE x = "error" /\ n + 1 >= MaxErrors
    <2>1. PICK a, b \in 1..Len(v) : Tally(v, a, b, "error") >= MaxErrors
                                    /\ \A k \in a..b : v[k] \notin Evaluated
      BY <1>6, Zenon DEF Failed
    <2>2. a \in Nat \ {0} /\ b \in Nat /\ a <= l + 1 /\ b <= l + 1 /\ MaxErrors \in Nat \ {0}
      BY <1>2, RulesAssumption
    <2>3. a <= b
      <3>1. a > b => Tally(v, a, b, "error") = 0
        BY <2>2, CountNat
      <3> QED
        BY <2>1, <2>2, <3>1
    <2>4. ASSUME NEW c \in a..l, Tally(w, a, l, "error") >= MaxErrors PROVE b = l + 1 => FALSE
      <3>1. SUFFICES ASSUME b = l + 1 PROVE FALSE
        OBVIOUS
      <3>2. a \in 1..l /\ l \in 1..l
        BY <2>2, <2>4
      <3>3. \A k \in a..l : w[k] \notin Evaluated
        BY <1>2, <2>1, <2>2, <3>1
      <3> QED
        BY <1>2, <1>6, <2>4, <3>2, <3>3, Zenon DEF Failed
    <2>5. b = l + 1
      <3>1. SUFFICES ASSUME b <= l PROVE FALSE
        BY <2>2
      <3>2. Tally(v, a, b, "error") = Tally(w, a, b, "error")
        BY <1>2, <2>2, <3>1, CountBefore
      <3>3. a \in 1..l /\ b \in 1..l
        BY <2>2, <2>3, <3>1
      <3>4. \A k \in a..b : w[k] \notin Evaluated
        BY <1>2, <2>1, <2>2, <3>1
      <3> QED
        BY <1>2, <1>6, <2>1, <3>2, <3>3, <3>4, Zenon DEF Failed
    <2>6. Tally(v, a, l + 1, "error") = Tally(w, a, l, "error") + IF x = "error" THEN 1 ELSE 0
      <3>1. a \in 1..(Len(w) + 1)
        BY <1>2, <2>2
      <3> QED
        BY <1>2, <3>1, CountLast
    <2>7. Tally(w, a, l, "error") \in Nat
      BY <1>2, <2>2, CountNat
    <2>8. x = "error"
      <3>1. SUFFICES ASSUME x # "error" PROVE FALSE
        OBVIOUS
      <3>2. Tally(w, a, l, "error") >= MaxErrors
        BY <2>1, <2>5, <2>6, <2>7, <3>1
      <3>3. a > l => Tally(w, a, l, "error") = 0
        BY <1>2, <2>2, CountNat
      <3>4. a \in a..l
        BY <2>2, <3>2, <3>3
      <3> QED
        BY <2>4, <2>5, <3>2, <3>4
    <2>9. a >= i
      <3>1. SUFFICES ASSUME a < i PROVE FALSE
        BY <1>2, <2>2
      <3>2. i - 1 \in a..b /\ i > 1 /\ i - 1 \in 1..l
        BY <1>2, <2>2, <2>5, <3>1
      <3>3. v[i - 1] = w[i - 1]
        BY <1>2, <3>2
      <3> QED
        BY <1>1, <2>1, <3>2, <3>3
    <2>10. Tally(v, a, l + 1, "error") <= Tally(v, i, l + 1, "error")
      <3>1. i \in Nat /\ l + 1 \in Nat /\ a \in i..((l + 1) + 1)
        BY <1>2, <2>2, <2>9
      <3> QED
        BY <3>1, CountNat
    <2>11. Tally(v, a, l + 1, "error") >= MaxErrors
      BY <2>1, <2>5
    <2>12. PICK c, d : c = Tally(v, a, l + 1, "error") /\ d = Tally(v, i, l + 1, "error")
      OBVIOUS
    <2>131. d = n + 1
      BY <1>3, <2>8, <2>12
    <2>132. c \in Int
      BY <2>6, <2>7, <2>8, <2>12
    <2>13. d = n + 1 /\ c \in Int /\ c <= d /\ c >= MaxErrors
      BY <2>10, <2>11, <2>12, <2>131, <2>132, Zenon
    <2> QED
      BY <2>2, <2>8, <2>13
  <1> QED
    BY <1>4, <1>5, <1>6

-----------------------------------------------------------------------------
(* Types and stacks                                                        *)

Sends(f) == f.at \in {"fire", "recovered"}

TypeOK ==
    /\ rule \in Rules /\ reentrant \in BOOLEAN
    /\ table \in 0..MaxRules /\ added \in Nat
    /\ enabled \in [Ids -> BOOLEAN] /\ state \in [Ids -> States]
    /\ stack \in [Threads -> Seq(Frames)]
    /\ clock \in Nat /\ trace \in [Ids -> Seq(Events)]

\* A pass that has selected a rule has one; without a backend that logs there
\* is one pass on a thread's stack, and one sender of a rule.
StacksOK ==
    /\ \A t \in Threads : stack[t] # <<>> /\ ~At(t, "wait") => Top(t).id \in Ids
    /\ \A t \in Threads : \A i \in 1..Len(stack[t]) :
         i < Len(stack[t]) => Sends(stack[t][i]) /\ stack[t][i].id \in Ids
    /\ ~reentrant => \A t \in Threads : Len(stack[t]) <= 1
    /\ ~reentrant => \A t, u \in Threads :
         stack[t] # <<>> /\ stack[u] # <<>> /\ Sends(Top(t)) /\ Sends(Top(u))
         /\ Top(t).id = Top(u).id => t = u

LEMMA TopIs ==
  ASSUME TypeOK, NEW t \in Threads, stack[t] # <<>>
  PROVE  /\ stack[t] \in Seq(Frames) /\ Len(stack[t]) \in Nat \ {0}
         /\ Top(t) = stack[t][Len(stack[t])] /\ Top(t) \in Frames
         /\ Front(stack[t]) \in Seq(Frames) /\ Len(Front(stack[t])) = Len(stack[t]) - 1
         /\ \A i \in 1..(Len(stack[t]) - 1) : Front(stack[t])[i] = stack[t][i]
  <1>1. stack[t] \in Seq(Frames)
    BY DEF TypeOK
  <1> QED
    BY <1>1, FrontIs, LastIs DEF Top

\* What becomes of the stack of a thread: it is left with the passes below the
\* top one, or the top one goes on as f.
LEMMA PopIs ==
  ASSUME TypeOK, NEW t \in Threads, stack[t] # <<>>, Pop(t)
  PROVE  /\ stack' \in [Threads -> Seq(Frames)]
         /\ \A u \in Threads \ {t} : stack'[u] = stack[u]
         /\ Len(stack'[t]) = Len(stack[t]) - 1
         /\ \A i \in 1..Len(stack'[t]) : stack'[t][i] = stack[t][i]
         /\ stack'[t] = <<>> \/ Last(stack'[t]) = stack[t][Len(stack[t]) - 1]
  <1>1. PICK s : s = Front(stack[t])
    OBVIOUS
  <1>2. /\ s \in Seq(Frames) /\ Len(s) = Len(stack[t]) - 1 /\ Len(stack[t]) \in Nat \ {0}
        /\ \A i \in 1..Len(s) : s[i] = stack[t][i]
    BY <1>1, TopIs
  <1>3. stack \in [Threads -> Seq(Frames)] /\ stack' = [stack EXCEPT ![t] = s]
    BY <1>1 DEF TypeOK, Pop
  <1>4. s = <<>> \/ Last(s) = stack[t][Len(stack[t]) - 1]
    <2>1. SUFFICES ASSUME s # <<>> PROVE Last(s) = stack[t][Len(stack[t]) - 1]
      OBVIOUS
    <2>2. Last(s) = s[Len(s)] /\ Len(s) \in Nat \ {0}
      BY <1>2, <2>1, LastIs
    <2>3. PICK m : m = Len(s)
      OBVIOUS
    <2>4. m = Len(stack[t]) - 1 /\ Last(s) = s[m]
      BY <1>2, <2>2, <2>3, Zenon
    <2>6. m \in 1..Len(s)
      BY <2>2, <2>3
    <2>5. s[m] = stack[t][m]
      BY <1>2, <2>6
    <2> QED
      BY <2>4, <2>5, Zenon
  <1>5. stack'[t] = s /\ stack' \in [Threads -> Seq(Frames)]
        /\ \A u \in Threads \ {t} : stack'[u] = stack[u]
    BY <1>2, <1>3
  <1> QED
    BY <1>2, <1>4, <1>5

LEMMA PutIs ==
  ASSUME TypeOK, NEW t \in Threads, NEW s \in Seq(Frames), NEW f \in Frames,
         stack' = [stack EXCEPT ![t] = Append(s, f)]
  PROVE  /\ stack' \in [Threads -> Seq(Frames)]
         /\ \A u \in Threads \ {t} : stack'[u] = stack[u]
         /\ Len(stack'[t]) = Len(s) + 1 /\ Len(s) \in Nat
         /\ \A i \in 1..Len(s) : stack'[t][i] = s[i]
         /\ stack'[t] # <<>> /\ Last(stack'[t]) = f
  <1>1. PICK n : n = Append(s, f)
    OBVIOUS
  <1>2. /\ n \in Seq(Frames) /\ n # <<>> /\ Len(n) = Len(s) + 1 /\ Len(s) \in Nat
        /\ \A i \in 1..Len(s) : n[i] = s[i]
        /\ n[Len(s) + 1] = f
    BY <1>1, AppendProperties
  <1>3. Last(n) = f
    BY <1>2, LastIs
  <1>4. stack'[t] = n /\ stack' \in [Threads -> Seq(Frames)]
        /\ \A u \in Threads \ {t} : stack'[u] = stack[u]
    BY <1>1, <1>2 DEF TypeOK
  <1> QED
    BY <1>2, <1>3, <1>4

\* The top pass of a thread goes on as f.
Becoming(t, f) ==
    /\ stack' \in [Threads -> Seq(Frames)]
    /\ \A u \in Threads \ {t} : stack'[u] = stack[u]
    /\ Len(stack'[t]) = Len(stack[t]) /\ Len(stack[t]) \in Nat \ {0}
    /\ \A i \in 1..(Len(stack[t]) - 1) : stack'[t][i] = stack[t][i]
    /\ stack'[t] # <<>> /\ Last(stack'[t]) = f

LEMMA ResumeIs ==
  ASSUME TypeOK, NEW t \in Threads, stack[t] # <<>>,
         NEW label \in {"wait", "lock", "fire", "recovered"}, NEW id \in 0..MaxRules, Resume(t, label, id)
  PROVE  \E f \in Frames : f.at = label /\ f.id = id /\ f.step = Top(t).step /\ Becoming(t, f)
  <1>1. Top(t) \in Frames /\ Front(stack[t]) \in Seq(Frames) /\ Len(stack[t]) \in Nat \ {0}
        /\ Len(Front(stack[t])) = Len(stack[t]) - 1
        /\ \A i \in 1..(Len(stack[t]) - 1) : Front(stack[t])[i] = stack[t][i]
    BY TopIs
  <1>2. PICK f : f = [Top(t) EXCEPT !.at = label, !.id = id]
    OBVIOUS
  <1>3. f \in Frames /\ f.at = label /\ f.id = id /\ f.step = Top(t).step
    BY <1>1, <1>2 DEF Frames
  <1>4. PICK s : s = Front(stack[t])
    OBVIOUS
  <1>5. stack' = [stack EXCEPT ![t] = Append(s, f)]
    BY <1>2, <1>4, Zenon DEF Resume, Top
  <1>6. Becoming(t, f)
    <2>1. /\ stack' \in [Threads -> Seq(Frames)]
          /\ \A u \in Threads \ {t} : stack'[u] = stack[u]
          /\ Len(stack'[t]) = Len(s) + 1 /\ Len(s) \in Nat
          /\ \A i \in 1..Len(s) : stack'[t][i] = s[i]
          /\ stack'[t] # <<>> /\ Last(stack'[t]) = f
      <3>1. s \in Seq(Frames) /\ f \in Frames
        BY <1>1, <1>3, <1>4
      <3> QED
        BY <1>5, <3>1, PutIs
    <2> QED
      BY <1>1, <1>4, <2>1 DEF Becoming
  <1> QED
    BY <1>3, <1>6

LEMMA SendIs ==
  ASSUME TypeOK, NEW t \in Threads, stack[t] # <<>>,
         NEW what \in {"fire", "recovered"}, SendNotice(t, what)
  PROVE  \E f \in Frames : f.at = what /\ f.id = Top(t).id /\ f.now = clock /\ Becoming(t, f)
  <1>1. Top(t) \in Frames /\ Front(stack[t]) \in Seq(Frames) /\ Len(stack[t]) \in Nat \ {0}
        /\ Len(Front(stack[t])) = Len(stack[t]) - 1 /\ clock \in Nat
        /\ \A i \in 1..(Len(stack[t]) - 1) : Front(stack[t])[i] = stack[t][i]
    BY TopIs DEF TypeOK
  <1>2. PICK f : f = [Top(t) EXCEPT !.at = what, !.now = clock]
    OBVIOUS
  <1>3. f \in Frames /\ f.at = what /\ f.id = Top(t).id /\ f.now = clock
    BY <1>1, <1>2 DEF Frames
  <1>4. PICK s : s = Front(stack[t])
    OBVIOUS
  <1>5. stack' = [stack EXCEPT ![t] = Append(s, f)]
    BY <1>2, <1>4, Zenon DEF SendNotice, Top
  <1>6. Becoming(t, f)
    <2>1. /\ stack' \in [Threads -> Seq(Frames)]
          /\ \A u \in Threads \ {t} : stack'[u] = stack[u]
          /\ Len(stack'[t]) = Len(s) + 1 /\ Len(s) \in Nat
          /\ \A i \in 1..Len(s) : stack'[t][i] = s[i]
          /\ stack'[t] # <<>> /\ Last(stack'[t]) = f
      <3>1. s \in Seq(Frames) /\ f \in Frames
        BY <1>1, <1>3, <1>4
      <3> QED
        BY <1>5, <3>1, PutIs
    <2> QED
      BY <1>1, <1>4, <2>1 DEF Becoming
  <1> QED
    BY <1>3, <1>6

-----------------------------------------------------------------------------
(* What a step records                                                     *)

\* What an evaluation or a notice makes of the state of its rule.
Verdict(x, old, s, now) ==
    /\ s.consecutive = CASE x = "true" -> old.consecutive + 1
                         [] x = "false" -> 0
                         [] OTHER -> old.consecutive
    /\ s.firing <=> x = "fire" \/ (x # "false" /\ old.firing)
    /\ s.fires = IF x = "fire" THEN old.fires + 1 ELSE old.fires
    /\ s.last_fire = IF x = "fire" THEN now ELSE old.last_fire
    /\ s.errors = CASE x = "error" -> old.errors + 1
                    [] x \in Evaluated -> 0
                    [] OTHER -> old.errors

Whatever == {"error", "unknown", "false", "true", "fire", "recovered"}

\* x is recorded of rule id, whose state becomes s.
Noted(id, x, now, s) ==
    /\ id \in Ids /\ x \in Whatever /\ now \in Nat /\ s \in States
    /\ trace' = [trace EXCEPT ![id] = Append(@, [what |-> x, now |-> now])]
    /\ state' = [state EXCEPT ![id] = s]
    /\ Verdict(x, state[id], s, now)
    /\ enabled' = IF x = "error"
                  THEN [enabled EXCEPT ![id] = @ /\ state[id].errors + 1 < MaxErrors]
                  ELSE enabled

Silent == UNCHANGED <<trace, state, enabled>>

Erred(old) == [old EXCEPT !.errors = @ + 1]
Cleared(old) == [NoError(old) EXCEPT !.consecutive = 0, !.firing = FALSE]
Held(old) == [NoError(old) EXCEPT !.consecutive = @ + 1]

LEMMA ErrorIs ==
  ASSUME NEW old \in States, NEW now \in Nat, NEW s, s = Erred(old)
  PROVE  s \in States /\ Verdict("error", old, s, now)
  <1>1. PICK c \in Nat, f \in BOOLEAN, l \in Nat, n \in Nat, e \in Nat :
          old = [consecutive |-> c, firing |-> f, last_fire |-> l, fires |-> n, errors |-> e]
    BY DEF States
  <1>2. s = [consecutive |-> c, firing |-> f, last_fire |-> l, fires |-> n, errors |-> e + 1]
    BY <1>1 DEF Erred
  <1>3. s \in States
    BY <1>2 DEF States
  <1>4. Verdict("error", old, s, now)
    BY <1>1, <1>2 DEF Verdict, Evaluated
  <1> QED
    BY <1>3, <1>4

LEMMA UnknownIs ==
  ASSUME NEW old \in States, NEW now \in Nat, NEW s, s = NoError(old)
  PROVE  s \in States /\ Verdict("unknown", old, s, now)
  <1>1. PICK c \in Nat, f \in BOOLEAN, l \in Nat, n \in Nat, e \in Nat :
          old = [consecutive |-> c, firing |-> f, last_fire |-> l, fires |-> n, errors |-> e]
    BY DEF States
  <1>2. s = [consecutive |-> c, firing |-> f, last_fire |-> l, fires |-> n, errors |-> 0]
    BY <1>1 DEF NoError
  <1>3. s \in States
    BY <1>2 DEF States
  <1>4. Verdict("unknown", old, s, now)
    BY <1>1, <1>2 DEF Verdict, Evaluated
  <1> QED
    BY <1>3, <1>4

LEMMA ClearIs ==
  ASSUME NEW old \in States, NEW now \in Nat, NEW s, s = Cleared(old)
  PROVE  s \in States /\ Verdict("false", old, s, now)
  <1>1. PICK c \in Nat, f \in BOOLEAN, l \in Nat, n \in Nat, e \in Nat :
          old = [consecutive |-> c, firing |-> f, last_fire |-> l, fires |-> n, errors |-> e]
    BY DEF States
  <1>2. s = [consecutive |-> 0, firing |-> FALSE, last_fire |-> l, fires |-> n, errors |-> 0]
    BY <1>1 DEF Cleared, NoError
  <1>3. s \in States
    BY <1>2 DEF States
  <1>4. Verdict("false", old, s, now)
    BY <1>1, <1>2 DEF Verdict, Evaluated
  <1> QED
    BY <1>3, <1>4

LEMMA HoldIs ==
  ASSUME NEW old \in States, NEW now \in Nat, NEW s, s = Held(old)
  PROVE  s \in States /\ Verdict("true", old, s, now)
  <1>1. PICK c \in Nat, f \in BOOLEAN, l \in Nat, n \in Nat, e \in Nat :
          old = [consecutive |-> c, firing |-> f, last_fire |-> l, fires |-> n, errors |-> e]
    BY DEF States
  <1>2. s = [consecutive |-> c + 1, firing |-> f, last_fire |-> l, fires |-> n, errors |-> 0]
    BY <1>1 DEF Held, NoError
  <1>3. s \in States
    BY <1>2 DEF States
  <1>4. Verdict("true", old, s, now)
    BY <1>1, <1>2 DEF Verdict, Evaluated
  <1> QED
    BY <1>3, <1>4

LEMMA FireIs ==
  ASSUME NEW old \in States, NEW now \in Nat, NEW s, s = Fired(old, now)
  PROVE  s \in States /\ Verdict("fire", old, s, now)
  <1>1. PICK c \in Nat, f \in BOOLEAN, l \in Nat, n \in Nat, e \in Nat :
          old = [consecutive |-> c, firing |-> f, last_fire |-> l, fires |-> n, errors |-> e]
    BY DEF States
  <1>2. s = [consecutive |-> c, firing |-> TRUE, last_fire |-> now, fires |-> n + 1, errors |-> e]
    BY <1>1 DEF Fired
  <1>3. s \in States
    BY <1>2 DEF States
  <1>4. Verdict("fire", old, s, now)
    BY <1>1, <1>2 DEF Verdict, Evaluated
  <1> QED
    BY <1>3, <1>4

LEMMA RecoverIs ==
  ASSUME NEW old \in States, NEW now \in Nat, NEW s, s = old
  PROVE  s \in States /\ Verdict("recovered", old, s, now)
  <1>1. PICK c \in Nat, f \in BOOLEAN, l \in Nat, n \in Nat, e \in Nat :
          old = [consecutive |-> c, firing |-> f, last_fire |-> l, fires |-> n, errors |-> e]
    BY DEF States
  <1>2. s = [consecutive |-> c, firing |-> f, last_fire |-> l, fires |-> n, errors |-> e]
    BY <1>1
  <1>3. s \in States
    BY <1>2 DEF States
  <1>4. Verdict("recovered", old, s, now)
    BY <1>1, <1>2 DEF Verdict, Evaluated
  <1> QED
    BY <1>3, <1>4

\* How thread t comes to record x: its notice is sent, or it has evaluated the
\* rule, whose lock it has, and is done or sends.
By(t, x, now, s) ==
    \/ Sends(Top(t)) /\ x = Top(t).at /\ now = Top(t).now /\ Pop(t)
    \/ /\ Evaluates(t) /\ x \notin {"fire", "recovered"}
       /\ \/ Pop(t)
          \/ x = "true" /\ Due(s, clock) /\ SendNotice(t, "fire")
          \/ x = "false" /\ MyState(t).firing /\ SendNotice(t, "recovered")

\* Each evaluation or notice is of the rule the pass is about, by a pass that
\* holds its lock.
LEMMA NotedBy ==
  ASSUME TypeOK, StacksOK, NEW t \in Threads, Step(t)
  PROVE  \/ (DeliverRow(t) \/ NotSent(t)) /\ Silent
         \/ /\ stack[t] # <<>> /\ ~At(t, "wait")
            /\ \E x \in Whatever, now \in Nat, s \in States :
                 Noted(Top(t).id, x, now, s) /\ By(t, x, now, s)
            /\ UNCHANGED <<rule, reentrant, clock>>
  <1>1. CASE DeliverRow(t) \/ NotSent(t)
    BY <1>1, Zenon DEF DeliverRow, NotSent, AfterFailure, Silent
  <1>2. ASSUME ~DeliverRow(t), ~NotSent(t)
        PROVE  /\ stack[t] # <<>> /\ ~At(t, "wait") /\ UNCHANGED <<rule, reentrant, clock>>
               /\ \E x \in Whatever, now \in Nat, s \in States :
                 Noted(Top(t).id, x, now, s) /\ By(t, x, now, s)
    <2>1. Fails(t) \/ Unknown(t) \/ Clear(t) \/ Hold(t) \/ NoticeSent(t)
      BY <1>2 DEF Step
    <2>2. stack[t] # <<>> /\ ~At(t, "wait") /\ UNCHANGED <<rule, reentrant, clock>>
      BY <2>1 DEF Fails, Unknown, Clear, Hold, NoticeSent, Evaluates, At, ruleVars
    <2>3. Top(t).id \in Ids
      BY <2>2 DEF StacksOK
    <2>4. PICK id : id = Top(t).id
      OBVIOUS
    <2>5. PICK old : old = state[id]
      OBVIOUS
    <2>6. id \in Ids /\ old \in States /\ clock \in Nat /\ MyState(t) = old
      BY <2>3, <2>4, <2>5 DEF TypeOK, MyState
    <2>7. Top(t) \in Frames /\ Top(t).now \in Nat
      BY <2>2, TopIs DEF Frames
    <2>8. CASE Fails(t)
      <3>1. PICK s : s = Erred(old)
        OBVIOUS
      <3>2. /\ state' = [state EXCEPT ![id] = s]
            /\ enabled' = [enabled EXCEPT ![id] = @ /\ s.errors < MaxErrors]
            /\ trace' = [trace EXCEPT ![id] = Append(@, [what |-> "error", now |-> clock])]
        BY <2>4, <2>6, <2>8, <3>1, Zenon DEF Fails, Becomes, Record, Erred
      <3>3. s \in States /\ Verdict("error", old, s, clock) /\ s.errors = old.errors + 1
        <4>1. s \in States /\ Verdict("error", old, s, clock)
          BY <2>6, <3>1, ErrorIs
        <4> QED
          BY <4>1 DEF Verdict, Evaluated
      <3>4. Noted(id, "error", clock, s)
        BY <2>5, <2>6, <3>2, <3>3 DEF Noted, Whatever
      <3>5. By(t, "error", clock, s)
        BY <2>8, Zenon DEF By, Fails
      <3> QED
        BY <2>2, <2>4, <2>6, <3>3, <3>4, <3>5 DEF Whatever
    <2>9. ASSUME NEW x \in {"unknown", "false", "true"}, NEW s \in States, Verdict(x, old, s, clock),
                 Becomes(t, s), Record(t, x, clock), enabled' = enabled, By(t, x, clock, s)
          PROVE  \E y \in Whatever, now \in Nat, r \in States :
                   Noted(Top(t).id, y, now, r) /\ By(t, y, now, r)
      <3>1. Noted(id, x, clock, s)
        BY <2>4, <2>5, <2>6, <2>9 DEF Noted, Whatever, Becomes, Record
      <3> QED
        BY <2>4, <2>6, <2>9, <3>1 DEF Whatever
    <2>10. CASE Unknown(t)
      <3>1. PICK s : s = NoError(old)
        OBVIOUS
      <3>2. Becomes(t, s) /\ Record(t, "unknown", clock) /\ enabled' = enabled
        BY <2>6, <2>10, <3>1, Zenon DEF Unknown
      <3>3. s \in States /\ Verdict("unknown", old, s, clock)
        BY <2>6, <3>1, UnknownIs
      <3>4. By(t, "unknown", clock, s)
        BY <2>10, Zenon DEF By, Unknown
      <3> QED
        BY <2>2, <2>9, <3>2, <3>3, <3>4
    <2>11. CASE Clear(t)
      <3>1. PICK s : s = Cleared(old)
        OBVIOUS
      <3>2. Becomes(t, s) /\ Record(t, "false", clock) /\ enabled' = enabled
        BY <2>6, <2>11, <3>1, Zenon DEF Clear, Cleared
      <3>3. s \in States /\ Verdict("false", old, s, clock)
        BY <2>6, <3>1, ClearIs
      <3>4. By(t, "false", clock, s)
        BY <2>6, <2>11, <3>1, Zenon DEF By, Clear
      <3> QED
        BY <2>2, <2>9, <3>2, <3>3, <3>4
    <2>12. CASE Hold(t)
      <3>1. PICK s : s = Held(old)
        OBVIOUS
      <3>2. Becomes(t, s) /\ Record(t, "true", clock) /\ enabled' = enabled
        BY <2>6, <2>12, <3>1, Zenon DEF Hold, Held
      <3>3. s \in States /\ Verdict("true", old, s, clock)
        BY <2>6, <3>1, HoldIs
      <3>4. By(t, "true", clock, s)
        BY <2>6, <2>12, <3>1, Zenon DEF By, Hold, Held
      <3> QED
        BY <2>2, <2>9, <3>2, <3>3, <3>4
    <2>13. CASE NoticeSent(t)
      <3>1. PICK x, now, s : x = Top(t).at /\ now = Top(t).now
                             /\ s = IF x = "fire" THEN Fired(old, now) ELSE old
        OBVIOUS
      <3>2. /\ state' = [state EXCEPT ![id] = s] /\ enabled' = enabled
            /\ trace' = [trace EXCEPT ![id] = Append(@, [what |-> x, now |-> now])]
            /\ x \in {"fire", "recovered"}
        BY <2>4, <2>6, <2>13, <3>1, Zenon DEF NoticeSent, Becomes, Record
      <3>3. s \in States /\ Verdict(x, old, s, now) /\ now \in Nat
        <4>1. now \in Nat
          BY <2>7, <3>1
        <4>2. x = "fire" => s \in States /\ Verdict("fire", old, s, now)
          BY <2>6, <3>1, <4>1, FireIs
        <4>3. x = "recovered" => s \in States /\ Verdict("recovered", old, s, now)
          BY <2>6, <3>1, <4>1, RecoverIs
        <4> QED
          BY <3>2, <4>1, <4>2, <4>3
      <3>4. Noted(id, x, now, s)
        BY <2>5, <2>6, <3>2, <3>3 DEF Noted, Whatever
      <3>5. By(t, x, now, s)
        BY <2>13, <3>1, Zenon DEF By, NoticeSent, Sends
      <3> QED
        BY <2>2, <2>4, <3>2, <3>3, <3>4, <3>5 DEF Whatever
    <2> QED
      BY <2>1, <2>2, <2>8, <2>10, <2>11, <2>12, <2>13
  <1> QED
    BY <1>1, <1>2

-----------------------------------------------------------------------------
(* What a step does to the stacks                                          *)

\* A new pass on top, of the rows or the watchdog.
Begins(t) ==
    /\ stack[t] = <<>> \/ (reentrant /\ Sends(Top(t)))
    /\ \E f \in Frames : /\ f.at = "wait" \/ (f.at = "lock" /\ f.id \in Ids)
                         /\ stack' = [stack EXCEPT ![t] = Append(stack[t], f)]
\* The pass has selected its rule.
Selects(t) ==
    /\ stack[t] # <<>> /\ ~Sends(Top(t))
    /\ \E f \in Frames : f.at = "lock" /\ f.id \in Ids /\ Becoming(t, f)
\* The pass sends, with the lock of its rule.
Notifies(t) ==
    /\ Evaluates(t)
    /\ \E f \in Frames : Sends(f) /\ f.id = Top(t).id /\ Becoming(t, f)
\* The pass is over.
Ends(t) == stack[t] # <<>> /\ Pop(t)

LEMMA StackKinds ==
  ASSUME TypeOK, NEW t \in Threads, Log(t) \/ (t = Dog /\ Tick) \/ Step(t)
  PROVE  Begins(t) \/ Selects(t) \/ Notifies(t) \/ Ends(t)
  <1>1. table # 0 => table \in Ids
    BY RulesAssumption DEF TypeOK, Ids
  <1>0. table \in 0..MaxRules
    BY DEF TypeOK
  <1>2. CASE Log(t)
    <2>1. PICK f : f = [at |-> "wait", id |-> 0, step |-> TRUE, now |-> 0]
      OBVIOUS
    <2>2. f \in Frames /\ f.at = "wait"
      BY <2>1, RulesAssumption DEF Frames
    <2>3. stack' = [stack EXCEPT ![t] = Append(stack[t], f)]
      BY <1>2, <2>1, Zenon DEF Log, PushFrame
    <2>4. stack[t] = <<>> \/ (reentrant /\ Sends(Top(t)))
      BY <1>2, Zenon DEF Log, Sends
    <2> QED
      BY <2>2, <2>3, <2>4, Zenon DEF Begins
  <1>3. CASE t = Dog /\ Tick
    <2>1. PICK f : f = [at |-> "lock", id |-> table, step |-> FALSE, now |-> 0]
      OBVIOUS
    <2>2. f \in Frames /\ f.at = "lock" /\ f.id = table
      BY <1>0, <2>1 DEF Frames
    <2>3. stack' = [stack EXCEPT ![t] = Append(stack[t], f)] /\ stack[t] = <<>> /\ table # 0
      BY <1>3, <2>1, Zenon DEF Tick, PushFrame, Selected
    <2> QED
      BY <1>1, <2>2, <2>3, Zenon DEF Begins
  <1>4. CASE DeliverRow(t)
    <2>1. stack[t] # <<>> /\ Top(t).at = "wait"
      BY <1>4, Zenon DEF DeliverRow, At
    <2>2. ~Sends(Top(t))
      BY <2>1 DEF Sends
    <2>3. CASE Selected
      <3>1. Resume(t, "lock", table) /\ table \in Ids
        BY <1>1, <1>4, <2>3, Zenon DEF DeliverRow, Selected
      <3>2. \E f \in Frames : f.at = "lock" /\ f.id = table /\ f.step = Top(t).step /\ Becoming(t, f)
        BY <1>0, <2>1, <3>1, ResumeIs
      <3> QED
        BY <2>1, <2>2, <3>1, <3>2, Zenon DEF Selects
    <2>4. CASE ~Selected
      BY <1>4, <2>1, <2>4, Zenon DEF DeliverRow, Ends
    <2> QED
      BY <2>3, <2>4
  <1>5. ASSUME NEW what \in {"fire", "recovered"}, Evaluates(t), SendNotice(t, what) PROVE Notifies(t)
    <2>1. stack[t] # <<>>
      BY <1>5, Zenon DEF Evaluates, At
    <2>2. PICK f \in Frames : f.at = what /\ f.id = Top(t).id /\ f.now = clock /\ Becoming(t, f)
      BY <1>5, <2>1, SendIs
    <2> QED
      BY <1>5, <2>2 DEF Notifies, Sends
  <1>6. CASE Fails(t) \/ Unknown(t) \/ NoticeSent(t) \/ NotSent(t)
    BY <1>6, Zenon DEF Fails, Unknown, NoticeSent, NotSent, Evaluates, At, Ends
  <1>7. CASE Clear(t)
    <2>1. Evaluates(t) /\ (SendNotice(t, "recovered") \/ Pop(t)) /\ stack[t] # <<>>
      BY <1>7, Zenon DEF Clear, Evaluates, At
    <2> QED
      BY <1>5, <2>1 DEF Ends
  <1>8. CASE Hold(t)
    <2>1. Evaluates(t) /\ (SendNotice(t, "fire") \/ Pop(t)) /\ stack[t] # <<>>
      BY <1>8, Zenon DEF Hold, Evaluates, At
    <2> QED
      BY <1>5, <2>1 DEF Ends
  <1> QED
    BY <1>2, <1>3, <1>4, <1>6, <1>7, <1>8, Zenon DEF Step

LEMMA StackStep ==
  ASSUME TypeOK, StacksOK, NEW t \in Threads, Begins(t) \/ Selects(t) \/ Notifies(t) \/ Ends(t),
         reentrant' = reentrant
  PROVE  stack' \in [Threads -> Seq(Frames)] /\ StacksOK'
  <1> DEFINE Below(s) == \A i \in 1..Len(s) : i < Len(s) => Sends(s[i]) /\ s[i].id \in Ids
             Owned(s) == s # <<>> /\ Last(s).at # "wait" => Last(s).id \in Ids
  <1>1. /\ \A u \in Threads : Owned(stack[u]) /\ Below(stack[u])
        /\ ~reentrant => \A u \in Threads : Len(stack[u]) <= 1
        /\ ~reentrant => \A u, v \in Threads :
             stack[u] # <<>> /\ stack[v] # <<>> /\ Sends(Last(stack[u])) /\ Sends(Last(stack[v]))
             /\ Last(stack[u]).id = Last(stack[v]).id => u = v
    BY Zenon DEF StacksOK, At, Top
  <1>2. \A u \in Threads : stack[u] \in Seq(Frames) /\ Len(stack[u]) \in Nat
    BY DEF TypeOK
  <1>3. SUFFICES ASSUME TRUE
                 PROVE  /\ stack' \in [Threads -> Seq(Frames)]
                        /\ \A u \in Threads \ {t} : stack'[u] = stack[u]
                        /\ Owned(stack'[t]) /\ Below(stack'[t])
                        /\ ~reentrant => Len(stack'[t]) <= 1
                        /\ ~reentrant /\ stack'[t] # <<>> /\ Sends(Last(stack'[t])) =>
                             \A u \in Threads \ {t} :
                               stack[u] # <<>> /\ Sends(Last(stack[u])) =>
                                 Last(stack[u]).id # Last(stack'[t]).id
    <2>1. \A u \in Threads : Owned(stack'[u]) /\ Below(stack'[u])
      BY <1>1, <1>3
    <2>2. ~reentrant => \A u \in Threads : Len(stack'[u]) <= 1
      BY <1>1, <1>3
    <2>3. ~reentrant => \A u, v \in Threads :
             stack'[u] # <<>> /\ stack'[v] # <<>> /\ Sends(Last(stack'[u])) /\ Sends(Last(stack'[v]))
             /\ Last(stack'[u]).id = Last(stack'[v]).id => u = v
      BY <1>1, <1>3
    <2> QED
      BY <1>3, <2>1, <2>2, <2>3, Zenon DEF StacksOK, At, Top
  <1>4. CASE Begins(t)
    <2>1. PICK f \in Frames : /\ f.at = "wait" \/ (f.at = "lock" /\ f.id \in Ids)
                              /\ stack' = [stack EXCEPT ![t] = Append(stack[t], f)]
      BY <1>4 DEF Begins
    <2>2. PICK s \in Seq(Frames) : s = stack[t]
      BY <1>2
    <2>3. /\ stack' \in [Threads -> Seq(Frames)]
          /\ \A u \in Threads \ {t} : stack'[u] = stack[u]
          /\ Len(stack'[t]) = Len(s) + 1 /\ Len(s) \in Nat
          /\ \A i \in 1..Len(s) : stack'[t][i] = s[i]
          /\ stack'[t] # <<>> /\ Last(stack'[t]) = f
      <3>1. stack' = [stack EXCEPT ![t] = Append(s, f)]
        BY <2>1, <2>2
      <3> QED
        BY <3>1, PutIs
    <2>4. Owned(stack'[t]) /\ ~Sends(f)
      BY <2>1, <2>3 DEF Sends
    <2>5. s # <<>> => Sends(Last(s)) /\ Last(s).id \in Ids /\ reentrant /\ Last(s) = s[Len(s)]
      BY <1>1, <1>4, <2>2, LastIs DEF Begins, Top, Sends
    <2>6. Below(stack'[t])
      <3>1. ASSUME NEW i \in 1..Len(stack'[t]), i < Len(stack'[t])
            PROVE  Sends(stack'[t][i]) /\ stack'[t][i].id \in Ids
        <4>1. i \in 1..Len(s) /\ stack'[t][i] = s[i]
          BY <2>3, <3>1
        <4>2. CASE i < Len(s)
          BY <1>1, <2>2, <4>1, <4>2
        <4>3. CASE i = Len(s)
          <5>1. s # <<>>
            BY <4>1
          <5> QED
            BY <2>5, <4>1, <4>3, <5>1
        <4> QED
          BY <2>3, <4>1, <4>2, <4>3
      <3> QED
        BY <3>1
    <2>7. ~reentrant => Len(stack'[t]) <= 1
      <3>1. ~reentrant => s = <<>>
        BY <1>4, <2>2 DEF Begins
      <3> QED
        BY <2>3, <3>1
    <2> QED
      BY <2>3, <2>4, <2>6, <2>7
  <1>5. ASSUME NEW f \in Frames, Becoming(t, f), f.id \in Ids,
               Sends(f) /\ ~reentrant => \A u \in Threads \ {t} : stack[u] # <<>> /\ Sends(Last(stack[u])) =>
                              Last(stack[u]).id # f.id
        PROVE  /\ stack' \in [Threads -> Seq(Frames)]
               /\ \A u \in Threads \ {t} : stack'[u] = stack[u]
               /\ Owned(stack'[t]) /\ Below(stack'[t])
               /\ ~reentrant => Len(stack'[t]) <= 1
               /\ ~reentrant /\ stack'[t] # <<>> /\ Sends(Last(stack'[t])) =>
                    \A u \in Threads \ {t} :
                      stack[u] # <<>> /\ Sends(Last(stack[u])) =>
                        Last(stack[u]).id # Last(stack'[t]).id
    <2>1. /\ stack' \in [Threads -> Seq(Frames)]
          /\ \A u \in Threads \ {t} : stack'[u] = stack[u]
          /\ Len(stack'[t]) = Len(stack[t]) /\ Len(stack[t]) \in Nat \ {0}
          /\ \A i \in 1..(Len(stack[t]) - 1) : stack'[t][i] = stack[t][i]
          /\ stack'[t] # <<>> /\ Last(stack'[t]) = f
      BY <1>5, Zenon DEF Becoming
    <2>2. Below(stack'[t])
      <3>1. ASSUME NEW i \in 1..Len(stack'[t]), i < Len(stack'[t])
            PROVE  Sends(stack'[t][i]) /\ stack'[t][i].id \in Ids
        <4>1. i \in 1..(Len(stack[t]) - 1) /\ i \in 1..Len(stack[t]) /\ i < Len(stack[t])
          BY <2>1, <3>1
        <4>2. Below(stack[t])
          BY <1>1
        <4> QED
          BY <2>1, <4>1, <4>2
      <3> QED
        BY <3>1
    <2>3. ~reentrant => Len(stack'[t]) <= 1
      BY <1>1, <2>1
    <2> QED
      BY <1>5, <2>1, <2>2, <2>3
  <1>6. CASE Selects(t)
    <2>1. PICK f \in Frames : f.at = "lock" /\ f.id \in Ids /\ Becoming(t, f)
      BY <1>6 DEF Selects
    <2>2. ~Sends(f)
      BY <2>1 DEF Sends
    <2> QED
      BY <1>5, <2>1, <2>2
  <1>7. CASE Notifies(t)
    <2>1. PICK f \in Frames : Sends(f) /\ f.id = Top(t).id /\ Becoming(t, f)
      BY <1>7 DEF Notifies
    <2>2. stack[t] # <<>> /\ Top(t).at = "lock" /\ Free(t, Top(t).id)
      BY <1>7 DEF Notifies, Evaluates, At
    <2>3. f.id \in Ids
      BY <1>1, <2>1, <2>2 DEF Top
    <2>4. ASSUME NEW u \in Threads \ {t}, stack[u] # <<>>, Sends(Last(stack[u])) PROVE Last(stack[u]).id # f.id
      <3>1. Last(stack[u]) = stack[u][Len(stack[u])] /\ Len(stack[u]) \in Nat \ {0}
        BY <1>2, <2>4, LastIs
      <3>2. PICK n : n = Len(stack[u])
        OBVIOUS
      <3>3. n \in 1..Len(stack[u]) /\ Last(stack[u]) = stack[u][n]
        BY <3>1, <3>2
      <3>4. stack[u][n].id = Top(t).id => stack[u][n].at \in {"wait", "lock"}
        BY <2>2, <3>3 DEF Free
      <3> QED
        BY <2>1, <2>4, <3>3, <3>4 DEF Sends
    <2> QED
      BY <1>5, <2>1, <2>3, <2>4
  <1>8. CASE Ends(t)
    <2>1. /\ stack' \in [Threads -> Seq(Frames)]
          /\ \A u \in Threads \ {t} : stack'[u] = stack[u]
          /\ Len(stack'[t]) = Len(stack[t]) - 1
          /\ \A i \in 1..Len(stack'[t]) : stack'[t][i] = stack[t][i]
          /\ stack'[t] = <<>> \/ Last(stack'[t]) = stack[t][Len(stack[t]) - 1]
      BY <1>8, PopIs DEF Ends
    <2>2. Len(stack'[t]) \in Nat /\ stack'[t] \in Seq(Frames) /\ Len(stack[t]) \in Nat
      BY <1>2, <2>1
    <2>3. Owned(stack'[t])
      <3>1. SUFFICES ASSUME stack'[t] # <<>> PROVE Last(stack'[t]).id \in Ids
        OBVIOUS
      <3>2. PICK n : n = Len(stack[t]) - 1
        OBVIOUS
      <3>3. n \in 1..Len(stack[t]) /\ n < Len(stack[t])
        BY <2>1, <2>2, <3>1, <3>2
      <3>4. Below(stack[t])
        BY <1>1
      <3>5. stack[t][n].id \in Ids
        BY <3>3, <3>4
      <3> QED
        BY <2>1, <3>1, <3>2, <3>5
    <2>4. Below(stack'[t])
      <3>1. ASSUME NEW i \in 1..Len(stack'[t]) PROVE Sends(stack'[t][i]) /\ stack'[t][i].id \in Ids
        <4>1. i \in 1..Len(stack[t]) /\ i < Len(stack[t]) /\ stack'[t][i] = stack[t][i]
          BY <2>1, <2>2
        <4>2. Below(stack[t])
          BY <1>1
        <4> QED
          BY <4>1, <4>2
      <3> QED
        BY <3>1
    <2>5. ~reentrant => stack'[t] = <<>>
      <3>1. PICK n : n = Len(stack[t])
        OBVIOUS
      <3>2. PICK m : m = Len(stack'[t])
        OBVIOUS
      <3>3. n \in Nat /\ m \in Nat /\ m = n - 1
        BY <2>1, <2>2, <3>1, <3>2, Zenon
      <3>4. ~reentrant => n <= 1
        BY <1>1, <3>1, Zenon
      <3>5. ~reentrant => m = 0
        BY <3>3, <3>4
      <3> QED
        BY <2>2, <3>2, <3>5
    <2>6. ~reentrant => Len(stack'[t]) <= 1
      BY <2>5
    <2> QED
      BY <2>1, <2>3, <2>4, <2>5, <2>6
  <1> QED
    BY <1>4, <1>6, <1>7, <1>8

\* A step of the rule itself, the clock or the table leaves the passes alone.
LEMMA StepKinds ==
  ASSUME Next
  PROVE  \/ \E t \in Threads : Step(t)
         \/ Silent /\ \E t \in Threads : Log(t) \/ (t = Dog /\ Tick)
         \/ Silent /\ UNCHANGED stack
  BY RulesAssumption, Zenon DEF Next, Tick, AddRule, RemoveRule, Advance, Log, Silent

LEMMA Scalars ==
  ASSUME TypeOK, Next
  PROVE  UNCHANGED <<rule, reentrant>> /\ table' \in 0..MaxRules /\ added' \in Nat /\ clock' \in Nat
  <1>1. table \in 0..MaxRules /\ added \in Nat /\ clock \in Nat /\ MaxRules \in Nat \ {0}
    BY RulesAssumption DEF TypeOK
  <1>2. ASSUME NEW t \in Threads, Log(t) \/ Step(t)
        PROVE  UNCHANGED <<rule, reentrant, table, added, clock>>
    BY <1>2, Zenon DEF Log, Step, DeliverRow, Fails, Unknown, Clear, Hold, NoticeSent, NotSent, ruleVars
  <1>3. CASE Tick
    BY <1>1, <1>3, Zenon DEF Tick, ruleVars
  <1>4. CASE AddRule
    BY <1>1, <1>4 DEF AddRule, ruleVars
  <1>5. CASE RemoveRule
    BY <1>1, <1>5 DEF RemoveRule, ruleVars
  <1>6. CASE Advance
    BY <1>1, <1>6 DEF Advance, ruleVars
  <1> QED
    BY <1>1, <1>2, <1>3, <1>4, <1>5, <1>6, Zenon DEF Next

\* What a step records keeps the types.
LEMMA NotedTypes ==
  ASSUME TypeOK, NEW id, NEW x, NEW now, NEW s, Noted(id, x, now, s),
         NEW e, e = [what |-> x, now |-> now]
  PROVE  /\ enabled' \in [Ids -> BOOLEAN] /\ state' \in [Ids -> States]
         /\ trace' \in [Ids -> Seq(Events)]
         /\ trace'[id] = Append(trace[id], e)
         /\ e \in Events
         /\ state'[id] = s
         /\ \A i \in Ids \ {id} : trace'[i] = trace[i] /\ state'[i] = state[i] /\ enabled'[i] = enabled[i]
         /\ enabled'[id] = (enabled[id] /\ (x = "error" => state[id].errors + 1 < MaxErrors))
  <1>2. e \in Events
    BY DEF Noted, Events, Whatever
  <1>3. PICK q : q = Append(trace[id], e)
    OBVIOUS
  <1>4. q \in Seq(Events) /\ id \in Ids /\ s \in States
    BY <1>2, <1>3, AppendProperties DEF Noted, TypeOK
  <1>5. trace' = [trace EXCEPT ![id] = q] /\ state' = [state EXCEPT ![id] = s]
    BY <1>3, Zenon DEF Noted
  <1>6. trace \in [Ids -> Seq(Events)] /\ state \in [Ids -> States] /\ enabled \in [Ids -> BOOLEAN]
    BY DEF TypeOK
  <1>7. PICK b \in BOOLEAN : b = (enabled[id] /\ (x = "error" => state[id].errors + 1 < MaxErrors))
    OBVIOUS
  <1>8. enabled' \in [Ids -> BOOLEAN] /\ enabled'[id] = b
        /\ \A i \in Ids \ {id} : enabled'[i] = enabled[i]
    <2>1. CASE x = "error"
      <3>1. enabled' = [enabled EXCEPT ![id] = b]
        BY <1>7, <2>1, Zenon DEF Noted
      <3> QED
        BY <1>4, <1>6, <3>1
    <2>2. CASE x # "error"
      <3>1. enabled' = enabled
        BY <2>2 DEF Noted
      <3>2. enabled[id] \in BOOLEAN
        BY <1>4, <1>6
      <3>3. b = enabled[id]
        BY <1>7, <2>2, <3>2, Zenon
      <3> QED
        BY <1>6, <3>1, <3>3
    <2> QED
      BY <2>1, <2>2
  <1>9. /\ trace' \in [Ids -> Seq(Events)] /\ state' \in [Ids -> States]
        /\ trace'[id] = q /\ state'[id] = s
        /\ \A i \in Ids \ {id} : trace'[i] = trace[i] /\ state'[i] = state[i]
    BY <1>4, <1>5, <1>6
  <1> QED
    BY <1>2, <1>3, <1>7, <1>8, <1>9

LEMMA TypesKept ==
  ASSUME TypeOK, StacksOK, [Next]_vars
  PROVE  TypeOK' /\ StacksOK'
  <1>1. CASE UNCHANGED vars
    BY <1>1, Zenon DEF vars, ruleVars, TypeOK, StacksOK, At, Top
  <1>2. CASE Next
    <2>1. UNCHANGED <<rule, reentrant>> /\ table' \in 0..MaxRules /\ added' \in Nat /\ clock' \in Nat
      BY <1>2, Scalars
    <2>2. rule \in Rules /\ reentrant \in BOOLEAN
      BY DEF TypeOK
    <2>3. stack' \in [Threads -> Seq(Frames)] /\ StacksOK'
      <3>1. ASSUME NEW t \in Threads, Log(t) \/ (t = Dog /\ Tick) \/ Step(t)
            PROVE  stack' \in [Threads -> Seq(Frames)] /\ StacksOK'
        <4>1. Begins(t) \/ Selects(t) \/ Notifies(t) \/ Ends(t)
          BY <3>1, StackKinds
        <4> QED
          BY <2>1, <4>1, StackStep
      <3>2. ASSUME UNCHANGED stack PROVE stack' \in [Threads -> Seq(Frames)] /\ StacksOK'
        <4>1. stack' \in [Threads -> Seq(Frames)]
          BY <3>2 DEF TypeOK
        <4>2. StacksOK'
          BY <2>1, <3>2, Zenon DEF StacksOK, At, Top
        <4> QED
          BY <4>1, <4>2
      <3> QED
        BY <1>2, <3>1, <3>2, StepKinds
    <2>4. enabled' \in [Ids -> BOOLEAN] /\ state' \in [Ids -> States] /\ trace' \in [Ids -> Seq(Events)]
      <3>1. CASE Silent
        BY <3>1 DEF Silent, TypeOK
      <3>2. ASSUME NEW t \in Threads, Step(t), ~Silent
            PROVE  enabled' \in [Ids -> BOOLEAN] /\ state' \in [Ids -> States]
                   /\ trace' \in [Ids -> Seq(Events)]
        <4>1. PICK x \in Whatever, now \in Nat, s \in States : Noted(Top(t).id, x, now, s)
          BY <3>2, NotedBy
        <4>2. PICK e : e = [what |-> x, now |-> now]
          OBVIOUS
        <4> QED
          BY <4>1, <4>2, NotedTypes, Zenon
      <3> QED
        BY <1>2, <3>1, <3>2, StepKinds
    <2> QED
      BY <2>1, <2>2, <2>3, <2>4 DEF TypeOK
  <1> QED
    BY <1>1, <1>2

LEMMA TypesInit ==
  ASSUME Init
  PROVE  TypeOK /\ StacksOK
  <1>1. NewState \in States
    BY DEF NewState, States
  <1>2. MaxRules \in Nat \ {0}
    BY RulesAssumption
  <1>3. TypeOK
    <2>1. table \in 0..MaxRules /\ added \in Nat /\ clock \in Nat
      BY <1>2 DEF Init
    <2>2. enabled \in [Ids -> BOOLEAN] /\ state \in [Ids -> States]
      BY <1>1 DEF Init
    <2>3. stack \in [Threads -> Seq(Frames)] /\ trace \in [Ids -> Seq(Events)]
      BY DEF Init
    <2> QED
      BY <2>1, <2>2, <2>3, Zenon DEF TypeOK, Init
  <1>4. \A t \in Threads : stack[t] = <<>> /\ Len(stack[t]) = 0
    BY DEF Init
  <1>5. StacksOK
    BY <1>4 DEF StacksOK, At
  <1> QED
    BY <1>3, <1>5

(* Every variable keeps its type: passes are of compiled rules, and what   *)
(* is recorded of a rule are evaluations and notices.                      *)
THEOREM TypeCorrect == Spec => []TypeOK
  <1>1. Init => TypeOK /\ StacksOK
    BY TypesInit
  <1>2. TypeOK /\ StacksOK /\ [Next]_vars => TypeOK' /\ StacksOK'
    BY TypesKept
  <1> QED
    BY <1>1, <1>2, PTL DEF Spec

-----------------------------------------------------------------------------
(* What the state of a rule says of its trace                              *)

WhatsOf(q) == [i \in 1..Len(q) |-> q[i].what]

\* The books of a rule agree with what happened to it.
Booked(w, s, on) ==
    /\ s.fires = Tally(w, 1, Len(w), "fire")
    /\ Holding(w, s.consecutive)
    /\ s.firing <=> OnFire(w)
    /\ Failing(w, s.errors)
    /\ ~on <=> Failed(w)

BooksOK == \A id \in Ids : Booked(WhatsOf(trace[id]), state[id], enabled[id])

LEMMA WhatsGrow ==
  ASSUME NEW q \in Seq(Events), NEW e \in Events
  PROVE  /\ Grown(WhatsOf(q), WhatsOf(Append(q, e)), e.what)
         /\ Len(WhatsOf(q)) = Len(q) /\ Len(q) \in Nat
         /\ Len(Append(q, e)) = Len(q) + 1
         /\ Append(q, e)[Len(q) + 1] = e
         /\ \A i \in 1..Len(q) : Append(q, e)[i] = q[i]
  <1>1. PICK r : r = Append(q, e)
    OBVIOUS
  <1>2. PICK n \in Nat : n = Len(q)
    OBVIOUS
  <1>3. Len(r) = n + 1 /\ r[n + 1] = e /\ \A i \in 1..n : r[i] = q[i]
    BY <1>1, <1>2, AppendProperties
  <1>4. PICK w, v : w = WhatsOf(q) /\ v = WhatsOf(r)
    OBVIOUS
  <1>5. w = [i \in 1..n |-> q[i].what] /\ v = [i \in 1..(n + 1) |-> r[i].what]
    BY <1>2, <1>3, <1>4, Zenon DEF WhatsOf
  <1>6. Len(w) = n /\ Len(v) = n + 1
    BY <1>2, <1>5
  <1>7. v[n + 1] = e.what /\ \A i \in 1..n : v[i] = w[i]
    BY <1>2, <1>3, <1>5
  <1>8. Grown(w, v, e.what)
    BY <1>2, <1>6, <1>7 DEF Grown
  <1> QED
    BY <1>1, <1>2, <1>3, <1>4, <1>6, <1>8

LEMMA BookedOnce ==
  ASSUME NEW w, NEW v, NEW x \in Whatever, Grown(w, v, x), NEW old \in States, NEW s \in States,
         NEW now, Verdict(x, old, s, now), NEW on \in BOOLEAN, NEW b \in BOOLEAN,
         b <=> (on /\ (x = "error" => old.errors + 1 < MaxErrors)), Booked(w, old, on)
  PROVE  Booked(v, s, b)
  <1>1. PICK c \in Nat, f \in BOOLEAN, l, n \in Nat, e \in Nat :
          c = old.consecutive /\ f = old.firing /\ l = old.last_fire /\ n = old.fires /\ e = old.errors
    BY DEF States
  <1>2. /\ n = Tally(w, 1, Len(w), "fire") /\ Holding(w, c) /\ (f <=> OnFire(w))
        /\ Failing(w, e) /\ (~on <=> Failed(w))
    BY <1>1, Zenon DEF Booked
  <1>3. s.fires = Tally(v, 1, Len(v), "fire")
    <2>1. 1 \in 1..(Len(w) + 1)
      BY DEF Grown
    <2>2. Tally(v, 1, Len(v), "fire") = n + IF x = "fire" THEN 1 ELSE 0
      BY <1>2, <2>1, CountLast
    <2> QED
      BY <1>1, <2>2 DEF Verdict
  <1>4. Holding(v, s.consecutive)
    <2>1. /\ x = "true" => Holding(v, c + 1)
          /\ x = "false" => Holding(v, 0)
          /\ x \notin {"true", "false"} => Holding(v, c)
      BY <1>2, HoldingGrows
    <2> QED
      BY <1>1, <2>1 DEF Verdict
  <1>5. s.firing <=> OnFire(v)
    <2>1. /\ x = "fire" => OnFire(v)
          /\ x = "false" => ~OnFire(v)
          /\ x \notin {"fire", "false"} => (OnFire(v) <=> OnFire(w))
      BY OnFireGrows
    <2>2. s.firing <=> x = "fire" \/ (x # "false" /\ f)
      BY <1>1, Zenon DEF Verdict
    <2> QED
      BY <1>2, <2>1, <2>2
  <1>6. Failing(v, s.errors)
    <2>1. /\ x = "error" => Failing(v, e + 1)
          /\ x \in Evaluated => Failing(v, 0)
          /\ x \notin Evaluated \cup {"error"} => Failing(v, e)
      BY <1>2, FailingGrows
    <2>2. "error" \notin Evaluated
      BY DEF Evaluated
    <2> QED
      BY <1>1, <2>1, <2>2 DEF Verdict
  <1>7. ~b <=> Failed(v)
    <2>1. Failed(v) <=> (Failed(w) \/ (x = "error" /\ e + 1 >= MaxErrors))
      BY <1>2, FailedGrows
    <2>2. e + 1 >= MaxErrors <=> ~(e + 1 < MaxErrors)
      BY RulesAssumption
    <2>3. b <=> (on /\ (x = "error" => e + 1 < MaxErrors))
      BY <1>1
    <2> QED
      BY <1>2, <2>1, <2>2, <2>3, Zenon
  <1> QED
    BY <1>3, <1>4, <1>5, <1>6, <1>7, Zenon DEF Booked

LEMMA BooksInit ==
  ASSUME Init
  PROVE  BooksOK
  <1>1. SUFFICES ASSUME NEW id \in Ids PROVE Booked(WhatsOf(trace[id]), state[id], enabled[id])
    BY DEF BooksOK
  <1>2. PICK w : w = WhatsOf(trace[id])
    OBVIOUS
  <1>3. trace[id] = <<>> /\ state[id] = NewState /\ enabled[id]
    BY DEF Init
  <1>4. Len(w) = 0
    BY <1>2, <1>3 DEF WhatsOf
  <1>5. Tally(w, 1, 0, "fire") = 0 /\ Tally(w, 1, 0, "true") = 0 /\ Tally(w, 1, 0, "error") = 0
    <2>1. PICK a \in Nat, b \in Nat : a = 1 /\ b = 0
      OBVIOUS
    <2>2. a > b
      BY <2>1
    <2>3. ASSUME NEW y PROVE Tally(w, a, b, y) = 0
      BY <2>2, CountNat, Zenon
    <2> QED
      BY <2>1, <2>3
  <1>6. Holding(w, 0) /\ Failing(w, 0)
    BY <1>4, <1>5 DEF Holding, Failing
  <1>7. ~OnFire(w) /\ ~Failed(w)
    BY <1>4 DEF OnFire, Failed
  <1> QED
    BY <1>2, <1>3, <1>4, <1>5, <1>6, <1>7 DEF Booked, NewState

LEMMA BooksKept ==
  ASSUME TypeOK, StacksOK, BooksOK, [Next]_vars
  PROVE  BooksOK'
  <1>1. CASE UNCHANGED <<trace, state, enabled>>
    BY <1>1, Zenon DEF BooksOK
  <1>2. ASSUME NEW t \in Threads, Step(t), ~Silent PROVE BooksOK'
    <2>1. PICK x \in Whatever, now \in Nat, s \in States : Noted(Top(t).id, x, now, s)
      BY <1>2, NotedBy
    <2>2. PICK id : id = Top(t).id
      OBVIOUS
    <2>3. PICK e : e = [what |-> x, now |-> now]
      OBVIOUS
    <2>4. Noted(id, x, now, s)
      BY <2>1, <2>2
    <2>5. /\ trace'[id] = Append(trace[id], e) /\ e \in Events /\ state'[id] = s
          /\ \A i \in Ids \ {id} : trace'[i] = trace[i] /\ state'[i] = state[i] /\ enabled'[i] = enabled[i]
          /\ enabled'[id] = (enabled[id] /\ (x = "error" => state[id].errors + 1 < MaxErrors))
          /\ enabled' \in [Ids -> BOOLEAN]
      BY <2>3, <2>4, NotedTypes
    <2>6. id \in Ids /\ trace[id] \in Seq(Events) /\ state[id] \in States /\ enabled[id] \in BOOLEAN
          /\ enabled'[id] \in BOOLEAN /\ Verdict(x, state[id], s, now)
      BY <2>4, <2>5 DEF Noted, TypeOK
    <2>7. PICK w, v : w = WhatsOf(trace[id]) /\ v = WhatsOf(Append(trace[id], e))
      OBVIOUS
    <2>8. Grown(w, v, x)
      <3>1. Grown(w, v, e.what)
        BY <2>5, <2>6, <2>7, WhatsGrow
      <3> QED
        BY <2>3, <3>1
    <2>9. Booked(w, state[id], enabled[id])
      BY <2>6, <2>7 DEF BooksOK
    <2>10. PICK old \in States, on \in BOOLEAN, b \in BOOLEAN :
             old = state[id] /\ on = enabled[id] /\ b = enabled'[id]
      BY <2>6
    <2>11. b <=> (on /\ (x = "error" => old.errors + 1 < MaxErrors))
      BY <2>5, <2>10, Zenon
    <2>12. Booked(v, s, b)
      BY <2>6, <2>8, <2>9, <2>10, <2>11, BookedOnce
    <2>13. ASSUME NEW i \in Ids PROVE Booked(WhatsOf(trace'[i]), state'[i], enabled'[i])
      <3>1. CASE i = id
        BY <2>5, <2>7, <2>10, <2>12, <3>1, Zenon
      <3>2. CASE i # id
        BY <2>5, <3>2, Zenon DEF BooksOK
      <3> QED
        BY <3>1, <3>2
    <2> QED
      BY <2>13, Zenon DEF BooksOK
  <1> QED
    BY <1>1, <1>2, StepKinds, Zenon DEF Silent, vars

(* A rule is disabled exactly when it failed MaxErrors times with no       *)
(* evaluation in between.                                                  *)
THEOREM DisabledByErrors == Spec => []DisabledForErrors
  <1>1. Init => TypeOK /\ StacksOK /\ BooksOK
    BY TypesInit, BooksInit
  <1>2. TypeOK /\ StacksOK /\ BooksOK /\ [Next]_vars => TypeOK' /\ StacksOK' /\ BooksOK'
    BY TypesKept, BooksKept
  <1>3. BooksOK => DisabledForErrors
    BY Zenon DEF BooksOK, Booked, Failed, WhatsOf, DisabledForErrors, Whats
  <1> QED
    BY <1>1, <1>2, <1>3, PTL DEF Spec

-----------------------------------------------------------------------------
(* Episodes and what a fire took, position by position                     *)

\* The rule r is due; its fires in level mode are no later than the last.
DueBy(r, s, now) ==
    /\ s.consecutive >= r.for_steps
    /\ r.edge => ~s.firing
    /\ ~r.edge /\ s.fires > 0 => now - s.last_fire >= r.cooldown
    /\ s.fires < r.max_fires
Dated(r, q, w, s) == ~r.edge => \A i \in 1..Len(w) : w[i] = "fire" => q[i].now <= s.last_fire

\* The condition has just cleared, and the rule had fired.
Recovering(w) ==
    /\ Len(w) > 0 /\ w[Len(w)] = "false"
    /\ \E i \in 1..(Len(w) - 1) : w[i] = "fire" /\ \A k \in i..(Len(w) - 1) : w[k] # "false"

EpisodeAt(r, w, j) ==
    /\ r.edge /\ w[j] = "fire" =>
         \A i \in 1..(j - 1) : w[i] = "fire" => \E k \in i..j : w[k] = "false"
    /\ w[j] = "recovered" =>
         /\ w[j - 1] = "false"
         /\ \E i \in 1..(j - 2) : w[i] = "fire" /\ \A k \in i..(j - 2) : w[k] # "false"

EarnedAt(r, q, w, j) ==
    w[j] = "fire" =>
      /\ HeldFor(w, j, r.for_steps)
      /\ Tally(w, 1, j, "fire") <= r.max_fires
      /\ ~r.edge => \A i \in 1..(j - 1) : w[i] = "fire" => q[j].now - q[i].now >= r.cooldown

LEMMA EpisodeBefore ==
  ASSUME NEW r, NEW w, NEW v, NEW x, Grown(w, v, x), NEW j \in 1..Len(w), EpisodeAt(r, w, j)
  PROVE  EpisodeAt(r, v, j)
  <1>1. PICK l \in Nat : l = Len(w) /\ \A k \in 1..l : v[k] = w[k]
    BY DEF Grown
  <1>2. j \in Nat \ {0} /\ j <= l /\ v[j] = w[j]
    BY <1>1
  <1>3. ASSUME r.edge, w[j] = "fire", NEW i \in 1..(j - 1), v[i] = "fire" PROVE \E k \in i..j : v[k] = "false"
    <2>1. w[i] = "fire"
      BY <1>1, <1>2, <1>3
    <2>2. PICK k \in i..j : w[k] = "false"
      BY <1>3, <2>1 DEF EpisodeAt
    <2>3. v[k] = w[k]
      BY <1>1, <1>2
    <2> QED
      BY <2>2, <2>3
  <1>4. ASSUME w[j] = "recovered"
        PROVE  /\ v[j - 1] = "false"
               /\ \E i \in 1..(j - 2) : v[i] = "fire" /\ \A k \in i..(j - 2) : v[k] # "false"
    <2>1. w[j - 1] = "false"
      BY <1>4 DEF EpisodeAt
    <2>2. PICK i \in 1..(j - 2) : w[i] = "fire" /\ \A k \in i..(j - 2) : w[k] # "false"
      BY <1>4 DEF EpisodeAt
    <2>3. j - 1 \in 1..l /\ i \in 1..l /\ \A k \in i..(j - 2) : k \in 1..l
      BY <1>2
    <2>4. v[j - 1] = w[j - 1] /\ v[i] = w[i] /\ \A k \in i..(j - 2) : v[k] = w[k]
      BY <1>1, <2>3
    <2> QED
      BY <2>1, <2>2, <2>4
  <1> QED
    BY <1>2, <1>3, <1>4 DEF EpisodeAt

LEMMA EpisodeNew ==
  ASSUME NEW r, NEW w, NEW v, NEW x, Grown(w, v, x),
         x = "fire" => (r.edge => ~OnFire(w)), x = "recovered" => Recovering(w)
  PROVE  EpisodeAt(r, v, Len(v))
  <1>1. PICK l \in Nat : l = Len(w) /\ Len(v) = l + 1 /\ v[l + 1] = x /\ \A k \in 1..l : v[k] = w[k]
    BY DEF Grown
  <1>2. ASSUME x = "fire", r.edge, NEW i \in 1..l, v[i] = "fire" PROVE \E k \in i..(l + 1) : v[k] = "false"
    <2>1. w[i] = "fire" /\ ~OnFire(w)
      BY <1>1, <1>2
    <2>2. PICK k \in i..l : w[k] = "false"
      BY <1>1, <2>1 DEF OnFire
    <2>3. k \in i..(l + 1) /\ v[k] = w[k]
      BY <1>1
    <2> QED
      BY <2>2, <2>3
  <1>3. ASSUME x = "recovered"
        PROVE  /\ v[l] = "false"
               /\ \E i \in 1..(l - 1) : v[i] = "fire" /\ \A k \in i..(l - 1) : v[k] # "false"
    <2>1. l > 0 /\ w[l] = "false"
      BY <1>1, <1>3 DEF Recovering
    <2>2. PICK i \in 1..(l - 1) : w[i] = "fire" /\ \A k \in i..(l - 1) : w[k] # "false"
      BY <1>1, <1>3 DEF Recovering
    <2>3. l \in 1..l /\ i \in 1..l /\ \A k \in i..(l - 1) : k \in 1..l
      BY <2>1
    <2>4. v[l] = w[l] /\ v[i] = w[i] /\ \A k \in i..(l - 1) : v[k] = w[k]
      BY <1>1, <2>3
    <2> QED
      BY <2>1, <2>2, <2>4
  <1>4. PICK j : j = l + 1
    OBVIOUS
  <1>5. v[j] = x /\ j - 1 = l /\ j - 2 = l - 1
    BY <1>1, <1>4
  <1>6. EpisodeAt(r, v, j)
    BY <1>2, <1>3, <1>4, <1>5 DEF EpisodeAt
  <1> QED
    BY <1>1, <1>4, <1>6

LEMMA RecoveringNew ==
  ASSUME NEW w, NEW v, Grown(w, v, "false"), OnFire(w)
  PROVE  Recovering(v)
  <1>1. PICK l \in Nat : l = Len(w) /\ Len(v) = l + 1 /\ v[l + 1] = "false" /\ \A k \in 1..l : v[k] = w[k]
    BY DEF Grown
  <1>2. PICK i \in 1..l : w[i] = "fire" /\ \A k \in i..l : w[k] # "false"
    BY <1>1 DEF OnFire
  <1>3. v[i] = "fire" /\ \A k \in i..l : v[k] # "false"
    <2>1. \A k \in i..l : k \in 1..l
      OBVIOUS
    <2> QED
      BY <1>1, <1>2, <2>1
  <1>4. Len(v) - 1 = l /\ Len(v) > 0 /\ v[Len(v)] = "false"
    BY <1>1
  <1> QED
    BY <1>3, <1>4 DEF Recovering

LEMMA EarnedBefore ==
  ASSUME NEW r, NEW w, NEW v, NEW x, Grown(w, v, x), NEW j \in 1..Len(w), NEW q, NEW p,
         \A i \in 1..Len(w) : p[i] = q[i], EarnedAt(r, q, w, j)
  PROVE  EarnedAt(r, p, v, j)
  <1>1. PICK l \in Nat : l = Len(w) /\ \A k \in 1..l : v[k] = w[k] /\ p[k] = q[k]
    BY DEF Grown
  <1>2. j \in Nat \ {0} /\ j <= l /\ v[j] = w[j]
    BY <1>1
  <1>3. ASSUME NEW i \in 1..j, NEW y PROVE Tally(v, i, j, y) = Tally(w, i, j, y)
    <2>1. i \in Nat \ {0} /\ j \in Nat /\ j <= Len(w)
      BY <1>1, <1>2
    <2> QED
      BY <2>1, CountBefore
  <1>4. SUFFICES ASSUME w[j] = "fire"
                 PROVE  /\ HeldFor(v, j, r.for_steps)
                        /\ Tally(v, 1, j, "fire") <= r.max_fires
                        /\ ~r.edge => \A i \in 1..(j - 1) : v[i] = "fire" => p[j].now - p[i].now >= r.cooldown
    BY <1>2, Zenon DEF EarnedAt
  <1>5. /\ HeldFor(w, j, r.for_steps)
        /\ Tally(w, 1, j, "fire") <= r.max_fires
        /\ ~r.edge => \A i \in 1..(j - 1) : w[i] = "fire" => q[j].now - q[i].now >= r.cooldown
    BY <1>4, Zenon DEF EarnedAt
  <1>6. HeldFor(v, j, r.for_steps)
    <2>1. PICK i \in 1..j : Tally(w, i, j, "true") >= r.for_steps /\ \A k \in i..j : w[k] # "false"
      BY <1>5 DEF HeldFor
    <2>2. Tally(v, i, j, "true") = Tally(w, i, j, "true")
      BY <1>3
    <2>3. \A k \in i..j : k \in 1..l
      BY <1>2
    <2>4. \A k \in i..j : v[k] # "false"
      BY <1>1, <2>1, <2>3
    <2> QED
      BY <2>1, <2>2, <2>4, Zenon DEF HeldFor
  <1>7. Tally(v, 1, j, "fire") <= r.max_fires
    <2>1. 1 \in 1..j
      BY <1>2
    <2> QED
      BY <1>3, <1>5, <2>1
  <1>8. ASSUME ~r.edge, NEW i \in 1..(j - 1), v[i] = "fire" PROVE p[j].now - p[i].now >= r.cooldown
    <2>1. i \in 1..l /\ j \in 1..l
      BY <1>2
    <2>2. w[i] = "fire" /\ p[i] = q[i] /\ p[j] = q[j]
      BY <1>1, <1>8, <2>1
    <2>3. q[j].now - q[i].now >= r.cooldown
      BY <1>5, <1>8, <2>2
    <2> QED
      BY <2>2, <2>3
  <1> QED
    BY <1>6, <1>7, <1>8

LEMMA EarnedNew ==
  ASSUME NEW r, NEW w, NEW v, NEW x, Grown(w, v, x), NEW s \in States, NEW now \in Nat, NEW on,
         Booked(w, s, on), x = "fire" => DueBy(r, s, now), r.for_steps \in Nat, r.max_fires \in Nat,
         r.cooldown \in Nat, NEW q, NEW p, \A i \in 1..Len(w) : p[i] = q[i] /\ q[i].now \in Nat,
         p[Len(v)].now = now, Dated(r, q, w, s)
  PROVE  EarnedAt(r, p, v, Len(v))
  <1>1. PICK l \in Nat : l = Len(w) /\ Len(v) = l + 1 /\ v[l + 1] = x /\ \A k \in 1..l : v[k] = w[k]
    BY DEF Grown
  <1>2. PICK c \in Nat, n \in Nat, d \in Nat : c = s.consecutive /\ n = s.fires /\ d = s.last_fire
    BY DEF States
  <1>3. SUFFICES ASSUME x = "fire"
                 PROVE  /\ HeldFor(v, l + 1, r.for_steps)
                        /\ Tally(v, 1, l + 1, "fire") <= r.max_fires
                        /\ ~r.edge => \A i \in 1..l : v[i] = "fire" => p[l + 1].now - p[i].now >= r.cooldown
    <2>1. (l + 1) - 1 = l
      OBVIOUS
    <2> QED
      BY <1>1, <1>3, <2>1, Zenon DEF EarnedAt
  <1>4. /\ c >= r.for_steps /\ n < r.max_fires
        /\ ~r.edge /\ n > 0 => now - d >= r.cooldown
    BY <1>2, <1>3 DEF DueBy
  <1>5. n = Tally(w, 1, l, "fire") /\ Holding(w, c)
    BY <1>1, <1>2, Zenon DEF Booked
  <1>6. HeldFor(v, l + 1, r.for_steps)
    <2>1. PICK i \in 1..(l + 1) : c = Tally(w, i, l, "true") /\ \A k \in i..l : w[k] # "false"
      BY <1>1, <1>5, Zenon DEF Holding
    <2>2. Tally(v, i, l + 1, "true") = c
      <3>1. Tally(v, i, l + 1, "true") = Tally(w, i, l, "true") + 0
        BY <1>1, <1>3, CountLast
      <3> QED
        BY <2>1, <3>1
    <2>3. \A k \in i..(l + 1) : k = l + 1 \/ (k \in i..l /\ k \in 1..l)
      OBVIOUS
    <2>4. \A k \in i..(l + 1) : v[k] # "false"
      BY <1>1, <1>3, <2>1, <2>3
    <2>5. Tally(v, i, l + 1, "true") >= r.for_steps
      BY <1>4, <2>2
    <2> QED
      BY <2>4, <2>5, Zenon DEF HeldFor
  <1>7. Tally(v, 1, l + 1, "fire") <= r.max_fires
    <2>1. 1 \in 1..(Len(w) + 1)
      BY <1>1
    <2>2. Tally(v, 1, l + 1, "fire") = n + 1
      BY <1>1, <1>3, <1>5, <2>1, CountLast
    <2> QED
      BY <1>4, <2>2
  <1>8. ASSUME ~r.edge, NEW i \in 1..l, v[i] = "fire" PROVE p[l + 1].now - p[i].now >= r.cooldown
    <2>1. w[i] = "fire" /\ p[i] = q[i] /\ q[i].now \in Nat
      BY <1>1, <1>8
    <2>2. q[i].now <= d
      BY <1>1, <1>2, <1>8, <2>1 DEF Dated
    <2>3. n > 0
      <3>1. Tally(w, 1, l, "fire") > 0
        BY <2>1, CountSeen
      <3> QED
        BY <1>5, <3>1
    <2>4. p[l + 1].now = now
      BY <1>1
    <2>5. PICK a \in Nat, m \in Nat : a = p[i].now /\ m = r.cooldown
      BY <2>1
    <2>6. a <= d /\ now - d >= m
      BY <1>4, <1>8, <2>1, <2>2, <2>3, <2>5
    <2>7. now - a >= m
      BY <2>6
    <2> QED
      BY <2>4, <2>5, <2>7
  <1> QED
    BY <1>6, <1>7, <1>8

LEMMA DatedGrows ==
  ASSUME NEW r, NEW w, NEW v, NEW x, Grown(w, v, x), NEW old \in States, NEW s \in States,
         NEW now \in Nat, NEW on, Booked(w, old, on), x = "fire" => DueBy(r, old, now),
         Verdict(x, old, s, now), r.cooldown \in Nat, NEW q, NEW p,
         \A i \in 1..Len(w) : p[i] = q[i] /\ q[i].now \in Nat,
         p[Len(v)].now = now, Dated(r, q, w, old)
  PROVE  Dated(r, p, v, s)
  <1>1. PICK l \in Nat : l = Len(w) /\ Len(v) = l + 1 /\ v[l + 1] = x /\ \A k \in 1..l : v[k] = w[k]
    BY DEF Grown
  <1>2. PICK n \in Nat, d \in Nat, e \in Nat : n = old.fires /\ d = old.last_fire /\ e = s.last_fire
    BY DEF States
  <1>3. SUFFICES ASSUME ~r.edge, NEW i \in 1..(l + 1), v[i] = "fire" PROVE p[i].now <= e
    BY <1>1, <1>2, Zenon DEF Dated
  <1>4. e = IF x = "fire" THEN now ELSE d
    BY <1>2 DEF Verdict
  <1>5. CASE i = l + 1
    BY <1>1, <1>3, <1>4, <1>5
  <1>6. CASE i \in 1..l
    <2>1. w[i] = "fire" /\ p[i] = q[i] /\ q[i].now \in Nat
      BY <1>1, <1>3, <1>6
    <2>2. q[i].now <= d
      BY <1>1, <1>2, <1>3, <1>6, <2>1 DEF Dated
    <2>3. ASSUME x = "fire" PROVE d <= now
      <3>1. Tally(w, 1, l, "fire") > 0
        BY <1>6, <2>1, CountSeen
      <3>5. n > 0
        BY <1>1, <1>2, <3>1, Zenon DEF Booked
      <3>6. PICK m \in Nat : m = r.cooldown
        OBVIOUS
      <3>7. now - d >= m
        BY <1>2, <1>3, <2>3, <3>5, <3>6 DEF DueBy
      <3> QED
        BY <3>7
    <2> QED
      BY <1>4, <2>1, <2>2, <2>3
  <1> QED
    BY <1>5, <1>6

-----------------------------------------------------------------------------
(* What the pass that is sending has seen                                  *)

\* What f is about to say of its rule is so.
Earns(r, f, st, tr) ==
    /\ f.at = "fire" => DueBy(r, st[f.id], f.now)
    /\ f.at = "recovered" => Recovering(WhatsOf(tr[f.id]))

SendersOK ==
    ~reentrant => \A t \in Threads :
      stack[t] # <<>> /\ Sends(Last(stack[t])) => Earns(rule, Last(stack[t]), state, trace)

\* What was said of each rule was so.
Recorded(r, q, w, s) ==
    /\ Dated(r, q, w, s)
    /\ \A j \in 1..Len(w) : EpisodeAt(r, w, j) /\ EarnedAt(r, q, w, j)

RecordOK == ~reentrant => \A id \in Ids : Recorded(rule, trace[id], WhatsOf(trace[id]), state[id])

LEMMA RuleIs ==
  ASSUME TypeOK
  PROVE  rule.for_steps \in Nat /\ rule.cooldown \in Nat /\ rule.max_fires \in Nat
  <1>1. rule \in [edge : BOOLEAN, for_steps : Nat \ {0}, cooldown : Nat,
                  max_fires : Nat, notify_recovery : BOOLEAN, time_based : BOOLEAN]
    BY RulesAssumption DEF TypeOK
  <1> QED
    BY <1>1

\* Who records or sends has the rule to itself.
LEMMA Alone ==
  ASSUME TypeOK, StacksOK, ~reentrant, NEW t \in Threads, stack[t] # <<>>,
         Sends(Top(t)) \/ Evaluates(t),
         NEW u \in Threads \ {t}, stack[u] # <<>>, Sends(Last(stack[u]))
  PROVE  Last(stack[u]).id # Top(t).id /\ Last(stack[u]).id \in Ids
  <1>1. ASSUME Sends(Top(t)) PROVE Last(stack[u]).id # Top(t).id
    BY <1>1, Zenon DEF StacksOK, Top
  <1>2. ASSUME Evaluates(t) PROVE Last(stack[u]).id # Top(t).id
    <2>1. PICK n : n = Len(stack[u])
      OBVIOUS
    <2>2. n \in 1..Len(stack[u]) /\ Last(stack[u]) = stack[u][n]
      BY <2>1, TopIs DEF Top
    <2>3. stack[u][n].id = Top(t).id => stack[u][n].at \in {"wait", "lock"}
      BY <1>2, <2>2 DEF Evaluates, Free
    <2>4. PICK f : f = Last(stack[u])
      OBVIOUS
    <2>5. f.at \in {"fire", "recovered"} /\ f = stack[u][n]
      BY <2>2, <2>4, Zenon DEF Sends
    <2>6. f.id # Top(t).id
      BY <2>3, <2>5
    <2> QED
      BY <2>4, <2>6
  <1>3. Last(stack[u]).id \in Ids
    BY DEF StacksOK, At, Top, Sends
  <1> QED
    BY <1>1, <1>2, <1>3

\* Nobody begins to send but by an evaluation.
LEMMA NoneSends ==
  ASSUME TypeOK, StacksOK, ~reentrant, NEW t \in Threads, Begins(t) \/ Selects(t) \/ Ends(t)
  PROVE  /\ \A u \in Threads \ {t} : stack'[u] = stack[u]
         /\ stack'[t] # <<>> => ~Sends(Last(stack'[t]))
  <1>1. CASE Begins(t)
    <2>1. PICK f \in Frames : f.at \in {"wait", "lock"} /\ stack' = [stack EXCEPT ![t] = Append(stack[t], f)]
      BY <1>1 DEF Begins
    <2>2. PICK s \in Seq(Frames) : s = stack[t]
      BY DEF TypeOK
    <2>3. stack' = [stack EXCEPT ![t] = Append(s, f)]
      BY <2>1, <2>2
    <2>4. Last(stack'[t]) = f /\ \A u \in Threads \ {t} : stack'[u] = stack[u]
      BY <2>3, PutIs
    <2> QED
      BY <2>1, <2>4 DEF Sends
  <1>2. CASE Selects(t)
    BY <1>2 DEF Selects, Becoming, Sends
  <1>3. CASE Ends(t)
    <2>1. stack[t] # <<>> /\ Pop(t)
      BY <1>3 DEF Ends
    <2>2. /\ stack' \in [Threads -> Seq(Frames)]
          /\ \A u \in Threads \ {t} : stack'[u] = stack[u]
          /\ Len(stack'[t]) = Len(stack[t]) - 1
      BY <2>1, PopIs
    <2>3. Len(stack[t]) \in Nat \ {0} /\ Len(stack[t]) <= 1
      BY <2>1, TopIs DEF StacksOK
    <2>4. PICK n : n = Len(stack[t])
      OBVIOUS
    <2>10. n \in Nat \ {0} /\ n <= 1
      BY <2>3, <2>4, Zenon
    <2>5. n = 1
      BY <2>10
    <2>6. PICK m : m = Len(stack'[t])
      OBVIOUS
    <2>7. m = n - 1
      BY <2>2, <2>4, <2>6, Zenon
    <2>8. m = 0
      BY <2>5, <2>7
    <2>11. PICK r \in Seq(Frames) : r = stack'[t]
      BY <2>2
    <2>12. Len(r) = 0
      BY <2>6, <2>8, <2>11, Zenon
    <2>13. r = <<>>
      BY <2>12
    <2>9. stack'[t] = <<>>
      BY <2>11, <2>13, Zenon
    <2> QED
      BY <2>2, <2>9
  <1> QED
    BY <1>1, <1>2, <1>3

LEMMA SendersKept ==
  ASSUME TypeOK, StacksOK, BooksOK, SendersOK, [Next]_vars
  PROVE  SendersOK'
  <1>1. CASE UNCHANGED <<rule, reentrant, stack, state, trace>>
    BY <1>1, Zenon DEF SendersOK
  <1>2. SUFFICES ASSUME Next, ~reentrant, NEW u \in Threads, stack'[u] # <<>>, Sends(Last(stack'[u]))
                 PROVE  Earns(rule, Last(stack'[u]), state', trace')
    <2>1. CASE Next
      <3>1. rule' = rule /\ reentrant' = reentrant
        BY <2>1, Scalars
      <3> QED
        BY <1>2, <2>1, <3>1, Zenon DEF SendersOK
    <2> QED
      BY <1>1, <2>1, Zenon DEF vars, ruleVars
  <1>3. ASSUME stack'[u] = stack[u], Silent PROVE Earns(rule, Last(stack'[u]), state', trace')
    BY <1>2, <1>3, Zenon DEF SendersOK, Silent
  <1>4. ASSUME NEW t \in Threads, Silent, Begins(t) \/ Selects(t) \/ Ends(t)
        PROVE  Earns(rule, Last(stack'[u]), state', trace')
    BY <1>2, <1>3, <1>4, NoneSends
  <1>5. ASSUME NEW t \in Threads, Log(t) \/ (t = Dog /\ Tick), Silent
        PROVE  Earns(rule, Last(stack'[u]), state', trace')
    <2>1. stack[t] = <<>>
      BY <1>2, <1>5, Zenon DEF Log, Tick
    <2>2. Begins(t)
      BY <1>5, <2>1, StackKinds DEF Selects, Notifies, Evaluates, At, Ends
    <2> QED
      BY <1>4, <1>5, <2>2
  <1>6. ASSUME NEW t \in Threads, DeliverRow(t) \/ NotSent(t), Silent
        PROVE  Earns(rule, Last(stack'[u]), state', trace')
    <2>1. ~Evaluates(t)
      BY <1>6 DEF DeliverRow, NotSent, Evaluates, At
    <2>2. Step(t)
      BY <1>6, Zenon DEF Step
    <2>3. Begins(t) \/ Selects(t) \/ Ends(t)
      BY <2>1, <2>2, StackKinds DEF Notifies
    <2> QED
      BY <1>4, <1>6, <2>3
  <1>7. ASSUME NEW t \in Threads, NEW x \in Whatever, NEW now \in Nat, NEW s \in States,
               stack[t] # <<>>, Noted(Top(t).id, x, now, s), By(t, x, now, s)
        PROVE  Earns(rule, Last(stack'[u]), state', trace')
    <2>1. PICK id : id = Top(t).id
      OBVIOUS
    <2>2. PICK e : e = [what |-> x, now |-> now]
      OBVIOUS
    <2>3. /\ trace'[id] = Append(trace[id], e) /\ e \in Events /\ state'[id] = s /\ id \in Ids
          /\ \A i \in Ids \ {id} : trace'[i] = trace[i] /\ state'[i] = state[i]
      <3>1. Noted(id, x, now, s) /\ id \in Ids
        BY <1>7, <2>1 DEF Noted
      <3> QED
        BY <2>2, <3>1, NotedTypes
    <2>4. CASE u # t /\ stack'[u] = stack[u]
      <3>1. Sends(Top(t)) \/ Evaluates(t)
        BY <1>7, Zenon DEF By
      <3>2. Last(stack[u]).id # id /\ Last(stack[u]).id \in Ids
        BY <1>2, <1>7, <2>1, <2>4, <3>1, Alone
      <3>3. Earns(rule, Last(stack[u]), state, trace)
        BY <1>2, <2>4, Zenon DEF SendersOK
      <3> QED
        BY <2>3, <2>4, <3>2, <3>3 DEF Earns
    <2>5. CASE Pop(t)
      <3>1. Ends(t)
        BY <1>7, <2>5 DEF Ends
      <3> QED
        BY <1>2, <2>4, <3>1, NoneSends
    <2>6. ASSUME NEW what \in {"fire", "recovered"}, SendNotice(t, what),
                 what = "fire" => Due(s, clock), what = "recovered" => x = "false" /\ MyState(t).firing
          PROVE  Earns(rule, Last(stack'[u]), state', trace')
      <3>1. PICK f \in Frames : f.at = what /\ f.id = Top(t).id /\ f.now = clock /\ Becoming(t, f)
        BY <1>7, <2>6, SendIs
      <3>2. CASE u # t
        BY <2>4, <3>1, <3>2 DEF Becoming
      <3>3. Last(stack'[t]) = f
        BY <3>1 DEF Becoming
      <3>4. what = "fire" => DueBy(rule, state'[id], f.now)
        BY <2>3, <2>6, <3>1 DEF Due, DueBy
      <3>5. what = "recovered" => Recovering(WhatsOf(trace'[id]))
        <4>1. SUFFICES ASSUME what = "recovered" PROVE Recovering(WhatsOf(trace'[id]))
          OBVIOUS
        <4>2. x = "false" /\ state[id].firing
          BY <2>1, <2>6, <4>1 DEF MyState
        <4>3. OnFire(WhatsOf(trace[id]))
          BY <2>3, <4>2, Zenon DEF BooksOK, Booked
        <4>4. trace[id] \in Seq(Events) /\ e.what = "false"
          BY <2>2, <2>3, <4>2 DEF TypeOK
        <4>5. PICK w, v : w = WhatsOf(trace[id]) /\ v = WhatsOf(Append(trace[id], e))
          OBVIOUS
        <4>6. Grown(w, v, "false")
          BY <2>3, <4>4, <4>5, WhatsGrow
        <4>7. Recovering(v)
          BY <4>3, <4>5, <4>6, RecoveringNew
        <4> QED
          BY <2>3, <4>5, <4>7, Zenon
      <3>6. Earns(rule, f, state', trace')
        BY <2>1, <3>1, <3>4, <3>5 DEF Earns
      <3> QED
        BY <3>2, <3>3, <3>6
    <2> QED
      BY <1>7, <2>5, <2>6, Zenon DEF By
  <1>8. ASSUME NEW t \in Threads, Step(t) PROVE Earns(rule, Last(stack'[u]), state', trace')
    BY <1>6, <1>7, <1>8, NotedBy
  <1>9. CASE Silent /\ UNCHANGED stack
    BY <1>3, <1>9
  <1> QED
    BY <1>2, <1>5, <1>8, <1>9, StepKinds

LEMMA RecordOnce ==
  ASSUME NEW r, r.for_steps \in Nat, r.cooldown \in Nat, r.max_fires \in Nat,
         NEW q \in Seq(Events), NEW e \in Events, NEW old \in States, NEW s \in States,
         Recorded(r, q, WhatsOf(q), old), NEW on, Booked(WhatsOf(q), old, on),
         Verdict(e.what, old, s, e.now),
         e.what = "fire" => DueBy(r, old, e.now), e.what = "recovered" => Recovering(WhatsOf(q))
  PROVE  Recorded(r, Append(q, e), WhatsOf(Append(q, e)), s)
  <1>1. PICK p : p = Append(q, e)
    OBVIOUS
  <1>2. PICK w, v : w = WhatsOf(q) /\ v = WhatsOf(p)
    OBVIOUS
  <1>0. e.now \in Nat
    BY DEF Events
  <1>15. PICK now \in Nat : now = e.now
    BY <1>0
  <1>3. PICK x : x = e.what /\ now = e.now
    BY <1>15
  <1>4. PICK l \in Nat : l = Len(q)
    OBVIOUS
  <1>5. /\ Grown(w, v, x) /\ Len(w) = l /\ Len(v) = l + 1
        /\ p[l + 1] = e /\ \A i \in 1..l : p[i] = q[i]
    <2>1. /\ Grown(w, v, e.what) /\ Len(w) = Len(q)
          /\ p[Len(q) + 1] = e /\ \A i \in 1..Len(q) : p[i] = q[i]
      BY <1>1, <1>2, WhatsGrow
    <2> QED
      BY <1>3, <1>4, <2>1 DEF Grown
  <1>6. \A i \in 1..Len(w) : p[i] = q[i] /\ q[i].now \in Nat
    <2>1. ASSUME NEW i \in 1..Len(w) PROVE q[i].now \in Nat
      <3>1. q[i] \in Events
        BY <1>4, <1>5
      <3> QED
        BY <3>1 DEF Events
    <2> QED
      BY <1>5, <2>1
  <1>7. p[Len(v)].now = now
    BY <1>3, <1>5
  <1>8. Booked(w, old, on) /\ Verdict(x, old, s, now) /\ Dated(r, q, w, old)
        /\ (x = "fire" => DueBy(r, old, now)) /\ (x = "recovered" => Recovering(w))
    BY <1>2, <1>3, Zenon DEF Recorded
  <1>9. Dated(r, p, v, s)
    BY <1>5, <1>6, <1>7, <1>8, DatedGrows
  <1>10. EpisodeAt(r, v, Len(v))
    <2>1. x = "fire" => (r.edge => ~OnFire(w))
      BY <1>8, Zenon DEF DueBy, Booked
    <2> QED
      BY <1>5, <1>8, <2>1, EpisodeNew
  <1>11. EarnedAt(r, p, v, Len(v))
    BY <1>5, <1>6, <1>7, <1>8, EarnedNew
  <1>12. ASSUME NEW j \in 1..Len(w) PROVE EpisodeAt(r, v, j) /\ EarnedAt(r, p, v, j)
    <2>1. EpisodeAt(r, w, j) /\ EarnedAt(r, q, w, j)
      BY <1>2, Zenon DEF Recorded
    <2>2. EpisodeAt(r, v, j)
      BY <1>5, <2>1, EpisodeBefore
    <2>3. EarnedAt(r, p, v, j)
      BY <1>5, <1>6, <2>1, EarnedBefore
    <2> QED
      BY <2>2, <2>3
  <1>13. \A j \in 1..Len(v) : j = Len(v) \/ j \in 1..Len(w)
    BY <1>5
  <1>14. \A j \in 1..Len(v) : EpisodeAt(r, v, j) /\ EarnedAt(r, p, v, j)
    BY <1>10, <1>11, <1>12, <1>13
  <1> QED
    BY <1>1, <1>2, <1>9, <1>14, Zenon DEF Recorded

LEMMA RecordKept ==
  ASSUME TypeOK, StacksOK, BooksOK, SendersOK, RecordOK, [Next]_vars
  PROVE  RecordOK'
  <1>1. CASE UNCHANGED <<rule, reentrant, state, trace>>
    BY <1>1, Zenon DEF RecordOK
  <1>2. SUFFICES ASSUME Next, ~reentrant, NEW i \in Ids
                 PROVE  Recorded(rule, trace'[i], WhatsOf(trace'[i]), state'[i])
    <2>1. CASE Next
      <3>1. rule' = rule /\ reentrant' = reentrant
        BY <2>1, Scalars
      <3> QED
        BY <1>2, <2>1, <3>1, Zenon DEF RecordOK
    <2> QED
      BY <1>1, <2>1, Zenon DEF vars, ruleVars
  <1>3. ASSUME trace'[i] = trace[i], state'[i] = state[i]
        PROVE  Recorded(rule, trace'[i], WhatsOf(trace'[i]), state'[i])
    BY <1>2, <1>3, Zenon DEF RecordOK
  <1>4. CASE Silent
    BY <1>3, <1>4, Zenon DEF Silent
  <1>5. ASSUME NEW t \in Threads, NEW x \in Whatever, NEW now \in Nat, NEW s \in States,
               stack[t] # <<>>, Noted(Top(t).id, x, now, s), By(t, x, now, s)
        PROVE  Recorded(rule, trace'[i], WhatsOf(trace'[i]), state'[i])
    <2>1. PICK id : id = Top(t).id
      OBVIOUS
    <2>2. PICK e : e = [what |-> x, now |-> now]
      OBVIOUS
    <2>3. Noted(id, x, now, s) /\ id \in Ids
      BY <1>5, <2>1 DEF Noted
    <2>4. /\ trace'[id] = Append(trace[id], e) /\ e \in Events /\ state'[id] = s
          /\ \A j \in Ids \ {id} : trace'[j] = trace[j] /\ state'[j] = state[j]
      BY <2>2, <2>3, NotedTypes
    <2>5. CASE i # id
      BY <1>3, <2>4, <2>5
    <2>6. CASE i = id
      <3>1. PICK q \in Seq(Events), old \in States : q = trace[id] /\ old = state[id]
        BY <2>3 DEF TypeOK
      <3>2. e.what = x /\ e.now = now
        BY <2>2
      <3>3. Verdict(e.what, old, s, e.now)
        BY <2>3, <3>1, <3>2, Zenon DEF Noted
      <3>4. Booked(WhatsOf(q), old, enabled[id]) /\ Recorded(rule, q, WhatsOf(q), old)
        BY <1>2, <2>3, <3>1, Zenon DEF BooksOK, RecordOK
      <3>5. ASSUME x \in {"fire", "recovered"}
            PROVE  (x = "fire" => DueBy(rule, old, now)) /\ (x = "recovered" => Recovering(WhatsOf(q)))
        <4>1. PICK f : f = Top(t)
          OBVIOUS
        <4>2. Sends(f) /\ x = f.at /\ now = f.now
          BY <1>5, <3>5, <4>1, Zenon DEF By
        <4>3. Earns(rule, f, state, trace)
          BY <1>2, <1>5, <4>1, <4>2, Zenon DEF SendersOK, Top
        <4> QED
          BY <2>1, <3>1, <4>1, <4>2, <4>3, Zenon DEF Earns
      <3>6. (e.what = "fire" => DueBy(rule, old, e.now)) /\ (e.what = "recovered" => Recovering(WhatsOf(q)))
        BY <3>2, <3>5
      <3>7. Recorded(rule, Append(q, e), WhatsOf(Append(q, e)), s)
        BY <2>4, <3>3, <3>4, <3>6, RuleIs, RecordOnce
      <3> QED
        BY <2>4, <2>6, <3>1, <3>7, Zenon
    <2> QED
      BY <2>5, <2>6
  <1> QED
    BY <1>2, <1>4, <1>5, NotedBy, StepKinds

LEMMA SendersInit ==
  ASSUME Init
  PROVE  SendersOK /\ RecordOK
  <1>1. \A t \in Threads : stack[t] = <<>>
    BY DEF Init
  <1>2. ASSUME NEW id \in Ids PROVE Recorded(rule, trace[id], WhatsOf(trace[id]), state[id])
    <2>1. trace[id] = <<>>
      BY DEF Init
    <2>2. PICK w : w = WhatsOf(trace[id])
      OBVIOUS
    <2>3. Len(w) = 0
      BY <2>1, <2>2 DEF WhatsOf
    <2>4. 1..Len(w) = {}
      BY <2>3
    <2>5. Recorded(rule, trace[id], w, state[id])
      BY <2>4, Zenon DEF Recorded, Dated
    <2> QED
      BY <2>2, <2>5
  <1> QED
    BY <1>1, <1>2, Zenon DEF SendersOK, RecordOK

LEMMA RulesInvariant ==
  Spec => [](TypeOK /\ BooksOK /\ RecordOK)
  <1> DEFINE I == TypeOK /\ StacksOK /\ BooksOK /\ SendersOK /\ RecordOK
  <1>1. Init => I
    BY TypesInit, BooksInit, SendersInit
  <1>2. I /\ [Next]_vars => I'
    BY TypesKept, BooksKept, SendersKept, RecordKept
  <1> HIDE DEF I
  <1>3. Spec => []I
    BY <1>1, <1>2, PTL DEF Spec
  <1>4. I => TypeOK /\ BooksOK /\ RecordOK
    BY DEF I
  <1> QED
    BY <1>3, <1>4, PTL

(* A rule that fires has seen its condition hold for_steps times in a row, *)
(* has fires left and, in level mode, has waited for the cooldown; and     *)
(* state.fires is the number of fires, whoever evaluates.                  *)
THEOREM FiresAreEarned == Spec => []FiresEarned
  <1>1. TypeOK /\ BooksOK /\ RecordOK => FiresEarned
    <2> SUFFICES ASSUME BooksOK, RecordOK PROVE FiresEarned
      OBVIOUS
    <2>1. \A id \in Ids : Whats(id) = WhatsOf(trace[id])
      BY Zenon DEF Whats, WhatsOf
    <2>2. \A id \in Ids : state[id].fires = Tally(Whats(id), 1, Len(Whats(id)), "fire")
      BY <2>1, Zenon DEF BooksOK, Booked
    <2>3. ~reentrant => \A id \in Ids : \A j \in 1..Len(Whats(id)) : EarnedAt(rule, trace[id], Whats(id), j)
      BY <2>1, Zenon DEF RecordOK, Recorded
    <2> QED
      BY <2>2, <2>3, Zenon DEF EarnedAt, FiresEarned
  <1> QED
    BY <1>1, RulesInvariant, PTL

(* With row delivery and the watchdog evaluating at the same time, an edge *)
(* rule fires once for an episode of its condition, and recovers only from *)
(* an episode it fired in, right when that is over.                        *)
THEOREM EpisodesKept == Spec => []Episodes
  <1>1. TypeOK /\ BooksOK /\ RecordOK => Episodes
    <2> SUFFICES ASSUME RecordOK PROVE Episodes
      OBVIOUS
    <2>1. \A id \in Ids : Whats(id) = WhatsOf(trace[id])
      BY Zenon DEF Whats, WhatsOf
    <2>2. ~reentrant => \A id \in Ids : \A j \in 1..Len(Whats(id)) : EpisodeAt(rule, Whats(id), j)
      BY <2>1, Zenon DEF RecordOK, Recorded
    <2> QED
      BY <2>2, Zenon DEF EpisodeAt, Episodes
  <1> QED
    BY <1>1, RulesInvariant, PTL
================================================================================

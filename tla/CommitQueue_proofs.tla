-------------------------- MODULE CommitQueue_proofs --------------------------
(***************************************************************************)
(* Commit order, who delivers, where a call stops, and that nothing stays  *)
(* behind, for any number of threads, rows and nested calls.               *)
(***************************************************************************)
EXTENDS CommitQueue, SequenceTheorems, FiniteSetTheorems, TLAPS

-----------------------------------------------------------------------------
(* Sequences                                                               *)

LEMMA FrontIs ==
  ASSUME NEW S, NEW s \in Seq(S), s # <<>>
  PROVE  /\ Front(s) \in Seq(S) /\ Len(Front(s)) = Len(s) - 1 /\ Len(s) \in Nat \ {0}
         /\ \A i \in 1..(Len(s) - 1) : Front(s)[i] = s[i]
  <1>1. Len(s) \in Nat /\ Len(s) > 0
    OBVIOUS
  <1>2. PICK n \in Nat : n = Len(s) - 1
    BY <1>1
  <1>3. \A i \in 1..n : s[i] \in S
    BY <1>1, <1>2
  <1>4. /\ SubSeq(s, 1, n) \in Seq(S)
        /\ Len(SubSeq(s, 1, n)) = IF 1 <= n THEN n - 1 + 1 ELSE 0
        /\ \A i \in 1..(n - 1 + 1) : SubSeq(s, 1, n)[i] = s[1 + i - 1]
    BY <1>3, SubSeqProperties
  <1>5. Front(s) = SubSeq(s, 1, n)
    BY <1>2 DEF Front
  <1> QED
    BY <1>1, <1>2, <1>4, <1>5

LEMMA LastIs ==
  ASSUME NEW S, NEW s \in Seq(S), s # <<>>
  PROVE  Last(s) = s[Len(s)] /\ Last(s) \in S /\ Len(s) \in Nat \ {0}
  BY DEF Last

LEMMA RangeConcat ==
  ASSUME NEW s \in Seq(Nat), NEW r \in Seq(Nat)
  PROVE  Range(s \o r) = Range(s) \cup Range(r)
  <1> DEFINE c == s \o r
  <1>1. /\ c \in Seq(Nat) /\ Len(c) = Len(s) + Len(r)
        /\ \A i \in 1..Len(c) : c[i] = IF i <= Len(s) THEN s[i] ELSE r[i - Len(s)]
    BY ConcatProperties
  <1>2. DOMAIN c = 1..Len(c) /\ DOMAIN s = 1..Len(s) /\ DOMAIN r = 1..Len(r)
        /\ Len(s) \in Nat /\ Len(r) \in Nat
    BY <1>1
  <1> HIDE DEF c
  <1>3. ASSUME NEW x \in Range(c) PROVE x \in Range(s) \cup Range(r)
    <2>1. PICK i \in 1..Len(c) : c[i] = x
      BY <1>2 DEF Range
    <2>2. CASE i <= Len(s)
      <3>1. i \in DOMAIN s /\ s[i] = x
        BY <1>1, <1>2, <2>1, <2>2
      <3> QED
        BY <3>1, Zenon DEF Range
    <2>3. CASE i > Len(s)
      <3>1. i - Len(s) \in DOMAIN r /\ r[i - Len(s)] = x
        BY <1>1, <1>2, <2>1, <2>3
      <3> QED
        BY <3>1, Zenon DEF Range
    <2> QED
      BY <1>2, <2>2, <2>3
  <1>4. ASSUME NEW x \in Range(s) PROVE x \in Range(c)
    <2>1. PICK i \in 1..Len(s) : s[i] = x
      BY <1>2 DEF Range
    <2>3. Len(c) = Len(s) + Len(r)
      BY <1>1
    <2>4. i \in 1..Len(c) /\ i <= Len(s)
      BY <1>2, <2>1, <2>3
    <2>2. i \in DOMAIN c /\ c[i] = x
      BY <1>1, <1>2, <2>1, <2>4, Zenon
    <2> QED
      BY <2>2, Zenon DEF Range
  <1>5. ASSUME NEW x \in Range(r) PROVE x \in Range(c)
    <2>1. PICK i \in 1..Len(r) : r[i] = x
      BY <1>2 DEF Range
    <2>4. Len(c) = Len(s) + Len(r) /\ Len(s) \in Nat /\ Len(r) \in Nat
      BY <1>1, <1>2
    <2>3. i + Len(s) \in 1..Len(c) /\ ~(i + Len(s) <= Len(s)) /\ (i + Len(s)) - Len(s) = i
      BY <2>4
    <2>2. i + Len(s) \in DOMAIN c /\ c[i + Len(s)] = x
      BY <1>1, <1>2, <2>1, <2>3, Zenon
    <2> QED
      BY <2>2, Zenon DEF Range
  <1>6. Range(c) = Range(s) \cup Range(r)
    BY <1>3, <1>4, <1>5, Zenon
  <1> QED
    BY <1>6 DEF c

LEMMA RangeOne ==
  ASSUME NEW n \in Nat
  PROVE  <<n>> \in Seq(Nat) /\ Range(<<n>>) = {n}
  BY DEF Range

LEMMA RangeAppend ==
  ASSUME NEW s \in Seq(Nat), NEW n \in Nat
  PROVE  Range(Append(s, n)) = Range(s) \cup {n}
  <1>1. Append(s, n) = s \o <<n>> /\ <<n>> \in Seq(Nat) /\ Range(<<n>>) = {n}
    BY RangeOne, AppendIsConcat
  <1>2. Range(s \o <<n>>) = Range(s) \cup Range(<<n>>)
    BY <1>1, RangeConcat
  <1> QED
    BY <1>1, <1>2, Zenon

\* Sequences without repetitions.
LEMMA InjectiveConcat ==
  ASSUME NEW s \in Seq(Nat), NEW r \in Seq(Nat), IsInjective(s), IsInjective(r),
         Range(s) \cap Range(r) = {}
  PROVE  IsInjective(s \o r)
  <1> DEFINE c == s \o r
             In1(i) == i <= Len(s)
  <1>1. /\ Len(c) = Len(s) + Len(r) /\ DOMAIN c = 1..Len(c)
        /\ \A i \in 1..Len(c) : c[i] = IF i <= Len(s) THEN s[i] ELSE r[i - Len(s)]
    BY ConcatProperties
  <1>2. /\ Len(s) \in Nat /\ Len(r) \in Nat /\ DOMAIN s = 1..Len(s) /\ DOMAIN r = 1..Len(r)
    OBVIOUS
  <1> HIDE DEF c
  <1>3. \A i \in DOMAIN c : i <= Len(s) => i \in DOMAIN s /\ c[i] = s[i] /\ c[i] \in Range(s)
    <2>1. ASSUME NEW i \in DOMAIN c, i <= Len(s) PROVE i \in DOMAIN s /\ c[i] = s[i]
      BY <1>1, <1>2, <2>1
    <2> QED
      BY <2>1, Zenon DEF Range
  <1>4. \A i \in DOMAIN c : ~(i <= Len(s)) =>
           i - Len(s) \in DOMAIN r /\ c[i] = r[i - Len(s)] /\ c[i] \in Range(r)
    <2>1. ASSUME NEW i \in DOMAIN c, ~(i <= Len(s))
          PROVE  i - Len(s) \in DOMAIN r /\ c[i] = r[i - Len(s)]
      BY <1>1, <1>2, <2>1
    <2> QED
      BY <2>1, Zenon DEF Range
  <1>5. ASSUME NEW i \in DOMAIN c, NEW j \in DOMAIN c, c[i] = c[j] PROVE i = j
    <2>1. CASE i <= Len(s) /\ j <= Len(s)
      BY <1>3, <1>5, <2>1 DEF IsInjective
    <2>2. CASE ~(i <= Len(s)) /\ ~(j <= Len(s))
      <3>1. i - Len(s) = j - Len(s)
        BY <1>4, <1>5, <2>2, Zenon DEF IsInjective
      <3>2. i \in Int /\ j \in Int
        BY <1>1
      <3> QED
        BY <1>2, <3>1, <3>2
    <2>3. CASE ~((i <= Len(s)) <=> (j <= Len(s)))
      BY <1>3, <1>4, <1>5, <2>3
    <2> QED
      BY <2>1, <2>2, <2>3
  <1>6. IsInjective(c)
    BY <1>5 DEF IsInjective
  <1> QED
    BY <1>6 DEF c

LEMMA TailRange ==
  ASSUME NEW s \in Seq(Nat), s # <<>>, IsInjective(s)
  PROVE  /\ IsInjective(Tail(s)) /\ Head(s) \notin Range(Tail(s))
         /\ Range(s) = {Head(s)} \cup Range(Tail(s))
         /\ Tail(s) # <<>> => Last(Tail(s)) = Last(s)
  <1> DEFINE u == Tail(s)
  <1>1. /\ u \in Seq(Nat) /\ Len(u) = Len(s) - 1 /\ Len(s) \in Nat \ {0}
        /\ \A i \in 1..Len(u) : u[i] = s[i + 1]
    BY HeadTailProperties
  <1>2. Head(s) = s[1] /\ DOMAIN s = 1..Len(s) /\ DOMAIN u = 1..Len(u)
    BY <1>1
  <1> HIDE DEF u
  <1>3. \A i \in DOMAIN u : i + 1 \in DOMAIN s /\ u[i] = s[i + 1] /\ i + 1 # 1 /\ i \in Nat
    BY <1>1, <1>2
  <1>4. 1 \in DOMAIN s
    BY <1>1, <1>2
  <1>5. ASSUME NEW i \in DOMAIN u, NEW j \in DOMAIN u, u[i] = u[j] PROVE i = j
    <2>1. i + 1 = j + 1
      BY <1>3, <1>5, Zenon DEF IsInjective
    <2> QED
      BY <1>3, <2>1
  <1>6. ASSUME NEW i \in DOMAIN u PROVE u[i] # s[1]
    BY <1>3, <1>4, Zenon DEF IsInjective
  <1>7. ASSUME NEW x \in Range(s) PROVE x = s[1] \/ x \in Range(u)
    <2>1. PICK i \in DOMAIN s : s[i] = x
      BY Zenon DEF Range
    <2>2. CASE i # 1
      <3>2. i - 1 \in 1..Len(u) /\ (i - 1) + 1 = i
        BY <1>1, <1>2, <2>2
      <3>1. i - 1 \in DOMAIN u /\ u[i - 1] = s[i]
        BY <1>1, <1>2, <3>2, Zenon
      <3> QED
        BY <2>1, <3>1, Zenon DEF Range
    <2> QED
      BY <2>1, <2>2
  <1>8. ASSUME NEW x \in Range(u) PROVE x \in Range(s)
    <2>1. PICK i \in DOMAIN u : u[i] = x
      BY Zenon DEF Range
    <2> QED
      BY <1>3, <2>1, Zenon DEF Range
  <1>9. s[1] \in Range(s)
    BY <1>4, Zenon DEF Range
  <1>10. u # <<>> => Last(u) = Last(s)
    <2>1. ASSUME u # <<>> PROVE u[Len(u)] = s[Len(s)]
      BY <1>1, <2>1
    <2> QED
      BY <2>1, Zenon DEF Last
  <1>11. IsInjective(u)
    BY <1>5, Zenon DEF IsInjective
  <1>12. s[1] \notin Range(u)
    BY <1>6, Zenon DEF Range
  <1>13. Range(s) = {s[1]} \cup Range(u)
    BY <1>7, <1>8, <1>9
  <1> QED
    BY <1>2, <1>10, <1>11, <1>12, <1>13, Zenon DEF u

-----------------------------------------------------------------------------

LEMMA InitTypeOK == Init => TypeOK
  <1> SUFFICES ASSUME Init PROVE TypeOK
    OBVIOUS
  <1>1. stack \in [Threads -> Seq(Frames)]
    BY DEF Init
  <1>2. wlock \in Threads \cup {NoOne} /\ owner \in Threads \cup {NoOne} /\ done \in SUBSET Nat
    BY DEF Init
  <1>3. pending \in Seq(Nat) /\ rows \in Seq(Nat) /\ started \in Seq(Nat)
    BY DEF Init
  <1>4. fast \in BOOLEAN /\ then \in BOOLEAN
    BY Zenon DEF Init
  <1>5. next \in Nat /\ depth \in Int /\ calls \in 0..MaxCalls
    BY QueueAssumption DEF Init
  <1> QED
    BY <1>1, <1>2, <1>3, <1>4, <1>5, Zenon DEF TypeOK

LEMMA TopType ==
  ASSUME TypeOK, NEW t \in Threads, stack[t] # <<>>
  PROVE  /\ Top(t) \in Frames /\ Front(stack[t]) \in Seq(Frames)
  <1>1. stack[t] \in Seq(Frames) /\ Len(stack[t]) \in Nat /\ Len(stack[t]) > 0
    BY DEF TypeOK
  <1> QED
    BY <1>1 DEF Top, Last, Front

LEMMA NextTypeOK == TypeOK /\ [Next]_vars => TypeOK'
  <1> SUFFICES ASSUME TypeOK, [Next]_vars PROVE TypeOK'
    OBVIOUS
  <1> USE DEF txnVars, queueVars
  <1>1. ASSUME NEW n \in 0..2, Admit(n) PROVE next' \in Nat /\ pending' \in Seq(Nat)
    BY <1>1 DEF Admit, TypeOK
  <1>2. ASSUME NEW t \in Threads, Log(t) \/ Flush(t) PROVE TypeOK'
    <2>1. PICK n \in 0..2 : Admit(n)
      BY <1>2 DEF Log, Flush
    <2>3. next' \in Nat /\ pending' \in Seq(Nat)
      BY <1>1, <2>1
    <2>4. fast' \in BOOLEAN /\ then' \in BOOLEAN
      <3>1. Idle \in BOOLEAN
        BY Zenon DEF Idle
      <3> QED
        BY <1>2, <3>1, Zenon DEF Log, Flush
    <2>5. wlock' = t /\ UNCHANGED <<rows, owner, depth, done, started, stack>>
      BY <1>2, Zenon DEF Log, Flush
    <2>2. calls' \in 0..MaxCalls
      BY <1>2, QueueAssumption DEF Log, Flush, MayCall, TypeOK
    <2> QED
      BY <2>2, <2>3, <2>4, <2>5, Zenon DEF TypeOK
  <1>3. ASSUME NEW t \in Threads, SinkLog(t) PROVE TypeOK'
    <2>1. pending' \in Seq(Nat) /\ next' \in Nat
      BY <1>3 DEF SinkLog, TypeOK
    <2> QED
      BY <1>3, <2>1 DEF SinkLog, TypeOK
  <1>4. ASSUME NEW t \in Threads, PublishInline(t) PROVE TypeOK'
    <2>1. started' \in Seq(Nat)
      BY <1>4 DEF PublishInline, TypeOK
    <2>2. Range(pending) \in SUBSET Nat
      <3>1. \A i \in DOMAIN pending : pending[i] \in Nat
        BY DEF TypeOK
      <3> QED
        BY <3>1, Zenon DEF Range
    <2>3. pending' \in Seq(Nat) /\ wlock' \in Threads \cup {NoOne}
      BY <1>4 DEF PublishInline, Release
    <2>5. done' \in SUBSET Nat
      <3>1. done \in SUBSET Nat /\ done' = done \cup Range(pending)
        BY <1>4, Zenon DEF PublishInline, TypeOK
      <3> QED
        BY <2>2, <3>1
    <2>4. UNCHANGED <<fast, then, next, rows, owner, depth, stack, calls>>
      BY <1>4 DEF PublishInline, Release
    <2> QED
      BY <2>1, <2>3, <2>4, <2>5, Zenon DEF TypeOK
  <1>5. ASSUME NEW t \in Threads, Stage(t) PROVE TypeOK'
    <2>1. pending # <<>> => Last(pending) \in Nat
      BY DEF TypeOK, Last
    <2> DEFINE enter  == IF then THEN <<Call("enter", 0)>> ELSE <<>>
               target == IF pending # <<>> THEN <<Call("drain", Last(pending))>> ELSE <<>>
    <2>4. enter \in Seq(Frames)
      <3>1. Call("enter", 0) \in Frames
        BY DEF Call, Frames
      <3> QED
        BY <3>1
    <2>5. target \in Seq(Frames)
      <3>1. pending # <<>> => Call("drain", Last(pending)) \in Frames
        BY <2>1 DEF Call, Frames
      <3> QED
        BY <3>1
    <2>6. stack' = [stack EXCEPT ![t] = @ \o (enter \o target)]
      BY <1>5, Zenon DEF Stage, Staged, Push
    <2> HIDE DEF enter, target
    <2>7. enter \o target \in Seq(Frames)
      BY <2>4, <2>5
    <2>2. PICK frames \in Seq(Frames) : stack' = [stack EXCEPT ![t] = @ \o frames]
      BY <2>6, <2>7, Zenon
    <2>3. stack' \in [Threads -> Seq(Frames)] /\ rows' \in Seq(Nat)
      BY <1>5, <2>2 DEF Stage, Staged, TypeOK
    <2> QED
      BY <1>5, <2>3 DEF Stage, Staged, Release, TypeOK
  <1>6. ASSUME NEW t \in Threads, Enter(t) PROVE TypeOK'
    <2>1. rows # <<>> => Last(rows) \in Nat
      BY DEF TypeOK, Last
    <2>2. PICK row \in Nat :
            stack' = [stack EXCEPT ![t] = Append(Front(@), Call("drain", row))]
      BY <1>6, <2>1 DEF Enter
    <2>4. Front(stack[t]) \in Seq(Frames)
      BY <1>6, TopType, Zenon DEF Enter, In
    <2>5. Call("drain", row) \in Frames
      BY <2>2 DEF Call, Frames
    <2>6. PICK frames \in Seq(Frames) : stack' = [stack EXCEPT ![t] = frames]
      <3>1. Append(Front(stack[t]), Call("drain", row)) \in Seq(Frames)
        BY <2>4, <2>5
      <3>2. stack' = [stack EXCEPT ![t] = Append(Front(stack[t]), Call("drain", row))]
        BY <2>2, Zenon
      <3> QED
        BY <3>1, <3>2, Zenon
    <2>3. stack' \in [Threads -> Seq(Frames)]
      BY <2>6 DEF TypeOK
    <2> QED
      BY <1>6, <2>3 DEF Enter, TypeOK
  <1>7. ASSUME NEW t \in Threads, Return(t) PROVE TypeOK'
    <2>1. stack' \in [Threads -> Seq(Frames)]
      BY <1>7, TopType DEF Return, In, Pop, TypeOK
    <2> QED
      BY <1>7, <2>1 DEF Return, TypeOK
  <1>8. ASSUME NEW t \in Threads, TakeNext(t) PROVE TypeOK'
    <2>1. Head(rows) \in Nat /\ Tail(rows) \in Seq(Nat)
      BY <1>8 DEF TakeNext, TypeOK
    <2>2. stack' \in [Threads -> Seq(Frames)]
      BY <1>8, <2>1 DEF TakeNext, Push, Call, Frames, TypeOK
    <2> QED
      BY <1>8, <2>1, <2>2 DEF TakeNext, TypeOK
  <1>9. ASSUME NEW t \in Threads, Notified(t) \/ Interrupted(t) PROVE TypeOK'
    <2>1. stack[t] # <<>> /\ Finish(t)
      BY <1>9 DEF Notified, Interrupted, In
    <2>2. stack' \in [Threads -> Seq(Frames)]
      <3>1. Front(Front(stack[t])) \in Seq(Frames)
        BY <2>1, TopType DEF Front
      <3> QED
        BY <1>9, <2>1, <3>1, TopType DEF Notified, Interrupted, Pop, TypeOK
    <2>3. Top(t).row \in Nat
      BY <2>1, TopType DEF Frames
    <2>4. /\ done' \in SUBSET Nat
          /\ depth' \in Int
          /\ owner' \in Threads \cup {NoOne}
      <3>1. /\ done' = done \cup {Top(t).row}
            /\ depth' = depth - 1
            /\ owner' \in {NoOne, owner}
        BY <2>1, Zenon DEF Finish, Released
      <3>2. done \in SUBSET Nat /\ depth \in Int /\ owner \in Threads \cup {NoOne}
        BY DEF TypeOK
      <3>3. done' \in SUBSET Nat
        BY <3>1, <3>2, <2>3
      <3> QED
        BY <3>1, <3>2, <3>3
    <2>5. UNCHANGED <<wlock, pending, fast, then, next, rows, started, calls>>
      BY <2>1 DEF Finish, Released
    <2> QED
      BY <2>2, <2>4, <2>5, Zenon DEF TypeOK
  <1>10. CASE UNCHANGED vars
    BY <1>10 DEF vars, TypeOK
  <1> QED
    BY <1>2, <1>3, <1>4, <1>5, <1>6, <1>7, <1>8, <1>9, <1>10 DEF Next, Step

(* Every reachable state of the commit queue is well typed.                *)
THEOREM TypeCorrect == Spec => []TypeOK
  <1> QED
    BY InitTypeOK, NextTypeOK, PTL DEF Spec

-----------------------------------------------------------------------------
(* Commit order.  Rows are started, queued and pending in three runs of    *)
(* consecutive numbers.  A transaction that may publish inline has an      *)
(* empty queue in front of it: nothing is staged while it holds the lock,  *)
(* because staging is done by the holder.  Outside a transaction nothing   *)
(* is pending, so the next transaction continues the numbering.            *)
Runs ==
    /\ \A i \in 1..Len(started) : started[i] = i
    /\ \A i \in 1..Len(rows) : rows[i] = Len(started) + i
    /\ \A i \in 1..Len(pending) : pending[i] = Len(started) + Len(rows) + i
    /\ Len(started) + Len(rows) + Len(pending) = next - 1
    /\ wlock = NoOne => pending = <<>>
    /\ wlock # NoOne /\ fast => rows = <<>>

LEMMA InitRuns == Init => Runs
  BY DEF Init, Runs

\* A step that moves no row and leaves the transaction alone.
LEMMA RunsFrame ==
  ASSUME Runs, UNCHANGED <<started, rows, pending, next, wlock, fast>>
  PROVE  Runs'
  BY DEF Runs

LEMMA NextRuns ==
  ASSUME TypeOK, Runs, [Next]_vars, ~SinkLogs
  PROVE  Runs'
  <1> USE DEF txnVars, queueVars
  <1>1. ASSUME NEW t \in Threads, Log(t) \/ Flush(t) PROVE Runs'
    <2>1. PICK n \in 0..2 : Admit(n)
      BY <1>1 DEF Log, Flush
    <2>2. wlock = NoOne /\ pending = <<>>
      BY <1>1 DEF Log, Flush, MayCall, Runs
    <2>3. wlock' = t /\ t # NoOne /\ rows' = rows /\ started' = started
      BY <1>1, QueueAssumption DEF Log, Flush
    <2>4. fast' => rows' = <<>>
      BY <1>1, <2>3, Zenon DEF Log, Flush, Idle
    <2>5. /\ next' = next + n
          /\ Len(pending') = n
          /\ \A i \in 1..n : pending'[i] = next + i - 1
      BY <2>1 DEF Admit, TypeOK
    <2>6. Len(started) + Len(rows) = next - 1
      BY <2>2 DEF Runs, TypeOK
    <2>7. /\ Len(started) \in Nat /\ Len(rows) \in Nat /\ next \in Nat
      BY DEF TypeOK
    <2>8. \A i \in 1..Len(pending') : pending'[i] = Len(started') + Len(rows') + i
      BY <2>3, <2>5, <2>6, <2>7
    <2>9. Len(started') + Len(rows') + Len(pending') = next' - 1
      BY <2>3, <2>5, <2>6, <2>7
    <2> QED
      BY <2>3, <2>4, <2>8, <2>9 DEF Runs
  <1>2. ASSUME NEW t \in Threads, SinkLog(t) PROVE Runs'
    BY <1>2 DEF SinkLog
  <1>3. ASSUME NEW t \in Threads, PublishInline(t) PROVE Runs'
    <2>1. /\ rows = <<>> /\ rows' = rows /\ next' = next
          /\ started' = started \o pending /\ pending' = <<>> /\ wlock' = NoOne
      BY <1>3, QueueAssumption DEF PublishInline, Release, Runs
    <2>2. Len(started') = Len(started) + Len(pending)
      BY <2>1 DEF TypeOK
    <2>3. \A i \in 1..Len(started') : started'[i] = i
      <3>1. \A i \in 1..Len(pending) : pending[i] = Len(started) + i
        BY <2>1 DEF Runs, TypeOK
      <3>2. TAKE i \in 1..Len(started')
      <3>3. CASE i <= Len(started)
        BY <2>1, <2>2, <3>3 DEF Runs, TypeOK
      <3>4. CASE i > Len(started)
        <4>1. i - Len(started) \in 1..Len(pending) /\ started'[i] = pending[i - Len(started)]
          BY <2>1, <2>2, <3>4 DEF TypeOK
        <4> QED
          BY <3>1, <4>1 DEF TypeOK
      <3> QED
        BY <3>3, <3>4 DEF TypeOK
    <2>4. Len(started') + Len(rows') + Len(pending') = next' - 1
      BY <2>1, <2>2 DEF Runs, TypeOK
    <2> QED
      BY <2>1, <2>3, <2>4 DEF Runs
  <1>4. ASSUME NEW t \in Threads, Stage(t) PROVE Runs'
    <2>1. /\ rows' = rows \o pending /\ pending' = <<>> /\ wlock' = NoOne
          /\ started' = started /\ next' = next
      BY <1>4 DEF Stage, Staged, Release
    <2>2. Len(rows') = Len(rows) + Len(pending)
      BY <2>1 DEF TypeOK
    <2>3. \A i \in 1..Len(rows') : rows'[i] = Len(started') + i
      <3>1. TAKE i \in 1..Len(rows')
      <3>2. CASE i <= Len(rows)
        BY <2>1, <2>2, <3>2 DEF Runs, TypeOK
      <3>3. CASE i > Len(rows)
        <4>1. i - Len(rows) \in 1..Len(pending) /\ rows'[i] = pending[i - Len(rows)]
          BY <2>1, <2>2, <3>3 DEF TypeOK
        <4>2. pending[i - Len(rows)] = Len(started) + Len(rows) + (i - Len(rows))
          BY <4>1 DEF Runs
        <4> QED
          BY <2>1, <4>1, <4>2 DEF TypeOK
      <3> QED
        BY <3>2, <3>3 DEF TypeOK
    <2>4. Len(started') + Len(rows') + Len(pending') = next' - 1
      BY <2>1, <2>2 DEF Runs, TypeOK
    <2> QED
      BY <2>1, <2>3, <2>4 DEF Runs
  <1>5. ASSUME NEW t \in Threads, TakeNext(t) PROVE Runs'
    <2>1. /\ rows # <<>> /\ rows' = Tail(rows) /\ started' = Append(started, Head(rows))
          /\ UNCHANGED <<wlock, pending, fast, next>>
      BY <1>5 DEF TakeNext
    <2>2. Head(rows) = Len(started) + 1 /\ Head(rows) = rows[1]
      BY <2>1 DEF Runs, TypeOK
    <2>3. Len(started') = Len(started) + 1 /\ Len(rows') = Len(rows) - 1 /\ Len(rows) > 0
      BY <2>1 DEF TypeOK
    <2>4. \A i \in 1..Len(started') : started'[i] = i
      BY <2>1, <2>2, <2>3 DEF Runs, TypeOK
    <2>5. \A i \in 1..Len(rows') : rows'[i] = Len(started') + i
      <3>1. TAKE i \in 1..Len(rows')
      <3>2. rows'[i] = rows[i + 1] /\ i + 1 \in 1..Len(rows)
        BY <2>1, <2>3 DEF TypeOK
      <3>3. rows[i + 1] = Len(started) + (i + 1)
        BY <3>2 DEF Runs
      <3> QED
        BY <2>3, <3>2, <3>3 DEF TypeOK
    <2>6. \A i \in 1..Len(pending') : pending'[i] = Len(started') + Len(rows') + i
      BY <2>1, <2>3 DEF Runs, TypeOK
    <2>7. Len(started') + Len(rows') + Len(pending') = next' - 1
      BY <2>1, <2>3 DEF Runs, TypeOK
    <2>8. wlock' # NoOne /\ fast' => rows' = <<>>
      BY <2>1 DEF Runs
    <2> QED
      BY <2>1, <2>4, <2>5, <2>6, <2>7, <2>8 DEF Runs
  <1>6. ASSUME NEW t \in Threads,
               Enter(t) \/ Return(t) \/ Notified(t) \/ Interrupted(t)
        PROVE  Runs'
    <2>1. UNCHANGED <<started, rows, pending, next, wlock, fast>>
      BY <1>6, Zenon DEF Enter, Return, Notified, Interrupted, Finish, Released
    <2> QED
      BY <2>1, RunsFrame
  <1>7. CASE UNCHANGED vars
    BY <1>7, RunsFrame DEF vars
  <1> QED
    BY <1>1, <1>2, <1>3, <1>4, <1>5, <1>6, <1>7 DEF Next, Step

\* Three consecutive runs make one.
LEMMA RunsGiveOrder ==
  ASSUME TypeOK, Runs
  PROVE  CommitOrder
  <1> DEFINE front == started \o rows
             all   == front \o pending
  <1>1. /\ front \in Seq(Nat) /\ Len(front) = Len(started) + Len(rows)
        /\ \A i \in 1..Len(front) :
              front[i] = IF i <= Len(started) THEN started[i] ELSE rows[i - Len(started)]
    BY DEF TypeOK
  <1>2. \A i \in 1..Len(front) : front[i] = i
    <2>1. TAKE i \in 1..Len(front)
    <2>2. CASE i <= Len(started)
      BY <1>1, <2>2 DEF Runs, TypeOK
    <2>3. CASE i > Len(started)
      <3>1. i - Len(started) \in 1..Len(rows) /\ front[i] = rows[i - Len(started)]
        BY <1>1, <2>3 DEF TypeOK
      <3> QED
        BY <3>1 DEF Runs, TypeOK
    <2> QED
      BY <1>1, <2>2, <2>3 DEF TypeOK
  <1>3. Len(all) = Len(front) + Len(pending)
    BY DEF TypeOK
  <1> HIDE DEF front
  <1>4. \A i \in 1..Len(all) : all[i] = i
    <2>1. TAKE i \in 1..Len(all)
    <2>2. CASE i <= Len(front)
      BY <1>1, <1>2, <1>3, <2>2 DEF TypeOK
    <2>3. CASE i > Len(front)
      <3>1. i - Len(front) \in 1..Len(pending) /\ all[i] = pending[i - Len(front)]
        BY <1>1, <1>3, <2>3, SMTT(60) DEF TypeOK
      <3> QED
        BY <1>1, <3>1 DEF Runs, TypeOK
    <2> QED
      BY <1>1, <2>2, <2>3
  <1>5. Len(all) = next - 1
    BY <1>1, <1>3 DEF Runs, TypeOK
  <1> QED
    BY <1>4, <1>5 DEF CommitOrder, front

(* As long as no diagnostic sink logs from inside a write, callbacks see   *)
(* every committed row once and in commit order, whatever the threads, the *)
(* nesting of calls and the callbacks that are cut short.                  *)
THEOREM CommitOrdered == ~SinkLogs => (Spec => []CommitOrder)
  <1> SUFFICES ASSUME ~SinkLogs PROVE Spec => []CommitOrder
    OBVIOUS
  <1> DEFINE IInv == TypeOK /\ Runs
  <1>1. Init => IInv
    BY InitTypeOK, InitRuns
  <1>2. IInv /\ [Next]_vars => IInv'
    BY NextTypeOK, NextRuns
  <1>3. IInv => CommitOrder
    BY RunsGiveOrder
  <1> QED
    BY <1>1, <1>2, <1>3, PTL DEF Spec

-----------------------------------------------------------------------------
(* Who delivers.  The frames of a delivery are on the stack of the owner   *)
(* alone, each on top of the drain() that took its row, and depth counts   *)
(* them; so ownership is given up exactly when the last one is finished.   *)
(* A row that was taken is done, or its callbacks are running.             *)
DeliveriesIn(s) == {i \in 1..Len(s) : s[i].kind = "notify"}

Notifying(r) ==
    \E t \in Threads : \E i \in 1..Len(stack[t]) :
       stack[t][i].kind = "notify" /\ stack[t][i].row = r

Nested ==
    \A t \in Threads : \A i \in DeliveriesIn(stack[t]) :
       /\ owner = t
       /\ i > 1 /\ stack[t][i - 1].kind = "drain"
       /\ stack[t][i].row \in Range(started)

Counted ==
    /\ owner = NoOne => depth = 0
    /\ owner # NoOne => depth > 0 /\ depth = Cardinality(DeliveriesIn(stack[owner]))

Accounted ==
    /\ done \subseteq Range(started)
    /\ \A r \in Range(started) : r \in done \/ Notifying(r)

Ownership == Nested /\ Counted /\ Accounted

LEMMA InitOwnership == Init => Ownership
  <1> SUFFICES ASSUME Init PROVE Ownership
    OBVIOUS
  <1>1. \A t \in Threads : stack[t] = <<>>
    BY DEF Init
  <1>2. owner = NoOne /\ depth = 0 /\ done = {} /\ started = <<>>
    BY DEF Init
  <1>3. Range(started) = {}
    BY <1>2 DEF Range
  <1>4. Nested
    BY <1>1 DEF Nested, DeliveriesIn
  <1> QED
    BY <1>2, <1>3, <1>4 DEF Ownership, Counted, Accounted

\* What the operations on a stack do to the deliveries on it.
LEMMA DeliveriesFinite ==
  ASSUME NEW s \in Seq(Frames)
  PROVE  IsFiniteSet(DeliveriesIn(s)) /\ Cardinality(DeliveriesIn(s)) \in Nat
  <1>1. Len(s) \in Nat
    OBVIOUS
  <1>2. IsFiniteSet(1..Len(s))
    BY <1>1, FS_Interval
  <1>3. DeliveriesIn(s) \subseteq 1..Len(s)
    BY DEF DeliveriesIn
  <1> QED
    BY <1>2, <1>3, FS_Subset, FS_CardinalityType

\* The calls below the top of a stack, or all of them, stay as they were.
Below(s, new, n) ==
    /\ n <= Len(s) /\ n <= Len(new)
    /\ \A i \in 1..n : new[i] = s[i]

\* The deliveries of a stack are where they were, on top of the same drain().
SameIn(s, new) ==
    /\ DeliveriesIn(new) = DeliveriesIn(s)
    /\ \A i \in DeliveriesIn(s) : new[i] = s[i] /\ (i > 1 => new[i - 1] = s[i - 1])

LEMMA SameDeliveries ==
  ASSUME NEW s \in Seq(Frames), NEW new \in Seq(Frames), NEW n \in Nat, Below(s, new, n),
         \A i \in (n + 1)..Len(s) : s[i].kind # "notify",
         \A i \in (n + 1)..Len(new) : new[i].kind # "notify"
  PROVE  SameIn(s, new)
  <1>1. Len(s) \in Nat /\ Len(new) \in Nat
    OBVIOUS
  <1>2. \A i \in DeliveriesIn(s) : i \in 1..n
    BY <1>1 DEF DeliveriesIn
  <1>3. \A i \in DeliveriesIn(new) : i \in 1..n
    BY <1>1 DEF DeliveriesIn
  <1>4. \A i \in 1..n : i \in DeliveriesIn(s) <=> i \in DeliveriesIn(new)
    BY <1>1 DEF DeliveriesIn, Below
  <1>5. \A i \in 1..n : new[i] = s[i] /\ (i > 1 => new[i - 1] = s[i - 1])
    BY DEF Below
  <1> QED
    BY <1>2, <1>3, <1>4, <1>5 DEF SameIn

\* A step of t that leaves every delivery where it is.
LEMMA OwnershipKept ==
  ASSUME TypeOK, Ownership, NEW t \in Threads, NEW new,
         stack' = [stack EXCEPT ![t] = new],
         SameIn(stack[t], new),
         UNCHANGED <<owner, depth, done, started>>
  PROVE  Ownership'
  <1>1. \A u \in Threads : /\ DeliveriesIn(stack'[u]) = DeliveriesIn(stack[u])
                           /\ \A i \in DeliveriesIn(stack[u]) :
                                 /\ stack'[u][i] = stack[u][i]
                                 /\ i > 1 => stack'[u][i - 1] = stack[u][i - 1]
    <2>1. \A u \in Threads : stack'[u] = IF u = t THEN new ELSE stack[u]
      BY DEF TypeOK
    <2> QED
      BY <2>1, Zenon DEF SameIn
  <1>2. Nested'
    <2>1. ASSUME NEW u \in Threads, NEW i \in DeliveriesIn(stack'[u])
          PROVE  /\ owner' = u
                 /\ i > 1 /\ stack'[u][i - 1].kind = "drain"
                 /\ stack'[u][i].row \in Range(started')
      <3>1. /\ owner = u /\ i > 1 /\ stack[u][i - 1].kind = "drain"
            /\ stack[u][i].row \in Range(started)
        BY <1>1, <2>1, Zenon DEF Ownership, Nested
      <3> QED
        BY <1>1, <2>1, <3>1, Zenon
    <2> QED
      BY <2>1, Zenon DEF Nested
  <1>3. Counted'
    <2>1. owner # NoOne => owner \in Threads
      BY DEF TypeOK
    <2>2. owner # NoOne => DeliveriesIn(stack'[owner']) = DeliveriesIn(stack[owner])
      BY <1>1, <2>1, Zenon
    <2> QED
      BY <2>2, Zenon DEF Ownership, Counted
  <1>4. Accounted'
    <2>1. \A r : Notifying(r) => Notifying(r)'
      <3>1. SUFFICES ASSUME NEW r, Notifying(r) PROVE Notifying(r)'
        OBVIOUS
      <3>5. PICK u \in Threads : \E i \in 1..Len(stack[u]) :
              stack[u][i].kind = "notify" /\ stack[u][i].row = r
        BY <3>1 DEF Notifying
      <3>2. PICK i \in 1..Len(stack[u]) : stack[u][i].kind = "notify" /\ stack[u][i].row = r
        BY <3>5
      <3>3. i \in DeliveriesIn(stack'[u]) /\ stack'[u][i] = stack[u][i]
        BY <1>1, <3>2, Zenon DEF DeliveriesIn
      <3>4. i \in 1..Len(stack'[u])
        BY <3>3, Zenon DEF DeliveriesIn
      <3> QED
        BY <3>2, <3>3, <3>4, Zenon DEF Notifying
    <2> QED
      BY <2>1, Zenon DEF Ownership, Accounted
  <1> QED
    BY <1>2, <1>3, <1>4 DEF Ownership

\* A delivery is finished: the frame at the top goes, and perhaps the drain() below it.
LEMMA OwnershipAfterFinish ==
  ASSUME TypeOK, Ownership, NEW t \in Threads, In(t, "notify"), Finish(t),
         NEW new \in Seq(Frames), stack' = [stack EXCEPT ![t] = new],
         NEW n \in Nat, Below(stack[t], new, n), Len(new) = n,
         n = Len(stack[t]) - 1 \/ n = Len(stack[t]) - 2
  PROVE  Ownership'
  <1> DEFINE s == stack[t]
             top == Len(s)
  <1>1. s \in Seq(Frames) /\ s # <<>> /\ top \in Nat \ {0} /\ Last(s) = s[top] /\ s[top].kind = "notify"
    BY DEF In, Top, TypeOK, Last
  <1>2. top \in DeliveriesIn(s)
    BY <1>1 DEF DeliveriesIn
  <1>3. owner = t /\ top > 1 /\ s[top - 1].kind = "drain" /\ s[top].row \in Range(started)
    BY <1>2 DEF Ownership, Nested
  <1>4. DeliveriesIn(new) = DeliveriesIn(s) \ {top}
    <2>1. \A i \in DeliveriesIn(s) : i # top => i \in 1..n
      BY <1>1, <1>3 DEF DeliveriesIn
    <2>2. \A i \in 1..n : i \in DeliveriesIn(s) <=> i \in DeliveriesIn(new)
      BY <1>1 DEF DeliveriesIn, Below
    <2>3. \A i \in DeliveriesIn(new) : i \in 1..n /\ i # top
      BY <1>1 DEF DeliveriesIn
    <2> QED
      BY <2>1, <2>2, <2>3
  <1>5. \A i \in DeliveriesIn(new) : new[i] = s[i] /\ (i > 1 => new[i - 1] = s[i - 1])
    BY <1>1 DEF DeliveriesIn, Below
  <1>6. \A u \in Threads : stack'[u] = IF u = t THEN new ELSE stack[u]
    BY DEF TypeOK
  <1>7. \A u \in Threads : u # t => DeliveriesIn(stack[u]) = {}
    BY <1>3, Zenon DEF Ownership, Nested
  <1>8. /\ done' = done \cup {s[top].row} /\ depth' = depth - 1
        /\ owner' = IF depth = 1 THEN NoOne ELSE owner
        /\ started' = started
    BY <1>1 DEF Finish, Released, Top
  <1>9. t # NoOne /\ depth > 0 /\ depth = Cardinality(DeliveriesIn(s))
    BY <1>3, QueueAssumption DEF Ownership, Counted
  <1>10. /\ IsFiniteSet(DeliveriesIn(s)) /\ Cardinality(DeliveriesIn(s)) \in Nat
         /\ IsFiniteSet(DeliveriesIn(new))
         /\ Cardinality(DeliveriesIn(new)) = Cardinality(DeliveriesIn(s)) - 1
    <2>1. IsFiniteSet(DeliveriesIn(s)) /\ Cardinality(DeliveriesIn(s)) \in Nat
      BY <1>1, DeliveriesFinite
    <2>2. /\ IsFiniteSet(DeliveriesIn(s) \ {top})
          /\ Cardinality(DeliveriesIn(s) \ {top}) = IF top \in DeliveriesIn(s) THEN Cardinality(DeliveriesIn(s)) - 1 ELSE Cardinality(DeliveriesIn(s))
      BY <2>1, FS_RemoveElement
    <2> QED
      BY <1>2, <1>4, <2>1, <2>2, Zenon
  <1>11. depth \in Nat /\ (depth = 1 => DeliveriesIn(new) = {})
    <2>1. depth = 1 => Cardinality(DeliveriesIn(new)) = 0
      BY <1>9, <1>10
    <2>2. depth = 1 => DeliveriesIn(new) = {}
      BY <1>10, <2>1, FS_EmptySet, Zenon
    <2> QED
      BY <1>9, <1>10, <2>2
  <1> HIDE DEF s, top
  <1>12. Nested'
    <2>1. ASSUME NEW u \in Threads, NEW i \in DeliveriesIn(stack'[u])
          PROVE  /\ owner' = u
                 /\ i > 1 /\ stack'[u][i - 1].kind = "drain"
                 /\ stack'[u][i].row \in Range(started')
      <3>1. u = t /\ stack'[u] = new
        BY <1>6, <1>7, <2>1, Zenon
      <3>2. i \in DeliveriesIn(s)
        BY <1>4, <2>1, <3>1
      <3>3. /\ i > 1 /\ s[i - 1].kind = "drain" /\ s[i].row \in Range(started)
        BY <3>2, Zenon DEF Ownership, Nested, s
      <3>4. owner' = t
        BY <1>3, <1>8, <1>11, <2>1, <3>1, Zenon
      <3> QED
        BY <1>5, <1>8, <2>1, <3>1, <3>3, <3>4, Zenon
    <2> QED
      BY <2>1, Zenon DEF Nested
  <1>13. Counted'
    <2>1. CASE depth = 1
      <3>1. owner' = NoOne /\ depth' = 0
        BY <1>8, <2>1
      <3> QED
        BY <3>1, Zenon DEF Counted
    <2>2. CASE depth # 1
      <3>1. owner' = t /\ depth' > 0 /\ depth' = Cardinality(DeliveriesIn(new))
        BY <1>3, <1>8, <1>9, <1>10, <1>11, <2>2
      <3>2. stack'[owner'] = new
        BY <1>6, <3>1, Zenon
      <3> QED
        BY <1>9, <3>1, <3>2, Zenon DEF Counted
    <2> QED
      BY <2>1, <2>2
  <1>14. Accounted'
    <2>1. done' \subseteq Range(started')
      BY <1>3, <1>8 DEF Ownership, Accounted
    <2>2. ASSUME NEW r \in Range(started'), r \notin done' PROVE Notifying(r)'
      <3>1. Notifying(r) /\ r # s[top].row
        BY <1>8, <2>2, Zenon DEF Ownership, Accounted
      <3>2. PICK u \in Threads : \E i \in 1..Len(stack[u]) :
              stack[u][i].kind = "notify" /\ stack[u][i].row = r
        BY <3>1 DEF Notifying
      <3>3. PICK i \in 1..Len(stack[u]) : stack[u][i].kind = "notify" /\ stack[u][i].row = r
        BY <3>2
      <3>4. u = t /\ i \in DeliveriesIn(s) /\ i # top /\ s[i].row = r /\ s[i].kind = "notify"
        BY <1>7, <3>1, <3>3, Zenon DEF DeliveriesIn, s
      <3>5. i \in DeliveriesIn(new) /\ new[i] = s[i] /\ stack'[u] = new
        BY <1>4, <1>5, <1>6, <3>4
      <3>6. i \in 1..Len(stack'[u]) /\ stack'[u][i].kind = "notify" /\ stack'[u][i].row = r
        BY <3>4, <3>5, Zenon DEF DeliveriesIn
      <3> QED
        BY <3>6, Zenon DEF Notifying
    <2> QED
      BY <2>1, <2>2, Zenon DEF Accounted
  <1> QED
    BY <1>12, <1>13, <1>14, Zenon DEF Ownership

\* drain() of t takes a row and calls back.
LEMMA OwnershipTaken ==
  ASSUME TypeOK, Ownership, NEW t \in Threads, TakeNext(t)
  PROVE  Ownership'
  <1> DEFINE s   == stack[t]
             r   == Head(rows)
             new == Append(s, Call("notify", r))
             top == Len(s) + 1
  <1>1. /\ s \in Seq(Frames) /\ s # <<>> /\ Len(s) \in Nat \ {0}
        /\ Last(s) = s[Len(s)] /\ s[Len(s)].kind = "drain"
    BY DEF TakeNext, In, Top, TypeOK, Last
  <1>2. r \in Nat /\ Call("notify", r) \in Frames
    BY DEF TakeNext, TypeOK, Call, Frames
  <1>3. /\ new \in Seq(Frames) /\ Len(new) = top /\ new[top] = Call("notify", r)
        /\ \A i \in 1..Len(s) : new[i] = s[i]
    BY <1>1, <1>2, AppendProperties
  <1>4. /\ owner' = t /\ depth' = depth + 1 /\ done' = done
        /\ started' = Append(started, r)
    BY DEF TakeNext
  <1>5. Range(started') = Range(started) \cup {r}
    BY <1>2, <1>4, RangeAppend DEF TypeOK
  <1>6. stack' = [stack EXCEPT ![t] = new]
    <2>1. stack' = [stack EXCEPT ![t] = s \o <<Call("notify", r)>>]
      BY Zenon DEF TakeNext, Push
    <2>2. s \o <<Call("notify", r)>> = new
      BY <1>1, <1>2, AppendIsConcat
    <2> QED
      BY <2>1, <2>2, Zenon
  <1> HIDE DEF new, r
  <1>7. \A u \in Threads : stack'[u] = IF u = t THEN new ELSE stack[u]
    BY <1>6 DEF TypeOK
  <1>8. /\ DeliveriesIn(new) = DeliveriesIn(s) \cup {top} /\ top \notin DeliveriesIn(s)
        /\ \A i \in DeliveriesIn(s) : new[i] = s[i] /\ (i > 1 => new[i - 1] = s[i - 1])
    <2>1. \A i \in 1..Len(s) : i \in DeliveriesIn(s) <=> i \in DeliveriesIn(new)
      BY <1>1, <1>3 DEF DeliveriesIn
    <2>2. top \in DeliveriesIn(new)
      BY <1>1, <1>3 DEF DeliveriesIn, Call
    <2>3. \A i \in DeliveriesIn(s) : i \in 1..Len(s)
      BY DEF DeliveriesIn
    <2>4. \A i \in DeliveriesIn(new) : i \in 1..Len(s) \/ i = top
      BY <1>1, <1>3 DEF DeliveriesIn
    <2>5. top \notin DeliveriesIn(s)
      BY <1>1 DEF DeliveriesIn
    <2>6. DeliveriesIn(new) = DeliveriesIn(s) \cup {top}
      BY <2>1, <2>2, <2>3, <2>4, Zenon
    <2> QED
      BY <1>1, <1>3, <2>3, <2>5, <2>6
  <1>9. owner \in {NoOne, t} /\ t # NoOne
    BY QueueAssumption DEF TakeNext, Mine
  <1>10. \A u \in Threads : u # t => DeliveriesIn(stack[u]) = {}
    BY <1>9, QueueAssumption DEF Ownership, Nested
  <1>11. owner = NoOne => DeliveriesIn(s) = {}
    BY <1>9, QueueAssumption DEF Ownership, Nested
  <1>12. depth' > 0 /\ depth' = Cardinality(DeliveriesIn(new))
    <2>1. IsFiniteSet(DeliveriesIn(s)) /\ Cardinality(DeliveriesIn(s)) \in Nat
      BY <1>1, DeliveriesFinite
    <2>2. Cardinality(DeliveriesIn(s) \cup {top}) =
            IF top \in DeliveriesIn(s) THEN Cardinality(DeliveriesIn(s)) ELSE Cardinality(DeliveriesIn(s)) + 1
      BY <2>1, FS_AddElement
    <2>3. Cardinality(DeliveriesIn(new)) = Cardinality(DeliveriesIn(s)) + 1
      BY <1>8, <2>2, Zenon
    <2>4. depth = Cardinality(DeliveriesIn(s))
      <3>1. CASE owner = NoOne
        <4>1. depth = 0 /\ Cardinality(DeliveriesIn(s)) = 0
          BY <1>11, <3>1, FS_EmptySet, Zenon DEF Ownership, Counted
        <4> QED
          BY <4>1
      <3>2. CASE owner = t
        BY <1>9, <3>2, Zenon DEF Ownership, Counted
      <3> QED
        BY <1>9, <3>1, <3>2
    <2> QED
      BY <1>4, <2>1, <2>3, <2>4
  <1> HIDE DEF s, top
  <1>13. Nested'
    <2>1. ASSUME NEW u \in Threads, NEW i \in DeliveriesIn(stack'[u])
          PROVE  /\ owner' = u
                 /\ i > 1 /\ stack'[u][i - 1].kind = "drain"
                 /\ stack'[u][i].row \in Range(started')
      <3>1. u = t /\ stack'[u] = new
        BY <1>7, <1>10, <2>1, Zenon
      <3>2. CASE i \in DeliveriesIn(s)
        <4>1. /\ i > 1 /\ s[i - 1].kind = "drain" /\ s[i].row \in Range(started)
          BY <3>2, Zenon DEF Ownership, Nested, s
        <4> QED
          BY <1>4, <1>5, <1>8, <3>1, <3>2, <4>1
      <3>3. CASE i = top
        <4>1. i > 1 /\ i - 1 = Len(s) /\ Len(s) \in 1..Len(s)
          BY <1>1, <3>3 DEF top
        <4>2. new[i - 1] = s[Len(s)] /\ new[i].row = r
          BY <1>3, <3>3, <4>1 DEF Call
        <4> QED
          BY <1>1, <1>4, <1>5, <3>1, <4>1, <4>2
      <3> QED
        BY <1>8, <2>1, <3>1, <3>2, <3>3
    <2> QED
      BY <2>1, Zenon DEF Nested
  <1>14. Counted'
    BY <1>4, <1>7, <1>9, <1>12, Zenon DEF Counted
  <1>15. Accounted'
    <2>1. done' \subseteq Range(started')
      BY <1>4, <1>5, Zenon DEF Ownership, Accounted
    <2>2. ASSUME NEW q \in Range(started'), q \notin done' PROVE Notifying(q)'
      <3>1. CASE q = r
        <4>1. top \in 1..Len(stack'[t]) /\ stack'[t][top].kind = "notify" /\ stack'[t][top].row = r
          BY <1>1, <1>3, <1>7 DEF Call, top
        <4> QED
          BY <3>1, <4>1, Zenon DEF Notifying
      <3>2. CASE q # r
        <4>1. Notifying(q)
          BY <1>4, <1>5, <2>2, <3>2, Zenon DEF Ownership, Accounted
        <4>2. PICK u \in Threads : \E i \in 1..Len(stack[u]) :
                stack[u][i].kind = "notify" /\ stack[u][i].row = q
          BY <4>1 DEF Notifying
        <4>3. PICK i \in 1..Len(stack[u]) : stack[u][i].kind = "notify" /\ stack[u][i].row = q
          BY <4>2
        <4>4. i \in DeliveriesIn(s) /\ u = t /\ s[i].kind = "notify" /\ s[i].row = q
          BY <1>10, <4>3, Zenon DEF DeliveriesIn, s
        <4>5. i \in DeliveriesIn(new) /\ new[i] = s[i] /\ stack'[u] = new
          BY <1>7, <1>8, <4>4
        <4>6. i \in 1..Len(stack'[u]) /\ stack'[u][i].kind = "notify" /\ stack'[u][i].row = q
          BY <4>4, <4>5, Zenon DEF DeliveriesIn
        <4> QED
          BY <4>6, Zenon DEF Notifying
      <3> QED
        BY <3>1, <3>2
    <2> QED
      BY <2>1, <2>2, Zenon DEF Accounted
  <1> QED
    BY <1>13, <1>14, <1>15, Zenon DEF Ownership

LEMMA NextOwnership ==
  ASSUME TypeOK, Ownership, [Next]_vars
  PROVE  Ownership'
  <1> USE DEF txnVars, queueVars
  <1>1. ASSUME UNCHANGED <<owner, depth, done, started, stack>> PROVE Ownership'
    <2>1. \A r : Notifying(r) => Notifying(r)'
      BY <1>1 DEF Notifying
    <2> QED
      BY <1>1, <2>1 DEF Ownership, Nested, Counted, Accounted
  <1>2. ASSUME NEW t \in Threads, PublishInline(t) PROVE Ownership'
    <2>1. /\ started' = started \o pending /\ done' = done \cup Range(pending)
          /\ UNCHANGED <<owner, depth, stack>>
      BY <1>2 DEF PublishInline
    <2>2. Range(started') = Range(started) \cup Range(pending)
      BY <2>1, RangeConcat DEF TypeOK
    <2>3. \A r : Notifying(r) => Notifying(r)'
      BY <2>1 DEF Notifying
    <2>4. Nested' /\ Counted'
      BY <2>1, <2>2 DEF Ownership, Nested, Counted
    <2> QED
      BY <2>1, <2>2, <2>3, <2>4 DEF Ownership, Accounted
  <1>3. ASSUME NEW t \in Threads, Stage(t) PROVE Ownership'
    <2> DEFINE s      == stack[t]
               enter  == IF then THEN <<Call("enter", 0)>> ELSE <<>>
               target == IF pending # <<>> THEN <<Call("drain", Last(pending))>> ELSE <<>>
               more   == enter \o target
    <2>1. s \in Seq(Frames) /\ (pending # <<>> => Last(pending) \in Nat)
      BY DEF TypeOK, Last
    <2>11. /\ Call("enter", 0) \in Frames /\ Call("enter", 0).kind # "notify"
           /\ pending # <<>> => /\ Call("drain", Last(pending)) \in Frames
                                /\ Call("drain", Last(pending)).kind # "notify"
      BY <2>1 DEF Call, Frames
    <2>2. /\ enter \in Seq(Frames) /\ \A i \in 1..Len(enter) : enter[i].kind # "notify"
      BY <2>11
    <2>3. /\ target \in Seq(Frames) /\ \A i \in 1..Len(target) : target[i].kind # "notify"
      BY <2>11
    <2>4. stack' = [stack EXCEPT ![t] = s \o more] /\ UNCHANGED <<owner, depth, done, started>>
      BY <1>3, Zenon DEF Stage, Push
    <2> HIDE DEF enter, target
    <2>5. more \in Seq(Frames) /\ \A i \in 1..Len(more) : more[i].kind # "notify"
      BY <2>2, <2>3, ConcatProperties
    <2> HIDE DEF more
    <2>6. PICK n \in Nat : n = Len(s)
      BY <2>1
    <2>7. /\ s \o more \in Seq(Frames) /\ Below(s, s \o more, n)
          /\ \A i \in (n + 1)..Len(s \o more) : (s \o more)[i].kind # "notify"
          /\ \A i \in (n + 1)..Len(s) : s[i].kind # "notify"
      BY <2>1, <2>5, <2>6, ConcatProperties DEF Below
    <2>8. SameIn(s, s \o more)
      BY <2>1, <2>7, SameDeliveries
    <2> QED
      BY <2>4, <2>8, OwnershipKept, Zenon
  <1>4. ASSUME NEW t \in Threads, Enter(t) PROVE Ownership'
    <2> DEFINE s == stack[t]
    <2>1. PICK row \in Nat : stack' = [stack EXCEPT ![t] = Append(Front(s), Call("drain", row))]
      <3>1. rows # <<>> => Last(rows) \in Nat
        BY DEF TypeOK, Last
      <3> QED
        BY <1>4, <3>1 DEF Enter
    <2>2. s \in Seq(Frames) /\ s # <<>> /\ Last(s) = s[Len(s)] /\ s[Len(s)].kind = "enter"
          /\ UNCHANGED <<owner, depth, done, started>>
      BY <1>4 DEF Enter, In, Top, TypeOK, Last
    <2>3. /\ Front(s) \in Seq(Frames) /\ Len(Front(s)) = Len(s) - 1 /\ Len(s) \in Nat \ {0}
          /\ \A i \in 1..(Len(s) - 1) : Front(s)[i] = s[i]
      BY <2>2, FrontIs
    <2>4. Call("drain", row) \in Frames /\ Call("drain", row).kind = "drain"
      BY DEF Call, Frames
    <2> DEFINE new == Append(Front(s), Call("drain", row))
    <2>5. new \in Seq(Frames)
      BY <2>3, <2>4, AppendProperties
    <2>6. /\ Len(new) = Len(s) /\ new[Len(s)] = Call("drain", row)
          /\ \A i \in 1..(Len(s) - 1) : new[i] = s[i]
      BY <2>3, <2>4, AppendProperties
    <2> HIDE DEF new
    <2>7. PICK n \in Nat : n = Len(s) - 1
      BY <2>3
    <2>8. /\ Below(s, new, n)
          /\ \A i \in (n + 1)..Len(new) : new[i].kind # "notify"
          /\ \A i \in (n + 1)..Len(s) : s[i].kind # "notify"
      BY <2>2, <2>3, <2>4, <2>6, <2>7 DEF Below
    <2>9. SameIn(s, new)
      BY <2>2, <2>5, <2>8, SameDeliveries
    <2>10. stack' = [stack EXCEPT ![t] = new]
      BY <2>1, Zenon DEF new
    <2> QED
      BY <2>2, <2>9, <2>10, OwnershipKept, Zenon
  <1>5. ASSUME NEW t \in Threads, Return(t) PROVE Ownership'
    <2> DEFINE s   == stack[t]
               new == Front(s)
    <2>1. stack' = [stack EXCEPT ![t] = new] /\ UNCHANGED <<owner, depth, done, started>>
      BY <1>5, Zenon DEF Return, Pop
    <2>2. s \in Seq(Frames) /\ s # <<>> /\ Last(s) = s[Len(s)] /\ s[Len(s)].kind = "drain"
      BY <1>5 DEF Return, In, Top, TypeOK, Last
    <2>3. /\ new \in Seq(Frames) /\ Len(new) = Len(s) - 1 /\ Len(s) \in Nat \ {0}
          /\ \A i \in 1..(Len(s) - 1) : new[i] = s[i]
      BY <2>2, FrontIs
    <2> HIDE DEF new
    <2>4. PICK n \in Nat : n = Len(s) - 1
      BY <2>3
    <2>5. /\ Below(s, new, n)
          /\ \A i \in (n + 1)..Len(new) : new[i].kind # "notify"
          /\ \A i \in (n + 1)..Len(s) : s[i].kind # "notify"
      BY <2>2, <2>3, <2>4 DEF Below
    <2>6. SameIn(s, new)
      BY <2>2, <2>3, <2>5, SameDeliveries
    <2> QED
      BY <2>1, <2>6, OwnershipKept, Zenon
  <1>6. ASSUME NEW t \in Threads, Notified(t) PROVE Ownership'
    <2> DEFINE s == stack[t]
    <2>1. s \in Seq(Frames) /\ s # <<>> /\ In(t, "notify") /\ Finish(t)
          /\ stack' = [stack EXCEPT ![t] = Front(s)]
      BY <1>6 DEF Notified, Pop, In, TypeOK
    <2>2. /\ Front(s) \in Seq(Frames) /\ Len(Front(s)) = Len(s) - 1 /\ Len(s) \in Nat \ {0}
          /\ \A i \in 1..(Len(s) - 1) : Front(s)[i] = s[i]
      BY <2>1, FrontIs
    <2>3. PICK n \in Nat : n = Len(s) - 1
      BY <2>2
    <2>4. Below(s, Front(s), n) /\ Len(Front(s)) = n
      BY <2>2, <2>3 DEF Below
    <2> QED
      BY <2>1, <2>2, <2>3, <2>4, OwnershipAfterFinish
  <1>7. ASSUME NEW t \in Threads, Interrupted(t) PROVE Ownership'
    <2> DEFINE s == stack[t]
               f == Front(s)
    <2>1. s \in Seq(Frames) /\ s # <<>> /\ In(t, "notify") /\ Finish(t)
          /\ stack' = [stack EXCEPT ![t] = Front(f)]
      BY <1>7 DEF Interrupted, In, TypeOK
    <2>2. /\ f \in Seq(Frames) /\ Len(f) = Len(s) - 1 /\ Len(s) \in Nat \ {0}
          /\ \A i \in 1..(Len(s) - 1) : f[i] = s[i]
      BY <2>1, FrontIs
    <2>3. Len(s) \in DeliveriesIn(s)
      BY <2>1, <2>2 DEF In, Top, Last, DeliveriesIn
    <2>4. Len(s) > 1
      BY <2>3 DEF Ownership, Nested
    <2> HIDE DEF f
    <2>5. f # <<>>
      BY <2>2, <2>4
    <2>6. /\ Front(f) \in Seq(Frames) /\ Len(Front(f)) = Len(f) - 1
          /\ \A i \in 1..(Len(f) - 1) : Front(f)[i] = f[i]
      BY <2>2, <2>5, FrontIs
    <2>7. PICK n \in Nat : n = Len(s) - 2
      <3>1. Len(s) - 2 \in Nat
        BY <2>2, <2>4
      <3> QED
        BY <3>1, Zenon
    <2>8. Below(s, Front(f), n) /\ Len(Front(f)) = n
      BY <2>2, <2>6, <2>7 DEF Below
    <2> QED
      BY <2>1, <2>6, <2>7, <2>8, OwnershipAfterFinish
  <1>8. ASSUME NEW t \in Threads, Log(t) \/ Flush(t) \/ SinkLog(t) PROVE Ownership'
    <2>1. UNCHANGED <<owner, depth, done, started, stack>>
      BY <1>8, Zenon DEF Log, Flush, SinkLog
    <2> QED
      BY <1>1, <2>1
  <1>9. ASSUME NEW t \in Threads, TakeNext(t) PROVE Ownership'
    BY <1>9, OwnershipTaken
  <1>10. CASE UNCHANGED vars
    BY <1>1, <1>10 DEF vars
  <1> QED
    BY <1>2, <1>3, <1>4, <1>5, <1>6, <1>7, <1>8, <1>9, <1>10 DEF Next, Step

-----------------------------------------------------------------------------
(* No call delivers past the row it waits for.  A drain() above a delivery *)
(* waits for a row that was committed after that delivery began.           *)
Beyond ==
    \A t \in Threads : \A i, j \in 1..Len(stack[t]) :
       /\ i < j /\ stack[t][i].kind = "notify"
       /\ stack[t][j].kind = "drain" /\ stack[t][j].row # 0
       => stack[t][i].row < stack[t][j].row

LEMMA StartedRows ==
  ASSUME TypeOK, Runs, NEW r \in Range(started)
  PROVE  r <= Len(started)
  <1>1. PICK i \in DOMAIN started : started[i] = r
    BY Zenon DEF Range
  <1>2. i \in 1..Len(started)
    BY <1>1 DEF TypeOK
  <1> QED
    BY <1>1, <1>2 DEF Runs

\* A step of t that keeps the calls up to n: a delivery it adds is at the
\* top, and a drain() it adds waits for a row whose delivery has not begun.
LEMMA BeyondKept ==
  ASSUME TypeOK, Runs, Ownership, Beyond, NEW t \in Threads, NEW new \in Seq(Frames),
         stack' = [stack EXCEPT ![t] = new],
         NEW n \in Nat, Below(stack[t], new, n),
         \A j \in (n + 1)..Len(new) :
            /\ new[j].kind = "notify" => j = Len(new)
            /\ new[j].kind = "drain" /\ new[j].row # 0 => new[j].row > Len(started)
  PROVE  Beyond'
  <1> DEFINE s == stack[t]
  <1>1. \A u \in Threads : stack'[u] = IF u = t THEN new ELSE stack[u]
    BY DEF TypeOK
  <1>2. s \in Seq(Frames) /\ Len(s) \in Nat /\ Len(new) \in Nat /\ n <= Len(s) /\ n <= Len(new)
        /\ \A i \in 1..n : new[i] = s[i]
    BY DEF TypeOK, Below
  <1>3. ASSUME NEW i \in 1..Len(new), NEW j \in 1..Len(new), i < j,
               new[i].kind = "notify", new[j].kind = "drain", new[j].row # 0
        PROVE  new[i].row < new[j].row
    <2>1. i \in 1..n
      BY <1>2, <1>3
    <2>2. i \in 1..Len(s) /\ new[i] = s[i]
      BY <1>2, <2>1
    <2>3. CASE j <= n
      <3>1. j \in 1..Len(s) /\ new[j] = s[j]
        BY <1>2, <2>3
      <3> QED
        BY <1>3, <2>2, <3>1 DEF Beyond
    <2>4. CASE j > n
      <3>1. new[j].row > Len(started)
        BY <1>2, <1>3, <2>4
      <3>2. i \in DeliveriesIn(s) /\ s[i] \in Frames
        BY <1>2, <1>3, <2>2 DEF DeliveriesIn
      <3>3. s[i].row \in Range(started)
        BY <3>2 DEF Ownership, Nested
      <3>4. s[i].row <= Len(started)
        BY <3>3, StartedRows
      <3>8. new[j] \in Frames /\ Len(started) \in Nat
        BY <1>3 DEF TypeOK
      <3>5. s[i].row \in Nat /\ new[j].row \in Nat /\ Len(started) \in Nat
        BY <3>2, <3>8 DEF Frames
      <3>6. \A a, b, k \in Nat : a <= k /\ b > k => a < b
        OBVIOUS
      <3>7. s[i].row < new[j].row
        BY <3>1, <3>4, <3>5, <3>6, Zenon
      <3> QED
        BY <2>2, <3>7, Zenon
    <2> QED
      BY <1>2, <2>3, <2>4
  <1>4. ASSUME NEW u \in Threads, NEW i \in 1..Len(stack'[u]), NEW j \in 1..Len(stack'[u]), i < j,
               stack'[u][i].kind = "notify", stack'[u][j].kind = "drain", stack'[u][j].row # 0
        PROVE  stack'[u][i].row < stack'[u][j].row
    <2>1. CASE u = t
      <3>1. stack'[u] = new
        BY <1>1, <2>1, Zenon
      <3> QED
        BY <1>3, <1>4, <3>1, Zenon
    <2>2. CASE u # t
      <3>1. stack'[u] = stack[u]
        BY <1>1, <2>2, Zenon
      <3> QED
        BY <1>4, <3>1, Zenon DEF Beyond
    <2> QED
      BY <2>1, <2>2
  <1> QED
    BY <1>4, Zenon DEF Beyond

LEMMA LastsBeyond ==
  ASSUME TypeOK, Runs
  PROVE  /\ rows # <<>> => Last(rows) \in Nat /\ Last(rows) > Len(started)
         /\ pending # <<>> => Last(pending) \in Nat /\ Last(pending) > Len(started)
  <1>1. Len(started) \in Nat /\ Len(rows) \in Nat
    BY DEF TypeOK
  <1>2. ASSUME rows # <<>> PROVE Last(rows) \in Nat /\ Last(rows) > Len(started)
    <2>1. Last(rows) = rows[Len(rows)] /\ Last(rows) \in Nat /\ Len(rows) \in Nat \ {0}
      BY <1>2, LastIs DEF TypeOK
    <2>2. rows[Len(rows)] = Len(started) + Len(rows)
      BY <2>1 DEF Runs
    <2> QED
      BY <1>1, <2>1, <2>2
  <1>3. ASSUME pending # <<>> PROVE Last(pending) \in Nat /\ Last(pending) > Len(started)
    <2>1. Last(pending) = pending[Len(pending)] /\ Last(pending) \in Nat /\ Len(pending) \in Nat \ {0}
      BY <1>3, LastIs DEF TypeOK
    <2>2. pending[Len(pending)] = Len(started) + Len(rows) + Len(pending)
      BY <2>1 DEF Runs
    <2> QED
      BY <1>1, <2>1, <2>2
  <1> QED
    BY <1>2, <1>3

LEMMA NextBeyond ==
  ASSUME TypeOK, Runs, Ownership, Beyond, [Next]_vars
  PROVE  Beyond'
  <1> USE DEF txnVars, queueVars
  <1>1. ASSUME UNCHANGED stack PROVE Beyond'
    BY <1>1 DEF Beyond
  <1>2. \A t \in Threads : stack[t] \in Seq(Frames)
    BY DEF TypeOK
  <1>3. ASSUME NEW t \in Threads, Stage(t) PROVE Beyond'
    <2> DEFINE s      == stack[t]
               enter  == IF then THEN <<Call("enter", 0)>> ELSE <<>>
               target == IF pending # <<>> THEN <<Call("drain", Last(pending))>> ELSE <<>>
               more   == enter \o target
               Fresh(f) == f.kind = "enter" \/ (f.kind = "drain" /\ f.row > Len(started))
    <2>1. pending # <<>> => Last(pending) \in Nat /\ Last(pending) > Len(started)
      BY LastsBeyond
    <2>12. Call("enter", 0) \in Frames /\ Call("enter", 0).kind = "enter"
      BY DEF Call, Frames
    <2>13. \A r \in Nat : /\ Call("drain", r) \in Frames
                          /\ Call("drain", r).kind = "drain" /\ Call("drain", r).row = r
      BY DEF Call, Frames
    <2>2. /\ Call("enter", 0) \in Frames /\ Fresh(Call("enter", 0))
          /\ pending # <<>> => Call("drain", Last(pending)) \in Frames /\ Fresh(Call("drain", Last(pending)))
      <3>1. ASSUME pending # <<>> PROVE Call("drain", Last(pending)).row > Len(started)
        BY <2>1, <2>13, <3>1, Zenon
      <3> QED
        BY <2>1, <2>12, <2>13, <3>1, Zenon
    <2>3. stack' = [stack EXCEPT ![t] = s \o more]
      BY <1>3, Zenon DEF Stage, Push
    <2> HIDE DEF Fresh
    <2>4. enter \in Seq(Frames) /\ \A i \in 1..Len(enter) : Fresh(enter[i])
      BY <2>2
    <2>5. target \in Seq(Frames) /\ \A i \in 1..Len(target) : Fresh(target[i])
      BY <2>2
    <2> HIDE DEF enter, target
    <2>6. more \in Seq(Frames) /\ \A i \in 1..Len(more) : Fresh(more[i])
      BY <2>4, <2>5, ConcatProperties
    <2> HIDE DEF more
    <2>7. PICK n \in Nat : n = Len(s)
      BY <1>2
    <2>14. s \o more \in Seq(Frames)
      BY <1>2, <2>6, ConcatProperties
    <2>8. PICK new \in Seq(Frames) : new = s \o more
      BY <2>14, Zenon
    <2>9. Below(s, new, n) /\ \A j \in (n + 1)..Len(new) : Fresh(new[j])
      BY <1>2, <2>6, <2>7, <2>8, ConcatProperties DEF Below
    <2>10. \A j \in (n + 1)..Len(new) :
             /\ new[j].kind = "notify" => j = Len(new)
             /\ new[j].kind = "drain" /\ new[j].row # 0 => new[j].row > Len(started)
      BY <2>9 DEF Fresh
    <2>11. stack' = [stack EXCEPT ![t] = new]
      BY <2>3, <2>8, Zenon
    <2> QED
      BY <2>9, <2>10, <2>11, BeyondKept
  <1>4. ASSUME NEW t \in Threads, Enter(t) PROVE Beyond'
    <2> DEFINE s == stack[t]
    <2>1. PICK row \in Nat : /\ stack' = [stack EXCEPT ![t] = Append(Front(s), Call("drain", row))]
                             /\ row = 0 \/ row > Len(started)
      <3>1. rows # <<>> => Last(rows) \in Nat /\ Last(rows) > Len(started)
        BY LastsBeyond
      <3> QED
        BY <1>4, <3>1 DEF Enter
    <2>2. s \in Seq(Frames) /\ s # <<>>
      BY <1>2, <1>4 DEF Enter, In
    <2>3. /\ Front(s) \in Seq(Frames) /\ Len(Front(s)) = Len(s) - 1 /\ Len(s) \in Nat \ {0}
          /\ \A i \in 1..(Len(s) - 1) : Front(s)[i] = s[i]
      BY <2>2, FrontIs
    <2>4. Call("drain", row) \in Frames /\ Call("drain", row).kind = "drain" /\ Call("drain", row).row = row
      BY DEF Call, Frames
    <2>9. Append(Front(s), Call("drain", row)) \in Seq(Frames)
      BY <2>3, <2>4, AppendProperties
    <2>5. PICK new \in Seq(Frames) : new = Append(Front(s), Call("drain", row))
      BY <2>9, Zenon
    <2>6. /\ Len(new) = Len(s) /\ new[Len(s)] = Call("drain", row)
          /\ \A i \in 1..(Len(s) - 1) : new[i] = s[i]
      BY <2>3, <2>4, <2>5, AppendProperties
    <2>7. PICK n \in Nat : n = Len(s) - 1
      BY <2>3
    <2>8. /\ Below(s, new, n)
          /\ \A j \in (n + 1)..Len(new) :
               /\ new[j].kind = "notify" => j = Len(new)
               /\ new[j].kind = "drain" /\ new[j].row # 0 => new[j].row > Len(started)
      BY <2>1, <2>3, <2>4, <2>6, <2>7 DEF Below
    <2> QED
      BY <2>1, <2>5, <2>8, BeyondKept
  <1>5. ASSUME NEW t \in Threads, NEW new \in Seq(Frames), stack' = [stack EXCEPT ![t] = new],
               NEW n \in Nat, Below(stack[t], new, n), Len(new) = n
        PROVE  Beyond'
    <2>1. \A j \in (n + 1)..Len(new) : FALSE
      BY <1>5
    <2> QED
      BY <1>5, <2>1, BeyondKept, Zenon
  <1>6. ASSUME NEW t \in Threads, Return(t) \/ Notified(t) PROVE Beyond'
    <2> DEFINE s   == stack[t]
               new == Front(s)
    <2>1. s \in Seq(Frames) /\ s # <<>> /\ stack' = [stack EXCEPT ![t] = new]
      BY <1>2, <1>6 DEF Return, Notified, In, Pop
    <2>2. /\ new \in Seq(Frames) /\ Len(new) = Len(s) - 1 /\ Len(s) \in Nat \ {0}
          /\ \A i \in 1..(Len(s) - 1) : new[i] = s[i]
      BY <2>1, FrontIs
    <2> HIDE DEF new
    <2>3. PICK n \in Nat : n = Len(s) - 1
      BY <2>2
    <2>4. Below(s, new, n) /\ Len(new) = n
      BY <2>2, <2>3 DEF Below
    <2> QED
      BY <1>5, <2>1, <2>2, <2>4
  <1>7. ASSUME NEW t \in Threads, Interrupted(t) PROVE Beyond'
    <2> DEFINE s == stack[t]
               f == Front(s)
    <2>1. s \in Seq(Frames) /\ s # <<>> /\ In(t, "notify") /\ stack' = [stack EXCEPT ![t] = Front(f)]
      BY <1>2, <1>7 DEF Interrupted, In
    <2>2. /\ f \in Seq(Frames) /\ Len(f) = Len(s) - 1 /\ Len(s) \in Nat \ {0}
          /\ \A i \in 1..(Len(s) - 1) : f[i] = s[i]
      BY <2>1, FrontIs
    <2>3. Len(s) \in DeliveriesIn(s)
      BY <2>1, <2>2 DEF In, Top, Last, DeliveriesIn
    <2>4. Len(s) > 1
      BY <2>3 DEF Ownership, Nested
    <2> HIDE DEF f
    <2>5. f # <<>>
      BY <2>2, <2>4
    <2>6. PICK new \in Seq(Frames) : new = Front(f)
      BY <2>2, <2>5, FrontIs
    <2>7. Len(new) = Len(f) - 1 /\ \A i \in 1..(Len(f) - 1) : new[i] = f[i]
      BY <2>2, <2>5, <2>6, FrontIs
    <2>8. PICK n \in Nat : n = Len(s) - 2
      <3>1. Len(s) - 2 \in Nat
        BY <2>2, <2>4
      <3> QED
        BY <3>1, Zenon
    <2>9. Below(s, new, n) /\ Len(new) = n
      BY <2>2, <2>7, <2>8 DEF Below
    <2> QED
      BY <1>5, <2>1, <2>6, <2>9
  <1>8. ASSUME NEW t \in Threads, TakeNext(t) PROVE Beyond'
    <2> DEFINE s == stack[t]
    <2>1. PICK f \in Frames : f = Call("notify", Head(rows))
      <3>1. Head(rows) \in Nat
        BY <1>8 DEF TakeNext, TypeOK
      <3>2. Call("notify", Head(rows)) \in Frames
        BY <3>1 DEF Call, Frames
      <3> QED
        BY <3>2, Zenon
    <2>2. f.kind = "notify"
      BY <2>1 DEF Call
    <2>3. s \in Seq(Frames) /\ Len(s) \in Nat
      BY <1>2
    <2>10. Append(s, f) \in Seq(Frames)
      BY <2>3, AppendProperties
    <2>4. PICK new \in Seq(Frames) : new = Append(s, f)
      BY <2>10, Zenon
    <2>5. Len(new) = Len(s) + 1 /\ new[Len(s) + 1] = f /\ \A i \in 1..Len(s) : new[i] = s[i]
      BY <2>3, <2>4, AppendProperties
    <2>6. stack' = [stack EXCEPT ![t] = new]
      <3>1. stack' = [stack EXCEPT ![t] = s \o <<f>>]
        BY <1>8, <2>1, Zenon DEF TakeNext, Push
      <3>2. s \o <<f>> = new
        BY <2>3, <2>4, AppendIsConcat
      <3> QED
        BY <3>1, <3>2, Zenon
    <2>7. PICK n \in Nat : n = Len(s)
      BY <2>3
    <2>8. /\ Below(s, new, n)
          /\ \A j \in (n + 1)..Len(new) : j = Len(new) /\ new[j].kind = "notify"
      BY <2>2, <2>3, <2>5, <2>7 DEF Below
    <2>9. \A j \in (n + 1)..Len(new) :
               /\ new[j].kind = "notify" => j = Len(new)
               /\ new[j].kind = "drain" /\ new[j].row # 0 => new[j].row > Len(started)
      BY <2>8
    <2> QED
      BY <2>6, <2>8, <2>9, BeyondKept
  <1>9. ASSUME NEW t \in Threads, Log(t) \/ Flush(t) \/ SinkLog(t) \/ PublishInline(t) PROVE Beyond'
    <2>1. UNCHANGED stack
      BY <1>9, Zenon DEF Log, Flush, SinkLog, PublishInline
    <2> QED
      BY <1>1, <2>1
  <1>10. CASE UNCHANGED vars
    BY <1>1, <1>10 DEF vars
  <1> QED
    BY <1>3, <1>4, <1>6, <1>7, <1>8, <1>9, <1>10 DEF Next, Step

\* A row at or before the target was taken if it is not in the queue; it is
\* done, or it is delivered by another thread, which then owns the queue,
\* or by this thread below the call, which then waits for a later row.
LEMMA BeyondStops ==
  ASSUME TypeOK, Runs, Ownership, Beyond
  PROVE  StopsAtTarget
  <1> SUFFICES ASSUME NEW t \in Threads, In(t, "drain"), Top(t).row \notin done \cup {0},
                      rows # <<>>, Mine(t), ~(Head(rows) <= Top(t).row)
               PROVE  FALSE
    BY DEF StopsAtTarget
  <1> DEFINE s == stack[t]
             r == Top(t).row
  <1>1. /\ s \in Seq(Frames) /\ Len(s) \in Nat \ {0} /\ Top(t) = s[Len(s)]
        /\ s[Len(s)].kind = "drain" /\ s[Len(s)].row = r /\ r \in Nat \ {0}
    <2>1. s \in Seq(Frames) /\ s # <<>>
      BY DEF In, TypeOK
    <2>2. Len(s) \in Nat \ {0} /\ Top(t) = s[Len(s)] /\ s[Len(s)] \in Frames
      BY <2>1 DEF Top, Last
    <2>3. Top(t).row \in Nat /\ Top(t).row # 0
      BY <2>2 DEF Frames
    <2> QED
      BY <2>1, <2>2, <2>3, Zenon DEF In
  <1>2. Head(rows) = Len(started) + 1 /\ Len(started) \in Nat
    BY DEF Runs, TypeOK
  <1>3. r \in 1..Len(started)
    BY <1>1, <1>2
  <1>12. DOMAIN started = 1..Len(started)
    BY DEF TypeOK
  <1>4. started[r] = r /\ r \in DOMAIN started
    BY <1>3, <1>12, Zenon DEF Runs
  <1>5. r \in Range(started)
    BY <1>4, Zenon DEF Range
  <1>6. PICK u \in Threads : \E i \in 1..Len(stack[u]) :
          stack[u][i].kind = "notify" /\ stack[u][i].row = r
    BY <1>5 DEF Ownership, Accounted, Notifying
  <1>7. PICK i \in 1..Len(stack[u]) : stack[u][i].kind = "notify" /\ stack[u][i].row = r
    BY <1>6
  <1>8. owner = u
    BY <1>7 DEF Ownership, Nested, DeliveriesIn
  <1>9. u = t
    BY <1>8, QueueAssumption DEF Mine
  <1>10. i < Len(s) /\ Len(s) \in 1..Len(s)
    BY <1>1, <1>7, <1>9
  <1>11. s[i].row < s[Len(s)].row
    BY <1>1, <1>7, <1>9, <1>10 DEF Beyond
  <1> QED
    BY <1>1, <1>7, <1>9, <1>11

(* A call that waits for a row never delivers past it, whatever the        *)
(* threads and the nesting, and though callbacks are cut short: drain()    *)
(* returns as soon as its own rows are done.                               *)
THEOREM StopsAtOwnRow == ~SinkLogs => (Spec => []StopsAtTarget)
  <1> SUFFICES ASSUME ~SinkLogs PROVE Spec => []StopsAtTarget
    OBVIOUS
  <1> DEFINE IInv == TypeOK /\ Runs /\ Ownership /\ Beyond
  <1>1. Init => IInv
    <2>1. Init => Beyond
      BY DEF Init, Beyond
    <2> QED
      BY <2>1, InitTypeOK, InitRuns, InitOwnership
  <1>2. IInv /\ [Next]_vars => IInv'
    BY NextTypeOK, NextRuns, NextOwnership, NextBeyond
  <1>3. IInv => StopsAtTarget
    BY BeyondStops
  <1> QED
    BY <1>1, <1>2, <1>3, PTL DEF Spec

-----------------------------------------------------------------------------
(* Nothing is forgotten.  Whatever order a diagnostic sink brings the rows *)
(* into, each row is in one place: started, queued, or pending in the      *)
(* transaction.  The last row of a queue that is not empty is the target   *)
(* of a drain() somewhere, which returns when the row is done and no       *)
(* sooner; only a callback that is cut short takes that drain() away.      *)
Apart ==
    /\ wlock = NoOne => pending = <<>>
    /\ IsInjective(rows) /\ IsInjective(pending)
    /\ Range(started) \cap Range(rows) = {}
    /\ Range(started) \cap Range(pending) = {}
    /\ Range(rows) \cap Range(pending) = {}
    /\ Range(started) \cup Range(rows) \cup Range(pending) = 1..(next - 1)
    /\ next >= 1

Awaited ==
    rows # <<>> => \E t \in Threads : \E i \in 1..Len(stack[t]) :
                      stack[t][i].kind = "drain" /\ stack[t][i].row = Last(rows)

LEMMA InitApart == Init => Apart /\ Awaited
  <1> SUFFICES ASSUME Init PROVE Apart /\ Awaited
    OBVIOUS
  <1>1. rows = <<>> /\ pending = <<>> /\ started = <<>> /\ next = 1
    BY DEF Init
  <1>2. Range(<<>>) = {} /\ IsInjective(<<>>)
    BY DEF Range, IsInjective
  <1>3. 1..(1 - 1) = {}
    OBVIOUS
  <1> QED
    BY <1>1, <1>2, <1>3 DEF Apart, Awaited

LEMMA NextApart ==
  ASSUME TypeOK, Apart, [Next]_vars
  PROVE  Apart'
  <1> USE DEF txnVars, queueVars
  <1>1. Range(<<>>) = {} /\ IsInjective(<<>>)
    BY DEF Range, IsInjective
  <1>2. ASSUME UNCHANGED <<started, rows, pending, next, wlock>> PROVE Apart'
    BY <1>2 DEF Apart
  <1>3. ASSUME NEW t \in Threads, Log(t) \/ Flush(t) PROVE Apart'
    <2>1. PICK n \in 0..2 : Admit(n)
      BY <1>3 DEF Log, Flush
    <2>2. wlock = NoOne /\ pending = <<>>
      BY <1>3 DEF Log, Flush, MayCall, Apart
    <2>3. wlock' = t /\ t # NoOne /\ rows' = rows /\ started' = started
      BY <1>3, QueueAssumption DEF Log, Flush
    <2>4. next' = next + n /\ pending' = [i \in 1..n |-> next + i - 1] /\ next \in Nat /\ next >= 1
      BY <2>1 DEF Admit, TypeOK, Apart
    <2>5. IsInjective(pending')
      BY <2>4 DEF IsInjective
    <2>6. \A x : x \in Range(pending') <=> x \in next..(next + n - 1)
      <3>1. ASSUME NEW x \in Range(pending') PROVE x \in next..(next + n - 1)
        BY <2>4, <3>1 DEF Range
      <3>2. ASSUME NEW x \in next..(next + n - 1) PROVE x \in Range(pending')
        <4>1. x - next + 1 \in DOMAIN pending' /\ pending'[x - next + 1] = x
          BY <2>4, <3>2
        <4> QED
          BY <4>1, Zenon DEF Range
      <3> QED
        BY <3>1, <3>2
    <2>7. Range(started) \cup Range(rows) = 1..(next - 1)
      BY <1>1, <2>2 DEF Apart
    <2>8. Range(started') \cup Range(rows') \cup Range(pending') = 1..(next' - 1)
      <3>1. \A x : x \in 1..(next' - 1) <=> x \in 1..(next - 1) \/ x \in next..(next + n - 1)
        BY <2>4
      <3> QED
        BY <2>3, <2>6, <2>7, <3>1, Zenon
    <2>9. \A x : ~(x \in 1..(next - 1) /\ x \in next..(next + n - 1))
      BY <2>4
    <2>10. Range(started) \cap Range(pending') = {} /\ Range(rows) \cap Range(pending') = {}
      BY <2>6, <2>7, <2>9, Zenon
    <2>11. next' >= 1
      BY <2>4
    <2> QED
      BY <2>3, <2>5, <2>8, <2>10, <2>11, Zenon DEF Apart
  <1>4. ASSUME NEW t \in Threads, SinkLog(t) PROVE Apart'
    <2>1. /\ wlock = t /\ t # NoOne /\ next' = next + 1 /\ pending' = <<next>> \o pending
          /\ UNCHANGED <<started, rows, wlock>>
      BY <1>4, QueueAssumption DEF SinkLog
    <2>2. next \in Nat /\ next >= 1 /\ pending \in Seq(Nat)
      BY DEF TypeOK, Apart
    <2>3. <<next>> \in Seq(Nat) /\ Range(<<next>>) = {next} /\ IsInjective(<<next>>)
      BY <2>2, RangeOne DEF IsInjective
    <2>4. Range(pending') = {next} \cup Range(pending)
      BY <2>1, <2>2, <2>3, RangeConcat
    <2>5. next \notin 1..(next - 1) /\ 1..(next' - 1) = 1..(next - 1) \cup {next} /\ next' >= 1
      BY <2>1, <2>2
    <2>6. next \notin Range(started) /\ next \notin Range(rows) /\ next \notin Range(pending)
      BY <2>5, Zenon DEF Apart
    <2>7. IsInjective(pending')
      <3>1. IsInjective(pending) /\ Range(<<next>>) \cap Range(pending) = {}
        BY <2>3, <2>6 DEF Apart
      <3> QED
        BY <2>1, <2>2, <2>3, <3>1, InjectiveConcat
    <2>8. Range(started) \cup Range(rows) \cup Range(pending') = 1..(next' - 1)
      <3>1. Range(started) \cup Range(rows) \cup Range(pending) = 1..(next - 1)
        BY DEF Apart
      <3> QED
        BY <2>4, <2>5, <3>1
    <2>9. Range(started) \cap Range(pending') = {} /\ Range(rows) \cap Range(pending') = {}
      BY <2>4, <2>6 DEF Apart
    <2> QED
      BY <2>1, <2>5, <2>7, <2>8, <2>9, Zenon DEF Apart
  <1>5. ASSUME NEW t \in Threads, PublishInline(t) PROVE Apart'
    <2>1. /\ UNCHANGED <<rows, next>> /\ started' = started \o pending
          /\ pending' = <<>> /\ wlock' = NoOne
      BY <1>5 DEF PublishInline, Release
    <2>2. Range(started') = Range(started) \cup Range(pending)
      BY <2>1, RangeConcat DEF TypeOK
    <2>3. Range(started') \cap Range(rows') = {}
      BY <2>1, <2>2 DEF Apart
    <2>4. Range(started') \cup Range(rows') \cup Range(pending') = 1..(next' - 1)
      <3>1. Range(started) \cup Range(rows) \cup Range(pending) = 1..(next - 1)
        BY DEF Apart
      <3> QED
        BY <1>1, <2>1, <2>2, <3>1
    <2>5. IsInjective(rows') /\ next' >= 1
      BY <2>1 DEF Apart
    <2> QED
      BY <1>1, <2>1, <2>3, <2>4, <2>5 DEF Apart
  <1>6. ASSUME NEW t \in Threads, Stage(t) PROVE Apart'
    <2>1. /\ rows' = rows \o pending /\ pending' = <<>> /\ wlock' = NoOne
          /\ started' = started /\ next' = next
      BY <1>6 DEF Stage, Staged, Release
    <2>2. Range(rows') = Range(rows) \cup Range(pending)
      BY <2>1, RangeConcat DEF TypeOK
    <2>3. IsInjective(rows') /\ next' >= 1
      BY <2>1, InjectiveConcat DEF TypeOK, Apart
    <2>4. Range(started') \cap Range(rows') = {}
      BY <2>1, <2>2 DEF Apart
    <2>5. Range(started') \cup Range(rows') \cup Range(pending') = 1..(next' - 1)
      <3>1. Range(started) \cup Range(rows) \cup Range(pending) = 1..(next - 1)
        BY DEF Apart
      <3> QED
        BY <1>1, <2>1, <2>2, <3>1
    <2> QED
      BY <1>1, <2>1, <2>3, <2>4, <2>5 DEF Apart
  <1>7. ASSUME NEW t \in Threads, TakeNext(t) PROVE Apart'
    <2>1. /\ rows # <<>> /\ rows' = Tail(rows) /\ started' = Append(started, Head(rows))
          /\ UNCHANGED <<wlock, pending, next>>
      BY <1>7 DEF TakeNext
    <2>2. Head(rows) \in Nat /\ rows \in Seq(Nat) /\ started \in Seq(Nat)
      BY <2>1 DEF TypeOK
    <2>3. Range(started') = Range(started) \cup {Head(rows)}
      BY <2>1, <2>2, RangeAppend
    <2>4. /\ IsInjective(rows') /\ Head(rows) \notin Range(rows')
          /\ Range(rows) = {Head(rows)} \cup Range(rows')
      BY <2>1, <2>2, TailRange DEF Apart
    <2>5. /\ Range(started') \cap Range(rows') = {}
          /\ Range(started') \cap Range(pending') = {}
          /\ Range(rows') \cap Range(pending') = {}
      <3>1. /\ Range(started) \cap Range(rows) = {}
            /\ Range(started) \cap Range(pending) = {}
            /\ Range(rows) \cap Range(pending) = {}
        BY DEF Apart
      <3> QED
        BY <2>1, <2>3, <2>4, <3>1
    <2>6. Range(started') \cup Range(rows') \cup Range(pending') = 1..(next' - 1)
      <3>1. Range(started) \cup Range(rows) \cup Range(pending) = 1..(next - 1)
        BY DEF Apart
      <3> QED
        BY <2>1, <2>3, <2>4, <3>1
    <2>7. next' >= 1 /\ IsInjective(pending') /\ (wlock' = NoOne => pending' = <<>>)
      BY <2>1 DEF Apart
    <2> QED
      BY <2>4, <2>5, <2>6, <2>7, Zenon DEF Apart
  <1>8. ASSUME NEW t \in Threads,
               Enter(t) \/ Return(t) \/ Notified(t) \/ Interrupted(t)
        PROVE  Apart'
    <2>1. UNCHANGED <<started, rows, pending, next, wlock>>
      BY <1>8, Zenon DEF Enter, Return, Notified, Interrupted, Finish, Released
    <2> QED
      BY <1>2, <2>1
  <1>9. CASE UNCHANGED vars
    BY <1>2, <1>9 DEF vars
  <1> QED
    BY <1>3, <1>4, <1>5, <1>6, <1>7, <1>8, <1>9 DEF Next, Step

\* The drain() that waits for the last row is still there.
LEMMA AwaitedKept ==
  ASSUME TypeOK, Awaited, NEW t \in Threads, NEW new \in Seq(Frames),
         stack' = [stack EXCEPT ![t] = new],
         NEW n \in Nat, Below(stack[t], new, n),
         \A i \in (n + 1)..Len(stack[t]) :
            ~(stack[t][i].kind = "drain" /\ stack[t][i].row = Last(rows)),
         rows # <<>>, Last(rows') = Last(rows)
  PROVE  Awaited'
  <1> DEFINE s == stack[t]
  <1>1. \A u \in Threads : stack'[u] = IF u = t THEN new ELSE stack[u]
    BY DEF TypeOK
  <1>2. s \in Seq(Frames) /\ Len(s) \in Nat /\ Len(new) \in Nat /\ n <= Len(s) /\ n <= Len(new)
        /\ \A i \in 1..n : new[i] = s[i]
    BY DEF TypeOK, Below
  <1>3. PICK u \in Threads : \E i \in 1..Len(stack[u]) :
          stack[u][i].kind = "drain" /\ stack[u][i].row = Last(rows)
    BY DEF Awaited
  <1>4. PICK i \in 1..Len(stack[u]) : stack[u][i].kind = "drain" /\ stack[u][i].row = Last(rows)
    BY <1>3
  <1>5. i \in 1..Len(stack'[u]) /\ stack'[u][i] = stack[u][i]
    <2>1. CASE u = t
      <3>1. i \in 1..n
        BY <1>2, <1>4, <2>1
      <3>2. i \in 1..Len(new) /\ new[i] = s[i]
        BY <1>2, <3>1
      <3> QED
        BY <1>1, <2>1, <3>2, Zenon
    <2>2. CASE u # t
      BY <1>1, <1>4, <2>2, Zenon
    <2> QED
      BY <2>1, <2>2
  <1> QED
    BY <1>4, <1>5, Zenon DEF Awaited

LEMMA NextAwaited ==
  ASSUME TypeOK, Ownership, Apart, Awaited, [Next]_vars, ~Interrupts
  PROVE  Awaited'
  <1> USE DEF txnVars, queueVars
  <1>1. ASSUME UNCHANGED <<rows, stack>> PROVE Awaited'
    BY <1>1 DEF Awaited
  <1>2. \A t \in Threads : stack[t] \in Seq(Frames)
    BY DEF TypeOK
  <1>3. ASSUME NEW t \in Threads, Stage(t) PROVE Awaited'
    <2> DEFINE s      == stack[t]
               enter  == IF then THEN <<Call("enter", 0)>> ELSE <<>>
               target == IF pending # <<>> THEN <<Call("drain", Last(pending))>> ELSE <<>>
               more   == enter \o target
    <2>1. rows' = rows \o pending /\ stack' = [stack EXCEPT ![t] = s \o more]
      BY <1>3, Zenon DEF Stage, Staged, Push
    <2>2. \A r \in Nat : Call("drain", r) \in Frames /\ Call("enter", r) \in Frames
      BY DEF Call, Frames
    <2>3. pending # <<>> => Last(pending) \in Nat
      BY LastIs DEF TypeOK
    <2>4. enter \in Seq(Frames)
      BY <2>2
    <2>5. target \in Seq(Frames)
      BY <2>2, <2>3
    <2> HIDE DEF enter, target
    <2>6. more \in Seq(Frames)
      BY <2>4, <2>5, ConcatProperties
    <2>7. CASE pending = <<>>
      <3>1. rows' = rows
        BY <2>1, <2>7 DEF TypeOK
      <3> HIDE DEF more
      <3>2. PICK n \in Nat : n = Len(s)
        BY <1>2
      <3>3. s \o more \in Seq(Frames) /\ Below(s, s \o more, n) /\ \A i \in (n + 1)..Len(s) : FALSE
        BY <1>2, <2>6, <3>2, ConcatProperties DEF Below
      <3>4. CASE rows # <<>>
        BY <2>1, <3>1, <3>3, <3>4, AwaitedKept, Zenon
      <3>5. CASE rows = <<>>
        BY <3>1, <3>5 DEF Awaited
      <3> QED
        BY <3>4, <3>5
    <2>8. CASE pending # <<>>
      <3>1. Last(rows') = Last(pending)
        <4>1. pending \in Seq(Nat) /\ Len(pending) \in Nat \ {0} /\ Last(pending) = pending[Len(pending)]
          BY <2>8, LastIs DEF TypeOK
        <4>2. Len(rows) \in Nat /\ Len(rows') = Len(rows) + Len(pending)
              /\ \A i \in 1..Len(rows') : rows'[i] = IF i <= Len(rows) THEN rows[i] ELSE pending[i - Len(rows)]
          BY <2>1, <4>1, ConcatProperties DEF TypeOK
        <4>3. Len(rows') \in 1..Len(rows') /\ ~(Len(rows') <= Len(rows)) /\ Len(rows') - Len(rows) = Len(pending)
          BY <4>1, <4>2
        <4>4. rows'[Len(rows')] = pending[Len(pending)]
          BY <4>2, <4>3
        <4> QED
          BY <4>1, <4>4, Zenon DEF Last
      <3>2. target = <<Call("drain", Last(pending))>>
        BY <2>8 DEF target
      <3>3. Len(more) = Len(enter) + 1 /\ Len(enter) \in Nat /\ more[Len(more)] = Call("drain", Last(pending))
        BY <2>4, <2>5, <3>2, ConcatProperties
      <3> HIDE DEF more
      <3>4. /\ Len(s \o more) = Len(s) + Len(more) /\ Len(s) \in Nat /\ Len(more) \in Nat \ {0}
            /\ (s \o more)[Len(s \o more)] = more[Len(more)]
        <4>1. /\ Len(s \o more) = Len(s) + Len(more) /\ Len(s) \in Nat /\ Len(more) \in Nat \ {0}
              /\ \A i \in 1..Len(s) + Len(more) : (s \o more)[i] = IF i <= Len(s) THEN s[i] ELSE more[i - Len(s)]
          <5>1. s \in Seq(Frames) /\ Len(s) \in Nat /\ Len(more) \in Nat \ {0}
            BY <1>2, <3>3
          <5> HIDE DEF s
          <5> QED
            BY <2>6, <5>1, ConcatProperties
        <4>2. Len(s \o more) \in 1..(Len(s) + Len(more)) /\ ~(Len(s \o more) <= Len(s))
              /\ Len(s \o more) - Len(s) = Len(more)
          BY <4>1
        <4> QED
          BY <4>1, <4>2
      <3>5. stack'[t] = s \o more
        BY <2>1 DEF TypeOK
      <3>6. Len(stack'[t]) \in 1..Len(stack'[t]) /\ stack'[t][Len(stack'[t])] = Call("drain", Last(pending))
        BY <3>3, <3>4, <3>5
      <3>7. Call("drain", Last(pending)).kind = "drain" /\ Call("drain", Last(pending)).row = Last(pending)
        BY DEF Call
      <3> QED
        BY <3>1, <3>6, <3>7, Zenon DEF Awaited
    <2> QED
      BY <2>7, <2>8
  <1>4. ASSUME NEW t \in Threads, Enter(t) PROVE Awaited'
    <2> DEFINE s == stack[t]
    <2>1. PICK row \in Nat : /\ stack' = [stack EXCEPT ![t] = Append(Front(s), Call("drain", row))]
                             /\ rows' = rows
      <3>1. rows # <<>> => Last(rows) \in Nat
        BY LastIs DEF TypeOK
      <3> QED
        BY <1>4, <3>1 DEF Enter
    <2>2. s \in Seq(Frames) /\ s # <<>> /\ Last(s) = s[Len(s)] /\ s[Len(s)].kind = "enter"
      BY <1>2, <1>4, LastIs DEF Enter, In, Top
    <2>3. /\ Front(s) \in Seq(Frames) /\ Len(Front(s)) = Len(s) - 1 /\ Len(s) \in Nat \ {0}
          /\ \A i \in 1..(Len(s) - 1) : Front(s)[i] = s[i]
      BY <2>2, FrontIs
    <2>4. Call("drain", row) \in Frames
      BY DEF Call, Frames
    <2> DEFINE new == Append(Front(s), Call("drain", row))
    <2>5. /\ new \in Seq(Frames) /\ Len(new) = Len(s)
          /\ \A i \in 1..(Len(s) - 1) : new[i] = s[i]
      BY <2>3, <2>4, AppendProperties
    <2> HIDE DEF new
    <2>6. PICK n \in Nat : n = Len(s) - 1
      BY <2>3
    <2>7. /\ Below(s, new, n)
          /\ \A i \in (n + 1)..Len(s) : ~(s[i].kind = "drain" /\ s[i].row = Last(rows))
      BY <2>2, <2>3, <2>5, <2>6 DEF Below
    <2>8. CASE rows # <<>>
      <3>1. stack' = [stack EXCEPT ![t] = new]
        BY <2>1, Zenon DEF new
      <3> QED
        BY <2>1, <2>5, <2>7, <2>8, <3>1, AwaitedKept, Zenon
    <2> QED
      BY <2>1, <2>8 DEF Awaited
  <1>5. ASSUME NEW t \in Threads, Return(t) \/ Notified(t) PROVE Awaited'
    <2> DEFINE s   == stack[t]
               new == Front(s)
    <2>1. s \in Seq(Frames) /\ s # <<>> /\ stack' = [stack EXCEPT ![t] = new] /\ rows' = rows
      BY <1>2, <1>5 DEF Return, Notified, In, Pop, Finish
    <2>2. /\ new \in Seq(Frames) /\ Len(new) = Len(s) - 1 /\ Len(s) \in Nat \ {0}
          /\ \A i \in 1..(Len(s) - 1) : new[i] = s[i]
      BY <2>1, FrontIs
    <2> HIDE DEF new
    <2>3. PICK n \in Nat : n = Len(s) - 1
      BY <2>2
    <2>4. Below(s, new, n)
      BY <2>2, <2>3 DEF Below
    <2>5. CASE rows # <<>>
      <3>1. Top(t) = s[Len(s)]
        BY <2>1, LastIs DEF Top
      <3>2. ~(s[Len(s)].kind = "drain" /\ s[Len(s)].row = Last(rows))
        <4>1. CASE Notified(t)
          BY <3>1, <4>1 DEF Notified, In
        <4>2. CASE Return(t)
          <5>1. Top(t).row \in done
            BY <2>5, <4>2 DEF Return, Satisfied
          <5>2. Last(rows) = rows[Len(rows)] /\ Len(rows) \in DOMAIN rows
            BY <2>5, LastIs DEF TypeOK
          <5>3. Last(rows) \in Range(rows)
            BY <5>2, Zenon DEF Range
          <5>4. Last(rows) \notin done
            BY <5>3 DEF Apart, Ownership, Accounted
          <5> QED
            BY <3>1, <5>1, <5>4
        <4> QED
          BY <1>5, <4>1, <4>2
      <3>3. \A i \in (n + 1)..Len(s) : ~(s[i].kind = "drain" /\ s[i].row = Last(rows))
        BY <2>2, <2>3, <3>2
      <3> QED
        BY <2>1, <2>2, <2>4, <2>5, <3>3, AwaitedKept, Zenon
    <2> QED
      BY <2>1, <2>5 DEF Awaited
  <1>6. ASSUME NEW t \in Threads, TakeNext(t) PROVE Awaited'
    <2> DEFINE s == stack[t]
               f == Call("notify", Head(rows))
               new == s \o <<f>>
    <2>1. rows # <<>> /\ rows' = Tail(rows) /\ stack' = [stack EXCEPT ![t] = new]
      BY <1>6, Zenon DEF TakeNext, Push
    <2>2. Head(rows) \in Nat /\ rows \in Seq(Nat)
      BY <2>1 DEF TypeOK
    <2>3. <<f>> \in Seq(Frames) /\ s \in Seq(Frames)
      BY <1>2, <2>2 DEF Call, Frames
    <2> HIDE DEF f
    <2>4. PICK n \in Nat : n = Len(s)
      BY <2>3
    <2>5. new \in Seq(Frames) /\ Below(s, new, n) /\ \A i \in (n + 1)..Len(s) : FALSE
      BY <2>3, <2>4, ConcatProperties DEF Below
    <2> HIDE DEF new
    <2>6. CASE rows' # <<>>
      <3>1. Last(rows') = Last(rows)
        BY <2>1, <2>2, <2>6, TailRange DEF Apart
      <3> QED
        BY <2>1, <2>5, <3>1, AwaitedKept, Zenon
    <2> QED
      BY <2>6 DEF Awaited
  <1>7. ASSUME NEW t \in Threads, Log(t) \/ Flush(t) \/ SinkLog(t) \/ PublishInline(t) PROVE Awaited'
    <2>1. UNCHANGED <<rows, stack>>
      BY <1>7, Zenon DEF Log, Flush, SinkLog, PublishInline
    <2> QED
      BY <1>1, <2>1
  <1>8. ASSUME NEW t \in Threads, Interrupted(t) PROVE Awaited'
    BY <1>8 DEF Interrupted
  <1>9. CASE UNCHANGED vars
    BY <1>1, <1>9 DEF vars
  <1> QED
    BY <1>3, <1>4, <1>5, <1>6, <1>7, <1>8, <1>9 DEF Next, Step

(* When no call is left, nothing is queued and every row was delivered,    *)
(* for all threads and nesting, and even if a diagnostic sink logs from    *)
(* inside a write, as long as no callback is cut short: what one thread    *)
(* leaves in the queue another one waits for.                              *)
THEOREM QuietDelivered == ~Interrupts => (Spec => []QuietMeansDelivered)
  <1> SUFFICES ASSUME ~Interrupts PROVE Spec => []QuietMeansDelivered
    OBVIOUS
  <1> DEFINE IInv == TypeOK /\ Ownership /\ Apart /\ Awaited
  <1>1. Init => IInv
    BY InitTypeOK, InitOwnership, InitApart
  <1>2. IInv /\ [Next]_vars => IInv'
    BY NextTypeOK, NextOwnership, NextApart, NextAwaited
  <1>3. IInv => QuietMeansDelivered
    <2> SUFFICES ASSUME IInv, Quiet PROVE rows = <<>> /\ done = 1..(next - 1)
      BY DEF QuietMeansDelivered
    <2>1. pending = <<>> /\ \A t \in Threads : stack[t] = <<>>
      BY DEF Quiet, Apart
    <2>2. rows = <<>>
      BY <2>1 DEF Awaited
    <2>3. \A r : ~Notifying(r)
      BY <2>1 DEF Notifying
    <2>4. done = Range(started)
      BY <2>3, Zenon DEF Ownership, Accounted
    <2>5. Range(<<>>) = {}
      BY DEF Range
    <2>6. Range(started) = 1..(next - 1)
      BY <2>1, <2>2, <2>5 DEF Apart
    <2> QED
      BY <2>2, <2>4, <2>6, Zenon
  <1> QED
    BY <1>1, <1>2, <1>3, PTL DEF Spec
==============================================================================

-------------------------- MODULE RunLifecycle_proofs --------------------------
(***************************************************************************)
(* One run at a time has its files open but for the abandoned, and a       *)
(* finished one is finished whole: for any threads, nesting and interrupts.*)
(***************************************************************************)
EXTENDS RunLifecycle, SequenceTheorems, FiniteSetTheorems, TLAPS

-----------------------------------------------------------------------------
(* Sequences                                                               *)

LEMMA FrontIs ==
  ASSUME NEW S, NEW s \in Seq(S), s # <<>>
  PROVE  /\ Front(s) \in Seq(S) /\ Len(Front(s)) = Len(s) - 1 /\ Len(s) \in Nat \ {0}
         /\ \A i \in 1..(Len(s) - 1) : Front(s)[i] = s[i]
  <1>1. Len(s) \in Nat /\ Len(s) > 0
    OBVIOUS
  <1>2. PICK n \in Nat : n = Len(s) - 1
    BY <1>1
  <1>3. \A i \in 1..n : s[i] \in S
    BY <1>1, <1>2
  <1>4. /\ SubSeq(s, 1, n) \in Seq(S)
        /\ Len(SubSeq(s, 1, n)) = IF 1 <= n THEN n - 1 + 1 ELSE 0
        /\ \A i \in 1..(n - 1 + 1) : SubSeq(s, 1, n)[i] = s[1 + i - 1]
    BY <1>3, SubSeqProperties
  <1>5. Front(s) = SubSeq(s, 1, n)
    BY <1>2 DEF Front
  <1> QED
    BY <1>1, <1>2, <1>4, <1>5

LEMMA LastIs ==
  ASSUME NEW S, NEW s \in Seq(S), s # <<>>
  PROVE  Last(s) = s[Len(s)] /\ Last(s) \in S /\ Len(s) \in Nat \ {0}
  BY DEF Last

-----------------------------------------------------------------------------
(* Stacks                                                                  *)

LeadAts   == {"closing", "commit", "drain", "writer", "summary", "alerts", "backends", "done"}
FinishAts == {"elect", "await"} \cup LeadAts
AtNames   == {"admit", "callback", "lock", "build"} \cup FinishAts
CallNames == {"log", "flush", "callback", "finish", "et.init", "et.finish"}
FrameSet  == [call : CallNames, at : AtNames, run : 0..MaxRuns, want : Nat]

Ends(f) == f.call \in {"finish", "et.finish"}
Et(f)   == f.call \in {"et.init", "et.finish"}

\* The steps of each call.
IsFrame(f) ==
    /\ f.call = "log" => f.at \in {"admit", "drain"}
    /\ f.call = "flush" => f.at = "drain"
    /\ f.call = "callback" <=> f.at = "callback"
    /\ f.call = "finish" => f.at \in FinishAts
    /\ f.call = "et.init" => f.at \in {"lock", "build"}
    /\ f.call = "et.finish" => f.at \in {"lock"} \cup FinishAts
    /\ f.at # "lock" => f.run # 0
    /\ f.call \notin {"log", "callback"} => f.want = 0

\* A call that has another above it delivers a row, or is a callback.
Below(f, g) ==
    \/ f.at = "callback" /\ g.call # "callback"
    \/ f.at = "drain" /\ g.call = "callback" /\ g.run = f.run

Stacked ==
    \A t \in Threads :
        /\ \A i \in 1..Len(stack[t]) : IsFrame(stack[t][i])
        /\ \A i \in 1..(Len(stack[t]) - 1) : Below(stack[t][i], stack[t][i + 1])

StoreSet == [closed : BOOLEAN, writer : {"none", "open", "closed"}, open : BOOLEAN,
             committed : Nat, begun : Nat, done : SUBSET Nat, owner : Threads \cup {NoOne}]
ShutdownSet == [owner : Threads \cup {NoOne}, done : BOOLEAN, error : BOOLEAN, sinks : SUBSET Sinks]

Types ==
    /\ current \in 0..MaxRuns /\ built \in 0..MaxRuns
    /\ lifecycle \in Threads \cup {NoOne}
    /\ store \in [Runs -> StoreSet] /\ shutdown \in [Runs -> ShutdownSet]
    /\ stack \in [Threads -> Seq(FrameSet)]
    /\ returned \subseteq Runs /\ abandoned \subseteq Runs
    /\ calls \in Nat /\ cuts \in Nat

\* The calls of init() that may still build a run have one left to build.
BuilderSet == {t \in Threads : \E f \in Range(stack[t]) : f.call = "et.init" /\ f.at = "lock"}
Room == IsFiniteSet(BuilderSet) /\ Cardinality(BuilderSet) + built <= MaxRuns

TypeOK == Types /\ Stacked /\ Room

\* A step of thread t leaves the first n of its calls and perhaps one more.
Changes(t, n, more, f) ==
    /\ t \in Threads /\ n \in 0..Len(stack[t]) /\ more \in BOOLEAN
    /\ stack' \in [Threads -> Seq(FrameSet)]
    /\ \A u \in Threads \ {t} : stack'[u] = stack[u]
    /\ Len(stack'[t]) = IF more THEN n + 1 ELSE n
    /\ \A i \in 1..n : stack'[t][i] = stack[t][i]
    /\ more => stack'[t][n + 1] = f

LEMMA PushIs ==
  ASSUME Types, NEW t \in Threads, NEW f \in FrameSet,
         stack' = [stack EXCEPT ![t] = Append(@, f)]
  PROVE  Changes(t, Len(stack[t]), TRUE, f)
  <1>1. PICK s \in Seq(FrameSet) : s = stack[t]
    BY DEF Types
  <1>2. PICK w : w = Append(s, f)
    OBVIOUS
  <1>3. w \in Seq(FrameSet) /\ Len(w) = Len(s) + 1 /\ w[Len(s) + 1] = f
        /\ \A i \in 1..Len(s) : w[i] = s[i]
    BY <1>2, AppendProperties
  <1>4. stack' = [stack EXCEPT ![t] = w] /\ stack \in [Threads -> Seq(FrameSet)]
    BY <1>1, <1>2 DEF Types
  <1>5. /\ stack' \in [Threads -> Seq(FrameSet)] /\ stack'[t] = w
        /\ \A u \in Threads \ {t} : stack'[u] = stack[u]
    BY <1>3, <1>4
  <1>6. Len(s) \in 0..Len(s)
    OBVIOUS
  <1> QED
    BY <1>1, <1>3, <1>5, <1>6 DEF Changes

LEMMA PopIs ==
  ASSUME Types, NEW t \in Threads, stack[t] # <<>>,
         stack' = [stack EXCEPT ![t] = Front(@)]
  PROVE  /\ \A f : Changes(t, Len(stack[t]) - 1, FALSE, f)
         /\ stack'[t] = Front(stack[t])
  <1>1. PICK s \in Seq(FrameSet) : s = stack[t]
    BY DEF Types
  <1>2. PICK w : w = Front(s)
    OBVIOUS
  <1>3. w \in Seq(FrameSet) /\ Len(w) = Len(s) - 1 /\ Len(s) \in Nat \ {0}
        /\ \A i \in 1..(Len(s) - 1) : w[i] = s[i]
    BY <1>1, <1>2, FrontIs
  <1>4. stack' = [stack EXCEPT ![t] = w] /\ stack \in [Threads -> Seq(FrameSet)]
    BY <1>1, <1>2 DEF Types
  <1>5. /\ stack' \in [Threads -> Seq(FrameSet)] /\ stack'[t] = w
        /\ \A u \in Threads \ {t} : stack'[u] = stack[u]
    BY <1>3, <1>4
  <1>6. Len(s) - 1 \in 0..Len(s)
    BY <1>3
  <1> QED
    BY <1>1, <1>2, <1>3, <1>5, <1>6 DEF Changes

LEMMA BecomeIs ==
  ASSUME Types, NEW t \in Threads, stack[t] # <<>>, NEW f \in FrameSet, Become(t, f)
  PROVE  Changes(t, Len(stack[t]) - 1, TRUE, f)
  <1>1. PICK s \in Seq(FrameSet) : s = stack[t]
    BY DEF Types
  <1>2. PICK v : v = Front(s)
    OBVIOUS
  <1>3. v \in Seq(FrameSet) /\ Len(v) = Len(s) - 1 /\ Len(s) \in Nat \ {0}
        /\ \A i \in 1..(Len(s) - 1) : v[i] = s[i]
    BY <1>1, <1>2, FrontIs
  <1>4. PICK w : w = Append(v, f)
    OBVIOUS
  <1>5. w \in Seq(FrameSet) /\ Len(w) = Len(v) + 1 /\ w[Len(v) + 1] = f
        /\ \A i \in 1..Len(v) : w[i] = v[i]
    BY <1>3, <1>4, AppendProperties
  <1>6. stack' = [stack EXCEPT ![t] = w] /\ stack \in [Threads -> Seq(FrameSet)]
    BY <1>1, <1>2, <1>4 DEF Types, Become
  <1>7. /\ stack' \in [Threads -> Seq(FrameSet)] /\ stack'[t] = w
        /\ \A u \in Threads \ {t} : stack'[u] = stack[u]
    BY <1>5, <1>6
  <1>8. Len(s) - 1 \in 0..Len(s)
    BY <1>3
  <1>9. \A i \in 1..(Len(s) - 1) : w[i] = s[i]
    BY <1>3, <1>5, Zenon
  <1>10. Len(w) = (Len(s) - 1) + 1 /\ w[(Len(s) - 1) + 1] = f
    BY <1>3, <1>5
  <1> QED
    BY <1>1, <1>7, <1>8, <1>9, <1>10 DEF Changes

LEMMA ClearIs ==
  ASSUME Types, NEW t \in Threads, stack' = [stack EXCEPT ![t] = <<>>]
  PROVE  \A f : Changes(t, 0, FALSE, f)
  <1>1. /\ stack' \in [Threads -> Seq(FrameSet)] /\ stack'[t] = <<>>
        /\ \A u \in Threads \ {t} : stack'[u] = stack[u]
    BY DEF Types
  <1>2. 0 \in 0..Len(stack[t])
    BY DEF Types
  <1> QED
    BY <1>1, <1>2 DEF Changes

\* The call a thread is in.
LEMMA TopIs ==
  ASSUME Types, Stacked, NEW t \in Threads, stack[t] # <<>>
  PROVE  /\ Top(t) \in FrameSet /\ IsFrame(Top(t)) /\ Top(t) = stack[t][Len(stack[t])]
         /\ Len(stack[t]) \in 1..Len(stack[t]) /\ Len(stack[t]) \in Nat \ {0}
  <1>1. PICK s \in Seq(FrameSet) : s = stack[t]
    BY DEF Types
  <1>2. Last(s) = s[Len(s)] /\ Last(s) \in FrameSet /\ Len(s) \in Nat \ {0}
    BY <1>1, LastIs
  <1>3. Len(s) \in 1..Len(s)
    BY <1>2
  <1> QED
    BY <1>1, <1>2, <1>3, Zenon DEF Top, Stacked

\* A call with another above it.
LEMMA UnderIs ==
  ASSUME Types, Stacked, NEW t \in Threads, NEW i \in 1..Len(stack[t]), i # Len(stack[t])
  PROVE  /\ i + 1 \in 1..Len(stack[t]) /\ i \in 1..(Len(stack[t]) - 1)
         /\ Below(stack[t][i], stack[t][i + 1]) /\ stack[t][i].at \in {"callback", "drain"}
  <1>1. Len(stack[t]) \in Nat
    BY DEF Types
  <1>2. i + 1 \in 1..Len(stack[t]) /\ i \in 1..(Len(stack[t]) - 1)
    BY <1>1
  <1> QED
    BY <1>2 DEF Stacked, Below

\* A frame after a step is the one that was there, or the new one.
LEMMA FrameIs ==
  ASSUME Types, NEW t, NEW n, NEW more, NEW f, Changes(t, n, more, f),
         NEW u \in Threads, NEW i \in 1..Len(stack'[u])
  PROVE  \/ i \in 1..Len(stack[u]) /\ stack'[u][i] = stack[u][i] /\ (u = t => i <= n)
         \/ more /\ u = t /\ i = n + 1 /\ stack'[u][i] = f
  <1>1. CASE u # t
    BY <1>1 DEF Changes
  <1>2. CASE u = t /\ i <= n
    <2>1. n \in 0..Len(stack[t]) /\ Len(stack[t]) \in Nat /\ t \in Threads
      BY DEF Changes, Types
    <2>2. i \in 1..n /\ i \in 1..Len(stack[t])
      BY <1>2, <2>1
    <2> QED
      BY <1>2, <2>2 DEF Changes
  <1>3. CASE u = t /\ ~(i <= n)
    <2>1. n \in 0..Len(stack[t]) /\ Len(stack[t]) \in Nat
      BY DEF Changes, Types
    <2>2. Len(stack'[t]) = IF more THEN n + 1 ELSE n
      BY DEF Changes
    <2>3. more /\ i = n + 1
      BY <1>3, <2>1, <2>2
    <2> QED
      BY <1>3, <2>3 DEF Changes
  <1> QED
    BY <1>1, <1>2, <1>3

\* A frame that stays.
LEMMA FrameStays ==
  ASSUME Types, NEW t, NEW n, NEW more, NEW f, Changes(t, n, more, f),
         NEW u \in Threads, NEW i \in 1..Len(stack[u]), u = t => i <= n
  PROVE  i \in 1..Len(stack'[u]) /\ stack'[u][i] = stack[u][i]
  <1>1. CASE u # t
    BY <1>1 DEF Changes
  <1>2. CASE u = t
    <2>1. n \in 0..Len(stack[t]) /\ Len(stack[t]) \in Nat
          /\ Len(stack'[t]) = IF more THEN n + 1 ELSE n
      BY DEF Changes, Types
    <2>2. i \in 1..n /\ i \in 1..Len(stack'[t])
      BY <1>2, <2>1
    <2> QED
      BY <1>2, <2>2 DEF Changes
  <1> QED
    BY <1>1, <1>2

LEMMA FrameAdded ==
  ASSUME Types, NEW t, NEW n, NEW f, Changes(t, n, TRUE, f)
  PROVE  n + 1 \in 1..Len(stack'[t]) /\ stack'[t][n + 1] = f
  BY DEF Changes, Types


\* A step that begins a call, takes one further, or ends some.
Pushed(t, f) == Changes(t, Len(stack[t]), TRUE, f)
Turned(t, f) == stack[t] # <<>> /\ Changes(t, Len(stack[t]) - 1, TRUE, f)
Popped(t, n) == \A f : Changes(t, n, FALSE, f)

LEMMA AfterPush ==
  ASSUME Types, NEW t \in Threads, NEW f, Pushed(t, f)
  PROVE  \A u \in Threads : \A i \in 1..Len(stack'[u]) :
           \/ i \in 1..Len(stack[u]) /\ stack'[u][i] = stack[u][i]
           \/ u = t /\ i = Len(stack[t]) + 1 /\ stack'[u][i] = f
  <1>1. PICK n, more : n = Len(stack[t]) /\ more = TRUE
    OBVIOUS
  <1>2. Changes(t, n, more, f)
    BY <1>1, Zenon DEF Pushed
  <1>3. TAKE u \in Threads
  <1>4. TAKE i \in 1..Len(stack'[u])
  <1>5. \/ i \in 1..Len(stack[u]) /\ stack'[u][i] = stack[u][i] /\ (u = t => i <= n)
        \/ more /\ u = t /\ i = n + 1 /\ stack'[u][i] = f
    BY <1>2, FrameIs
  <1> QED
    BY <1>1, <1>5

LEMMA AfterTurn ==
  ASSUME Types, NEW t \in Threads, NEW f, Turned(t, f)
  PROVE  \A u \in Threads : \A i \in 1..Len(stack'[u]) :
           \/ i \in 1..Len(stack[u]) /\ stack'[u][i] = stack[u][i] /\ (u = t => i <= Len(stack[t]) - 1)
           \/ u = t /\ i = Len(stack[t]) /\ stack'[u][i] = f
  <1>1. PICK n, more : n = Len(stack[t]) - 1 /\ more = TRUE
    OBVIOUS
  <1>2. Changes(t, n, more, f)
    BY <1>1, Zenon DEF Turned
  <1>3. n + 1 = Len(stack[t])
    BY <1>1 DEF Types
  <1>4. TAKE u \in Threads
  <1>5. TAKE i \in 1..Len(stack'[u])
  <1>6. \/ i \in 1..Len(stack[u]) /\ stack'[u][i] = stack[u][i] /\ (u = t => i <= n)
        \/ more /\ u = t /\ i = n + 1 /\ stack'[u][i] = f
    BY <1>2, FrameIs
  <1> QED
    BY <1>1, <1>3, <1>6

LEMMA AfterPop ==
  ASSUME Types, NEW t \in Threads, NEW n, Popped(t, n)
  PROVE  \A u \in Threads : \A i \in 1..Len(stack'[u]) :
           i \in 1..Len(stack[u]) /\ stack'[u][i] = stack[u][i] /\ (u = t => i <= n)
  <1>1. PICK f, more : Changes(t, n, more, f) /\ more = FALSE
    BY Zenon DEF Popped
  <1>2. TAKE u \in Threads
  <1>3. TAKE i \in 1..Len(stack'[u])
  <1> QED
    BY <1>1, FrameIs

\* The frames that stay, and the new one.
LEMMA StayPush ==
  ASSUME Types, NEW t \in Threads, NEW f, Pushed(t, f)
  PROVE  /\ \A u \in Threads : \A i \in 1..Len(stack[u]) :
              i \in 1..Len(stack'[u]) /\ stack'[u][i] = stack[u][i]
         /\ Len(stack[t]) + 1 \in 1..Len(stack'[t]) /\ stack'[t][Len(stack[t]) + 1] = f
  <1>1. PICK n, more : n = Len(stack[t]) /\ more = TRUE
    OBVIOUS
  <1>2. Changes(t, n, more, f) /\ n \in Nat
    <2>1. Changes(t, n, more, f)
      BY <1>1, Zenon DEF Pushed
    <2>2. Len(stack[t]) \in Nat
      BY DEF Types
    <2> QED
      BY <1>1, <2>1, <2>2
  <1>3. ASSUME NEW u \in Threads, NEW i \in 1..Len(stack[u])
        PROVE  i \in 1..Len(stack'[u]) /\ stack'[u][i] = stack[u][i]
    <2>1. u = t => i <= n
      BY <1>1, <1>2
    <2> QED
      BY <1>2, <2>1, FrameStays
  <1>4. n + 1 \in 1..Len(stack'[t]) /\ stack'[t][n + 1] = f
    BY <1>1, <1>2, FrameAdded
  <1> QED
    BY <1>1, <1>3, <1>4, Zenon

LEMMA StayTurn ==
  ASSUME Types, NEW t \in Threads, NEW f, Turned(t, f)
  PROVE  /\ \A u \in Threads : \A i \in 1..Len(stack[u]) : ~(u = t /\ i = Len(stack[t])) =>
              i \in 1..Len(stack'[u]) /\ stack'[u][i] = stack[u][i]
         /\ Len(stack[t]) \in 1..Len(stack'[t]) /\ stack'[t][Len(stack[t])] = f
  <1>1. PICK n, more : n = Len(stack[t]) - 1 /\ more = TRUE
    OBVIOUS
  <1>2. Changes(t, n, more, f) /\ n + 1 = Len(stack[t])
    <2>1. Changes(t, n, more, f)
      BY <1>1, Zenon DEF Turned
    <2>2. Len(stack[t]) \in Nat
      BY DEF Types
    <2>3. n + 1 = Len(stack[t])
      BY <1>1, <2>2
    <2> QED
      BY <2>1, <2>3
  <1>3. ASSUME NEW u \in Threads, NEW i \in 1..Len(stack[u]), ~(u = t /\ i = Len(stack[t]))
        PROVE  i \in 1..Len(stack'[u]) /\ stack'[u][i] = stack[u][i]
    <2>1. u = t => i <= n
      BY <1>1, <1>2, <1>3 DEF Types
    <2> QED
      BY <1>2, <2>1, FrameStays
  <1>4. n + 1 \in 1..Len(stack'[t]) /\ stack'[t][n + 1] = f
    BY <1>1, <1>2, FrameAdded
  <1>5. Len(stack[t]) \in 1..Len(stack'[t]) /\ stack'[t][Len(stack[t])] = f
    BY <1>2, <1>4
  <1> QED
    BY <1>3, <1>5, Zenon

LEMMA StayPop ==
  ASSUME Types, NEW t \in Threads, NEW n, Popped(t, n)
  PROVE  \A u \in Threads : \A i \in 1..Len(stack[u]) : (u = t => i <= n) =>
           i \in 1..Len(stack'[u]) /\ stack'[u][i] = stack[u][i]
  <1>1. PICK f, more : Changes(t, n, more, f) /\ more = FALSE
    BY Zenon DEF Popped
  <1>2. TAKE u \in Threads
  <1>3. TAKE i \in 1..Len(stack[u])
  <1> QED
    BY <1>1, FrameStays

LEMMA InStack ==
  ASSUME Types, NEW u \in Threads
  PROVE  /\ Range(stack[u]) = {stack[u][i] : i \in 1..Len(stack[u])}
         /\ Len(stack[u]) \in Nat
  <1>1. PICK s \in Seq(FrameSet) : s = stack[u]
    BY DEF Types
  <1>2. DOMAIN s = 1..Len(s) /\ Len(s) \in Nat
    BY <1>1
  <1>3. Range(s) = {s[i] : i \in 1..Len(s)}
    BY <1>2, Zenon DEF Range
  <1> QED
    BY <1>1, <1>2, <1>3

LEMMA StackedStep ==
  ASSUME Types, Stacked, NEW t, NEW n, NEW more, NEW f, Changes(t, n, more, f),
         more => IsFrame(f) /\ (n # 0 => Below(stack[t][n], f))
  PROVE  Stacked'
  <1>1. ASSUME NEW u \in Threads, NEW i \in 1..Len(stack'[u]) PROVE IsFrame(stack'[u][i])
    BY <1>1, FrameIs DEF Stacked
  <1>2. ASSUME NEW u \in Threads, NEW i \in 1..(Len(stack'[u]) - 1)
        PROVE  Below(stack'[u][i], stack'[u][i + 1])
    <2>1. /\ Len(stack'[u]) \in Nat /\ Len(stack[u]) \in Nat
          /\ n \in Nat /\ (u = t => n <= Len(stack[u]))
      BY DEF Changes, Types
    <2>2. i \in 1..Len(stack'[u]) /\ i + 1 \in 1..Len(stack'[u])
      BY <2>1
    <2>3. i \in 1..Len(stack[u]) /\ stack'[u][i] = stack[u][i] /\ (u = t => i <= n)
      <3>1. CASE u # t
        BY <2>2, <3>1, FrameIs
      <3>2. CASE u = t
        <4>1. Len(stack'[u]) <= n + 1
          BY <2>1, <3>2 DEF Changes
        <4>2. i # n + 1
          BY <2>1, <4>1
        <4> QED
          BY <2>2, <4>2, FrameIs
      <3> QED
        BY <3>1, <3>2
    <2>4. CASE i + 1 \in 1..Len(stack[u]) /\ stack'[u][i + 1] = stack[u][i + 1]
      <3>1. i \in 1..(Len(stack[u]) - 1)
        BY <2>1, <2>3, <2>4
      <3> QED
        BY <2>3, <2>4, <3>1, Zenon DEF Stacked
    <2>5. CASE more /\ u = t /\ i + 1 = n + 1 /\ stack'[u][i + 1] = f
      <3>1. i = n /\ n # 0
        BY <2>1, <2>2, <2>5
      <3> QED
        BY <2>3, <2>5, <3>1, Zenon
    <2> QED
      BY <2>2, <2>4, <2>5, FrameIs
  <1> QED
    BY <1>1, <1>2, Zenon DEF Stacked

LEMMA BuilderIs ==
  ASSUME Types, NEW u \in Threads
  PROVE  u \in BuilderSet <=>
           \E i \in 1..Len(stack[u]) : stack[u][i].call = "et.init" /\ stack[u][i].at = "lock"
  <1>1. Range(stack[u]) = {stack[u][i] : i \in 1..Len(stack[u])}
    BY InStack, Zenon
  <1>2. u \in BuilderSet <=> \E f \in Range(stack[u]) : f.call = "et.init" /\ f.at = "lock"
    BY DEF BuilderSet
  <1> QED
    BY <1>1, <1>2

LEMMA BuilderNext ==
  ASSUME Types, NEW t, NEW n, NEW more, NEW f, Changes(t, n, more, f), NEW u \in Threads
  PROVE  u \in BuilderSet' <=>
           \E i \in 1..Len(stack'[u]) : stack'[u][i].call = "et.init" /\ stack'[u][i].at = "lock"
  <1>1. PICK s \in Seq(FrameSet) : s = stack'[u]
    BY DEF Changes
  <1>2. Range(s) = {s[i] : i \in 1..Len(s)}
    <2>1. DOMAIN s = 1..Len(s)
      BY <1>1
    <2> QED
      BY <2>1, Zenon DEF Range
  <1>3. u \in BuilderSet' <=> \E g \in Range(s) : g.call = "et.init" /\ g.at = "lock"
    BY <1>1 DEF BuilderSet
  <1> QED
    BY <1>1, <1>2, <1>3

\* Who does not come to wait for the lock in init() was in there before.
LEMMA BuildersStay ==
  ASSUME Types, NEW t, NEW n, NEW more, NEW f, Changes(t, n, more, f)
  PROVE  /\ BuilderSet' \subseteq BuilderSet \cup {t}
         /\ ~(more /\ f.call = "et.init" /\ f.at = "lock") => BuilderSet' \subseteq BuilderSet
  <1>1. ASSUME NEW u \in BuilderSet', ~(u = t /\ more /\ f.call = "et.init" /\ f.at = "lock")
        PROVE  u \in BuilderSet
    <2>1. u \in Threads
      BY DEF BuilderSet
    <2>2. PICK i \in 1..Len(stack'[u]) : stack'[u][i].call = "et.init" /\ stack'[u][i].at = "lock"
      BY <2>1, BuilderNext, Zenon
    <2>3. i \in 1..Len(stack[u]) /\ stack'[u][i] = stack[u][i]
      BY <1>1, <2>1, <2>2, FrameIs
    <2> QED
      BY <2>1, <2>2, <2>3, BuilderIs, Zenon
  <1> QED
    BY <1>1

LEMMA RoomStep ==
  ASSUME Types, Room, NEW t, NEW n, NEW more, NEW f, Changes(t, n, more, f),
         ~(more /\ f.call = "et.init" /\ f.at = "lock"), built' = built
  PROVE  Room'
  <1>1. PICK B, C : B = BuilderSet /\ C = BuilderSet'
    OBVIOUS
  <1>2. C \subseteq B /\ IsFiniteSet(B)
    BY <1>1, BuildersStay, Zenon DEF Room
  <1>3. IsFiniteSet(C) /\ Cardinality(C) <= Cardinality(B) /\ Cardinality(C) \in Nat /\ Cardinality(B) \in Nat
    BY <1>2, FS_Subset, FS_CardinalityType
  <1>4. Cardinality(B) + built <= MaxRuns /\ MaxRuns \in Nat /\ built \in Nat
    BY <1>1, LifecycleAssumption DEF Room, Types
  <1>5. Cardinality(C) + built <= MaxRuns
    BY <1>3, <1>4
  <1> QED
    BY <1>1, <1>3, <1>5, Zenon DEF Room

LEMMA BeforeLast ==
  ASSUME NEW L \in Nat \ {0}
  PROVE  /\ L - 1 \in Nat
         /\ L - 1 # 0 => L - 1 \in 1..L /\ L - 1 # L /\ L - 1 + 1 = L
  OBVIOUS

\* The frame on top of a thread's stack turns into f.
LEMMA TurnStacked ==
  ASSUME Types, Stacked, NEW t \in Threads, stack[t] # <<>>, NEW f,
         Changes(t, Len(stack[t]) - 1, TRUE, f), IsFrame(f),
         f.call = Top(t).call, f.call # "callback"
  PROVE  Stacked'
  <1>0. Len(stack[t]) \in Nat \ {0}
    BY TopIs
  <1>1. PICK n \in Nat : n = Len(stack[t]) - 1
    BY <1>0, BeforeLast, Zenon
  <1>2. n # 0 => n \in 1..Len(stack[t]) /\ n # Len(stack[t]) /\ n + 1 = Len(stack[t])
    BY <1>0, <1>1, BeforeLast, Zenon
  <1>3. n # 0 => Below(stack[t][n], f)
    <2>1. n # 0 => Below(stack[t][n], Top(t))
      BY <1>2, UnderIs, TopIs, Zenon
    <2> QED
      BY <2>1 DEF Below
  <1> QED
    BY <1>1, <1>3, StackedStep, Zenon

LEMMA PopStacked ==
  ASSUME Types, Stacked, NEW t, NEW n, NEW f, Changes(t, n, FALSE, f)
  PROVE  Stacked'
  BY StackedStep, Zenon

-----------------------------------------------------------------------------
(* What each action does                                                   *)

\* A run's store: what was written, how it ends, and how its rows are delivered.
SameRows(r)     == store'[r].open = store[r].open /\ store'[r].committed = store[r].committed
SameEnd(r)      == store'[r].closed = store[r].closed /\ store'[r].writer = store[r].writer
SameDelivery(r) == /\ store'[r].begun = store[r].begun /\ store'[r].done = store[r].done
                   /\ store'[r].owner = store[r].owner
OnlyStore(r) == /\ r \in Runs /\ store' \in [Runs -> StoreSet]
                /\ \A q \in Runs \ {r} : store'[q] = store[q]
OnlyShutdown(r) == /\ r \in Runs /\ shutdown' \in [Runs -> ShutdownSet]
                   /\ \A q \in Runs \ {r} : shutdown'[q] = shutdown[q]

LEMMA StoreIs ==
  ASSUME Types, NEW r \in Runs, NEW x \in StoreSet, store' = [store EXCEPT ![r] = x]
  PROVE  OnlyStore(r) /\ store'[r] = x
  BY DEF Types, OnlyStore

LEMMA ShutdownIs ==
  ASSUME Types, NEW r \in Runs, NEW x \in ShutdownSet, shutdown' = [shutdown EXCEPT ![r] = x]
  PROVE  OnlyShutdown(r) /\ shutdown'[r] = x
  BY DEF Types, OnlyShutdown

\* A call begins.
Enters(t, f) ==
    /\ f \in FrameSet /\ IsFrame(f) /\ f.call # "callback" /\ f.want = 0
    /\ Changes(t, Len(stack[t]), TRUE, f)
    /\ MayCall(t)
    /\ UNCHANGED <<current, lifecycle, built, shutdown, returned, abandoned, cuts>>
    /\ calls' \in Nat

\* A call ends.
Returns(t) ==
    /\ stack[t] # <<>>
    /\ \A f : Changes(t, Len(stack[t]) - 1, FALSE, f)
    /\ lifecycle' \in {lifecycle, NoOne}
    /\ lifecycle' # lifecycle =>
         lifecycle = t /\ \A i \in 1..(Len(stack[t]) - 1) : ~Et(stack[t][i])
    /\ current' = IF Top(t).call = "et.finish" THEN 0 ELSE current

\* A call goes on.
Turns(t, at, run, want) ==
    /\ stack[t] # <<>>
    /\ \E f \in FrameSet : /\ f.call = Top(t).call /\ f.at = at /\ f.run = run /\ f.want = want
                           /\ IsFrame(f)
                           /\ Changes(t, Len(stack[t]) - 1, TRUE, f)

LEMMA EnterIs ==
  ASSUME TypeOK, NEW t \in Threads, NEW f \in FrameSet, IsFrame(f), f.call # "callback", f.want = 0,
         MayCall(t), Call(t, f)
  PROVE  Enters(t, f)
  <1>1. stack' = [stack EXCEPT ![t] = Append(@, f)]
    BY Zenon DEF Call
  <1>2. Changes(t, Len(stack[t]), TRUE, f)
    BY <1>1, PushIs DEF TypeOK
  <1>3. UNCHANGED <<current, lifecycle, built, shutdown, returned, abandoned, cuts>> /\ calls' \in Nat
    BY LifecycleAssumption DEF Call, ghosts, TypeOK, Types
  <1> QED
    BY <1>2, <1>3, Zenon DEF Enters

LEMMA ReturnIs ==
  ASSUME TypeOK, NEW t \in Threads, stack[t] # <<>>, Return(t)
  PROVE  Returns(t)
  <1>1. stack' = [stack EXCEPT ![t] = Front(@)]
    BY Zenon DEF Return
  <1>2. \A f : Changes(t, Len(stack[t]) - 1, FALSE, f)
    BY <1>1, PopIs DEF TypeOK
  <1>3. /\ lifecycle' = IF lifecycle = t /\ ~Locking(Front(stack[t])) THEN NoOne ELSE lifecycle
        /\ current' = IF Top(t).call = "et.finish" THEN 0 ELSE current
    BY Zenon DEF Return
  <1>4. ASSUME NEW i \in 1..(Len(stack[t]) - 1), Et(stack[t][i])
        PROVE  Locking(Front(stack[t]))
    <2>1. PICK s \in Seq(FrameSet) : s = stack[t]
      BY DEF TypeOK, Types
    <2>2. PICK w : w = Front(s)
      OBVIOUS
    <2>3. w \in Seq(FrameSet) /\ Len(w) = Len(s) - 1 /\ w[i] = s[i]
      BY <1>4, <2>1, <2>2, FrontIs
    <2>4. i \in DOMAIN w
      BY <1>4, <2>1, <2>3
    <2>5. w[i] \in Range(w)
      BY <2>4, Zenon DEF Range
    <2> QED
      BY <1>4, <2>1, <2>2, <2>3, <2>5 DEF Locking, Et
  <1>5. lifecycle' \in {lifecycle, NoOne}
    BY <1>3
  <1>6. lifecycle' # lifecycle =>
         lifecycle = t /\ \A i \in 1..(Len(stack[t]) - 1) : ~Et(stack[t][i])
    BY <1>3, <1>4, Zenon
  <1> QED
    BY <1>2, <1>3, <1>5, <1>6, Zenon DEF Returns

\* Goto(t, at) and the other changes of the frame on top.
LEMMA TurnIs ==
  ASSUME TypeOK, NEW t \in Threads, stack[t] # <<>>, NEW f \in FrameSet, IsFrame(f),
         f.call = Top(t).call, Become(t, f)
  PROVE  Turns(t, f.at, f.run, f.want)
  <1>1. Changes(t, Len(stack[t]) - 1, TRUE, f)
    BY BecomeIs DEF TypeOK
  <1> QED
    BY <1>1, Zenon DEF Turns

LEMMA GotoIs ==
  ASSUME TypeOK, NEW t \in Threads, stack[t] # <<>>, Ends(Top(t)), Top(t).at # "lock",
         NEW at \in FinishAts, Goto(t, at)
  PROVE  Turns(t, at, Top(t).run, 0)
  <1>1. PICK top \in FrameSet : top = Top(t) /\ IsFrame(top)
    BY TopIs DEF TypeOK
  <1>2. PICK f : f = [top EXCEPT !.at = at]
    OBVIOUS
  <1>3. f \in FrameSet /\ f.call = top.call /\ f.run = top.run /\ f.want = top.want /\ f.at = at
    BY <1>1, <1>2 DEF FrameSet, AtNames, FinishAts
  <1>4. IsFrame(f) /\ f.want = 0
    BY <1>1, <1>3 DEF IsFrame, Ends, FinishAts, LeadAts
  <1>5. Become(t, f)
    BY <1>1, <1>2, Zenon DEF Goto
  <1>6. Turns(t, f.at, f.run, f.want)
    BY <1>1, <1>3, <1>4, <1>5, TurnIs
  <1> QED
    BY <1>1, <1>3, <1>4, <1>6, Zenon

LEMMA FrameOf ==
  ASSUME NEW c \in CallNames, NEW at \in AtNames, NEW r \in 0..MaxRuns, NEW w \in Nat
  PROVE  /\ Frame(c, at, r, w) \in FrameSet
         /\ Frame(c, at, r, w).call = c /\ Frame(c, at, r, w).at = at
         /\ Frame(c, at, r, w).run = r /\ Frame(c, at, r, w).want = w
  BY DEF Frame, FrameSet

LEMMA RunsAre == Runs \subseteq 0..MaxRuns /\ 0 \notin Runs /\ \A n \in 0..MaxRuns : n # 0 => n \in Runs
  BY LifecycleAssumption DEF Runs

LEMMA LogIs ==
  ASSUME TypeOK, NEW t \in Threads, Log(t)
  PROVE  \E f : Enters(t, f) /\ f.call = "log" /\ f.at = "admit" /\ f.run \in Runs /\ Known(f.run) /\ store' = store
  <1>1. PICK r \in Runs : MayCall(t) /\ Known(r) /\ Call(t, Frame("log", "admit", r, 0)) /\ store' = store
    BY Zenon DEF Log
  <1>2. PICK f : f = Frame("log", "admit", r, 0)
    OBVIOUS
  <1>3. f \in FrameSet /\ f.call = "log" /\ f.at = "admit" /\ f.run = r /\ f.want = 0
    BY <1>2, FrameOf, RunsAre DEF CallNames, AtNames
  <1>4. IsFrame(f)
    BY <1>3, RunsAre DEF IsFrame
  <1>5. Enters(t, f)
    BY <1>1, <1>2, <1>3, <1>4, EnterIs
  <1> QED
    BY <1>1, <1>3, <1>5, Zenon

LEMMA RunFinishIs ==
  ASSUME TypeOK, NEW t \in Threads, RunFinish(t)
  PROVE  \E f : Enters(t, f) /\ f.call = "finish" /\ f.at = "elect" /\ f.run \in Runs /\ Known(f.run) /\ store' = store
  <1>1. PICK r \in Runs : MayCall(t) /\ Known(r) /\ Call(t, Frame("finish", "elect", r, 0)) /\ store' = store
    BY Zenon DEF RunFinish
  <1>2. PICK f : f = Frame("finish", "elect", r, 0)
    OBVIOUS
  <1>3. f \in FrameSet /\ f.call = "finish" /\ f.at = "elect" /\ f.run = r /\ f.want = 0
    BY <1>2, FrameOf, RunsAre DEF CallNames, AtNames, FinishAts
  <1>4. IsFrame(f)
    BY <1>3, RunsAre DEF IsFrame, FinishAts
  <1>5. Enters(t, f)
    BY <1>1, <1>2, <1>3, <1>4, EnterIs
  <1> QED
    BY <1>1, <1>3, <1>5, Zenon

LEMMA EtCallIs ==
  ASSUME TypeOK, NEW t \in Threads, EtCall(t)
  PROVE  \E f : /\ Enters(t, f) /\ Et(f) /\ f.at = "lock" /\ f.run = 0 /\ store' = store
                /\ current # 0 => Outside(t, current)
                /\ f.call = "et.init" => Builders + built < MaxRuns
  <1>1. PICK c \in {"et.init", "et.finish"} :
          /\ MayCall(t) /\ Call(t, Frame(c, "lock", 0, 0)) /\ store' = store
          /\ current # 0 => Outside(t, current)
          /\ c = "et.init" => Builders + built < MaxRuns
    BY DEF EtCall
  <1>2. PICK f : f = Frame(c, "lock", 0, 0)
    OBVIOUS
  <1>3. f \in FrameSet /\ f.call = c /\ f.at = "lock" /\ f.run = 0 /\ f.want = 0
    BY <1>2, FrameOf, LifecycleAssumption DEF CallNames, AtNames
  <1>4. IsFrame(f) /\ Et(f) /\ f.call # "callback"
    BY <1>3 DEF IsFrame, Et
  <1>5. Enters(t, f)
    BY <1>1, <1>2, <1>3, <1>4, EnterIs
  <1> QED
    BY <1>1, <1>3, <1>4, <1>5, Zenon

LEMMA CommittedIs ==
  ASSUME NEW s \in StoreSet
  PROVE  LET x == Committed(s)
         IN  /\ x \in StoreSet /\ x.closed = s.closed /\ x.writer = s.writer /\ x.begun = s.begun
             /\ x.done = s.done /\ x.owner = s.owner /\ x.open = FALSE
             /\ x.committed = s.committed + 1
  <1>1. PICK n \in Nat : n = s.committed + 1
    BY DEF StoreSet
  <1>2. PICK y \in StoreSet : y = [s EXCEPT !.open = FALSE]
    BY DEF StoreSet
  <1>3. /\ y.closed = s.closed /\ y.writer = s.writer /\ y.begun = s.begun
        /\ y.done = s.done /\ y.owner = s.owner /\ y.open = FALSE /\ y.committed = s.committed
    BY <1>2 DEF StoreSet
  <1>4. PICK x \in StoreSet : x = [y EXCEPT !.committed = n]
    BY DEF StoreSet
  <1>5. /\ x.closed = y.closed /\ x.writer = y.writer /\ x.begun = y.begun
        /\ x.done = y.done /\ x.owner = y.owner /\ x.open = y.open /\ x.committed = n
    BY <1>4 DEF StoreSet
  <1>6. x = Committed(s)
    BY <1>1, <1>2, <1>4, Zenon DEF Committed
  <1> QED
    BY <1>1, <1>3, <1>5, <1>6, Zenon

\* The open row, if there is one, is committed.
CommitsOpen(r) ==
    /\ OnlyStore(r) /\ SameEnd(r) /\ SameDelivery(r)
    /\ ~store'[r].open
    /\ store'[r].committed = IF store[r].open THEN store[r].committed + 1 ELSE store[r].committed

LEMMA CommitsOpenIs ==
  ASSUME TypeOK, NEW r \in Runs, store' = [store EXCEPT ![r] = IF @.open THEN Committed(@) ELSE @]
  PROVE  CommitsOpen(r)
  <1>1. PICK s \in StoreSet : s = store[r]
    BY DEF TypeOK, Types
  <1>2. PICK x : x = IF s.open THEN Committed(s) ELSE s
    OBVIOUS
  <1>3. /\ x \in StoreSet /\ x.closed = s.closed /\ x.writer = s.writer /\ x.begun = s.begun
        /\ x.done = s.done /\ x.owner = s.owner /\ ~x.open
        /\ x.committed = IF s.open THEN s.committed + 1 ELSE s.committed
    <2>1. CASE s.open
      <3>1. x = Committed(s)
        BY <1>2, <2>1
      <3> QED
        BY <2>1, <3>1, CommittedIs
    <2>2. CASE ~s.open
      BY <1>2, <2>2 DEF StoreSet
    <2> QED
      BY <2>1, <2>2
  <1>4. store' = [store EXCEPT ![r] = x]
    BY <1>1, <1>2, Zenon
  <1>5. OnlyStore(r) /\ store'[r] = x
    BY <1>3, <1>4, StoreIs DEF TypeOK
  <1> QED
    BY <1>1, <1>3, <1>5, Zenon DEF CommitsOpen, SameEnd, SameDelivery

LEMMA FlushIs ==
  ASSUME TypeOK, NEW t \in Threads, Flush(t)
  PROVE  \E f : Enters(t, f) /\ f.call = "flush" /\ f.at = "drain" /\ f.run \in Runs /\ Known(f.run) /\ Idle(t) /\ CommitsOpen(f.run)
  <1>1. PICK r \in Runs : /\ Idle(t) /\ Known(r) /\ Call(t, Frame("flush", "drain", r, 0))
                          /\ store' = [store EXCEPT ![r] = IF @.open THEN Committed(@) ELSE @]
    BY Zenon DEF Flush
  <1>2. PICK f : f = Frame("flush", "drain", r, 0)
    OBVIOUS
  <1>3. f \in FrameSet /\ f.call = "flush" /\ f.at = "drain" /\ f.run = r /\ f.want = 0
    BY <1>2, FrameOf, RunsAre DEF CallNames, AtNames, FinishAts, LeadAts
  <1>4. IsFrame(f)
    BY <1>3, RunsAre DEF IsFrame
  <1>5. Enters(t, f)
    BY <1>1, <1>2, <1>3, <1>4, EnterIs DEF MayCall
  <1>6. CommitsOpen(r)
    BY <1>1, CommitsOpenIs
  <1> QED
    BY <1>1, <1>3, <1>5, <1>6, Zenon

Calling(f, r) == f.call = "callback" /\ f.run = r

\* The thread is at that step of a call of a run.
Stands(t, at) ==
    /\ stack[t] # <<>> /\ Top(t) \in FrameSet /\ IsFrame(Top(t)) /\ Top(t).at = at
    /\ Top(t) = stack[t][Len(stack[t])] /\ Len(stack[t]) \in 1..Len(stack[t])
    /\ Len(stack[t]) \in Nat \ {0}
    /\ at # "lock" => Top(t).run \in Runs

LEMMA StandsIs ==
  ASSUME TypeOK, NEW t \in Threads, NEW at, At(t, at)
  PROVE  Stands(t, at)
  <1>1. stack[t] # <<>> /\ Top(t).at = at
    BY DEF At
  <1>2. PICK f : f = Top(t)
    OBVIOUS
  <1>3. f \in FrameSet /\ IsFrame(f) /\ f = stack[t][Len(stack[t])]
        /\ Len(stack[t]) \in 1..Len(stack[t]) /\ Len(stack[t]) \in Nat \ {0}
    BY <1>1, <1>2, TopIs DEF TypeOK
  <1>4. at # "lock" => f.run \in Runs
    <2>1. f.run \in 0..MaxRuns /\ (f.at # "lock" => f.run # 0)
      BY <1>3 DEF FrameSet, IsFrame
    <2> QED
      BY <1>1, <1>2, <2>1, RunsAre
  <1> QED
    BY <1>1, <1>2, <1>3, <1>4, Zenon DEF Stands

NothingElse == UNCHANGED <<built, returned, abandoned, calls, cuts>>

LEMMA AdmitIs ==
  ASSUME TypeOK, NEW t \in Threads, Admit(t)
  PROVE  /\ Stands(t, "admit") /\ Top(t).call = "log" /\ NothingElse /\ shutdown' = shutdown
         /\ LET r == Top(t).run
            IN  \/ Returns(t) /\ store' = store
                \/ /\ Returns(t) /\ ~store[r].closed
                   /\ OnlyStore(r) /\ SameEnd(r) /\ SameDelivery(r)
                   /\ store'[r].committed = store[r].committed
                \/ /\ Turns(t, "drain", r, store'[r].committed) /\ ~store[r].closed
                   /\ OnlyStore(r) /\ SameEnd(r) /\ SameDelivery(r)
                   /\ store'[r].committed = store[r].committed + 1
                   /\ UNCHANGED <<current, lifecycle>>
  <1>1. Stands(t, "admit")
    BY StandsIs DEF Admit
  <1>2. PICK f : f = Top(t)
    OBVIOUS
  <1>3. f \in FrameSet /\ IsFrame(f) /\ f.at = "admit" /\ f.run \in Runs /\ stack[t] # <<>>
    BY <1>1, <1>2 DEF Stands
  <1>4. f.call = "log"
    BY <1>3 DEF IsFrame, FrameSet, CallNames, FinishAts, LeadAts
  <1>5. NothingElse /\ shutdown' = shutdown
    BY Zenon DEF Admit, NothingElse, ghosts, bounds
  <1>6. PICK s \in StoreSet, r \in Runs : s = store[r] /\ r = f.run
    BY <1>3 DEF TypeOK, Types
  <1>7. CASE Return(t) /\ store' = store
    <2>1. Returns(t)
      BY <1>3, <1>7, ReturnIs
    <2> QED
      BY <1>1, <1>2, <1>4, <1>5, <1>7, <2>1
  <1>8. CASE ~Refused(r) /\ store' = [store EXCEPT ![r].open = TRUE] /\ Return(t)
    <2>1. PICK x \in StoreSet : x = [s EXCEPT !.open = TRUE]
      BY DEF StoreSet
    <2>2. /\ x.closed = s.closed /\ x.writer = s.writer /\ x.begun = s.begun
          /\ x.done = s.done /\ x.owner = s.owner /\ x.committed = s.committed
      BY <2>1 DEF StoreSet
    <2>3. store' = [store EXCEPT ![r] = x]
      BY <1>6, <1>8, <2>1, Zenon
    <2>4. OnlyStore(r) /\ store'[r] = x
      BY <2>3, StoreIs DEF TypeOK
    <2>5. Returns(t)
      BY <1>3, <1>8, ReturnIs
    <2>6. SameEnd(r) /\ SameDelivery(r) /\ store'[r].committed = store[r].committed
      BY <1>6, <2>2, <2>4, Zenon DEF SameEnd, SameDelivery
    <2> QED
      BY <1>1, <1>2, <1>4, <1>5, <1>6, <1>8, <2>4, <2>5, <2>6, Zenon DEF Refused
  <1>9. ASSUME ~Refused(r), NEW more \in {FALSE, s.open},
               store' = [store EXCEPT ![r] = [Committed(s) EXCEPT !.open = more]],
               Become(t, [f EXCEPT !.at = "drain", !.want = s.committed + 1]),
               UNCHANGED <<current, lifecycle>>
        PROVE  /\ Turns(t, "drain", r, store'[r].committed) /\ ~store[r].closed
               /\ OnlyStore(r) /\ SameEnd(r) /\ SameDelivery(r)
               /\ store'[r].committed = store[r].committed + 1
               /\ UNCHANGED <<current, lifecycle>>
    <2>1. PICK y : y = Committed(s)
      OBVIOUS
    <2>2. /\ y \in StoreSet /\ y.closed = s.closed /\ y.writer = s.writer /\ y.begun = s.begun
          /\ y.done = s.done /\ y.owner = s.owner /\ y.committed = s.committed + 1
      BY <2>1, CommittedIs
    <2>3. more \in BOOLEAN
      BY <1>6 DEF StoreSet
    <2>4. PICK x \in StoreSet : x = [y EXCEPT !.open = more]
      BY <2>2, <2>3 DEF StoreSet
    <2>5. /\ x.closed = y.closed /\ x.writer = y.writer /\ x.begun = y.begun
          /\ x.done = y.done /\ x.owner = y.owner /\ x.committed = y.committed
      BY <2>2, <2>4 DEF StoreSet
    <2>6. OnlyStore(r) /\ store'[r] = x
      BY <1>9, <2>1, <2>4, StoreIs DEF TypeOK
    <2>7. PICK n \in Nat : n = s.committed + 1
      BY <1>6 DEF StoreSet
    <2>8. PICK g : g = [f EXCEPT !.at = "drain", !.want = n]
      OBVIOUS
    <2>9. g \in FrameSet /\ g.call = f.call /\ g.run = f.run /\ g.at = "drain" /\ g.want = n
      BY <1>3, <2>7, <2>8 DEF FrameSet, AtNames, FinishAts, LeadAts
    <2>10. IsFrame(g)
      BY <1>3, <1>4, <2>9 DEF IsFrame
    <2>11. Become(t, g)
      BY <1>9, <2>7, <2>8, Zenon
    <2>12. Turns(t, g.at, g.run, g.want)
      BY <1>2, <1>3, <2>9, <2>10, <2>11, TurnIs
    <2>13. Turns(t, "drain", r, store'[r].committed)
      BY <1>6, <2>2, <2>5, <2>6, <2>7, <2>9, <2>12, Zenon
    <2> QED
      BY <1>6, <1>9, <2>2, <2>5, <2>6, <2>13, Zenon DEF SameEnd, SameDelivery, Refused
  <1>10. \/ Return(t) /\ store' = store
         \/ ~Refused(r) /\ store' = [store EXCEPT ![r].open = TRUE] /\ Return(t)
         \/ /\ ~Refused(r)
            /\ \E more \in {FALSE, s.open} :
                 store' = [store EXCEPT ![r] = [Committed(s) EXCEPT !.open = more]]
            /\ Become(t, [f EXCEPT !.at = "drain", !.want = s.committed + 1])
            /\ UNCHANGED <<current, lifecycle>>
    BY <1>2, <1>6 DEF Admit
  <1> QED
    BY <1>1, <1>2, <1>4, <1>5, <1>6, <1>7, <1>8, <1>9, <1>10, Zenon

LEMMA TakeIs ==
  ASSUME TypeOK, NEW t \in Threads, Take(t)
  PROVE  /\ Stands(t, "drain") /\ NothingElse /\ UNCHANGED <<shutdown, current, lifecycle>>
         /\ LET r == Top(t).run
            IN  /\ ~Satisfied(t) /\ store[r].owner \in {t, NoOne}
                /\ OnlyStore(r) /\ SameEnd(r) /\ SameRows(r)
                /\ store'[r].owner = t /\ store'[r].done = store[r].done
                /\ store'[r].begun = store[r].begun + 1
                /\ \E f \in FrameSet :
                     /\ Changes(t, Len(stack[t]), TRUE, f) /\ IsFrame(f)
                     /\ Calling(f, r) /\ f.want = store'[r].begun
  <1>1. Stands(t, "drain")
    BY StandsIs DEF Take
  <1>2. PICK r \in Runs : r = Top(t).run
    BY <1>1 DEF Stands
  <1>3. PICK s \in StoreSet : s = store[r]
    BY DEF TypeOK, Types
  <1>4. PICK row \in Nat : row = s.begun + 1
    BY DEF StoreSet
  <1>5. /\ ~Satisfied(t) /\ s.owner \in {t, NoOne}
        /\ store' = [store EXCEPT ![r] = [s EXCEPT !.owner = t, !.begun = row]]
        /\ stack' = [stack EXCEPT ![t] = Append(@, Frame("callback", "callback", r, row))]
    BY <1>2, <1>3, <1>4 DEF Take
  <1>6. NothingElse /\ UNCHANGED <<shutdown, current, lifecycle>>
    BY Zenon DEF Take, NothingElse, ghosts, bounds
  <1>7. PICK x \in StoreSet : x = [s EXCEPT !.owner = t, !.begun = row]
    BY DEF StoreSet
  <1>8. /\ x.closed = s.closed /\ x.writer = s.writer /\ x.begun = row /\ x.open = s.open
        /\ x.done = s.done /\ x.owner = t /\ x.committed = s.committed
    BY <1>7 DEF StoreSet
  <1>9. OnlyStore(r) /\ store'[r] = x
    BY <1>5, <1>7, StoreIs DEF TypeOK
  <1>10. PICK f : f = Frame("callback", "callback", r, row)
    OBVIOUS
  <1>11. f \in FrameSet /\ f.call = "callback" /\ f.at = "callback" /\ f.run = r /\ f.want = row
    BY <1>10, FrameOf, RunsAre DEF CallNames, AtNames
  <1>12. IsFrame(f)
    BY <1>11, RunsAre DEF IsFrame
  <1>13. Changes(t, Len(stack[t]), TRUE, f)
    BY <1>5, <1>10, <1>11, PushIs DEF TypeOK
  <1> QED
    BY <1>1, <1>2, <1>3, <1>4, <1>5, <1>6, <1>8, <1>9, <1>11, <1>12, <1>13, Zenon
       DEF SameEnd, SameRows, Calling

LEMMA EndCallbackIs ==
  ASSUME TypeOK, NEW t \in Threads, EndCallback(t)
  PROVE  /\ Stands(t, "callback") /\ NothingElse /\ shutdown' = shutdown /\ Returns(t)
         /\ Top(t).call = "callback"
         /\ LET r == Top(t).run
            IN  /\ OnlyStore(r) /\ SameEnd(r) /\ SameRows(r)
                /\ store'[r].begun = store[r].begun
                /\ store'[r].done = store[r].done \cup {Top(t).want}
                /\ store'[r].owner = IF \E i \in 1..(Len(stack[t]) - 1) : Calling(stack[t][i], r)
                                     THEN t ELSE NoOne
  <1>1. Stands(t, "callback")
    BY StandsIs DEF EndCallback
  <1>2. PICK f \in FrameSet : f = Top(t) /\ f.at = "callback" /\ IsFrame(f)
    BY <1>1 DEF Stands
  <1>3. PICK r \in Runs : r = f.run
    BY <1>1, <1>2 DEF Stands
  <1>4. f.call = "callback" /\ f.want \in Nat
    BY <1>2 DEF IsFrame, FrameSet
  <1>5. PICK s \in StoreSet : s = store[r]
    BY DEF TypeOK, Types
  <1> DEFINE nested == \E g \in Range(Front(stack[t])) : g.call = "callback" /\ g.run = r
  <1>6. PICK o \in Threads \cup {NoOne} : o = IF nested THEN t ELSE NoOne
    OBVIOUS
  <1>7. store' = [store EXCEPT ![r].owner = IF nested THEN t ELSE NoOne,
                               ![r].done = @ \cup {f.want}]
    BY <1>2, <1>3, Zenon DEF EndCallback
  <1> HIDE DEF nested
  <1>8. NothingElse /\ shutdown' = shutdown /\ Returns(t)
    <2>1. stack[t] # <<>> /\ Return(t)
      BY <1>1, Zenon DEF EndCallback, Stands
    <2>2. Returns(t)
      BY <2>1, ReturnIs
    <2> QED
      BY <2>2, Zenon DEF EndCallback, NothingElse, ghosts, bounds
  <1>9. PICK x \in StoreSet : x = [s EXCEPT !.owner = o, !.done = @ \cup {f.want}]
    BY <1>4 DEF StoreSet
  <1>10. /\ x.closed = s.closed /\ x.writer = s.writer /\ x.begun = s.begun /\ x.open = s.open
         /\ x.done = s.done \cup {f.want} /\ x.committed = s.committed
         /\ x.owner = o
    BY <1>6, <1>9 DEF StoreSet
  <1>11. OnlyStore(r) /\ store'[r] = x
    <2>1. store' = [store EXCEPT ![r].owner = o, ![r].done = @ \cup {f.want}]
      BY <1>6, <1>7, Zenon
    <2>2. store' = [store EXCEPT ![r] = x]
      BY <1>5, <1>9, <2>1 DEF TypeOK, Types, StoreSet
    <2> QED
      BY <2>2, StoreIs DEF TypeOK
  <1>12. nested <=> \E i \in 1..(Len(stack[t]) - 1) : Calling(stack[t][i], r)
    <2>1. PICK q \in Seq(FrameSet) : q = stack[t]
      BY DEF TypeOK, Types
    <2>2. PICK w : w = Front(q)
      OBVIOUS
    <2>3. /\ w \in Seq(FrameSet) /\ Len(w) = Len(q) - 1
          /\ \A i \in 1..(Len(q) - 1) : w[i] = q[i]
      BY <1>1, <2>1, <2>2, FrontIs DEF Stands
    <2>4. DOMAIN w = 1..(Len(q) - 1)
      BY <2>3
    <2>5. Range(w) = {q[i] : i \in 1..(Len(q) - 1)}
      BY <2>3, <2>4 DEF Range
    <2> QED
      BY <2>1, <2>2, <2>5 DEF Calling, nested
  <1> QED
    BY <1>1, <1>2, <1>3, <1>4, <1>5, <1>6, <1>8, <1>10, <1>11, <1>12, Zenon DEF SameEnd, SameRows

\* The call under a KeyboardInterrupt, and the rows whose callbacks it ends.
CutAts == {"callback", "await", "build"}
Held(t, r) == {k \in Nat : \E i \in 1..Len(stack[t]) : Calling(stack[t][i], r) /\ stack[t][i].want = k}

\* Every call of the thread is over.
Dropped(t) ==
    /\ stack[t] # <<>> /\ Top(t).at \in CutAts
    /\ \A f : Changes(t, 0, FALSE, f)
    /\ store' \in [Runs -> StoreSet] /\ shutdown' \in [Runs -> ShutdownSet]
    /\ \A r \in Runs :
         /\ SameEnd(r) /\ SameRows(r) /\ store'[r].begun = store[r].begun
         /\ store'[r].owner = IF store[r].owner = t THEN NoOne ELSE store[r].owner
         /\ store'[r].done = IF store[r].owner = t THEN store[r].done \cup Held(t, r)
                             ELSE store[r].done
    /\ \A r \in Runs :
         /\ shutdown'[r].owner = shutdown[r].owner /\ shutdown'[r].sinks = shutdown[r].sinks
         /\ IF shutdown[r].owner = t /\ ~shutdown[r].done
            THEN shutdown'[r].done /\ shutdown'[r].error
            ELSE shutdown'[r] = shutdown[r]
    /\ abandoned \subseteq abandoned' /\ abandoned' \subseteq Runs
    /\ \A i \in 1..Len(stack[t]) :
         Ends(stack[t][i]) \/ stack[t][i].call = "et.init" => stack[t][i].run \in abandoned'
    /\ lifecycle' = IF lifecycle = t THEN NoOne ELSE lifecycle
    /\ current' = IF \E i \in 1..Len(stack[t]) : stack[t][i].call = "et.finish" THEN 0 ELSE current
    /\ UNCHANGED <<built, returned, calls>> /\ cuts' \in Nat

LEMMA UnwindIs ==
  ASSUME TypeOK, NEW t \in Threads, Cut(t)
  PROVE  Dropped(t)
  <1>1. Unwind(t) /\ stack[t] # <<>> /\ Top(t).at \in CutAts
    BY DEF Cut, CutCallback, CutWait, CutBuild, At, CutAts
  <1>2. PICK q \in Seq(FrameSet) : q = stack[t]
    BY DEF TypeOK, Types
  <1>3. Range(stack[t]) = {q[i] : i \in 1..Len(q)} /\ Len(q) \in Nat
    BY <1>2, InStack DEF TypeOK
  <1>4. \A i \in 1..Len(q) : q[i] \in FrameSet
    BY <1>2
  <1>5. \A f : Changes(t, 0, FALSE, f)
    <2>1. stack' = [stack EXCEPT ![t] = <<>>]
      BY <1>1, Zenon DEF Unwind
    <2> QED
      BY <2>1, ClearIs DEF TypeOK
  <1>6. ASSUME NEW r \in Runs
        PROVE  {f.want : f \in {g \in Range(stack[t]) : g.call = "callback" /\ g.run = r}} = Held(t, r)
    <2>1. \A i \in 1..Len(q) : q[i].want \in Nat
      BY <1>4 DEF FrameSet
    <2> QED
      BY <1>2, <1>3, <2>1 DEF Held, Calling
  <1>7. /\ store' = [r \in Runs |->
              IF store[r].owner = t
              THEN [store[r] EXCEPT !.owner = NoOne, !.done = @ \cup Held(t, r)]
              ELSE store[r]]
    BY <1>1, <1>6, Zenon DEF Unwind
  <1>8. ASSUME NEW r \in Runs
        PROVE  /\ store'[r] \in StoreSet /\ SameEnd(r) /\ SameRows(r) /\ store'[r].begun = store[r].begun
               /\ store'[r].owner = IF store[r].owner = t THEN NoOne ELSE store[r].owner
               /\ store'[r].done = IF store[r].owner = t THEN store[r].done \cup Held(t, r)
                                   ELSE store[r].done
    <2>1. PICK s \in StoreSet : s = store[r]
      BY DEF TypeOK, Types
    <2>2. PICK H \in SUBSET Nat : H = Held(t, r)
      BY DEF Held
    <2>3. CASE s.owner = t
      <3>1. PICK x \in StoreSet : x = [s EXCEPT !.owner = NoOne, !.done = @ \cup H]
        BY DEF StoreSet
      <3>2. /\ x.closed = s.closed /\ x.writer = s.writer /\ x.begun = s.begun /\ x.open = s.open
            /\ x.done = s.done \cup H /\ x.committed = s.committed /\ x.owner = NoOne
        BY <3>1 DEF StoreSet
      <3>3. store'[r] = x
        BY <1>7, <2>1, <2>2, <2>3, <3>1, Zenon
      <3> QED
        BY <2>1, <2>2, <2>3, <3>2, <3>3 DEF SameEnd, SameRows
    <2>4. CASE s.owner # t
      <3>1. store'[r] = s
        BY <1>7, <2>1, <2>4, Zenon
      <3> QED
        BY <2>1, <2>4, <3>1 DEF SameEnd, SameRows
    <2> QED
      BY <2>3, <2>4, Zenon
  <1>9. store' \in [Runs -> StoreSet]
    BY <1>7, <1>8, Zenon
  <1>10. shutdown' = [r \in Runs |->
              IF shutdown[r].owner = t /\ ~shutdown[r].done
              THEN [shutdown[r] EXCEPT !.done = TRUE, !.error = TRUE]
              ELSE shutdown[r]]
    <2>1. \A r \in Runs : r \in {p \in Runs : shutdown[p].owner = t /\ ~shutdown[p].done}
                          <=> shutdown[r].owner = t /\ ~shutdown[r].done
      OBVIOUS
    <2> QED
      BY <1>1, <2>1, Zenon DEF Unwind
  <1>11. ASSUME NEW r \in Runs
         PROVE  /\ shutdown'[r] \in ShutdownSet
                /\ shutdown'[r].owner = shutdown[r].owner /\ shutdown'[r].sinks = shutdown[r].sinks
                /\ IF shutdown[r].owner = t /\ ~shutdown[r].done
                   THEN shutdown'[r].done /\ shutdown'[r].error
                   ELSE shutdown'[r] = shutdown[r]
    <2>1. PICK d \in ShutdownSet : d = shutdown[r]
      BY DEF TypeOK, Types
    <2>2. CASE d.owner = t /\ ~d.done
      <3>1. PICK x \in ShutdownSet : x = [d EXCEPT !.done = TRUE, !.error = TRUE]
        BY DEF ShutdownSet
      <3>2. x.owner = d.owner /\ x.sinks = d.sinks /\ x.done /\ x.error
        BY <3>1 DEF ShutdownSet
      <3>3. shutdown'[r] = x
        BY <1>10, <2>1, <2>2, <3>1, Zenon
      <3> QED
        BY <2>1, <2>2, <3>2, <3>3
    <2>3. CASE ~(d.owner = t /\ ~d.done)
      <3>1. shutdown'[r] = d
        BY <1>10, <2>1, <2>3, Zenon
      <3> QED
        BY <2>1, <2>3, <3>1
    <2> QED
      BY <2>2, <2>3, Zenon
  <1>12. shutdown' \in [Runs -> ShutdownSet]
    BY <1>10, <1>11, Zenon
  <1>13. /\ abandoned' = abandoned \cup Unwound(t, "finish") \cup Unwound(t, "et.finish") \cup Unwound(t, "et.init")
         /\ lifecycle' = IF lifecycle = t THEN NoOne ELSE lifecycle
         /\ current' = IF "et.finish" \in {f.call : f \in Range(stack[t])} THEN 0 ELSE current
         /\ UNCHANGED <<built, returned, calls>> /\ cuts' = cuts + 1
    BY <1>1, Zenon DEF Unwind
  <1>14. \A c : Unwound(t, c) = {f.run : f \in {g \in {q[i] : i \in 1..Len(q)} : g.call = c}}
    BY <1>3 DEF Unwound
  <1>15. ASSUME NEW i \in 1..Len(q)
         PROVE  q[i].run \in Runs
    <2>1. q[i].at # "lock"
      BY <1>1, <1>2, UnderIs, TopIs DEF TypeOK, CutAts
    <2> QED
      BY <1>2, <1>4, <2>1, RunsAre DEF TypeOK, Stacked, IsFrame, FrameSet
  <1>16. \A c : Unwound(t, c) \subseteq Runs
    BY <1>14, <1>15
  <1>17. \A i \in 1..Len(q) : q[i].run \in Unwound(t, q[i].call)
    BY <1>14
  <1>18. abandoned \subseteq abandoned' /\ abandoned' \subseteq Runs
         /\ \A i \in 1..Len(q) : Ends(q[i]) \/ q[i].call = "et.init" => q[i].run \in abandoned'
    <2>1. abandoned \subseteq Runs
      BY DEF TypeOK, Types
    <2> QED
      BY <1>13, <1>16, <1>17, <2>1 DEF Ends
  <1>19. current' = IF \E i \in 1..Len(q) : q[i].call = "et.finish" THEN 0 ELSE current
    BY <1>3, <1>13
  <1>20. cuts' \in Nat
    BY <1>13 DEF TypeOK, Types
  <1> QED
    BY <1>1, <1>2, <1>5, <1>8, <1>9, <1>11, <1>12, <1>13, <1>18, <1>19, <1>20, Zenon DEF Dropped

LEMMA EndsAt ==
  ASSUME NEW t, NEW at, Stands(t, at), at \in FinishAts,
         at # "drain" \/ Top(t).call \notin {"log", "flush"}
  PROVE  Ends(Top(t)) /\ stack[t] # <<>> /\ Top(t).at # "lock"
  <1>1. PICK f \in FrameSet : f = Top(t) /\ IsFrame(f) /\ f.at = at
    BY DEF Stands
  <1>2. f.call \in CallNames
    BY <1>1 DEF FrameSet
  <1> QED
    BY <1>1, <1>2 DEF Stands, IsFrame, Ends, CallNames, FinishAts, LeadAts

\* A step of finish() that changes the frame on top.
StepsTo(t, at, next) ==
    /\ Stands(t, at) /\ Ends(Top(t)) /\ NothingElse /\ UNCHANGED <<current, lifecycle>>
    /\ Turns(t, next, Top(t).run, 0)

LEMMA StepIs ==
  ASSUME TypeOK, NEW t \in Threads, NEW at \in FinishAts, NEW next \in FinishAts,
         At(t, at), Goto(t, next), at # "drain" \/ Top(t).call \notin {"log", "flush"},
         UNCHANGED <<current, lifecycle, built, ghosts, bounds>>
  PROVE  StepsTo(t, at, next) /\ Top(t).run \in Runs
  <1>1. Stands(t, at)
    BY StandsIs
  <1>2. Ends(Top(t)) /\ stack[t] # <<>> /\ Top(t).at # "lock"
    BY <1>1, EndsAt, Zenon
  <1>3. Turns(t, next, Top(t).run, 0)
    BY <1>2, GotoIs
  <1>4. NothingElse /\ UNCHANGED <<current, lifecycle>>
    BY DEF NothingElse, ghosts, bounds
  <1>5. at # "lock"
    BY DEF FinishAts, LeadAts
  <1> QED
    BY <1>1, <1>2, <1>3, <1>4, <1>5, Zenon DEF StepsTo, Stands

LEMMA DrainedIs ==
  ASSUME TypeOK, NEW t \in Threads, Drained(t)
  PROVE  /\ Stands(t, "drain") /\ Satisfied(t) /\ NothingElse /\ UNCHANGED <<store, shutdown>>
         /\ \/ Top(t).call \in {"log", "flush"} /\ Returns(t)
            \/ StepsTo(t, "drain", "writer")
  <1>1. Stands(t, "drain") /\ Satisfied(t)
    BY StandsIs DEF Drained
  <1>2. NothingElse /\ UNCHANGED <<store, shutdown>>
    BY Zenon DEF Drained, NothingElse, ghosts, bounds
  <1>3. CASE Top(t).call \in {"log", "flush"} /\ Return(t)
    <2>1. Returns(t)
      BY <1>1, <1>3, ReturnIs DEF Stands
    <2> QED
      BY <1>1, <1>2, <1>3, <2>1
  <1>4. CASE Top(t).call \notin {"log", "flush"} /\ Goto(t, "writer") /\ UNCHANGED <<current, lifecycle>>
    <2>1. UNCHANGED <<current, lifecycle, built, ghosts, bounds>> /\ At(t, "drain")
      BY <1>4 DEF Drained
    <2>2. "drain" \in FinishAts /\ "writer" \in FinishAts
      BY DEF FinishAts, LeadAts
    <2>3. StepsTo(t, "drain", "writer")
      BY <1>4, <2>1, <2>2, StepIs
    <2> QED
      BY <1>1, <1>2, <2>3
  <1> QED
    BY <1>3, <1>4, Zenon DEF Drained

LEMMA ElectIs ==
  ASSUME TypeOK, NEW t \in Threads, Elect(t)
  PROVE  /\ Outside(t, Top(t).run) /\ store' = store
         /\ LET r == Top(t).run
            IN  \/ /\ shutdown[r].owner = NoOne /\ StepsTo(t, "elect", "closing")
                   /\ OnlyShutdown(r) /\ shutdown'[r].owner = t
                   /\ shutdown'[r].done = shutdown[r].done /\ shutdown'[r].error = shutdown[r].error
                   /\ shutdown'[r].sinks = shutdown[r].sinks
                \/ shutdown[r].owner # NoOne /\ StepsTo(t, "elect", "await") /\ shutdown' = shutdown
  <1>1. Outside(t, Top(t).run) /\ store' = store /\ At(t, "elect")
        /\ UNCHANGED <<current, lifecycle, built, ghosts, bounds>>
    BY DEF Elect
  <1>2. "elect" \in FinishAts /\ "closing" \in FinishAts /\ "await" \in FinishAts
    BY DEF FinishAts, LeadAts
  <1>3. CASE shutdown[Top(t).run].owner = NoOne /\ shutdown' = [shutdown EXCEPT ![Top(t).run].owner = t]
             /\ Goto(t, "closing")
    <2>1. StepsTo(t, "elect", "closing") /\ Top(t).run \in Runs
      BY <1>1, <1>2, <1>3, StepIs
    <2>2. PICK r \in Runs : r = Top(t).run
      BY <2>1
    <2>3. PICK d \in ShutdownSet : d = shutdown[r]
      BY DEF TypeOK, Types
    <2>4. PICK x \in ShutdownSet : x = [d EXCEPT !.owner = t]
      BY DEF ShutdownSet
    <2>5. x.owner = t /\ x.done = d.done /\ x.error = d.error /\ x.sinks = d.sinks
      BY <2>4 DEF ShutdownSet
    <2>6. shutdown' = [shutdown EXCEPT ![r] = x]
      BY <1>3, <2>2, <2>3, <2>4
    <2>7. OnlyShutdown(r) /\ shutdown'[r] = x
      BY <2>6, ShutdownIs DEF TypeOK
    <2> QED
      BY <1>1, <1>3, <2>1, <2>2, <2>3, <2>5, <2>7, Zenon
  <1>4. CASE shutdown[Top(t).run].owner # NoOne /\ shutdown' = shutdown /\ Goto(t, "await")
    <2>1. StepsTo(t, "elect", "await")
      BY <1>1, <1>2, <1>4, StepIs
    <2> QED
      BY <1>1, <1>4, <2>1, Zenon
  <1> QED
    BY <1>3, <1>4, Zenon DEF Elect

LEMMA ClosingIs ==
  ASSUME TypeOK, NEW t \in Threads, Closing(t)
  PROVE  /\ StepsTo(t, "closing", "commit") /\ shutdown' = shutdown
         /\ LET r == Top(t).run
            IN  /\ OnlyStore(r) /\ SameRows(r) /\ SameDelivery(r)
                /\ store'[r].closed /\ store'[r].writer = store[r].writer
  <1>1. StepsTo(t, "closing", "commit") /\ Top(t).run \in Runs /\ shutdown' = shutdown
    BY StepIs DEF Closing, FinishAts, LeadAts
  <1>2. PICK r \in Runs : r = Top(t).run
    BY <1>1
  <1>3. PICK s \in StoreSet : s = store[r]
    BY DEF TypeOK, Types
  <1>4. PICK x \in StoreSet : x = [s EXCEPT !.closed = TRUE]
    BY DEF StoreSet
  <1>5. /\ x.closed /\ x.writer = s.writer /\ x.begun = s.begun /\ x.open = s.open
        /\ x.done = s.done /\ x.committed = s.committed /\ x.owner = s.owner
    BY <1>4 DEF StoreSet
  <1>6. store' = [store EXCEPT ![r] = x]
    BY <1>2, <1>3, <1>4 DEF Closing
  <1>7. OnlyStore(r) /\ store'[r] = x
    BY <1>6, StoreIs DEF TypeOK
  <1> QED
    BY <1>1, <1>2, <1>3, <1>5, <1>7, Zenon DEF SameRows, SameDelivery

LEMMA CommitOpenIs ==
  ASSUME TypeOK, NEW t \in Threads, CommitOpen(t)
  PROVE  StepsTo(t, "commit", "drain") /\ shutdown' = shutdown /\ CommitsOpen(Top(t).run)
  <1>1. StepsTo(t, "commit", "drain") /\ Top(t).run \in Runs /\ shutdown' = shutdown
    BY StepIs DEF CommitOpen, FinishAts, LeadAts
  <1>2. PICK r \in Runs : r = Top(t).run
    BY <1>1
  <1>3. store' = [store EXCEPT ![r] = IF @.open THEN Committed(@) ELSE @]
    BY <1>2, Zenon DEF CommitOpen
  <1> QED
    BY <1>1, <1>2, <1>3, CommitsOpenIs, Zenon

LEMMA CloseWriterIs ==
  ASSUME TypeOK, NEW t \in Threads, CloseWriter(t)
  PROVE  /\ StepsTo(t, "writer", "summary") /\ shutdown' = shutdown
         /\ LET r == Top(t).run
            IN  /\ OnlyStore(r) /\ SameRows(r) /\ SameDelivery(r)
                /\ store'[r].closed = store[r].closed /\ store'[r].writer = "closed"
  <1>1. StepsTo(t, "writer", "summary") /\ Top(t).run \in Runs /\ shutdown' = shutdown
    BY StepIs DEF CloseWriter, FinishAts, LeadAts
  <1>2. PICK r \in Runs : r = Top(t).run
    BY <1>1
  <1>3. PICK s \in StoreSet : s = store[r]
    BY DEF TypeOK, Types
  <1>4. PICK x \in StoreSet : x = [s EXCEPT !.writer = "closed"]
    BY DEF StoreSet
  <1>5. /\ x.closed = s.closed /\ x.writer = "closed" /\ x.begun = s.begun /\ x.open = s.open
        /\ x.done = s.done /\ x.committed = s.committed /\ x.owner = s.owner
    BY <1>4 DEF StoreSet
  <1>6. store' = [store EXCEPT ![r] = x]
    BY <1>2, <1>3, <1>4 DEF CloseWriter
  <1>7. OnlyStore(r) /\ store'[r] = x
    BY <1>6, StoreIs DEF TypeOK
  <1> QED
    BY <1>1, <1>2, <1>3, <1>5, <1>7, Zenon DEF SameRows, SameDelivery

\* The sinks, in the order they are closed.
AfterSink(at) == CASE at = "summary" -> "alerts" [] at = "alerts" -> "backends" [] OTHER -> "done"

LEMMA CloseSinkIs ==
  ASSUME TypeOK, NEW t \in Threads, CloseSink(t)
  PROVE  /\ Top(t).at \in Sinks /\ StepsTo(t, Top(t).at, AfterSink(Top(t).at)) /\ store' = store
         /\ LET r == Top(t).run
            IN  /\ OnlyShutdown(r) /\ shutdown'[r].owner = shutdown[r].owner
                /\ shutdown'[r].done = shutdown[r].done /\ shutdown'[r].error = shutdown[r].error
                /\ shutdown'[r].sinks = shutdown[r].sinks \cup {Top(t).at}
  <1>1. PICK at : at = Top(t).at
    OBVIOUS
  <1>2. at \in Sinks /\ at \in FinishAts /\ AfterSink(at) \in FinishAts /\ at # "drain"
        /\ At(t, at) /\ Goto(t, AfterSink(at))
    BY <1>1 DEF CloseSink, Sinks, FinishAts, LeadAts, AfterSink, At
  <1>3. UNCHANGED <<current, lifecycle, built, ghosts, bounds>> /\ store' = store
    BY DEF CloseSink
  <1>4. StepsTo(t, at, AfterSink(at)) /\ Top(t).run \in Runs
    BY <1>2, <1>3, StepIs
  <1>5. PICK r \in Runs : r = Top(t).run
    BY <1>4
  <1>6. PICK d \in ShutdownSet : d = shutdown[r]
    BY DEF TypeOK, Types
  <1>7. PICK x \in ShutdownSet : x = [d EXCEPT !.sinks = @ \cup {at}]
    BY <1>2 DEF ShutdownSet
  <1>8. x.owner = d.owner /\ x.done = d.done /\ x.error = d.error /\ x.sinks = d.sinks \cup {at}
    BY <1>7 DEF ShutdownSet
  <1>9. shutdown' = [shutdown EXCEPT ![r] = x]
    <2>1. shutdown' = [shutdown EXCEPT ![r].sinks = @ \cup {at}]
      BY <1>1, <1>5, Zenon DEF CloseSink
    <2> QED
      BY <1>6, <1>7, <2>1 DEF TypeOK, Types, ShutdownSet
  <1>10. OnlyShutdown(r) /\ shutdown'[r] = x
    BY <1>9, ShutdownIs DEF TypeOK
  <1> QED
    BY <1>1, <1>2, <1>3, <1>4, <1>5, <1>6, <1>8, <1>10, Zenon

LEMMA FinishedIs ==
  ASSUME TypeOK, NEW t \in Threads, Finished(t)
  PROVE  /\ Stands(t, "done") /\ Ends(Top(t)) /\ Returns(t)
         /\ UNCHANGED <<built, store, abandoned, calls, cuts>>
         /\ returned' = returned \cup {Top(t).run}
         /\ LET r == Top(t).run
            IN  /\ OnlyShutdown(r) /\ shutdown'[r].owner = shutdown[r].owner
                /\ shutdown'[r].done /\ shutdown'[r].error = shutdown[r].error
                /\ shutdown'[r].sinks = shutdown[r].sinks
  <1>1. Stands(t, "done")
    BY StandsIs DEF Finished
  <1>2. Ends(Top(t)) /\ stack[t] # <<>>
    BY <1>1, EndsAt DEF FinishAts, LeadAts
  <1>3. Returns(t)
    BY <1>2, ReturnIs DEF Finished
  <1>4. UNCHANGED <<built, store, abandoned, calls, cuts>> /\ returned' = returned \cup {Top(t).run}
    BY DEF Finished, bounds
  <1>5. PICK r \in Runs : r = Top(t).run
    BY <1>1 DEF Stands
  <1>6. PICK d \in ShutdownSet : d = shutdown[r]
    BY DEF TypeOK, Types
  <1>7. PICK x \in ShutdownSet : x = [d EXCEPT !.done = TRUE]
    BY DEF ShutdownSet
  <1>8. x.owner = d.owner /\ x.done /\ x.error = d.error /\ x.sinks = d.sinks
    BY <1>7 DEF ShutdownSet
  <1>9. shutdown' = [shutdown EXCEPT ![r] = x]
    BY <1>5, <1>6, <1>7 DEF Finished
  <1>10. OnlyShutdown(r) /\ shutdown'[r] = x
    BY <1>9, ShutdownIs DEF TypeOK
  <1> QED
    BY <1>1, <1>2, <1>3, <1>4, <1>5, <1>6, <1>8, <1>10, Zenon

LEMMA AwaitedIs ==
  ASSUME TypeOK, NEW t \in Threads, Awaited(t)
  PROVE  /\ Stands(t, "await") /\ Ends(Top(t)) /\ Returns(t)
         /\ UNCHANGED <<built, store, shutdown, abandoned, calls, cuts>>
         /\ LET r == Top(t).run
            IN  /\ shutdown[r].done /\ r \in Runs
                /\ returned' = IF shutdown[r].error THEN returned ELSE returned \cup {r}
  <1>1. Stands(t, "await")
    BY StandsIs DEF Awaited
  <1>2. Ends(Top(t)) /\ stack[t] # <<>>
    BY <1>1, EndsAt DEF FinishAts
  <1>3. Returns(t)
    BY <1>2, ReturnIs DEF Awaited
  <1> QED
    BY <1>1, <1>2, <1>3 DEF Awaited, bounds, Stands

LEMMA LockedIs ==
  ASSUME TypeOK, NEW t \in Threads, At(t, "lock"), NEW f \in FrameSet,
         f.call = Top(t).call, f.at # "lock", f.run \in Runs, f.want = 0,
         (f.call = "et.init" /\ f.at = "build") \/ (f.call = "et.finish" /\ f.at = "elect"),
         Become(t, f)
  PROVE  Turns(t, f.at, f.run, 0)
  <1>1. stack[t] # <<>>
    BY DEF At
  <1>2. IsFrame(f)
    BY RunsAre DEF IsFrame, FinishAts
  <1>3. Turns(t, f.at, f.run, f.want)
    BY <1>1, <1>2, TurnIs
  <1> QED
    BY <1>3, Zenon

LEMMA LockFinishIs ==
  ASSUME TypeOK, NEW t \in Threads, LockFinish(t)
  PROVE  /\ Stands(t, "lock") /\ Top(t).call = "et.finish" /\ lifecycle \in {NoOne, t}
         /\ NothingElse /\ UNCHANGED <<store, shutdown>>
         /\ \/ current = 0 /\ Returns(t)
            \/ current \in Runs /\ Turns(t, "elect", current, 0) /\ lifecycle' = t /\ current' = current
  <1>1. Stands(t, "lock") /\ Top(t).call = "et.finish" /\ lifecycle \in {NoOne, t} /\ At(t, "lock")
    BY StandsIs DEF LockFinish
  <1>2. NothingElse /\ UNCHANGED <<store, shutdown>>
    BY DEF LockFinish, NothingElse, ghosts, bounds
  <1>3. CASE current = 0 /\ Return(t)
    <2>1. Returns(t)
      BY <1>1, <1>3, ReturnIs DEF Stands
    <2> QED
      BY <1>1, <1>2, <1>3, <2>1
  <1>4. CASE current # 0 /\ lifecycle' = t /\ current' = current
             /\ Become(t, [Top(t) EXCEPT !.at = "elect", !.run = current])
    <2>1. PICK r \in Runs : r = current
      BY <1>4, RunsAre DEF TypeOK, Types
    <2>2. PICK top \in FrameSet : top = Top(t) /\ IsFrame(top) /\ top.call = "et.finish"
      BY <1>1 DEF Stands
    <2>3. PICK f : f = [top EXCEPT !.at = "elect", !.run = r]
      OBVIOUS
    <2>4. f \in FrameSet /\ f.call = "et.finish" /\ f.at = "elect" /\ f.run = r /\ f.want = 0
      BY <2>2, <2>3, RunsAre DEF FrameSet, AtNames, FinishAts, IsFrame
    <2>5. Become(t, f)
      BY <1>4, <2>1, <2>2, <2>3, Zenon
    <2>6. Turns(t, f.at, f.run, 0)
      BY <1>1, <2>4, <2>5, LockedIs
    <2> QED
      BY <1>1, <1>2, <1>4, <2>1, <2>4, <2>6, Zenon
  <1> QED
    BY <1>3, <1>4, Zenon DEF LockFinish

\* Its own call of init() has room for the run it builds.
LEMMA RoomForOne ==
  ASSUME TypeOK, NEW t \in Threads, Stands(t, "lock"), Top(t).call = "et.init"
  PROVE  t \in BuilderSet /\ built + 1 \in Runs
  <1>1. t \in BuilderSet
    BY BuilderIs, Zenon DEF Stands, TypeOK
  <1>2. PICK B : B = BuilderSet
    OBVIOUS
  <1>3. IsFiniteSet(B) /\ Cardinality(B) \in Nat /\ Cardinality(B) # 0
    BY <1>1, <1>2, FS_CardinalityType, FS_EmptySet DEF TypeOK, Room
  <1>4. Cardinality(B) + built <= MaxRuns /\ built \in Nat /\ MaxRuns \in Nat
    BY <1>2, LifecycleAssumption DEF TypeOK, Room, Types
  <1> QED
    BY <1>1, <1>3, <1>4 DEF Runs

LEMMA LockInitIs ==
  ASSUME TypeOK, NEW t \in Threads, LockInit(t)
  PROVE  /\ Stands(t, "lock") /\ Top(t).call = "et.init" /\ lifecycle \in {NoOne, t}
         /\ UNCHANGED <<shutdown, returned, abandoned, calls, cuts>>
         /\ \/ Returns(t) /\ UNCHANGED <<built, store>>
            \/ /\ Vacant /\ lifecycle' = t /\ current' = current
               /\ built' = built + 1 /\ built' \in Runs /\ Turns(t, "build", built', 0)
               /\ OnlyStore(built') /\ SameRows(built') /\ SameDelivery(built')
               /\ store'[built'].closed = store[built'].closed /\ store'[built'].writer = "open"
  <1>1. Stands(t, "lock") /\ Top(t).call = "et.init" /\ lifecycle \in {NoOne, t} /\ At(t, "lock")
    BY StandsIs DEF LockInit
  <1>2. UNCHANGED <<shutdown, returned, abandoned, calls, cuts>>
    BY DEF LockInit, ghosts, bounds
  <1>3. CASE Return(t) /\ UNCHANGED <<built, store>>
    <2>1. Returns(t)
      BY <1>1, <1>3, ReturnIs DEF Stands
    <2> QED
      BY <1>1, <1>2, <1>3, <2>1
  <1>4. CASE /\ Vacant /\ lifecycle' = t /\ built' = built + 1 /\ current' = current
             /\ store' = [store EXCEPT ![built'].writer = "open"]
             /\ Become(t, [Top(t) EXCEPT !.at = "build", !.run = built'])
    <2>1. PICK r \in Runs : r = built'
      BY <1>1, <1>4, RoomForOne
    <2>2. PICK top \in FrameSet : top = Top(t) /\ IsFrame(top) /\ top.call = "et.init"
      BY <1>1 DEF Stands
    <2>3. PICK f : f = [top EXCEPT !.at = "build", !.run = r]
      OBVIOUS
    <2>4. f \in FrameSet /\ f.call = "et.init" /\ f.at = "build" /\ f.run = r /\ f.want = 0
      BY <2>2, <2>3, RunsAre DEF FrameSet, AtNames, FinishAts, IsFrame
    <2>5. Become(t, f)
      BY <1>4, <2>1, <2>2, <2>3, Zenon
    <2>6. Turns(t, f.at, f.run, 0)
      BY <1>1, <2>2, <2>4, <2>5, LockedIs
    <2>7. PICK s \in StoreSet : s = store[r]
      BY DEF TypeOK, Types
    <2>8. PICK x \in StoreSet : x = [s EXCEPT !.writer = "open"]
      BY DEF StoreSet
    <2>9. /\ x.closed = s.closed /\ x.writer = "open" /\ x.begun = s.begun /\ x.open = s.open
          /\ x.done = s.done /\ x.committed = s.committed /\ x.owner = s.owner
      BY <2>8 DEF StoreSet
    <2>10. store' = [store EXCEPT ![r] = x]
      BY <1>4, <2>1, <2>7, <2>8
    <2>11. OnlyStore(r) /\ store'[r] = x
      BY <2>10, StoreIs DEF TypeOK
    <2>12. SameRows(r) /\ SameDelivery(r) /\ x.closed = s.closed /\ x.writer = "open"
      BY <2>7, <2>9, <2>11, Zenon DEF SameRows, SameDelivery
    <2> QED
      BY <1>1, <1>2, <1>4, <2>1, <2>4, <2>6, <2>7, <2>11, <2>12, Zenon
  <1> QED
    BY <1>3, <1>4, Zenon DEF LockInit

\* Whether a call that stays on the stack has the lifecycle lock is read off the stack.
LEMMA LockingIs ==
  ASSUME Types, NEW t \in Threads, stack[t] # <<>>
  PROVE  Locking(Front(stack[t])) <=> \E i \in 1..(Len(stack[t]) - 1) : Et(stack[t][i])
  <1>1. PICK q \in Seq(FrameSet) : q = stack[t]
    BY DEF Types
  <1>2. PICK w : w = Front(q)
    OBVIOUS
  <1>3. /\ w \in Seq(FrameSet) /\ Len(w) = Len(q) - 1
        /\ \A i \in 1..(Len(q) - 1) : w[i] = q[i]
    BY <1>1, <1>2, FrontIs
  <1>4. DOMAIN w = 1..(Len(q) - 1)
    BY <1>3
  <1>5. Range(w) = {q[i] : i \in 1..(Len(q) - 1)}
    BY <1>3, <1>4 DEF Range
  <1> QED
    BY <1>1, <1>2, <1>5 DEF Locking, Et

LEMMA PublishIs ==
  ASSUME TypeOK, NEW t \in Threads, Publish(t)
  PROVE  /\ Stands(t, "build") /\ Top(t).call = "et.init" /\ NothingElse /\ UNCHANGED <<store, shutdown>>
         /\ \A f : Changes(t, Len(stack[t]) - 1, FALSE, f)
         /\ current' = Top(t).run
         /\ lifecycle' = IF \E i \in 1..(Len(stack[t]) - 1) : Et(stack[t][i]) THEN t ELSE NoOne
  <1>1. Stands(t, "build")
    BY StandsIs DEF Publish
  <1>2. Top(t).call = "et.init"
    BY <1>1 DEF Stands, IsFrame, FrameSet, CallNames, FinishAts, LeadAts
  <1>3. NothingElse /\ UNCHANGED <<store, shutdown>> /\ current' = Top(t).run
    BY DEF Publish, NothingElse, ghosts, bounds
  <1>4. \A f : Changes(t, Len(stack[t]) - 1, FALSE, f)
    <2>1. stack' = [stack EXCEPT ![t] = Front(@)] /\ stack[t] # <<>>
      BY <1>1, Zenon DEF Publish, Stands
    <2> QED
      BY <2>1, PopIs DEF TypeOK
  <1>5. lifecycle' = IF Locking(Front(stack[t])) THEN t ELSE NoOne
    BY Zenon DEF Publish
  <1>6. Locking(Front(stack[t])) <=> \E i \in 1..(Len(stack[t]) - 1) : Et(stack[t][i])
    BY <1>1, LockingIs DEF Stands, TypeOK
  <1> QED
    BY <1>1, <1>2, <1>3, <1>4, <1>5, <1>6, Zenon

LEMMA RollbackIs ==
  ASSUME TypeOK, NEW t \in Threads, Rollback(t)
  PROVE  /\ Stands(t, "build") /\ Top(t).call = "et.init" /\ NothingElse /\ shutdown' = shutdown
         /\ Returns(t)
         /\ LET r == Top(t).run
            IN  /\ OnlyStore(r) /\ SameRows(r) /\ SameDelivery(r)
                /\ store'[r].closed /\ store'[r].writer = "closed"
  <1>1. Stands(t, "build")
    BY StandsIs DEF Rollback
  <1>2. Top(t).call = "et.init"
    BY <1>1 DEF Stands, IsFrame, FrameSet, CallNames, FinishAts, LeadAts
  <1>3. NothingElse /\ shutdown' = shutdown
    BY DEF Rollback, NothingElse, ghosts, bounds
  <1>4. Returns(t)
    BY <1>1, ReturnIs DEF Rollback, Stands
  <1>5. PICK r \in Runs : r = Top(t).run
    BY <1>1 DEF Stands
  <1>6. PICK s \in StoreSet : s = store[r]
    BY DEF TypeOK, Types
  <1>7. PICK x \in StoreSet : x = [s EXCEPT !.closed = TRUE, !.writer = "closed"]
    BY DEF StoreSet
  <1>8. /\ x.closed /\ x.writer = "closed" /\ x.begun = s.begun /\ x.open = s.open
        /\ x.done = s.done /\ x.committed = s.committed /\ x.owner = s.owner
    BY <1>7 DEF StoreSet
  <1>9. store' = [store EXCEPT ![r] = x]
    BY <1>5, <1>6, <1>7 DEF Rollback
  <1>10. OnlyStore(r) /\ store'[r] = x
    BY <1>9, StoreIs DEF TypeOK
  <1> QED
    BY <1>1, <1>2, <1>3, <1>4, <1>5, <1>6, <1>8, <1>10, Zenon DEF SameRows, SameDelivery

LEMMA AbandonIs ==
  ASSUME TypeOK, NEW t \in Threads, Abandon(t)
  PROVE  /\ Stands(t, "build") /\ Top(t).call = "et.init" /\ Returns(t)
         /\ UNCHANGED <<built, store, shutdown, returned, calls, cuts>>
         /\ abandoned' = abandoned \cup {Top(t).run} /\ abandoned' \subseteq Runs
  <1>1. Stands(t, "build")
    BY StandsIs DEF Abandon
  <1>2. Top(t).call = "et.init"
    BY <1>1 DEF Stands, IsFrame, FrameSet, CallNames, FinishAts, LeadAts
  <1>3. UNCHANGED <<built, store, shutdown, returned, calls, cuts>>
        /\ abandoned' = abandoned \cup {Top(t).run}
    BY DEF Abandon, bounds
  <1>4. Returns(t)
    BY <1>1, ReturnIs DEF Abandon, Stands
  <1>5. abandoned' \subseteq Runs
    BY <1>1, <1>3 DEF TypeOK, Types, Stands
  <1> QED
    BY <1>1, <1>2, <1>3, <1>4, <1>5

-----------------------------------------------------------------------------
(* Type correctness                                                        *)

\* What a step changes beside the stack is well typed.
TypedStep ==
    /\ current' \in 0..MaxRuns /\ built' \in 0..MaxRuns
    /\ lifecycle' \in Threads \cup {NoOne}
    /\ store' \in [Runs -> StoreSet] /\ shutdown' \in [Runs -> ShutdownSet]
    /\ returned' \subseteq Runs /\ abandoned' \subseteq Runs
    /\ calls' \in Nat /\ cuts' \in Nat

LEMMA TypesStep ==
  ASSUME NEW t, NEW n, NEW more, NEW f, Changes(t, n, more, f), TypedStep
  PROVE  Types'
  BY DEF Changes, TypedStep, Types

LEMMA EntersTyped ==
  ASSUME TypeOK, NEW t \in Threads, NEW f, Enters(t, f), store' \in [Runs -> StoreSet],
         f.call = "et.init" => Builders + built < MaxRuns
  PROVE  TypeOK'
  <1>1. Types'
    <2>1. TypedStep
      BY DEF TypeOK, Types, Enters, TypedStep
    <2> QED
      BY <2>1, TypesStep DEF Enters
  <1>2. Stacked'
    <2>1. CASE stack[t] = <<>>
      BY <2>1, StackedStep DEF TypeOK, Enters
    <2>2. CASE stack[t] # <<>>
      <3>1. Top(t).at = "callback" /\ f.call # "callback" /\ IsFrame(f)
        BY <2>2 DEF Enters, MayCall, Idle, At
      <3>2. Below(stack[t][Len(stack[t])], f)
        BY <2>2, <3>1, TopIs DEF TypeOK, Below
      <3> QED
        BY <3>1, <3>2, StackedStep DEF TypeOK, Enters
    <2> QED
      BY <2>1, <2>2
  <1>3. Room'
    <2>1. Changes(t, Len(stack[t]), TRUE, f) /\ built' = built
      BY DEF Enters
    <2>2. CASE f.call = "et.init"
      <3>1. PICK B, C : B = BuilderSet /\ C = BuilderSet'
        OBVIOUS
      <3>2. C \subseteq B \cup {t} /\ IsFiniteSet(B)
        BY <2>1, <3>1, BuildersStay, Zenon DEF Room, TypeOK
      <3>3. IsFiniteSet(B \cup {t}) /\ Cardinality(B \cup {t}) <= Cardinality(B) + 1
        <4>1. Cardinality(B) \in Nat
          BY <3>2, FS_CardinalityType
        <4>2. /\ IsFiniteSet(B \cup {t})
              /\ Cardinality(B \cup {t}) = IF t \in B THEN Cardinality(B) ELSE Cardinality(B) + 1
          BY <3>2, FS_AddElement, Zenon
        <4> QED
          BY <4>1, <4>2
      <3>4. IsFiniteSet(C) /\ Cardinality(C) <= Cardinality(B \cup {t})
        BY <3>2, <3>3, FS_Subset
      <3>5. Cardinality(C) \in Nat /\ Cardinality(B) \in Nat /\ Cardinality(B \cup {t}) \in Nat
        BY <3>2, <3>3, <3>4, FS_CardinalityType
      <3>6. Cardinality(B) + built < MaxRuns
        BY <2>2, <3>1 DEF Builders, BuilderSet
      <3>7. Cardinality(C) + built <= MaxRuns
        BY <3>3, <3>4, <3>5, <3>6, LifecycleAssumption DEF TypeOK, Types
      <3> QED
        BY <2>1, <3>1, <3>4, <3>7, Zenon DEF Room
    <2>3. CASE f.call # "et.init"
      BY <2>1, <2>3, RoomStep DEF TypeOK
    <2> QED
      BY <2>2, <2>3
  <1> QED
    BY <1>1, <1>2, <1>3 DEF TypeOK

LEMMA PopTyped ==
  ASSUME TypeOK, NEW t \in Threads, NEW n, \A f : Changes(t, n, FALSE, f), TypedStep, built' = built
  PROVE  TypeOK'
  <1>1. Changes(t, n, FALSE, 0)
    OBVIOUS
  <1>2. Types'
    BY <1>1, TypesStep
  <1>3. Stacked'
    BY <1>1, PopStacked DEF TypeOK
  <1>4. Room'
    BY <1>1, RoomStep DEF TypeOK
  <1> QED
    BY <1>2, <1>3, <1>4 DEF TypeOK

LEMMA ReturnsTyped ==
  ASSUME TypeOK, NEW t \in Threads, Returns(t), UNCHANGED <<built, calls, cuts>>,
         store' \in [Runs -> StoreSet], shutdown' \in [Runs -> ShutdownSet],
         returned' \subseteq Runs, abandoned' \subseteq Runs
  PROVE  TypeOK'
  <1>1. TypedStep
    BY LifecycleAssumption DEF TypeOK, Types, Returns, TypedStep
  <1> QED
    BY <1>1, PopTyped DEF Returns

LEMMA TurnsTyped ==
  ASSUME TypeOK, NEW t \in Threads, NEW at, NEW r, NEW w, Turns(t, at, r, w),
         at \notin {"lock", "callback"}, built' = built, TypedStep
  PROVE  TypeOK'
  <1>1. PICK f \in FrameSet : /\ f.call = Top(t).call /\ f.at = at /\ IsFrame(f) /\ stack[t] # <<>>
                              /\ Changes(t, Len(stack[t]) - 1, TRUE, f)
    BY DEF Turns
  <1>2. Types'
    BY <1>1, TypesStep
  <1>3. f.call # "callback"
    BY <1>1 DEF IsFrame
  <1>4. Stacked'
    BY <1>1, <1>3, TurnStacked DEF TypeOK
  <1>5. Room'
    BY <1>1, RoomStep DEF TypeOK
  <1> QED
    BY <1>2, <1>4, <1>5 DEF TypeOK

LEMMA CallsTyped ==
  ASSUME TypeOK, NEW t \in Threads, Calls(t)
  PROVE  TypeOK'
  <1>1. store \in [Runs -> StoreSet]
    BY DEF TypeOK, Types
  <1>2. CASE Log(t)
    <2>1. PICK f : Enters(t, f) /\ f.call = "log" /\ store' = store
      BY <1>2, LogIs
    <2> QED
      BY <1>1, <2>1, EntersTyped
  <1>3. CASE Flush(t)
    <2>1. PICK f : Enters(t, f) /\ f.call = "flush" /\ CommitsOpen(f.run)
      BY <1>3, FlushIs
    <2> QED
      BY <2>1, EntersTyped DEF CommitsOpen, OnlyStore
  <1>4. CASE RunFinish(t)
    <2>1. PICK f : Enters(t, f) /\ f.call = "finish" /\ store' = store
      BY <1>4, RunFinishIs
    <2> QED
      BY <1>1, <2>1, EntersTyped
  <1>5. CASE EtCall(t)
    <2>1. PICK f : Enters(t, f) /\ store' = store /\ (f.call = "et.init" => Builders + built < MaxRuns)
      BY <1>5, EtCallIs
    <2> QED
      BY <1>1, <2>1, EntersTyped
  <1> QED
    BY <1>2, <1>3, <1>4, <1>5 DEF Calls

LEMMA CutTyped ==
  ASSUME TypeOK, NEW t \in Threads, Cut(t)
  PROVE  TypeOK'
  <1>1. Dropped(t)
    BY UnwindIs
  <1>2. TypedStep
    BY <1>1, LifecycleAssumption DEF TypeOK, Types, Dropped, TypedStep
  <1>3. built' = built /\ \A f : Changes(t, 0, FALSE, f)
    BY <1>1 DEF Dropped
  <1> QED
    BY <1>2, <1>3, PopTyped

\* The steps of finish().
LEMMA StepsTyped ==
  ASSUME TypeOK, NEW t \in Threads, NEW at \in FinishAts, NEW next \in FinishAts, StepsTo(t, at, next),
         store' \in [Runs -> StoreSet], shutdown' \in [Runs -> ShutdownSet]
  PROVE  TypeOK'
  <1>1. TypedStep
    BY DEF TypeOK, Types, StepsTo, NothingElse, TypedStep
  <1>2. next \notin {"lock", "callback"}
    BY DEF FinishAts, LeadAts
  <1> QED
    BY <1>1, <1>2, TurnsTyped DEF StepsTo, NothingElse

LEMMA DeliveryTyped ==
  ASSUME TypeOK, NEW t \in Threads, Admit(t) \/ Take(t) \/ EndCallback(t) \/ Drained(t)
  PROVE  TypeOK'
  <1>1. /\ store \in [Runs -> StoreSet] /\ shutdown \in [Runs -> ShutdownSet]
        /\ returned \subseteq Runs /\ abandoned \subseteq Runs
    BY DEF TypeOK, Types
  <1>2. CASE Admit(t)
    <2>1. NothingElse /\ shutdown' = shutdown /\ Top(t).call = "log" /\ stack[t] # <<>>
      BY <1>2, AdmitIs DEF Stands
    <2>2. store' \in [Runs -> StoreSet]
      BY <1>1, <1>2, AdmitIs DEF OnlyStore
    <2>3. CASE Returns(t)
      BY <1>1, <2>1, <2>2, <2>3, ReturnsTyped DEF NothingElse
    <2>4. CASE \E r, w : Turns(t, "drain", r, w) /\ UNCHANGED <<current, lifecycle>>
      <3>1. PICK r, w : Turns(t, "drain", r, w) /\ UNCHANGED <<current, lifecycle>>
        BY <2>4
      <3>2. TypedStep
        BY <1>1, <2>1, <2>2, <3>1 DEF NothingElse, TypedStep, TypeOK, Types
      <3> QED
        BY <2>1, <3>1, <3>2, TurnsTyped DEF NothingElse
    <2> QED
      BY <1>2, <2>3, <2>4, AdmitIs, Zenon
  <1>3. CASE Take(t)
    <2>1. PICK f \in FrameSet : Changes(t, Len(stack[t]), TRUE, f) /\ IsFrame(f) /\ Calling(f, Top(t).run)
      BY <1>3, TakeIs, Zenon
    <2>2. Stands(t, "drain") /\ NothingElse /\ UNCHANGED <<shutdown, current, lifecycle>>
          /\ store' \in [Runs -> StoreSet]
      BY <1>3, TakeIs DEF OnlyStore
    <2>3. TypedStep
      BY <1>1, <2>2 DEF NothingElse, TypedStep, TypeOK, Types
    <2>4. Types'
      BY <2>1, <2>3, TypesStep
    <2>5. Stacked'
      <3>1. Below(stack[t][Len(stack[t])], f)
        BY <2>1, <2>2 DEF Below, Stands, Calling
      <3> QED
        BY <2>1, <3>1, StackedStep DEF TypeOK
    <2>6. Room'
      BY <2>1, <2>2, RoomStep DEF TypeOK, NothingElse, Calling
    <2> QED
      BY <2>4, <2>5, <2>6 DEF TypeOK
  <1>4. CASE EndCallback(t)
    <2>1. NothingElse /\ shutdown' = shutdown /\ Returns(t) /\ store' \in [Runs -> StoreSet]
      BY <1>4, EndCallbackIs DEF OnlyStore
    <2> QED
      BY <1>1, <2>1, ReturnsTyped DEF NothingElse
  <1>5. CASE Drained(t)
    <2>1. NothingElse /\ UNCHANGED <<store, shutdown>> /\ (Returns(t) \/ StepsTo(t, "drain", "writer"))
      BY <1>5, DrainedIs
    <2>2. "drain" \in FinishAts /\ "writer" \in FinishAts
      BY DEF FinishAts, LeadAts
    <2> QED
      BY <1>1, <2>1, <2>2, ReturnsTyped, StepsTyped DEF NothingElse
  <1> QED
    BY <1>2, <1>3, <1>4, <1>5

LEMMA FinishTyped ==
  ASSUME TypeOK, NEW t \in Threads,
         \/ Elect(t) \/ Closing(t) \/ CommitOpen(t) \/ CloseWriter(t)
         \/ CloseSink(t) \/ Finished(t) \/ Awaited(t)
  PROVE  TypeOK'
  <1>1. /\ store \in [Runs -> StoreSet] /\ shutdown \in [Runs -> ShutdownSet]
        /\ returned \subseteq Runs /\ abandoned \subseteq Runs
    BY DEF TypeOK, Types
  <1>2. LeadAts \cup {"elect", "await"} \subseteq FinishAts
    BY DEF FinishAts
  <1>3. CASE Elect(t)
    <2>1. store' = store /\ shutdown' \in [Runs -> ShutdownSet]
          /\ \E next \in {"closing", "await"} : StepsTo(t, "elect", next)
      BY <1>1, <1>3, ElectIs DEF OnlyShutdown
    <2>2. {"elect", "closing", "await"} \subseteq FinishAts
      BY <1>2 DEF LeadAts
    <2> QED
      BY <1>1, <2>1, <2>2, StepsTyped
  <1>4. CASE Closing(t)
    <2>1. StepsTo(t, "closing", "commit") /\ shutdown' = shutdown /\ store' \in [Runs -> StoreSet]
      BY <1>4, ClosingIs DEF OnlyStore
    <2> QED
      BY <1>1, <1>2, <2>1, StepsTyped DEF LeadAts
  <1>5. CASE CommitOpen(t)
    <2>1. StepsTo(t, "commit", "drain") /\ shutdown' = shutdown /\ store' \in [Runs -> StoreSet]
      BY <1>5, CommitOpenIs DEF OnlyStore, CommitsOpen
    <2> QED
      BY <1>1, <1>2, <2>1, StepsTyped DEF LeadAts
  <1>6. CASE CloseWriter(t)
    <2>1. StepsTo(t, "writer", "summary") /\ shutdown' = shutdown /\ store' \in [Runs -> StoreSet]
      BY <1>6, CloseWriterIs DEF OnlyStore
    <2> QED
      BY <1>1, <1>2, <2>1, StepsTyped DEF LeadAts
  <1>7. CASE CloseSink(t)
    <2>1. /\ Top(t).at \in Sinks /\ StepsTo(t, Top(t).at, AfterSink(Top(t).at)) /\ store' = store
          /\ shutdown' \in [Runs -> ShutdownSet]
      BY <1>7, CloseSinkIs DEF OnlyShutdown
    <2>2. Top(t).at \in FinishAts /\ AfterSink(Top(t).at) \in FinishAts
      BY <1>2, <2>1 DEF LeadAts, Sinks, AfterSink
    <2> QED
      BY <1>1, <2>1, <2>2, StepsTyped
  <1>8. CASE Finished(t)
    <2>1. /\ Returns(t) /\ UNCHANGED <<built, store, abandoned, calls, cuts>> /\ Top(t).run \in Runs
          /\ returned' = returned \cup {Top(t).run} /\ shutdown' \in [Runs -> ShutdownSet]
      BY <1>8, FinishedIs DEF OnlyShutdown
    <2>2. returned' \subseteq Runs
      BY <1>1, <2>1
    <2> QED
      BY <1>1, <2>1, <2>2, ReturnsTyped
  <1>9. CASE Awaited(t)
    <2>1. /\ Returns(t) /\ UNCHANGED <<built, store, shutdown, abandoned, calls, cuts>> /\ Top(t).run \in Runs
          /\ returned' = IF shutdown[Top(t).run].error THEN returned ELSE returned \cup {Top(t).run}
      BY <1>9, AwaitedIs
    <2>2. returned' \subseteq Runs
      BY <1>1, <2>1
    <2> QED
      BY <1>1, <2>1, <2>2, ReturnsTyped
  <1> QED
    BY <1>3, <1>4, <1>5, <1>6, <1>7, <1>8, <1>9

\* Only a call on top of its stack waits for the lock.
LEMMA WaitsOnTop ==
  ASSUME TypeOK, NEW u \in Threads, NEW i \in 1..Len(stack[u]), stack[u][i].at = "lock"
  PROVE  i = Len(stack[u])
  BY UnderIs DEF TypeOK

LEMMA BuildTyped ==
  ASSUME TypeOK, NEW t \in Threads, Stands(t, "lock"), Top(t).call = "et.init",
         built' = built + 1, TypedStep, NEW r, Turns(t, "build", r, 0)
  PROVE  TypeOK'
  <1>1. PICK f \in FrameSet : /\ f.call = "et.init" /\ f.at = "build" /\ IsFrame(f) /\ stack[t] # <<>>
                              /\ f.call = Top(t).call
                              /\ Changes(t, Len(stack[t]) - 1, TRUE, f)
    BY DEF Turns
  <1>2. Types'
    BY <1>1, TypesStep
  <1>3. Stacked'
    BY <1>1, TurnStacked DEF TypeOK
  <1>4. t \in BuilderSet
    BY RoomForOne
  <1>5. t \notin BuilderSet'
    <2>1. ASSUME NEW i \in 1..Len(stack'[t]), stack'[t][i].at = "lock" PROVE FALSE
      <3>1. i \in 1..Len(stack[t]) /\ stack'[t][i] = stack[t][i] /\ i <= Len(stack[t]) - 1
        <4>1. Turned(t, f)
          BY <1>1, Zenon DEF Turned
        <4>2. \/ i \in 1..Len(stack[t]) /\ stack'[t][i] = stack[t][i] /\ i <= Len(stack[t]) - 1
              \/ stack'[t][i] = f
          BY <4>1, AfterTurn DEF TypeOK
        <4> QED
          BY <1>1, <2>1, <4>2
      <3>2. i = Len(stack[t]) /\ Len(stack[t]) \in Nat
        BY <2>1, <3>1, WaitsOnTop, InStack DEF TypeOK
      <3> QED
        BY <3>1, <3>2
    <2> QED
      BY <1>1, <2>1, BuilderNext, Zenon DEF TypeOK
  <1>6. PICK B, C : B = BuilderSet /\ C = BuilderSet'
    OBVIOUS
  <1>7. C \subseteq B \ {t} /\ t \in B /\ IsFiniteSet(B)
    <2>1. BuilderSet' \subseteq BuilderSet
      <3>1. ~(TRUE /\ f.call = "et.init" /\ f.at = "lock")
        BY <1>1
      <3> QED
        BY <1>1, <3>1, BuildersStay, Zenon DEF TypeOK
    <2> QED
      BY <1>4, <1>5, <1>6, <2>1 DEF TypeOK, Room
  <1>8. IsFiniteSet(B \ {t}) /\ Cardinality(B \ {t}) = Cardinality(B) - 1
    <2>1. /\ IsFiniteSet(B \ {t})
          /\ Cardinality(B \ {t}) = IF t \in B THEN Cardinality(B) - 1 ELSE Cardinality(B)
      BY <1>7, FS_RemoveElement, Zenon
    <2> QED
      BY <1>7, <2>1
  <1>9. IsFiniteSet(C) /\ Cardinality(C) <= Cardinality(B \ {t})
    BY <1>7, <1>8, FS_Subset
  <1>10. Cardinality(C) \in Nat /\ Cardinality(B) \in Nat
    BY <1>7, <1>9, FS_CardinalityType
  <1>11. Cardinality(C) + built' <= MaxRuns
    <2>1. Cardinality(B) + built <= MaxRuns /\ built \in Nat /\ MaxRuns \in Nat
      BY <1>6, LifecycleAssumption DEF TypeOK, Room, Types
    <2> QED
      BY <1>8, <1>9, <1>10, <2>1
  <1>12. Room'
    BY <1>6, <1>9, <1>11, Zenon DEF Room
  <1> QED
    BY <1>2, <1>3, <1>12 DEF TypeOK

LEMMA TrackerTyped ==
  ASSUME TypeOK, NEW t \in Threads,
         LockFinish(t) \/ LockInit(t) \/ Publish(t) \/ Rollback(t) \/ Abandon(t)
  PROVE  TypeOK'
  <1>1. /\ store \in [Runs -> StoreSet] /\ shutdown \in [Runs -> ShutdownSet]
        /\ returned \subseteq Runs /\ abandoned \subseteq Runs
    BY DEF TypeOK, Types
  <1>2. CASE LockFinish(t)
    <2>1. NothingElse /\ UNCHANGED <<store, shutdown>>
      BY <1>2, LockFinishIs
    <2>2. CASE Returns(t)
      BY <1>1, <2>1, <2>2, ReturnsTyped DEF NothingElse
    <2>3. CASE Turns(t, "elect", current, 0) /\ lifecycle' = t /\ current' = current
      <3>1. TypedStep
        BY <2>1, <2>3 DEF NothingElse, TypedStep, TypeOK, Types
      <3> QED
        BY <2>1, <2>3, <3>1, TurnsTyped DEF NothingElse
    <2> QED
      BY <1>2, <2>2, <2>3, LockFinishIs
  <1>3. CASE LockInit(t)
    <2>1. Stands(t, "lock") /\ Top(t).call = "et.init" /\ UNCHANGED <<shutdown, returned, abandoned, calls, cuts>>
      BY <1>3, LockInitIs
    <2>2. CASE Returns(t) /\ UNCHANGED <<built, store>>
      BY <1>1, <2>1, <2>2, ReturnsTyped
    <2>3. CASE /\ lifecycle' = t /\ current' = current
               /\ built' = built + 1 /\ built' \in Runs /\ Turns(t, "build", built', 0)
               /\ OnlyStore(built')
      <3>1. store' \in [Runs -> StoreSet] /\ built' \in 0..MaxRuns
        BY <2>3, RunsAre DEF OnlyStore
      <3>2. TypedStep
        BY <2>1, <2>3, <3>1 DEF TypedStep, TypeOK, Types
      <3> QED
        BY <2>1, <2>3, <3>2, BuildTyped
    <2> QED
      BY <1>3, <2>2, <2>3, LockInitIs, Zenon
  <1>4. CASE Publish(t)
    <2>1. /\ Stands(t, "build") /\ NothingElse /\ UNCHANGED <<store, shutdown>>
          /\ \A f : Changes(t, Len(stack[t]) - 1, FALSE, f)
          /\ current' = Top(t).run /\ lifecycle' \in {t, NoOne}
      BY <1>4, PublishIs
    <2>2. current' \in 0..MaxRuns
      BY <2>1, RunsAre DEF Stands
    <2>3. TypedStep
      BY <2>1, <2>2 DEF NothingElse, TypedStep, TypeOK, Types
    <2> QED
      BY <2>1, <2>3, PopTyped DEF NothingElse
  <1>5. CASE Rollback(t)
    <2>1. NothingElse /\ shutdown' = shutdown /\ Returns(t) /\ store' \in [Runs -> StoreSet]
      BY <1>5, RollbackIs DEF OnlyStore
    <2> QED
      BY <1>1, <2>1, ReturnsTyped DEF NothingElse
  <1>6. CASE Abandon(t)
    <2>1. /\ Returns(t) /\ UNCHANGED <<built, store, shutdown, returned, calls, cuts>>
          /\ abandoned' \subseteq Runs
      BY <1>6, AbandonIs
    <2> QED
      BY <1>1, <2>1, ReturnsTyped
  <1> QED
    BY <1>2, <1>3, <1>4, <1>5, <1>6

LEMMA InitTyped ==
  ASSUME Init
  PROVE  TypeOK
  <1>1. NewStore \in StoreSet
    BY DEF NewStore, StoreSet
  <1>2. [owner |-> NoOne, done |-> FALSE, error |-> FALSE, sinks |-> {}] \in ShutdownSet
    BY DEF ShutdownSet
  <1>3. Types
    BY <1>1, <1>2, LifecycleAssumption DEF Init, Types
  <1>4. Stacked
    BY DEF Init, Stacked
  <1>5. Room
    <2>1. BuilderSet = {}
      BY DEF Init, BuilderSet, Range
    <2> QED
      BY <2>1, FS_EmptySet, LifecycleAssumption DEF Room, Init
  <1> QED
    BY <1>3, <1>4, <1>5 DEF TypeOK

LEMMA NextTyped ==
  ASSUME TypeOK, [Next]_vars
  PROVE  TypeOK'
  <1>1. CASE UNCHANGED vars
    BY <1>1 DEF vars, ghosts, bounds, TypeOK, Types, Stacked, Room, BuilderSet
  <1>2. ASSUME NEW t \in Threads, Calls(t) PROVE TypeOK'
    BY <1>2, CallsTyped
  <1>3. ASSUME NEW t \in Threads, Advance(t) PROVE TypeOK'
    BY <1>3, DeliveryTyped, FinishTyped, TrackerTyped DEF Advance
  <1>4. ASSUME NEW t \in Threads, Cut(t) PROVE TypeOK'
    BY <1>4, CutTyped
  <1> QED
    BY <1>1, <1>2, <1>3, <1>4, Zenon DEF Next, Rest

\* Every call is at a step of its code, on a stack on which only a callback or
\* a call that waits for one has another above it, and no run is built beyond
\* the bound, for any threads, runs and interrupts.
THEOREM TypeCorrect == Spec => []TypeOK
  <1>1. Init => TypeOK
    BY InitTyped
  <1>2. TypeOK /\ [Next]_vars => TypeOK'
    BY NextTyped
  <1> QED
    BY <1>1, <1>2, PTL DEF Spec

-----------------------------------------------------------------------------
(* The calls on a stack, as a set                                          *)

Frames(q) == {q[i] : i \in 1..Len(q)}

\* A step of thread t makes calls of the first set of others of the second.
OnStep(t, new, old) ==
    /\ \A u \in Threads \ {t} : Frames(stack'[u]) = Frames(stack[u])
    /\ Frames(stack'[t]) \subseteq Frames(stack[t]) \cup new /\ new \subseteq Frames(stack'[t])
    /\ Frames(stack[t]) \subseteq Frames(stack'[t]) \cup old

LEMMA OnFrames ==
  ASSUME TypeOK, NEW t \in Threads, NEW f \in Frames(stack[t])
  PROVE  f \in FrameSet /\ IsFrame(f)
  BY DEF TypeOK, Types, Stacked, Frames

LEMMA OnOthers ==
  ASSUME Types, NEW t, NEW n, NEW more, NEW f, Changes(t, n, more, f), NEW u \in Threads \ {t}
  PROVE  Frames(stack'[u]) = Frames(stack[u])
  BY DEF Changes, Frames

LEMMA OnPush ==
  ASSUME Types, NEW t \in Threads, NEW f, Pushed(t, f)
  PROVE  OnStep(t, {f}, {})
  <1>1. \A u \in Threads \ {t} : Frames(stack'[u]) = Frames(stack[u])
    BY OnOthers DEF Pushed
  <1>2. Frames(stack'[t]) \subseteq Frames(stack[t]) \cup {f}
    <2>1. \A i \in 1..Len(stack'[t]) : (i \in 1..Len(stack[t]) /\ stack'[t][i] = stack[t][i]) \/ stack'[t][i] = f
      BY AfterPush
    <2> QED
      BY <2>1 DEF Frames
  <1>3. {f} \subseteq Frames(stack'[t]) /\ Frames(stack[t]) \subseteq Frames(stack'[t])
    <2>1. /\ \A i \in 1..Len(stack[t]) : i \in 1..Len(stack'[t]) /\ stack'[t][i] = stack[t][i]
          /\ \E i \in 1..Len(stack'[t]) : stack'[t][i] = f
      BY StayPush, Zenon
    <2> QED
      BY <2>1 DEF Frames
  <1> QED
    BY <1>1, <1>2, <1>3 DEF OnStep

LEMMA TopOn ==
  ASSUME Types, Stacked, NEW t \in Threads, stack[t] # <<>>
  PROVE  Top(t) \in Frames(stack[t])
  BY TopIs DEF Frames

LEMMA OnTurn ==
  ASSUME Types, Stacked, NEW t \in Threads, NEW f, Turned(t, f)
  PROVE  OnStep(t, {f}, {Top(t)})
  <1>1. \A u \in Threads \ {t} : Frames(stack'[u]) = Frames(stack[u])
    BY OnOthers DEF Turned
  <1>2. Frames(stack'[t]) \subseteq Frames(stack[t]) \cup {f}
    <2>1. \A i \in 1..Len(stack'[t]) : (i \in 1..Len(stack[t]) /\ stack'[t][i] = stack[t][i]) \/ stack'[t][i] = f
      BY AfterTurn
    <2> QED
      BY <2>1 DEF Frames
  <1>3. {f} \subseteq Frames(stack'[t]) /\ Frames(stack[t]) \subseteq Frames(stack'[t]) \cup {Top(t)}
    <2>1. /\ \A i \in 1..Len(stack[t]) : i # Len(stack[t]) =>
               i \in 1..Len(stack'[t]) /\ stack'[t][i] = stack[t][i]
          /\ \E i \in 1..Len(stack'[t]) : stack'[t][i] = f
      BY StayTurn, Zenon
    <2>2. Top(t) = stack[t][Len(stack[t])]
      BY TopIs DEF Turned
    <2> QED
      BY <2>1, <2>2 DEF Frames
  <1> QED
    BY <1>1, <1>2, <1>3 DEF OnStep

LEMMA OnPop ==
  ASSUME Types, Stacked, NEW t \in Threads, stack[t] # <<>>, Popped(t, Len(stack[t]) - 1)
  PROVE  OnStep(t, {}, {Top(t)})
  <1>1. \A u \in Threads \ {t} : Frames(stack'[u]) = Frames(stack[u])
    BY OnOthers DEF Popped
  <1>2. PICK n : n = Len(stack[t]) - 1
    OBVIOUS
  <1>3. Popped(t, n)
    BY <1>2, Zenon
  <1>4. Frames(stack'[t]) \subseteq Frames(stack[t])
    <2>1. \A i \in 1..Len(stack'[t]) : i \in 1..Len(stack[t]) /\ stack'[t][i] = stack[t][i]
      BY <1>3, AfterPop
    <2> QED
      BY <2>1 DEF Frames
  <1>5. Frames(stack[t]) \subseteq Frames(stack'[t]) \cup {Top(t)}
    <2>1. \A i \in 1..Len(stack[t]) : i <= n => i \in 1..Len(stack'[t]) /\ stack'[t][i] = stack[t][i]
      BY <1>3, StayPop
    <2>2. Top(t) = stack[t][Len(stack[t])] /\ Len(stack[t]) \in Nat \ {0}
      BY TopIs
    <2>3. \A i \in 1..Len(stack[t]) : i <= n \/ i = Len(stack[t])
      BY <1>2, <2>2
    <2> QED
      BY <2>1, <2>2, <2>3 DEF Frames
  <1> QED
    BY <1>1, <1>4, <1>5 DEF OnStep

LEMMA OnClear ==
  ASSUME Types, NEW t \in Threads, Popped(t, 0)
  PROVE  Frames(stack'[t]) = {} /\ \A u \in Threads \ {t} : Frames(stack'[u]) = Frames(stack[u])
  <1>1. \A u \in Threads \ {t} : Frames(stack'[u]) = Frames(stack[u])
    BY OnOthers DEF Popped
  <1>2. Len(stack'[t]) = 0
    BY DEF Popped, Changes
  <1>3. 1..Len(stack'[t]) = {}
    BY <1>2
  <1>4. Frames(stack'[t]) = {}
    BY <1>3 DEF Frames
  <1> QED
    BY <1>1, <1>4

LEMMA OnSame == ASSUME UNCHANGED stack PROVE \A t \in Threads : Frames(stack'[t]) = Frames(stack[t])
  BY DEF Frames

LEMMA OnEnters ==
  ASSUME TypeOK, NEW t \in Threads, NEW f, Enters(t, f)
  PROVE  OnStep(t, {f}, {}) /\ Pushed(t, f)
  BY OnPush DEF Enters, Pushed, TypeOK

LEMMA OnReturns ==
  ASSUME TypeOK, NEW t \in Threads, Returns(t)
  PROVE  OnStep(t, {}, {Top(t)}) /\ Popped(t, Len(stack[t]) - 1)
  <1>1. stack[t] # <<>> /\ Popped(t, Len(stack[t]) - 1)
    BY Zenon DEF Returns, Popped
  <1> QED
    BY <1>1, OnPop DEF TypeOK

\* The call a step makes of the one on top.
TurnedAs(f, t, at, r, w) ==
    /\ f \in FrameSet /\ IsFrame(f) /\ f.call = Top(t).call /\ f.at = at /\ f.run = r /\ f.want = w
    /\ Turned(t, f) /\ OnStep(t, {f}, {Top(t)})

LEMMA TurnsAs ==
  ASSUME TypeOK, NEW t \in Threads, NEW at, NEW r, NEW w, Turns(t, at, r, w)
  PROVE  \E f : TurnedAs(f, t, at, r, w)
  <1>1. PICK f \in FrameSet : /\ f.call = Top(t).call /\ f.at = at /\ f.run = r /\ f.want = w /\ IsFrame(f)
                              /\ Turned(t, f)
    BY Zenon DEF Turns, Turned
  <1>2. OnStep(t, {f}, {Top(t)})
    BY <1>1, OnTurn DEF TypeOK
  <1> QED
    BY <1>1, <1>2, Zenon DEF TurnedAs

-----------------------------------------------------------------------------
(* The delivery of rows                                                    *)

\* A callback runs in the thread that owns the queue of its run, on a row
\* whose delivery has begun; log() waits for a row it committed.
InTurn ==
    \A t \in Threads : \A f \in Frames(stack[t]) :
        /\ f.call = "callback" => store[f.run].owner = t /\ f.want \in 1..store[f.run].begun
        /\ f.call = "log" /\ f.at = "drain" => f.want \in 1..store[f.run].committed

\* Whoever owns a queue is in a callback of the run.
Owned == \A r \in Runs, t \in Threads : store[r].owner = t => \E f \in Frames(stack[t]) : Calling(f, r)

\* A row whose delivery has begun is in the middle of it, or through.
Underway(r, k) == \E t \in Threads : \E f \in Frames(stack[t]) : Calling(f, r) /\ f.want = k
Delivered ==
    \A r \in Runs :
        /\ store[r].done \subseteq 1..store[r].begun
        /\ \A k \in 1..store[r].begun : k \in store[r].done \/ Underway(r, k)

Delivery == InTurn /\ Owned /\ Delivered

\* A step that neither begins a callback nor ends one.
Plain(t) ==
    /\ \A r \in Runs : SameDelivery(r) /\ store[r].committed <= store'[r].committed
    /\ \E new, old :
         /\ OnStep(t, new, old)
         /\ \A f \in new \cup old : f.call # "callback"
         /\ \A f \in new : f.call = "log" /\ f.at = "drain" =>
              f.want \in 1..store'[f.run].committed

LEMMA PlainDelivery ==
  ASSUME TypeOK, TypeOK', Delivery, NEW t \in Threads, Plain(t)
  PROVE  Delivery'
  <1>1. PICK new, old :
          /\ OnStep(t, new, old)
          /\ \A f \in new \cup old : f.call # "callback"
          /\ \A f \in new : f.call = "log" /\ f.at = "drain" => f.want \in 1..store'[f.run].committed
    BY DEF Plain
  <1>2. ASSUME NEW u \in Threads, NEW f, f \in Frames(stack'[u]) PROVE f \in Frames(stack[u]) \/ f \in new
    BY <1>1, <1>2 DEF OnStep
  <1>3. ASSUME NEW u \in Threads, NEW f \in Frames(stack[u]) PROVE f \in Frames(stack'[u]) \/ f \in old
    BY <1>1, <1>3 DEF OnStep
  <1>4. ASSUME NEW r \in Runs
        PROVE  /\ store'[r].begun = store[r].begun /\ store'[r].done = store[r].done
               /\ store'[r].owner = store[r].owner /\ store[r].committed <= store'[r].committed
               /\ store[r].committed \in Nat /\ store'[r].committed \in Nat
    BY <1>4 DEF Plain, SameDelivery, TypeOK, Types, StoreSet
  <1>5. ASSUME NEW u \in Threads, NEW f, f \in Frames(stack'[u]), f.call \in {"callback", "log"}
        PROVE  f.run \in Runs
    <2>1. f \in FrameSet /\ IsFrame(f)
      BY <1>5 DEF TypeOK, Types, Stacked, Frames
    <2> QED
      BY <1>5, <2>1, RunsAre DEF FrameSet, IsFrame
  <1>6. InTurn'
    <2>1. ASSUME NEW u \in Threads, NEW f, f \in Frames(stack'[u]), f.call = "callback"
          PROVE  store'[f.run].owner = u /\ f.want \in 1..store'[f.run].begun
      <3>1. f \in Frames(stack[u]) /\ f.run \in Runs
        BY <1>1, <1>2, <1>5, <2>1
      <3> QED
        BY <1>4, <2>1, <3>1 DEF Delivery, InTurn
    <2>2. ASSUME NEW u \in Threads, NEW f, f \in Frames(stack'[u]), f.call = "log", f.at = "drain"
          PROVE  f.want \in 1..store'[f.run].committed
      <3>1. CASE f \in new
        BY <1>1, <2>2, <3>1
      <3>2. CASE f \in Frames(stack[u])
        <4>1. f.run \in Runs /\ f.want \in 1..store[f.run].committed
          BY <1>5, <2>2, <3>2 DEF Delivery, InTurn
        <4> QED
          BY <1>4, <4>1
      <3> QED
        BY <1>2, <2>2, <3>1, <3>2
    <2> QED
      BY <2>1, <2>2 DEF InTurn
  <1>7. Owned'
    <2>1. ASSUME NEW r \in Runs, NEW u \in Threads, store'[r].owner = u
          PROVE  \E f \in Frames(stack'[u]) : Calling(f, r)
      <3>1. PICK f \in Frames(stack[u]) : Calling(f, r)
        BY <1>4, <2>1 DEF Delivery, Owned
      <3>2. f \in Frames(stack'[u])
        BY <1>1, <1>3, <3>1 DEF Calling
      <3> QED
        BY <3>1, <3>2
    <2> QED
      BY <2>1 DEF Owned, Calling
  <1>8. Delivered'
    <2>1. ASSUME NEW r \in Runs, NEW k \in 1..store[r].begun, k \notin store[r].done
          PROVE  Underway(r, k)'
      <3>1. PICK u \in Threads : \E f \in Frames(stack[u]) : Calling(f, r) /\ f.want = k
        BY <2>1 DEF Delivery, Delivered, Underway
      <3>2. PICK f \in Frames(stack[u]) : Calling(f, r) /\ f.want = k
        BY <3>1
      <3>3. f \in Frames(stack'[u])
        BY <1>1, <1>3, <3>2 DEF Calling
      <3> QED
        BY <3>2, <3>3 DEF Underway, Calling
    <2> QED
      BY <1>4, <2>1 DEF Delivered, Delivery
  <1> QED
    BY <1>6, <1>7, <1>8 DEF Delivery

LEMMA SameStoreRows ==
  ASSUME TypeOK, store' = store
  PROVE  \A r \in Runs : SameDelivery(r) /\ store[r].committed <= store'[r].committed
  BY DEF SameDelivery, TypeOK, Types, StoreSet

LEMMA OneStoreRows ==
  ASSUME TypeOK, NEW r, OnlyStore(r), SameDelivery(r), store[r].committed <= store'[r].committed
  PROVE  \A q \in Runs : SameDelivery(q) /\ store[q].committed <= store'[q].committed
  <1>1. ASSUME NEW q \in Runs, q # r PROVE store'[q] = store[q] /\ store[q].committed <= store[q].committed
    BY <1>1 DEF OnlyStore, TypeOK, Types, StoreSet
  <1> QED
    BY <1>1 DEF SameDelivery

LEMMA CommitsOpenRows ==
  ASSUME TypeOK, NEW r, CommitsOpen(r)
  PROVE  \A q \in Runs : SameDelivery(q) /\ store[q].committed <= store'[q].committed
  <1>1. OnlyStore(r) /\ SameDelivery(r) /\ r \in Runs
    BY DEF CommitsOpen, OnlyStore
  <1>2. store[r].committed <= store'[r].committed
    BY <1>1 DEF CommitsOpen, TypeOK, Types, StoreSet
  <1> QED
    BY <1>1, <1>2, OneStoreRows

LEMMA PlainPush ==
  ASSUME TypeOK, NEW t \in Threads, NEW f, Enters(t, f), f.at # "drain" \/ f.call # "log",
         \A q \in Runs : SameDelivery(q) /\ store[q].committed <= store'[q].committed
  PROVE  Plain(t)
  <1>1. OnStep(t, {f}, {}) /\ f.call # "callback"
    BY OnEnters DEF Enters
  <1> QED
    BY <1>1 DEF Plain

LEMMA PlainPop ==
  ASSUME TypeOK, NEW t \in Threads, stack[t] # <<>>, Popped(t, Len(stack[t]) - 1), Top(t).call # "callback",
         \A q \in Runs : SameDelivery(q) /\ store[q].committed <= store'[q].committed
  PROVE  Plain(t)
  <1>1. OnStep(t, {}, {Top(t)})
    BY OnPop DEF TypeOK
  <1> QED
    BY <1>1 DEF Plain

LEMMA PlainReturn ==
  ASSUME TypeOK, NEW t \in Threads, Returns(t), Top(t).call # "callback",
         \A q \in Runs : SameDelivery(q) /\ store[q].committed <= store'[q].committed
  PROVE  Plain(t)
  BY OnReturns, PlainPop DEF Returns

LEMMA PlainTurn ==
  ASSUME TypeOK, NEW t \in Threads, NEW at, NEW r, NEW w, Turns(t, at, r, w),
         \A q \in Runs : SameDelivery(q) /\ store[q].committed <= store'[q].committed
  PROVE  /\ Top(t).call # "callback"
         /\ Top(t).call = "log" => w \in 1..store'[r].committed
         => Plain(t)
  <1>1. PICK f : TurnedAs(f, t, at, r, w)
    BY TurnsAs
  <1> QED
    BY <1>1 DEF TurnedAs, Plain

LEMMA StepsPlain ==
  ASSUME TypeOK, NEW t \in Threads, NEW at, NEW next, StepsTo(t, at, next),
         \A q \in Runs : SameDelivery(q) /\ store[q].committed <= store'[q].committed
  PROVE  Plain(t)
  <1>1. Turns(t, next, Top(t).run, 0) /\ Top(t).call \notin {"callback", "log"}
    BY DEF StepsTo, Ends
  <1> QED
    BY <1>1, PlainTurn

\* Every other step.
Other(t) ==
    \/ Calls(t) \/ Admit(t) \/ Drained(t)
    \/ Elect(t) \/ Closing(t) \/ CommitOpen(t) \/ CloseWriter(t)
    \/ CloseSink(t) \/ Finished(t) \/ Awaited(t)
    \/ LockFinish(t) \/ LockInit(t) \/ Publish(t) \/ Rollback(t) \/ Abandon(t)

LEMMA OtherPlain ==
  ASSUME TypeOK, NEW t \in Threads, Other(t)
  PROVE  Plain(t)
  <1> DEFINE Rows == \A q \in Runs : SameDelivery(q) /\ store[q].committed <= store'[q].committed
  <1>1. store' = store => Rows
    BY SameStoreRows
  <1>2. ASSUME NEW r, OnlyStore(r), SameDelivery(r), SameRows(r)
        PROVE  Rows
    <2>1. store[r].committed <= store'[r].committed
      BY <1>2 DEF OnlyStore, SameRows, TypeOK, Types, StoreSet
    <2> QED
      BY <1>2, <2>1, OneStoreRows
  <1> HIDE DEF Rows
  <1>3. CASE Log(t)
    <2>1. PICK f : Enters(t, f) /\ f.at = "admit" /\ store' = store
      BY <1>3, LogIs, Zenon
    <2> QED
      BY <1>1, <2>1, PlainPush DEF Rows
  <1>4. CASE Flush(t)
    <2>1. PICK f : Enters(t, f) /\ f.call = "flush" /\ CommitsOpen(f.run)
      BY <1>4, FlushIs, Zenon
    <2>2. Rows
      BY <2>1, CommitsOpenRows DEF Rows
    <2> QED
      BY <2>1, <2>2, PlainPush DEF Rows
  <1>5. CASE RunFinish(t)
    <2>1. PICK f : Enters(t, f) /\ f.at = "elect" /\ store' = store
      BY <1>5, RunFinishIs, Zenon
    <2> QED
      BY <1>1, <2>1, PlainPush DEF Rows
  <1>6. CASE EtCall(t)
    <2>1. PICK f : Enters(t, f) /\ f.at = "lock" /\ store' = store
      BY <1>6, EtCallIs, Zenon
    <2> QED
      BY <1>1, <2>1, PlainPush DEF Rows
  <1>7. CASE Admit(t)
    <2>1. Stands(t, "admit") /\ Top(t).call = "log"
      BY <1>7, AdmitIs
    <2>2. CASE Returns(t) /\ store' = store
      BY <1>1, <2>1, <2>2, PlainReturn DEF Rows
    <2>3. PICK r : r = Top(t).run
      OBVIOUS
    <2>4. CASE /\ Returns(t) /\ OnlyStore(r) /\ SameDelivery(r)
               /\ store'[r].committed = store[r].committed
      <3>1. Rows
        <4>1. store[r].committed <= store'[r].committed
          BY <2>4 DEF OnlyStore, TypeOK, Types, StoreSet
        <4> QED
          BY <2>4, <4>1, OneStoreRows DEF Rows
      <3> QED
        BY <2>1, <2>4, <3>1, PlainReturn DEF Rows
    <2>5. CASE /\ Turns(t, "drain", r, store'[r].committed) /\ OnlyStore(r) /\ SameDelivery(r)
               /\ store'[r].committed = store[r].committed + 1
      <3>1. store[r].committed <= store'[r].committed /\ store'[r].committed \in 1..store'[r].committed
        BY <2>5 DEF OnlyStore, TypeOK, Types, StoreSet
      <3>2. Rows
        BY <2>5, <3>1, OneStoreRows DEF Rows
      <3> QED
        BY <2>1, <2>5, <3>1, <3>2, PlainTurn DEF Rows
    <2> QED
      BY <1>7, <2>2, <2>3, <2>4, <2>5, AdmitIs, Zenon
  <1>8. CASE Drained(t)
    <2>1. store' = store /\ ((Top(t).call \in {"log", "flush"} /\ Returns(t)) \/ StepsTo(t, "drain", "writer"))
      BY <1>8, DrainedIs
    <2> QED
      BY <1>1, <2>1, PlainReturn, StepsPlain DEF Rows
  <1>9. CASE Elect(t)
    <2>1. store' = store /\ \E next : StepsTo(t, "elect", next)
      BY <1>9, ElectIs
    <2> QED
      BY <1>1, <2>1, StepsPlain DEF Rows
  <1>10. CASE Closing(t)
    <2>1. StepsTo(t, "closing", "commit") /\ Rows
      BY <1>2, <1>10, ClosingIs
    <2> QED
      BY <2>1, StepsPlain DEF Rows
  <1>11. CASE CommitOpen(t)
    <2>1. StepsTo(t, "commit", "drain") /\ Rows
      BY <1>11, CommitOpenIs, CommitsOpenRows DEF Rows
    <2> QED
      BY <2>1, StepsPlain DEF Rows
  <1>12. CASE CloseWriter(t)
    <2>1. StepsTo(t, "writer", "summary") /\ Rows
      BY <1>2, <1>12, CloseWriterIs
    <2> QED
      BY <2>1, StepsPlain DEF Rows
  <1>13. CASE CloseSink(t)
    <2>1. store' = store /\ \E at, next : StepsTo(t, at, next)
      BY <1>13, CloseSinkIs
    <2> QED
      BY <1>1, <2>1, StepsPlain DEF Rows
  <1>14. CASE Finished(t)
    <2>1. Returns(t) /\ Ends(Top(t)) /\ store' = store
      BY <1>14, FinishedIs
    <2> QED
      BY <1>1, <2>1, PlainReturn DEF Rows, Ends
  <1>15. CASE Awaited(t)
    <2>1. Returns(t) /\ Ends(Top(t)) /\ store' = store
      BY <1>15, AwaitedIs
    <2> QED
      BY <1>1, <2>1, PlainReturn DEF Rows, Ends
  <1>16. CASE LockFinish(t)
    <2>1. Top(t).call = "et.finish" /\ store' = store /\ (Returns(t) \/ Turns(t, "elect", current, 0))
      BY <1>16, LockFinishIs
    <2> QED
      BY <1>1, <2>1, PlainReturn, PlainTurn DEF Rows
  <1>17. CASE LockInit(t)
    <2>1. Top(t).call = "et.init" /\ Rows /\ (Returns(t) \/ Turns(t, "build", built', 0))
      BY <1>1, <1>2, <1>17, LockInitIs
    <2> QED
      BY <2>1, PlainReturn, PlainTurn DEF Rows
  <1>18. CASE Publish(t)
    <2>1. Top(t).call = "et.init" /\ stack[t] # <<>> /\ store' = store /\ Popped(t, Len(stack[t]) - 1)
      BY <1>18, PublishIs DEF Stands, Popped
    <2> QED
      BY <1>1, <2>1, PlainPop DEF Rows
  <1>19. CASE Rollback(t)
    <2>1. Top(t).call = "et.init" /\ Returns(t) /\ Rows
      BY <1>2, <1>19, RollbackIs
    <2> QED
      BY <2>1, PlainReturn DEF Rows
  <1>20. CASE Abandon(t)
    <2>1. Top(t).call = "et.init" /\ Returns(t) /\ Rows
      BY <1>1, <1>20, AbandonIs
    <2> QED
      BY <2>1, PlainReturn DEF Rows
  <1> QED
    BY <1>3, <1>4, <1>5, <1>6, <1>7, <1>8, <1>9, <1>10, <1>11, <1>12, <1>13, <1>14, <1>15,
       <1>16, <1>17, <1>18, <1>19, <1>20 DEF Other, Calls

LEMMA TakeDelivery ==
  ASSUME TypeOK, TypeOK', Delivery, NEW t \in Threads, Take(t)
  PROVE  Delivery'
  <1>1. PICK r \in Runs : r = Top(t).run
    BY TakeIs DEF Stands
  <1>2. /\ store[r].owner \in {t, NoOne} /\ OnlyStore(r) /\ SameRows(r)
        /\ store'[r].owner = t /\ store'[r].done = store[r].done
        /\ store'[r].begun = store[r].begun + 1 /\ stack[t] # <<>>
    BY <1>1, TakeIs DEF Stands
  <1>3. PICK c : /\ Pushed(t, c) /\ IsFrame(c) /\ Calling(c, r) /\ c.want = store'[r].begun
    BY <1>1, TakeIs DEF Pushed
  <1>4. /\ \A u \in Threads \ {t} : Frames(stack'[u]) = Frames(stack[u])
        /\ Frames(stack'[t]) = Frames(stack[t]) \cup {c}
    BY <1>3, OnPush DEF OnStep, TypeOK
  <1>5. PICK n \in Nat : n = store[r].begun
    BY DEF TypeOK, Types, StoreSet
  <1>6. store'[r].begun = n + 1 /\ 1..(n + 1) = 1..n \cup {n + 1} /\ n + 1 \in 1..(n + 1)
    BY <1>2, <1>5
  <1>7. \A q \in Runs \ {r} : store'[q] = store[q]
    BY <1>2 DEF OnlyStore
  <1>8. \A u \in Threads : \A f \in Frames(stack[u]) : f.call = "callback" => f.run \in Runs
    <2>1. ASSUME NEW u \in Threads, NEW f \in Frames(stack[u]), f.call = "callback"
          PROVE  f.run \in Runs
      <3>1. f \in FrameSet /\ IsFrame(f)
        BY <2>1, OnFrames
      <3> QED
        BY <2>1, <3>1, RunsAre DEF FrameSet, IsFrame
    <2> QED
      BY <2>1
  <1>9. InTurn'
    <2>1. ASSUME NEW u \in Threads, NEW f \in Frames(stack'[u]), f.call = "callback"
          PROVE  store'[f.run].owner = u /\ f.want \in 1..store'[f.run].begun
      <3>1. CASE u = t /\ f = c
        BY <1>2, <1>3, <1>6, <3>1 DEF Calling
      <3>2. CASE f \in Frames(stack[u])
        <4>1. store[f.run].owner = u /\ f.want \in 1..store[f.run].begun
          BY <2>1, <3>2 DEF Delivery, InTurn
        <4>2. CASE f.run = r
          <5>1. u = t
            BY <1>2, <4>1, <4>2, LifecycleAssumption
          <5> QED
            BY <1>2, <1>5, <1>6, <4>1, <4>2, <5>1
        <4>3. CASE f.run # r
          BY <1>7, <1>8, <2>1, <3>2, <4>1, <4>3
        <4> QED
          BY <4>2, <4>3
      <3> QED
        BY <1>4, <2>1, <3>1, <3>2
    <2>2. ASSUME NEW u \in Threads, NEW f \in Frames(stack'[u]), f.call = "log", f.at = "drain"
          PROVE  f.want \in 1..store'[f.run].committed
      <3>1. f \in Frames(stack[u])
        BY <1>3, <1>4, <2>2 DEF Calling
      <3>2. f.want \in 1..store[f.run].committed
        BY <2>2, <3>1 DEF Delivery, InTurn
      <3>3. f.run \in Runs
        <4>1. f \in FrameSet /\ IsFrame(f)
          BY <3>1, OnFrames
        <4> QED
          BY <2>2, <4>1, RunsAre DEF FrameSet, IsFrame
      <3> QED
        BY <1>2, <1>7, <3>2, <3>3 DEF SameRows
    <2> QED
      BY <2>1, <2>2 DEF InTurn
  <1>10. Owned'
    <2>1. ASSUME NEW q \in Runs, NEW u \in Threads, store'[q].owner = u
          PROVE  \E f \in Frames(stack'[u]) : Calling(f, q)
      <3>1. CASE q = r
        BY <1>2, <1>3, <1>4, <2>1, <3>1
      <3>2. CASE q # r
        BY <1>4, <1>7, <2>1, <3>2 DEF Delivery, Owned
      <3> QED
        BY <3>1, <3>2
    <2> QED
      BY <2>1 DEF Owned, Calling
  <1>11. \A q \in Runs : \A k : Underway(q, k) => Underway(q, k)'
    BY <1>4 DEF Underway, Calling
  <1>12. Underway(r, n + 1)'
    BY <1>3, <1>4, <1>6 DEF Underway, Calling
  <1>13. Delivered'
    <2>1. ASSUME NEW q \in Runs
          PROVE  /\ store'[q].done \subseteq 1..store'[q].begun
                 /\ \A k \in 1..store'[q].begun : k \in store'[q].done \/ Underway(q, k)'
      <3>1. CASE q = r
        BY <1>2, <1>5, <1>6, <1>11, <1>12, <3>1 DEF Delivery, Delivered
      <3>2. CASE q # r
        BY <1>7, <1>11, <3>2 DEF Delivery, Delivered
      <3> QED
        BY <3>1, <3>2
    <2> QED
      BY <2>1 DEF Delivered, Underway
  <1> QED
    BY <1>9, <1>10, <1>13 DEF Delivery

LEMMA EndCallbackDelivery ==
  ASSUME TypeOK, TypeOK', Delivery, NEW t \in Threads, EndCallback(t)
  PROVE  Delivery'
  <1>1. PICK c : c = Top(t)
    OBVIOUS
  <1>2. PICK r \in Runs : r = c.run
    BY <1>1, EndCallbackIs DEF Stands
  <1> DEFINE nested == \E i \in 1..(Len(stack[t]) - 1) : Calling(stack[t][i], r)
  <1>3. /\ OnlyStore(r) /\ SameRows(r) /\ store'[r].begun = store[r].begun
        /\ store'[r].done = store[r].done \cup {c.want}
        /\ store'[r].owner = IF nested THEN t ELSE NoOne
        /\ stack[t] # <<>> /\ Returns(t) /\ Calling(c, r)
    BY <1>1, <1>2, EndCallbackIs DEF Stands, Calling
  <1> HIDE DEF nested
  <1>4. OnStep(t, {}, {c}) /\ Popped(t, Len(stack[t]) - 1)
    BY <1>1, <1>3, OnReturns
  <1>5. c \in Frames(stack[t])
    BY <1>1, <1>3, TopOn DEF TypeOK
  <1>6. store[r].owner = t /\ c.want \in 1..store[r].begun
    BY <1>2, <1>3, <1>5 DEF Delivery, InTurn, Calling
  <1>7. \A q \in Runs \ {r} : store'[q] = store[q]
    BY <1>3 DEF OnlyStore
  <1>8. ASSUME NEW u \in Threads, NEW f \in Frames(stack'[u])
        PROVE  f \in Frames(stack[u])
    BY <1>4 DEF OnStep
  <1>9. ASSUME NEW u \in Threads, NEW f \in Frames(stack[u]), f # c
        PROVE  f \in Frames(stack'[u])
    BY <1>4, <1>9 DEF OnStep
  <1>10. (\E f \in Frames(stack'[t]) : Calling(f, r)) <=> nested
    <2>1. PICK n : n = Len(stack[t]) - 1
      OBVIOUS
    <2>2. Popped(t, n) /\ Types /\ Len(stack[t]) \in Nat
      <3>1. Popped(t, n)
        BY <1>4, <2>1, Zenon
      <3> QED
        BY <3>1, InStack DEF TypeOK
    <2>3. \A i \in 1..Len(stack'[t]) : i \in 1..Len(stack[t]) /\ stack'[t][i] = stack[t][i] /\ i <= n
      BY <2>2, AfterPop
    <2>4. \A i \in 1..Len(stack[t]) : i <= n => i \in 1..Len(stack'[t]) /\ stack'[t][i] = stack[t][i]
      BY <2>2, StayPop
    <2>5. \A i \in 1..n : i <= n /\ i \in 1..Len(stack[t])
      BY <2>1, <2>2
    <2>6. \A i \in 1..Len(stack[t]) : i <= n => i \in 1..n
      BY <2>1, <2>2
    <2>7. ASSUME NEW f \in Frames(stack'[t]), Calling(f, r) PROVE nested
      <3>1. PICK i \in 1..Len(stack'[t]) : f = stack'[t][i]
        BY <2>7 DEF Frames
      <3>2. i \in 1..n /\ stack[t][i] = f
        BY <2>3, <2>6, <3>1
      <3> QED
        BY <2>1, <2>7, <3>2 DEF nested
    <2>8. ASSUME nested PROVE \E f \in Frames(stack'[t]) : Calling(f, r)
      <3>1. PICK i \in 1..n : Calling(stack[t][i], r)
        BY <2>1, <2>8 DEF nested
      <3>2. i \in 1..Len(stack'[t]) /\ stack'[t][i] = stack[t][i]
        BY <2>4, <2>5
      <3>3. stack[t][i] \in Frames(stack'[t])
        BY <3>2 DEF Frames
      <3> QED
        BY <3>1, <3>3
    <2> QED
      BY <2>7, <2>8
  <1>11. \A u \in Threads : \A f \in Frames(stack[u]) : f.call \in {"callback", "log"} => f.run \in Runs
    <2>1. ASSUME NEW u \in Threads, NEW f \in Frames(stack[u]), f.call \in {"callback", "log"}
          PROVE  f.run \in Runs
      <3>1. f \in FrameSet /\ IsFrame(f)
        BY <2>1, OnFrames
      <3> QED
        BY <2>1, <3>1, RunsAre DEF FrameSet, IsFrame
    <2> QED
      BY <2>1
  <1>12. InTurn'
    <2>1. ASSUME NEW u \in Threads, NEW f \in Frames(stack'[u]), f.call = "callback"
          PROVE  store'[f.run].owner = u /\ f.want \in 1..store'[f.run].begun
      <3>1. f \in Frames(stack[u])
        BY <1>8
      <3>2. store[f.run].owner = u /\ f.want \in 1..store[f.run].begun /\ f.run \in Runs
        BY <1>11, <2>1, <3>1 DEF Delivery, InTurn
      <3>3. CASE f.run = r
        <4>1. u = t
          BY <1>6, <3>2, <3>3
        <4>2. nested
          BY <1>10, <2>1, <3>3, <4>1 DEF Calling
        <4> QED
          BY <1>3, <3>2, <3>3, <4>1, <4>2
      <3>4. CASE f.run # r
        BY <1>7, <3>2, <3>4
      <3> QED
        BY <3>3, <3>4
    <2>2. ASSUME NEW u \in Threads, NEW f \in Frames(stack'[u]), f.call = "log", f.at = "drain"
          PROVE  f.want \in 1..store'[f.run].committed
      <3>1. f.want \in 1..store[f.run].committed /\ f.run \in Runs
        BY <1>8, <1>11, <2>2 DEF Delivery, InTurn
      <3> QED
        BY <1>3, <1>7, <3>1 DEF SameRows
    <2> QED
      BY <2>1, <2>2 DEF InTurn
  <1>13. Owned'
    <2>1. ASSUME NEW q \in Runs, NEW u \in Threads, store'[q].owner = u
          PROVE  \E f \in Frames(stack'[u]) : Calling(f, q)
      <3>1. CASE q = r
        <4>1. nested /\ u = t
          BY <1>3, <2>1, <3>1, LifecycleAssumption
        <4> QED
          BY <1>10, <3>1, <4>1
      <3>2. CASE q # r
        <4>1. PICK f \in Frames(stack[u]) : Calling(f, q)
          BY <1>7, <2>1, <3>2 DEF Delivery, Owned
        <4>2. f # c
          BY <1>3, <3>2, <4>1 DEF Calling
        <4> QED
          BY <1>9, <4>1, <4>2
      <3> QED
        BY <3>1, <3>2
    <2> QED
      BY <2>1 DEF Owned, Calling
  <1>14. Delivered'
    <2>1. ASSUME NEW q \in Runs
          PROVE  /\ store'[q].done \subseteq 1..store'[q].begun
                 /\ store'[q].begun = store[q].begun
                 /\ store[q].done \subseteq store'[q].done /\ (q = r => c.want \in store'[q].done)
      <3>1. CASE q = r
        BY <1>3, <1>6, <3>1 DEF Delivery, Delivered
      <3>2. CASE q # r
        BY <1>7, <3>2 DEF Delivery, Delivered
      <3> QED
        BY <3>1, <3>2
    <2>2. ASSUME NEW q \in Runs, NEW k \in 1..store'[q].begun, k \notin store'[q].done
          PROVE  Underway(q, k)'
      <3>1. Underway(q, k)
        BY <2>1, <2>2 DEF Delivery, Delivered
      <3>2. PICK u \in Threads : \E f \in Frames(stack[u]) : Calling(f, q) /\ f.want = k
        BY <3>1 DEF Underway
      <3>3. PICK f \in Frames(stack[u]) : Calling(f, q) /\ f.want = k
        BY <3>2
      <3>4. f # c
        BY <1>2, <2>1, <2>2, <3>3 DEF Calling
      <3>5. f \in Frames(stack'[u])
        BY <1>9, <3>4
      <3> QED
        BY <3>3, <3>5 DEF Underway, Calling
    <2> QED
      BY <2>1, <2>2 DEF Delivered
  <1> QED
    BY <1>12, <1>13, <1>14 DEF Delivery

LEMMA CutDelivery ==
  ASSUME TypeOK, TypeOK', Delivery, NEW t \in Threads, Cut(t)
  PROVE  Delivery'
  <1>1. Dropped(t)
    BY UnwindIs
  <1>2. Frames(stack'[t]) = {} /\ \A u \in Threads \ {t} : Frames(stack'[u]) = Frames(stack[u])
    BY <1>1, OnClear DEF Dropped, Popped, TypeOK
  <1>3. ASSUME NEW r \in Runs
        PROVE  /\ store'[r].committed = store[r].committed /\ store'[r].begun = store[r].begun
               /\ store'[r].owner = IF store[r].owner = t THEN NoOne ELSE store[r].owner
               /\ store'[r].done = IF store[r].owner = t THEN store[r].done \cup Held(t, r)
                                   ELSE store[r].done
    BY <1>1 DEF Dropped, SameRows
  <1>4. \A r, k : k \in Held(t, r) <=>
               k \in Nat /\ \E f \in Frames(stack[t]) : Calling(f, r) /\ f.want = k
    BY DEF Held, Frames
  <1>5. \A u \in Threads : \A f \in Frames(stack[u]) : f.call \in {"callback", "log"} => f.run \in Runs
    <2>1. ASSUME NEW u \in Threads, NEW f \in Frames(stack[u]), f.call \in {"callback", "log"}
          PROVE  f.run \in Runs
      <3>1. f \in FrameSet /\ IsFrame(f)
        BY <2>1, OnFrames
      <3> QED
        BY <2>1, <3>1, RunsAre DEF FrameSet, IsFrame
    <2> QED
      BY <2>1
  <1>6. InTurn'
    <2>1. ASSUME NEW u \in Threads, NEW f \in Frames(stack'[u])
          PROVE  /\ f.call = "callback" => store'[f.run].owner = u /\ f.want \in 1..store'[f.run].begun
                 /\ f.call = "log" /\ f.at = "drain" => f.want \in 1..store'[f.run].committed
      <3>1. u # t /\ f \in Frames(stack[u])
        BY <1>2, <2>1
      <3>2. /\ f.call = "callback" => store[f.run].owner = u /\ f.want \in 1..store[f.run].begun
            /\ f.call = "log" /\ f.at = "drain" => f.want \in 1..store[f.run].committed
        BY <3>1 DEF Delivery, InTurn
      <3> QED
        BY <1>3, <1>5, <3>1, <3>2
    <2> QED
      BY <2>1 DEF InTurn
  <1>7. Owned'
    <2>1. ASSUME NEW q \in Runs, NEW u \in Threads, store'[q].owner = u
          PROVE  \E f \in Frames(stack'[u]) : Calling(f, q)
      <3>1. u # t /\ store[q].owner = u
        BY <1>3, <2>1, LifecycleAssumption
      <3> QED
        BY <1>2, <3>1 DEF Delivery, Owned
    <2> QED
      BY <2>1 DEF Owned, Calling
  <1>8. Delivered'
    <2>1. ASSUME NEW q \in Runs PROVE store'[q].done \subseteq 1..store'[q].begun
      <3>1. Held(t, q) \subseteq 1..store[q].begun
        <4>1. ASSUME NEW k \in Held(t, q) PROVE k \in 1..store[q].begun
          <5>1. PICK f \in Frames(stack[t]) : Calling(f, q) /\ f.want = k
            BY <1>4, <4>1
          <5> QED
            BY <5>1 DEF Delivery, InTurn, Calling
        <4> QED
          BY <4>1
      <3> QED
        BY <1>3, <3>1 DEF Delivery, Delivered
    <2>2. ASSUME NEW q \in Runs, NEW k \in 1..store'[q].begun, k \notin store'[q].done
          PROVE  Underway(q, k)'
      <3>1. k \notin store[q].done /\ k \in 1..store[q].begun
        BY <1>3, <2>2
      <3>2. PICK u \in Threads : \E f \in Frames(stack[u]) : Calling(f, q) /\ f.want = k
        BY <3>1 DEF Delivery, Delivered, Underway
      <3>3. PICK f \in Frames(stack[u]) : Calling(f, q) /\ f.want = k
        BY <3>2
      <3>4. u # t
        <4>1. ASSUME u = t PROVE FALSE
          <5>1. store[q].owner = t
            BY <3>3, <4>1 DEF Delivery, InTurn, Calling
          <5>2. k \in Nat
            BY <3>1
          <5>3. k \in Held(t, q)
            BY <1>4, <3>3, <4>1, <5>2
          <5> QED
            BY <1>3, <2>2, <5>1, <5>3
        <4> QED
          BY <4>1
      <3>5. f \in Frames(stack'[u])
        BY <1>2, <3>3, <3>4
      <3> QED
        BY <3>3, <3>5 DEF Underway, Calling
    <2> QED
      BY <2>1, <2>2 DEF Delivered
  <1> QED
    BY <1>6, <1>7, <1>8 DEF Delivery

LEMMA InitDelivery ==
  ASSUME Init
  PROVE  Delivery
  <1>1. \A t \in Threads : Frames(stack[t]) = {}
    <2>1. ASSUME NEW t \in Threads PROVE Frames(stack[t]) = {}
      <3>1. stack[t] = <<>> /\ 1..Len(<<>>) = {}
        BY DEF Init
      <3> QED
        BY <3>1, Zenon DEF Frames
    <2> QED
      BY <2>1
  <1>2. \A r \in Runs : store[r] = NewStore
    BY DEF Init
  <1>3. NewStore.begun = 0 /\ NewStore.done = {} /\ NewStore.owner = NoOne
    BY DEF NewStore
  <1>4. InTurn
    BY <1>1 DEF InTurn
  <1>5. Owned
    BY <1>2, <1>3, LifecycleAssumption DEF Owned
  <1>6. Delivered
    <2>1. 1..0 = {}
      OBVIOUS
    <2> QED
      BY <1>2, <1>3, <2>1 DEF Delivered
  <1> QED
    BY <1>4, <1>5, <1>6 DEF Delivery

LEMMA NextDelivery ==
  ASSUME TypeOK, TypeOK', Delivery, [Next]_vars
  PROVE  Delivery'
  <1>1. CASE UNCHANGED vars
    BY <1>1 DEF vars, Delivery, InTurn, Owned, Delivered, Underway
  <1>2. ASSUME NEW t \in Threads, Other(t) PROVE Delivery'
    BY <1>2, OtherPlain, PlainDelivery
  <1>3. ASSUME NEW t \in Threads, Take(t) PROVE Delivery'
    BY <1>3, TakeDelivery
  <1>4. ASSUME NEW t \in Threads, EndCallback(t) PROVE Delivery'
    BY <1>4, EndCallbackDelivery
  <1>5. ASSUME NEW t \in Threads, Cut(t) PROVE Delivery'
    BY <1>5, CutDelivery
  <1> QED
    BY <1>1, <1>2, <1>3, <1>4, <1>5, Zenon DEF Next, Rest, Advance, Other

-----------------------------------------------------------------------------
(* What is finished stays finished                                         *)

\* Everything is delivered, and nothing is left to deliver.
Still(s) == /\ s.closed /\ ~s.open /\ s.owner = NoOne
            /\ s.done = 1..s.committed /\ s.begun = s.committed

\* A closed store is not written to again, a settled one not touched; and no
\* step opens a writer but the construction of a run.
Kept(r) ==
    /\ store[r].closed => store'[r].closed /\ (~store[r].open => ~store'[r].open)
    /\ Still(store[r]) => Still(store'[r])
    /\ store[r].writer = "closed" => store'[r].writer = "closed" \/ (built' = built + 1 /\ r = built')

LEMMA KeptSame ==
  ASSUME NEW r, store'[r] = store[r]
  PROVE  Kept(r)
  BY DEF Kept, Still

\* A step that writes no more of one run than it had written, and nothing of the others.
LEMMA KeptOne ==
  ASSUME NEW r \in Runs, OnlyStore(r), SameRows(r), SameDelivery(r),
         store[r].closed => store'[r].closed,
         store[r].writer = "closed" => store'[r].writer = "closed" \/ (built' = built + 1 /\ r = built')
  PROVE  \A q \in Runs : Kept(q)
  <1>1. ASSUME NEW q \in Runs, q # r PROVE Kept(q)
    BY <1>1, KeptSame DEF OnlyStore
  <1>2. Kept(r)
    BY DEF Kept, Still, SameRows, SameDelivery
  <1> QED
    BY <1>1, <1>2

LEMMA KeptCommit ==
  ASSUME NEW r \in Runs, CommitsOpen(r)
  PROVE  \A q \in Runs : Kept(q)
  <1>1. ASSUME NEW q \in Runs, q # r PROVE Kept(q)
    BY <1>1, KeptSame DEF OnlyStore, CommitsOpen
  <1>2. Kept(r)
    BY DEF Kept, Still, CommitsOpen, SameEnd, SameDelivery
  <1> QED
    BY <1>1, <1>2

LEMMA KeptAdmit ==
  ASSUME TypeOK, NEW t \in Threads, Admit(t)
  PROVE  \A q \in Runs : Kept(q)
  <1>1. CASE store' = store
    BY <1>1, KeptSame
  <1>2. CASE store' # store
    <2>1. PICK r \in Runs : r = Top(t).run
      BY AdmitIs DEF Stands
    <2>2. ~store[r].closed /\ OnlyStore(r) /\ SameEnd(r)
      BY <1>2, <2>1, AdmitIs
    <2>3. ASSUME NEW q \in Runs, q # r PROVE Kept(q)
      BY <2>2, <2>3, KeptSame DEF OnlyStore
    <2>4. Kept(r)
      BY <2>2 DEF Kept, Still, SameEnd
    <2> QED
      BY <2>3, <2>4
  <1> QED
    BY <1>1, <1>2

LEMMA KeptTake ==
  ASSUME TypeOK, Delivery, NEW t \in Threads, Take(t)
  PROVE  \A q \in Runs : Kept(q)
  <1>1. PICK f : f = Top(t)
    OBVIOUS
  <1>2. PICK r \in Runs : r = f.run
    BY <1>1, TakeIs DEF Stands
  <1>3. /\ ~Satisfied(t) /\ OnlyStore(r) /\ SameEnd(r) /\ SameRows(r)
        /\ stack[t] # <<>> /\ f.at = "drain" /\ IsFrame(f)
    BY <1>1, <1>2, TakeIs DEF Stands
  <1>4. ~Still(store[r])
    <2>1. SUFFICES ASSUME Still(store[r]) PROVE FALSE
      OBVIOUS
    <2>2. CASE f.want # 0
      <3>1. f.call = "log"
        BY <1>3, <2>2 DEF IsFrame
      <3>2. f \in Frames(stack[t])
        BY <1>1, <1>3, TopOn DEF TypeOK
      <3>3. f.want \in 1..store[r].committed
        BY <1>2, <1>3, <3>1, <3>2 DEF Delivery, InTurn
      <3> QED
        BY <1>1, <1>2, <1>3, <2>1, <2>2, <3>3 DEF Still, Satisfied
    <2>3. CASE f.want = 0
      BY <1>1, <1>2, <1>3, <2>1, <2>3 DEF Still, Satisfied
    <2> QED
      BY <2>2, <2>3
  <1>5. ASSUME NEW q \in Runs, q # r PROVE Kept(q)
    BY <1>3, <1>5, KeptSame DEF OnlyStore
  <1>6. Kept(r)
    BY <1>3, <1>4 DEF Kept, SameEnd, SameRows
  <1> QED
    BY <1>5, <1>6

LEMMA KeptEndCallback ==
  ASSUME TypeOK, Delivery, NEW t \in Threads, EndCallback(t)
  PROVE  \A q \in Runs : Kept(q)
  <1>1. PICK f : f = Top(t)
    OBVIOUS
  <1>2. PICK r \in Runs : r = f.run
    BY <1>1, EndCallbackIs DEF Stands
  <1>3. /\ OnlyStore(r) /\ SameEnd(r) /\ SameRows(r)
        /\ stack[t] # <<>> /\ f.call = "callback"
    BY <1>1, <1>2, EndCallbackIs DEF Stands
  <1>4. ~Still(store[r])
    <2>1. f \in Frames(stack[t])
      BY <1>1, <1>3, TopOn DEF TypeOK
    <2>2. store[r].owner = t
      BY <1>2, <1>3, <2>1 DEF Delivery, InTurn
    <2> QED
      BY <2>2, LifecycleAssumption DEF Still
  <1>5. ASSUME NEW q \in Runs, q # r PROVE Kept(q)
    BY <1>3, <1>5, KeptSame DEF OnlyStore
  <1>6. Kept(r)
    BY <1>3, <1>4 DEF Kept, SameEnd, SameRows
  <1> QED
    BY <1>5, <1>6

LEMMA KeptCut ==
  ASSUME TypeOK, NEW t \in Threads, Cut(t)
  PROVE  \A q \in Runs : Kept(q)
  <1>1. Dropped(t)
    BY UnwindIs
  <1>2. ASSUME NEW r \in Runs PROVE Kept(r)
    <2>1. /\ SameEnd(r) /\ SameRows(r) /\ store'[r].begun = store[r].begun
          /\ store[r].owner = NoOne => store'[r].owner = NoOne /\ store'[r].done = store[r].done
      <3>1. /\ SameEnd(r) /\ SameRows(r) /\ store'[r].begun = store[r].begun
            /\ store'[r].owner = IF store[r].owner = t THEN NoOne ELSE store[r].owner
            /\ store'[r].done = IF store[r].owner = t THEN store[r].done \cup Held(t, r)
                                ELSE store[r].done
        BY <1>1 DEF Dropped
      <3> QED
        BY <3>1, LifecycleAssumption
    <2> QED
      BY <2>1 DEF Kept, Still, SameEnd, SameRows
  <1> QED
    BY <1>2

LEMMA StoreKept ==
  ASSUME TypeOK, Delivery, NEW t \in Threads, Calls(t) \/ Advance(t) \/ Cut(t)
  PROVE  \A q \in Runs : Kept(q)
  <1>1. store' = store => \A q \in Runs : Kept(q)
    BY KeptSame
  <1>2. CASE Calls(t)
    <2>1. CASE Flush(t)
      <3>1. PICK f : CommitsOpen(f.run)
        BY <2>1, FlushIs
      <3> QED
        BY <3>1, KeptCommit DEF CommitsOpen, OnlyStore
    <2>2. CASE ~Flush(t)
      BY <1>1, <1>2, <2>2, LogIs, RunFinishIs, EtCallIs DEF Calls
    <2> QED
      BY <2>1, <2>2
  <1>3. CASE \/ Elect(t) \/ CloseSink(t) \/ Finished(t) \/ Awaited(t) \/ Drained(t)
             \/ LockFinish(t) \/ Publish(t) \/ Abandon(t)
    BY <1>1, <1>3, ElectIs, CloseSinkIs, FinishedIs, AwaitedIs, DrainedIs,
       LockFinishIs, PublishIs, AbandonIs
  <1>4. CASE Closing(t)
    BY <1>4, ClosingIs, KeptOne DEF OnlyStore
  <1>5. CASE CommitOpen(t)
    BY <1>5, CommitOpenIs, KeptCommit DEF CommitsOpen, OnlyStore
  <1>6. CASE CloseWriter(t)
    BY <1>6, CloseWriterIs, KeptOne DEF OnlyStore
  <1>7. CASE Rollback(t)
    BY <1>7, RollbackIs, KeptOne DEF OnlyStore
  <1>8. CASE LockInit(t)
    <2>1. CASE store' = store
      BY <1>1, <2>1
    <2>2. CASE store' # store
      <3>1. /\ built' = built + 1 /\ built' \in Runs /\ OnlyStore(built') /\ SameRows(built') /\ SameDelivery(built')
            /\ store'[built'].closed = store[built'].closed
        BY <1>8, <2>2, LockInitIs
      <3>2. PICK r \in Runs : r = built'
        BY <3>1
      <3> QED
        BY <3>1, <3>2, KeptOne
    <2> QED
      BY <2>1, <2>2
  <1>9. CASE Admit(t) \/ Take(t) \/ EndCallback(t) \/ Cut(t)
    BY <1>9, KeptAdmit, KeptTake, KeptEndCallback, KeptCut
  <1> QED
    BY <1>2, <1>3, <1>4, <1>5, <1>6, <1>7, <1>8, <1>9 DEF Advance

-----------------------------------------------------------------------------
(* Who finishes a run                                                      *)

Leads(f) == Ends(f) /\ f.at \in LeadAts

\* How far the leader at a step has brought a run.
LeadIs(t, at, s, d) ==
    /\ d.owner = t /\ ~d.done
    /\ at # "closing" => s.closed
    /\ at \notin {"closing", "commit"} => ~s.open
    /\ at \notin {"closing", "commit", "drain"} => Still(s)
    /\ at \notin {"closing", "commit", "drain", "writer"} => s.writer = "closed"
    /\ at \in {"alerts", "backends", "done"} => "summary" \in d.sinks
    /\ at \in {"backends", "done"} => "alerts" \in d.sinks
    /\ at = "done" => "backends" \in d.sinks

BookIs(s, d) ==
    /\ d.sinks # {} => Still(s) /\ s.writer = "closed"
    /\ d.done /\ ~d.error => d.sinks = Sinks
    /\ d.error => d.done
    /\ d.owner = NoOne => ~d.done /\ d.sinks = {}

\* No callback of a run is under a call that leads its shutdown.
BeneathIn(q) ==
    \A i, j \in 1..Len(q) : i < j => ~(Leads(q[j]) /\ Calling(q[i], q[j].run))

Beneath == \A t \in Threads : BeneathIn(stack[t])

Leading ==
    \A t \in Threads : \A f \in Frames(stack[t]) :
        Leads(f) => LeadIs(t, f.at, store[f.run], shutdown[f.run])

Led ==
    \A r \in Runs, t \in Threads : shutdown[r].owner = t /\ ~shutdown[r].done =>
        \E f \in Frames(stack[t]) : Leads(f) /\ f.run = r

Numbered ==
    /\ current <= built
    /\ \A t \in Threads : \A f \in Frames(stack[t]) : f.run <= built
    /\ \A r \in Runs : r > built => shutdown[r].owner = NoOne

Books ==
    \A r \in Runs :
        /\ BookIs(store[r], shutdown[r])
        /\ r \in returned => shutdown[r].done /\ ~shutdown[r].error

Ending == Beneath /\ Leading /\ Led /\ Numbered /\ Books

LEMMA BeneathStep ==
  ASSUME Types, Beneath, NEW t \in Threads, NEW n, NEW more, NEW f, Changes(t, n, more, f),
         more /\ Leads(f) => \A i \in 1..n : ~Calling(stack[t][i], f.run)
  PROVE  Beneath'
  <1>1. ASSUME NEW u \in Threads, NEW i \in 1..Len(stack'[u]), NEW j \in 1..Len(stack'[u]), i < j,
               Leads(stack'[u][j]), Calling(stack'[u][i], stack'[u][j].run)
        PROVE  FALSE
    <2>1. n \in Nat /\ (u = t => n <= Len(stack[u])) /\ Len(stack[u]) \in Nat
      BY DEF Changes, Types
    <2>2. i \in 1..Len(stack[u]) /\ stack'[u][i] = stack[u][i] /\ (u = t => i <= n)
      <3>1. \/ i \in 1..Len(stack[u]) /\ stack'[u][i] = stack[u][i] /\ (u = t => i <= n)
            \/ more /\ u = t /\ i = n + 1 /\ stack'[u][i] = f
        BY FrameIs
      <3>2. \/ j \in 1..Len(stack[u]) /\ stack'[u][j] = stack[u][j] /\ (u = t => j <= n)
            \/ more /\ u = t /\ j = n + 1 /\ stack'[u][j] = f
        BY FrameIs
      <3>3. ~(u = t /\ i = n + 1)
        <4>1. u = t => j <= n + 1
          BY <2>1, <3>2
        <4> QED
          BY <1>1, <2>1, <4>1
      <3> QED
        BY <3>1, <3>3
    <2>3. CASE j \in 1..Len(stack[u]) /\ stack'[u][j] = stack[u][j]
      BY <1>1, <2>2, <2>3 DEF Beneath, BeneathIn
    <2>4. CASE more /\ u = t /\ j = n + 1 /\ stack'[u][j] = f
      <3>1. i \in 1..n
        BY <2>1, <2>2, <2>4
      <3> QED
        BY <1>1, <2>2, <2>4, <3>1
    <2> QED
      BY <2>3, <2>4, FrameIs
  <1> QED
    BY <1>1 DEF Beneath, BeneathIn

LEMMA BeneathPush ==
  ASSUME Types, Beneath, NEW t \in Threads, NEW f, Pushed(t, f), ~Leads(f)
  PROVE  Beneath'
  <1>1. PICK n, more : Changes(t, n, more, f)
    BY Zenon DEF Pushed
  <1> QED
    BY <1>1, BeneathStep

LEMMA BeneathTurn ==
  ASSUME Types, Beneath, NEW t \in Threads, NEW f, Turned(t, f),
         Leads(f) => \A i \in 1..(Len(stack[t]) - 1) : ~Calling(stack[t][i], f.run)
  PROVE  Beneath'
  <1>1. PICK n, more : Changes(t, n, more, f) /\ n = Len(stack[t]) - 1
    BY Zenon DEF Turned
  <1>2. Leads(f) => \A i \in 1..n : ~Calling(stack[t][i], f.run)
    BY <1>1
  <1> QED
    BY <1>1, <1>2, BeneathStep

LEMMA BeneathPop ==
  ASSUME Types, Beneath, NEW t \in Threads, NEW n, Popped(t, n)
  PROVE  Beneath'
  <1>1. PICK f, more : Changes(t, n, more, f) /\ more = FALSE
    BY Zenon DEF Popped
  <1> QED
    BY <1>1, BeneathStep

\* A step that leaves every shutdown where it is.
Aside(t) ==
    /\ shutdown' = shutdown /\ current' <= built' /\ (built' = built \/ built' = built + 1)
    /\ \A r \in returned' : r \in returned \/ (shutdown[r].done /\ ~shutdown[r].error)
    /\ \E new, old :
         /\ OnStep(t, new, old)
         /\ \A f \in new \cup old : ~Leads(f)
         /\ \A f \in new : f.run <= built'

LEMMA LeadsRun ==
  ASSUME TypeOK, NEW t \in Threads, NEW f \in Frames(stack[t]), Leads(f)
  PROVE  f.run \in Runs
  <1>1. f \in FrameSet /\ IsFrame(f)
    BY OnFrames
  <1> QED
    BY <1>1, RunsAre DEF Leads, LeadAts, FrameSet, IsFrame

LEMMA LeadKept ==
  ASSUME TypeOK, NEW t \in Threads, NEW r \in Runs, r <= built, NEW at,
         LeadIs(t, at, store[r], shutdown[r]), Kept(r),
         shutdown'[r].owner = shutdown[r].owner, shutdown'[r].done = shutdown[r].done,
         shutdown[r].sinks \subseteq shutdown'[r].sinks
  PROVE  LeadIs(t, at, store'[r], shutdown'[r])
  <1>1. ~(built' = built + 1 /\ r = built')
    BY DEF TypeOK, Types, Runs
  <1> QED
    BY <1>1 DEF LeadIs, Kept

LEMMA BookKept ==
  ASSUME TypeOK, NEW r \in Runs, r <= built \/ shutdown[r].owner = NoOne,
         BookIs(store[r], shutdown[r]), Kept(r), shutdown'[r] = shutdown[r]
  PROVE  BookIs(store'[r], shutdown'[r])
  <1>1. shutdown[r].sinks # {} => ~(built' = built + 1 /\ r = built')
    BY DEF TypeOK, Types, Runs, BookIs
  <1> QED
    BY <1>1 DEF BookIs, Kept

LEMMA AsideEnding ==
  ASSUME TypeOK, TypeOK', Ending, NEW t \in Threads, Aside(t), Beneath', \A q \in Runs : Kept(q)
  PROVE  Ending'
  <1>1. PICK new, old : /\ OnStep(t, new, old) /\ \A f \in new \cup old : ~Leads(f)
                        /\ \A f \in new : f.run <= built'
    BY DEF Aside
  <1>2. ASSUME NEW u \in Threads, NEW f \in Frames(stack'[u]) PROVE f \in Frames(stack[u]) \/ f \in new
    BY <1>1 DEF OnStep
  <1>3. ASSUME NEW u \in Threads, NEW f \in Frames(stack[u]) PROVE f \in Frames(stack'[u]) \/ f \in old
    BY <1>1 DEF OnStep
  <1>4. shutdown' = shutdown /\ built \in Nat /\ built' \in Nat /\ built <= built'
    BY DEF Aside, TypeOK, Types
  <1>5. Leading'
    <2>1. ASSUME NEW u \in Threads, NEW f \in Frames(stack'[u]), Leads(f)
          PROVE  LeadIs(u, f.at, store'[f.run], shutdown'[f.run])
      <3>1. f \in Frames(stack[u])
        BY <1>1, <1>2, <2>1
      <3>2. f.run \in Runs /\ f.run <= built /\ LeadIs(u, f.at, store[f.run], shutdown[f.run])
        BY <2>1, <3>1, LeadsRun DEF Ending, Leading, Numbered
      <3> QED
        BY <1>4, <3>2, LeadKept
    <2> QED
      BY <2>1 DEF Leading
  <1>6. Led'
    <2>1. ASSUME NEW r \in Runs, NEW u \in Threads, shutdown'[r].owner = u, ~shutdown'[r].done
          PROVE  \E f \in Frames(stack'[u]) : Leads(f) /\ f.run = r
      <3>1. PICK f \in Frames(stack[u]) : Leads(f) /\ f.run = r
        BY <1>4, <2>1 DEF Ending, Led
      <3>2. f \in Frames(stack'[u])
        BY <1>1, <1>3, <3>1
      <3> QED
        BY <3>1, <3>2
    <2> QED
      BY <2>1 DEF Led
  <1>7. Numbered'
    <2>1. ASSUME NEW u \in Threads, NEW f \in Frames(stack'[u]) PROVE f.run <= built'
      <3>1. CASE f \in new
        BY <1>1, <3>1
      <3>2. CASE f \in Frames(stack[u])
        <4>1. f.run <= built /\ f.run \in Int
          BY <3>2, OnFrames, LifecycleAssumption DEF Ending, Numbered, FrameSet
        <4> QED
          BY <1>4, <4>1
      <3> QED
        BY <1>2, <3>1, <3>2
    <2>2. ASSUME NEW r \in Runs, r > built' PROVE shutdown'[r].owner = NoOne
      <3>1. r > built
        BY <1>4, <2>2 DEF Runs
      <3> QED
        BY <1>4, <3>1 DEF Ending, Numbered
    <2>3. current' <= built'
      BY DEF Aside
    <2> QED
      BY <2>1, <2>2, <2>3 DEF Numbered
  <1>8. Books'
    <2>1. ASSUME NEW r \in Runs
          PROVE  /\ BookIs(store'[r], shutdown'[r])
                 /\ r \in returned' => shutdown'[r].done /\ ~shutdown'[r].error
      <3>1. r <= built \/ shutdown[r].owner = NoOne
        BY <1>4 DEF Ending, Numbered, Runs
      <3>2. BookIs(store'[r], shutdown'[r])
        BY <1>4, <3>1, BookKept DEF Ending, Books
      <3>3. r \in returned' => shutdown'[r].done /\ ~shutdown'[r].error
        BY <1>4 DEF Ending, Books, Aside
      <3> QED
        BY <3>2, <3>3
    <2> QED
      BY <2>1 DEF Books
  <1> QED
    BY <1>5, <1>6, <1>7, <1>8 DEF Ending

LEMMA StepsAs ==
  ASSUME TypeOK, NEW t \in Threads, NEW at, NEW next, StepsTo(t, at, next)
  PROVE  \E f : TurnedAs(f, t, next, Top(t).run, 0)
  BY TurnsAs, Zenon DEF StepsTo

\* The leader takes its run a step further.
LEMMA LeaderEnding ==
  ASSUME TypeOK, TypeOK', Ending, NEW t \in Threads, NEW at, NEW next \in LeadAts,
         StepsTo(t, at, next), Leads(Top(t)), \A q \in Runs : Kept(q),
         NEW r \in Runs, r = Top(t).run,
         \A q \in Runs : q # r => shutdown'[q] = shutdown[q],
         shutdown'[r].owner = shutdown[r].owner, shutdown'[r].done = shutdown[r].done,
         shutdown[r].sinks \subseteq shutdown'[r].sinks,
         LeadIs(t, next, store'[r], shutdown'[r]), BookIs(store'[r], shutdown'[r])
  PROVE  Ending'
  <1>1. PICK f \in FrameSet : /\ f.call = Top(t).call /\ f.at = next /\ f.run = r /\ f.want = 0 /\ IsFrame(f)
                              /\ Turned(t, f) /\ OnStep(t, {f}, {Top(t)})
    <2>1. PICK f : TurnedAs(f, t, next, Top(t).run, 0)
      BY StepsAs
    <2> QED
      BY <2>1 DEF TurnedAs
  <1>2. stack[t] # <<>>
    BY DEF StepsTo, Stands
  <1>3. Top(t) \in Frames(stack[t]) /\ Leads(f)
    BY <1>1, <1>2, TopOn DEF TypeOK, Leads, Ends
  <1>4. ASSUME NEW u \in Threads, NEW g \in Frames(stack'[u])
        PROVE  g \in Frames(stack[u]) \/ (u = t /\ g = f)
    BY <1>1 DEF OnStep
  <1>5. ASSUME NEW u \in Threads, NEW g \in Frames(stack[u])
        PROVE  g \in Frames(stack'[u]) \/ (u = t /\ g = Top(t))
    BY <1>1 DEF OnStep
  <1>6. f \in Frames(stack'[t])
    BY <1>1 DEF OnStep
  <1>7. UNCHANGED <<built, current, returned>> /\ built \in Nat
    BY DEF StepsTo, NothingElse, TypeOK, Types
  <1>8. r <= built
    BY <1>3 DEF Ending, Numbered
  <1>9. Beneath'
    <2>1. \A i \in 1..(Len(stack[t]) - 1) : ~Calling(stack[t][i], r)
      <3>1. Top(t) = stack[t][Len(stack[t])] /\ Len(stack[t]) \in 1..Len(stack[t]) /\ Len(stack[t]) \in Nat
        BY <1>2, TopIs DEF TypeOK
      <3> QED
        BY <3>1 DEF Ending, Beneath, BeneathIn
    <2> QED
      BY <1>1, <2>1, BeneathTurn DEF TypeOK, Ending
  <1>10. Leading'
    <2>1. ASSUME NEW u \in Threads, NEW g \in Frames(stack'[u]), Leads(g)
          PROVE  LeadIs(u, g.at, store'[g.run], shutdown'[g.run])
      <3>1. CASE u = t /\ g = f
        BY <1>1, <3>1
      <3>2. CASE g \in Frames(stack[u])
        <4>1. g.run \in Runs /\ g.run <= built /\ LeadIs(u, g.at, store[g.run], shutdown[g.run])
          BY <2>1, <3>2, LeadsRun DEF Ending, Leading, Numbered
        <4>2. /\ shutdown'[g.run].owner = shutdown[g.run].owner /\ shutdown'[g.run].done = shutdown[g.run].done
              /\ shutdown[g.run].sinks \subseteq shutdown'[g.run].sinks
          BY <4>1
        <4> QED
          BY <4>1, <4>2, LeadKept
      <3> QED
        BY <1>4, <3>1, <3>2
    <2> QED
      BY <2>1 DEF Leading
  <1>11. Led'
    <2>1. ASSUME NEW q \in Runs, NEW u \in Threads, shutdown'[q].owner = u, ~shutdown'[q].done
          PROVE  \E g \in Frames(stack'[u]) : Leads(g) /\ g.run = q
      <3>1. shutdown[q].owner = u /\ ~shutdown[q].done
        BY <2>1
      <3>2. PICK g \in Frames(stack[u]) : Leads(g) /\ g.run = q
        BY <3>1 DEF Ending, Led
      <3>3. CASE g \in Frames(stack'[u])
        BY <3>2, <3>3
      <3>4. CASE u = t /\ g = Top(t)
        BY <1>1, <1>3, <1>6, <3>2, <3>4
      <3> QED
        BY <1>5, <3>3, <3>4
    <2> QED
      BY <2>1 DEF Led
  <1>12. Numbered'
    <2>1. ASSUME NEW u \in Threads, NEW g \in Frames(stack'[u]) PROVE g.run <= built
      BY <1>1, <1>4, <1>8 DEF Ending, Numbered
    <2>2. ASSUME NEW q \in Runs, q > built PROVE shutdown'[q].owner = NoOne
      BY <2>2 DEF Ending, Numbered
    <2> QED
      BY <1>7, <2>1, <2>2 DEF Numbered, Ending
  <1>13. Books'
    <2>1. ASSUME NEW q \in Runs
          PROVE  /\ BookIs(store'[q], shutdown'[q])
                 /\ q \in returned' => shutdown'[q].done /\ ~shutdown'[q].error
      <3>1. CASE q = r
        <4>1. ~shutdown[r].done
          BY <1>3 DEF Ending, Leading, LeadIs
        <4> QED
          BY <1>7, <3>1, <4>1 DEF Ending, Books
      <3>2. CASE q # r
        <4>1. shutdown'[q] = shutdown[q]
          BY <3>2
        <4>2. q <= built \/ shutdown[q].owner = NoOne
          BY <1>7 DEF Ending, Numbered, Runs
        <4>3. BookIs(store'[q], shutdown'[q])
          BY <4>1, <4>2, BookKept DEF Ending, Books
        <4> QED
          BY <1>7, <4>1, <4>3 DEF Ending, Books
      <3> QED
        BY <3>1, <3>2
    <2> QED
      BY <2>1 DEF Books
  <1> QED
    BY <1>9, <1>10, <1>11, <1>12, <1>13 DEF Ending

\* What is known of a run when its leader is at a step.
LEMMA AtLead ==
  ASSUME TypeOK, Ending, NEW t \in Threads, NEW at \in LeadAts, Stands(t, at), Ends(Top(t))
  PROVE  /\ Leads(Top(t)) /\ Top(t).run \in Runs /\ Top(t).run <= built
         /\ LeadIs(t, at, store[Top(t).run], shutdown[Top(t).run])
         /\ BookIs(store[Top(t).run], shutdown[Top(t).run])
  <1>1. Top(t) \in Frames(stack[t]) /\ Top(t).at = at
    BY TopOn DEF Stands, TypeOK
  <1>2. Leads(Top(t))
    BY <1>1 DEF Leads
  <1>3. Top(t).run \in Runs
    BY <1>1, <1>2, LeadsRun
  <1> QED
    BY <1>1, <1>2, <1>3 DEF Ending, Leading, Books, Numbered

\* When the leader's drain is satisfied the rows are delivered: whoever owned the
\* queue would be in a callback of the run, and the leader is in none.
LEMMA DrainStill ==
  ASSUME TypeOK, Delivery, Ending, NEW t \in Threads, Stands(t, "drain"), Ends(Top(t)), Satisfied(t)
  PROVE  Still(store[Top(t).run])
  <1>1. PICK r \in Runs : /\ r = Top(t).run /\ Leads(Top(t))
                          /\ LeadIs(t, "drain", store[r], shutdown[r])
    BY AtLead DEF LeadAts
  <1>2. PICK n : n = Len(stack[t])
    OBVIOUS
  <1>3. Top(t) = stack[t][n] /\ n \in 1..Len(stack[t]) /\ Top(t).want = 0 /\ n = Len(stack[t])
        /\ stack[t] # <<>> /\ Top(t).call # "callback"
    BY <1>2 DEF Stands, IsFrame, Ends
  <1>4. store[r].begun = store[r].committed /\ store[r].owner \in {t, NoOne}
    BY <1>1, <1>3 DEF Satisfied
  <1>5. store[r].owner # t
    <2>1. SUFFICES ASSUME store[r].owner = t PROVE FALSE
      OBVIOUS
    <2>2. PICK f \in Frames(stack[t]) : Calling(f, r)
      BY <2>1 DEF Delivery, Owned
    <2>3. PICK i \in 1..Len(stack[t]) : f = stack[t][i]
      BY DEF Frames
    <2>4. i < n
      BY <1>3, <2>2, <2>3 DEF Calling
    <2> QED
      BY <1>1, <1>3, <2>2, <2>3, <2>4 DEF Ending, Beneath, BeneathIn
  <1>6. \A k \in 1..store[r].begun : k \in store[r].done
    <2>1. ASSUME NEW k, Underway(r, k) PROVE FALSE
      <3>1. PICK u \in Threads : \E f \in Frames(stack[u]) : Calling(f, r) /\ f.want = k
        BY <2>1 DEF Underway
      <3>2. store[r].owner = u
        BY <3>1 DEF Delivery, InTurn, Calling
      <3> QED
        BY <1>4, <1>5, <3>2, LifecycleAssumption
    <2> QED
      BY <2>1 DEF Delivery, Delivered
  <1>7. store[r].done \subseteq 1..store[r].begun
    BY DEF Delivery, Delivered
  <1> QED
    BY <1>1, <1>4, <1>5, <1>6, <1>7 DEF LeadIs, Still

LEMMA LeadSteps ==
  ASSUME TypeOK, TypeOK', Delivery, Ending, NEW t \in Threads, \A q \in Runs : Kept(q),
         \/ Closing(t) \/ CommitOpen(t) \/ CloseWriter(t) \/ CloseSink(t)
         \/ (Drained(t) /\ StepsTo(t, "drain", "writer"))
  PROVE  Ending'
  <1>1. CASE Closing(t)
    <2>1. StepsTo(t, "closing", "commit") /\ shutdown' = shutdown
      BY <1>1, ClosingIs
    <2>2. PICK r \in Runs : /\ r = Top(t).run /\ r <= built /\ Leads(Top(t))
                            /\ LeadIs(t, "closing", store[r], shutdown[r]) /\ BookIs(store[r], shutdown[r])
      BY <2>1, AtLead DEF LeadAts, StepsTo
    <2>3. store'[r].closed
      BY <1>1, <2>2, ClosingIs
    <2>4. LeadIs(t, "commit", store'[r], shutdown'[r])
      BY <2>1, <2>2, <2>3 DEF LeadIs
    <2>5. BookIs(store'[r], shutdown'[r])
      BY <2>1, <2>2, BookKept
    <2> QED
      BY <2>1, <2>2, <2>4, <2>5, LeaderEnding DEF LeadAts
  <1>2. CASE CommitOpen(t)
    <2>1. StepsTo(t, "commit", "drain") /\ shutdown' = shutdown
      BY <1>2, CommitOpenIs
    <2>2. PICK r \in Runs : /\ r = Top(t).run /\ r <= built /\ Leads(Top(t))
                            /\ LeadIs(t, "commit", store[r], shutdown[r]) /\ BookIs(store[r], shutdown[r])
      BY <2>1, AtLead DEF LeadAts, StepsTo
    <2>3. ~store'[r].open /\ store'[r].closed = store[r].closed
      BY <1>2, <2>2, CommitOpenIs DEF CommitsOpen, SameEnd
    <2>4. LeadIs(t, "drain", store'[r], shutdown'[r])
      BY <2>1, <2>2, <2>3 DEF LeadIs
    <2>5. BookIs(store'[r], shutdown'[r])
      BY <2>1, <2>2, BookKept
    <2> QED
      BY <2>1, <2>2, <2>4, <2>5, LeaderEnding DEF LeadAts
  <1>3. CASE Drained(t) /\ StepsTo(t, "drain", "writer")
    <2>1. StepsTo(t, "drain", "writer") /\ shutdown' = shutdown /\ store' = store /\ Satisfied(t)
      BY <1>3, DrainedIs
    <2>2. PICK r \in Runs : /\ r = Top(t).run /\ r <= built /\ Leads(Top(t))
                            /\ LeadIs(t, "drain", store[r], shutdown[r]) /\ BookIs(store[r], shutdown[r])
      BY <2>1, AtLead DEF LeadAts, StepsTo
    <2>3. Still(store[r])
      BY <2>1, <2>2, DrainStill DEF StepsTo
    <2>4. LeadIs(t, "writer", store'[r], shutdown'[r])
      BY <2>1, <2>2, <2>3 DEF LeadIs
    <2> QED
      BY <2>1, <2>2, <2>4, LeaderEnding DEF LeadAts
  <1>4. CASE CloseWriter(t)
    <2>1. StepsTo(t, "writer", "summary") /\ shutdown' = shutdown
      BY <1>4, CloseWriterIs
    <2>2. PICK r \in Runs : /\ r = Top(t).run /\ r <= built /\ Leads(Top(t))
                            /\ LeadIs(t, "writer", store[r], shutdown[r]) /\ BookIs(store[r], shutdown[r])
      BY <2>1, AtLead DEF LeadAts, StepsTo
    <2>3. store'[r].writer = "closed"
      BY <1>4, <2>2, CloseWriterIs
    <2>4. LeadIs(t, "summary", store'[r], shutdown'[r])
      BY <2>1, <2>2, <2>3 DEF LeadIs, Kept
    <2>5. BookIs(store'[r], shutdown'[r])
      BY <2>1, <2>2, BookKept
    <2> QED
      BY <2>1, <2>2, <2>4, <2>5, LeaderEnding DEF LeadAts
  <1>5. CASE CloseSink(t)
    <2>1. PICK at \in Sinks : at = Top(t).at /\ StepsTo(t, at, AfterSink(at)) /\ store' = store
      BY <1>5, CloseSinkIs
    <2>2. at \in LeadAts /\ AfterSink(at) \in LeadAts
      BY DEF Sinks, LeadAts, AfterSink
    <2>3. PICK r \in Runs : /\ r = Top(t).run /\ r <= built /\ Leads(Top(t))
                            /\ LeadIs(t, at, store[r], shutdown[r]) /\ BookIs(store[r], shutdown[r])
      BY <2>1, <2>2, AtLead DEF StepsTo
    <2>4. /\ OnlyShutdown(r) /\ shutdown'[r].owner = shutdown[r].owner
          /\ shutdown'[r].done = shutdown[r].done /\ shutdown'[r].error = shutdown[r].error
          /\ shutdown'[r].sinks = shutdown[r].sinks \cup {at}
      BY <1>5, <2>1, <2>3, CloseSinkIs
    <2>5. Still(store[r]) /\ store[r].writer = "closed"
      BY <2>3 DEF LeadIs, Sinks
    <2>6. LeadIs(t, AfterSink(at), store'[r], shutdown'[r])
      BY <2>1, <2>3, <2>4, <2>5 DEF LeadIs, Sinks, AfterSink, Still
    <2>7. BookIs(store'[r], shutdown'[r])
      BY <2>1, <2>3, <2>4, <2>5, LifecycleAssumption DEF BookIs, LeadIs
    <2>8. \A q \in Runs : q # r => shutdown'[q] = shutdown[q]
      BY <2>4 DEF OnlyShutdown
    <2> QED
      BY <2>1, <2>2, <2>3, <2>4, <2>6, <2>7, <2>8, LeaderEnding
  <1> QED
    BY <1>1, <1>2, <1>3, <1>4, <1>5

\* A call that becomes the leader of its run is in no callback of it.
LEMMA ElectEnding ==
  ASSUME TypeOK, TypeOK', Ending, NEW t \in Threads, Elect(t), NEW r \in Runs, r = Top(t).run,
         shutdown[r].owner = NoOne, StepsTo(t, "elect", "closing"), OnlyShutdown(r),
         shutdown'[r].owner = t, shutdown'[r].done = shutdown[r].done,
         shutdown'[r].error = shutdown[r].error, shutdown'[r].sinks = shutdown[r].sinks,
         store' = store, NEW f \in FrameSet, f.call = Top(t).call, f.at = "closing", f.run = r, IsFrame(f),
         Turned(t, f), OnStep(t, {f}, {Top(t)})
  PROVE  Ending'
  <1>2. stack[t] # <<>> /\ Top(t).at = "elect" /\ Ends(Top(t))
    BY DEF StepsTo, Stands
  <1>3. Top(t) \in Frames(stack[t]) /\ Leads(f) /\ ~Leads(Top(t))
    BY <1>2, TopOn DEF TypeOK, Leads, Ends, LeadAts
  <1>4. ASSUME NEW u \in Threads, NEW g \in Frames(stack'[u])
        PROVE  g \in Frames(stack[u]) \/ (u = t /\ g = f)
    BY DEF OnStep
  <1>5. ASSUME NEW u \in Threads, NEW g \in Frames(stack[u])
        PROVE  g \in Frames(stack'[u]) \/ (u = t /\ g = Top(t))
    BY DEF OnStep
  <1>6. f \in Frames(stack'[t])
    BY DEF OnStep
  <1>7. UNCHANGED <<built, current, returned>> /\ built \in Nat
    BY DEF StepsTo, NothingElse, TypeOK, Types
  <1>8. r <= built
    BY <1>3 DEF Ending, Numbered
  <1>9. \A q \in Runs : q # r => shutdown'[q] = shutdown[q]
    BY DEF OnlyShutdown
  <1>10. ~shutdown[r].done /\ shutdown[r].sinks = {}
    BY DEF Ending, Books, BookIs
  <1>11. Beneath'
    <2>1. \A i \in 1..(Len(stack[t]) - 1) : ~Calling(stack[t][i], r)
      <3>1. Outside(t, r)
        BY ElectIs
      <3>2. Range(stack[t]) = {stack[t][i] : i \in 1..Len(stack[t])} /\ Len(stack[t]) \in Nat
        BY InStack DEF TypeOK
      <3>3. \A i \in 1..Len(stack[t]) : ~Calling(stack[t][i], r)
        BY <3>1, <3>2 DEF Outside, InCallback, Calling
      <3> QED
        BY <3>2, <3>3
    <2> QED
      BY <2>1, BeneathTurn DEF TypeOK, Ending
  <1>12. Leading'
    <2>1. ASSUME NEW u \in Threads, NEW g \in Frames(stack'[u]), Leads(g)
          PROVE  LeadIs(u, g.at, store'[g.run], shutdown'[g.run])
      <3>1. CASE u = t /\ g = f
        BY <1>10, <3>1 DEF LeadIs
      <3>2. CASE g \in Frames(stack[u])
        <4>1. g.run \in Runs /\ LeadIs(u, g.at, store[g.run], shutdown[g.run])
          BY <2>1, <3>2, LeadsRun DEF Ending, Leading
        <4>2. g.run # r
          BY <4>1, LifecycleAssumption DEF LeadIs
        <4>3. store'[g.run] = store[g.run] /\ shutdown'[g.run] = shutdown[g.run]
          BY <1>9, <4>1, <4>2
        <4> QED
          BY <4>1, <4>3
      <3> QED
        BY <1>4, <3>1, <3>2
    <2> QED
      BY <2>1 DEF Leading
  <1>13. Led'
    <2>1. ASSUME NEW q \in Runs, NEW u \in Threads, shutdown'[q].owner = u, ~shutdown'[q].done
          PROVE  \E g \in Frames(stack'[u]) : Leads(g) /\ g.run = q
      <3>1. CASE q = r
        BY <1>3, <1>6, <2>1, <3>1
      <3>2. CASE q # r
        <4>1. PICK g \in Frames(stack[u]) : Leads(g) /\ g.run = q
          BY <1>9, <2>1, <3>2 DEF Ending, Led
        <4> QED
          BY <1>3, <1>5, <4>1
      <3> QED
        BY <3>1, <3>2
    <2> QED
      BY <2>1 DEF Led
  <1>14. Numbered'
    <2>1. ASSUME NEW u \in Threads, NEW g \in Frames(stack'[u]) PROVE g.run <= built
      BY <1>4, <1>8 DEF Ending, Numbered
    <2>2. ASSUME NEW q \in Runs, q > built PROVE shutdown'[q].owner = NoOne
      <3>1. q # r
        BY <1>7, <1>8, <2>2 DEF Runs
      <3> QED
        BY <1>9, <2>2, <3>1 DEF Ending, Numbered
    <2> QED
      BY <1>7, <2>1, <2>2 DEF Numbered, Ending
  <1>15. Books'
    <2>1. ASSUME NEW q \in Runs
          PROVE  /\ BookIs(store'[q], shutdown'[q])
                 /\ q \in returned' => shutdown'[q].done /\ ~shutdown'[q].error
      <3>1. CASE q = r
        BY <1>7, <1>10, <3>1 DEF Ending, Books, BookIs
      <3>2. CASE q # r
        BY <1>7, <1>9, <3>2 DEF Ending, Books
      <3> QED
        BY <3>1, <3>2
    <2> QED
      BY <2>1 DEF Books
  <1> QED
    BY <1>11, <1>12, <1>13, <1>14, <1>15 DEF Ending

\* A thread leads each run once.
LEMMA OnlyLeader ==
  ASSUME TypeOK, Ending, NEW t \in Threads, stack[t] # <<>>, Leads(Top(t)),
         NEW i \in 1..Len(stack[t]), i # Len(stack[t]), Leads(stack[t][i])
  PROVE  stack[t][i].run # Top(t).run
  <1>1. PICK n : n = Len(stack[t]) /\ n \in Nat /\ Top(t) = stack[t][n] /\ n \in 1..Len(stack[t])
    BY TopIs DEF TypeOK
  <1>2. i + 1 \in 1..Len(stack[t]) /\ Below(stack[t][i], stack[t][i + 1])
    BY UnderIs DEF TypeOK
  <1>3. IsFrame(stack[t][i]) /\ IsFrame(Top(t))
    BY TopIs DEF TypeOK, Stacked
  <1>4. Calling(stack[t][i + 1], stack[t][i].run)
    BY <1>2, <1>3 DEF Below, Calling, Leads, Ends, IsFrame
  <1>5. i + 1 # n
    BY <1>1, <1>4 DEF Leads, Ends, Calling
  <1>6. i + 1 < n
    BY <1>1, <1>2, <1>5
  <1>7. ~Calling(stack[t][i + 1], Top(t).run)
    BY <1>1, <1>2, <1>6 DEF Ending, Beneath, BeneathIn
  <1> QED
    BY <1>4, <1>7

LEMMA FinishedEnding ==
  ASSUME TypeOK, TypeOK', Ending, NEW t \in Threads, Finished(t)
  PROVE  Ending'
  <1>1. /\ Stands(t, "done") /\ Ends(Top(t)) /\ Returns(t) /\ UNCHANGED <<built, store>>
        /\ returned' = returned \cup {Top(t).run}
    BY FinishedIs
  <1>2. PICK r \in Runs : /\ r = Top(t).run /\ Leads(Top(t))
                          /\ LeadIs(t, "done", store[r], shutdown[r]) /\ BookIs(store[r], shutdown[r])
    BY <1>1, AtLead DEF LeadAts
  <1>3. /\ OnlyShutdown(r) /\ shutdown'[r].owner = shutdown[r].owner
        /\ shutdown'[r].done /\ shutdown'[r].error = shutdown[r].error
        /\ shutdown'[r].sinks = shutdown[r].sinks
    BY <1>2, FinishedIs
  <1>4. OnStep(t, {}, {Top(t)}) /\ Popped(t, Len(stack[t]) - 1) /\ stack[t] # <<>>
    BY <1>1, OnReturns DEF Stands
  <1>5. ASSUME NEW u \in Threads, NEW g \in Frames(stack'[u]) PROVE g \in Frames(stack[u])
    BY <1>4 DEF OnStep
  <1>6. ASSUME NEW u \in Threads, NEW g \in Frames(stack'[u]), Leads(g) PROVE g.run # r
    <2>1. PICK i \in 1..Len(stack'[u]) : g = stack'[u][i]
      BY DEF Frames
    <2>2. PICK n : n = Len(stack[t]) - 1 /\ n \in Int
      BY DEF TypeOK, Types
    <2>3. i \in 1..Len(stack[u]) /\ stack'[u][i] = stack[u][i] /\ (u = t => i <= n)
      <3>1. Popped(t, n)
        BY <1>4, <2>2, Zenon
      <3> QED
        BY <3>1, AfterPop DEF TypeOK
    <2>4. g \in Frames(stack[u]) /\ g.run \in Runs /\ LeadIs(u, g.at, store[g.run], shutdown[g.run])
      BY <1>5, <1>6, LeadsRun DEF Ending, Leading
    <2>5. CASE u = t
      <3>1. i # Len(stack[t])
        BY <2>2, <2>3, <2>5
      <3> QED
        BY <1>2, <1>4, <1>6, <2>1, <2>3, <2>5, <3>1, OnlyLeader
    <2>6. CASE u # t
      BY <1>2, <2>4, <2>6 DEF LeadIs
    <2> QED
      BY <2>5, <2>6
  <1>7. \A q \in Runs : q # r => shutdown'[q] = shutdown[q]
    BY <1>3 DEF OnlyShutdown
  <1>8. Beneath'
    BY <1>4, BeneathPop DEF TypeOK, Ending
  <1>9. Leading'
    <2>1. ASSUME NEW u \in Threads, NEW g \in Frames(stack'[u]), Leads(g)
          PROVE  LeadIs(u, g.at, store'[g.run], shutdown'[g.run])
      <3>1. g \in Frames(stack[u]) /\ g.run \in Runs /\ g.run # r
        BY <1>5, <1>6, <2>1, LeadsRun
      <3>2. LeadIs(u, g.at, store[g.run], shutdown[g.run])
        BY <2>1, <3>1 DEF Ending, Leading
      <3> QED
        BY <1>1, <1>7, <3>1, <3>2
    <2> QED
      BY <2>1 DEF Leading
  <1>10. Led'
    <2>1. ASSUME NEW q \in Runs, NEW u \in Threads, shutdown'[q].owner = u, ~shutdown'[q].done
          PROVE  \E g \in Frames(stack'[u]) : Leads(g) /\ g.run = q
      <3>1. q # r
        BY <1>3, <2>1
      <3>2. PICK g \in Frames(stack[u]) : Leads(g) /\ g.run = q
        BY <1>7, <2>1, <3>1 DEF Ending, Led
      <3>3. g \in Frames(stack'[u])
        BY <1>2, <1>4, <3>1, <3>2 DEF OnStep
      <3> QED
        BY <3>2, <3>3
    <2> QED
      BY <2>1 DEF Led
  <1>11. Numbered'
    <2>1. \A u \in Threads : \A g \in Frames(stack'[u]) : g.run <= built
      BY <1>5 DEF Ending, Numbered
    <2>2. ASSUME NEW q \in Runs, q > built PROVE shutdown'[q].owner = NoOne
      <3>1. shutdown[q].owner = NoOne
        BY <2>2 DEF Ending, Numbered
      <3> QED
        BY <1>3, <1>7, <3>1
    <2>3. current' <= built
      BY <1>1 DEF Returns, Ending, Numbered, TypeOK, Types
    <2> QED
      BY <1>1, <2>1, <2>2, <2>3 DEF Numbered
  <1>12. Books'
    <2>1. ASSUME NEW q \in Runs
          PROVE  /\ BookIs(store'[q], shutdown'[q])
                 /\ q \in returned' => shutdown'[q].done /\ ~shutdown'[q].error
      <3>1. CASE q = r
        <4>1. shutdown[r].sinks \subseteq Sinks
          BY DEF TypeOK, Types, ShutdownSet
        <4>2. shutdown[r].sinks = Sinks
          BY <1>2, <4>1 DEF LeadIs, Sinks
        <4>3. ~shutdown[r].error /\ shutdown[r].owner # NoOne
          BY <1>2, LifecycleAssumption DEF LeadIs, BookIs
        <4> QED
          BY <1>1, <1>2, <1>3, <3>1, <4>2, <4>3 DEF BookIs
      <3>2. CASE q # r
        BY <1>1, <1>2, <1>7, <3>2 DEF Ending, Books
      <3> QED
        BY <3>1, <3>2
    <2> QED
      BY <2>1 DEF Books
  <1> QED
    BY <1>8, <1>9, <1>10, <1>11, <1>12 DEF Ending

\* An interrupt ends the shutdowns the thread leads, with an error.
LEMMA CutEnding ==
  ASSUME TypeOK, TypeOK', Ending, NEW t \in Threads, Cut(t), \A q \in Runs : Kept(q)
  PROVE  Ending'
  <1>1. Dropped(t)
    BY UnwindIs
  <1>2. Popped(t, 0)
    BY <1>1, Zenon DEF Dropped, Popped
  <1>3. /\ Frames(stack'[t]) = {} /\ \A u \in Threads \ {t} : Frames(stack'[u]) = Frames(stack[u])
    BY <1>2, OnClear DEF TypeOK
  <1>4. /\ UNCHANGED <<built, returned>> /\ current' \in {0, current}
        /\ built \in Nat /\ current \in Nat
    BY <1>1 DEF Dropped, TypeOK, Types
  <1>5. ASSUME NEW q \in Runs
        PROVE  /\ shutdown'[q].owner = shutdown[q].owner /\ shutdown'[q].sinks = shutdown[q].sinks
               /\ shutdown[q].owner = t /\ ~shutdown[q].done => shutdown'[q].done /\ shutdown'[q].error
               /\ shutdown[q].owner # t \/ shutdown[q].done => shutdown'[q] = shutdown[q]
    BY <1>1 DEF Dropped
  <1>6. Beneath'
    BY <1>2, BeneathPop DEF TypeOK, Ending
  <1>7. Leading'
    <2>1. ASSUME NEW u \in Threads, NEW g \in Frames(stack'[u]), Leads(g)
          PROVE  LeadIs(u, g.at, store'[g.run], shutdown'[g.run])
      <3>1. u # t /\ g \in Frames(stack[u])
        BY <1>3
      <3>2. g.run \in Runs /\ g.run <= built /\ LeadIs(u, g.at, store[g.run], shutdown[g.run])
        BY <2>1, <3>1, LeadsRun DEF Ending, Leading, Numbered
      <3>3. shutdown'[g.run] = shutdown[g.run]
        BY <1>5, <3>1, <3>2 DEF LeadIs
      <3> QED
        BY <3>2, <3>3, LeadKept
    <2> QED
      BY <2>1 DEF Leading
  <1>8. Led'
    <2>1. ASSUME NEW q \in Runs, NEW u \in Threads, shutdown'[q].owner = u, ~shutdown'[q].done
          PROVE  \E g \in Frames(stack'[u]) : Leads(g) /\ g.run = q
      <3>1. u # t /\ shutdown[q].owner = u /\ ~shutdown[q].done
        BY <1>5, <2>1
      <3>2. \E g \in Frames(stack[u]) : Leads(g) /\ g.run = q
        BY <3>1 DEF Ending, Led
      <3> QED
        BY <1>3, <3>1, <3>2
    <2> QED
      BY <2>1 DEF Led
  <1>9. Numbered'
    <2>1. \A u \in Threads : \A g \in Frames(stack'[u]) : g.run <= built
      BY <1>3 DEF Ending, Numbered
    <2>2. \A q \in Runs : q > built => shutdown'[q].owner = NoOne
      BY <1>5 DEF Ending, Numbered
    <2>3. current' <= built
      BY <1>4 DEF Ending, Numbered
    <2> QED
      BY <1>4, <2>1, <2>2, <2>3 DEF Numbered
  <1>10. Books'
    <2>1. ASSUME NEW q \in Runs
          PROVE  /\ BookIs(store'[q], shutdown'[q])
                 /\ q \in returned' => shutdown'[q].done /\ ~shutdown'[q].error
      <3>1. BookIs(store[q], shutdown[q]) /\ (q \in returned => shutdown[q].done /\ ~shutdown[q].error)
        BY DEF Ending, Books
      <3>2. shutdown[q].sinks # {} => Still(store'[q]) /\ store'[q].writer = "closed"
        BY <1>4, <3>1 DEF BookIs, Kept
      <3>3. CASE shutdown[q].owner = t /\ ~shutdown[q].done
        <4>1. shutdown'[q].owner # NoOne
          BY <1>5, <3>3, LifecycleAssumption
        <4> QED
          BY <1>4, <1>5, <3>1, <3>2, <3>3, <4>1 DEF BookIs
      <3>4. CASE shutdown[q].owner # t \/ shutdown[q].done
        BY <1>4, <1>5, <3>1, <3>2, <3>4 DEF BookIs
      <3> QED
        BY <3>3, <3>4
    <2> QED
      BY <2>1 DEF Books
  <1> QED
    BY <1>6, <1>7, <1>8, <1>9, <1>10 DEF Ending

LEMMA AsidePush ==
  ASSUME TypeOK, Ending, NEW t \in Threads, NEW f, Pushed(t, f), ~Leads(f), f.run <= built,
         UNCHANGED <<current, built, shutdown, returned>>
  PROVE  Aside(t) /\ Beneath'
  <1>1. OnStep(t, {f}, {})
    BY OnPush DEF TypeOK
  <1>2. Beneath'
    BY BeneathPush DEF TypeOK, Ending
  <1>3. current <= built
    BY DEF Ending, Numbered
  <1> QED
    BY <1>1, <1>2, <1>3 DEF Aside

LEMMA AsidePop ==
  ASSUME TypeOK, Ending, NEW t \in Threads, stack[t] # <<>>, Popped(t, Len(stack[t]) - 1), ~Leads(Top(t)),
         current' <= built, UNCHANGED <<built, shutdown>>,
         \A r \in returned' : r \in returned \/ (shutdown[r].done /\ ~shutdown[r].error)
  PROVE  Aside(t) /\ Beneath'
  <1>1. OnStep(t, {}, {Top(t)})
    BY OnPop DEF TypeOK
  <1>2. PICK n : n = Len(stack[t]) - 1
    OBVIOUS
  <1>3. Popped(t, n)
    BY <1>2, Zenon
  <1>4. Beneath'
    BY <1>3, BeneathPop DEF TypeOK, Ending
  <1> QED
    BY <1>1, <1>4 DEF Aside

LEMMA AsideReturn ==
  ASSUME TypeOK, Ending, NEW t \in Threads, Returns(t), ~Leads(Top(t)), UNCHANGED <<built, shutdown>>,
         \A r \in returned' : r \in returned \/ (shutdown[r].done /\ ~shutdown[r].error)
  PROVE  Aside(t) /\ Beneath'
  <1>1. Popped(t, Len(stack[t]) - 1) /\ stack[t] # <<>>
    BY OnReturns DEF Returns
  <1>2. current' <= built
    BY DEF Returns, Ending, Numbered, TypeOK, Types
  <1> QED
    BY <1>1, <1>2, AsidePop

LEMMA AsideTurn ==
  ASSUME TypeOK, Ending, NEW t \in Threads, NEW at, NEW r, NEW w, Turns(t, at, r, w)
  PROVE  /\ ~Leads(Top(t)) /\ (Ends(Top(t)) => at \notin LeadAts)
         /\ r <= built' /\ built' \in {built, built + 1}
         /\ UNCHANGED <<current, shutdown, returned>>
         => Aside(t) /\ Beneath'
  <1>1. PICK f : TurnedAs(f, t, at, r, w)
    BY TurnsAs
  <1>2. SUFFICES ASSUME ~Leads(Top(t)), Ends(Top(t)) => at \notin LeadAts,
                        r <= built', built' \in {built, built + 1},
                        UNCHANGED <<current, shutdown, returned>>
                 PROVE  Aside(t) /\ Beneath'
    OBVIOUS
  <1>3. ~Leads(f)
    BY <1>1, <1>2 DEF TurnedAs, Leads, Ends
  <1>4. Beneath'
    BY <1>1, <1>3, BeneathTurn DEF TurnedAs, TypeOK, Ending
  <1>5. current <= built'
    BY <1>2 DEF Ending, Numbered, TypeOK, Types
  <1> QED
    BY <1>1, <1>2, <1>3, <1>4, <1>5 DEF TurnedAs, Aside

LEMMA KnownIs ==
  ASSUME TypeOK, Ending, NEW r \in Runs, Known(r)
  PROVE  r <= built
  BY DEF Known, Ending, Numbered, Runs, TypeOK, Types

LEMMA CallsAside ==
  ASSUME TypeOK, Ending, NEW t \in Threads, Calls(t)
  PROVE  Aside(t) /\ Beneath'
  <1>1. ASSUME NEW f, Enters(t, f), f.run <= built, ~Leads(f)
        PROVE  Aside(t) /\ Beneath'
    <2>1. Pushed(t, f) /\ UNCHANGED <<current, built, shutdown, returned>>
      BY <1>1, OnEnters DEF Enters
    <2> QED
      BY <1>1, <2>1, AsidePush
  <1>2. CASE Log(t)
    <2>1. PICK f : Enters(t, f) /\ f.call = "log" /\ f.run \in Runs /\ Known(f.run)
      BY <1>2, LogIs
    <2> QED
      BY <1>1, <2>1, KnownIs DEF Leads, Ends
  <1>3. CASE Flush(t)
    <2>1. PICK f : Enters(t, f) /\ f.call = "flush" /\ f.run \in Runs /\ Known(f.run)
      BY <1>3, FlushIs
    <2> QED
      BY <1>1, <2>1, KnownIs DEF Leads, Ends
  <1>4. CASE RunFinish(t)
    <2>1. PICK f : Enters(t, f) /\ f.at = "elect" /\ f.run \in Runs /\ Known(f.run)
      BY <1>4, RunFinishIs
    <2> QED
      BY <1>1, <2>1, KnownIs DEF Leads, LeadAts
  <1>5. CASE EtCall(t)
    <2>1. PICK f : Enters(t, f) /\ f.at = "lock" /\ f.run = 0
      BY <1>5, EtCallIs
    <2>2. 0 <= built
      BY DEF TypeOK, Types
    <2> QED
      BY <1>1, <2>1, <2>2 DEF Leads, LeadAts
  <1> QED
    BY <1>2, <1>3, <1>4, <1>5 DEF Calls

LEMMA DeliveryAside ==
  ASSUME TypeOK, Ending, NEW t \in Threads,
         \/ Admit(t) \/ Take(t) \/ EndCallback(t) \/ Awaited(t)
         \/ (Drained(t) /\ Top(t).call \in {"log", "flush"})
         \/ (Elect(t) /\ shutdown' = shutdown)
  PROVE  Aside(t) /\ Beneath'
  <1>1. CASE Admit(t)
    <2>1. /\ Stands(t, "admit") /\ Top(t).call = "log" /\ UNCHANGED <<built, returned, shutdown>>
          /\ \/ Returns(t)
             \/ \E w : Turns(t, "drain", Top(t).run, w) /\ current' = current
      BY <1>1, AdmitIs DEF NothingElse
    <2>2. ~Leads(Top(t)) /\ ~Ends(Top(t)) /\ stack[t] # <<>>
      BY <2>1 DEF Leads, Ends, Stands
    <2>3. Top(t).run <= built /\ built \in Nat
      BY <2>2, TopOn DEF Ending, Numbered, TypeOK, Types
    <2>4. CASE Returns(t)
      BY <2>1, <2>2, <2>4, AsideReturn
    <2>5. CASE \E w : Turns(t, "drain", Top(t).run, w) /\ current' = current
      <3>1. PICK w, r, at : r = Top(t).run /\ at = "drain" /\ Turns(t, at, r, w) /\ current' = current
        BY <2>5
      <3> QED
        BY <2>1, <2>2, <2>3, <3>1, AsideTurn DEF Leads
    <2> QED
      BY <2>1, <2>4, <2>5
  <1>2. CASE Take(t)
    <2>1. PICK f \in FrameSet : Changes(t, Len(stack[t]), TRUE, f) /\ Calling(f, Top(t).run)
      BY <1>2, TakeIs
    <2>2. stack[t] # <<>> /\ UNCHANGED <<current, built, shutdown, returned>>
      BY <1>2, TakeIs DEF NothingElse, Stands
    <2>3. Pushed(t, f) /\ f.run = Top(t).run /\ ~Leads(f)
      BY <2>1, Zenon DEF Pushed, Calling, Leads, Ends
    <2>4. f.run <= built
      BY <2>2, <2>3, TopOn DEF Ending, Numbered, TypeOK
    <2> QED
      BY <2>2, <2>3, <2>4, AsidePush
  <1>3. CASE EndCallback(t)
    <2>1. Returns(t) /\ Top(t).call = "callback" /\ UNCHANGED <<built, returned, shutdown>>
      BY <1>3, EndCallbackIs DEF NothingElse
    <2> QED
      BY <2>1, AsideReturn DEF Leads, Ends
  <1>4. CASE Awaited(t)
    <2>1. /\ Stands(t, "await") /\ Returns(t) /\ UNCHANGED <<built, shutdown>>
          /\ shutdown[Top(t).run].done
          /\ returned' = IF shutdown[Top(t).run].error THEN returned ELSE returned \cup {Top(t).run}
      BY <1>4, AwaitedIs
    <2>2. ~Leads(Top(t))
      BY <2>1 DEF Leads, LeadAts, Stands
    <2> QED
      BY <2>1, <2>2, AsideReturn
  <1>5. CASE Drained(t) /\ Top(t).call \in {"log", "flush"}
    <2>1. ~Ends(Top(t))
      BY <1>5 DEF Ends
    <2>2. Returns(t) /\ UNCHANGED <<built, returned, shutdown>>
      BY <1>5, <2>1, DrainedIs DEF StepsTo, NothingElse
    <2> QED
      BY <2>1, <2>2, AsideReturn DEF Leads
  <1>6. CASE Elect(t) /\ shutdown' = shutdown
    <2>1. StepsTo(t, "elect", "await")
      <3>1. ASSUME shutdown[Top(t).run].owner = NoOne, shutdown'[Top(t).run].owner = t PROVE FALSE
        BY <1>6, <3>1, LifecycleAssumption
      <3> QED
        BY <1>6, <3>1, ElectIs
    <2>2. /\ Turns(t, "await", Top(t).run, 0) /\ stack[t] # <<>> /\ Top(t).at = "elect"
          /\ UNCHANGED <<current, built, returned>>
      BY <2>1 DEF StepsTo, Stands, NothingElse
    <2>3. Top(t).run <= built /\ built \in Nat /\ ~Leads(Top(t))
      BY <2>2, TopOn DEF Ending, Numbered, TypeOK, Types, Leads, LeadAts
    <2>4. PICK at, r, w : at = "await" /\ r = Top(t).run /\ w = 0
      OBVIOUS
    <2>5. Turns(t, at, r, w) /\ at \notin LeadAts
      BY <2>2, <2>4, Zenon DEF LeadAts
    <2> QED
      BY <1>6, <2>2, <2>3, <2>4, <2>5, AsideTurn
  <1> QED
    BY <1>1, <1>2, <1>3, <1>4, <1>5, <1>6

LEMMA TrackerAside ==
  ASSUME TypeOK, Ending, NEW t \in Threads,
         LockFinish(t) \/ LockInit(t) \/ Publish(t) \/ Rollback(t) \/ Abandon(t)
  PROVE  Aside(t) /\ Beneath'
  <1>1. ASSUME NEW at, Stands(t, at), at \in {"lock", "build"}
        PROVE  ~Leads(Top(t)) /\ stack[t] # <<>> /\ Top(t).run <= built
    <2>1. ~Leads(Top(t)) /\ stack[t] # <<>>
      BY <1>1 DEF Leads, LeadAts, Stands
    <2> QED
      BY <2>1, TopOn DEF Ending, Numbered, TypeOK
  <1>2. CASE LockFinish(t)
    <2>1. /\ Stands(t, "lock") /\ UNCHANGED <<built, returned, shutdown>>
          /\ \/ Returns(t)
             \/ Turns(t, "elect", current, 0) /\ current' = current
      BY <1>2, LockFinishIs DEF NothingElse
    <2>2. ~Leads(Top(t))
      BY <1>1, <2>1
    <2>3. CASE Returns(t)
      BY <2>1, <2>2, <2>3, AsideReturn
    <2>4. CASE Turns(t, "elect", current, 0) /\ current' = current
      <3>1. PICK at, r, w : at = "elect" /\ r = current /\ w = 0
        OBVIOUS
      <3>2. Turns(t, at, r, w) /\ at \notin LeadAts
        BY <2>4, <3>1, Zenon DEF LeadAts
      <3>3. r <= built
        BY <3>1 DEF Ending, Numbered
      <3> QED
        BY <2>1, <2>2, <2>4, <3>2, <3>3, AsideTurn
    <2> QED
      BY <2>1, <2>3, <2>4
  <1>3. CASE LockInit(t)
    <2>1. /\ Stands(t, "lock") /\ UNCHANGED <<returned, shutdown>>
          /\ \/ Returns(t) /\ built' = built
             \/ Turns(t, "build", built', 0) /\ current' = current /\ built' = built + 1
      BY <1>3, LockInitIs
    <2>2. ~Leads(Top(t))
      BY <1>1, <2>1
    <2>3. CASE Returns(t) /\ built' = built
      BY <2>1, <2>2, <2>3, AsideReturn
    <2>4. CASE Turns(t, "build", built', 0) /\ current' = current /\ built' = built + 1
      <3>1. PICK at, r, w : at = "build" /\ r = built' /\ w = 0
        OBVIOUS
      <3>2. Turns(t, at, r, w) /\ at \notin LeadAts
        BY <2>4, <3>1, Zenon DEF LeadAts
      <3>3. r <= built'
        BY <2>4, <3>1 DEF TypeOK, Types
      <3> QED
        BY <2>1, <2>2, <2>4, <3>2, <3>3, AsideTurn
    <2> QED
      BY <2>1, <2>3, <2>4
  <1>4. CASE Publish(t)
    <2>1. /\ Stands(t, "build") /\ UNCHANGED <<built, returned, shutdown>>
          /\ Popped(t, Len(stack[t]) - 1) /\ current' = Top(t).run
      BY <1>4, PublishIs DEF NothingElse, Popped
    <2> QED
      BY <1>1, <2>1, AsidePop
  <1>5. CASE Rollback(t)
    <2>1. Stands(t, "build") /\ Returns(t) /\ UNCHANGED <<built, returned, shutdown>>
      BY <1>5, RollbackIs DEF NothingElse
    <2> QED
      BY <1>1, <2>1, AsideReturn
  <1>6. CASE Abandon(t)
    <2>1. Stands(t, "build") /\ Returns(t) /\ UNCHANGED <<built, returned, shutdown>>
      BY <1>6, AbandonIs
    <2> QED
      BY <1>1, <2>1, AsideReturn
  <1> QED
    BY <1>2, <1>3, <1>4, <1>5, <1>6

LEMMA InitEnding ==
  ASSUME Init
  PROVE  Ending
  <1>1. \A t \in Threads : Frames(stack[t]) = {} /\ Len(stack[t]) = 0
    BY DEF Init, Frames
  <1>2. \A r \in Runs : /\ shutdown[r].owner = NoOne /\ ~shutdown[r].done
                        /\ ~shutdown[r].error /\ shutdown[r].sinks = {}
    BY DEF Init
  <1>3. current = 0 /\ built = 0 /\ returned = {}
    BY DEF Init
  <1>4. Beneath
    BY <1>1 DEF Beneath, BeneathIn
  <1>5. Leading /\ Led
    BY <1>1, <1>2, LifecycleAssumption DEF Leading, Led
  <1>6. Numbered
    BY <1>1, <1>2, <1>3 DEF Numbered
  <1>7. Books
    BY <1>2, <1>3 DEF Books, BookIs
  <1> QED
    BY <1>4, <1>5, <1>6, <1>7 DEF Ending

LEMMA NextEnding ==
  ASSUME TypeOK, TypeOK', Delivery, Ending, [Next]_vars
  PROVE  Ending'
  <1>1. CASE UNCHANGED vars
    BY <1>1 DEF vars, ghosts, Ending, Beneath, Leading, Led, Numbered, Books
  <1>2. ASSUME NEW t \in Threads, Calls(t) \/ Advance(t) \/ Cut(t) PROVE Ending'
    <2>1. \A q \in Runs : Kept(q)
      BY <1>2, StoreKept
    <2>2. Aside(t) /\ Beneath' => Ending'
      BY <2>1, AsideEnding
    <2>3. CASE Calls(t)
      BY <2>2, <2>3, CallsAside
    <2>4. CASE Admit(t) \/ Take(t) \/ EndCallback(t) \/ Awaited(t)
      BY <2>2, <2>4, DeliveryAside
    <2>5. CASE Drained(t)
      <3>1. CASE Top(t).call \in {"log", "flush"}
        BY <2>2, <2>5, <3>1, DeliveryAside
      <3>2. CASE StepsTo(t, "drain", "writer")
        BY <2>1, <2>5, <3>2, LeadSteps
      <3> QED
        BY <2>5, <3>1, <3>2, DrainedIs
    <2>6. CASE Elect(t)
      <3>1. CASE shutdown' = shutdown
        BY <2>2, <2>6, <3>1, DeliveryAside
      <3>2. CASE shutdown' # shutdown
        <4>1. PICK r : r = Top(t).run
          OBVIOUS
        <4>2. /\ shutdown[r].owner = NoOne /\ StepsTo(t, "elect", "closing") /\ store' = store
              /\ OnlyShutdown(r) /\ shutdown'[r].owner = t
              /\ shutdown'[r].done = shutdown[r].done /\ shutdown'[r].error = shutdown[r].error
              /\ shutdown'[r].sinks = shutdown[r].sinks
          BY <2>6, <3>2, <4>1, ElectIs
        <4>3. PICK f : TurnedAs(f, t, "closing", Top(t).run, 0)
          BY <4>2, StepsAs
        <4>4. /\ f \in FrameSet /\ f.call = Top(t).call /\ f.at = "closing" /\ f.run = r /\ IsFrame(f)
              /\ Turned(t, f) /\ OnStep(t, {f}, {Top(t)})
          BY <4>1, <4>3 DEF TurnedAs
        <4>5. r \in Runs
          BY <4>2 DEF OnlyShutdown
        <4> QED
          BY <2>6, <4>1, <4>2, <4>4, <4>5, ElectEnding
      <3> QED
        BY <3>1, <3>2
    <2>7. CASE Closing(t) \/ CommitOpen(t) \/ CloseWriter(t) \/ CloseSink(t)
      BY <2>1, <2>7, LeadSteps
    <2>8. CASE Finished(t)
      BY <2>8, FinishedEnding
    <2>9. CASE LockFinish(t) \/ LockInit(t) \/ Publish(t) \/ Rollback(t) \/ Abandon(t)
      BY <2>2, <2>9, TrackerAside
    <2>10. CASE Cut(t)
      BY <2>1, <2>10, CutEnding
    <2> QED
      BY <1>2, <2>3, <2>4, <2>5, <2>6, <2>7, <2>8, <2>9, <2>10 DEF Advance
  <1> QED
    BY <1>1, <1>2 DEF Next, Rest

LEMMA EndingHolds == Spec => [](TypeOK /\ Delivery /\ Ending)
  <1>1. Init => TypeOK /\ Delivery /\ Ending
    BY InitTyped, InitDelivery, InitEnding
  <1>2. TypeOK /\ Delivery /\ Ending /\ [Next]_vars => (TypeOK /\ Delivery /\ Ending)'
    BY NextTyped, NextDelivery, NextEnding
  <1> QED
    BY <1>1, <1>2, PTL DEF Spec

\* Whoever is told that a run is finished may rely on it: its rows are delivered,
\* its writer closed, and then its sinks; and no sink is closed before that
\* (run.py, _finish).
THEOREM FinishedWhole == Spec => []ShutdownComplete
  <1>1. Ending => ShutdownComplete
    BY DEF Ending, Books, BookIs, Still, ShutdownComplete, Quiet
  <1> QED
    BY <1>1, EndingHolds, PTL

-----------------------------------------------------------------------------
(* Who holds the lock of the tracker                                       *)

\* A call of init() or finish() that got the lock.
Past(f) == Et(f) /\ f.at # "lock"

\* Never two of them on one stack.
SingleIn(q) == \A i, j \in 1..Len(q) : Et(q[i]) /\ Et(q[j]) => i = j
Single == \A t \in Threads : SingleIn(stack[t])

Locked ==
    /\ current \in {0, built}
    /\ \A t \in Threads : \A f \in Frames(stack[t]) :
         /\ Past(f) => lifecycle = t
         /\ Past(f) /\ f.call = "et.finish" => f.run = current
         /\ f.at = "build" => current = 0 /\ f.run = built

Holding == Single /\ Locked

LEMMA BuildIsPast ==
  ASSUME TypeOK, NEW t \in Threads, NEW f \in Frames(stack[t]), f.at = "build"
  PROVE  Past(f) /\ f.call = "et.init"
  <1>1. f \in FrameSet /\ IsFrame(f)
    BY OnFrames
  <1> QED
    BY <1>1 DEF FrameSet, CallNames, IsFrame, FinishAts, LeadAts, Past, Et

\* While a thread has the lock, or may take it, no other is past it.
LEMMA NoOther ==
  ASSUME Locked, NEW t \in Threads, lifecycle \in {NoOne, t}, NEW u \in Threads \ {t}, NEW f \in Frames(stack[u])
  PROVE  ~Past(f)
  BY LifecycleAssumption DEF Locked

\* Under the top of a stack there is at most a finish() that delivers rows.
LEMMA UnderEt ==
  ASSUME TypeOK, Holding, NEW t \in Threads, NEW i \in 1..Len(stack[t]), i # Len(stack[t]), Et(stack[t][i])
  PROVE  current \in Runs /\ InCallback(t, current)
  <1>1. i + 1 \in 1..Len(stack[t]) /\ Below(stack[t][i], stack[t][i + 1])
        /\ stack[t][i].at \in {"callback", "drain"}
    BY UnderIs DEF TypeOK
  <1>2. stack[t][i] \in Frames(stack[t])
    BY DEF Frames
  <1>3. stack[t][i] \in FrameSet /\ IsFrame(stack[t][i])
    BY <1>2, OnFrames
  <1>4. stack[t][i].call = "et.finish" /\ stack[t][i].at = "drain" /\ stack[t][i].run \in Runs
    BY <1>1, <1>3, RunsAre DEF Et, IsFrame, FrameSet
  <1>5. stack[t][i].run = current
    BY <1>2, <1>4 DEF Holding, Locked, Past, Et
  <1>6. stack[t][i + 1].call = "callback" /\ stack[t][i + 1].run = current
    BY <1>1, <1>4, <1>5 DEF Below
  <1>7. Range(stack[t]) = {stack[t][k] : k \in 1..Len(stack[t])}
    BY InStack DEF TypeOK
  <1> QED
    BY <1>1, <1>4, <1>5, <1>6, <1>7 DEF InCallback

LEMMA SingleStep ==
  ASSUME Types, Single, NEW t \in Threads, NEW n, NEW more, NEW f, Changes(t, n, more, f),
         more /\ Et(f) => \A i \in 1..n : ~Et(stack[t][i])
  PROVE  Single'
  <1>1. ASSUME NEW u \in Threads, NEW i \in 1..Len(stack'[u]), NEW j \in 1..Len(stack'[u]),
               Et(stack'[u][i]), Et(stack'[u][j])
        PROVE  i = j
    <2>1. n \in Nat
      BY DEF Changes, Types
    <2>2. \/ i \in 1..Len(stack[u]) /\ stack'[u][i] = stack[u][i] /\ (u = t => i <= n)
          \/ more /\ u = t /\ i = n + 1 /\ stack'[u][i] = f
      BY FrameIs
    <2>3. \/ j \in 1..Len(stack[u]) /\ stack'[u][j] = stack[u][j] /\ (u = t => j <= n)
          \/ more /\ u = t /\ j = n + 1 /\ stack'[u][j] = f
      BY FrameIs
    <2>4. CASE i \in 1..Len(stack[u]) /\ stack'[u][i] = stack[u][i]
               /\ j \in 1..Len(stack[u]) /\ stack'[u][j] = stack[u][j]
      BY <1>1, <2>4 DEF Single, SingleIn
    <2>5. CASE more /\ u = t /\ stack'[u][i] = f /\ stack'[u][j] = stack[u][j] /\ j \in 1..Len(stack[u]) /\ j <= n
      <3>1. j \in 1..n
        BY <2>1, <2>5
      <3> QED
        BY <1>1, <2>5, <3>1
    <2>6. CASE more /\ u = t /\ stack'[u][j] = f /\ stack'[u][i] = stack[u][i] /\ i \in 1..Len(stack[u]) /\ i <= n
      <3>1. i \in 1..n
        BY <2>1, <2>6
      <3> QED
        BY <1>1, <2>6, <3>1
    <2> QED
      BY <2>2, <2>3, <2>4, <2>5, <2>6
  <1> QED
    BY <1>1 DEF Single, SingleIn

LEMMA SinglePop ==
  ASSUME Types, Single, NEW t \in Threads, NEW n, Popped(t, n)
  PROVE  Single'
  <1>1. PICK f, more : Changes(t, n, more, f) /\ more = FALSE
    BY Zenon DEF Popped
  <1> QED
    BY <1>1, SingleStep

LEMMA SinglePush ==
  ASSUME Types, Single, NEW t \in Threads, NEW f, Pushed(t, f),
         Et(f) => \A i \in 1..Len(stack[t]) : ~Et(stack[t][i])
  PROVE  Single'
  <1>1. PICK n, more : Changes(t, n, more, f) /\ n = Len(stack[t])
    BY Zenon DEF Pushed
  <1> QED
    BY <1>1, SingleStep

\* The call on top, taken further, is the same call.
LEMMA SingleTurn ==
  ASSUME TypeOK, Single, NEW t \in Threads, NEW f, Turned(t, f), f.call = Top(t).call
  PROVE  Single'
  <1>1. PICK n, more : Changes(t, n, more, f) /\ n = Len(stack[t]) - 1
    BY Zenon DEF Turned
  <1>2. PICK m : m = Len(stack[t]) /\ m \in Nat /\ m \in 1..Len(stack[t]) /\ Top(t) = stack[t][m]
    BY TopIs DEF TypeOK, Turned
  <1>3. ASSUME NEW i \in 1..n, Et(f), Et(stack[t][i]) PROVE FALSE
    <2>1. i \in 1..Len(stack[t]) /\ i # m
      BY <1>1, <1>2
    <2>2. Et(stack[t][m])
      BY <1>2, <1>3 DEF Et
    <2> QED
      BY <1>2, <1>3, <2>1, <2>2 DEF Single, SingleIn
  <1>4. Et(f) => \A i \in 1..n : ~Et(stack[t][i])
    BY <1>3
  <1> QED
    BY <1>1, <1>4, SingleStep DEF TypeOK

\* No other call of the tracker is on a stack that has one on top.
LEMMA AloneUnder ==
  ASSUME TypeOK, Single, NEW t \in Threads, stack[t] # <<>>, Et(Top(t)), Popped(t, Len(stack[t]) - 1),
         NEW f \in Frames(stack'[t])
  PROVE  ~Et(f)
  <1>1. PICK m : m = Len(stack[t]) /\ m \in Nat /\ m \in 1..Len(stack[t]) /\ Top(t) = stack[t][m]
    BY TopIs DEF TypeOK
  <1>2. PICK n : n = Len(stack[t]) - 1
    OBVIOUS
  <1>3. Popped(t, n)
    BY <1>2, Zenon
  <1>4. PICK i \in 1..Len(stack'[t]) : f = stack'[t][i]
    BY DEF Frames
  <1>5. i \in 1..Len(stack[t]) /\ stack'[t][i] = stack[t][i] /\ i <= n
    BY <1>3, AfterPop DEF TypeOK
  <1>6. i # m
    BY <1>1, <1>2, <1>5
  <1> QED
    BY <1>1, <1>4, <1>5, <1>6 DEF Single, SingleIn

\* The same of a stack whose top is taken further: it is the new call.
LEMMA AloneAbove ==
  ASSUME TypeOK, Single, NEW t \in Threads, Et(Top(t)), NEW f, Turned(t, f), f.call = Top(t).call,
         NEW g \in Frames(stack'[t]), Et(g)
  PROVE  g = f
  <1>1. PICK m : m = Len(stack[t]) /\ m \in Nat /\ m \in 1..Len(stack[t]) /\ Top(t) = stack[t][m]
    BY TopIs DEF TypeOK, Turned
  <1>2. PICK i \in 1..Len(stack'[t]) : g = stack'[t][i]
    BY DEF Frames
  <1>3. \/ i \in 1..Len(stack[t]) /\ stack'[t][i] = stack[t][i] /\ i <= Len(stack[t]) - 1
        \/ stack'[t][i] = f
    BY AfterTurn DEF TypeOK
  <1>4. ~(i \in 1..Len(stack[t]) /\ stack'[t][i] = stack[t][i] /\ i <= m - 1)
    BY <1>1, <1>2 DEF Single, SingleIn
  <1> QED
    BY <1>1, <1>2, <1>3, <1>4

LEMMA HoldingPush ==
  ASSUME TypeOK, Holding, NEW t \in Threads, NEW f, Pushed(t, f), ~Past(f), f.at # "build",
         Et(f) => \A i \in 1..Len(stack[t]) : ~Et(stack[t][i]), UNCHANGED <<current, lifecycle, built>>
  PROVE  Holding'
  <1>1. OnStep(t, {f}, {})
    BY OnPush DEF TypeOK
  <1>2. Single'
    BY SinglePush DEF TypeOK, Holding
  <1>3. ASSUME NEW u \in Threads, NEW g \in Frames(stack'[u]) PROVE g \in Frames(stack[u]) \/ g = f
    BY <1>1 DEF OnStep
  <1>4. Locked'
    BY <1>3 DEF Holding, Locked
  <1> QED
    BY <1>2, <1>4 DEF Holding

LEMMA HoldingTurn ==
  ASSUME TypeOK, Holding, NEW t \in Threads, NEW f, Turned(t, f), f.call = Top(t).call, f.at # "build",
         Past(f) => Past(Top(t)) /\ f.run = Top(t).run, UNCHANGED <<current, lifecycle, built>>
  PROVE  Holding'
  <1>1. OnStep(t, {f}, {Top(t)}) /\ stack[t] # <<>>
    BY OnTurn DEF TypeOK, Turned
  <1>2. Single'
    BY SingleTurn DEF Holding
  <1>3. ASSUME NEW u \in Threads, NEW g \in Frames(stack'[u]) PROVE g \in Frames(stack[u]) \/ (g = f /\ u = t)
    BY <1>1 DEF OnStep
  <1>4. Top(t) \in Frames(stack[t])
    BY <1>1, TopOn DEF TypeOK
  <1>5. Past(f) => lifecycle = t /\ (f.call = "et.finish" => f.run = current)
    BY <1>4 DEF Holding, Locked
  <1>6. Locked'
    BY <1>3, <1>5 DEF Holding, Locked
  <1> QED
    BY <1>2, <1>6 DEF Holding

\* A call that returns gives the lock back, unless one under it has it.
LEMMA HoldingReturn ==
  ASSUME TypeOK, Holding, NEW t \in Threads, Returns(t), built' = built,
         Top(t).call = "et.finish" /\ Top(t).at = "lock" => current = 0
  PROVE  Holding'
  <1>1. stack[t] # <<>> /\ Popped(t, Len(stack[t]) - 1) /\ OnStep(t, {}, {Top(t)})
    BY OnReturns DEF Returns
  <1>2. PICK n : n = Len(stack[t]) - 1
    OBVIOUS
  <1>3. Popped(t, n)
    BY <1>1, <1>2, Zenon
  <1>4. Single'
    BY <1>3, SinglePop DEF TypeOK, Holding
  <1>5. ASSUME NEW u \in Threads, NEW f \in Frames(stack'[u]) PROVE f \in Frames(stack[u])
    BY <1>1 DEF OnStep
  <1>6. Top(t) \in Frames(stack[t])
    BY <1>1, TopOn DEF TypeOK
  <1>7. current' \in {0, built'} /\ (current = 0 => current' = 0)
    BY DEF Returns, Holding, Locked
  <1>8. ASSUME NEW u \in Threads, NEW f \in Frames(stack'[u]), Past(f) PROVE lifecycle' = u
    <2>1. lifecycle = u
      BY <1>5, <1>8 DEF Holding, Locked
    <2>2. lifecycle' = lifecycle
      <3>1. SUFFICES ASSUME lifecycle' # lifecycle PROVE FALSE
        OBVIOUS
      <3>2. u = t /\ \A i \in 1..n : ~Et(stack[t][i])
        BY <1>2, <2>1, <3>1 DEF Returns
      <3>3. PICK i \in 1..Len(stack'[u]) : f = stack'[u][i]
        BY DEF Frames
      <3>4. i \in 1..Len(stack[u]) /\ f = stack[u][i] /\ i <= n
        BY <1>3, <3>2, <3>3, AfterPop DEF TypeOK
      <3>5. i \in 1..n
        BY <1>2, <3>4 DEF TypeOK, Types
      <3> QED
        BY <1>8, <3>2, <3>4, <3>5 DEF Past
    <2> QED
      BY <2>1, <2>2
  <1>9. ASSUME NEW u \in Threads, NEW f \in Frames(stack'[u]), Past(f), f.call = "et.finish" PROVE f.run = current'
    <2>1. f.run = current /\ lifecycle = u
      BY <1>5, <1>9 DEF Holding, Locked
    <2>2. CASE Top(t).call # "et.finish"
      BY <2>1, <2>2 DEF Returns
    <2>3. CASE Top(t).call = "et.finish" /\ Top(t).at = "lock"
      BY <1>7, <2>1, <2>3
    <2>4. CASE Top(t).call = "et.finish" /\ Top(t).at # "lock"
      <3>1. Et(Top(t)) /\ Past(Top(t))
        BY <2>4 DEF Et, Past
      <3>2. lifecycle = t
        BY <1>6, <3>1 DEF Holding, Locked
      <3>3. ~Et(f)
        BY <1>1, <2>1, <3>1, <3>2, AloneUnder DEF Holding
      <3> QED
        BY <1>9, <3>3 DEF Past
    <2> QED
      BY <2>2, <2>3, <2>4
  <1>10. ASSUME NEW u \in Threads, NEW f \in Frames(stack'[u]), f.at = "build" PROVE current' = 0 /\ f.run = built'
    BY <1>5, <1>7, <1>10 DEF Holding, Locked
  <1>11. Locked'
    BY <1>7, <1>8, <1>9, <1>10 DEF Locked
  <1> QED
    BY <1>4, <1>11 DEF Holding

\* The lock is taken: by the only call that is past it.
LEMMA HoldingTake ==
  ASSUME TypeOK, Holding, NEW t \in Threads, Et(Top(t)), lifecycle \in {NoOne, t}, lifecycle' = t,
         NEW f, Turned(t, f), f.call = Top(t).call, OnStep(t, {f}, {Top(t)}),
         f.call = "et.finish" => f.run = current', f.at = "build" => current' = 0 /\ f.run = built',
         current' \in {0, built'}
  PROVE  Holding'
  <1>1. Single'
    BY SingleTurn DEF Holding
  <1>2. ASSUME NEW u \in Threads, NEW g \in Frames(stack'[u]), Past(g) PROVE u = t /\ g = f
    <2>1. CASE u = t
      BY <1>2, <2>1, AloneAbove DEF Past, Holding
    <2>2. CASE u # t
      <3>1. g \in Frames(stack[u])
        BY <2>2 DEF OnStep
      <3> QED
        BY <1>2, <2>2, <3>1, NoOther DEF Holding
    <2> QED
      BY <2>1, <2>2
  <1>3. ASSUME NEW u \in Threads, NEW g \in Frames(stack'[u]), g.at = "build" PROVE g = f
    <2>1. CASE g = f
      BY <2>1
    <2>2. CASE g \in Frames(stack[u])
      <3>1. Past(g)
        BY <1>3, <2>2, BuildIsPast
      <3> QED
        BY <1>2, <3>1
    <2> QED
      BY <2>1, <2>2 DEF OnStep
  <1>4. Locked'
    BY <1>2, <1>3 DEF Locked
  <1> QED
    BY <1>1, <1>4 DEF Holding

LEMMA HoldingPublish ==
  ASSUME TypeOK, Holding, NEW t \in Threads, Publish(t)
  PROVE  Holding'
  <1>1. /\ Stands(t, "build") /\ Top(t).call = "et.init" /\ built' = built
        /\ current' = Top(t).run /\ Popped(t, Len(stack[t]) - 1)
    BY PublishIs DEF NothingElse, Popped
  <1>2. stack[t] # <<>> /\ Top(t).at = "build" /\ Et(Top(t)) /\ Past(Top(t))
    BY <1>1 DEF Stands, Et, Past
  <1>3. Top(t) \in Frames(stack[t])
    BY <1>2, TopOn DEF TypeOK
  <1>4. lifecycle = t /\ current' = built'
    BY <1>1, <1>2, <1>3 DEF Holding, Locked
  <1>5. OnStep(t, {}, {Top(t)})
    BY <1>1, <1>2, OnPop DEF TypeOK
  <1>6. PICK n : n = Len(stack[t]) - 1
    OBVIOUS
  <1>7. Popped(t, n)
    BY <1>1, <1>6, Zenon
  <1>8. Single'
    BY <1>7, SinglePop DEF TypeOK, Holding
  <1>9. ASSUME NEW u \in Threads, NEW g \in Frames(stack'[u]) PROVE ~Past(g) /\ g.at # "build"
    <2>1. g \in Frames(stack[u])
      BY <1>5 DEF OnStep
    <2>2. ~Past(g)
      <3>1. CASE u = t
        BY <1>1, <1>2, <3>1, AloneUnder DEF Past, Holding
      <3>2. CASE u # t
        BY <1>4, <2>1, <3>2, NoOther DEF Holding
      <3> QED
        BY <3>1, <3>2
    <2> QED
      BY <2>1, <2>2, BuildIsPast
  <1>10. Locked'
    BY <1>4, <1>9 DEF Locked
  <1> QED
    BY <1>8, <1>10 DEF Holding

LEMMA HoldingCut ==
  ASSUME TypeOK, Holding, NEW t \in Threads, Cut(t)
  PROVE  Holding'
  <1>1. Dropped(t)
    BY UnwindIs
  <1>2. Popped(t, 0)
    BY <1>1, Zenon DEF Dropped, Popped
  <1>3. /\ Frames(stack'[t]) = {} /\ \A u \in Threads \ {t} : Frames(stack'[u]) = Frames(stack[u])
    BY <1>2, OnClear DEF TypeOK
  <1>4. Single'
    BY <1>2, SinglePop DEF TypeOK, Holding
  <1>5. /\ lifecycle' = IF lifecycle = t THEN NoOne ELSE lifecycle
        /\ current' = IF \E i \in 1..Len(stack[t]) : stack[t][i].call = "et.finish" THEN 0 ELSE current
        /\ built' = built /\ Top(t).at \in CutAts /\ stack[t] # <<>>
    BY <1>1 DEF Dropped
  <1>6. current' # current => lifecycle = t
    <2>1. SUFFICES ASSUME current' # current PROVE lifecycle = t
      OBVIOUS
    <2>2. PICK i \in 1..Len(stack[t]) : stack[t][i].call = "et.finish"
      BY <1>5, <2>1
    <2>3. stack[t][i].at # "lock"
      BY <1>5, TopIs, WaitsOnTop DEF TypeOK, CutAts
    <2>4. Past(stack[t][i]) /\ stack[t][i] \in Frames(stack[t])
      BY <2>2, <2>3 DEF Past, Et, Frames
    <2> QED
      BY <2>4 DEF Holding, Locked
  <1>7. ASSUME NEW u \in Threads, NEW g \in Frames(stack'[u]) PROVE u # t /\ g \in Frames(stack[u])
    BY <1>3
  <1>8. current' \in {0, built} /\ (current = 0 => current' = 0)
    BY <1>5 DEF Holding, Locked
  <1>9. ASSUME NEW u \in Threads, NEW g \in Frames(stack'[u]), Past(g)
        PROVE  lifecycle' = u /\ (g.call = "et.finish" => g.run = current')
    <2>1. lifecycle = u /\ (g.call = "et.finish" => g.run = current)
      BY <1>7, <1>9 DEF Holding, Locked
    <2> QED
      BY <1>5, <1>6, <1>7, <2>1
  <1>10. ASSUME NEW u \in Threads, NEW g \in Frames(stack'[u]), g.at = "build" PROVE current' = 0 /\ g.run = built'
    BY <1>5, <1>7, <1>8, <1>10 DEF Holding, Locked
  <1>11. Locked'
    BY <1>5, <1>8, <1>9, <1>10 DEF Locked
  <1> QED
    BY <1>4, <1>11 DEF Holding

\* init() and finish() are refused in a callback of the current run, so where one
\* begins there is none under it.
LEMMA CallsHolding ==
  ASSUME TypeOK, Holding, NEW t \in Threads, Calls(t)
  PROVE  Holding'
  <1>1. ASSUME NEW f, Enters(t, f), ~Past(f), f.at # "build",
               Et(f) => \A i \in 1..Len(stack[t]) : ~Et(stack[t][i])
        PROVE  Holding'
    <2>1. Pushed(t, f) /\ UNCHANGED <<current, lifecycle, built>>
      BY <1>1, OnEnters DEF Enters
    <2> QED
      BY <1>1, <2>1, HoldingPush
  <1>2. CASE Log(t)
    <2>1. PICK f : Enters(t, f) /\ f.call = "log" /\ f.at = "admit"
      BY <1>2, LogIs
    <2> QED
      BY <1>1, <2>1 DEF Past, Et
  <1>3. CASE Flush(t)
    <2>1. PICK f : Enters(t, f) /\ f.call = "flush" /\ f.at = "drain"
      BY <1>3, FlushIs
    <2> QED
      BY <1>1, <2>1 DEF Past, Et
  <1>4. CASE RunFinish(t)
    <2>1. PICK f : Enters(t, f) /\ f.call = "finish" /\ f.at = "elect"
      BY <1>4, RunFinishIs
    <2> QED
      BY <1>1, <2>1 DEF Past, Et
  <1>5. CASE EtCall(t)
    <2>1. PICK f : /\ Enters(t, f) /\ Et(f) /\ f.at = "lock" /\ (current # 0 => Outside(t, current))
      BY <1>5, EtCallIs
    <2>2. \A i \in 1..Len(stack[t]) : ~Et(stack[t][i])
      <3>1. SUFFICES ASSUME NEW i \in 1..Len(stack[t]), Et(stack[t][i]) PROVE FALSE
        OBVIOUS
      <3>2. stack[t] # <<>>
        BY DEF TypeOK, Types
      <3>3. At(t, "callback")
        BY <2>1, <3>2 DEF Enters, MayCall, Idle
      <3>4. Stands(t, "callback")
        BY <3>3, StandsIs
      <3>5. i # Len(stack[t])
        BY <3>1, <3>4 DEF Stands, IsFrame, Et
      <3>6. current \in Runs /\ InCallback(t, current)
        BY <3>1, <3>5, UnderEt
      <3> QED
        BY <2>1, <3>6, RunsAre DEF Outside
    <2> QED
      BY <1>1, <2>1, <2>2 DEF Past
  <1> QED
    BY <1>2, <1>3, <1>4, <1>5 DEF Calls

LEMMA StepsHolding ==
  ASSUME TypeOK, Holding, NEW t \in Threads, NEW at, NEW next, StepsTo(t, at, next)
  PROVE  at # "lock" /\ next # "build" => Holding'
  <1>1. PICK f : TurnedAs(f, t, next, Top(t).run, 0)
    BY StepsAs
  <1>2. UNCHANGED <<current, lifecycle, built>> /\ Top(t).at = at
    BY DEF StepsTo, NothingElse, Stands
  <1>3. SUFFICES ASSUME at # "lock", next # "build" PROVE Holding'
    OBVIOUS
  <1>4. /\ Turned(t, f) /\ f.call = Top(t).call /\ f.at # "build"
        /\ Past(f) => Past(Top(t)) /\ f.run = Top(t).run
    BY <1>1, <1>2, <1>3 DEF TurnedAs, Past, Et
  <1> QED
    BY <1>2, <1>4, HoldingTurn

LEMMA AdvanceHolding ==
  ASSUME TypeOK, Holding, NEW t \in Threads,
         \/ Admit(t) \/ Take(t) \/ EndCallback(t) \/ Drained(t) \/ Elect(t) \/ Closing(t)
         \/ CommitOpen(t) \/ CloseWriter(t) \/ CloseSink(t) \/ Finished(t) \/ Awaited(t)
  PROVE  Holding'
  <1>1. CASE Admit(t)
    <2>1. /\ Top(t).call = "log" /\ built' = built
          /\ \/ Returns(t)
             \/ \E w : Turns(t, "drain", Top(t).run, w) /\ UNCHANGED <<current, lifecycle>>
      BY <1>1, AdmitIs DEF NothingElse
    <2>2. CASE Returns(t)
      BY <2>1, <2>2, HoldingReturn
    <2>3. CASE \E w : Turns(t, "drain", Top(t).run, w) /\ UNCHANGED <<current, lifecycle>>
      <3>1. PICK w : Turns(t, "drain", Top(t).run, w) /\ UNCHANGED <<current, lifecycle>>
        BY <2>3
      <3>2. PICK f : TurnedAs(f, t, "drain", Top(t).run, w)
        BY <3>1, TurnsAs
      <3>3. Turned(t, f) /\ f.call = Top(t).call /\ f.at # "build" /\ ~Past(f)
        BY <2>1, <3>2 DEF TurnedAs, Past, Et
      <3> QED
        BY <2>1, <3>1, <3>3, HoldingTurn
    <2> QED
      BY <2>1, <2>2, <2>3
  <1>2. CASE Take(t)
    <2>1. PICK f \in FrameSet : Changes(t, Len(stack[t]), TRUE, f) /\ IsFrame(f) /\ Calling(f, Top(t).run)
      BY <1>2, TakeIs
    <2>2. UNCHANGED <<current, lifecycle, built>>
      BY <1>2, TakeIs DEF NothingElse
    <2>3. f.call = "callback" /\ f.at = "callback"
      BY <2>1 DEF Calling, IsFrame
    <2>4. Pushed(t, f)
      BY <2>1, Zenon DEF Pushed
    <2>5. ~Et(f) /\ ~Past(f) /\ f.at # "build"
      BY <2>3 DEF Past, Et
    <2> QED
      BY <2>2, <2>4, <2>5, HoldingPush
  <1>3. CASE EndCallback(t)
    <2>1. Returns(t) /\ Top(t).call = "callback" /\ built' = built
      BY <1>3, EndCallbackIs DEF NothingElse
    <2> QED
      BY <2>1, HoldingReturn
  <1>4. CASE Drained(t)
    <2>1. \/ Top(t).call \in {"log", "flush"} /\ Returns(t) /\ built' = built
          \/ StepsTo(t, "drain", "writer")
      BY <1>4, DrainedIs DEF NothingElse
    <2>2. CASE StepsTo(t, "drain", "writer")
      BY <2>2, StepsHolding
    <2>3. CASE Top(t).call \in {"log", "flush"} /\ Returns(t) /\ built' = built
      BY <2>3, HoldingReturn
    <2> QED
      BY <2>1, <2>2, <2>3
  <1>5. CASE Elect(t)
    <2>1. StepsTo(t, "elect", "closing") \/ StepsTo(t, "elect", "await")
      BY <1>5, ElectIs
    <2>2. CASE StepsTo(t, "elect", "closing")
      BY <2>2, StepsHolding
    <2>3. CASE StepsTo(t, "elect", "await")
      BY <2>3, StepsHolding
    <2> QED
      BY <2>1, <2>2, <2>3
  <1>6. CASE Closing(t)
    <2>1. StepsTo(t, "closing", "commit")
      BY <1>6, ClosingIs
    <2> QED
      BY <2>1, StepsHolding
  <1>7. CASE CommitOpen(t)
    <2>1. StepsTo(t, "commit", "drain")
      BY <1>7, CommitOpenIs
    <2> QED
      BY <2>1, StepsHolding
  <1>8. CASE CloseWriter(t)
    <2>1. StepsTo(t, "writer", "summary")
      BY <1>8, CloseWriterIs
    <2> QED
      BY <2>1, StepsHolding
  <1>9. CASE CloseSink(t)
    <2>1. PICK at \in Sinks : StepsTo(t, at, AfterSink(at))
      BY <1>9, CloseSinkIs
    <2>2. at # "lock" /\ AfterSink(at) # "build"
      BY DEF Sinks, AfterSink
    <2> QED
      BY <2>1, <2>2, StepsHolding
  <1>10. CASE Finished(t) \/ Awaited(t)
    <2>1. Returns(t) /\ built' = built /\ (Stands(t, "done") \/ Stands(t, "await"))
      BY <1>10, FinishedIs, AwaitedIs
    <2>2. Top(t).at # "lock"
      BY <2>1 DEF Stands
    <2> QED
      BY <2>1, <2>2, HoldingReturn
  <1> QED
    BY <1>1, <1>2, <1>3, <1>4, <1>5, <1>6, <1>7, <1>8, <1>9, <1>10

LEMMA TrackerHolding ==
  ASSUME TypeOK, Holding, NEW t \in Threads,
         LockFinish(t) \/ LockInit(t) \/ Publish(t) \/ Rollback(t) \/ Abandon(t)
  PROVE  Holding'
  <1>1. CASE LockFinish(t)
    <2>1. /\ Top(t).call = "et.finish" /\ lifecycle \in {NoOne, t} /\ built' = built
          /\ \/ current = 0 /\ Returns(t)
             \/ Turns(t, "elect", current, 0) /\ lifecycle' = t /\ current' = current
      BY <1>1, LockFinishIs DEF NothingElse
    <2>2. CASE current = 0 /\ Returns(t)
      BY <2>1, <2>2, HoldingReturn
    <2>3. CASE Turns(t, "elect", current, 0) /\ lifecycle' = t /\ current' = current
      <3>1. PICK f : TurnedAs(f, t, "elect", current, 0)
        BY <2>3, TurnsAs
      <3>2. /\ Turned(t, f) /\ f.call = Top(t).call /\ OnStep(t, {f}, {Top(t)})
            /\ f.run = current' /\ f.at # "build" /\ Et(Top(t))
        BY <2>1, <2>3, <3>1 DEF TurnedAs, Et
      <3>3. current' \in {0, built'}
        BY <2>1, <2>3 DEF Holding, Locked
      <3> QED
        BY <2>1, <2>3, <3>2, <3>3, HoldingTake
    <2> QED
      BY <2>1, <2>2, <2>3
  <1>2. CASE LockInit(t)
    <2>1. /\ Top(t).call = "et.init" /\ lifecycle \in {NoOne, t}
          /\ \/ Returns(t) /\ built' = built
             \/ Turns(t, "build", built', 0) /\ Vacant /\ lifecycle' = t /\ current' = current
      BY <1>2, LockInitIs
    <2>2. CASE Returns(t) /\ built' = built
      BY <2>1, <2>2, HoldingReturn
    <2>3. CASE Turns(t, "build", built', 0) /\ Vacant /\ lifecycle' = t /\ current' = current
      <3>1. PICK b : b = built'
        OBVIOUS
      <3>2. Turns(t, "build", b, 0)
        BY <2>3, <3>1, Zenon
      <3>3. PICK f : TurnedAs(f, t, "build", b, 0)
        BY <3>2, TurnsAs
      <3>4. /\ Turned(t, f) /\ f.call = Top(t).call /\ OnStep(t, {f}, {Top(t)})
            /\ f.run = built' /\ f.call # "et.finish" /\ Et(Top(t))
        BY <2>1, <3>1, <3>3 DEF TurnedAs, Et
      <3>5. current' = 0
        BY <2>3 DEF Vacant
      <3> QED
        BY <2>1, <2>3, <3>4, <3>5, HoldingTake
    <2> QED
      BY <2>1, <2>2, <2>3
  <1>3. CASE Publish(t)
    BY <1>3, HoldingPublish
  <1>4. CASE Rollback(t)
    <2>1. Returns(t) /\ built' = built /\ Top(t).call = "et.init"
      BY <1>4, RollbackIs DEF NothingElse
    <2> QED
      BY <2>1, HoldingReturn
  <1>5. CASE Abandon(t)
    <2>1. Returns(t) /\ built' = built /\ Top(t).call = "et.init"
      BY <1>5, AbandonIs
    <2> QED
      BY <2>1, HoldingReturn
  <1> QED
    BY <1>1, <1>2, <1>3, <1>4, <1>5

LEMMA NextHolding ==
  ASSUME TypeOK, Holding, [Next]_vars
  PROVE  Holding'
  <1>1. CASE UNCHANGED vars
    BY <1>1 DEF vars, Holding, Single, Locked
  <1>2. ASSUME NEW t \in Threads, Calls(t) \/ Cut(t) PROVE Holding'
    BY <1>2, CallsHolding, HoldingCut
  <1>3. ASSUME NEW t \in Threads, Advance(t) PROVE Holding'
    BY <1>3, AdvanceHolding, TrackerHolding DEF Advance
  <1> QED
    BY <1>1, <1>2, <1>3 DEF Next, Rest

LEMMA InitHolding ==
  ASSUME Init
  PROVE  Holding
  <1>1. \A t \in Threads : Frames(stack[t]) = {} /\ Len(stack[t]) = 0
    BY DEF Init, Frames
  <1>2. current = 0
    BY DEF Init
  <1> QED
    BY <1>1, <1>2 DEF Holding, Single, SingleIn, Locked

-----------------------------------------------------------------------------
(* Whose writer is open                                                    *)

BuildingIn(stacks, q) == \E u \in Threads : \E f \in Frames(stacks[u]) : f.at = "build" /\ f.run = q

\* An open writer belongs to the current run, to one in construction or to one
\* that was abandoned; a shutdown that is over closed its writer, or abandoned it.
Writers ==
    \A q \in Runs :
        /\ store[q].writer = "open" /\ q \notin abandoned => q = current \/ BuildingIn(stack, q)
        /\ shutdown[q].done => store[q].writer = "closed" \/ q \in abandoned
        /\ q > built => store[q].writer = "none"

\* What a step may do to a run.
Orderly(q) ==
    /\ \/ store'[q].writer = store[q].writer
       \/ store'[q].writer = "closed" /\ q <= built
       \/ q = built + 1 /\ built' = built + 1 /\ BuildingIn(stack', q)
    /\ shutdown'[q].done => shutdown[q].done \/ store'[q].writer = "closed" \/ q \in abandoned'
    /\ BuildingIn(stack, q) =>
         BuildingIn(stack', q) \/ store'[q].writer = "closed" \/ current' = q \/ q \in abandoned'
    /\ q = current => current' = q \/ store'[q].writer = "closed" \/ q \in abandoned'

LEMMA OrderlyWriters ==
  ASSUME TypeOK, Writers, abandoned \subseteq abandoned', built' \in {built, built + 1}, \A q \in Runs : Orderly(q)
  PROVE  Writers'
  <1>1. ASSUME NEW q \in Runs
        PROVE  /\ store'[q].writer = "open" /\ q \notin abandoned' => q = current' \/ BuildingIn(stack', q)
               /\ shutdown'[q].done => store'[q].writer = "closed" \/ q \in abandoned'
               /\ q > built' => store'[q].writer = "none"
    <2>1. q \in Int /\ built \in Nat /\ built' \in Nat
      BY DEF Runs, TypeOK, Types
    <2>2. CASE store'[q].writer = store[q].writer
      BY <2>1, <2>2 DEF Writers, Orderly
    <2>3. CASE store'[q].writer = "closed" /\ q <= built
      BY <2>1, <2>3
    <2>4. CASE q = built + 1 /\ built' = built + 1 /\ BuildingIn(stack', q)
      <3>1. q > built /\ ~(q > built')
        BY <2>1, <2>4
      <3>2. shutdown[q].done => q \in abandoned'
        BY <3>1 DEF Writers
      <3> QED
        BY <2>4, <3>1, <3>2 DEF Orderly
    <2> QED
      BY <2>2, <2>3, <2>4 DEF Orderly
  <1> QED
    BY <1>1 DEF Writers, BuildingIn

\* A step that opens no writer and ends no construction.
Tidy(t) ==
    /\ \E new, old : OnStep(t, new, old) /\ \A f \in old : f.at # "build"
    /\ built' = built /\ abandoned' = abandoned
    /\ \A q \in Runs : \/ store'[q].writer = store[q].writer
                       \/ store'[q].writer = "closed" /\ q <= built
    /\ \A q \in Runs : shutdown'[q].done => shutdown[q].done \/ store'[q].writer = "closed"
    /\ current \in Runs => current' = current \/ current \in abandoned \/ store'[current].writer = "closed"

LEMMA TidyWriters ==
  ASSUME TypeOK, Writers, NEW t \in Threads, Tidy(t)
  PROVE  Writers'
  <1>1. PICK new, old : OnStep(t, new, old) /\ \A f \in old : f.at # "build"
    BY DEF Tidy
  <1>2. ASSUME NEW q \in Runs PROVE Orderly(q)
    <2>1. BuildingIn(stack, q) => BuildingIn(stack', q)
      <3>1. ASSUME NEW u \in Threads, NEW f \in Frames(stack[u]), f.at = "build" PROVE f \in Frames(stack'[u])
        BY <1>1, <3>1 DEF OnStep
      <3> QED
        BY <3>1 DEF BuildingIn
    <2> QED
      BY <2>1 DEF Tidy, Orderly
  <1> QED
    BY <1>2, OrderlyWriters DEF Tidy

LEMMA SameWriters ==
  ASSUME TypeOK
  PROVE  /\ store' = store => \A q \in Runs : store'[q].writer = store[q].writer
         /\ \A r : OnlyStore(r) /\ SameEnd(r) => \A q \in Runs : store'[q].writer = store[q].writer
  BY DEF OnlyStore, SameEnd

LEMMA SameDone ==
  ASSUME shutdown' = shutdown \/ \E r : OnlyShutdown(r) /\ shutdown'[r].done = shutdown[r].done
  PROVE  \A q \in Runs : shutdown'[q].done => shutdown[q].done
  BY DEF OnlyShutdown

LEMMA TidyReturn ==
  ASSUME TypeOK, NEW t \in Threads, Returns(t), Top(t).at # "build", UNCHANGED <<built, abandoned>>,
         \A q \in Runs : store'[q].writer = store[q].writer,
         \A q \in Runs : shutdown'[q].done => shutdown[q].done \/ store'[q].writer = "closed",
         Top(t).call = "et.finish" /\ current \in Runs => current \in abandoned \/ store[current].writer = "closed"
  PROVE  Tidy(t)
  <1>1. OnStep(t, {}, {Top(t)})
    BY OnReturns
  <1>2. current \in Runs => current' = current \/ current \in abandoned \/ store'[current].writer = "closed"
    BY DEF Returns
  <1> QED
    BY <1>1, <1>2 DEF Tidy

LEMMA TidyTurn ==
  ASSUME TypeOK, NEW t \in Threads, NEW at, NEW r, NEW w, Turns(t, at, r, w)
  PROVE  /\ Top(t).at # "build" /\ UNCHANGED <<built, abandoned, current>>
         /\ \A q \in Runs : \/ store'[q].writer = store[q].writer
                            \/ store'[q].writer = "closed" /\ q <= built
         /\ \A q \in Runs : shutdown'[q].done => shutdown[q].done
         => Tidy(t)
  <1>1. PICK f : TurnedAs(f, t, at, r, w)
    BY TurnsAs
  <1>2. OnStep(t, {f}, {Top(t)})
    BY <1>1 DEF TurnedAs
  <1> QED
    BY <1>2 DEF Tidy

LEMMA TidySteps ==
  ASSUME TypeOK, NEW t \in Threads, NEW at, NEW next, StepsTo(t, at, next)
  PROVE  /\ at # "build"
         /\ \A q \in Runs : \/ store'[q].writer = store[q].writer
                            \/ store'[q].writer = "closed" /\ q <= built
         /\ \A q \in Runs : shutdown'[q].done => shutdown[q].done
         => Tidy(t)
  <1>1. Turns(t, next, Top(t).run, 0) /\ UNCHANGED <<built, abandoned, current>> /\ Top(t).at = at
    BY DEF StepsTo, NothingElse, Stands
  <1>2. PICK f : TurnedAs(f, t, next, Top(t).run, 0)
    BY StepsAs
  <1>3. OnStep(t, {f}, {Top(t)})
    BY <1>2 DEF TurnedAs
  <1> QED
    BY <1>1, <1>3 DEF Tidy

LEMMA CallsTidy ==
  ASSUME TypeOK, NEW t \in Threads, Calls(t)
  PROVE  Tidy(t)
  <1>1. ASSUME NEW f, Enters(t, f), \A q \in Runs : store'[q].writer = store[q].writer
        PROVE  Tidy(t)
    <2>1. OnStep(t, {f}, {}) /\ UNCHANGED <<current, built, shutdown, abandoned>>
      BY <1>1, OnEnters DEF Enters
    <2> QED
      BY <1>1, <2>1 DEF Tidy
  <1>2. CASE Flush(t)
    <2>1. PICK f : Enters(t, f) /\ CommitsOpen(f.run)
      BY <1>2, FlushIs
    <2>2. \A q \in Runs : store'[q].writer = store[q].writer
      BY <2>1, SameWriters DEF CommitsOpen
    <2> QED
      BY <1>1, <2>1, <2>2
  <1>3. CASE ~Flush(t)
    <2>1. \E f : Enters(t, f) /\ store' = store
      BY <1>3, LogIs, RunFinishIs, EtCallIs DEF Calls
    <2> QED
      BY <1>1, <2>1, SameWriters
  <1> QED
    BY <1>2, <1>3

LEMMA DeliveryTidy ==
  ASSUME TypeOK, NEW t \in Threads,
         Admit(t) \/ Take(t) \/ EndCallback(t) \/ Drained(t) \/ Elect(t) \/ Closing(t) \/ CommitOpen(t)
  PROVE  Tidy(t)
  <1> DEFINE Same == \A q \in Runs : store'[q].writer = store[q].writer
  <1>1. shutdown' = shutdown => \A q \in Runs : shutdown'[q].done => shutdown[q].done
    OBVIOUS
  <1>2. CASE Admit(t)
    <2>1. /\ Stands(t, "admit") /\ Top(t).call = "log" /\ NothingElse /\ shutdown' = shutdown
          /\ store' = store \/ (OnlyStore(Top(t).run) /\ SameEnd(Top(t).run))
          /\ \/ Returns(t)
             \/ \E w : Turns(t, "drain", Top(t).run, w) /\ current' = current
      BY <1>2, AdmitIs
    <2>2. Same /\ Top(t).at # "build" /\ UNCHANGED <<built, abandoned>>
      BY <2>1, SameWriters DEF NothingElse, Stands
    <2>3. CASE Returns(t)
      BY <1>1, <2>1, <2>2, <2>3, TidyReturn
    <2>4. CASE \E w : Turns(t, "drain", Top(t).run, w) /\ current' = current
      <3>1. PICK w : Turns(t, "drain", Top(t).run, w) /\ current' = current
        BY <2>4
      <3>2. Tidy(t)
        <4>1. PICK f : TurnedAs(f, t, "drain", Top(t).run, w)
          BY <3>1, TurnsAs
        <4>2. OnStep(t, {f}, {Top(t)})
          BY <4>1 DEF TurnedAs
        <4> QED
          BY <1>1, <2>1, <2>2, <3>1, <4>2 DEF Tidy
      <3> QED
        BY <3>2
    <2> QED
      BY <2>1, <2>3, <2>4
  <1>3. CASE Take(t)
    <2>1. PICK f \in FrameSet : Changes(t, Len(stack[t]), TRUE, f)
      BY <1>3, TakeIs
    <2>2. /\ UNCHANGED <<current, built, shutdown, abandoned>>
          /\ OnlyStore(Top(t).run) /\ SameEnd(Top(t).run)
      BY <1>3, TakeIs DEF NothingElse
    <2>3. Pushed(t, f)
      BY <2>1, Zenon DEF Pushed
    <2>4. OnStep(t, {f}, {})
      BY <2>3, OnPush DEF TypeOK
    <2>5. Same
      BY <2>2, SameWriters
    <2> QED
      BY <1>1, <2>2, <2>4, <2>5 DEF Tidy
  <1>4. CASE EndCallback(t)
    <2>1. /\ Stands(t, "callback") /\ Top(t).call = "callback" /\ NothingElse /\ shutdown' = shutdown
          /\ Returns(t) /\ OnlyStore(Top(t).run) /\ SameEnd(Top(t).run)
      BY <1>4, EndCallbackIs
    <2>2. Same /\ Top(t).at # "build" /\ UNCHANGED <<built, abandoned>>
      BY <2>1, SameWriters DEF NothingElse, Stands
    <2> QED
      BY <1>1, <2>1, <2>2, TidyReturn
  <1>5. CASE Drained(t)
    <2>1. /\ Stands(t, "drain") /\ NothingElse /\ UNCHANGED <<store, shutdown>>
          /\ \/ Top(t).call \in {"log", "flush"} /\ Returns(t)
             \/ StepsTo(t, "drain", "writer")
      BY <1>5, DrainedIs
    <2>2. Same /\ Top(t).at # "build" /\ UNCHANGED <<built, abandoned>>
      BY <2>1, SameWriters DEF NothingElse, Stands
    <2>3. CASE Top(t).call \in {"log", "flush"} /\ Returns(t)
      BY <1>1, <2>1, <2>2, <2>3, TidyReturn
    <2>4. CASE StepsTo(t, "drain", "writer")
      BY <1>1, <2>1, <2>2, <2>4, TidySteps
    <2> QED
      BY <2>1, <2>3, <2>4
  <1>6. CASE Elect(t)
    <2>1. Same
      BY <1>6, ElectIs, SameWriters
    <2>2. \A q \in Runs : shutdown'[q].done => shutdown[q].done
      BY <1>6, ElectIs, SameDone
    <2>3. CASE StepsTo(t, "elect", "closing")
      BY <2>1, <2>2, <2>3, TidySteps
    <2>4. CASE StepsTo(t, "elect", "await")
      BY <2>1, <2>2, <2>4, TidySteps
    <2> QED
      BY <1>6, <2>3, <2>4, ElectIs
  <1>7. CASE Closing(t)
    <2>1. /\ StepsTo(t, "closing", "commit") /\ shutdown' = shutdown
          /\ OnlyStore(Top(t).run) /\ store'[Top(t).run].writer = store[Top(t).run].writer
      BY <1>7, ClosingIs
    <2>2. Same
      BY <2>1 DEF OnlyStore
    <2> QED
      BY <1>1, <2>1, <2>2, TidySteps
  <1>8. CASE CommitOpen(t)
    <2>1. StepsTo(t, "commit", "drain") /\ shutdown' = shutdown /\ CommitsOpen(Top(t).run)
      BY <1>8, CommitOpenIs
    <2>2. Same
      BY <2>1, SameWriters DEF CommitsOpen
    <2> QED
      BY <1>1, <2>1, <2>2, TidySteps
  <1> QED
    BY <1>2, <1>3, <1>4, <1>5, <1>6, <1>7, <1>8

LEMMA FinishTidy ==
  ASSUME TypeOK, Ending, Holding, Writers, NEW t \in Threads,
         CloseWriter(t) \/ CloseSink(t) \/ Finished(t) \/ Awaited(t)
  PROVE  Tidy(t)
  <1>1. CASE CloseWriter(t)
    <2>1. /\ StepsTo(t, "writer", "summary") /\ shutdown' = shutdown
          /\ OnlyStore(Top(t).run) /\ store'[Top(t).run].writer = "closed"
      BY <1>1, CloseWriterIs
    <2>2. Top(t).run <= built
      BY <2>1, AtLead DEF LeadAts, StepsTo
    <2>3. \A q \in Runs : \/ store'[q].writer = store[q].writer
                          \/ store'[q].writer = "closed" /\ q <= built
      BY <2>1, <2>2 DEF OnlyStore
    <2> QED
      BY <2>1, <2>3, TidySteps
  <1>2. CASE CloseSink(t)
    <2>1. PICK at \in Sinks : at = Top(t).at /\ StepsTo(t, at, AfterSink(at)) /\ store' = store
      BY <1>2, CloseSinkIs
    <2>2. \A q \in Runs : shutdown'[q].done => shutdown[q].done
      BY <1>2, CloseSinkIs, SameDone
    <2>3. at # "build" /\ \A q \in Runs : store'[q].writer = store[q].writer
      BY <2>1, SameWriters DEF Sinks
    <2> QED
      BY <2>1, <2>2, <2>3, TidySteps
  <1>3. CASE Finished(t)
    <2>1. /\ Stands(t, "done") /\ Ends(Top(t)) /\ Returns(t) /\ UNCHANGED <<built, store, abandoned>>
          /\ OnlyShutdown(Top(t).run)
      BY <1>3, FinishedIs
    <2>2. store[Top(t).run].writer = "closed"
      BY <2>1, AtLead DEF LeadAts, LeadIs
    <2>3. Top(t) \in Frames(stack[t]) /\ Top(t).at = "done"
      BY <2>1, TopOn DEF TypeOK, Stands
    <2>4. Top(t).call = "et.finish" => Top(t).run = current
      BY <2>3 DEF Past, Et, Holding, Locked
    <2>5. \A q \in Runs : shutdown'[q].done => shutdown[q].done \/ store'[q].writer = "closed"
      BY <2>1, <2>2 DEF OnlyShutdown
    <2>6. \A q \in Runs : store'[q].writer = store[q].writer
      BY <2>1
    <2> QED
      BY <2>1, <2>2, <2>3, <2>4, <2>5, <2>6, TidyReturn
  <1>4. CASE Awaited(t)
    <2>1. /\ Stands(t, "await") /\ Returns(t) /\ UNCHANGED <<built, store, shutdown, abandoned>>
          /\ shutdown[Top(t).run].done
      BY <1>4, AwaitedIs
    <2>2. Top(t) \in Frames(stack[t]) /\ Top(t).at = "await"
      BY <2>1, TopOn DEF TypeOK, Stands
    <2>3. Top(t).call = "et.finish" => Top(t).run = current
      BY <2>2 DEF Past, Et, Holding, Locked
    <2>4. Top(t).call = "et.finish" /\ current \in Runs => current \in abandoned \/ store[current].writer = "closed"
      BY <2>1, <2>3 DEF Writers
    <2>5. \A q \in Runs : store'[q].writer = store[q].writer
      BY <2>1
    <2> QED
      BY <2>1, <2>2, <2>4, <2>5, TidyReturn
  <1> QED
    BY <1>1, <1>2, <1>3, <1>4

\* The run in construction is the last one, and no run is current meanwhile.
LEMMA OneBuilding ==
  ASSUME TypeOK, Holding, NEW t \in Threads, Stands(t, "build")
  PROVE  /\ current = 0 /\ Top(t).run = built /\ built \in Runs
         /\ \A q \in Runs : BuildingIn(stack, q) => q = built
  <1>1. Top(t) \in Frames(stack[t]) /\ Top(t).at = "build" /\ Top(t).run \in Runs
    BY TopOn DEF TypeOK, Stands
  <1>2. current = 0 /\ Top(t).run = built
    BY <1>1 DEF Holding, Locked
  <1>3. \A q \in Runs : BuildingIn(stack, q) => q = built
    BY DEF Holding, Locked, BuildingIn
  <1> QED
    BY <1>1, <1>2, <1>3

LEMMA TrackerWriters ==
  ASSUME TypeOK, Holding, Writers, NEW t \in Threads,
         LockFinish(t) \/ LockInit(t) \/ Publish(t) \/ Rollback(t) \/ Abandon(t)
  PROVE  Writers'
  <1>1. CASE LockFinish(t)
    <2>1. /\ Stands(t, "lock") /\ NothingElse /\ UNCHANGED <<store, shutdown>>
          /\ \/ current = 0 /\ Returns(t)
             \/ Turns(t, "elect", current, 0) /\ current' = current
      BY <1>1, LockFinishIs
    <2>2. /\ \A q \in Runs : store'[q].writer = store[q].writer
          /\ \A q \in Runs : shutdown'[q].done => shutdown[q].done
          /\ Top(t).at # "build" /\ UNCHANGED <<built, abandoned>>
      BY <2>1 DEF Stands, NothingElse
    <2>3. CASE current = 0 /\ Returns(t)
      <3>1. Tidy(t)
        BY <2>2, <2>3, RunsAre, TidyReturn
      <3> QED
        BY <3>1, TidyWriters
    <2>4. CASE Turns(t, "elect", current, 0) /\ current' = current
      <3>1. Tidy(t)
        BY <2>2, <2>4, TidyTurn
      <3> QED
        BY <3>1, TidyWriters
    <2> QED
      BY <2>1, <2>3, <2>4
  <1>2. CASE LockInit(t)
    <2>1. /\ Stands(t, "lock") /\ Top(t).call = "et.init" /\ UNCHANGED <<shutdown, abandoned>>
          /\ \/ Returns(t) /\ UNCHANGED <<built, store>>
             \/ /\ built' = built + 1 /\ built' \in Runs /\ current' = current
                /\ Turns(t, "build", built', 0) /\ OnlyStore(built')
      BY <1>2, LockInitIs
    <2>2. CASE Returns(t) /\ UNCHANGED <<built, store>>
      <3>1. Tidy(t)
        BY <2>1, <2>2, TidyReturn DEF Stands
      <3> QED
        BY <3>1, TidyWriters
    <2>3. CASE /\ built' = built + 1 /\ built' \in Runs /\ current' = current
               /\ Turns(t, "build", built', 0) /\ OnlyStore(built')
      <3>1. PICK b : b = built'
        OBVIOUS
      <3>2. Turns(t, "build", b, 0)
        BY <2>3, <3>1, Zenon
      <3>3. PICK f : TurnedAs(f, t, "build", b, 0)
        BY <3>2, TurnsAs
      <3>4. f.at = "build" /\ f.run = b /\ OnStep(t, {f}, {Top(t)})
        BY <3>3 DEF TurnedAs
      <3>5. BuildingIn(stack', b)
        BY <3>4 DEF OnStep, BuildingIn
      <3>6. Top(t).at = "lock"
        BY <2>1 DEF Stands
      <3>7. ASSUME NEW q \in Runs, BuildingIn(stack, q) PROVE BuildingIn(stack', q)
        <4>1. PICK u \in Threads : \E g \in Frames(stack[u]) : g.at = "build" /\ g.run = q
          BY <3>7 DEF BuildingIn
        <4>2. PICK g \in Frames(stack[u]) : g.at = "build" /\ g.run = q
          BY <4>1
        <4>3. g \in Frames(stack'[u])
          BY <3>4, <3>6, <4>2 DEF OnStep
        <4> QED
          BY <4>2, <4>3 DEF BuildingIn
      <3>8. ASSUME NEW q \in Runs PROVE Orderly(q)
        <4>1. q # b => store'[q] = store[q]
          BY <2>3, <3>1 DEF OnlyStore
        <4> QED
          BY <2>1, <2>3, <3>1, <3>5, <3>7, <4>1 DEF Orderly
      <3> QED
        BY <2>1, <2>3, <3>8, OrderlyWriters
    <2> QED
      BY <2>1, <2>2, <2>3
  <1>3. CASE Publish(t)
    <2>1. Stands(t, "build") /\ UNCHANGED <<store, shutdown, built, abandoned>> /\ current' = Top(t).run
      BY <1>3, PublishIs DEF NothingElse
    <2>2. ASSUME NEW q \in Runs PROVE Orderly(q)
      BY <2>1, OneBuilding, RunsAre DEF Orderly
    <2> QED
      BY <2>1, <2>2, OrderlyWriters
  <1>4. CASE Rollback(t)
    <2>1. /\ Stands(t, "build") /\ UNCHANGED <<shutdown, built, abandoned>>
          /\ OnlyStore(Top(t).run) /\ store'[Top(t).run].writer = "closed"
      BY <1>4, RollbackIs DEF NothingElse
    <2>2. ASSUME NEW q \in Runs PROVE Orderly(q)
      <3>1. q # built => store'[q] = store[q]
        BY <2>1, OneBuilding DEF OnlyStore
      <3>2. store'[built].writer = "closed" /\ current \notin Runs /\ built <= built
        BY <2>1, OneBuilding, RunsAre DEF TypeOK, Types
      <3> QED
        BY <2>1, <3>1, <3>2, OneBuilding DEF Orderly
    <2> QED
      BY <2>1, <2>2, OrderlyWriters
  <1>5. CASE Abandon(t)
    <2>1. /\ Stands(t, "build") /\ UNCHANGED <<store, shutdown, built>>
          /\ abandoned' = abandoned \cup {Top(t).run}
      BY <1>5, AbandonIs
    <2>2. built \in abandoned' /\ abandoned \subseteq abandoned' /\ current \notin Runs
      BY <2>1, OneBuilding, RunsAre
    <2>3. ASSUME NEW q \in Runs PROVE Orderly(q)
      BY <2>1, <2>2, OneBuilding DEF Orderly
    <2> QED
      BY <2>1, <2>2, <2>3, OrderlyWriters
  <1> QED
    BY <1>1, <1>2, <1>3, <1>4, <1>5

\* What an interrupt leaves open is abandoned.
LEMMA CutWriters ==
  ASSUME TypeOK, Ending, Holding, Writers, NEW t \in Threads, Cut(t)
  PROVE  Writers'
  <1>1. Dropped(t)
    BY UnwindIs
  <1>2. Popped(t, 0)
    BY <1>1, Zenon DEF Dropped, Popped
  <1>3. \A u \in Threads \ {t} : Frames(stack'[u]) = Frames(stack[u])
    BY <1>2, OnClear DEF TypeOK
  <1>4. /\ abandoned \subseteq abandoned' /\ built' = built /\ Top(t).at \in CutAts /\ stack[t] # <<>>
        /\ current' # current => \E i \in 1..Len(stack[t]) : stack[t][i].call = "et.finish"
    BY <1>1 DEF Dropped
  <1>5. ASSUME NEW f \in Frames(stack[t]), Ends(f) \/ f.call = "et.init" PROVE f.run \in abandoned'
    BY <1>1, <1>5 DEF Dropped, Frames
  <1>6. ASSUME NEW q \in Runs PROVE Orderly(q)
    <2>1. store'[q].writer = store[q].writer
      BY <1>1 DEF Dropped, SameEnd
    <2>2. shutdown'[q].done => shutdown[q].done \/ q \in abandoned'
      <3>1. SUFFICES ASSUME shutdown'[q].done, ~shutdown[q].done PROVE q \in abandoned'
        OBVIOUS
      <3>2. shutdown[q].owner = t
        BY <1>1, <3>1 DEF Dropped
      <3>3. PICK f \in Frames(stack[t]) : Leads(f) /\ f.run = q
        BY <3>1, <3>2 DEF Ending, Led
      <3> QED
        BY <1>5, <3>3 DEF Leads
    <2>3. BuildingIn(stack, q) => BuildingIn(stack', q) \/ q \in abandoned'
      <3>1. SUFFICES ASSUME NEW u \in Threads, NEW f \in Frames(stack[u]), f.at = "build", f.run = q
                     PROVE  BuildingIn(stack', q) \/ q \in abandoned'
        BY DEF BuildingIn
      <3>2. CASE u = t
        BY <1>5, <3>1, <3>2, BuildIsPast
      <3>3. CASE u # t
        BY <1>3, <3>1, <3>3 DEF BuildingIn
      <3> QED
        BY <3>2, <3>3
    <2>4. q = current => current' = q \/ q \in abandoned'
      <3>1. SUFFICES ASSUME current' # current PROVE current \in abandoned'
        OBVIOUS
      <3>2. PICK i \in 1..Len(stack[t]) : stack[t][i].call = "et.finish"
        BY <1>4, <3>1
      <3>3. stack[t][i].at # "lock"
        BY <1>4, TopIs, WaitsOnTop DEF TypeOK, CutAts
      <3>4. Past(stack[t][i]) /\ stack[t][i] \in Frames(stack[t]) /\ Ends(stack[t][i])
        BY <3>2, <3>3 DEF Past, Et, Ends, Frames
      <3>5. stack[t][i].run = current
        BY <3>2, <3>4 DEF Holding, Locked
      <3> QED
        BY <1>5, <3>4, <3>5
    <2> QED
      BY <2>1, <2>2, <2>3, <2>4 DEF Orderly
  <1> QED
    BY <1>4, <1>6, OrderlyWriters

LEMMA NextWriters ==
  ASSUME TypeOK, Ending, Holding, Writers, [Next]_vars
  PROVE  Writers'
  <1>1. CASE UNCHANGED vars
    BY <1>1 DEF vars, ghosts, Writers, BuildingIn
  <1>2. ASSUME NEW t \in Threads, Calls(t) PROVE Writers'
    BY <1>2, CallsTidy, TidyWriters
  <1>3. ASSUME NEW t \in Threads, Advance(t) PROVE Writers'
    BY <1>3, DeliveryTidy, FinishTidy, TidyWriters, TrackerWriters DEF Advance
  <1>4. ASSUME NEW t \in Threads, Cut(t) PROVE Writers'
    BY <1>4, CutWriters
  <1> QED
    BY <1>1, <1>2, <1>3, <1>4 DEF Next, Rest

LEMMA InitWriters ==
  ASSUME Init
  PROVE  Writers
  <1>1. \A q \in Runs : store[q].writer = "none" /\ ~shutdown[q].done
    BY DEF Init, NewStore
  <1> QED
    BY <1>1 DEF Writers

\* Two runs have their files open at once only when the earlier one was abandoned,
\* by an interrupt of its finish() or of its construction, or by a construction
\* that failed before the try of Run.__init__: init() does not overtake a shutdown
\* in progress, and what a rolled back construction or a finished run had open is
\* closed (tracker.py, run.py).
THEOREM OneOpen == Spec => []OneWriter
  <1>1. Init => Holding /\ Writers
    BY InitHolding, InitWriters
  <1>2. TypeOK /\ Ending /\ Holding /\ Writers /\ [Next]_vars => (Holding /\ Writers)'
    BY NextHolding, NextWriters
  <1>3. ASSUME TypeOK, NEW r \in Runs, NEW s \in Runs, r < s
        PROVE  s > built \/ r \notin {0, built}
    BY <1>3, LifecycleAssumption DEF TypeOK, Types, Runs
  <1>4. TypeOK /\ Holding /\ Writers => OneWriter
    <2>1. SUFFICES ASSUME TypeOK, Holding, Writers, NEW r \in Runs, NEW s \in Runs, r < s,
                          store[r].writer = "open", store[s].writer = "open", r \notin abandoned
                   PROVE  FALSE
      BY DEF OneWriter
    <2>2. ~(s > built)
      BY <2>1 DEF Writers
    <2>3. r \notin {0, built}
      BY <1>3, <2>1, <2>2, Zenon
    <2>4. r = current \/ BuildingIn(stack, r)
      BY <2>1 DEF Writers
    <2> QED
      BY <2>1, <2>3, <2>4 DEF Holding, Locked, BuildingIn
  <1> QED
    BY <1>1, <1>2, <1>4, EndingHolds, PTL DEF Spec
=============================================================================

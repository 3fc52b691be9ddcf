-------------------------- MODULE HistoryStore_proofs --------------------------
(***************************************************************************)
(* The history store, for any cache, policy, outages and restarts.  IInv   *)
(* relates the writer's records, the cache and the ordinals; Base adds the *)
(* types and the transaction; Lines, Emit, Mono and Drained each add what  *)
(* one more property needs.  The second half is about queries: what the    *)
(* operators they are made of return, for any rows, and then what a        *)
(* Snapshot of cache and file has of the rows that can be known.           *)
(***************************************************************************)
EXTENDS HistoryStore, SequenceTheorems, FiniteSetTheorems, TLAPS

-----------------------------------------------------------------------------
(* Numbers and sequences                                                   *)

\* A set of numbers that is not empty has a least one.
LEMMA Least ==
  ASSUME NEW T, T \subseteq Nat, T # {}
  PROVE  \E x \in T : \A y \in T : x <= y
  <1>1. PICK top \in T : TRUE
    OBVIOUS
  <1>2. PICK S : S = 0..top
    OBVIOUS
  <1>3. top \in Nat /\ IsFiniteSet(S)
    BY <1>1, <1>2, FS_Interval
  <1>4. IsWellFoundedOn(StrictSubsetOrdering(S), SUBSET S)
    BY <1>3, FS_StrictSubsetOrderingWellFounded, FS_FiniteSubsetsOfFinite
  <1> DEFINE F == {0..x : x \in {z \in T : z <= top}}
  <1>5. F \subseteq SUBSET S /\ F # {}
    <2>1. \A x \in Nat : x <= top => 0..x \in SUBSET S
      BY <1>2, <1>3
    <2>2. top \in {z \in T : z <= top}
      BY <1>1, <1>3
    <2> QED
      BY <2>1, <2>2
  <1>6. PICK I \in F : \A J \in F : ~ (<<J, I>> \in StrictSubsetOrdering(S))
    BY <1>4, <1>5, WFMin
  <1>7. PICK x \in T : x <= top /\ I = 0..x
    BY <1>6
  <1>8. ASSUME NEW y \in T, y < x PROVE FALSE
    <2>1. PICK J : J = 0..y
      OBVIOUS
    <2>2. y \in Nat /\ x \in Nat /\ y <= top
      BY <1>3, <1>7, <1>8
    <2>3. J \in F
      BY <2>1, <2>2
    <2>4. J \subseteq I /\ J # I
      BY <1>7, <1>8, <2>1, <2>2
    <2> HIDE DEF F
    <2>5. J \in SUBSET S /\ I \in SUBSET S
      BY <1>5, <1>6, <2>3
    <2>6. <<J, I>> \in StrictSubsetOrdering(S)
      BY <2>4, <2>5 DEF StrictSubsetOrdering
    <2> QED
      BY <1>6, <2>3, <2>6
  <1>9. \A y \in T : x <= y
    BY <1>7, <1>8
  <1> QED
    BY <1>7, <1>9

\* A set of numbers that is bounded and not empty has a greatest one.
LEMMA Greatest ==
  ASSUME NEW n \in Nat, NEW T, T \subseteq 0..n, T # {}
  PROVE  \E x \in T : \A y \in T : y <= x
  <1> DEFINE U == {m \in Nat : \E x \in T : m + x = n}
  <1>1. U \subseteq Nat /\ U # {}
    <2>1. PICK x \in T : TRUE
      OBVIOUS
    <2>2. n - x \in Nat /\ (n - x) + x = n
      BY <2>1
    <2> QED
      BY <2>1, <2>2
  <1>2. PICK m \in U : \A k \in U : m <= k
    <2> HIDE DEF U
    <2> QED
      BY <1>1, Least
  <1>3. PICK x \in T : m + x = n
    BY <1>2
  <1>4. ASSUME NEW y \in T PROVE y <= x
    <2>1. n - y \in U
      OBVIOUS
    <2> QED
      BY <1>2, <1>3, <2>1
  <1> QED
    BY <1>4

LEMMA Pairs ==
  ASSUME NEW S, NEW o \in S, NEW w \in S
  PROVE  /\ <<o>> \o <<w>> = <<o, w>> /\ <<o>> \o <<>> = <<o>>
         /\ <<>> \o <<w>> = <<w>> /\ <<>> \o <<>> = <<>>
  <1>1. <<o>> \o <<w>> = <<o, w>>
    <2>1. <<o>> \in Seq(S) /\ <<w>> \in Seq(S)
      OBVIOUS
    <2>2. <<o>> \o <<w>> = Append(<<o>>, w)
      BY <2>1, AppendIsConcat
    <2>3. PICK a, b : a = Append(<<o>>, w) /\ b = <<o, w>>
      OBVIOUS
    <2>4. a \in Seq(S) /\ Len(a) = 2 /\ a[1] = o /\ a[2] = w
      BY <2>3
    <2>5. b \in Seq(S) /\ Len(b) = 2 /\ b[1] = o /\ b[2] = w
      BY <2>3
    <2>6. a = b
      BY <2>4, <2>5, SeqEqual
    <2> QED
      BY <2>2, <2>3, <2>6, Zenon
  <1>2. <<o>> \o <<>> = <<o>>
    BY ConcatEmptySeq
  <1>3. <<>> \o <<w>> = <<w>>
    BY ConcatEmptySeq
  <1>4. <<>> \o <<>> = <<>>
    OBVIOUS
  <1> QED
    BY <1>1, <1>2, <1>3, <1>4, Zenon

-----------------------------------------------------------------------------

\* What the writer holds: everything admitted, oldest first.
LogShape ==
    /\ pending \in Seq(Nat) /\ stored \in Seq(Nat)
    /\ next \in Nat \ {0}
LogOrder ==
    /\ \A i \in 1..Len(pending) : pending[i] \in 1..(next - 1)
    /\ \A i, j \in 1..Len(pending) : i < j => pending[i] < pending[j]
    /\ \A i \in 1..Len(pending), k \in 1..Len(stored) : stored[k] < pending[i]
    /\ \A k \in 1..Len(stored) : stored[k] < next
Held(n) == \/ \E i \in 1..Len(stored) : stored[i] = n
           \/ \E i \in 1..Len(pending) : pending[i] = n
           \/ n \in lost
LogInv == LogShape /\ LogOrder /\ \A n \in 1..(next - 1) : Held(n)

\* What the cache holds: the last rows published.
CacheShape ==
    /\ cache \in Seq(Nat) /\ row \in Nat \ {0} /\ Len(cache) < row
    /\ diskPrefix \in BOOLEAN
CacheInv == CacheShape /\ NothingVanishes

\* The store's ordinal is the writer's, but between admission and publication.
Link == next = IF txn = "publish" THEN row + 1 ELSE row

IInv == LogInv /\ CacheInv /\ Link

-----------------------------------------------------------------------------
(* The writer's steps                                                      *)

LEMMA PartLen ==
  ASSUME NEW L \in Nat, NEW i \in Nat, NEW n \in Nat, i + n <= L + 1
  PROVE  (IF i + n <= L THEN L - (i + n) + 1 ELSE 0) = L + 1 - i - n
  OBVIOUS

\* w is f, the first i - 1 elements of p, and b, those from i + n on.
Parts(p, f, b, w, L, i, n) ==
    /\ Len(f) = i - 1 /\ \A j \in 1..(i - 1) : f[j] = p[j]
    /\ Len(b) = L + 1 - i - n /\ \A j \in 1..(L + 1 - i - n) : b[j] = p[i + n + j - 1]
    /\ Len(w) = Len(f) + Len(b)
    /\ \A j \in 1..(Len(f) + Len(b)) : w[j] = IF j <= Len(f) THEN f[j] ELSE b[j - Len(f)]

\* What is left of p when n elements are taken out from position i on.
Taken(w, p, L, i, n) ==
    /\ Len(w) = L - n
    /\ \A j \in 1..(L - n) : w[j] = IF j < i THEN p[j] ELSE p[j + n]

LEMMA PartsProps ==
  ASSUME NEW p, NEW f, NEW b, NEW w, NEW L \in Nat, NEW i \in Nat, NEW n \in Nat,
         i >= 1, i + n <= L + 1, Parts(p, f, b, w, L, i, n)
  PROVE  Taken(w, p, L, i, n)
  <1> USE DEF Parts
  <1>1. Len(f) + Len(b) = L - n
    OBVIOUS
  <1>2. ASSUME NEW j \in 1..(L - n) PROVE w[j] = IF j < i THEN p[j] ELSE p[j + n]
    <2>1. w[j] = IF j <= i - 1 THEN f[j] ELSE b[j - (i - 1)]
      BY <1>1
    <2>2. CASE j < i
      BY <2>1, <2>2
    <2>3. CASE ~(j < i)
      <3>1. j - (i - 1) \in 1..(L + 1 - i - n) /\ i + n + (j - (i - 1)) - 1 = j + n
        BY <2>3
      <3> QED
        BY <2>1, <2>3, <3>1
    <2> QED
      BY <2>2, <2>3
  <1> QED
    BY <1>1, <1>2 DEF Taken

LEMMA WithoutProps ==
  ASSUME NEW p \in Seq(Nat), NEW i \in 1..(Len(p) + 1), NEW n \in 0..(Len(p) + 1 - i)
  PROVE  LET w == SubSeq(p, 1, i - 1) \o SubSeq(p, i + n, Len(p))
         IN  w \in Seq(Nat) /\ Taken(w, p, Len(p), i, n)
  <1>1. Len(p) \in Nat /\ i \in Nat /\ n \in Nat /\ i >= 1 /\ i + n <= Len(p) + 1
    OBVIOUS
  <1>2. PICK f : f = SubSeq(p, 1, i - 1)
    OBVIOUS
  <1>3. PICK b : b = SubSeq(p, i + n, Len(p))
    OBVIOUS
  <1>4. /\ f \in Seq(Nat) /\ Len(f) = i - 1
        /\ \A j \in 1..(i - 1) : f[j] = p[j]
    <2>1. \A j \in 1..(i - 1) : p[j] \in Nat
      OBVIOUS
    <2>2. i - 1 \in Int /\ 0 <= i - 1
      BY <1>1
    <2>3. /\ f \in Seq(Nat) /\ Len(f) = IF 1 <= i - 1 THEN (i - 1) - 1 + 1 ELSE 0
          /\ \A j \in 1..((i - 1) - 1 + 1) : f[j] = p[1 + j - 1]
      BY <2>1, <2>2, <1>2, SubSeqProperties
    <2> QED
      BY <2>2, <2>3
  <1>5. /\ b \in Seq(Nat) /\ Len(b) = Len(p) + 1 - i - n
        /\ \A j \in 1..(Len(p) + 1 - i - n) : b[j] = p[i + n + j - 1]
    <2>1. \A j \in (i + n)..Len(p) : p[j] \in Nat
      OBVIOUS
    <2>2. i + n \in Int /\ Len(p) \in Int /\ i + n <= Len(p) + 1
      BY <1>1
    <2>3. /\ b \in Seq(Nat)
          /\ Len(b) = IF i + n <= Len(p) THEN Len(p) - (i + n) + 1 ELSE 0
          /\ \A j \in 1..(Len(p) - (i + n) + 1) : b[j] = p[(i + n) + j - 1]
      BY <2>1, <2>2, <1>3, SubSeqProperties
    <2>4. Len(p) - (i + n) + 1 = Len(p) + 1 - i - n
      BY <1>1
    <2>5. Len(b) = Len(p) + 1 - i - n
      BY <1>1, <2>3, PartLen, Zenon
    <2> QED
      BY <2>3, <2>4, <2>5
  <1>6. PICK w : w = f \o b
    OBVIOUS
  <1>7. w \in Seq(Nat)
    BY <1>4, <1>5, <1>6, ConcatProperties, Zenon
  <1>8. Len(w) = Len(f) + Len(b)
    BY <1>4, <1>5, <1>6, ConcatProperties, Zenon
  <1>9. \A j \in 1..(Len(f) + Len(b)) : w[j] = IF j <= Len(f) THEN f[j] ELSE b[j - Len(f)]
    BY <1>4, <1>5, <1>6, ConcatProperties, Zenon
  <1>10. Parts(p, f, b, w, Len(p), i, n)
    BY <1>4, <1>5, <1>8, <1>9, Zenon DEF Parts
  <1>11. Taken(w, p, Len(p), i, n)
    BY <1>1, <1>10, PartsProps
  <1> QED
    BY <1>2, <1>3, <1>6, <1>7, <1>11, Zenon

\* w's elements are p's, in order; only those from i to i + n - 1 may be missing.
Subsequence(w, p, L, i, n) ==
    /\ \A j \in 1..Len(w) : \E k \in 1..L : w[j] = p[k]
    /\ \A j, k \in 1..Len(w) : j < k =>
         \E jj, kk \in 1..L : jj < kk /\ w[j] = p[jj] /\ w[k] = p[kk]
    /\ \A k \in 1..L : k \in i..(i + n - 1) \/ \E j \in 1..Len(w) : w[j] = p[k]

LEMMA TakenIndex ==
  ASSUME NEW w, NEW p, NEW L \in Nat, NEW i \in Nat, NEW n \in Nat,
         i >= 1, i + n <= L + 1, Taken(w, p, L, i, n)
  PROVE  Subsequence(w, p, L, i, n)
  <1> DEFINE at(j) == IF j < i THEN j ELSE j + n
  <1>1. Len(w) = L - n /\ \A j \in 1..(L - n) : w[j] = p[at(j)]
    BY DEF Taken
  <1>2. \A j \in 1..(L - n) : at(j) \in 1..L
    OBVIOUS
  <1>3. \A j, k \in 1..(L - n) : j < k => at(j) < at(k)
    OBVIOUS
  <1>4. ASSUME NEW k \in 1..L, k \notin i..(i + n - 1)
        PROVE  \E j \in 1..(L - n) : at(j) = k
    <2>1. CASE k < i
      <3>1. k \in 1..(L - n) /\ at(k) = k
        BY <2>1
      <3> QED
        BY <3>1
    <2>2. CASE k >= i + n
      <3>1. k - n \in 1..(L - n) /\ at(k - n) = k
        BY <2>2
      <3> QED
        BY <3>1
    <2> QED
      BY <1>4, <2>1, <2>2
  <1> HIDE DEF at
  <1>5. \A j \in 1..Len(w) : \E k \in 1..L : w[j] = p[k]
    BY <1>1, <1>2, Zenon
  <1>6. \A j, k \in 1..Len(w) : j < k =>
          \E jj, kk \in 1..L : jj < kk /\ w[j] = p[jj] /\ w[k] = p[kk]
    BY <1>1, <1>2, <1>3, Zenon
  <1>7. \A k \in 1..L : k \in i..(i + n - 1) \/ \E j \in 1..Len(w) : w[j] = p[k]
    BY <1>1, <1>4, Zenon
  <1> QED
    BY <1>5, <1>6, <1>7, Zenon DEF Subsequence

\* The writer's log without what it gives up.
Kept(w) ==
    /\ w \in Seq(Nat)
    /\ \A j \in 1..Len(w) : w[j] \in 1..(next - 1)
    /\ \A j, k \in 1..Len(w) : j < k => w[j] < w[k]
    /\ \A j \in 1..Len(w), k \in 1..Len(stored) : stored[k] < w[j]

LEMMA WithoutLog ==
  ASSUME LogInv, NEW i \in 1..(Len(pending) + 1), NEW n \in 0..(Len(pending) + 1 - i),
         Writer!GiveUp(i, n)
  PROVE  LET w == Writer!Without(i, n)
         IN  /\ Kept(w)
             /\ \A m \in 1..(next - 1) :
                  \/ \E k \in 1..Len(stored) : stored[k] = m
                  \/ \E k \in 1..Len(w) : w[k] = m
                  \/ m \in lost'
  <1>1. /\ pending \in Seq(Nat) /\ Len(pending) \in Nat /\ i \in Nat /\ n \in Nat
        /\ i >= 1 /\ i + n <= Len(pending) + 1
    BY DEF LogInv, LogShape
  <1>2. PICK w : w = Writer!Without(i, n)
    OBVIOUS
  <1>3. w \in Seq(Nat) /\ Taken(w, pending, Len(pending), i, n)
    <2>1. w = SubSeq(pending, 1, i - 1) \o SubSeq(pending, i + n, Len(pending))
      BY <1>2, Zenon DEF Writer!Without
    <2> QED
      BY <1>1, <2>1, WithoutProps, Zenon
  <1>4. /\ \A j \in 1..Len(w) : \E k \in 1..Len(pending) : w[j] = pending[k]
        /\ \A j, k \in 1..Len(w) : j < k =>
             \E jj, kk \in 1..Len(pending) : jj < kk /\ w[j] = pending[jj] /\ w[k] = pending[kk]
        /\ \A k \in 1..Len(pending) :
             k \in i..(i + n - 1) \/ \E j \in 1..Len(w) : w[j] = pending[k]
    <2>1. Subsequence(w, pending, Len(pending), i, n)
      BY <1>1, <1>3, TakenIndex, Zenon
    <2> QED
      BY <2>1, Zenon DEF Subsequence
  <1>5. Kept(w)
    <2> USE DEF LogInv, LogOrder
    <2>1. \A j \in 1..Len(w) : w[j] \in 1..(next - 1)
      BY <1>4, Zenon
    <2>2. \A j, k \in 1..Len(w) : j < k => w[j] < w[k]
      <3> SUFFICES ASSUME NEW j \in 1..Len(w), NEW k \in 1..Len(w), j < k PROVE w[j] < w[k]
        OBVIOUS
      <3>1. PICK jj \in 1..Len(pending), kk \in 1..Len(pending) :
              jj < kk /\ w[j] = pending[jj] /\ w[k] = pending[kk]
        BY <1>4, Zenon
      <3>2. pending[jj] < pending[kk]
        BY <3>1, Zenon
      <3> QED
        BY <3>1, <3>2, Zenon
    <2>3. \A j \in 1..Len(w), k \in 1..Len(stored) : stored[k] < w[j]
      <3> SUFFICES ASSUME NEW j \in 1..Len(w), NEW k \in 1..Len(stored) PROVE stored[k] < w[j]
        OBVIOUS
      <3>1. PICK jj \in 1..Len(pending) : w[j] = pending[jj]
        BY <1>4, Zenon
      <3>2. stored[k] < pending[jj]
        BY Zenon
      <3> QED
        BY <3>1, <3>2, Zenon
    <2> QED
      BY <1>3, <2>1, <2>2, <2>3, Zenon DEF Kept
  <1>6. ASSUME NEW m \in 1..(next - 1),
               ~ \E k \in 1..Len(stored) : stored[k] = m, m \notin lost'
        PROVE  \E k \in 1..Len(w) : w[k] = m
    <2>1. lost' = lost \cup {pending[j] : j \in i..(i + n - 1)}
      BY DEF Writer!GiveUp
    <2>2. m \notin lost /\ \A j \in i..(i + n - 1) : pending[j] # m
      BY <1>6, <2>1, Zenon
    <2>3. PICK k \in 1..Len(pending) : pending[k] = m
      BY <1>6, <2>2, Zenon DEF Held, LogInv
    <2> QED
      BY <1>4, <2>2, <2>3, Zenon
  <1> QED
    BY <1>2, <1>5, <1>6, Zenon

LEMMA AdmitLog == ASSUME LogInv, Writer!Admit PROVE LogInv' /\ next' = next + 1
  <1>1. PICK i \in 1..(Len(pending) + 1) : \E n \in 0..(Len(pending) + 1 - i) :
          Writer!GiveUp(i, n) /\ pending' = Append(Writer!Without(i, n), next)
    BY DEF Writer!Admit
  <1>2. PICK n \in 0..(Len(pending) + 1 - i) :
          Writer!GiveUp(i, n) /\ pending' = Append(Writer!Without(i, n), next)
    BY <1>1
  <1>3. PICK w : w = Writer!Without(i, n)
    OBVIOUS
  <1>4. stored' = stored /\ next' = next + 1 /\ pending' = Append(w, next)
    BY <1>2, <1>3, Zenon DEF Writer!Admit
  <1>5. /\ Kept(w)
        /\ \A m \in 1..(next - 1) :
             \/ \E k \in 1..Len(stored) : stored[k] = m
             \/ \E k \in 1..Len(w) : w[k] = m
             \/ m \in lost'
    BY <1>2, <1>3, WithoutLog, Zenon
  <1>6. /\ w \in Seq(Nat) /\ stored \in Seq(Nat) /\ next \in Nat \ {0}
        /\ Len(w) \in Nat /\ Len(pending') = Len(w) + 1 /\ pending' \in Seq(Nat)
        /\ \A j \in 1..Len(w) : pending'[j] = w[j]
        /\ pending'[Len(w) + 1] = next
    BY <1>4, <1>5 DEF Kept, LogInv, LogShape
  <1>7. LogShape'
    BY <1>4, <1>6 DEF LogShape
  <1>8. \A k \in 1..Len(stored) : stored[k] < next /\ stored[k] \in Nat
    BY DEF LogInv, LogShape, LogOrder
  <1>9. LogOrder'
    <2>1. \A j \in 1..Len(w) : w[j] \in 1..(next - 1)
      BY <1>5, Zenon DEF Kept
    <2>7. ASSUME NEW j \in 1..Len(pending')
          PROVE  j \in 1..Len(w) \/ j = Len(w) + 1
      BY <1>6
    <2>2. ASSUME NEW j \in 1..Len(pending') PROVE pending'[j] \in 1..next
      <3>1. CASE j \in 1..Len(w)
        <4>1. pending'[j] \in 1..(next - 1)
          BY <1>6, <2>1, <3>1, Zenon
        <4> QED
          BY <1>6, <4>1
      <3>2. CASE j = Len(w) + 1
        BY <1>6, <3>2
      <3> QED
        BY <2>7, <3>1, <3>2
    <2>3. ASSUME NEW j \in 1..Len(pending'), NEW k \in 1..Len(pending'), j < k
          PROVE  pending'[j] < pending'[k]
      <3>1. j \in 1..Len(w)
        BY <1>6, <2>3
      <3>2. CASE k \in 1..Len(w)
        BY <1>5, <1>6, <2>3, <3>1, <3>2, Zenon DEF Kept
      <3>3. CASE k = Len(w) + 1
        <4>1. pending'[j] \in 1..(next - 1) /\ pending'[k] = next
          BY <1>6, <2>1, <3>1, <3>3, Zenon
        <4> QED
          BY <1>6, <4>1
      <3> QED
        BY <2>7, <3>2, <3>3
    <2>4. ASSUME NEW j \in 1..Len(pending'), NEW k \in 1..Len(stored)
          PROVE  stored[k] < pending'[j]
      <3>1. CASE j \in 1..Len(w)
        BY <1>5, <1>6, <3>1, Zenon DEF Kept
      <3>2. CASE j = Len(w) + 1
        BY <1>6, <1>8, <3>2, Zenon
      <3> QED
        BY <2>7, <3>1, <3>2
    <2>5. \A k \in 1..Len(stored) : stored[k] < next + 1
      BY <1>6, <1>8
    <2>6. (next + 1) - 1 = next
      BY <1>6
    <2> QED
      BY <1>4, <2>2, <2>3, <2>4, <2>5, <2>6, Zenon DEF LogOrder
  <1>10. \A m \in 1..(next' - 1) : Held(m)'
    <2> SUFFICES ASSUME NEW m \in 1..(next' - 1) PROVE Held(m)'
      OBVIOUS
    <2>1. m = next \/ m \in 1..(next - 1)
      BY <1>4, <1>6
    <2>2. CASE m = next
      BY <1>6, <2>2, SMTT(60) DEF Held
    <2>3. CASE m \in 1..(next - 1)
      <3>1. \/ \E k \in 1..Len(stored) : stored[k] = m
            \/ \E k \in 1..Len(w) : w[k] = m
            \/ m \in lost'
        BY <1>5, <2>3, Zenon
      <3>2. \A k \in 1..Len(w) : k \in 1..Len(pending') /\ pending'[k] = w[k]
        BY <1>6
      <3> QED
        BY <1>4, <3>1, <3>2, Zenon DEF Held
    <2> QED
      BY <2>1, <2>2, <2>3
  <1> QED
    BY <1>4, <1>7, <1>9, <1>10, Zenon DEF LogInv

LEMMA DiscardLog == ASSUME LogInv, Writer!Discard PROVE LogInv' /\ next' = next
  <1>1. PICK i \in 1..Len(pending) : \E n \in 1..(Len(pending) + 1 - i) :
          Writer!GiveUp(i, n) /\ pending' = Writer!Without(i, n)
    BY DEF Writer!Discard
  <1>2. PICK n \in 1..(Len(pending) + 1 - i) :
          Writer!GiveUp(i, n) /\ pending' = Writer!Without(i, n)
    BY <1>1
  <1>3. i \in 1..(Len(pending) + 1) /\ n \in 0..(Len(pending) + 1 - i)
    BY DEF LogInv, LogShape
  <1>4. /\ Kept(pending')
        /\ \A m \in 1..(next - 1) :
             \/ \E k \in 1..Len(stored) : stored[k] = m
             \/ \E k \in 1..Len(pending') : pending'[k] = m
             \/ m \in lost'
    BY <1>2, <1>3, WithoutLog, Zenon
  <1>5. stored' = stored /\ next' = next
    BY Zenon DEF Writer!Discard
  <1>6. LogShape'
    BY <1>4, <1>5, Zenon DEF Kept, LogInv, LogShape
  <1>7. LogOrder'
    BY <1>4, <1>5, Zenon DEF Kept, LogInv, LogOrder
  <1>8. \A m \in 1..(next' - 1) : Held(m)'
    BY <1>4, <1>5, Zenon DEF Held
  <1> QED
    BY <1>5, <1>6, <1>7, <1>8, Zenon DEF LogInv

\* The first n elements of p have moved to the end of s, which is now q; r is left.
Moved(s, p, q, r, n) ==
    /\ \A k \in 1..Len(q) : \/ \E i \in 1..Len(s) : q[k] = s[i]
                            \/ \E i \in 1..n : q[k] = p[i]
    /\ \A i \in 1..Len(s) : \E k \in 1..Len(q) : q[k] = s[i]
    /\ \A i \in 1..n : \E k \in 1..Len(q) : q[k] = p[i]
    /\ \A k \in 1..Len(r) : \E i \in (n + 1)..Len(p) : r[k] = p[i]
    /\ \A j, k \in 1..Len(r) : j < k =>
         \E jj, kk \in (n + 1)..Len(p) : jj < kk /\ r[j] = p[jj] /\ r[k] = p[kk]
    /\ \A i \in (n + 1)..Len(p) : \E k \in 1..Len(r) : r[k] = p[i]

\* The same, by position: s has S elements and p has L.
Placed(s, p, q, r, S, L, n) ==
    /\ Len(q) = S + n /\ \A j \in 1..(S + n) : q[j] = IF j <= S THEN s[j] ELSE p[j - S]
    /\ Len(r) = L - n /\ \A j \in 1..(L - n) : r[j] = p[n + j]

LEMMA PlacedMoved ==
  ASSUME NEW s, NEW p, NEW q, NEW r, NEW n \in 1..Len(p),
         Len(s) \in Nat, Len(p) \in Nat, Placed(s, p, q, r, Len(s), Len(p), n)
  PROVE  Moved(s, p, q, r, n)
  <1>1. PICK L \in Nat, S \in Nat : L = Len(p) /\ S = Len(s)
    OBVIOUS
  <1>2. n \in 1..L
    BY <1>1
  <1>3. Len(q) = S + n /\ \A j \in 1..(S + n) : q[j] = IF j <= S THEN s[j] ELSE p[j - S]
    BY <1>1, Zenon DEF Placed
  <1>4. Len(r) = L - n /\ \A j \in 1..(L - n) : r[j] = p[n + j]
    BY <1>1, Zenon DEF Placed
  <1>9. ASSUME NEW k \in 1..(S + n)
        PROVE  (\E i \in 1..S : q[k] = s[i]) \/ \E i \in 1..n : q[k] = p[i]
    <2>1. CASE k <= S
      <3>1. k \in 1..S
        BY <2>1
      <3> QED
        BY <1>3, <2>1, <3>1, Zenon
    <2>2. CASE ~(k <= S)
      <3>1. k - S \in 1..n
        BY <1>2, <2>2
      <3> QED
        BY <1>3, <2>2, <3>1, Zenon
    <2> QED
      BY <2>1, <2>2
  <1>10. ASSUME NEW i \in 1..S PROVE \E k \in 1..(S + n) : q[k] = s[i]
    <2>1. i \in 1..(S + n) /\ i <= S
      BY <1>2
    <2> QED
      BY <1>3, <2>1, Zenon
  <1>11. ASSUME NEW i \in 1..n PROVE \E k \in 1..(S + n) : q[k] = p[i]
    <2>1. S + i \in 1..(S + n) /\ ~(S + i <= S) /\ (S + i) - S = i
      BY <1>2
    <2> QED
      BY <1>3, <2>1, Zenon
  <1>12. ASSUME NEW k \in 1..(L - n) PROVE \E i \in (n + 1)..L : r[k] = p[i]
    <2>1. n + k \in (n + 1)..L
      BY <1>2
    <2> QED
      BY <1>4, <2>1, Zenon
  <1>13. ASSUME NEW j \in 1..(L - n), NEW k \in 1..(L - n), j < k
         PROVE  \E jj, kk \in (n + 1)..L : jj < kk /\ r[j] = p[jj] /\ r[k] = p[kk]
    <2>1. n + j \in (n + 1)..L /\ n + k \in (n + 1)..L /\ n + j < n + k
      BY <1>2, <1>13
    <2> QED
      BY <1>4, <2>1, Zenon
  <1>14. ASSUME NEW i \in (n + 1)..L PROVE \E k \in 1..(L - n) : r[k] = p[i]
    <2>1. i - n \in 1..(L - n) /\ n + (i - n) = i
      BY <1>2
    <2> QED
      BY <1>4, <2>1, Zenon
  <1>15. /\ \A k \in 1..Len(q) : (\E i \in 1..Len(s) : q[k] = s[i]) \/ \E i \in 1..n : q[k] = p[i]
         /\ \A i \in 1..Len(s) : \E k \in 1..Len(q) : q[k] = s[i]
         /\ \A i \in 1..n : \E k \in 1..Len(q) : q[k] = p[i]
    BY <1>1, <1>3, <1>9, <1>10, <1>11, Zenon
  <1>16. /\ \A k \in 1..Len(r) : \E i \in (n + 1)..Len(p) : r[k] = p[i]
         /\ \A i \in (n + 1)..Len(p) : \E k \in 1..Len(r) : r[k] = p[i]
    BY <1>1, <1>4, <1>12, <1>14, Zenon
  <1>17. \A j, k \in 1..Len(r) : j < k =>
           \E jj, kk \in (n + 1)..Len(p) : jj < kk /\ r[j] = p[jj] /\ r[k] = p[kk]
    <2>1. \A j, k \in 1..(L - n) : j < k =>
            \E jj, kk \in (n + 1)..L : jj < kk /\ r[j] = p[jj] /\ r[k] = p[kk]
      BY <1>13, Zenon
    <2>2. Len(r) = L - n /\ Len(p) = L
      BY <1>1, <1>4
    <2> QED
      BY <2>1, <2>2
  <1> QED
    BY <1>15, <1>16, <1>17, Zenon DEF Moved

LEMMA RestLen ==
  ASSUME NEW L \in Nat, NEW n \in 1..L
  PROVE  /\ (IF n + 1 <= L THEN L - (n + 1) + 1 ELSE 0) = L - n
         /\ L - (n + 1) + 1 = L - n
         /\ n - 1 + 1 = n
         /\ \A j \in Int : (n + 1) + j - 1 = n + j /\ 1 + j - 1 = j
  OBVIOUS

LEMMA Gap ==
  ASSUME NEW S \in Nat, NEW n \in Nat, NEW j \in 1..(S + n), ~(j <= S)
  PROVE  j - S \in 1..n
  OBVIOUS

LEMMA PlacedProps ==
  ASSUME NEW s \in Seq(Nat), NEW p \in Seq(Nat), NEW n \in 1..Len(p)
  PROVE  LET q == s \o SubSeq(p, 1, n)
             r == SubSeq(p, n + 1, Len(p))
         IN  q \in Seq(Nat) /\ r \in Seq(Nat) /\ Placed(s, p, q, r, Len(s), Len(p), n)
  <1>1. PICK f, r : f = SubSeq(p, 1, n) /\ r = SubSeq(p, n + 1, Len(p))
    OBVIOUS
  <1>2. Len(p) \in Nat /\ Len(s) \in Nat
    OBVIOUS
  <1>4. f \in Seq(Nat) /\ Len(f) = n /\ \A j \in 1..n : f[j] = p[j]
    <2>1. \A j \in 1..n : p[j] \in Nat
      OBVIOUS
    <2>3. n \in Int /\ 1 \in Int /\ 1 <= n + 1 /\ 1 <= n
      OBVIOUS
    <2>2. /\ f \in Seq(Nat) /\ Len(f) = IF 1 <= n THEN n - 1 + 1 ELSE 0
          /\ \A j \in 1..(n - 1 + 1) : f[j] = p[1 + j - 1]
      BY <2>1, <2>3, <1>1, SubSeqProperties
    <2> QED
      BY <2>2, <2>3
  <1>5. r \in Seq(Nat) /\ Len(r) = Len(p) - n /\ \A j \in 1..(Len(p) - n) : r[j] = p[n + j]
    <2>1. \A j \in (n + 1)..Len(p) : p[j] \in Nat
      OBVIOUS
    <2>3. n + 1 \in Int /\ Len(p) \in Int /\ n + 1 <= Len(p) + 1
      OBVIOUS
    <2>2. /\ r \in Seq(Nat)
          /\ Len(r) = IF n + 1 <= Len(p) THEN Len(p) - (n + 1) + 1 ELSE 0
          /\ \A j \in 1..(Len(p) - (n + 1) + 1) : r[j] = p[(n + 1) + j - 1]
      BY <2>1, <2>3, <1>1, SubSeqProperties
    <2>4. \A j \in 1..(Len(p) - n) : j \in Int
      OBVIOUS
    <2>5. Len(r) = Len(p) - n
      BY <1>2, <2>2, RestLen, ZenonT(60)
    <2>6. ASSUME NEW j \in 1..(Len(p) - n) PROVE r[j] = p[n + j]
      BY <1>2, <2>2, <2>4, RestLen, ZenonT(60)
    <2> QED
      BY <2>2, <2>5, <2>6, Zenon
  <1>3. PICK q : q = s \o f
    OBVIOUS
  <1>6. q \in Seq(Nat)
    BY <1>3, <1>4, ConcatProperties, Zenon
  <1>7. /\ Len(q) = Len(s) + n
        /\ \A j \in 1..(Len(s) + n) : q[j] = IF j <= Len(s) THEN s[j] ELSE f[j - Len(s)]
    <2>1. Len(q) = Len(s) + Len(f)
      BY <1>3, <1>4, ConcatProperties, Zenon
    <2>2. \A j \in 1..(Len(s) + Len(f)) : q[j] = IF j <= Len(s) THEN s[j] ELSE f[j - Len(s)]
      BY <1>3, <1>4, ConcatProperties, Zenon
    <2> QED
      BY <1>4, <2>1, <2>2, Zenon
  <1>8. ASSUME NEW j \in 1..(Len(s) + n)
        PROVE  q[j] = IF j <= Len(s) THEN s[j] ELSE p[j - Len(s)]
    <2>1. CASE j <= Len(s)
      BY <1>7, <2>1, Zenon
    <2>2. CASE ~(j <= Len(s))
      <3>1. j - Len(s) \in 1..n
        BY <1>2, <2>2, Gap
      <3> QED
        BY <1>4, <1>7, <2>2, <3>1, Zenon
    <2> QED
      BY <2>1, <2>2
  <1>9. Placed(s, p, q, r, Len(s), Len(p), n)
    BY <1>5, <1>7, <1>8, Zenon DEF Placed
  <1> QED
    BY <1>1, <1>3, <1>5, <1>6, <1>9, Zenon

LEMMA MovedProps ==
  ASSUME NEW s \in Seq(Nat), NEW p \in Seq(Nat), NEW n \in 1..Len(p)
  PROVE  LET q == s \o SubSeq(p, 1, n)
             r == SubSeq(p, n + 1, Len(p))
         IN  q \in Seq(Nat) /\ r \in Seq(Nat) /\ Moved(s, p, q, r, n)
  <1>1. PICK q, r : q = s \o SubSeq(p, 1, n) /\ r = SubSeq(p, n + 1, Len(p))
    OBVIOUS
  <1>2. q \in Seq(Nat) /\ r \in Seq(Nat) /\ Placed(s, p, q, r, Len(s), Len(p), n)
    BY <1>1, PlacedProps, Zenon
  <1>3. Len(p) \in Nat /\ Len(s) \in Nat
    OBVIOUS
  <1>4. Moved(s, p, q, r, n)
    BY <1>2, <1>3, PlacedMoved, Zenon
  <1> QED
    BY <1>1, <1>2, <1>4, Zenon

LEMMA PersistLog ==
  ASSUME LogInv, Writer!Persist
  PROVE  /\ LogInv' /\ next' = next /\ lost' = lost
         /\ \A i \in 1..Len(stored) : \E k \in 1..Len(stored') : stored'[k] = stored[i]
  <1>1. PICK n \in 1..Len(pending) :
          /\ stored' = stored \o SubSeq(pending, 1, n)
          /\ pending' = SubSeq(pending, n + 1, Len(pending))
    BY DEF Writer!Persist
  <1>2. PICK q, r : q = stored' /\ r = pending'
    OBVIOUS
  <1>3. q \in Seq(Nat) /\ r \in Seq(Nat) /\ Moved(stored, pending, q, r, n)
    <2>1. stored \in Seq(Nat) /\ pending \in Seq(Nat)
      BY DEF LogInv, LogShape
    <2> QED
      BY <1>1, <1>2, <2>1, MovedProps, Zenon
  <1>4. next' = next /\ lost' = lost
    BY DEF Writer!Persist
  <1>5. LogShape'
    BY <1>2, <1>3, <1>4 DEF LogInv, LogShape
  <1>6. /\ n \in 1..Len(pending)
        /\ \A i \in 1..n : i \in 1..Len(pending)
        /\ \A i \in (n + 1)..Len(pending) : i \in 1..Len(pending)
        /\ \A i \in 1..n, j \in (n + 1)..Len(pending) : i < j
    BY DEF LogInv, LogShape
  <1>7. LogOrder'
    <2>1. \A j \in 1..Len(r) : r[j] \in 1..(next - 1)
      BY <1>3, <1>6, Zenon DEF Moved, LogInv, LogOrder
    <2>2. \A j, k \in 1..Len(r) : j < k => r[j] < r[k]
      <3> SUFFICES ASSUME NEW j \in 1..Len(r), NEW k \in 1..Len(r), j < k PROVE r[j] < r[k]
        OBVIOUS
      <3>1. PICK jj \in (n + 1)..Len(pending), kk \in (n + 1)..Len(pending) :
              jj < kk /\ r[j] = pending[jj] /\ r[k] = pending[kk]
        BY <1>3, Zenon DEF Moved
      <3>2. jj \in 1..Len(pending) /\ kk \in 1..Len(pending)
        BY <1>6, <3>1, Zenon
      <3>3. pending[jj] < pending[kk]
        BY <3>1, <3>2, Zenon DEF LogInv, LogOrder
      <3> QED
        BY <3>1, <3>3, Zenon
    <2>3. \A j \in 1..Len(r), k \in 1..Len(q) : q[k] < r[j]
      <3> SUFFICES ASSUME NEW j \in 1..Len(r), NEW k \in 1..Len(q) PROVE q[k] < r[j]
        OBVIOUS
      <3>1. PICK jj \in (n + 1)..Len(pending) : r[j] = pending[jj]
        BY <1>3, Zenon DEF Moved
      <3>2. CASE \E i \in 1..Len(stored) : q[k] = stored[i]
        BY <1>6, <3>1, <3>2, Zenon DEF LogInv, LogOrder
      <3>3. CASE \E i \in 1..n : q[k] = pending[i]
        BY <1>6, <3>1, <3>3, Zenon DEF LogInv, LogOrder
      <3> QED
        BY <1>3, <3>2, <3>3, Zenon DEF Moved
    <2>4. \A k \in 1..Len(q) : q[k] < next
      <3>1. \A i \in 1..Len(pending) : pending[i] < next
        BY DEF LogInv, LogShape, LogOrder
      <3> QED
        BY <1>3, <1>6, <3>1, Zenon DEF Moved, LogInv, LogOrder
    <2> QED
      BY <1>2, <1>4, <2>1, <2>2, <2>3, <2>4, Zenon DEF LogOrder
  <1>8. ASSUME NEW m \in 1..(next - 1)
        PROVE  \/ \E k \in 1..Len(q) : q[k] = m
               \/ \E k \in 1..Len(r) : r[k] = m
               \/ m \in lost
    <2>1. CASE \E i \in 1..Len(stored) : stored[i] = m
      <3>1. PICK i \in 1..Len(stored) : stored[i] = m
        BY <2>1
      <3>2. \E k \in 1..Len(q) : q[k] = stored[i]
        BY <1>3, Zenon DEF Moved
      <3> QED
        BY <3>1, <3>2, Zenon
    <2>2. CASE \E i \in 1..Len(pending) : pending[i] = m
      <3>1. PICK i \in 1..Len(pending) : pending[i] = m
        BY <2>2
      <3>2. i \in 1..n \/ i \in (n + 1)..Len(pending)
        BY DEF LogInv, LogShape
      <3> QED
        BY <1>3, <3>1, <3>2, Zenon DEF Moved
    <2> QED
      BY <2>1, <2>2, Zenon DEF LogInv, Held
  <1>9. \A m \in 1..(next' - 1) : Held(m)'
    BY <1>2, <1>4, <1>8, Zenon DEF Held
  <1>10. \A i \in 1..Len(stored) : \E k \in 1..Len(stored') : stored'[k] = stored[i]
    BY <1>2, <1>3, Zenon DEF Moved
  <1> QED
    BY <1>4, <1>5, <1>7, <1>9, <1>10, Zenon DEF LogInv

-----------------------------------------------------------------------------
(* The cache's steps                                                       *)

Safe == Range(stored) \cup lost     \* written to the file, or given up

LEMMA StoredRange ==
  ASSUME LogShape PROVE Range(stored) = {stored[k] : k \in 1..Len(stored)}
  <1>1. DOMAIN stored = 1..Len(stored)
    BY DEF LogShape
  <1> QED
    BY <1>1, Zenon DEF Range

\* Ordinals up to the watermark are not waiting for the disk.
LEMMA FlushedIsSafe ==
  ASSUME LogInv, NEW o \in 1..(next - 1), o <= Flushed
  PROVE  o \in Safe
  <1>1. stored # <<>>
    BY DEF Flushed
  <1>2. /\ Len(stored) \in 1..Len(stored)
        /\ stored[Len(stored)] \in Nat
        /\ o <= stored[Len(stored)]
    BY <1>1 DEF LogInv, LogShape, Flushed, Last
  <1>3. ASSUME NEW i \in 1..Len(pending) PROVE pending[i] # o
    <2>1. stored[Len(stored)] < pending[i] /\ pending[i] \in 1..(next - 1)
      BY <1>2, Zenon DEF LogInv, LogOrder
    <2>2. next \in Nat
      BY DEF LogInv, LogShape
    <2> QED
      BY <1>2, <2>1, <2>2
  <1>4. o \in lost \/ \E k \in 1..Len(stored) : stored[k] = o
    BY <1>3, Zenon DEF LogInv, Held
  <1>5. Range(stored) = {stored[k] : k \in 1..Len(stored)}
    BY StoredRange, Zenon DEF LogInv
  <1> QED
    BY <1>4, <1>5 DEF Safe

LEMMA CacheFrame ==
  ASSUME CacheInv, UNCHANGED <<row, cache, diskPrefix>>, Safe \subseteq Safe'
  PROVE  CacheInv'
  <1>1. CacheShape'
    BY Zenon DEF CacheInv, CacheShape
  <1>2. NothingVanishes'
    <2>1. 1..(row - 1 - Len(cache)) \subseteq Safe'
      BY DEF CacheInv, NothingVanishes, Safe
    <2> QED
      BY <2>1, Zenon DEF CacheInv, NothingVanishes, Safe
  <1> QED
    BY <1>1, <1>2 DEF CacheInv

LEMMA DropProps ==
  ASSUME NEW p \in Seq(Nat), NEW n \in 0..Len(p)
  PROVE  LET r == SubSeq(p, n + 1, Len(p))
         IN  /\ r \in Seq(Nat) /\ Len(r) = Len(p) - n
             /\ \A j \in 1..(Len(p) - n) : r[j] = p[n + j]
  <1>1. PICK r : r = SubSeq(p, n + 1, Len(p))
    OBVIOUS
  <1>2. \A j \in (n + 1)..Len(p) : p[j] \in Nat
    OBVIOUS
  <1>3. n + 1 \in Int /\ Len(p) \in Int /\ n + 1 <= Len(p) + 1
    OBVIOUS
  <1>4. /\ r \in Seq(Nat)
        /\ Len(r) = IF n + 1 <= Len(p) THEN Len(p) - (n + 1) + 1 ELSE 0
        /\ \A j \in 1..(Len(p) - (n + 1) + 1) : r[j] = p[(n + 1) + j - 1]
    BY <1>1, <1>2, <1>3, SubSeqProperties, SMTT(60)
  <1>5. PICK L \in Nat : L = Len(p)
    OBVIOUS
  <1>6. n \in 0..L
    BY <1>5
  <1>7. /\ (IF n + 1 <= L THEN L - (n + 1) + 1 ELSE 0) = L - n
        /\ L - (n + 1) + 1 = L - n
        /\ \A j \in 1..(L - n) : (n + 1) + j - 1 = n + j
    BY <1>6
  <1>8. Len(r) = Len(p) - n
    BY <1>4, <1>5, <1>7, Zenon
  <1>9. ASSUME NEW j \in 1..(Len(p) - n) PROVE r[j] = p[n + j]
    BY <1>4, <1>5, <1>7, Zenon
  <1> QED
    BY <1>1, <1>4, <1>8, <1>9, Zenon

LEMMA EvictCache ==
  ASSUME LogInv, CacheInv, Link, Evict, UNCHANGED <<stored, lost>>
  PROVE  CacheInv'
  <1>1. PICK n \in 0..Len(cache) :
          /\ \A m \in 0..(n - 1) : cache[m + 1] <= Flushed
          /\ cache' = SubSeq(cache, n + 1, Len(cache))
          /\ diskPrefix' = (diskPrefix \/ n > 0)
    BY Zenon DEF Evict
  <1>2. row' = row
    BY DEF Evict
  <1>3. PICK r : r = cache'
    OBVIOUS
  <1>4. /\ r \in Seq(Nat) /\ Len(r) = Len(cache) - n
        /\ \A j \in 1..(Len(cache) - n) : r[j] = cache[n + j]
    BY <1>1, <1>3, DropProps, Zenon DEF CacheInv, CacheShape
  <1>5. PICK L \in Nat : L = Len(cache)
    BY DEF CacheInv, CacheShape
  <1>6. n \in 0..L /\ row \in Nat \ {0} /\ L < row /\ Len(r) = L - n /\ r \in Seq(Nat)
    BY <1>4, <1>5, Zenon DEF CacheInv, CacheShape
  <1>7. \A i \in 1..L : cache[i] = row - L + i - 1
    BY <1>5, Zenon DEF CacheInv, NothingVanishes
  <1>8. CacheShape'
    <2>1. diskPrefix' \in BOOLEAN
      BY <1>1, Zenon
    <2>2. Len(r) < row
      BY <1>6
    <2> QED
      BY <1>2, <1>3, <1>6, <2>1, <2>2, Zenon DEF CacheShape
  <1>9. ASSUME NEW i \in 1..Len(r) PROVE r[i] = row - Len(r) + i - 1
    <2>1. r[i] = cache[n + i]
      BY <1>4, Zenon
    <2>2. n + i \in 1..L
      BY <1>6
    <2>3. cache[n + i] = row - L + (n + i) - 1
      BY <1>7, <2>2, Zenon
    <2>4. row - L + (n + i) - 1 = row - Len(r) + i - 1
      BY <1>6
    <2> QED
      BY <2>1, <2>3, <2>4, Zenon
  <1>10. ASSUME NEW o \in 1..(row - 1 - Len(r)) PROVE o \in Safe
    <2>1. CASE o \in 1..(row - 1 - L)
      BY <1>5, <2>1, Zenon DEF CacheInv, NothingVanishes, Safe
    <2>2. CASE o \notin 1..(row - 1 - L)
      <3> DEFINE m == o - (row - L)
      <3>1. m \in 0..(n - 1) /\ m + 1 \in 1..L /\ row - L + (m + 1) - 1 = o
        BY <1>6, <2>2
      <3>2. cache[m + 1] = o
        BY <1>7, <3>1, Zenon
      <3>3. o <= Flushed
        BY <1>1, <3>1, <3>2, Zenon
      <3>4. o \in 1..(next - 1)
        <4>1. next = row + 1 \/ next = row
          BY Zenon DEF Link
        <4> QED
          BY <1>6, <4>1
      <3> QED
        BY <3>3, <3>4, FlushedIsSafe, Zenon
    <2> QED
      BY <2>1, <2>2
  <1>11. ASSUME ~diskPrefix' PROVE Len(r) = row - 1
    <2>1. ~diskPrefix /\ ~(n > 0)
      BY <1>1, <1>11, Zenon
    <2>2. L = row - 1
      BY <1>5, <2>1, Zenon DEF CacheInv, NothingVanishes
    <2> QED
      BY <1>6, <2>1, <2>2
  <1>12. Safe' = Safe
    BY Zenon DEF Safe
  <1>13. NothingVanishes'
    <2>1. 1..(row - 1 - Len(r)) \subseteq Safe
      BY <1>10, Zenon
    <2> QED
      BY <1>2, <1>3, <1>9, <1>11, <1>12, <2>1, Zenon DEF NothingVanishes, Safe
  <1> QED
    BY <1>8, <1>13 DEF CacheInv

LEMMA PublishCache ==
  ASSUME CacheInv, cache' = Append(cache, row), row' = row + 1,
         UNCHANGED <<diskPrefix, stored, lost>>
  PROVE  CacheInv'
  <1>9. PICK r : r = cache'
    OBVIOUS
  <1>10. PICK L \in Nat : L = Len(cache)
    BY DEF CacheInv, CacheShape
  <1>1. r = cache' /\ L = Len(cache)
    BY <1>9, <1>10
  <1>2. row \in Nat \ {0} /\ L < row
    BY <1>1, Zenon DEF CacheInv, CacheShape
  <1>3. /\ r \in Seq(Nat) /\ Len(r) = L + 1
        /\ \A i \in 1..L : r[i] = cache[i]
        /\ r[L + 1] = row
    BY <1>1 DEF CacheInv, CacheShape
  <1>4. CacheShape'
    <2>1. row + 1 \in Nat \ {0} /\ Len(r) < row + 1
      BY <1>2, <1>3
    <2> QED
      BY <1>1, <1>3, <2>1, Zenon DEF CacheInv, CacheShape
  <1>5. ASSUME NEW i \in 1..Len(r) PROVE r[i] = (row + 1) - Len(r) + i - 1
    <2>1. CASE i \in 1..L
      <3>1. r[i] = row - L + i - 1
        BY <1>1, <1>3, <2>1, Zenon DEF CacheInv, NothingVanishes
      <3> QED
        BY <1>2, <1>3, <3>1
    <2>2. CASE i = L + 1
      BY <1>2, <1>3, <2>2
    <2> QED
      BY <1>3, <2>1, <2>2
  <1>6. (row + 1) - 1 - Len(r) = row - 1 - L
    BY <1>2, <1>3
  <1>7. ~diskPrefix => Len(r) = (row + 1) - 1
    <2>1. ~diskPrefix => L = row - 1
      BY <1>1, Zenon DEF CacheInv, NothingVanishes
    <2> QED
      BY <1>2, <1>3, <2>1
  <1>8. NothingVanishes'
    <2>1. 1..(row - 1 - L) \subseteq Range(stored) \cup lost
      BY <1>1, Zenon DEF CacheInv, NothingVanishes
    <2> QED
      BY <1>1, <1>5, <1>6, <1>7, <2>1, Zenon DEF NothingVanishes
  <1> QED
    BY <1>4, <1>8 DEF CacheInv

-----------------------------------------------------------------------------
(* The invariant                                                           *)

LEMMA InitIInv == Init => IInv
  <1> SUFFICES ASSUME Init PROVE IInv
    OBVIOUS
  <1>1. /\ pending = <<>> /\ stored = <<>> /\ next = 1 /\ row = 1 /\ cache = <<>>
        /\ diskPrefix = FALSE /\ txn = "idle"
    BY Zenon DEF Init, Writer!Init
  <1>2. LogInv
    BY <1>1 DEF LogInv, LogShape, LogOrder, Held
  <1>3. CacheInv
    <2>1. CacheShape
      <3>1. diskPrefix \in BOOLEAN
        BY <1>1, Zenon
      <3>2. cache \in Seq(Nat) /\ row \in Nat \ {0} /\ Len(cache) < row
        BY <1>1
      <3> QED
        BY <3>1, <3>2, Zenon DEF CacheShape
    <2>2. Len(cache) = 0 /\ 1..(row - 1 - Len(cache)) = {} /\ 1..Len(cache) = {}
      BY <1>1
    <2>3. Len(cache) = row - 1
      BY <1>1
    <2> QED
      BY <2>1, <2>2, <2>3, Zenon DEF CacheInv, NothingVanishes
  <1> QED
    BY <1>1, <1>2, <1>3 DEF IInv, Link

LEMMA LogFrame ==
  ASSUME LogInv, UNCHANGED <<pending, stored, lost, next>>
  PROVE  LogInv' /\ Safe \subseteq Safe'
  <1>1. LogInv'
    BY Zenon DEF LogInv, LogShape, LogOrder, Held
  <1> QED
    BY <1>1, Zenon DEF Safe

LEMMA PersistSafe ==
  ASSUME LogInv, Writer!Persist
  PROVE  LogInv' /\ next' = next /\ Safe \subseteq Safe'
  <1>1. /\ LogInv' /\ next' = next /\ lost' = lost
        /\ \A i \in 1..Len(stored) : \E k \in 1..Len(stored') : stored'[k] = stored[i]
    BY PersistLog, Zenon
  <1>2. Range(stored) = {stored[k] : k \in 1..Len(stored)}
    BY StoredRange, Zenon DEF LogInv
  <1>4. Range(stored)' = {stored'[k] : k \in 1..Len(stored')}
    <2>1. DOMAIN stored' = 1..Len(stored')
      BY <1>1 DEF LogInv, LogShape
    <2> QED
      BY <2>1, Zenon DEF Range
  <1>5. Range(stored) \subseteq Range(stored)'
    BY <1>1, <1>2, <1>4
  <1> QED
    BY <1>1, <1>5 DEF Safe

LEMMA NextIInv == IInv /\ [Next]_vars => IInv'
  <1> SUFFICES ASSUME IInv, [Next]_vars PROVE IInv'
    OBVIOUS
  <1> USE DEF IInv
  <1>1. ASSUME UNCHANGED <<pending, stored, lost, next, row, cache, diskPrefix>>,
               txn # "publish", txn' # "publish"
        PROVE  IInv'
    <2>1. LogInv' /\ CacheInv'
      BY <1>1, LogFrame, CacheFrame, Zenon
    <2> QED
      BY <1>1, <2>1, Zenon DEF Link
  <1>2. ASSUME Writer!Persist, UNCHANGED <<row, cache, diskPrefix>>,
               (txn = "publish") = (txn' = "publish")
        PROVE  IInv'
    <2>1. LogInv' /\ CacheInv' /\ next' = next
      BY <1>2, PersistSafe, CacheFrame, Zenon
    <2> QED
      BY <1>2, <2>1, Zenon DEF Link
  <1>3. CASE Log \/ RecordSpan
    <2>1. txn = "idle"
      BY <1>3, Zenon DEF Log, RecordSpan, Accepting
    <2>2. txn' \in {"admit", "idle"}
      BY <1>3, Zenon DEF Log, RecordSpan, Ingest
    <2>3. UNCHANGED <<pending, stored, lost, next, row, cache, diskPrefix>>
      BY <1>3, Zenon DEF Log, RecordSpan, cacheVars, writerVars
    <2> QED
      BY <1>1, <2>1, <2>2, <2>3
  <1>4. CASE CommitOpen
    BY <1>1, <1>4 DEF CommitOpen, cacheVars, writerVars
  <1>5. CASE Admit
    <2>1. LogInv' /\ next' = next + 1
      BY <1>5, AdmitLog, Zenon DEF Admit
    <2>2. UNCHANGED <<row, cache, diskPrefix, stored>> /\ lost \subseteq lost'
      BY <1>5 DEF Admit, cacheVars, Writer!Admit, Writer!GiveUp
    <2>3. CacheInv'
      <3>1. Safe \subseteq Safe'
        BY <2>2 DEF Safe
      <3> QED
        BY <2>2, <3>1, CacheFrame, Zenon
    <2>4. txn = "admit" /\ txn' = "publish"
      BY <1>5, Zenon DEF Admit
    <2> QED
      BY <2>1, <2>2, <2>3, <2>4 DEF Link
  <1>6. CASE Refuse
    <2>1. txn = "admit" /\ txn' # "publish" /\ UNCHANGED <<row, cache, diskPrefix>>
      BY <1>6 DEF Refuse, AfterRow, cacheVars
    <2>2. CASE UNCHANGED writerVars
      BY <1>1, <2>1, <2>2 DEF writerVars
    <2>3. CASE Writer!Discard
      <3>1. LogInv' /\ next' = next
        BY <2>3, DiscardLog, Zenon
      <3>2. Safe \subseteq Safe'
        BY <2>3 DEF Writer!Discard, Writer!GiveUp, Safe
      <3>3. CacheInv'
        BY <2>1, <3>2, CacheFrame, Zenon
      <3> QED
        BY <2>1, <3>1, <3>3, Zenon DEF Link
    <2> QED
      BY <1>6, <2>2, <2>3, Zenon DEF Refuse
  <1>7. CASE Publish
    <2>1. /\ txn = "publish" /\ txn' # "publish"
          /\ cache' = Append(cache, row) /\ row' = row + 1
          /\ UNCHANGED <<diskPrefix, pending, stored, lost, next>>
      BY <1>7 DEF Publish, AfterRow, writerVars
    <2>2. CacheInv'
      BY <2>1, PublishCache, Zenon
    <2>3. LogInv'
      BY <2>1, LogFrame, Zenon
    <2> QED
      BY <2>1, <2>2, <2>3, Zenon DEF Link
  <1>8. CASE Settle \/ Resettle
    <2>1. Evict /\ UNCHANGED <<pending, stored, lost, next>>
      BY <1>8, Zenon DEF Settle, Resettle, writerVars
    <2>2. txn # "publish" /\ txn' # "publish"
      BY <1>8 DEF Settle, Resettle, Continue
    <2>3. LogInv' /\ CacheInv'
      BY <2>1, EvictCache, LogFrame, Zenon
    <2>4. row' = row
      BY <2>1 DEF Evict
    <2> QED
      BY <2>1, <2>2, <2>3, <2>4, Zenon DEF Link
  <1>9. CASE FlushFirst
    <2>1. /\ txn # "publish" /\ txn' # "publish"
          /\ UNCHANGED <<row, cache, diskPrefix>>
      BY <1>9 DEF FlushFirst, cacheVars
    <2>2. CASE UNCHANGED writerVars \/ Writer!Fail
      BY <1>1, <2>1, <2>2 DEF writerVars, Writer!Fail
    <2>3. CASE Writer!Persist
      BY <1>2, <2>1, <2>3
    <2> QED
      BY <1>9, <2>2, <2>3, Zenon DEF FlushFirst
  <1>10. CASE Persist
    BY <1>2, <1>10, Zenon DEF Persist, cacheVars
  <1>11. CASE Fail \/ Finish \/ Close \/ Ended \/ UNCHANGED vars
    <2>1. UNCHANGED <<pending, stored, lost, next, row, cache, diskPrefix, txn>>
      BY <1>11, Zenon DEF Fail, Finish, Close, Ended, vars, cacheVars, writerVars,
                          Writer!Fail, Writer!Shut
    <2>2. LogInv' /\ CacheInv'
      BY <2>1, LogFrame, CacheFrame, Zenon
    <2> QED
      BY <2>1, <2>2, Zenon DEF Link
  <1>12. CASE Resume
    <2>1. /\ row' = Len(stored) + 1 /\ diskPrefix' = (stored # <<>>) /\ cache' = <<>>
          /\ stored' = [i \in 1..Len(stored) |-> i] /\ pending' = <<>> /\ lost' = {}
          /\ next' = Len(stored) + 1 /\ txn' = "idle"
      BY <1>12, Zenon DEF Resume, FirstOrdinal
    <2>2. stored \in Seq(Nat) /\ Len(stored) \in Nat
      BY DEF LogInv, LogShape
    <2>3. PICK L \in Nat : L = Len(stored)
      BY <2>2
    <2>4. PICK q : q = stored'
      OBVIOUS
    <2>5. q \in Seq(Nat) /\ Len(q) = L /\ \A i \in 1..L : q[i] = i
      BY <2>1, <2>3, <2>4
    <2>6. LogInv'
      <3>1. LogShape'
        BY <2>1, <2>3, <2>4, <2>5 DEF LogShape
      <3>2. LogOrder'
        BY <2>1, <2>3, <2>4, <2>5 DEF LogOrder
      <3>3. \A m \in 1..(next' - 1) : Held(m)'
        BY <2>1, <2>3, <2>4, <2>5 DEF Held
      <3> QED
        BY <3>1, <3>2, <3>3, Zenon DEF LogInv
    <2>7. CacheInv'
      <3>1. CacheShape'
        BY <2>1, <2>3 DEF CacheShape
      <3>2. 1..L \subseteq Range(q)
        BY <2>5 DEF Range
      <3>3. NothingVanishes'
        <4>1. stored = <<>> => L = 0
          BY <2>3
        <4>2. row' - 1 - Len(cache') = L /\ row' - 1 = L /\ Len(cache') = 0
          BY <2>1, <2>3
        <4>3. \A i \in 1..Len(cache') : FALSE
          BY <4>2
        <4> QED
          BY <2>1, <2>4, <3>2, <4>1, <4>2, <4>3 DEF NothingVanishes
      <3> QED
        BY <3>1, <3>3 DEF CacheInv
    <2> QED
      BY <2>1, <2>6, <2>7 DEF Link
  <1> QED
    BY <1>3, <1>4, <1>5, <1>6, <1>7, <1>8, <1>9, <1>10, <1>11, <1>12, Zenon DEF Next

(* Every row admitted to the history stays reachable, in the cache or in   *)
(* the file, unless the writer gave it up in an outage: publication,       *)
(* eviction and resume in operations.rs and store.py, for every cache      *)
(* size, step policy and number of restarts.                               *)
THEOREM NothingLost == Spec => []NothingVanishes
  <1>1. IInv => NothingVanishes
    BY DEF IInv, CacheInv
  <1> QED
    BY <1>1, InitIInv, NextIInv, PTL DEF Spec

-----------------------------------------------------------------------------
(* The store's variables have their types, the file holds ordinals in      *)
(* ascending order and each names a row, and a row that is being admitted  *)
(* is the first one the transaction closed.                                *)
StepOrNone == Steps \cup {NoStep}

StoreTypes ==
    /\ open \in StepOrNone /\ data \in [Keys -> Seq(Nat)]
    /\ nextStep \in Int /\ last \in StepOrNone /\ emitted \in StepOrNone
    /\ closed \in Seq(RowSet) /\ rows \in Seq(RowSet)
    /\ calls \in Nat /\ restarts \in Nat
    /\ allow \in BOOLEAN /\ outages \in BOOLEAN /\ merge \in BOOLEAN
    /\ dropped \in BOOLEAN /\ finishing \in BOOLEAN /\ failing \in BOOLEAN
    /\ txn \in {"idle", "admit", "publish", "settle", "flush", "resettle"}
    /\ phase \in {"open", "closing", "closed"}

FileInv ==
    /\ \A i, j \in 1..Len(stored) : i < j => stored[i] < stored[j]
    /\ \A i \in 1..Len(stored) : stored[i] >= 1
    /\ Len(rows) = next - 1

TxnInv ==
    /\ txn \in {"admit", "publish"} => closed # <<>>
    /\ txn = "idle" => closed = <<>>
    /\ txn = "publish" => rows # <<>> /\ rows[Len(rows)] = Head(closed)

Base == IInv /\ StoreTypes /\ FileInv /\ TxnInv

LEMMA InitBase == Init => Base
  <1> SUFFICES ASSUME Init PROVE Base
    OBVIOUS
  <1>1. StoreTypes
    <2>1. allow \in BOOLEAN /\ outages \in BOOLEAN
      BY StoreAssumption DEF Init
    <2>2. merge \in BOOLEAN /\ dropped \in BOOLEAN /\ finishing \in BOOLEAN /\ failing \in BOOLEAN
      BY Zenon DEF Init, Writer!Init
    <2>3. data \in [Keys -> Seq(Nat)]
      BY DEF Init, NoData
    <2>4. open \in StepOrNone /\ nextStep \in Int /\ last \in StepOrNone /\ emitted \in StepOrNone
      BY DEF Init, StepOrNone, NoStep
    <2>5. closed \in Seq(RowSet) /\ rows \in Seq(RowSet) /\ calls \in Nat /\ restarts \in Nat
      BY DEF Init
    <2>6. txn = "idle" /\ phase = "open"
      BY DEF Init, Writer!Init
    <2> QED
      BY <2>1, <2>2, <2>3, <2>4, <2>5, <2>6, Zenon DEF StoreTypes
  <1>2. FileInv /\ TxnInv
    BY DEF Init, Writer!Init, FileInv, TxnInv
  <1> QED
    BY <1>1, <1>2, InitIInv DEF Base

\* What a call does to the open row: a row of another step is closed first.
Ingested(target, commit, held) ==
    LET closes == target # open /\ open # NoStep
        older  == [step |-> open, data |-> data]
        new    == [step |-> target, data |-> held]
    IN  /\ target \in Steps /\ held \in [Keys -> Seq(Nat)]
        /\ closed' = IF closes THEN IF commit THEN <<older, new>> ELSE <<older>>
                     ELSE IF commit THEN <<new>> ELSE <<>>
        /\ open' = IF commit THEN NoStep ELSE target
        /\ last' = IF commit THEN target ELSE IF closes THEN open ELSE last
        /\ nextStep' = IF commit THEN target + 1 ELSE IF closes THEN open + 1 ELSE nextStep
        /\ txn' = IF closes \/ commit THEN "admit" ELSE "idle"
        /\ data' \in [Keys -> Seq(Nat)]

LEMMA IngestIs ==
  ASSUME StoreTypes, NEW target, NEW keys, NEW accumulate \in BOOLEAN, NEW commit \in BOOLEAN,
         Ingest(target, keys, accumulate, commit)
  PROVE  \E held : Ingested(target, commit, held)
  <1> DEFINE before == IF target # open THEN NoData ELSE data
             held   == Written(before, keys, accumulate, calls + 1)
             closes == target # open /\ open # NoStep
             older  == [step |-> open, data |-> data]
             new    == [step |-> target, data |-> held]
             first  == IF target # open THEN OpenRow ELSE <<>>
  <1>1. NoData \in [Keys -> Seq(Nat)] /\ before \in [Keys -> Seq(Nat)]
    BY DEF NoData, StoreTypes
  <1> HIDE DEF before
  <1>2. held \in [Keys -> Seq(Nat)]
    <2>1. calls + 1 \in Nat
      BY DEF StoreTypes
    <2>2. ASSUME NEW k \in Keys
          PROVE  (IF k \notin keys THEN before[k]
                  ELSE IF accumulate THEN Append(before[k], calls + 1) ELSE <<calls + 1>>) \in Seq(Nat)
      BY <1>1, <2>1
    <2> QED
      BY <2>2, Zenon DEF Written
  <1>3. /\ target \in Steps
        /\ closed' = first \o (IF commit THEN <<new>> ELSE <<>>)
        /\ open' = IF commit THEN NoStep ELSE target
        /\ data' = IF commit THEN NoData ELSE held
        /\ last' = IF commit THEN target ELSE IF first # <<>> THEN open ELSE last
        /\ nextStep' = IF commit THEN target + 1
                       ELSE IF first # <<>> THEN open + 1 ELSE nextStep
        /\ txn' = IF closed' # <<>> THEN "admit" ELSE "idle"
    BY Zenon DEF Ingest, before
  <1> HIDE DEF held
  <1>4. first = IF closes THEN <<older>> ELSE <<>>
    BY DEF OpenRow
  <1>5. (first # <<>>) <=> closes
    BY <1>4
  <1>6. closed' = IF closes THEN IF commit THEN <<older, new>> ELSE <<older>>
                  ELSE IF commit THEN <<new>> ELSE <<>>
    <2>1. PICK o, w : o = older /\ w = new
      OBVIOUS
    <2>2. PICK f : f = first
      OBVIOUS
    <2>3. closed' = f \o (IF commit THEN <<w>> ELSE <<>>)
      BY <1>3, <2>1, <2>2, Zenon
    <2>4. f = IF closes THEN <<o>> ELSE <<>>
      BY <1>4, <2>1, <2>2, Zenon
    <2> HIDE DEF older, new, first, closes
    <2>6. /\ <<o>> \o <<w>> = <<o, w>> /\ <<o>> \o <<>> = <<o>>
          /\ <<>> \o <<w>> = <<w>> /\ <<>> \o <<>> = <<>>
      BY o \in {o, w}, w \in {o, w}, Pairs
    <2>5. closed' = IF closes THEN IF commit THEN <<o, w>> ELSE <<o>>
                    ELSE IF commit THEN <<w>> ELSE <<>>
      BY <2>3, <2>4, <2>6, Zenon
    <2> QED
      BY <2>1, <2>5, Zenon
  <1>7. (closed' # <<>>) <=> (closes \/ commit)
    BY <1>6
  <1>8. data' \in [Keys -> Seq(Nat)]
    BY <1>1, <1>2, <1>3
  <1> HIDE DEF first
  <1>9. Ingested(target, commit, held)
    BY <1>2, <1>3, <1>5, <1>6, <1>7, <1>8, Zenon DEF Ingested
  <1> QED
    BY <1>9

\* log() and a span that ends.
LEMMA CallIs ==
  ASSUME StoreTypes, Log \/ RecordSpan
  PROVE  \E target \in Steps, commit \in BOOLEAN : \E held :
            /\ target = Current \/ ~Backward(target)
            /\ Ingested(target, commit, held)
  <1>1. CASE Log
    <2>1. PICK keys \in SUBSET Keys, commit \in BOOLEAN :
            \/ Ingest(Current, keys, FALSE, commit)
            \/ \E step \in Steps : ~Backward(step) /\ Ingest(step, keys, FALSE, commit)
      BY <1>1, Zenon DEF Log
    <2>2. CASE Ingest(Current, keys, FALSE, commit)
      <3>1. PICK held : Ingested(Current, commit, held)
        BY <2>2, IngestIs
      <3>2. Current \in Steps
        BY <3>1, Zenon DEF Ingested
      <3> QED
        BY <3>1, <3>2, Zenon
    <2>3. CASE \E step \in Steps : ~Backward(step) /\ Ingest(step, keys, FALSE, commit)
      <3>1. PICK step \in Steps : ~Backward(step) /\ Ingest(step, keys, FALSE, commit)
        BY <2>3
      <3>2. PICK held : Ingested(step, commit, held)
        BY <3>1, IngestIs
      <3> QED
        BY <3>1, <3>2, Zenon
    <2> QED
      BY <2>1, <2>2, <2>3
  <1>2. CASE RecordSpan
    <2>1. PICK keys \in SUBSET Keys : Ingest(Current, keys, TRUE, FALSE)
      BY <1>2, Zenon DEF RecordSpan
    <2>2. PICK held : Ingested(Current, FALSE, held)
      BY <2>1, IngestIs
    <2>3. Current \in Steps
      BY <2>2, Zenon DEF Ingested
    <2> QED
      BY <2>2, <2>3, Zenon
  <1> QED
    BY <1>1, <1>2

\* A batch moves to the end of the file.
LEMMA PersistIs ==
  ASSUME LogInv, Writer!Persist
  PROVE  \E n \in 1..Len(pending) :
           /\ Placed(stored, pending, stored', pending', Len(stored), Len(pending), n)
           /\ stored' \in Seq(Nat) /\ pending' \in Seq(Nat)
  <1>1. PICK n \in 1..Len(pending) :
          /\ stored' = stored \o SubSeq(pending, 1, n)
          /\ pending' = SubSeq(pending, n + 1, Len(pending))
    BY Zenon DEF Writer!Persist
  <1>2. stored \in Seq(Nat) /\ pending \in Seq(Nat)
    BY DEF LogInv, LogShape
  <1> QED
    BY <1>1, <1>2, PlacedProps, Zenon

LEMMA PersistFile ==
  ASSUME LogInv, FileInv, Writer!Persist, rows' = rows
  PROVE  FileInv'
  <1>1. PICK n \in 1..Len(pending) :
          Placed(stored, pending, stored', pending', Len(stored), Len(pending), n)
    BY PersistIs
  <1>2. PICK q : q = stored'
    OBVIOUS
  <1>3. PICK S \in Nat, P \in Nat : S = Len(stored) /\ P = Len(pending)
    BY DEF LogInv, LogShape
  <1>4. /\ n \in 1..P /\ Len(q) = S + n
        /\ \A j \in 1..(S + n) : q[j] = IF j <= S THEN stored[j] ELSE pending[j - S]
    BY <1>1, <1>2, <1>3, Zenon DEF Placed
  <1>5. \A j \in 1..(S + n) : j > S => j - S \in 1..P /\ ~(j <= S)
    BY <1>3, <1>4
  <1>6. \A i, j \in 1..P : i < j => pending[i] < pending[j]
    BY <1>3, Zenon DEF LogInv, LogOrder
  <1>7. \A i \in 1..P, k \in 1..S : stored[k] < pending[i]
    BY <1>3, Zenon DEF LogInv, LogOrder
  <1>8. \A i \in 1..P : pending[i] \in Nat /\ pending[i] >= 1
    <2>1. \A i \in 1..P : pending[i] \in 1..(next - 1)
      BY <1>3, Zenon DEF LogInv, LogOrder
    <2>2. next \in Nat
      BY DEF LogInv, LogShape
    <2> QED
      BY <2>1, <2>2
  <1>9. /\ \A i, j \in 1..S : i < j => stored[i] < stored[j]
        /\ \A i \in 1..S : stored[i] >= 1
    BY <1>3, Zenon DEF FileInv
  <1>10. ASSUME NEW i \in 1..Len(q) PROVE q[i] >= 1
    <2>1. CASE i <= S
      <3>1. i \in 1..S
        BY <1>3, <1>4, <2>1
      <3> QED
        BY <1>4, <1>9, <2>1, <3>1
    <2>2. CASE i > S
      <3>1. i - S \in 1..P /\ ~(i <= S)
        BY <1>4, <1>5, <2>2
      <3> QED
        BY <1>4, <1>8, <3>1
    <2> QED
      BY <1>3, <1>4, <2>1, <2>2
  <1>11. ASSUME NEW i \in 1..Len(q), NEW j \in 1..Len(q), i < j PROVE q[i] < q[j]
    <2>1. CASE j <= S
      <3>1. i \in 1..S /\ j \in 1..S
        BY <1>3, <1>4, <1>11, <2>1
      <3> QED
        BY <1>4, <1>9, <1>11, <2>1, <3>1
    <2>2. CASE i <= S /\ j > S
      <3>1. i \in 1..S /\ j - S \in 1..P /\ ~(j <= S)
        BY <1>3, <1>4, <2>2
      <3> QED
        BY <1>4, <1>7, <2>2, <3>1
    <2>3. CASE i > S
      <3>1. i - S \in 1..P /\ j - S \in 1..P /\ ~(i <= S) /\ ~(j <= S) /\ i - S < j - S
        BY <1>3, <1>4, <1>11, <2>3
      <3> QED
        BY <1>4, <1>6, <3>1
    <2> QED
      BY <1>3, <1>4, <2>1, <2>2, <2>3
  <1>12. Len(rows') = next' - 1
    BY DEF FileInv, Writer!Persist
  <1> QED
    BY <1>2, <1>10, <1>11, <1>12, Zenon DEF FileInv

\* What a resumed run reads back: its rows in file order, and the last step.
Reread(q, top) ==
    /\ q \in Seq(RowSet) /\ Len(q) = Len(stored)
    /\ \A i \in 1..Len(q) : q[i] = rows[stored[i]]
    /\ top \in StepOrNone
    /\ \A i \in 1..Len(q) : q[i].step <= top
    /\ Len(q) = 0 => top = NoStep

\* Lines of the file name rows of the run.
LEMMA LineIsRow ==
  ASSUME Base, NEW i \in 1..Len(stored)
  PROVE  stored[i] \in 1..Len(rows) /\ rows[stored[i]] \in RowSet
  <1>1. stored[i] \in Nat /\ next \in Nat
    BY DEF Base, IInv, LogInv, LogShape
  <1>2. stored[i] >= 1 /\ stored[i] < next /\ Len(rows) = next - 1
    BY Zenon DEF Base, IInv, LogInv, LogOrder, FileInv
  <1>3. stored[i] \in 1..Len(rows)
    BY <1>1, <1>2
  <1> QED
    BY <1>3 DEF Base, StoreTypes

LEMMA ResumeIs ==
  ASSUME Base, Resume
  PROVE  Reread(rows', last') /\ nextStep' = last' + 1 /\ emitted' = last'
  <1>1. rows' = [i \in 1..Len(stored) |-> rows[stored[i]]]
    BY Zenon DEF Resume
  <1>2. /\ last' = IF rows' = <<>> THEN NoStep
                   ELSE CHOOSE s \in StepsOf(rows') : \A u \in StepsOf(rows') : u <= s
        /\ nextStep' = last' + 1 /\ emitted' = last'
    <2> DEFINE top == IF rows' = <<>> THEN NoStep
                      ELSE CHOOSE s \in StepsOf(rows') : \A u \in StepsOf(rows') : u <= s
    <2>1. last' = top /\ nextStep' = top + 1 /\ emitted' = top
      BY DEF Resume
    <2> QED
      BY <2>1
  <1>3. PICK q : q = rows'
    OBVIOUS
  <1>4. PICK S \in Nat : S = Len(stored)
    BY DEF Base, IInv, LogInv, LogShape
  <1>5. /\ q \in Seq(RowSet) /\ Len(q) = S
        /\ \A i \in 1..S : q[i] = rows[stored[i]]
    <2>1. \A i \in 1..S : rows[stored[i]] \in RowSet
      BY <1>4, LineIsRow
    <2>2. q = [i \in 1..S |-> rows[stored[i]]]
      BY <1>1, <1>3, <1>4
    <2> QED
      BY <2>1, <2>2
  <1>6. \A i \in 1..S : q[i].step \in Steps
    <2>1. \A i \in 1..S : q[i] \in RowSet
      BY <1>5
    <2> QED
      BY <2>1 DEF RowSet
  <1>7. CASE S = 0
    <2>1. q = <<>>
      BY <1>5, <1>7
    <2>2. last' = NoStep
      BY <1>2, <1>3, <2>1, Zenon
    <2> QED
      BY <1>2, <1>3, <1>4, <1>5, <1>7, <2>2 DEF Reread, StepOrNone
  <1>8. CASE S # 0
    <2>1. q # <<>>
      BY <1>5, <1>8
    <2>2. PICK T : T = StepsOf(q)
      OBVIOUS
    <2>3. T = {q[i].step : i \in 1..S}
      BY <1>5, <2>2, Zenon DEF StepsOf
    <2>4. T \subseteq 0..MaxStep /\ T # {}
      <3>1. 1 \in 1..S
        BY <1>4, <1>8
      <3> QED
        BY <1>6, <2>3, <3>1 DEF Steps
    <2>5. \E s \in T : \A u \in T : u <= s
      <3>1. MaxStep \in Nat
        BY StoreAssumption
      <3> QED
        BY <2>4, <3>1, Greatest
    <2>6. last' = CHOOSE s \in T : \A u \in T : u <= s
      BY <1>2, <1>3, <2>1, <2>2, Zenon
    <2>7. last' \in T /\ \A u \in T : u <= last'
      BY <2>5, <2>6, Zenon
    <2>8. \A i \in 1..S : q[i].step <= last'
      BY <2>3, <2>7
    <2>9. last' \in StepOrNone
      BY <2>4, <2>7 DEF StepOrNone, Steps
    <2> QED
      BY <1>2, <1>3, <1>4, <1>5, <1>8, <2>8, <2>9, Zenon DEF Reread
  <1> QED
    BY <1>7, <1>8

LEMMA RowsAre ==
  ASSUME StoreTypes
  PROVE  /\ open # NoStep => open \in Steps /\ [step |-> open, data |-> data] \in RowSet
         /\ OpenRow = IF open = NoStep THEN <<>> ELSE <<[step |-> open, data |-> data]>>
  <1>1. open # NoStep => open \in Steps
    BY DEF StoreTypes, StepOrNone
  <1> QED
    BY <1>1 DEF OpenRow, StoreTypes, RowSet

\* A call leaves the store's types and its transaction as they should be.
LEMMA CallBase ==
  ASSUME Base, Log \/ RecordSpan
  PROVE  StoreTypes' /\ FileInv' /\ TxnInv'
  <1>1. PICK target \in Steps, commit \in BOOLEAN :
          \E held : Ingested(target, commit, held)
    BY CallIs, Zenon DEF Base
  <1>2. PICK held : Ingested(target, commit, held)
    BY <1>1
  <1>3. /\ calls' = calls + 1
        /\ UNCHANGED <<emitted, merge, dropped, finishing, rows, allow, outages, restarts,
                       stored, next, failing, phase>>
    BY Zenon DEF Log, RecordSpan, Accepting, cacheVars, writerVars
  <1>4. PICK o, w : o = [step |-> open, data |-> data] /\ w = [step |-> target, data |-> held]
    OBVIOUS
  <1>5. /\ w \in RowSet
        /\ open # NoStep => o \in RowSet /\ open \in Steps
    BY <1>2, <1>4, RowsAre DEF Ingested, RowSet, Base
  <1>6. closed' = IF target # open /\ open # NoStep
                  THEN IF commit THEN <<o, w>> ELSE <<o>>
                  ELSE IF commit THEN <<w>> ELSE <<>>
    BY <1>2, <1>4, Zenon DEF Ingested
  <1>7. closed' \in Seq(RowSet) /\ (txn' = "admit" => closed' # <<>>)
        /\ (txn' = "idle" => closed' = <<>>) /\ txn' \in {"admit", "idle"}
    <2>1. txn' = IF (target # open /\ open # NoStep) \/ commit THEN "admit" ELSE "idle"
      BY <1>2, Zenon DEF Ingested
    <2> QED
      BY <1>5, <1>6, <2>1
  <1>8. open' \in StepOrNone /\ last' \in StepOrNone /\ nextStep' \in Int
    <2>1. target \in Int /\ (open # NoStep => open \in Int)
      BY <1>5, StoreAssumption DEF Steps
    <2> QED
      BY <1>2, <1>5, <2>1 DEF Ingested, StepOrNone, Base, StoreTypes
  <1>9. data' \in [Keys -> Seq(Nat)] /\ calls' \in Nat
    <2>1. data' \in [Keys -> Seq(Nat)]
      BY <1>2, Zenon DEF Ingested
    <2>2. calls' \in Nat
      BY <1>3 DEF Base, StoreTypes
    <2> QED
      BY <2>1, <2>2
  <1>10. StoreTypes'
    BY <1>3, <1>7, <1>8, <1>9 DEF Base, StoreTypes
  <1>11. FileInv'
    BY <1>3, Zenon DEF Base, FileInv
  <1>12. TxnInv'
    BY <1>7 DEF TxnInv
  <1> QED
    BY <1>10, <1>11, <1>12

\* What every other action but the end and the start of a run leaves alone.
Rest == <<allow, outages, finishing, calls, restarts>>

LEMMA HeadRow ==
  ASSUME StoreTypes, closed # <<>>
  PROVE  Head(closed) \in RowSet /\ Head(closed) = closed[1] /\ Tail(closed) \in Seq(RowSet)
  BY DEF StoreTypes

LEMMA AdmitBase ==
  ASSUME Base, Admit
  PROVE  StoreTypes' /\ FileInv' /\ TxnInv'
  <1>1. /\ txn = "admit" /\ txn' = "publish" /\ rows' = Append(rows, Head(closed))
        /\ dropped' = (dropped \/ lost' # lost) /\ next' = next + 1
        /\ UNCHANGED <<open, data, nextStep, last, emitted, merge, closed, finishing, allow,
                       outages, calls, restarts, stored, failing, phase>>
    BY Zenon DEF Admit, Writer!Admit, openVars, cacheVars, runVars
  <1>2. closed # <<>> /\ Head(closed) \in RowSet
    BY <1>1, HeadRow, Zenon DEF Base, TxnInv
  <1>3. PICK r : r = rows'
    OBVIOUS
  <1>4. r \in Seq(RowSet) /\ Len(r) = Len(rows) + 1 /\ r[Len(r)] = Head(closed) /\ r # <<>>
    BY <1>1, <1>2, <1>3 DEF Base, StoreTypes
  <1>5. dropped' \in BOOLEAN
    BY <1>1, Zenon DEF Base, StoreTypes
  <1>6. StoreTypes'
    BY <1>1, <1>3, <1>4, <1>5, Zenon DEF Base, StoreTypes
  <1>7. FileInv'
    <2>1. Len(rows) = next - 1 /\ next \in Nat
      BY DEF Base, FileInv, IInv, LogInv, LogShape
    <2>2. Len(r) = next' - 1
      BY <1>1, <1>4, <2>1
    <2> QED
      BY <1>1, <1>3, <2>2, Zenon DEF Base, FileInv
  <1>8. TxnInv'
    BY <1>1, <1>2, <1>3, <1>4 DEF TxnInv
  <1> QED
    BY <1>6, <1>7, <1>8

LEMMA LeavesTxn ==
  ASSUME StoreTypes, TxnInv, txn \in {"admit", "publish"}, closed' = Tail(closed), AfterRow(closed')
  PROVE  closed' \in Seq(RowSet) /\ txn' \in {"settle", "admit"} /\ (txn' = "admit" => closed' # <<>>)
  <1>1. closed # <<>>
    BY DEF TxnInv
  <1> QED
    BY <1>1, HeadRow DEF AfterRow

LEMMA RefuseBase ==
  ASSUME Base, Refuse
  PROVE  StoreTypes' /\ FileInv' /\ TxnInv'
  <1>1. /\ txn = "admit" /\ closed' = Tail(closed) /\ AfterRow(closed') /\ dropped' = TRUE
        /\ UNCHANGED <<open, data, nextStep, last, emitted, merge, finishing, rows, allow,
                       outages, calls, restarts>>
    BY Zenon DEF Refuse, openVars, cacheVars, runVars
  <1>2. UNCHANGED <<stored, next, failing, phase>>
    BY Zenon DEF Refuse, writerVars, Writer!Discard
  <1>3. /\ closed' \in Seq(RowSet) /\ txn' \in {"settle", "admit"}
        /\ txn' = "admit" => closed' # <<>>
    BY <1>1, LeavesTxn DEF Base
  <1>4. StoreTypes'
    <2>1. txn' \in {"idle", "admit", "publish", "settle", "flush", "resettle"}
      BY <1>3
    <2>2. dropped' \in BOOLEAN
      BY <1>1
    <2> QED
      BY <1>1, <1>2, <1>3, <2>1, <2>2, Zenon DEF Base, StoreTypes
  <1>5. FileInv'
    BY <1>1, <1>2, Zenon DEF Base, FileInv
  <1>6. TxnInv'
    BY <1>3 DEF TxnInv
  <1> QED
    BY <1>4, <1>5, <1>6

LEMMA PublishBase ==
  ASSUME Base, Publish
  PROVE  StoreTypes' /\ FileInv' /\ TxnInv'
  <1>1. /\ txn = "publish" /\ closed' = Tail(closed) /\ AfterRow(closed')
        /\ merge' = (merge \/ Repeats(Head(closed).step)) /\ emitted' = Head(closed).step
        /\ UNCHANGED <<open, data, nextStep, last, dropped, finishing, rows, allow,
                       outages, calls, restarts, stored, next, failing, phase>>
    BY Zenon DEF Publish, openVars, runVars, writerVars
  <1>2. /\ closed' \in Seq(RowSet) /\ txn' \in {"settle", "admit"}
        /\ txn' = "admit" => closed' # <<>>
    BY <1>1, LeavesTxn DEF Base
  <1>3. emitted' \in StepOrNone /\ merge' \in BOOLEAN
    <2>1. closed # <<>>
      BY <1>1 DEF Base, TxnInv
    <2>2. Head(closed) \in RowSet
      BY <2>1, HeadRow DEF Base
    <2>3. Head(closed).step \in Steps
      BY <2>2 DEF RowSet
    <2>4. merge' \in BOOLEAN
      BY <1>1, Zenon DEF Base, StoreTypes
    <2> QED
      BY <1>1, <2>3, <2>4 DEF StepOrNone
  <1>4. StoreTypes'
    <2>1. txn' \in {"idle", "admit", "publish", "settle", "flush", "resettle"}
      BY <1>2
    <2> QED
      BY <1>1, <1>2, <1>3, <2>1, Zenon DEF Base, StoreTypes
  <1>5. FileInv'
    BY <1>1, Zenon DEF Base, FileInv
  <1>6. TxnInv'
    BY <1>2 DEF TxnInv
  <1> QED
    BY <1>4, <1>5, <1>6

\* A step of the writer or the disk, of a transaction that settles, or of finish().
LEMMA QuietBase ==
  ASSUME Base, UNCHANGED <<open, data, nextStep, last, emitted, merge, dropped, closed, rows, allow,
                           outages, calls, restarts, next>>,
         FileInv', finishing' \in BOOLEAN, failing' \in BOOLEAN,
         phase' \in {"open", "closing", "closed"},
         \/ txn' = txn
         \/ /\ txn' \in {"idle", "admit", "flush", "resettle"}
            /\ txn' = "idle" => closed = <<>>
            /\ txn' = "admit" => closed # <<>>
  PROVE  StoreTypes' /\ FileInv' /\ TxnInv'
  <1>1. StoreTypes'
    <2>1. txn' \in {"idle", "admit", "publish", "settle", "flush", "resettle"}
      BY DEF Base, StoreTypes
    <2> QED
      BY <2>1, Zenon DEF Base, StoreTypes
  <1>2. TxnInv'
    <2>1. CASE txn' = txn
      BY <2>1, Zenon DEF Base, TxnInv
    <2>2. CASE txn' # txn
      BY <2>2 DEF Base, TxnInv
    <2> QED
      BY <2>1, <2>2
  <1> QED
    BY <1>1, <1>2

LEMMA NextBase == Base /\ [Next]_vars => Base'
  <1> SUFFICES ASSUME Base, [Next]_vars PROVE Base'
    OBVIOUS
  <1>0. IInv'
    BY NextIInv DEF Base
  <1>1. CASE Log \/ RecordSpan
    BY <1>0, <1>1, CallBase, Zenon DEF Base
  <1>2. CASE CommitOpen
    <2>1. /\ open # NoStep /\ closed' = OpenRow /\ txn' = "admit" /\ open' = NoStep
          /\ data' = NoData /\ last' = open /\ nextStep' = open + 1
          /\ UNCHANGED <<emitted, merge, dropped, finishing, rows, allow, outages, calls, restarts,
                         stored, next, failing, phase>>
      BY <1>2, Zenon DEF CommitOpen, cacheVars, runVars, writerVars
    <2>2. closed' \in Seq(RowSet) /\ closed' # <<>>
      <3>1. PICK o : o = [step |-> open, data |-> data]
        OBVIOUS
      <3>2. o \in RowSet /\ closed' = <<o>>
        BY <2>1, <3>1, RowsAre, Zenon DEF Base
      <3> QED
        BY <3>2
    <2>3. open' \in StepOrNone /\ last' \in StepOrNone /\ nextStep' \in Int
      <3>1. open \in Steps /\ open \in Int
        BY <2>1, RowsAre, StoreAssumption DEF Base, Steps
      <3> QED
        BY <2>1, <3>1 DEF StepOrNone
    <2>4. data' \in [Keys -> Seq(Nat)]
      BY <2>1 DEF NoData
    <2>5. StoreTypes'
      BY <2>1, <2>2, <2>3, <2>4 DEF Base, StoreTypes
    <2>6. FileInv'
      BY <2>1, Zenon DEF Base, FileInv
    <2>7. TxnInv'
      BY <2>1, <2>2 DEF TxnInv
    <2> QED
      BY <1>0, <2>5, <2>6, <2>7 DEF Base
  <1>3. CASE Admit
    BY <1>0, <1>3, AdmitBase, Zenon DEF Base
  <1>4. CASE Refuse
    BY <1>0, <1>4, RefuseBase, Zenon DEF Base
  <1>5. CASE Publish
    BY <1>0, <1>5, PublishBase, Zenon DEF Base
  <1>6. ASSUME UNCHANGED <<stored, rows, next>> PROVE FileInv'
    BY <1>6, Zenon DEF Base, FileInv
  <1>7. finishing \in BOOLEAN /\ failing \in BOOLEAN /\ phase \in {"open", "closing", "closed"}
    BY Zenon DEF Base, StoreTypes
  <1>8. CASE Settle \/ Resettle
    <2>1. UNCHANGED <<open, data, nextStep, last, emitted, merge, dropped, closed, finishing, rows,
                      allow, outages, calls, restarts, stored, next, failing, phase>>
      BY <1>8, Zenon DEF Settle, Resettle, Evict, openVars, runVars, writerVars
    <2>2. \/ txn' = "flush"
          \/ txn' = IF closed = <<>> THEN "idle" ELSE "admit"
      BY <1>8 DEF Settle, Resettle, Continue
    <2> QED
      BY <1>0, <1>6, <1>7, <2>1, <2>2, QuietBase DEF Base
  <1>9. CASE FlushFirst \/ Persist \/ Fail
    <2>1. /\ UNCHANGED <<open, data, nextStep, last, emitted, merge, dropped, closed, finishing, rows,
                         allow, outages, calls, restarts>>
          /\ txn' \in {txn, "resettle"}
      BY <1>9 DEF FlushFirst, Persist, Fail, openVars, cacheVars, runVars
    <2>2. CASE Writer!Persist
      <3>1. next' = next /\ failing' = FALSE /\ phase' = phase
        BY <2>2, Zenon DEF Writer!Persist
      <3>2. FileInv'
        BY <2>1, <2>2, PersistFile DEF Base, IInv
      <3> QED
        BY <1>0, <1>7, <2>1, <3>1, <3>2, QuietBase DEF Base
    <2>3. CASE UNCHANGED writerVars \/ Writer!Fail
      <3>1. next' = next /\ failing' \in {failing, TRUE} /\ phase' = phase /\ stored' = stored
        BY <2>3 DEF Writer!Fail, writerVars
      <3> QED
        BY <1>0, <1>6, <1>7, <2>1, <3>1, QuietBase DEF Base
    <2> QED
      BY <1>9, <2>2, <2>3, Zenon DEF FlushFirst, Persist, Fail
  <1>10. CASE Finish \/ Close \/ Ended \/ UNCHANGED vars
    <2>1. /\ UNCHANGED <<open, data, nextStep, last, emitted, merge, dropped, closed, rows, allow,
                         outages, calls, restarts, stored, next, failing, txn>>
          /\ finishing' \in {finishing, TRUE} /\ phase' \in {phase, "closing", "closed"}
      BY <1>10 DEF Finish, Close, Ended, vars, openVars, cacheVars, runVars, writerVars, Writer!Shut
    <2> QED
      BY <1>0, <1>6, <1>7, <2>1, QuietBase DEF Base
  <1>11. CASE Resume
    <2>1. Reread(rows', last') /\ nextStep' = last' + 1 /\ emitted' = last'
      BY <1>11, ResumeIs
    <2>2. /\ merge' = ~Ascending(rows') /\ open' = NoStep /\ data' = NoData /\ dropped' = FALSE
          /\ txn' = "idle" /\ closed' = <<>> /\ finishing' = FALSE /\ failing' = FALSE
          /\ phase' = "open" /\ UNCHANGED <<allow, outages, calls>>
      BY <1>11, Zenon DEF Resume
    <2>3. /\ restarts' = restarts + 1 /\ next' = Len(stored) + 1
          /\ stored' = [i \in 1..Len(stored) |-> i]
      BY <1>11, Zenon DEF Resume
    <2>4. StoreTypes'
      <3>1. last' \in StepOrNone /\ emitted' \in StepOrNone /\ rows' \in Seq(RowSet)
        BY <2>1 DEF Reread
      <3>2. nextStep' \in Int /\ open' \in StepOrNone /\ restarts' \in Nat
        <4>1. last' \in Int
          BY <3>1, StoreAssumption DEF StepOrNone, Steps, NoStep
        <4> QED
          BY <2>1, <2>2, <2>3, <4>1 DEF StepOrNone, Base, StoreTypes
      <3>3. data' \in [Keys -> Seq(Nat)] /\ closed' \in Seq(RowSet)
        BY <2>2 DEF NoData
      <3>4. merge' \in BOOLEAN
        BY <2>2, Zenon DEF Ascending
      <3>5. txn' \in {"idle", "admit", "publish", "settle", "flush", "resettle"}
            /\ phase' \in {"open", "closing", "closed"}
        BY <2>2
      <3> QED
        BY <2>2, <3>1, <3>2, <3>3, <3>4, <3>5, Zenon DEF Base, StoreTypes
    <2>5. FileInv'
      <3>1. PICK S \in Nat : S = Len(stored)
        BY DEF Base, IInv, LogInv, LogShape
      <3>2. Len(rows') = next' - 1
        BY <2>1, <2>3, <3>1 DEF Reread
      <3>3. PICK q : q = stored'
        OBVIOUS
      <3>4. Len(q) = S /\ \A i \in 1..S : q[i] = i
        BY <2>3, <3>1, <3>3
      <3>5. \A i \in 1..Len(q) : q[i] >= 1
        BY <3>1, <3>4
      <3>6. \A i, j \in 1..Len(q) : i < j => q[i] < q[j]
        BY <3>1, <3>4
      <3> QED
        BY <3>2, <3>3, <3>5, <3>6, Zenon DEF FileInv
    <2>6. TxnInv'
      BY <2>2 DEF TxnInv
    <2> QED
      BY <1>0, <2>4, <2>5, <2>6 DEF Base
  <1> QED
    BY <1>1, <1>2, <1>3, <1>4, <1>5, <1>8, <1>9, <1>10, <1>11, Zenon DEF Next

(* The store's state keeps its types through every call, transaction,      *)
(* outage, crash and resume: what is open and what was closed are rows of  *)
(* known steps, and a transaction in a row's admission has that row.       *)
THEOREM TypeCorrect == Spec => [](StoreTypes /\ TxnInv)
  <1>1. Base => StoreTypes /\ TxnInv
    BY DEF Base
  <1> QED
    BY <1>1, InitBase, NextBase, PTL DEF Spec

-----------------------------------------------------------------------------
(* Ordinals and lines: as long as nothing was dropped, the writer holds    *)
(* every record, each at its own number.                                   *)
Lines ==
    ~dropped => /\ lost = {}
                /\ \A i \in 1..Len(stored) : stored[i] = i
                /\ \A i \in 1..Len(pending) : pending[i] = Len(stored) + i
                /\ next = Len(stored) + Len(pending) + 1

LEMMA AdmitLines ==
  ASSUME Base, Lines, Admit
  PROVE  Lines'
  <1> SUFFICES ASSUME ~dropped' PROVE Lines'
    BY DEF Lines
  <1>1. ~dropped /\ lost' = lost /\ stored' = stored /\ next' = next + 1
    BY Zenon DEF Admit, Writer!Admit
  <1>2. PICK S \in Nat, P \in Nat : S = Len(stored) /\ P = Len(pending)
    BY DEF Base, IInv, LogInv, LogShape
  <1>3. /\ lost = {} /\ \A i \in 1..S : stored[i] = i
        /\ \A i \in 1..P : pending[i] = S + i
        /\ next = S + P + 1
    BY <1>1, <1>2, Zenon DEF Lines
  <1>4. PICK i \in 1..(P + 1) : \E n \in 0..(P + 1 - i) :
          Writer!GiveUp(i, n) /\ pending' = Append(Writer!Without(i, n), next)
    BY <1>2 DEF Admit, Writer!Admit
  <1>5. PICK n \in 0..(P + 1 - i) :
          Writer!GiveUp(i, n) /\ pending' = Append(Writer!Without(i, n), next)
    BY <1>4
  <1>6. n = 0
    <2>1. ASSUME n # 0 PROVE FALSE
      <3>1. i \in i..(i + n - 1)
        BY <1>2, <1>4, <1>5, <2>1
      <3>2. pending[i] \in lost'
        BY <1>5, <3>1 DEF Writer!GiveUp
      <3> QED
        BY <1>1, <1>3, <3>2
    <2> QED
      BY <2>1
  <1>7. PICK w : w = Writer!Without(i, n)
    OBVIOUS
  <1>8. w \in Seq(Nat) /\ Taken(w, pending, P, i, n)
    <2>1. pending \in Seq(Nat)
      BY DEF Base, IInv, LogInv, LogShape
    <2>2. i \in 1..(Len(pending) + 1) /\ n \in 0..(Len(pending) + 1 - i)
      BY <1>2
    <2>3. w = SubSeq(pending, 1, i - 1) \o SubSeq(pending, i + n, Len(pending))
      BY <1>7 DEF Writer!Without
    <2> QED
      BY <1>2, <2>1, <2>2, <2>3, WithoutProps, Zenon
  <1>9. Len(w) = P /\ \A j \in 1..P : w[j] = pending[j]
    BY <1>2, <1>6, <1>8 DEF Taken
  <1>10. PICK q : q = pending'
    OBVIOUS
  <1>11. q = Append(w, next) /\ next \in Nat
    BY <1>5, <1>7, <1>10 DEF Base, IInv, LogInv, LogShape
  <1>12. Len(q) = P + 1 /\ q[P + 1] = next /\ \A j \in 1..P : q[j] = w[j]
    BY <1>8, <1>9, <1>11, AppendProperties
  <1>13. ASSUME NEW j \in 1..(P + 1) PROVE q[j] = S + j
    <2>1. CASE j = P + 1
      BY <1>2, <1>3, <1>12, <2>1
    <2>2. CASE j \in 1..P
      BY <1>3, <1>9, <1>12, <2>2, Zenon
    <2> QED
      BY <1>2, <2>1, <2>2
  <1>14. next + 1 = S + (P + 1) + 1
    BY <1>2, <1>3
  <1> QED
    BY <1>1, <1>2, <1>3, <1>10, <1>12, <1>13, <1>14, Zenon DEF Lines

LEMMA PersistLines ==
  ASSUME LogInv, Lines, Writer!Persist, dropped' = dropped
  PROVE  Lines'
  <1> SUFFICES ASSUME ~dropped PROVE Lines'
    BY DEF Lines
  <1>1. PICK S \in Nat, P \in Nat : S = Len(stored) /\ P = Len(pending)
    BY DEF LogInv, LogShape
  <1>2. /\ lost = {} /\ \A i \in 1..S : stored[i] = i
        /\ \A i \in 1..P : pending[i] = S + i
        /\ next = S + P + 1
    BY <1>1, Zenon DEF Lines
  <1>3. PICK n \in 1..Len(pending) :
          Placed(stored, pending, stored', pending', Len(stored), Len(pending), n)
    BY PersistIs
  <1>4. PICK q, r : q = stored' /\ r = pending'
    OBVIOUS
  <1>5. /\ n \in 1..P
        /\ Len(q) = S + n /\ \A j \in 1..(S + n) : q[j] = IF j <= S THEN stored[j] ELSE pending[j - S]
        /\ Len(r) = P - n /\ \A j \in 1..(P - n) : r[j] = pending[n + j]
    BY <1>1, <1>3, <1>4, Zenon DEF Placed
  <1>6. ASSUME NEW j \in 1..(S + n) PROVE q[j] = j
    <2>1. CASE j <= S
      BY <1>1, <1>2, <1>5, <2>1
    <2>2. CASE ~(j <= S)
      <3>1. j - S \in 1..P /\ S + (j - S) = j
        BY <1>1, <1>5, <2>2
      <3> QED
        BY <1>2, <1>5, <2>2, <3>1, Zenon
    <2> QED
      BY <2>1, <2>2
  <1>7. ASSUME NEW j \in 1..(P - n) PROVE r[j] = (S + n) + j
    <2>1. n + j \in 1..P /\ S + (n + j) = (S + n) + j
      BY <1>1, <1>5
    <2> QED
      BY <1>2, <1>5, <2>1, Zenon
  <1>8. next = (S + n) + (P - n) + 1
    BY <1>1, <1>2, <1>5
  <1>9. next' = next /\ lost' = lost
    BY Zenon DEF Writer!Persist
  <1> QED
    BY <1>2, <1>4, <1>5, <1>6, <1>7, <1>8, <1>9, Zenon DEF Lines

LEMMA NextLines == Base /\ Lines /\ [Next]_vars => Lines'
  <1> SUFFICES ASSUME Base, Lines, [Next]_vars PROVE Lines'
    OBVIOUS
  <1>1. ASSUME UNCHANGED <<dropped, lost, stored, pending, next>> PROVE Lines'
    BY <1>1, Zenon DEF Lines
  <1>2. CASE Log \/ RecordSpan \/ CommitOpen \/ Publish \/ Settle \/ Resettle \/ Finish \/ Close
             \/ Ended \/ Fail \/ UNCHANGED vars
    <2>1. UNCHANGED <<dropped, lost, stored, pending, next>>
      BY <1>2, Zenon DEF Log, RecordSpan, CommitOpen, Publish, Settle, Resettle, Finish, Close,
                         Ended, Fail, vars, writerVars, Writer!Shut, Writer!Fail
    <2> QED
      BY <1>1, <2>1
  <1>3. CASE Admit
    BY <1>3, AdmitLines
  <1>4. CASE Refuse
    BY <1>4 DEF Refuse, Lines
  <1>5. CASE Persist \/ FlushFirst
    <2>1. dropped' = dropped
      BY <1>5, Zenon DEF Persist, FlushFirst
    <2>2. CASE Writer!Persist
      BY <2>1, <2>2, PersistLines DEF Base, IInv
    <2>3. CASE UNCHANGED writerVars \/ Writer!Fail
      <3>1. UNCHANGED <<lost, stored, pending, next>>
        BY <2>3, Zenon DEF writerVars, Writer!Fail
      <3> QED
        BY <1>1, <2>1, <3>1
    <2> QED
      BY <1>5, <2>2, <2>3, Zenon DEF Persist, FlushFirst
  <1>6. CASE Resume
    <2>1. /\ stored' = [i \in 1..Len(stored) |-> i] /\ pending' = <<>> /\ lost' = {}
          /\ next' = Len(stored) + 1
      BY <1>6, Zenon DEF Resume
    <2>2. PICK S \in Nat : S = Len(stored)
      BY DEF Base, IInv, LogInv, LogShape
    <2>3. PICK q, r : q = stored' /\ r = pending'
      OBVIOUS
    <2>4. Len(q) = S /\ Len(r) = 0 /\ \A i \in 1..S : q[i] = i
      BY <2>1, <2>2, <2>3
    <2>5. S + 1 = S + 0 + 1 /\ 1..0 = {}
      BY <2>2
    <2> QED
      BY <2>1, <2>2, <2>3, <2>4, <2>5, Zenon DEF Lines
  <1> QED
    BY <1>2, <1>3, <1>4, <1>5, <1>6, Zenon DEF Next

(* As long as no record was dropped, the ordinal a row was given is its    *)
(* line in the file: the writer's queue and the ordinals never drift       *)
(* apart, whatever is flushed, by whom, and in however many batches.       *)
THEOREM OrdinalsAreLines == Spec => []OrdinalIsLine
  <1>1. Init => Lines
    <2> SUFFICES ASSUME Init PROVE Lines
      OBVIOUS
    <2>1. pending = <<>> /\ stored = <<>> /\ lost = {} /\ next = 1
      BY Zenon DEF Init, Writer!Init
    <2> QED
      BY <2>1 DEF Lines
  <1>2. Base /\ Lines => OrdinalIsLine
    <2> SUFFICES ASSUME Base, Lines, ~dropped PROVE OrdinalIsLine
      BY DEF OrdinalIsLine
    <2>1. PICK n \in Nat : n = Len(stored) + Len(pending)
      BY DEF Base, IInv, LogInv, LogShape
    <2>2. /\ \A i \in 1..Len(stored) : stored[i] = i
          /\ \A i \in 1..Len(pending) : pending[i] = Len(stored) + i
          /\ next = n + 1
      BY <2>1, Zenon DEF Lines
    <2>3. row = n + (IF txn = "publish" THEN 0 ELSE 1)
      BY <2>1, <2>2 DEF Base, IInv, Link, CacheInv, CacheShape
    <2> QED
      BY <2>1, <2>2, <2>3, Zenon DEF OrdinalIsLine
  <1> QED
    BY <1>1, <1>2, InitBase, NextBase, NextLines, PTL DEF Spec

-----------------------------------------------------------------------------
(* Merging: no published row is newer than the last one, and until `merge' *)
(* is set each is newer than the one before.                               *)
Emit ==
    /\ row > 1 => rows[row - 1].step <= emitted
    /\ ~merge => \A i \in 1..(row - 2) : rows[i].step < rows[i + 1].step

LEMMA Numbers ==
  ASSUME Base
  PROVE  /\ emitted \in Int /\ last \in Int /\ open \in Int /\ row \in Nat \ {0}
         /\ Len(rows) \in Nat /\ Len(rows) = IF txn = "publish" THEN row ELSE row - 1
         /\ \A i \in 1..Len(rows) : rows[i].step \in Int
         /\ \A i \in 1..Len(closed) : closed[i].step \in Int
         /\ Len(closed) \in Nat
  <1>1. Steps \subseteq Int /\ StepOrNone \subseteq Int
    BY StoreAssumption DEF Steps, StepOrNone, NoStep
  <1>2. emitted \in Int /\ last \in Int /\ open \in Int
    BY <1>1 DEF Base, StoreTypes
  <1>3. row \in Nat \ {0} /\ Len(rows) = IF txn = "publish" THEN row ELSE row - 1
    BY DEF Base, FileInv, IInv, CacheInv, CacheShape, Link
  <1>4. /\ \A i \in 1..Len(rows) : rows[i] \in RowSet
        /\ \A i \in 1..Len(closed) : closed[i] \in RowSet
        /\ Len(rows) \in Nat /\ Len(closed) \in Nat
    BY DEF Base, StoreTypes
  <1>5. \A r \in RowSet : r.step \in Int
    BY <1>1 DEF RowSet
  <1> QED
    BY <1>2, <1>3, <1>4, <1>5, Zenon

\* A row is appended behind those that are there.
LEMMA AdmitRows ==
  ASSUME Base, Admit
  PROVE  /\ txn = "admit" /\ closed # <<>> /\ Head(closed) = closed[1]
         /\ Len(rows') = Len(rows) + 1 /\ rows'[Len(rows) + 1] = closed[1]
         /\ \A i \in 1..Len(rows) : rows'[i] = rows[i]
  <1>1. txn = "admit" /\ rows' = Append(rows, Head(closed))
    BY Zenon DEF Admit
  <1>2. closed # <<>> /\ Head(closed) \in RowSet /\ Head(closed) = closed[1] /\ rows \in Seq(RowSet)
    BY <1>1, HeadRow DEF Base, TxnInv, StoreTypes
  <1>3. PICK r, x : r = rows' /\ x = Head(closed)
    OBVIOUS
  <1>4. Len(r) = Len(rows) + 1 /\ r[Len(rows) + 1] = x /\ \A i \in 1..Len(rows) : r[i] = rows[i]
    BY <1>1, <1>2, <1>3, AppendProperties
  <1> QED
    BY <1>1, <1>2, <1>3, <1>4, Zenon

LEMMA NextEmit == Base /\ Emit /\ [Next]_vars => Emit'
  <1> SUFFICES ASSUME Base, Emit, [Next]_vars PROVE Emit'
    OBVIOUS
  <1>1. CASE Log \/ RecordSpan \/ CommitOpen \/ Refuse \/ Settle \/ Resettle \/ FlushFirst
             \/ Persist \/ Fail \/ Finish \/ Close \/ Ended \/ UNCHANGED vars
    <2>1. UNCHANGED <<row, rows, emitted, merge>>
      BY <1>1, Zenon DEF Log, RecordSpan, CommitOpen, Refuse, Settle, Resettle, Evict, FlushFirst,
                         Persist, Fail, Finish, Close, Ended, vars, cacheVars
    <2> QED
      BY <2>1, Zenon DEF Emit
  <1>2. CASE Admit
    <2>1. UNCHANGED <<row, emitted, merge>> /\ txn = "admit"
      BY <1>2, Zenon DEF Admit, cacheVars
    <2>2. \A i \in 1..(row - 1) : rows'[i] = rows[i]
      BY <1>2, <2>1, AdmitRows, Numbers
    <2>3. row > 1 => row - 1 \in 1..(row - 1)
      BY Numbers
    <2>4. \A i \in 1..(row - 2) : i \in 1..(row - 1) /\ i + 1 \in 1..(row - 1)
      <3>1. row \in Nat
        BY Numbers
      <3> QED
        BY <3>1
    <2> QED
      BY <2>1, <2>2, <2>3, <2>4, Zenon DEF Emit
  <1>3. CASE Publish
    <2>1. /\ txn = "publish" /\ row' = row + 1 /\ rows' = rows /\ emitted' = Head(closed).step
          /\ merge' = (merge \/ Repeats(Head(closed).step))
      BY <1>3, Zenon DEF Publish
    <2>2. Len(rows) = row /\ rows[row] = Head(closed)
      BY <2>1, Numbers DEF Base, TxnInv
    <2>3. row \in Nat \ {0} /\ \A i \in 1..row : rows[i].step \in Int
      BY <2>2, Numbers
    <2>4. rows[row].step = emitted' /\ row' - 1 = row
      BY <2>1, <2>2, <2>3
    <2>5. row' > 1 => rows'[row' - 1].step <= emitted'
      BY <2>1, <2>3, <2>4
    <2>6. ASSUME ~merge', NEW i \in 1..(row' - 2) PROVE rows[i].step < rows[i + 1].step
      <3>1. ~merge /\ ~(emitted' <= emitted)
        BY <2>1, <2>6, Zenon DEF Repeats
      <3>2. CASE i \in 1..(row - 2)
        BY <3>1, <3>2 DEF Emit
      <3>3. CASE i = row - 1
        <4>1. rows[row - 1].step <= emitted /\ row - 1 \in 1..row /\ i + 1 = row
          BY <2>1, <2>3, <2>6, <3>3 DEF Emit
        <4>2. rows[row - 1].step \in Int /\ emitted \in Int /\ emitted' \in Int
          <5>1. emitted \in Int
            BY Numbers, Zenon
          <5>2. row \in 1..row
            BY <2>3
          <5> QED
            BY <2>3, <2>4, <4>1, <5>1, <5>2, Zenon
        <4> QED
          BY <2>4, <3>1, <3>3, <4>1, <4>2
      <3> QED
        BY <2>1, <2>3, <2>6, <3>2, <3>3
    <2> QED
      BY <2>1, <2>5, <2>6, Zenon DEF Emit
  <1>4. CASE Resume
    <2>1. Reread(rows', last') /\ emitted' = last'
      BY <1>4, ResumeIs
    <2>2. row' = Len(stored) + 1 /\ merge' = ~Ascending(rows')
      BY <1>4, Zenon DEF Resume, FirstOrdinal
    <2>3. PICK S \in Nat : S = Len(stored)
      BY DEF Base, IInv, LogInv, LogShape
    <2>4. row' > 1 => rows'[row' - 1].step <= emitted'
      <3>1. row' > 1 => row' - 1 \in 1..Len(rows')
        BY <2>1, <2>2, <2>3 DEF Reread
      <3> QED
        BY <2>1, <3>1, Zenon DEF Reread
    <2>5. Len(rows') - 1 = row' - 2
      BY <2>1, <2>2, <2>3 DEF Reread
    <2>6. ~merge' => \A i \in 1..(row' - 2) : rows'[i].step < rows'[i + 1].step
      BY <2>2, <2>5, Zenon DEF Ascending
    <2> QED
      BY <2>4, <2>6, Zenon DEF Emit
  <1> QED
    BY <1>1, <1>2, <1>3, <1>4, Zenon DEF Next

(* Queries merge rows only when `merge' says so.  It is enough: until then *)
(* the published rows ascend strictly, whatever was patched, reordered,    *)
(* dropped or read back after a crash.                                     *)
THEOREM MergeIsFlagged == Spec => []MergeFlagged
  <1>1. Init => Emit
    <2> SUFFICES ASSUME Init PROVE Emit
      OBVIOUS
    <2>1. row = 1
      BY Zenon DEF Init
    <2> QED
      BY <2>1 DEF Emit
  <1>2. Base /\ Emit => MergeFlagged
    <2> SUFFICES ASSUME Base, Emit, ~merge PROVE MergeFlagged
      BY DEF MergeFlagged
    <2>1. PICK n \in Nat : n = row - 1
      BY Numbers
    <2>2. PICK o : o = [i \in 1..n |-> i]
      OBVIOUS
    <2>3. Len(o) = n /\ \A i \in 1..n : o[i] = i
      BY <2>2
    <2>4. PICK s : s = Rows(o)
      OBVIOUS
    <2>5. Len(s) = n /\ \A i \in 1..n : s[i] = rows[i]
      <3>1. s = [i \in 1..n |-> rows[o[i]]]
        BY <2>3, <2>4 DEF Rows
      <3> QED
        BY <2>3, <3>1
    <2>6. ASSUME NEW i \in 1..(Len(s) - 1) PROVE s[i].step < s[i + 1].step
      <3>1. i \in 1..n /\ i + 1 \in 1..n /\ i \in 1..(row - 2)
        BY <2>1, <2>5, Numbers
      <3>2. rows[i].step < rows[i + 1].step
        BY <3>1 DEF Emit
      <3> QED
        BY <2>5, <3>1, <3>2, Zenon
    <2>7. Ascending(s)
      BY <2>6 DEF Ascending
    <2> QED
      BY <2>1, <2>2, <2>4, <2>7, Zenon DEF MergeFlagged
  <1> QED
    BY <1>1, <1>2, InitBase, NextBase, NextEmit, PTL DEF Spec

-----------------------------------------------------------------------------
(* step_policy "monotonic": the rows, those being admitted, the last step  *)
(* and the open row follow each other.                                     *)
Follows ==
    /\ \A i, j \in 1..Len(rows) : i <= j => rows[i].step <= rows[j].step
    /\ \A i, j \in 1..Len(closed) : i <= j => closed[i].step <= closed[j].step
    /\ \A i \in 1..Len(rows), j \in 1..Len(closed) : rows[i].step <= closed[j].step
    /\ \A i \in 1..Len(rows) : rows[i].step <= last
    /\ \A i \in 1..Len(closed) : closed[i].step <= last
Reaches ==
    /\ open # NoStep => last <= open
    /\ open = NoStep => last < nextStep
Mono == ~allow => Follows /\ Reaches

LEMMA StepsAreInts == Steps \subseteq Int /\ NoStep \notin Steps
  BY StoreAssumption DEF Steps, NoStep

\* The rows a transaction closes start no earlier than `low', and it ends at `last'.
ClosesFrom(low) ==
    /\ Len(closed') \in {0, 1, 2}
    /\ Len(closed') >= 1 => low <= closed'[1].step /\ closed'[1].step \in Int
    /\ Len(closed') = 1 => last' = closed'[1].step
    /\ Len(closed') = 2 => /\ closed'[1].step <= closed'[2].step /\ last' = closed'[2].step
                           /\ closed'[2].step \in Int
    /\ Len(closed') = 0 => last' = last

LEMMA CallCloses ==
  ASSUME Base, Reaches, ~allow, Log \/ RecordSpan
  PROVE  ClosesFrom(last) /\ Reaches' /\ UNCHANGED <<rows, allow>> /\ closed = <<>>
  <1>1. PICK target \in Steps, commit \in BOOLEAN : \E held :
          (target = Current \/ ~Backward(target)) /\ Ingested(target, commit, held)
    BY CallIs, Zenon DEF Base
  <1>2. PICK held :
          (target = Current \/ ~Backward(target)) /\ Ingested(target, commit, held)
    BY <1>1
  <1>3. txn = "idle" /\ UNCHANGED <<rows, allow>>
    BY Zenon DEF Log, RecordSpan, Accepting
  <1>4. closed = <<>>
    BY <1>3, Zenon DEF Base, TxnInv
  <1>5. target \in Int /\ open \in Int /\ last \in Int /\ target # NoStep /\ nextStep \in Int
    BY Numbers, StepsAreInts DEF Base, StoreTypes
  <1>6. target >= last /\ (open # NoStep => target >= open /\ open >= last)
    BY <1>2, <1>5 DEF Current, Backward, Reaches
  <1>7. PICK o, w : o = [step |-> open, data |-> data] /\ w = [step |-> target, data |-> held]
    OBVIOUS
  <1>8. o.step = open /\ w.step = target
    BY <1>7
  <1>9. /\ closed' = IF target # open /\ open # NoStep
                     THEN IF commit THEN <<o, w>> ELSE <<o>>
                     ELSE IF commit THEN <<w>> ELSE <<>>
        /\ open' = IF commit THEN NoStep ELSE target
        /\ last' = IF commit THEN target ELSE IF target # open /\ open # NoStep THEN open ELSE last
        /\ nextStep' = IF commit THEN target + 1
                       ELSE IF target # open /\ open # NoStep THEN open + 1 ELSE nextStep
    BY <1>2, <1>7, Zenon DEF Ingested
  <1>10. ClosesFrom(last)
    <2>1. CASE target # open /\ open # NoStep /\ commit
      BY <1>5, <1>6, <1>8, <1>9, <2>1 DEF ClosesFrom
    <2>2. CASE target # open /\ open # NoStep /\ ~commit
      BY <1>5, <1>6, <1>8, <1>9, <2>2 DEF ClosesFrom
    <2>3. CASE ~(target # open /\ open # NoStep) /\ commit
      BY <1>5, <1>6, <1>8, <1>9, <2>3 DEF ClosesFrom
    <2>4. CASE ~(target # open /\ open # NoStep) /\ ~commit
      BY <1>5, <1>6, <1>8, <1>9, <2>4 DEF ClosesFrom
    <2> QED
      BY <2>1, <2>2, <2>3, <2>4
  <1>11. Reaches'
    BY <1>5, <1>6, <1>9 DEF Reaches
  <1> QED
    BY <1>3, <1>4, <1>10, <1>11

LEMMA ClosedFollow ==
  ASSUME Base, Follows, closed = <<>>, rows' = rows, ClosesFrom(last), last \in Int
  PROVE  Follows'
  <1>1. \A i \in 1..Len(rows) : rows[i].step \in Int /\ rows[i].step <= last
    BY Numbers, Zenon DEF Follows
  <1>2. CASE Len(closed') = 0
    BY <1>1, <1>2 DEF Follows, ClosesFrom
  <1>3. CASE Len(closed') = 1
    <2>1. last <= closed'[1].step /\ closed'[1].step \in Int /\ last' = closed'[1].step
      BY <1>3 DEF ClosesFrom
    <2>2. 1..Len(closed') = {1}
      BY <1>3
    <2>3. \A i \in 1..Len(rows) : rows[i].step <= closed'[1].step
      BY <1>1, <2>1
    <2>4. \A i \in 1..Len(closed') : i = 1
      BY <2>2
    <2>5. closed'[1].step <= closed'[1].step
      BY <2>1
    <2> QED
      BY <2>1, <2>3, <2>4, <2>5, Zenon DEF Follows
  <1>4. CASE Len(closed') = 2
    <2>1. /\ last <= closed'[1].step /\ closed'[1].step \in Int /\ last' = closed'[2].step
          /\ closed'[1].step <= closed'[2].step /\ closed'[2].step \in Int
      BY <1>4 DEF ClosesFrom
    <2>2. \A i \in 1..Len(closed') : i = 1 \/ i = 2
      BY <1>4
    <2>3. \A i \in 1..Len(rows) : /\ rows[i].step <= closed'[1].step
                                  /\ rows[i].step <= closed'[2].step
      BY <1>1, <2>1
    <2>4. \A i, j \in 1..Len(closed') : i <= j => closed'[i].step <= closed'[j].step
      BY <2>1, <2>2
    <2>5. \A i \in 1..Len(closed') : closed'[i].step <= closed'[2].step
      BY <2>1, <2>2
    <2> QED
      BY <2>1, <2>2, <2>3, <2>4, <2>5, Zenon DEF Follows
  <1> QED
    BY <1>2, <1>3, <1>4 DEF ClosesFrom

LEMMA AdmitFollow ==
  ASSUME Base, Follows, Admit
  PROVE  Follows'
  <1>1. /\ closed # <<>> /\ Len(rows') = Len(rows) + 1 /\ rows'[Len(rows) + 1] = closed[1]
        /\ \A i \in 1..Len(rows) : rows'[i] = rows[i]
    BY AdmitRows, Zenon
  <1>2. UNCHANGED <<closed, last>>
    BY Zenon DEF Admit, openVars
  <1>3. PICK n \in Nat : n = Len(rows)
    BY Numbers
  <1>4. PICK r : r = rows'
    OBVIOUS
  <1>5. 1 \in 1..Len(closed)
    BY <1>1 DEF Base, StoreTypes
  <1>6. Len(r) = n + 1 /\ r[n + 1] = closed[1] /\ \A i \in 1..n : r[i] = rows[i]
    BY <1>1, <1>3, <1>4, Zenon
  <1>7. \A i \in 1..(n + 1) : i \in 1..n \/ i = n + 1
    BY <1>3
  <1>8. closed[1].step <= closed[1].step
    BY <1>5, Numbers
  <1>9. \A j \in 1..Len(closed) : closed[1].step <= closed[j].step
    <2>1. \A j \in 1..Len(closed) : 1 <= j
      OBVIOUS
    <2> QED
      BY <1>5, <2>1, Zenon DEF Follows
  <1>10. \A i \in 1..n : ~(n + 1 <= i)
    BY <1>3
  <1>11. \A i, j \in 1..(n + 1) : i <= j => r[i].step <= r[j].step
    <2> SUFFICES ASSUME NEW i \in 1..(n + 1), NEW j \in 1..(n + 1), i <= j
                 PROVE  r[i].step <= r[j].step
      OBVIOUS
    <2>1. CASE i \in 1..n /\ j \in 1..n
      BY <1>3, <1>6, <2>1, Zenon DEF Follows
    <2>2. CASE i \in 1..n /\ j = n + 1
      BY <1>3, <1>5, <1>6, <2>2, Zenon DEF Follows
    <2>3. CASE i = n + 1 /\ j = n + 1
      BY <1>6, <1>8, <2>3, Zenon
    <2> QED
      BY <1>7, <1>10, <2>1, <2>2, <2>3, Zenon
  <1>12. \A i \in 1..(n + 1), j \in 1..Len(closed) : r[i].step <= closed[j].step
    BY <1>3, <1>6, <1>7, <1>9, Zenon DEF Follows
  <1>13. \A i \in 1..(n + 1) : r[i].step <= last
    BY <1>3, <1>5, <1>6, <1>7, Zenon DEF Follows
  <1> QED
    BY <1>2, <1>4, <1>6, <1>11, <1>12, <1>13, Zenon DEF Follows

\* A row leaves the transaction.
LEMMA TailFollow ==
  ASSUME Base, Follows, closed # <<>>, closed' = Tail(closed), UNCHANGED <<rows, last>>
  PROVE  Follows'
  <1>1. PICK c : c = closed'
    OBVIOUS
  <1>2. PICK n \in Nat : n = Len(closed)
    BY Numbers
  <1>3. Len(c) = n - 1 /\ \A i \in 1..Len(c) : c[i] = closed[i + 1]
    BY <1>1, <1>2, HeadTailProperties DEF Base, StoreTypes
  <1>4. /\ \A i \in 1..Len(c) : i + 1 \in 1..Len(closed)
        /\ \A i, j \in 1..Len(c) : i <= j => i + 1 <= j + 1
    BY <1>2, <1>3
  <1> QED
    BY <1>1, <1>3, <1>4, Zenon DEF Follows

LEMMA NextMono == Base /\ Mono /\ [Next]_vars => Mono'
  <1> SUFFICES ASSUME Base, Mono, [Next]_vars, ~allow' PROVE Follows' /\ Reaches'
    BY DEF Mono
  <1>1. allow' = allow
    BY Zenon DEF Next, Log, RecordSpan, CommitOpen, Admit, Refuse, Publish, Settle, FlushFirst,
                 Resettle, Persist, Fail, Finish, Close, Resume, Ended, vars, runVars
  <1>2. Follows /\ Reaches
    BY <1>1 DEF Mono
  <1>3. CASE Log \/ RecordSpan
    <2>1. ClosesFrom(last) /\ Reaches' /\ rows' = rows /\ closed = <<>>
      BY <1>1, <1>2, <1>3, CallCloses, Zenon
    <2> QED
      BY <1>2, <2>1, ClosedFollow, Numbers
  <1>4. CASE CommitOpen
    <2>1. /\ txn = "idle" /\ open # NoStep /\ closed' = OpenRow /\ open' = NoStep /\ last' = open
          /\ nextStep' = open + 1 /\ rows' = rows
      BY <1>4, Zenon DEF CommitOpen
    <2>2. closed = <<>>
      BY <2>1, Zenon DEF Base, TxnInv
    <2>3. open \in Int /\ last \in Int
      BY Numbers, Zenon
    <2>4. PICK o : o = [step |-> open, data |-> data]
      OBVIOUS
    <2>5. o.step = open
      BY <2>4
    <2>6. closed' = <<o>>
      BY <2>1, <2>4, Zenon DEF OpenRow
    <2>7. last <= open
      BY <1>2, <2>1 DEF Reaches
    <2>8. ClosesFrom(last)
      BY <2>1, <2>3, <2>5, <2>6, <2>7 DEF ClosesFrom
    <2>9. Reaches'
      BY <2>1, <2>3 DEF Reaches
    <2> QED
      BY <1>2, <2>1, <2>2, <2>3, <2>8, <2>9, ClosedFollow
  <1>5. CASE Admit
    <2>1. UNCHANGED <<open, last, nextStep>>
      BY <1>5, Zenon DEF Admit, openVars
    <2> QED
      BY <1>2, <1>5, <2>1, AdmitFollow, Zenon DEF Reaches
  <1>6. CASE Refuse \/ Publish
    <2>1. /\ UNCHANGED <<open, last, nextStep, rows>> /\ closed' = Tail(closed)
          /\ txn \in {"admit", "publish"}
      BY <1>6 DEF Refuse, Publish, openVars
    <2>2. closed # <<>>
      BY <2>1, Zenon DEF Base, TxnInv
    <2> QED
      BY <1>2, <2>1, <2>2, TailFollow, Zenon DEF Reaches
  <1>7. CASE Settle \/ Resettle \/ FlushFirst \/ Persist \/ Fail \/ Finish \/ Close \/ Ended
             \/ UNCHANGED vars
    <2>1. UNCHANGED <<open, last, nextStep, rows, closed>>
      BY <1>7, Zenon DEF Settle, Resettle, FlushFirst, Persist, Fail, Finish, Close, Ended, vars,
                         openVars
    <2> QED
      BY <1>2, <2>1, Zenon DEF Follows, Reaches
  <1>8. CASE Resume
    <2>1. Reread(rows', last') /\ nextStep' = last' + 1 /\ open' = NoStep /\ closed' = <<>>
      BY <1>8, ResumeIs, Zenon DEF Resume
    <2>2. last' \in Int
      BY <2>1, StepsAreInts DEF Reread, StepOrNone, NoStep
    <2>3. Reaches'
      <3>1. open' = NoStep /\ nextStep' = last' + 1
        BY <2>1
      <3>2. last' < nextStep'
        <4>1. \A n \in Int : n < n + 1
          OBVIOUS
        <4> QED
          BY <2>2, <3>1, <4>1, Zenon
      <3> QED
        BY <3>1, <3>2, Zenon DEF Reaches
    <2>4. PICK q : q = rows'
      OBVIOUS
    <2>5. /\ Len(q) = Len(stored) /\ \A i \in 1..Len(stored) : q[i] = rows[stored[i]]
          /\ \A i \in 1..Len(q) : q[i].step <= last'
      BY <2>1, <2>4, Zenon DEF Reread
    <2>6. ASSUME NEW i \in 1..Len(stored), NEW j \in 1..Len(stored), i <= j
          PROVE  stored[i] <= stored[j]
      <3>1. CASE i = j
        BY <3>1, LineIsRow
      <3>2. CASE i < j
        <4>1. stored[i] < stored[j]
          BY <3>2 DEF Base, FileInv
        <4> QED
          BY <4>1, LineIsRow
      <3> QED
        BY <2>6, <3>1, <3>2
    <2>7. \A i, j \in 1..Len(q) : i <= j => q[i].step <= q[j].step
      <3> SUFFICES ASSUME NEW i \in 1..Len(q), NEW j \in 1..Len(q), i <= j
                   PROVE  q[i].step <= q[j].step
        OBVIOUS
      <3>1. /\ i \in 1..Len(stored) /\ j \in 1..Len(stored)
            /\ q[i] = rows[stored[i]] /\ q[j] = rows[stored[j]]
        BY <2>5, Zenon
      <3>2. stored[i] <= stored[j] /\ stored[i] \in 1..Len(rows) /\ stored[j] \in 1..Len(rows)
        BY <2>6, <3>1, LineIsRow, Zenon
      <3>3. rows[stored[i]].step <= rows[stored[j]].step
        BY <1>2, <3>2, Zenon DEF Follows
      <3> QED
        BY <3>1, <3>3, Zenon
    <2>8. \A i \in 1..Len(closed') : FALSE
      BY <2>1
    <2> QED
      BY <2>3, <2>4, <2>5, <2>7, <2>8, Zenon DEF Follows
  <1> QED
    BY <1>3, <1>4, <1>5, <1>6, <1>7, <1>8, Zenon DEF Next

(* step_policy "monotonic": no row is written behind an older one, the     *)
(* open row is never behind a written one, and a log() without a step      *)
(* lands past all of them, across crashes and resumes.                     *)
THEOREM StepsDoAdvance == Spec => []StepsAdvance
  <1>1. Init => Mono
    <2> SUFFICES ASSUME Init PROVE Mono
      OBVIOUS
    <2>1. rows = <<>> /\ closed = <<>> /\ open = NoStep /\ last = NoStep /\ nextStep = 0
      BY Zenon DEF Init
    <2> QED
      BY <2>1 DEF Mono, Follows, Reaches, NoStep
  <1>2. Base /\ Mono => StepsAdvance
    <2> SUFFICES ASSUME Base, Follows, Reaches
                 PROVE  LET steps == StepsOf(rows) \cup StepsOf(closed)
                        IN  /\ open # NoStep => \A s \in steps : s <= open
                            /\ open = NoStep => \A s \in steps : s < nextStep
      BY Zenon DEF Mono, StepsAdvance, Follows
    <2>1. ASSUME NEW s \in StepsOf(rows) \cup StepsOf(closed) PROVE s \in Int /\ s <= last
      BY Numbers, Zenon DEF StepsOf, Follows
    <2>2. open \in Int /\ last \in Int /\ nextStep \in Int
      BY Numbers DEF Base, StoreTypes
    <2>3. ASSUME NEW s \in StepsOf(rows) \cup StepsOf(closed)
          PROVE  /\ open # NoStep => s <= open
                 /\ open = NoStep => s < nextStep
      BY <2>1, <2>2 DEF Reaches
    <2> QED
      BY <2>3
  <1> QED
    BY <1>1, <1>2, InitBase, NextBase, NextMono, PTL DEF Spec

-----------------------------------------------------------------------------
(* The cache's budget: while the disk works nothing is given up, and the   *)
(* flush of a full cache leaves the writer empty.                          *)
Drained == ~outages => ~failing /\ lost = {} /\ (txn = "resettle" => pending = <<>>)

LEMMA NextDrained == Base /\ Drained /\ [Next]_vars => Drained'
  <1> SUFFICES ASSUME Base, Drained, [Next]_vars, ~outages'
               PROVE  ~failing' /\ lost' = {} /\ (txn' = "resettle" => pending' = <<>>)
    BY DEF Drained
  <1>1. outages' = outages
    BY Zenon DEF Next, Log, RecordSpan, CommitOpen, Admit, Refuse, Publish, Settle, FlushFirst,
                 Resettle, Persist, Fail, Finish, Close, Resume, Ended, vars, runVars
  <1>2. ~outages /\ ~failing /\ lost = {} /\ (txn = "resettle" => pending = <<>>)
    BY <1>1 DEF Drained
  <1>3. CASE Log \/ RecordSpan \/ CommitOpen \/ Publish \/ Settle \/ Resettle
    <2>1. UNCHANGED <<failing, lost>>
      BY <1>3, Zenon DEF Log, RecordSpan, CommitOpen, Publish, Settle, Resettle, writerVars
    <2>2. txn' # "resettle"
      BY <1>3 DEF Log, RecordSpan, Ingest, CommitOpen, Publish, AfterRow, Settle, Resettle, Continue
    <2> QED
      BY <1>2, <2>1, <2>2
  <1>4. CASE Admit
    <2>1. failing' = failing /\ txn' = "publish"
      BY <1>4, Zenon DEF Admit, Writer!Admit
    <2>2. PICK P \in Nat : P = Len(pending)
      BY DEF Base, IInv, LogInv, LogShape
    <2>3. PICK i \in 1..(P + 1) : \E n \in 0..(P + 1 - i) : Writer!GiveUp(i, n)
      BY <1>4, <2>2 DEF Admit, Writer!Admit
    <2>4. PICK n \in 0..(P + 1 - i) : Writer!GiveUp(i, n)
      BY <2>3
    <2>5. n = 0 /\ i..(i + n - 1) = {}
      <3>1. ~(n > 0)
        BY <1>2, <2>4, Zenon DEF Writer!GiveUp
      <3> QED
        BY <2>2, <2>3, <2>4, <3>1
    <2>6. lost' = lost
      BY <2>4, <2>5 DEF Writer!GiveUp
    <2> QED
      BY <1>2, <2>1, <2>6
  <1>5. CASE Refuse
    <2>1. txn' # "resettle"
      BY <1>5 DEF Refuse, AfterRow
    <2>2. ~Writer!Discard
      BY <1>2 DEF Writer!Discard, Writer!GiveUp, Base, IInv, LogInv, LogShape
    <2>3. UNCHANGED <<failing, lost>>
      BY <1>5, <2>2, Zenon DEF Refuse, writerVars
    <2> QED
      BY <1>2, <2>1, <2>3
  <1>6. CASE FlushFirst
    BY <1>2, <1>6 DEF FlushFirst, Writer!Persist, writerVars
  <1>7. CASE Persist
    <2>1. pending # <<>>
      BY <1>7 DEF Persist, Writer!Persist
    <2> QED
      BY <1>2, <1>7, <2>1 DEF Persist, Writer!Persist
  <1>8. CASE Finish \/ Close \/ Ended \/ UNCHANGED vars
    <2>1. UNCHANGED <<failing, lost, pending, txn>>
      BY <1>8, Zenon DEF Finish, Close, Ended, vars, writerVars, Writer!Shut
    <2> QED
      BY <1>2, <2>1
  <1>9. CASE Resume
    BY <1>9 DEF Resume
  <1> QED
    BY <1>2, <1>3, <1>4, <1>5, <1>6, <1>7, <1>8, <1>9, Zenon DEF Next, Fail

\* With nothing pending and nothing given up, the watermark is the last row.
LEMMA AllFlushed ==
  ASSUME LogInv, FileInv, pending = <<>>, lost = {}, NEW m \in 1..(next - 1)
  PROVE  m <= Flushed
  <1>1. Held(m) /\ \A i \in 1..Len(pending) : FALSE
    <2>1. Held(m)
      BY Zenon DEF LogInv
    <2> QED
      BY <2>1
  <1>2. PICK k \in 1..Len(stored) : stored[k] = m
    BY <1>1 DEF Held
  <1>3. Flushed = stored[Len(stored)] /\ Len(stored) \in 1..Len(stored) /\ k <= Len(stored)
    BY <1>2 DEF Flushed, Last, LogInv, LogShape
  <1>4. k # Len(stored) => stored[k] < stored[Len(stored)]
    BY <1>2, <1>3 DEF FileInv
  <1>5. stored[Len(stored)] \in Nat /\ stored[k] \in Nat
    BY <1>3 DEF LogInv, LogShape
  <1> QED
    BY <1>2, <1>3, <1>4, <1>5

LEMMA EvictMeets ==
  ASSUME Base, Evict, \A m \in 1..(row - 1) : m <= Flushed
  PROVE  Len(cache') <= CacheRows
  <1>1. PICK n \in 0..Len(cache) :
          /\ ~(Over(SubSeq(cache, n + 1, Len(cache))) /\ cache[n + 1] <= Flushed)
          /\ cache' = SubSeq(cache, n + 1, Len(cache))
    BY Zenon DEF Evict
  <1>2. PICK r : r = cache'
    OBVIOUS
  <1>3. Len(r) = Len(cache) - n /\ r \in Seq(Nat)
    BY <1>1, <1>2, DropProps, Zenon DEF Base, IInv, CacheInv, CacheShape
  <1>4. PICK L \in Nat : L = Len(cache) /\ L < row /\ row \in Nat
    BY DEF Base, IInv, CacheInv, CacheShape
  <1>5. SUFFICES ASSUME Len(r) > CacheRows PROVE FALSE
    BY <1>2, <1>3, StoreAssumption
  <1>6. n + 1 \in 1..L /\ row - L + (n + 1) - 1 \in 1..(row - 1)
    BY <1>3, <1>4, <1>5, StoreAssumption
  <1>7. cache[n + 1] = row - L + (n + 1) - 1
    BY <1>4, <1>6, Zenon DEF Base, IInv, CacheInv, NothingVanishes
  <1> QED
    BY <1>1, <1>2, <1>5, <1>6, <1>7, Zenon DEF Over

(* While the disk works, a commit that comes to its end leaves no more     *)
(* than cache_rows rows in the cache: a row too many is only kept when it  *)
(* could not be made durable first (evict in operations.rs).               *)
THEOREM CacheBudget == Spec => BudgetMet
  <1>1. Init => Drained
    BY DEF Init, Writer!Init, Drained
  <1>2. Base /\ Drained /\ [Next]_vars =>
          (~outages /\ txn # "idle" /\ txn' = "idle" /\ restarts' = restarts =>
             Len(cache') <= CacheRows)
    <2> SUFFICES ASSUME Base, Drained, [Next]_vars, ~outages, txn # "idle", txn' = "idle",
                        restarts' = restarts
                 PROVE  Len(cache') <= CacheRows
      OBVIOUS
    <2>1. CASE Settle
      <3>1. ~Over(cache') /\ Evict
        BY <2>1 DEF Settle
      <3>2. Len(cache') \in Nat
        <4>1. IInv'
          BY NextIInv DEF Base
        <4> QED
          BY <4>1 DEF IInv, CacheInv, CacheShape
      <3> QED
        BY <3>1, <3>2, StoreAssumption DEF Over
    <2>2. CASE Resettle
      <3>1. Evict /\ txn = "resettle"
        BY <2>2, Zenon DEF Resettle
      <3>2. pending = <<>> /\ lost = {}
        BY <3>1 DEF Drained
      <3>3. next = row
        BY <3>1 DEF Base, IInv, Link
      <3>4. \A m \in 1..(row - 1) : m <= Flushed
        BY <3>2, <3>3, AllFlushed DEF Base, IInv
      <3> QED
        BY <3>1, <3>4, EvictMeets
    <2>3. CASE Resume
      <3>1. restarts' = restarts + 1 /\ restarts \in Nat
        BY <2>3, Zenon DEF Resume, Base, StoreTypes
      <3> QED
        BY <3>1
    <2>4. txn' = txn \/ txn' # "idle" \/ txn = "idle" \/ Settle \/ Resettle \/ Resume
      BY DEF Next, Log, RecordSpan, Accepting, CommitOpen, Admit, Refuse, Publish, AfterRow,
             FlushFirst, Persist, Fail, Finish, Close, Ended, vars
    <2> QED
      BY <2>1, <2>2, <2>3, <2>4
  <1> QED
    BY <1>1, <1>2, InitBase, NextBase, NextDrained, PTL DEF Spec, BudgetMet

-----------------------------------------------------------------------------
(* Numbers in order                                                        *)

\* Induction over a set of numbers.
LEMMA Inductive ==
  ASSUME NEW T, 0 \in T, \A n \in Nat : n \in T => n + 1 \in T
  PROVE  Nat \subseteq T
  <1> SUFFICES ASSUME Nat \ T # {} PROVE FALSE
    OBVIOUS
  <1>1. PICK x \in Nat \ T : \A y \in Nat \ T : x <= y
    BY Least
  <1>2. x - 1 \in Nat /\ x - 1 \in T
    BY <1>1
  <1> QED
    BY <1>1, <1>2

\* A sequence up to a position, and from there on.
LEMMA CutTo ==
  ASSUME NEW S, NEW s \in Seq(S), NEW k \in 0..Len(s)
  PROVE  /\ SubSeq(s, 1, k) \in Seq(S) /\ Len(SubSeq(s, 1, k)) = k
         /\ \A i \in 1..k : SubSeq(s, 1, k)[i] = s[i]
  OBVIOUS

LEMMA CutFrom ==
  ASSUME NEW S, NEW s \in Seq(S), NEW k \in 0..Len(s)
  PROVE  /\ SubSeq(s, k + 1, Len(s)) \in Seq(S) /\ Len(SubSeq(s, k + 1, Len(s))) = Len(s) - k
         /\ \A i \in 1..(Len(s) - k) : SubSeq(s, k + 1, Len(s))[i] = s[k + i]
  OBVIOUS

\* A function on the numbers is given by its first value and its steps.
Iterates(f, S, base, G) ==
    /\ f \in [Nat -> S] /\ f[0] = base
    /\ \A n \in Nat : f[n + 1] = G[<<n, f[n]>>]

LEMMA Recursion ==
  ASSUME NEW S, NEW base \in S, NEW G \in [Nat \X S -> S]
  PROVE  \E f : Iterates(f, S, base, G)
  <1> DEFINE Upto(f, m) == /\ f \in [0..m -> S] /\ f[0] = base
                           /\ \A i \in 0..(m - 1) : f[i + 1] = G[<<i, f[i]>>]
             T == {m \in Nat : \E f : Upto(f, m)}
  <1> HIDE DEF Upto
  <1>1. 0 \in T
    <2>1. PICK f : f = [i \in 0..0 |-> base]
      OBVIOUS
    <2>2. f \in [0..0 -> S] /\ f[0] = base
      BY <2>1
    <2>3. Upto(f, 0)
      BY <2>2 DEF Upto
    <2> QED
      BY <2>3
  <1>2. ASSUME NEW m \in Nat, m \in T PROVE m + 1 \in T
    <2>1. PICK f : Upto(f, m)
      BY <1>2
    <2>2. f \in [0..m -> S] /\ f[m] \in S
      BY <2>1 DEF Upto
    <2>3. PICK y \in S : y = G[<<m, f[m]>>]
      BY <2>2
    <2>4. PICK g : g = [i \in 0..(m + 1) |-> IF i = m + 1 THEN y ELSE f[i]]
      OBVIOUS
    <2>5. g \in [0..(m + 1) -> S] /\ g[m + 1] = y /\ \A i \in 0..m : g[i] = f[i]
      BY <2>2, <2>3, <2>4
    <2>6. ASSUME NEW i \in 0..m PROVE g[i + 1] = G[<<i, g[i]>>]
      <3>1. CASE i = m
        BY <2>3, <2>5, <3>1
      <3>2. CASE i # m
        <4>1. i \in 0..(m - 1) /\ i + 1 \in 0..m
          BY <3>2
        <4> QED
          BY <2>1, <2>5, <4>1 DEF Upto
      <3> QED
        BY <3>1, <3>2
    <2>7. Upto(g, m + 1)
      BY <2>1, <2>5, <2>6 DEF Upto
    <2> QED
      BY <2>7
  <1>3. \A m \in Nat : \E f : Upto(f, m)
    <2>1. Nat \subseteq T
      <3> HIDE DEF T
      <3> QED
        BY <1>1, <1>2, Inductive
    <2> QED
      BY <2>1
  <1>4. ASSUME NEW f, NEW g, NEW m \in Nat, NEW k \in Nat, Upto(f, m), Upto(g, k), m <= k
        PROVE  f[m] = g[m]
    <2> DEFINE U == {i \in Nat : i <= m => f[i] = g[i]}
    <2>1. 0 \in U
      BY <1>4 DEF Upto
    <2>2. ASSUME NEW i \in Nat, i \in U PROVE i + 1 \in U
      <3>1. SUFFICES ASSUME i + 1 <= m PROVE f[i + 1] = g[i + 1]
        OBVIOUS
      <3>2. i \in 0..(m - 1) /\ i \in 0..(k - 1) /\ f[i] = g[i]
        BY <1>4, <2>2, <3>1
      <3> QED
        BY <1>4, <3>2, Zenon DEF Upto
    <2>3. Nat \subseteq U
      <3> HIDE DEF U
      <3> QED
        BY <2>1, <2>2, Inductive
    <2> QED
      BY <2>3
  <1> DEFINE F(m) == CHOOSE f : Upto(f, m)
  <1>5. \A m \in Nat : Upto(F(m), m)
    BY <1>3
  <1> HIDE DEF F
  <1>6. PICK h : h = [m \in Nat |-> F(m)[m]]
    OBVIOUS
  <1>7. ASSUME NEW m \in Nat PROVE h[m] \in S /\ h[m] = F(m)[m]
    BY <1>5, <1>6 DEF Upto
  <1>8. h \in [Nat -> S]
    BY <1>6, <1>7
  <1>9. h[0] = base
    BY <1>5, <1>6 DEF Upto
  <1>10. ASSUME NEW m \in Nat PROVE h[m + 1] = G[<<m, h[m]>>]
    <2>1. PICK k \in Nat : k = m + 1
      OBVIOUS
    <2>2. Upto(F(m), m) /\ Upto(F(k), k) /\ m <= k
      BY <1>5, <2>1
    <2>3. F(m)[m] = F(k)[m]
      BY <1>4, <2>2
    <2>4. m \in 0..(k - 1)
      BY <2>1
    <2>5. F(k)[m + 1] = G[<<m, F(k)[m]>>]
      BY <2>2, <2>4 DEF Upto
    <2> QED
      BY <1>7, <2>1, <2>3, <2>5
  <1>11. Iterates(h, S, base, G)
    BY <1>8, <1>9, <1>10 DEF Iterates
  <1> QED
    BY <1>11

LEMMA LastIs ==
  ASSUME NEW S, NEW top \in Nat, S \subseteq 0..top
  PROVE  /\ LastOf(S) \in 0..top /\ \A m \in S : m <= LastOf(S)
         /\ S # {} => LastOf(S) \in S
         /\ S = {} => LastOf(S) = 0
         /\ \A n \in S : (\A m \in S : m <= n) => LastOf(S) = n
  <1>1. \E n \in S \cup {0} : \A m \in S : m <= n
    <2>1. CASE S = {}
      BY <2>1
    <2>2. CASE S # {}
      <3>1. \E n \in S : \A m \in S : m <= n
        BY <2>2, Greatest
      <3> QED
        BY <3>1
    <2> QED
      BY <2>1, <2>2
  <1>2. LastOf(S) \in S \cup {0} /\ \A m \in S : m <= LastOf(S)
    BY <1>1 DEF LastOf
  <1>3. LastOf(S) \in 0..top
    <2>1. 0 \in 0..top
      OBVIOUS
    <2> QED
      BY <1>2, <2>1
  <1>4. S # {} => LastOf(S) \in S
    <2>1. ASSUME S # {}, LastOf(S) = 0 PROVE 0 \in S
      <3>1. PICK m \in S : TRUE
        BY <2>1
      <3>2. m <= 0 /\ m \in 0..top
        BY <1>2, <2>1
      <3>3. m = 0
        BY <3>2
      <3> QED
        BY <3>1, <3>3
    <2> QED
      BY <1>2, <2>1
  <1>5. ASSUME NEW n \in S, \A m \in S : m <= n PROVE LastOf(S) = n
    <2>1. LastOf(S) <= n /\ n <= LastOf(S)
      BY <1>2, <1>4, <1>5
    <2> QED
      BY <1>3, <2>1
  <1> QED
    BY <1>2, <1>3, <1>4, <1>5


Upto(S) == CHOOSE f : f = [n \in Nat |-> IF n = 0 THEN <<>>
                                         ELSE IF n - 1 \in S THEN Append(f[n - 1], n - 1)
                                         ELSE f[n - 1]]

LEMMA UptoIs ==
  ASSUME NEW S
  PROVE  /\ Upto(S)[0] = <<>>
         /\ \A n \in Nat : /\ Upto(S)[n] \in Seq(Nat)
                           /\ Upto(S)[n + 1] = IF n \in S THEN Append(Upto(S)[n], n) ELSE Upto(S)[n]
  <1>1. PICK G : G = [p \in Nat \X Seq(Nat) |-> IF p[1] \in S THEN Append(p[2], p[1]) ELSE p[2]]
    OBVIOUS
  <1>2. /\ G \in [Nat \X Seq(Nat) -> Seq(Nat)]
        /\ \A i \in Nat, x \in Seq(Nat) : G[<<i, x>>] = IF i \in S THEN Append(x, i) ELSE x
    <2>1. ASSUME NEW i \in Nat, NEW x \in Seq(Nat)
          PROVE  G[<<i, x>>] = (IF i \in S THEN Append(x, i) ELSE x) /\ G[<<i, x>>] \in Seq(Nat)
      BY <1>1
    <2> QED
      BY <1>1, <2>1
  <1>3. PICK e \in Seq(Nat) : e = <<>>
    BY EmptySeq
  <1>4. PICK f : Iterates(f, Seq(Nat), e, G)
    BY <1>2, <1>3, Recursion
  <1>5. \A n \in Nat : f[n] \in Seq(Nat) /\ f[n + 1] = IF n \in S THEN Append(f[n], n) ELSE f[n]
    BY <1>2, <1>4 DEF Iterates
  <1>6. PICK g : g = [n \in Nat |-> IF n = 0 THEN <<>>
                                    ELSE IF n - 1 \in S THEN Append(f[n - 1], n - 1) ELSE f[n - 1]]
    OBVIOUS
  <1>7. ASSUME NEW n \in Nat PROVE f[n] = g[n]
    <2>1. CASE n = 0
      BY <1>3, <1>4, <1>6, <2>1 DEF Iterates
    <2>2. CASE n # 0
      <3>1. PICK k \in Nat : k = n - 1 /\ n = k + 1
        BY <2>2
      <3>2. g[n] = IF k \in S THEN Append(f[k], k) ELSE f[k]
        BY <1>6, <2>2, <3>1
      <3> QED
        BY <1>5, <3>1, <3>2
    <2> QED
      BY <2>1, <2>2
  <1>8. f = g
    BY <1>4, <1>6, <1>7 DEF Iterates
  <1>9. PICK s : s = Upto(S)
    OBVIOUS
  <1>10. s = [n \in Nat |-> IF n = 0 THEN <<>>
                            ELSE IF n - 1 \in S THEN Append(s[n - 1], n - 1) ELSE s[n - 1]]
    <2>1. f = [n \in Nat |-> IF n = 0 THEN <<>>
                             ELSE IF n - 1 \in S THEN Append(f[n - 1], n - 1) ELSE f[n - 1]]
      BY <1>6, <1>8, Zenon
    <2> QED
      BY <1>9, <2>1, Zenon DEF Upto
  <1>11. s[0] = <<>>
    BY <1>10
  <1>12. ASSUME NEW n \in Nat PROVE s[n + 1] = IF n \in S THEN Append(s[n], n) ELSE s[n]
    <2>1. PICK k \in Nat : k = n + 1 /\ k # 0 /\ k - 1 = n
      OBVIOUS
    <2>2. s[k] = IF k - 1 \in S THEN Append(s[k - 1], k - 1) ELSE s[k - 1]
      BY <1>10, <2>1
    <2> QED
      BY <2>1, <2>2
  <1>13. \A n \in Nat : s[n] \in Seq(Nat)
    <2> DEFINE T == {n \in Nat : s[n] \in Seq(Nat)}
    <2>1. 0 \in T
      BY <1>11, EmptySeq
    <2>2. ASSUME NEW n \in Nat, n \in T PROVE n + 1 \in T
      <3>1. s[n] \in Seq(Nat)
        BY <2>2
      <3>2. Append(s[n], n) \in Seq(Nat)
        BY <3>1, AppendProperties
      <3>3. s[n + 1] \in Seq(Nat)
        BY <1>12, <3>1, <3>2, Zenon
      <3> QED
        BY <3>3
    <2>3. Nat \subseteq T
      <3> HIDE DEF T
      <3> QED
        BY <2>1, <2>2, Inductive
    <2> QED
      BY <2>3
  <1> QED
    BY <1>9, <1>11, <1>12, <1>13

LEMMA InOrderUpto ==
  ASSUME NEW S
  PROVE  InOrder(S) = Upto(S)[LastOf(S) + 1]
  BY Zenon DEF InOrder, Upto

\* Numbers that ascend strictly.
Rises(t) == \A i, j \in 1..Len(t) : i < j => t[i] < t[j]

\* The numbers of a set below n, in order.
Listed(t, S, n) ==
    /\ t \in Seq(Nat) /\ Rises(t)
    /\ \A i \in 1..Len(t) : t[i] \in S /\ t[i] < n
    /\ \A x \in S : x < n => \E i \in 1..Len(t) : t[i] = x

LEMMA UptoLists ==
  ASSUME NEW S, S \subseteq Nat, NEW n \in Nat
  PROVE  Listed(Upto(S)[n], S, n)
  <1>1. PICK u : u = Upto(S)
    OBVIOUS
  <1>2. /\ u[0] = <<>>
        /\ \A m \in Nat : u[m + 1] = IF m \in S THEN Append(u[m], m) ELSE u[m]
    BY <1>1, UptoIs
  <1> DEFINE T == {m \in Nat : Listed(u[m], S, m)}
  <1>3. 0 \in T
    <2>1. <<>> \in Seq(Nat) /\ Len(<<>>) = 0
      BY EmptySeq
    <2>2. \A x \in S : ~(x < 0)
      OBVIOUS
    <2>3. Listed(<<>>, S, 0)
      BY <2>1, <2>2 DEF Listed, Rises
    <2> QED
      BY <1>2, <2>3
  <1>4. ASSUME NEW m \in Nat, m \in T PROVE m + 1 \in T
    <2>1. PICK t : t = u[m]
      OBVIOUS
    <2>2. t \in Seq(Nat) /\ Rises(t)
      BY <1>4, <2>1 DEF Listed
    <2>3. PICK l \in Nat : l = Len(t)
      BY <2>2
    <2>4. \A i \in 1..l : t[i] \in S /\ t[i] < m /\ t[i] \in Nat
      BY <1>4, <2>1, <2>2, <2>3 DEF Listed
    <2>5. \A x \in S : x < m => \E i \in 1..l : t[i] = x
      BY <1>4, <2>1, <2>3 DEF Listed
    <2>6. CASE m \in S
      <3>1. PICK w : w = Append(t, m)
        OBVIOUS
      <3>2. w \in Seq(Nat) /\ Len(w) = l + 1 /\ (\A i \in 1..l : w[i] = t[i]) /\ w[l + 1] = m
        BY <2>2, <2>3, <3>1, AppendProperties
      <3>3. Rises(w)
        <4>1. SUFFICES ASSUME NEW i \in 1..(l + 1), NEW j \in 1..(l + 1), i < j PROVE w[i] < w[j]
          BY <3>2 DEF Rises
        <4>2. i \in 1..l
          BY <4>1
        <4>3. CASE j = l + 1
          BY <2>4, <3>2, <4>2, <4>3
        <4>4. CASE j # l + 1
          <5>1. j \in 1..l
            BY <4>4
          <5>2. t[i] < t[j]
            BY <2>2, <2>3, <4>1, <4>2, <5>1 DEF Rises
          <5> QED
            BY <3>2, <4>2, <5>1, <5>2
        <4> QED
          BY <4>3, <4>4
      <3>4. ASSUME NEW i \in 1..(l + 1) PROVE w[i] \in S /\ w[i] < m + 1
        <4>1. CASE i = l + 1
          BY <2>6, <3>2, <4>1
        <4>2. CASE i # l + 1
          <5>1. i \in 1..l
            BY <4>2
          <5>2. PICK a \in Nat : a = t[i] /\ a \in S /\ a < m
            BY <2>4, <5>1
          <5> QED
            BY <3>2, <5>1, <5>2
        <4> QED
          BY <4>1, <4>2
      <3>5. ASSUME NEW x \in S, x < m + 1 PROVE \E i \in 1..(l + 1) : w[i] = x
        <4>1. x = m \/ x < m
          BY <3>5
        <4>2. CASE x = m
          BY <3>2, <4>2
        <4>3. CASE x < m
          <5>1. PICK i \in 1..l : t[i] = x
            BY <2>5, <4>3
          <5>2. i \in 1..(l + 1)
            OBVIOUS
          <5> QED
            BY <3>2, <5>1, <5>2
        <4> QED
          BY <4>1, <4>2, <4>3
      <3>6. Listed(w, S, m + 1)
        BY <3>2, <3>3, <3>4, <3>5 DEF Listed
      <3>7. u[m + 1] = w
        BY <1>2, <2>1, <2>6, <3>1
      <3> QED
        BY <3>6, <3>7
    <2>7. CASE m \notin S
      <3>1. \A i \in 1..l : t[i] \in S /\ t[i] < m + 1
        <4>1. ASSUME NEW i \in 1..l PROVE t[i] \in S /\ t[i] < m + 1
          <5>1. PICK a \in Nat : a = t[i] /\ a \in S /\ a < m
            BY <2>4
          <5> QED
            BY <5>1
        <4> QED
          BY <4>1
      <3>2. ASSUME NEW x \in S, x < m + 1 PROVE \E i \in 1..l : t[i] = x
        <4>1. x < m
          BY <2>7, <3>2
        <4> QED
          BY <2>5, <4>1
      <3>3. Listed(t, S, m + 1)
        BY <2>2, <2>3, <3>1, <3>2 DEF Listed
      <3>4. u[m + 1] = t
        BY <1>2, <2>1, <2>7
      <3> QED
        BY <3>3, <3>4
    <2> QED
      BY <2>6, <2>7
  <1>5. Nat \subseteq T
    <2> HIDE DEF T
    <2> QED
      BY <1>3, <1>4, Inductive
  <1> QED
    BY <1>1, <1>5

\* A sequence lists a set: its numbers, each once, in order.
Lists(t, S) ==
    /\ t \in Seq(Nat) /\ Rises(t)
    /\ \A i \in 1..Len(t) : t[i] \in S
    /\ \A x \in S : \E i \in 1..Len(t) : t[i] = x

LEMMA InOrderLists ==
  ASSUME NEW S, NEW top \in Nat, S \subseteq 0..top
  PROVE  Lists(InOrder(S), S)
  <1>1. PICK l \in 0..top : l = LastOf(S) /\ \A m \in S : m <= l
    BY LastIs
  <1>2. S \subseteq Nat /\ l + 1 \in Nat
    OBVIOUS
  <1>3. PICK n \in Nat : n = l + 1
    BY <1>2
  <1>4. PICK t : t = InOrder(S)
    OBVIOUS
  <1>5. Listed(t, S, n)
    BY <1>1, <1>2, <1>3, <1>4, UptoLists, InOrderUpto
  <1>6. \A x \in S : x < n
    BY <1>1, <1>2, <1>3
  <1> QED
    BY <1>4, <1>5, <1>6, Zenon DEF Listed, Lists

\* A set is listed in one way.
LEMMA ListPrefix ==
  ASSUME NEW S, NEW x, NEW y, Lists(x, S), Lists(y, S), NEW m \in Nat
  PROVE  \A j \in 1..m : j <= Len(x) => j <= Len(y) /\ x[j] = y[j]
  <1>1. PICK p \in Nat, q \in Nat : p = Len(x) /\ q = Len(y)
    BY DEF Lists
  <1>2. /\ \A i, j \in 1..p : i < j => x[i] < x[j]
        /\ \A i, j \in 1..q : i < j => y[i] < y[j]
    BY <1>1 DEF Lists, Rises
  <1>3. (\A i \in 1..p : x[i] \in Nat) /\ \A i \in 1..q : y[i] \in Nat
    BY <1>1 DEF Lists
  <1>4. (\A i \in 1..p : \E k \in 1..q : y[k] = x[i]) /\ \A k \in 1..q : \E i \in 1..p : x[i] = y[k]
    BY <1>1 DEF Lists
  <1> DEFINE Same(n) == \A j \in 1..n : j <= p => j <= q /\ x[j] = y[j]
             T == {n \in Nat : Same(n)}
  <1>5. 0 \in T
    OBVIOUS
  <1>6. ASSUME NEW n \in Nat, n \in T PROVE n + 1 \in T
    <2> SUFFICES ASSUME n + 1 <= p PROVE n + 1 <= q /\ x[n + 1] = y[n + 1]
      BY <1>6
    <2>1. PICK j : j = n + 1
      OBVIOUS
    <2>2. j \in 1..p
      BY <2>1
    <2>3. PICK k \in 1..q : y[k] = x[j]
      BY <1>4, <2>2
    <2>4. k >= j
      <3>1. ASSUME k < j PROVE FALSE
        <4>1. k \in 1..n /\ k \in 1..p
          BY <2>1, <2>2, <3>1
        <4>2. x[k] = y[k]
          BY <1>6, <4>1
        <4>3. x[k] < x[j]
          BY <1>2, <2>2, <3>1, <4>1
        <4>4. PICK a \in Nat : a = x[j]
          BY <1>3, <2>2
        <4> QED
          BY <2>3, <4>2, <4>3, <4>4
      <3> QED
        BY <2>2, <3>1
    <2>5. j \in 1..q
      BY <2>2, <2>4
    <2>6. k = j
      <3>1. ASSUME j < k PROVE FALSE
        <4>1. y[j] < y[k]
          BY <1>2, <2>5, <3>1
        <4>2. PICK i \in 1..p : x[i] = y[j]
          BY <1>4, <2>5
        <4>3. x[i] < x[j]
          BY <2>3, <4>1, <4>2
        <4>4. i < j
          <5>1. ASSUME j < i PROVE FALSE
            <6>1. x[j] < x[i]
              BY <1>2, <2>2, <5>1
            <6>2. PICK a, b \in Nat : a = x[i] /\ b = x[j]
              BY <1>3, <2>2
            <6> QED
              BY <4>3, <6>1, <6>2
          <5>2. i # j
            <6>1. PICK b \in Nat : b = x[j]
              BY <1>3, <2>2
            <6> QED
              BY <4>3, <6>1
          <5> QED
            BY <2>2, <5>1, <5>2
        <4>5. i \in 1..n
          BY <2>1, <4>4
        <4>6. x[i] = y[i] /\ i \in 1..q
          BY <1>6, <4>5
        <4>7. y[i] < y[j]
          BY <1>2, <2>5, <4>4, <4>6
        <4>8. PICK b \in Nat : b = y[j]
          BY <1>3, <2>5
        <4> QED
          BY <4>2, <4>6, <4>7, <4>8
      <3> QED
        BY <2>2, <2>4, <3>1
    <2> QED
      BY <2>1, <2>3, <2>5, <2>6
  <1>7. Nat \subseteq T
    <2> HIDE DEF T
    <2> QED
      BY <1>5, <1>6, Inductive
  <1> QED
    BY <1>1, <1>7

LEMMA ListsOnce ==
  ASSUME NEW S, NEW x, NEW y, Lists(x, S), Lists(y, S)
  PROVE  x = y
  <1>1. x \in Seq(Nat) /\ y \in Seq(Nat)
    BY DEF Lists
  <1>2. PICK p \in Nat, q \in Nat : p = Len(x) /\ q = Len(y)
    BY <1>1
  <1>3. \A j \in 1..p : j <= q /\ x[j] = y[j]
    BY <1>2, ListPrefix
  <1>4. \A j \in 1..q : j <= p
    BY <1>2, ListPrefix
  <1>5. p = q
    <2>1. p <= q
      <3>1. CASE p = 0
        BY <3>1
      <3>2. CASE p # 0
        BY <1>3, <3>2
      <3> QED
        BY <3>1, <3>2
    <2>2. q <= p
      <3>1. CASE q = 0
        BY <3>1
      <3>2. CASE q # 0
        BY <1>4, <3>2
      <3> QED
        BY <3>1, <3>2
    <2> QED
      BY <2>1, <2>2
  <1> QED
    BY <1>1, <1>2, <1>3, <1>5, SeqEqual

LEMMA InOrderIs ==
  ASSUME NEW S, NEW top \in Nat, S \subseteq 0..top, NEW t, Lists(t, S)
  PROVE  InOrder(S) = t
  BY InOrderLists, ListsOnce

-----------------------------------------------------------------------------
(* The steps of some rows                                                  *)

LEMMA RowFields ==
  ASSUME NEW r \in RowSet
  PROVE  r.step \in Steps /\ r.step \in Nat /\ r.data \in [Keys -> Seq(Nat)]
  <1>1. r.step \in Steps /\ r.data \in [Keys -> Seq(Nat)]
    BY DEF RowSet
  <1>2. Steps \subseteq Nat
    BY StoreAssumption DEF Steps
  <1> QED
    BY <1>1, <1>2

LEMMA StepsAre ==
  ASSUME NEW s \in Seq(RowSet)
  PROVE  /\ StepsOf(s) \subseteq Steps /\ StepsOf(s) \subseteq 0..MaxStep
         /\ \A i \in 1..Len(s) : s[i].step \in StepsOf(s) /\ s[i].step \in Nat /\ s[i] \in RowSet
  <1>1. ASSUME NEW i \in 1..Len(s)
        PROVE  s[i].step \in StepsOf(s) /\ s[i].step \in Nat /\ s[i].step \in Steps /\ s[i] \in RowSet
    <2>1. s[i] \in RowSet
      OBVIOUS
    <2> QED
      BY <2>1, RowFields DEF StepsOf
  <1>2. StepsOf(s) \subseteq Steps
    BY <1>1 DEF StepsOf
  <1> QED
    BY <1>1, <1>2 DEF Steps

LEMMA StepsFinite ==
  ASSUME NEW S, S \subseteq Steps
  PROVE  IsFiniteSet(S) /\ Cardinality(S) \in Nat
  <1>1. IsFiniteSet(Steps)
    <2>1. 0 \in Int /\ MaxStep \in Int
      BY StoreAssumption
    <2> QED
      BY <2>1, FS_Interval DEF Steps
  <1>2. IsFiniteSet(S)
    BY <1>1, FS_Subset
  <1> QED
    BY <1>2, FS_CardinalityType

\* One sequence behind another.
Follow(s, a, b) ==
    /\ Len(a) \in Nat /\ Len(b) \in Nat /\ Len(s) = Len(a) + Len(b)
    /\ \A i \in 1..Len(a) : i \in 1..Len(s) /\ s[i] = a[i]
    /\ \A i \in 1..Len(b) : Len(a) + i \in 1..Len(s) /\ s[Len(a) + i] = b[i]

LEMMA Joined ==
  ASSUME NEW S, NEW a \in Seq(S), NEW b \in Seq(S)
  PROVE  a \o b \in Seq(S) /\ Follow(a \o b, a, b)
  <1>1. PICK s : s = a \o b
    OBVIOUS
  <1>2. PICK p, q \in Nat : p = Len(a) /\ q = Len(b)
    OBVIOUS
  <1>3. s \in Seq(S) /\ Len(s) = p + q
        /\ \A i \in 1..(p + q) : s[i] = IF i <= p THEN a[i] ELSE b[i - p]
    BY <1>1, <1>2, ConcatProperties
  <1>4. ASSUME NEW i \in 1..p PROVE i \in 1..(p + q) /\ s[i] = a[i]
    <2>1. i \in 1..(p + q) /\ i <= p
      OBVIOUS
    <2> QED
      BY <1>3, <2>1
  <1>5. ASSUME NEW i \in 1..q PROVE p + i \in 1..(p + q) /\ s[p + i] = b[i]
    <2>1. PICK n : n = p + i
      OBVIOUS
    <2>2. n \in 1..(p + q) /\ ~(n <= p) /\ n - p = i
      BY <2>1
    <2>3. s[n] = b[i]
      BY <1>3, <2>2
    <2> QED
      BY <2>1, <2>2, <2>3
  <1> QED
    BY <1>1, <1>2, <1>3, <1>4, <1>5, Zenon DEF Follow

\* A place in two sequences is one in the first or one in the second.
LEMMA Sides ==
  ASSUME NEW s, NEW a, NEW b, Follow(s, a, b), NEW i \in 1..Len(s)
  PROVE  i \in 1..Len(a) \/ \E j \in 1..Len(b) : i = Len(a) + j
  <1>1. PICK p, q \in Nat : p = Len(a) /\ q = Len(b) /\ Len(s) = p + q
    BY DEF Follow
  <1>2. CASE i <= p
    BY <1>1, <1>2
  <1>3. CASE i > p
    <2>1. i - p \in 1..q /\ i = p + (i - p)
      BY <1>1, <1>3
    <2> QED
      BY <1>1, <2>1
  <1> QED
    BY <1>1, <1>2, <1>3

LEMMA StepsConcat ==
  ASSUME NEW a \in Seq(RowSet), NEW b \in Seq(RowSet)
  PROVE  StepsOf(a \o b) = StepsOf(a) \cup StepsOf(b)
  <1>1. PICK s : s = a \o b
    OBVIOUS
  <1>2. Follow(s, a, b)
    BY <1>1, Joined
  <1>3. ASSUME NEW u \in StepsOf(s) PROVE u \in StepsOf(a) \cup StepsOf(b)
    <2>1. PICK i \in 1..Len(s) : u = s[i].step
      BY DEF StepsOf
    <2>2. CASE i \in 1..Len(a)
      <3>1. s[i] = a[i]
        BY <1>2, <2>2 DEF Follow
      <3>2. u = a[i].step
        BY <2>1, <3>1
      <3> QED
        BY <2>2, <3>2 DEF StepsOf
    <2>3. CASE i \notin 1..Len(a)
      <3>1. PICK j \in 1..Len(b) : i = Len(a) + j
        BY <1>2, <2>3, Sides
      <3>2. s[i] = b[j]
        BY <1>2, <3>1 DEF Follow
      <3>3. u = b[j].step
        BY <2>1, <3>2
      <3> QED
        BY <3>3 DEF StepsOf
    <2> QED
      BY <2>2, <2>3
  <1>4. ASSUME NEW u \in StepsOf(a) PROVE u \in StepsOf(s)
    <2>1. PICK i \in 1..Len(a) : u = a[i].step
      BY DEF StepsOf
    <2>2. i \in 1..Len(s) /\ s[i] = a[i]
      BY <1>2 DEF Follow
    <2>3. u = s[i].step
      BY <2>1, <2>2
    <2> QED
      BY <2>2, <2>3 DEF StepsOf
  <1>5. ASSUME NEW u \in StepsOf(b) PROVE u \in StepsOf(s)
    <2>1. PICK i \in 1..Len(b) : u = b[i].step
      BY DEF StepsOf
    <2>2. PICK n \in 1..Len(s) : n = Len(a) + i /\ s[n] = b[i]
      BY <1>2 DEF Follow
    <2>3. u = s[n].step
      BY <2>1, <2>2
    <2> QED
      BY <2>3 DEF StepsOf
  <1> QED
    BY <1>1, <1>3, <1>4, <1>5

LEMMA NoSteps ==
  /\ <<>> \in Seq(RowSet) /\ StepsOf(<<>>) = {}
  /\ \A s \in Seq(RowSet) : Len(s) = 0 => s = <<>>
  /\ \A s \in Seq(RowSet) : s \o <<>> = s /\ <<>> \o s = s
  <1>1. <<>> \in Seq(RowSet) /\ Len(<<>>) = 0
    BY EmptySeq
  <1>2. StepsOf(<<>>) = {}
    BY <1>1 DEF StepsOf
  <1>3. \A s \in Seq(RowSet) : Len(s) = 0 => s = <<>>
    BY EmptySeq
  <1>4. \A s \in Seq(RowSet) : s \o <<>> = s /\ <<>> \o s = s
    BY ConcatEmptySeq
  <1> QED
    BY <1>1, <1>2, <1>3, <1>4

-----------------------------------------------------------------------------
(* The rows of some steps                                                  *)

Selects(x, s, W, at) ==
    /\ x \in Seq(RowSet) /\ at \in Seq(Nat) /\ Rises(at) /\ Len(x) = Len(at)
    /\ \A i \in 1..Len(x) : at[i] \in 1..Len(s) /\ s[at[i]].step \in W /\ x[i] = s[at[i]]
    /\ \A j \in 1..Len(s) : s[j].step \in W => \E i \in 1..Len(x) : at[i] = j

LEMMA OfStepsIs ==
  ASSUME NEW s \in Seq(RowSet), NEW W
  PROVE  \E at : Selects(OfSteps(s, W), s, W, at)
  <1>1. PICK l \in Nat : l = Len(s)
    OBVIOUS
  <1>2. PICK P : P = {i \in 1..l : s[i].step \in W}
    OBVIOUS
  <1>3. P \subseteq 0..l
    BY <1>2
  <1>4. PICK at : at = InOrder(P)
    OBVIOUS
  <1>5. Lists(at, P)
    BY <1>3, <1>4, InOrderLists
  <1>6. at \in Seq(Nat) /\ Rises(at)
    BY <1>5 DEF Lists
  <1>7. PICK n \in Nat : n = Len(at)
    BY <1>6
  <1>8. \A i \in 1..n : at[i] \in P
    BY <1>5, <1>7 DEF Lists
  <1>9. \A i \in 1..n : at[i] \in 1..l /\ s[at[i]].step \in W
    BY <1>2, <1>8
  <1>10. PICK x : x = OfSteps(s, W)
    OBVIOUS
  <1>11. x = [i \in 1..n |-> s[at[i]]]
    BY <1>1, <1>2, <1>4, <1>7, <1>10, Zenon DEF OfSteps
  <1>12. \A i \in 1..n : s[at[i]] \in RowSet
    <2>1. ASSUME NEW i \in 1..n PROVE s[at[i]] \in RowSet
      <3>1. PICK j \in 1..l : j = at[i]
        BY <1>9
      <3> QED
        BY <1>1, <3>1
    <2> QED
      BY <2>1
  <1>13. x \in Seq(RowSet) /\ Len(x) = n /\ \A i \in 1..n : x[i] = s[at[i]]
    BY <1>11, <1>12
  <1>14. \A j \in 1..l : s[j].step \in W => \E i \in 1..n : at[i] = j
    <2>1. ASSUME NEW j \in 1..l, s[j].step \in W PROVE \E i \in 1..n : at[i] = j
      <3>1. j \in P
        BY <1>2, <2>1
      <3> QED
        BY <1>5, <1>7, <3>1 DEF Lists
    <2> QED
      BY <2>1
  <1>15. Selects(x, s, W, at)
    BY <1>1, <1>6, <1>7, <1>9, <1>13, <1>14, Zenon DEF Selects
  <1> QED
    BY <1>10, <1>15

LEMMA OfStepsSteps ==
  ASSUME NEW s \in Seq(RowSet), NEW W
  PROVE  OfSteps(s, W) \in Seq(RowSet) /\ StepsOf(OfSteps(s, W)) = StepsOf(s) \cap W
  <1>1. PICK at : Selects(OfSteps(s, W), s, W, at)
    BY OfStepsIs
  <1>2. PICK x : x = OfSteps(s, W)
    OBVIOUS
  <1>3. Selects(x, s, W, at)
    BY <1>1, <1>2
  <1>4. ASSUME NEW u \in StepsOf(x) PROVE u \in StepsOf(s) \cap W
    <2>1. PICK i \in 1..Len(x) : u = x[i].step
      BY DEF StepsOf
    <2>2. PICK j \in 1..Len(s) : s[j].step \in W /\ x[i] = s[j]
      BY <1>3 DEF Selects
    <2>3. u = s[j].step
      BY <2>1, <2>2
    <2> QED
      BY <2>2, <2>3 DEF StepsOf
  <1>5. ASSUME NEW u \in StepsOf(s) \cap W PROVE u \in StepsOf(x)
    <2>1. PICK j \in 1..Len(s) : u = s[j].step
      BY DEF StepsOf
    <2>2. PICK i \in 1..Len(x) : at[i] = j
      BY <1>3, <2>1 DEF Selects
    <2>3. x[i] = s[j]
      BY <1>3, <2>2 DEF Selects
    <2>4. u = x[i].step
      BY <2>1, <2>3
    <2> QED
      BY <2>4 DEF StepsOf
  <1>6. x \in Seq(RowSet)
    BY <1>3 DEF Selects
  <1> QED
    BY <1>2, <1>4, <1>5, <1>6

-----------------------------------------------------------------------------
(* The value of a metric at a step                                         *)

Silent(s, u, k, n) ==
    \A j \in 1..Len(s) : j > n /\ s[j].step = u => s[j].data[k] = <<>>
GivenAt(s, u, k, n, v) ==
    /\ n \in 1..Len(s) /\ s[n].step = u /\ s[n].data[k] = v /\ v # <<>>
    /\ Silent(s, u, k, n)
Valued(s, u, k, v) ==
    \/ v = <<>> /\ Silent(s, u, k, 0)
    \/ \E n \in Nat : GivenAt(s, u, k, n, v)

LEMMA ValueIs ==
  ASSUME NEW s \in Seq(RowSet), NEW u, NEW k \in Keys
  PROVE  Valued(s, u, k, Value(s, u, k)) /\ Value(s, u, k) \in Seq(Nat)
  <1>1. PICK l \in Nat : l = Len(s)
    OBVIOUS
  <1>2. PICK G : G = {i \in 1..l : s[i].step = u /\ s[i].data[k] # <<>>}
    OBVIOUS
  <1>3. PICK v : v = Value(s, u, k)
    OBVIOUS
  <1>4. v = IF G = {} THEN <<>> ELSE s[LastOf(G)].data[k]
    BY <1>1, <1>2, <1>3, Zenon DEF Value
  <1>5. CASE G = {}
    <2>1. v = <<>>
      BY <1>4, <1>5
    <2>2. Silent(s, u, k, 0)
      BY <1>1, <1>2, <1>5 DEF Silent
    <2>3. v \in Seq(Nat)
      BY <2>1, EmptySeq
    <2> QED
      BY <1>3, <2>1, <2>2, <2>3 DEF Valued
  <1>6. CASE G # {}
    <2>1. G \subseteq 0..l
      BY <1>2
    <2>2. PICK n : n = LastOf(G)
      OBVIOUS
    <2>3. n \in G /\ \A m \in G : m <= n
      BY <1>6, <2>1, <2>2, LastIs
    <2>4. n \in 1..l /\ s[n].step = u /\ s[n].data[k] # <<>>
      BY <1>2, <2>3
    <2>5. v = s[n].data[k]
      BY <1>4, <1>6, <2>2
    <2>6. Silent(s, u, k, n)
      <3>1. ASSUME NEW j \in 1..l, j > n, s[j].step = u, s[j].data[k] # <<>> PROVE FALSE
        <4>1. j \in G
          BY <1>2, <3>1
        <4> QED
          BY <2>3, <2>4, <3>1, <4>1
      <3> QED
        BY <1>1, <3>1 DEF Silent
    <2>7. GivenAt(s, u, k, n, v)
      BY <1>1, <2>4, <2>5, <2>6 DEF GivenAt
    <2>8. n \in Nat
      BY <2>4
    <2>9. v \in Seq(Nat)
      <3>1. s[n] \in RowSet
        BY <1>1, <2>4
      <3>2. PICK r \in RowSet : r = s[n]
        BY <3>1
      <3>3. r.data[k] \in Seq(Nat)
        BY RowFields
      <3> QED
        BY <2>5, <3>2, <3>3
    <2> QED
      BY <1>3, <2>7, <2>8, <2>9 DEF Valued
  <1> QED
    BY <1>5, <1>6

LEMMA ValueOnce ==
  ASSUME NEW s \in Seq(RowSet), NEW u, NEW k \in Keys, NEW v, Valued(s, u, k, v)
  PROVE  Value(s, u, k) = v
  <1>1. PICK w : w = Value(s, u, k)
    OBVIOUS
  <1>2. Valued(s, u, k, w)
    BY <1>1, ValueIs
  <1>3. PICK l \in Nat : l = Len(s)
    OBVIOUS
  <1>4. ASSUME NEW x, NEW n \in Nat, GivenAt(s, u, k, n, x), Silent(s, u, k, 0) PROVE FALSE
    <2>1. n \in 1..l /\ n > 0
      BY <1>3, <1>4 DEF GivenAt
    <2> QED
      BY <1>3, <1>4, <2>1 DEF GivenAt, Silent
  <1>5. ASSUME NEW x, NEW y, NEW n \in Nat, NEW m \in Nat,
               GivenAt(s, u, k, n, x), GivenAt(s, u, k, m, y), n < m
        PROVE  FALSE
    BY <1>3, <1>5 DEF GivenAt, Silent
  <1>6. CASE v = <<>> /\ Silent(s, u, k, 0)
    BY <1>1, <1>2, <1>4, <1>6 DEF Valued
  <1>7. CASE \E n \in Nat : GivenAt(s, u, k, n, v)
    <2>1. PICK n \in Nat : GivenAt(s, u, k, n, v)
      BY <1>7
    <2>2. PICK m \in Nat : GivenAt(s, u, k, m, w)
      BY <1>2, <1>4, <2>1 DEF Valued
    <2>3. n = m
      BY <1>5, <2>1, <2>2
    <2> QED
      BY <1>1, <2>1, <2>2, <2>3 DEF GivenAt
  <1> QED
    BY <1>6, <1>7 DEF Valued

LEMMA ValueNone ==
  ASSUME NEW s \in Seq(RowSet), NEW u, NEW k \in Keys, u \notin StepsOf(s)
  PROVE  Value(s, u, k) = <<>>
  <1>1. Silent(s, u, k, 0)
    BY DEF Silent, StepsOf
  <1> QED
    BY <1>1, ValueOnce DEF Valued

LEMMA ValueConcat ==
  ASSUME NEW a \in Seq(RowSet), NEW b \in Seq(RowSet), NEW u, NEW k \in Keys
  PROVE  Value(a \o b, u, k) = IF Value(b, u, k) # <<>> THEN Value(b, u, k) ELSE Value(a, u, k)
  <1>1. PICK s : s = a \o b
    OBVIOUS
  <1>2. s \in Seq(RowSet) /\ Follow(s, a, b)
    BY <1>1, Joined
  <1>3. PICK p, q \in Nat : p = Len(a) /\ q = Len(b) /\ Len(s) = p + q
    BY <1>2 DEF Follow
  <1>4. (\A i \in 1..p : s[i] = a[i]) /\ \A i \in 1..q : s[p + i] = b[i]
    BY <1>2, <1>3 DEF Follow
  <1>5. PICK v : v = Value(b, u, k)
    OBVIOUS
  <1>6. Valued(b, u, k, v)
    BY <1>5, ValueIs
  <1>7. CASE v # <<>>
    <2>1. PICK n \in Nat : GivenAt(b, u, k, n, v)
      BY <1>6, <1>7 DEF Valued
    <2>2. n \in 1..q /\ b[n].step = u /\ b[n].data[k] = v
      BY <1>3, <2>1 DEF GivenAt
    <2>3. PICK m \in Nat : m = p + n
      OBVIOUS
    <2>4. m \in 1..(p + q) /\ s[m] = b[n]
      BY <1>4, <2>2, <2>3
    <2>5. Silent(s, u, k, m)
      <3>1. ASSUME NEW j \in 1..(p + q), j > m, s[j].step = u PROVE s[j].data[k] = <<>>
        <4>1. PICK i \in 1..q : j = p + i /\ i > n
          <5>1. j - p \in 1..q /\ j = p + (j - p) /\ j - p > n
            BY <2>3, <3>1
          <5> QED
            BY <5>1
        <4>2. s[j] = b[i]
          BY <1>4, <4>1
        <4>3. b[i].step = u
          BY <3>1, <4>2
        <4>4. b[i].data[k] = <<>>
          BY <1>3, <2>1, <4>1, <4>3 DEF GivenAt, Silent
        <4> QED
          BY <4>2, <4>4
      <3> QED
        BY <1>3, <3>1 DEF Silent
    <2>6. GivenAt(s, u, k, m, v)
      BY <1>3, <1>7, <2>2, <2>4, <2>5 DEF GivenAt
    <2>7. Value(s, u, k) = v
      BY <1>2, <2>6, ValueOnce DEF Valued
    <2> QED
      BY <1>1, <1>5, <1>7, <2>7
  <1>8. CASE v = <<>>
    <2>1. Silent(b, u, k, 0)
      BY <1>6, <1>8 DEF Valued, GivenAt
    <2>2. \A i \in 1..q : s[p + i].step = u => s[p + i].data[k] = <<>>
      <3>1. ASSUME NEW i \in 1..q, s[p + i].step = u PROVE s[p + i].data[k] = <<>>
        <4>1. s[p + i] = b[i]
          BY <1>4
        <4>2. b[i].step = u /\ i > 0
          BY <3>1, <4>1
        <4>3. b[i].data[k] = <<>>
          BY <1>3, <2>1, <4>2 DEF Silent
        <4> QED
          BY <4>1, <4>3
      <3> QED
        BY <3>1
    <2>3. ASSUME NEW n \in Nat, Silent(a, u, k, n) PROVE Silent(s, u, k, n)
      <3>1. ASSUME NEW j \in 1..(p + q), j > n, s[j].step = u PROVE s[j].data[k] = <<>>
        <4>1. CASE j <= p
          <5>1. j \in 1..p /\ s[j] = a[j]
            BY <1>4, <4>1
          <5>2. a[j].step = u
            BY <3>1, <5>1
          <5>3. a[j].data[k] = <<>>
            BY <1>3, <2>3, <3>1, <5>1, <5>2 DEF Silent
          <5> QED
            BY <5>1, <5>3
        <4>2. CASE j > p
          <5>1. PICK i \in 1..q : j = p + i
            <6>1. j - p \in 1..q /\ j = p + (j - p)
              BY <4>2
            <6> QED
              BY <6>1
          <5> QED
            BY <2>2, <3>1, <5>1
        <4> QED
          BY <4>1, <4>2
      <3> QED
        BY <1>3, <3>1 DEF Silent
    <2>4. PICK w : w = Value(a, u, k)
      OBVIOUS
    <2>5. Valued(a, u, k, w)
      BY <2>4, ValueIs
    <2>6. Valued(s, u, k, w)
      <3>1. CASE w = <<>> /\ Silent(a, u, k, 0)
        BY <2>3, <3>1 DEF Valued
      <3>2. CASE \E n \in Nat : GivenAt(a, u, k, n, w)
        <4>1. PICK n \in Nat : GivenAt(a, u, k, n, w)
          BY <3>2
        <4>2. n \in 1..p /\ a[n].step = u /\ a[n].data[k] = w /\ w # <<>> /\ Silent(a, u, k, n)
          BY <1>3, <4>1 DEF GivenAt
        <4>3. s[n] = a[n] /\ n \in 1..(p + q)
          BY <1>4, <4>2
        <4>4. GivenAt(s, u, k, n, w)
          BY <1>3, <2>3, <4>2, <4>3 DEF GivenAt
        <4> QED
          BY <4>4 DEF Valued
      <3> QED
        BY <2>5, <3>1, <3>2 DEF Valued
    <2>7. Value(s, u, k) = w
      BY <1>2, <2>6, ValueOnce
    <2> QED
      BY <1>1, <1>5, <1>8, <2>4, <2>7
  <1> QED
    BY <1>7, <1>8

LEMMA ValueOfSteps ==
  ASSUME NEW s \in Seq(RowSet), NEW W, NEW u \in W, NEW k \in Keys
  PROVE  Value(OfSteps(s, W), u, k) = Value(s, u, k)
  <1>1. PICK x : x = OfSteps(s, W)
    OBVIOUS
  <1>2. PICK at : Selects(x, s, W, at)
    BY <1>1, OfStepsIs
  <1>3. PICK n \in Nat : n = Len(x) /\ n = Len(at)
    BY <1>2 DEF Selects
  <1>4. PICK l \in Nat : l = Len(s)
    OBVIOUS
  <1>5. \A i \in 1..n : at[i] \in 1..l /\ at[i] \in Nat /\ x[i] = s[at[i]]
    BY <1>2, <1>3, <1>4 DEF Selects
  <1>6. \A i, j \in 1..n : i < j => at[i] < at[j]
    BY <1>2, <1>3 DEF Selects, Rises
  <1>7. \A j \in 1..l : s[j].step = u => \E i \in 1..n : at[i] = j
    BY <1>2, <1>3, <1>4 DEF Selects
  <1>8. PICK v : v = Value(x, u, k)
    OBVIOUS
  <1>9. x \in Seq(RowSet) /\ Valued(x, u, k, v)
    BY <1>1, <1>8, OfStepsSteps, ValueIs
  <1>10. ASSUME NEW j \in 1..l, NEW i \in 1..n, at[i] = j
         PROVE  s[j].step = x[i].step /\ s[j].data[k] = x[i].data[k]
    BY <1>5, <1>10
  <1>11. CASE v = <<>> /\ Silent(x, u, k, 0)
    <2>1. ASSUME NEW j \in 1..l, s[j].step = u PROVE s[j].data[k] = <<>>
      <3>1. PICK i \in 1..n : at[i] = j
        BY <1>7, <2>1
      <3>2. x[i].step = u /\ i > 0
        BY <1>10, <2>1, <3>1
      <3>3. x[i].data[k] = <<>>
        BY <1>3, <1>11, <3>2 DEF Silent
      <3> QED
        BY <1>10, <3>1, <3>3
    <2>2. Silent(s, u, k, 0)
      BY <1>4, <2>1 DEF Silent
    <2>3. Value(s, u, k) = v
      BY <1>11, <2>2, ValueOnce DEF Valued
    <2> QED
      BY <1>1, <1>8, <2>3
  <1>12. CASE \E m \in Nat : GivenAt(x, u, k, m, v)
    <2>1. PICK m \in Nat : GivenAt(x, u, k, m, v)
      BY <1>12
    <2>2. m \in 1..n /\ x[m].step = u /\ x[m].data[k] = v /\ v # <<>>
      BY <1>3, <2>1 DEF GivenAt
    <2>3. PICK p \in Nat : p = at[m] /\ p \in 1..l /\ x[m] = s[p]
      BY <1>5, <2>2
    <2>4. ASSUME NEW j \in 1..l, j > p, s[j].step = u PROVE s[j].data[k] = <<>>
      <3>1. PICK i \in 1..n : at[i] = j
        BY <1>7, <2>4
      <3>2. i > m
        <4>1. ASSUME i < m PROVE FALSE
          <5>1. at[i] < at[m]
            BY <1>6, <2>2, <4>1
          <5> QED
            BY <2>3, <2>4, <3>1, <5>1
        <4>2. i # m
          BY <2>3, <2>4, <3>1
        <4> QED
          BY <2>2, <4>1, <4>2
      <3>3. x[i].step = u
        BY <1>10, <2>4, <3>1
      <3>4. x[i].data[k] = <<>>
        BY <1>3, <2>1, <3>2, <3>3 DEF GivenAt, Silent
      <3> QED
        BY <1>10, <3>1, <3>4
    <2>5. GivenAt(s, u, k, p, v)
      BY <1>4, <2>2, <2>3, <2>4 DEF GivenAt, Silent
    <2>6. Value(s, u, k) = v
      BY <2>5, ValueOnce DEF Valued
    <2> QED
      BY <1>1, <1>8, <2>6
  <1> QED
    BY <1>9, <1>11, <1>12 DEF Valued

-----------------------------------------------------------------------------
(* Rows merged by step                                                     *)

Merges(m, s, order) ==
    /\ m \in Seq(RowSet) /\ Lists(order, StepsOf(s)) /\ Len(m) = Len(order)
    /\ \A i \in 1..Len(m) : m[i].step = order[i] /\ \A k \in Keys : m[i].data[k] = Value(s, order[i], k)

LEMMA MergeIs ==
  ASSUME NEW s \in Seq(RowSet)
  PROVE  Merges(MergeSteps(s), s, InOrder(StepsOf(s)))
  <1>1. PICK top \in Nat : top = MaxStep
    BY StoreAssumption
  <1>2. PICK order : order = InOrder(StepsOf(s))
    OBVIOUS
  <1>3. Lists(order, StepsOf(s))
    BY <1>1, <1>2, StepsAre, InOrderLists
  <1>4. PICK n \in Nat : n = Len(order)
    BY <1>3 DEF Lists
  <1>5. \A i \in 1..n : order[i] \in Steps
    BY <1>3, <1>4, StepsAre DEF Lists
  <1>6. PICK m : m = MergeSteps(s)
    OBVIOUS
  <1>7. m = [i \in 1..n |-> MergedRow(s, order[i])]
    BY <1>2, <1>4, <1>6, Zenon DEF MergeSteps
  <1>8. ASSUME NEW u \in Steps
        PROVE  /\ MergedRow(s, u) \in RowSet /\ MergedRow(s, u).step = u
               /\ \A k \in Keys : MergedRow(s, u).data[k] = Value(s, u, k)
    <2>1. PICK d : d = [k \in Keys |-> Value(s, u, k)]
      OBVIOUS
    <2>2. d \in [Keys -> Seq(Nat)] /\ \A k \in Keys : d[k] = Value(s, u, k)
      BY <2>1, ValueIs
    <2>3. MergedRow(s, u) = [step |-> u, data |-> d]
      BY <2>1, Zenon DEF MergedRow
    <2> QED
      BY <2>2, <2>3 DEF RowSet
  <1>9. m \in Seq(RowSet) /\ Len(m) = n /\ \A i \in 1..n : m[i] = MergedRow(s, order[i])
    <2>1. \A i \in 1..n : MergedRow(s, order[i]) \in RowSet
      BY <1>5, <1>8
    <2> QED
      BY <1>7, <2>1
  <1>10. ASSUME NEW i \in 1..n
         PROVE  m[i].step = order[i] /\ \A k \in Keys : m[i].data[k] = Value(s, order[i], k)
    BY <1>5, <1>8, <1>9
  <1> QED
    BY <1>2, <1>3, <1>4, <1>6, <1>9, <1>10, Zenon DEF Merges

LEMMA MergeSame ==
  ASSUME NEW s \in Seq(RowSet), NEW t \in Seq(RowSet), StepsOf(s) = StepsOf(t),
         \A u \in StepsOf(s), k \in Keys : Value(s, u, k) = Value(t, u, k)
  PROVE  MergeSteps(s) = MergeSteps(t)
  <1>1. PICK order : order = InOrder(StepsOf(s)) /\ order = InOrder(StepsOf(t))
    OBVIOUS
  <1>2. Merges(MergeSteps(s), s, order) /\ Merges(MergeSteps(t), t, order)
    BY <1>1, MergeIs
  <1>3. PICK n \in Nat : n = Len(order)
    BY <1>2 DEF Merges, Lists
  <1>4. \A i \in 1..n : order[i] \in StepsOf(s)
    BY <1>2, <1>3 DEF Merges, Lists
  <1>5. ASSUME NEW u \in StepsOf(s) PROVE MergedRow(s, u) = MergedRow(t, u)
    <2>1. [k \in Keys |-> Value(s, u, k)] = [k \in Keys |-> Value(t, u, k)]
      OBVIOUS
    <2> QED
      BY <2>1, Zenon DEF MergedRow
  <1>6. MergeSteps(s) = [i \in 1..n |-> MergedRow(s, order[i])]
    BY <1>1, <1>3, Zenon DEF MergeSteps
  <1>7. MergeSteps(t) = [i \in 1..n |-> MergedRow(t, order[i])]
    BY <1>1, <1>3, Zenon DEF MergeSteps
  <1>8. \A i \in 1..n : MergedRow(s, order[i]) = MergedRow(t, order[i])
    BY <1>4, <1>5
  <1> QED
    BY <1>6, <1>7, <1>8

\* Merged rows ascend; their steps and values are those of the rows.
Ascends(s) == \A i, j \in 1..Len(s) : i < j => s[i].step < s[j].step

LEMMA MergedSteps ==
  ASSUME NEW s \in Seq(RowSet)
  PROVE  /\ MergeSteps(s) \in Seq(RowSet) /\ StepsOf(MergeSteps(s)) = StepsOf(s)
         /\ Ascends(MergeSteps(s))
  <1>1. PICK m, order : Merges(m, s, order) /\ m = MergeSteps(s)
    BY MergeIs
  <1>2. PICK n \in Nat : n = Len(m) /\ n = Len(order)
    BY <1>1 DEF Merges
  <1>3. m \in Seq(RowSet) /\ Lists(order, StepsOf(s)) /\ \A i \in 1..n : m[i].step = order[i]
    BY <1>1, <1>2 DEF Merges
  <1>4. StepsOf(m) = {order[i] : i \in 1..n}
    BY <1>2, <1>3 DEF StepsOf
  <1>5. StepsOf(m) = StepsOf(s)
    BY <1>2, <1>3, <1>4 DEF Lists
  <1>6. Ascends(m)
    BY <1>2, <1>3 DEF Lists, Rises, Ascends
  <1> QED
    BY <1>1, <1>3, <1>5, <1>6

LEMMA MergedValue ==
  ASSUME NEW s \in Seq(RowSet), NEW u, NEW k \in Keys
  PROVE  Value(MergeSteps(s), u, k) = Value(s, u, k)
  <1>1. PICK m, order : Merges(m, s, order) /\ m = MergeSteps(s)
    BY MergeIs
  <1>2. PICK n \in Nat : n = Len(m) /\ n = Len(order)
    BY <1>1 DEF Merges
  <1>3. /\ m \in Seq(RowSet) /\ Lists(order, StepsOf(s))
        /\ \A i \in 1..n : m[i].step = order[i] /\ m[i].data[k] = Value(s, order[i], k)
    BY <1>1, <1>2 DEF Merges
  <1>4. PICK v : v = Value(s, u, k)
    OBVIOUS
  <1>5. CASE u \notin StepsOf(s)
    <2>1. u \notin StepsOf(m)
      BY <1>1, <1>5, MergedSteps
    <2> QED
      BY <1>1, <1>3, <1>5, <2>1, ValueNone
  <1>6. CASE u \in StepsOf(s)
    <2>1. PICK i \in 1..n : order[i] = u
      BY <1>2, <1>3, <1>6 DEF Lists
    <2>2. m[i].step = u /\ m[i].data[k] = v
      BY <1>3, <1>4, <2>1
    <2>3. \A j, h \in 1..n : j < h => order[j] < order[h]
      BY <1>2, <1>3 DEF Lists, Rises
    <2>4. \A j \in 1..n : order[j] \in Nat
      BY <1>2, <1>3 DEF Lists
    <2>5. ASSUME NEW j \in 1..n, m[j].step = u PROVE j = i
      <3>1. order[j] = u /\ order[i] = u
        BY <1>3, <2>1, <2>5
      <3>2. PICK x \in Nat : x = order[i] /\ x = order[j]
        BY <2>4, <3>1
      <3>3. ~(order[i] < order[j]) /\ ~(order[j] < order[i])
        BY <3>2
      <3>4. ~(i < j) /\ ~(j < i)
        BY <2>3, <3>3
      <3> QED
        BY <3>4
    <2>6. Valued(m, u, k, v)
      <3>1. CASE v = <<>>
        <4>1. Silent(m, u, k, 0)
          BY <1>2, <2>2, <2>5, <3>1 DEF Silent
        <4> QED
          BY <3>1, <4>1 DEF Valued
      <3>2. CASE v # <<>>
        <4>1. Silent(m, u, k, i)
          BY <1>2, <2>5 DEF Silent
        <4>2. GivenAt(m, u, k, i, v)
          BY <1>2, <2>2, <3>2, <4>1 DEF GivenAt
        <4> QED
          BY <4>2 DEF Valued
      <3> QED
        BY <3>1, <3>2
    <2>7. Value(m, u, k) = v
      BY <1>3, <2>6, ValueOnce
    <2> QED
      BY <1>1, <1>4, <2>7
  <1> QED
    BY <1>5, <1>6

-----------------------------------------------------------------------------
(* The steps written last                                                  *)

\* The steps written after the last row of step u.
After(s, u) == {s[i].step : i \in {i \in 1..Len(s) : \A j \in 1..Len(s) : s[j].step = u => j < i}}

LEMMA AfterAre ==
  ASSUME NEW s \in Seq(RowSet), NEW u
  PROVE  /\ After(s, u) \subseteq StepsOf(s) /\ u \notin After(s, u)
         /\ u \notin StepsOf(s) => After(s, u) = StepsOf(s)
  <1>1. After(s, u) \subseteq StepsOf(s)
    BY DEF After, StepsOf
  <1>2. u \notin After(s, u)
    BY DEF After
  <1>3. u \notin StepsOf(s) => StepsOf(s) \subseteq After(s, u)
    BY DEF After, StepsOf
  <1> QED
    BY <1>1, <1>2, <1>3

LEMMA AfterConcat ==
  ASSUME NEW a \in Seq(RowSet), NEW b \in Seq(RowSet), NEW u
  PROVE  After(a \o b, u) = IF u \in StepsOf(b) THEN After(b, u) ELSE After(a, u) \cup StepsOf(b)
  <1>1. PICK s : s = a \o b
    OBVIOUS
  <1>2. PICK p, q \in Nat : p = Len(a) /\ q = Len(b) /\ Len(s) = p + q
    BY <1>1, Joined DEF Follow
  <1>3. (\A i \in 1..p : s[i] = a[i]) /\ \A i \in 1..q : s[p + i] = b[i]
    BY <1>1, <1>2, Joined DEF Follow
  <1>4. \A i \in 1..(p + q) : i \in 1..p \/ \E j \in 1..q : i = p + j
    <2>1. ASSUME NEW i \in 1..(p + q), i \notin 1..p PROVE \E j \in 1..q : i = p + j
      <3>1. i - p \in 1..q /\ i = p + (i - p)
        BY <2>1
      <3> QED
        BY <3>1
    <2> QED
      BY <2>1
  <1>5. /\ \A i \in 1..p : i \in 1..(p + q)
        /\ \A i \in 1..q : p + i \in 1..(p + q)
        /\ \A i \in 1..p, j \in 1..q : i < p + j /\ ~(p + j < i)
        /\ \A i, j \in 1..q : p + i < p + j <=> i < j
    OBVIOUS
  <1>6. CASE u \in StepsOf(b)
    <2>1. PICK h \in 1..q : b[h].step = u
      BY <1>2, <1>6 DEF StepsOf
    <2>2. s[p + h].step = u
      BY <1>3, <2>1
    <2>3. ASSUME NEW x \in After(s, u) PROVE x \in After(b, u)
      <3>1. PICK i \in 1..(p + q) : x = s[i].step /\ \A j \in 1..(p + q) : s[j].step = u => j < i
        BY <1>2 DEF After
      <3>2. i \notin 1..p
        BY <1>5, <2>1, <2>2, <3>1
      <3>3. PICK g \in 1..q : i = p + g
        BY <1>4, <3>2
      <3>4. x = b[g].step
        BY <1>3, <3>1, <3>3
      <3>5. ASSUME NEW j \in 1..q, b[j].step = u PROVE j < g
        <4>1. s[p + j].step = u
          BY <1>3, <3>5
        <4>2. p + j < p + g
          BY <1>5, <3>1, <3>3, <4>1
        <4> QED
          BY <4>2
      <3> QED
        BY <1>2, <3>4, <3>5 DEF After
    <2>4. ASSUME NEW x \in After(b, u) PROVE x \in After(s, u)
      <3>1. PICK g \in 1..q : x = b[g].step /\ \A j \in 1..q : b[j].step = u => j < g
        BY <1>2 DEF After
      <3>2. PICK i \in 1..(p + q) : i = p + g
        BY <1>5
      <3>3. x = s[i].step
        BY <1>3, <3>1, <3>2
      <3>4. ASSUME NEW j \in 1..(p + q), s[j].step = u PROVE j < i
        <4>1. CASE j \in 1..p
          BY <1>5, <3>2, <4>1
        <4>2. CASE j \notin 1..p
          <5>1. PICK f \in 1..q : j = p + f
            BY <1>4, <4>2
          <5>2. b[f].step = u
            BY <1>3, <3>4, <5>1
          <5> QED
            BY <1>5, <3>1, <3>2, <5>1, <5>2
        <4> QED
          BY <4>1, <4>2
      <3> QED
        BY <1>2, <3>3, <3>4 DEF After
    <2> QED
      BY <1>1, <1>6, <2>3, <2>4
  <1>7. CASE u \notin StepsOf(b)
    <2>1. \A j \in 1..q : b[j].step # u
      BY <1>2, <1>7 DEF StepsOf
    <2>2. \A j \in 1..(p + q) : s[j].step = u => j \in 1..p /\ a[j].step = u
      BY <1>3, <1>4, <2>1
    <2>3. ASSUME NEW x \in After(s, u) PROVE x \in After(a, u) \cup StepsOf(b)
      <3>1. PICK i \in 1..(p + q) : x = s[i].step /\ \A j \in 1..(p + q) : s[j].step = u => j < i
        BY <1>2 DEF After
      <3>2. CASE i \in 1..p
        <4>1. x = a[i].step
          BY <1>3, <3>1, <3>2
        <4>2. \A j \in 1..p : a[j].step = u => j < i
          BY <1>3, <1>5, <3>1
        <4> QED
          BY <1>2, <3>2, <4>1, <4>2 DEF After
      <3>3. CASE i \notin 1..p
        <4>1. PICK g \in 1..q : i = p + g
          BY <1>4, <3>3
        <4>2. x = b[g].step
          BY <1>3, <3>1, <4>1
        <4> QED
          BY <1>2, <4>2 DEF StepsOf
      <3> QED
        BY <3>2, <3>3
    <2>4. ASSUME NEW x \in After(a, u) PROVE x \in After(s, u)
      <3>1. PICK i \in 1..p : x = a[i].step /\ \A j \in 1..p : a[j].step = u => j < i
        BY <1>2 DEF After
      <3>2. i \in 1..(p + q) /\ x = s[i].step
        BY <1>3, <1>5, <3>1
      <3>3. \A j \in 1..(p + q) : s[j].step = u => j < i
        BY <2>2, <3>1
      <3> QED
        BY <1>2, <3>2, <3>3 DEF After
    <2>5. ASSUME NEW x \in StepsOf(b) PROVE x \in After(s, u)
      <3>1. PICK g \in 1..q : x = b[g].step
        BY <1>2 DEF StepsOf
      <3>2. PICK i \in 1..(p + q) : i = p + g
        BY <1>5
      <3>3. x = s[i].step
        BY <1>3, <3>1, <3>2
      <3>4. \A j \in 1..(p + q) : s[j].step = u => j < i
        BY <1>5, <2>2, <3>2
      <3> QED
        BY <1>2, <3>3, <3>4 DEF After
    <2> QED
      BY <1>1, <1>7, <2>3, <2>4, <2>5
  <1> QED
    BY <1>6, <1>7

\* The rows from a place on.
From(s, j) == SubSeq(s, j, Len(s))

LEMMA FromIs ==
  ASSUME NEW s \in Seq(RowSet), NEW j \in 1..(Len(s) + 1)
  PROVE  /\ From(s, j) \in Seq(RowSet) /\ Len(From(s, j)) = Len(s) + 1 - j
         /\ \A i \in j..Len(s) : i - j + 1 \in 1..Len(From(s, j)) /\ From(s, j)[i - j + 1] = s[i]
         /\ StepsOf(From(s, j)) = {s[i].step : i \in j..Len(s)}
         /\ Follow(s, SubSeq(s, 1, j - 1), From(s, j)) /\ SubSeq(s, 1, j - 1) \in Seq(RowSet)
  <1>1. PICK l \in Nat : l = Len(s)
    OBVIOUS
  <1>2. PICK k \in Nat : k = j - 1 /\ k \in 0..l /\ j = k + 1
    BY <1>1
  <1>3. PICK x : x = SubSeq(s, k + 1, l)
    OBVIOUS
  <1>4. x \in Seq(RowSet) /\ Len(x) = l - k /\ \A i \in 1..(l - k) : x[i] = s[k + i]
    BY <1>1, <1>2, <1>3, CutFrom
  <1>5. x = From(s, j)
    BY <1>1, <1>2, <1>3 DEF From
  <1>6. ASSUME NEW i \in j..l PROVE i - j + 1 \in 1..Len(x) /\ x[i - j + 1] = s[i]
    <2>1. PICK h : h = i - j + 1
      OBVIOUS
    <2>2. h \in 1..(l - k) /\ k + h = i
      BY <1>2, <2>1
    <2>3. x[h] = s[i]
      BY <1>4, <2>2
    <2> QED
      BY <1>4, <2>1, <2>2, <2>3
  <1>7. StepsOf(x) = {s[i].step : i \in j..l}
    <2>1. ASSUME NEW u \in StepsOf(x) PROVE \E i \in j..l : u = s[i].step
      <3>1. PICK h \in 1..(l - k) : u = x[h].step
        BY <1>4 DEF StepsOf
      <3>2. k + h \in j..l
        BY <1>2
      <3> QED
        BY <1>4, <3>1, <3>2
    <2>2. ASSUME NEW i \in j..l PROVE s[i].step \in StepsOf(x)
      <3>1. PICK h \in 1..Len(x) : x[h] = s[i]
        BY <1>6
      <3> QED
        BY <3>1 DEF StepsOf
    <2> QED
      BY <2>1, <2>2
  <1>8. PICK y : y = SubSeq(s, 1, k)
    OBVIOUS
  <1>9. y \in Seq(RowSet) /\ Len(y) = k /\ \A i \in 1..k : y[i] = s[i]
    BY <1>1, <1>2, <1>8, CutTo
  <1>10. Follow(s, y, x)
    <2>1. Len(y) \in Nat /\ Len(x) \in Nat /\ Len(s) = Len(y) + Len(x)
      BY <1>1, <1>2, <1>4, <1>9
    <2>2. \A i \in 1..Len(y) : i \in 1..Len(s) /\ s[i] = y[i]
      BY <1>1, <1>2, <1>9
    <2>3. \A i \in 1..Len(x) : Len(y) + i \in 1..Len(s) /\ s[Len(y) + i] = x[i]
      BY <1>1, <1>2, <1>4, <1>9
    <2> QED
      BY <2>1, <2>2, <2>3 DEF Follow
  <1> QED
    BY <1>1, <1>2, <1>4, <1>5, <1>6, <1>7, <1>8, <1>9, <1>10

LEMMA Rejoined ==
  ASSUME NEW s \in Seq(RowSet), NEW j \in 1..(Len(s) + 1)
  PROVE  s = SubSeq(s, 1, j - 1) \o From(s, j)
  <1>1. PICK a, b : a = SubSeq(s, 1, j - 1) /\ b = From(s, j)
    OBVIOUS
  <1>2. a \in Seq(RowSet) /\ b \in Seq(RowSet) /\ Follow(s, a, b)
    BY <1>1, FromIs
  <1>3. PICK t : t = a \o b
    OBVIOUS
  <1>4. t \in Seq(RowSet) /\ Follow(t, a, b)
    BY <1>2, <1>3, Joined
  <1>5. Len(s) = Len(t)
    BY <1>2, <1>4 DEF Follow
  <1>6. ASSUME NEW i \in 1..Len(s) PROVE s[i] = t[i]
    <2>1. CASE i \in 1..Len(a)
      BY <1>2, <1>4, <2>1 DEF Follow
    <2>2. CASE \E h \in 1..Len(b) : i = Len(a) + h
      BY <1>2, <1>4, <2>2 DEF Follow
    <2> QED
      BY <1>2, <2>1, <2>2, Sides
  <1>7. s = t
    BY <1>4, <1>5, <1>6, SeqEqual
  <1> QED
    BY <1>1, <1>3, <1>7

\* The last row of step u, and what follows it.
LEMMA AfterLast ==
  ASSUME NEW s \in Seq(RowSet), NEW p \in 1..Len(s),
         \A j \in (p + 1)..Len(s) : s[j].step # s[p].step
  PROVE  After(s, s[p].step) = {s[i].step : i \in (p + 1)..Len(s)}
  <1>1. PICK l \in Nat : l = Len(s)
    OBVIOUS
  <1>2. PICK u : u = s[p].step
    OBVIOUS
  <1>3. ASSUME NEW i \in 1..l, \A j \in 1..l : s[j].step = u => j < i PROVE i \in (p + 1)..l
    <2>1. p < i
      BY <1>1, <1>2, <1>3
    <2> QED
      BY <2>1
  <1>4. ASSUME NEW i \in (p + 1)..l, NEW j \in 1..l, s[j].step = u PROVE j < i
    <2>1. j \notin (p + 1)..l
      BY <1>1, <1>2, <1>4
    <2> QED
      BY <2>1
  <1>5. \A i \in (p + 1)..l : i \in 1..l
    OBVIOUS
  <1>6. After(s, u) = {s[i].step : i \in (p + 1)..l}
    BY <1>1, <1>3, <1>4, <1>5 DEF After
  <1> QED
    BY <1>1, <1>2, <1>6

LEMMA LastRow ==
  ASSUME NEW s \in Seq(RowSet), NEW u \in StepsOf(s)
  PROVE  \E p \in 1..Len(s) : s[p].step = u /\ \A j \in (p + 1)..Len(s) : s[j].step # u
  <1>1. PICK l \in Nat : l = Len(s)
    OBVIOUS
  <1>2. PICK T : T = {i \in 1..l : s[i].step = u}
    OBVIOUS
  <1>3. T # {} /\ T \subseteq 0..l
    BY <1>1, <1>2 DEF StepsOf
  <1>4. PICK p \in T : \A j \in T : j <= p
    BY <1>3, Greatest
  <1>5. p \in 1..l /\ s[p].step = u
    BY <1>2, <1>4
  <1>6. ASSUME NEW j \in (p + 1)..l, s[j].step = u PROVE FALSE
    <2>1. j \in T
      BY <1>2, <1>5, <1>6
    <2>2. j <= p
      BY <1>4, <2>1
    <2> QED
      BY <1>5, <2>2
  <1> QED
    BY <1>1, <1>5, <1>6

LEMMA Smaller ==
  ASSUME NEW S, S \subseteq Steps, NEW T, T \subseteq S
  PROVE  Cardinality(T) \in Nat /\ Cardinality(S) \in Nat /\ Cardinality(T) <= Cardinality(S)
  <1>1. IsFiniteSet(S) /\ Cardinality(S) \in Nat /\ Cardinality(T) \in Nat
    BY StepsFinite
  <1> QED
    BY <1>1, FS_Subset

LEMMA SuffixIs ==
  ASSUME NEW s \in Seq(RowSet), NEW n \in Nat
  PROVE  /\ SuffixOf(s, n) \in 1..(Len(s) + 1)
         /\ Cardinality(StepsOf(From(s, SuffixOf(s, n)))) <= n
         /\ \A i \in 1..(SuffixOf(s, n) - 1) : Cardinality(StepsOf(From(s, i))) > n
  <1>1. PICK l \in Nat : l = Len(s)
    OBVIOUS
  <1>2. \A j \in 1..(l + 1) : Cardinality(StepsOf(From(s, j))) \in Nat
    BY <1>1, FromIs, StepsAre, StepsFinite
  <1>3. PICK T : T = {j \in 1..(l + 1) : Cardinality(StepsOf(From(s, j))) <= n}
    OBVIOUS
  <1>4. l + 1 \in T
    <2>1. {s[i].step : i \in (l + 1)..l} = {}
      OBVIOUS
    <2>2. StepsOf(From(s, l + 1)) = {}
      BY <1>1, <2>1, FromIs
    <2>3. Cardinality(StepsOf(From(s, l + 1))) = 0
      BY <2>2, FS_EmptySet, Zenon
    <2>4. l + 1 \in 1..(l + 1) /\ 0 <= n
      OBVIOUS
    <2> QED
      BY <1>3, <2>3, <2>4
  <1>5. PICK x \in T : \A y \in T : x <= y
    <2>1. T \subseteq Nat /\ T # {}
      BY <1>3, <1>4
    <2> QED
      BY <2>1, Least
  <1>6. x \in 1..(l + 1) /\ Cardinality(StepsOf(From(s, x))) <= n
    BY <1>3, <1>5
  <1>7. ASSUME NEW i \in 1..(x - 1) PROVE Cardinality(StepsOf(From(s, i))) > n
    <2>1. i \in 1..(l + 1) /\ i < x
      BY <1>6
    <2>2. i \notin T
      BY <1>5, <1>6, <2>1
    <2>3. ~(Cardinality(StepsOf(From(s, i))) <= n)
      BY <1>3, <2>1, <2>2
    <2> QED
      BY <1>2, <2>1, <2>3
  <1>8. n # All
    BY DEF All
  <1>9. SuffixOf(s, n) = CHOOSE j \in 1..(l + 1) :
           /\ Cardinality(StepsOf(From(s, j))) <= n
           /\ \A i \in 1..(j - 1) : Cardinality(StepsOf(From(s, i))) > n
    BY <1>1, <1>8, Zenon DEF SuffixOf, From
  <1> QED
    BY <1>1, <1>6, <1>7, <1>9

LEMMA LatestIs ==
  ASSUME NEW s \in Seq(RowSet), NEW n \in Nat
  PROVE  LatestSteps(s, n) = {u \in StepsOf(s) : Cardinality(After(s, u)) < n}
  <1>1. PICK l \in Nat : l = Len(s)
    OBVIOUS
  <1>2. PICK m \in 1..(l + 1) : m = SuffixOf(s, n)
    BY <1>1, SuffixIs
  <1>3. /\ Cardinality(StepsOf(From(s, m))) <= n
        /\ \A i \in 1..(m - 1) : Cardinality(StepsOf(From(s, i))) > n
    BY <1>2, SuffixIs
  <1>4. \A j \in 1..(l + 1) : StepsOf(From(s, j)) = {s[i].step : i \in j..l}
    BY <1>1, FromIs
  <1>5. LatestSteps(s, n) = StepsOf(From(s, m))
    BY <1>2, Zenon DEF LatestSteps, From
  <1>6. StepsOf(From(s, m)) \subseteq StepsOf(s)
    <2>1. StepsOf(From(s, m)) = {s[i].step : i \in m..l}
      BY <1>4
    <2>2. \A i \in m..l : i \in 1..l
      OBVIOUS
    <2>3. StepsOf(s) = {s[i].step : i \in 1..l}
      BY <1>1, Zenon DEF StepsOf
    <2> QED
      BY <2>1, <2>2, <2>3, Zenon
  <1>7. ASSUME NEW u \in StepsOf(s)
        PROVE  u \in StepsOf(From(s, m)) <=> Cardinality(After(s, u)) < n
    <2>1. PICK p \in 1..l : s[p].step = u /\ \A j \in (p + 1)..l : s[j].step # u
      BY <1>1, LastRow
    <2>2. After(s, u) = {s[i].step : i \in (p + 1)..l}
      BY <1>1, <2>1, AfterLast
    <2>3. p \in 1..(l + 1)
      OBVIOUS
    <2>4. StepsOf(From(s, p)) = After(s, u) \cup {u}
      <3>1. StepsOf(From(s, p)) = {s[i].step : i \in p..l}
        BY <1>4, <2>3
      <3>2. \A i \in p..l : i = p \/ i \in (p + 1)..l
        OBVIOUS
      <3>3. (\A i \in (p + 1)..l : i \in p..l) /\ p \in p..l
        OBVIOUS
      <3> QED
        BY <2>1, <2>2, <3>1, <3>2, <3>3
    <2>5. u \notin After(s, u) /\ After(s, u) \subseteq Steps
      BY AfterAre, StepsAre
    <2>6. PICK c \in Nat : c = Cardinality(After(s, u))
      BY <2>5, StepsFinite
    <2>7. Cardinality(StepsOf(From(s, p))) = c + 1
      BY <2>4, <2>5, <2>6, StepsFinite, FS_AddElement
    <2>8. CASE p >= m
      <3>1. u \in StepsOf(From(s, m))
        <4>1. p \in m..l
          BY <2>8
        <4> QED
          BY <1>4, <2>1, <4>1
      <3>2. StepsOf(From(s, p)) \subseteq StepsOf(From(s, m))
        <4>1. \A i \in p..l : i \in m..l
          BY <2>8
        <4>2. StepsOf(From(s, p)) = {s[i].step : i \in p..l}
          BY <1>4, <2>3
        <4>3. StepsOf(From(s, m)) = {s[i].step : i \in m..l}
          BY <1>4
        <4> QED
          BY <4>1, <4>2, <4>3, Zenon
      <3>3. StepsOf(From(s, m)) \subseteq Steps
        BY <1>6, StepsAre
      <3>4. PICK d \in Nat : d = Cardinality(StepsOf(From(s, m))) /\ c + 1 <= d
        BY <2>7, <3>2, <3>3, Smaller
      <3>5. c < n
        BY <1>3, <3>4
      <3> QED
        BY <2>6, <3>1, <3>5
    <2>9. CASE p < m
      <3>1. u \notin StepsOf(From(s, m))
        <4>1. \A i \in m..l : i \in (p + 1)..l
          BY <2>9
        <4> QED
          BY <1>4, <2>1, <4>1
      <3>2. c + 1 > n
        BY <1>3, <2>7, <2>9
      <3> QED
        BY <2>6, <3>1, <3>2
    <2> QED
      BY <2>8, <2>9
  <1> QED
    BY <1>5, <1>6, <1>7

LEMMA LatestAll ==
  ASSUME NEW s \in Seq(RowSet)
  PROVE  SuffixOf(s, All) = 1 /\ From(s, 1) = s /\ LatestSteps(s, All) = StepsOf(s)
  <1>1. SuffixOf(s, All) = 1
    BY Zenon DEF SuffixOf
  <1>2. PICK x : x = From(s, 1)
    OBVIOUS
  <1>3. PICK l \in Nat : l = Len(s)
    OBVIOUS
  <1>4. x \in Seq(RowSet) /\ Len(x) = l - 0 /\ \A i \in 1..(l - 0) : x[i] = s[0 + i]
    BY <1>2, <1>3, CutFrom DEF From
  <1>5. x = s
    BY <1>3, <1>4, SeqEqual
  <1> QED
    BY <1>1, <1>2, <1>5, Zenon DEF LatestSteps, From

-----------------------------------------------------------------------------
(* Rows whose steps ascend                                                 *)

LEMMA RowEqual ==
  ASSUME NEW r \in RowSet, NEW q \in RowSet, r.step = q.step, \A k \in Keys : r.data[k] = q.data[k]
  PROVE  r = q
  <1>1. r.data = q.data
    BY RowFields
  <1> QED
    BY <1>1 DEF RowSet

LEMMA AscendsLists ==
  ASSUME NEW s \in Seq(RowSet), Ascends(s)
  PROVE  Lists([i \in 1..Len(s) |-> s[i].step], StepsOf(s))
  <1>1. PICK n \in Nat : n = Len(s)
    OBVIOUS
  <1>2. PICK t : t = [i \in 1..n |-> s[i].step]
    OBVIOUS
  <1>3. \A i \in 1..n : s[i].step \in Nat /\ s[i].step \in StepsOf(s)
    BY <1>1, StepsAre
  <1>4. t \in Seq(Nat) /\ Len(t) = n /\ \A i \in 1..n : t[i] = s[i].step
    BY <1>2, <1>3
  <1>5. Rises(t)
    BY <1>1, <1>4 DEF Rises, Ascends
  <1>6. \A x \in StepsOf(s) : \E i \in 1..n : t[i] = x
    BY <1>1, <1>4 DEF StepsOf
  <1>7. Lists(t, StepsOf(s))
    BY <1>3, <1>4, <1>5, <1>6 DEF Lists
  <1> QED
    BY <1>1, <1>2, <1>7

LEMMA AscendsOnce ==
  ASSUME NEW s \in Seq(RowSet), Ascends(s), NEW i \in 1..Len(s), NEW j \in 1..Len(s),
         s[i].step = s[j].step
  PROVE  i = j
  <1>1. PICK x \in Nat : x = s[i].step /\ x = s[j].step
    BY StepsAre
  <1>2. ~(s[i].step < s[j].step) /\ ~(s[j].step < s[i].step)
    BY <1>1
  <1>3. ~(i < j) /\ ~(j < i)
    BY <1>2 DEF Ascends
  <1>4. i \in Nat /\ j \in Nat
    OBVIOUS
  <1> QED
    BY <1>3, <1>4

LEMMA AscendsCount ==
  ASSUME NEW s \in Seq(RowSet), Ascends(s)
  PROVE  Cardinality(StepsOf(s)) = Len(s)
  <1>1. PICK n \in Nat : n = Len(s)
    OBVIOUS
  <1>2. PICK f : f = [i \in 1..n |-> s[i].step]
    OBVIOUS
  <1>3. f \in [1..n -> StepsOf(s)]
    BY <1>1, <1>2 DEF StepsOf
  <1>4. \A u \in StepsOf(s) : \E i \in 1..n : f[i] = u
    BY <1>1, <1>2 DEF StepsOf
  <1>5. \A i, j \in 1..n : f[i] = f[j] => i = j
    BY <1>1, <1>2, AscendsOnce
  <1>6. ExistsBijection(1..n, StepsOf(s))
    <2>1. f \in Bijection(1..n, StepsOf(s))
      <3>1. f \in Injection(1..n, StepsOf(s))
        BY <1>3, <1>5 DEF Injection, IsInjective
      <3>2. f \in Surjection(1..n, StepsOf(s))
        BY <1>3, <1>4 DEF Surjection
      <3> QED
        BY <3>1, <3>2 DEF Bijection
    <2> QED
      BY <2>1 DEF ExistsBijection
  <1>7. IsFiniteSet(1..n) /\ Cardinality(1..n) = n
    <2>1. 1 \in Int /\ n \in Int
      OBVIOUS
    <2>2. IsFiniteSet(1..n) /\ Cardinality(1..n) = IF 1 > n THEN 0 ELSE n - 1 + 1
      BY <2>1, FS_Interval
    <2>3. (IF 1 > n THEN 0 ELSE n - 1 + 1) = n
      OBVIOUS
    <2> QED
      BY <2>2, <2>3
  <1> QED
    BY <1>1, <1>6, <1>7, FS_Bijection

\* Some of the rows of L, in the order of their steps.
PartOf(x, L) ==
    /\ x \in Seq(RowSet) /\ Ascends(x)
    /\ \A i \in 1..Len(x) : \E j \in 1..Len(L) : x[i] = L[j]

LEMMA PartsEqual ==
  ASSUME NEW L \in Seq(RowSet), Ascends(L), NEW x, PartOf(x, L), NEW y, PartOf(y, L),
         StepsOf(x) = StepsOf(y)
  PROVE  x = y
  <1>1. x \in Seq(RowSet) /\ Ascends(x) /\ y \in Seq(RowSet) /\ Ascends(y)
    BY DEF PartOf
  <1>2. PICK n \in Nat, m \in Nat : n = Len(x) /\ m = Len(y)
    BY <1>1
  <1>3. PICK a, b : a = [i \in 1..n |-> x[i].step] /\ b = [i \in 1..m |-> y[i].step]
    OBVIOUS
  <1>4. Lists(a, StepsOf(x)) /\ Lists(b, StepsOf(x))
    BY <1>1, <1>2, <1>3, AscendsLists
  <1>5. a = b
    BY <1>4, ListsOnce
  <1>6. Len(a) = n /\ Len(b) = m
    BY <1>2, <1>3
  <1>7. n = m
    BY <1>5, <1>6
  <1>8. ASSUME NEW i \in 1..n PROVE x[i] = y[i]
    <2>1. x[i].step = y[i].step
      BY <1>3, <1>5, <1>7
    <2>2. PICK j \in 1..Len(L) : x[i] = L[j]
      BY <1>2 DEF PartOf
    <2>3. PICK h \in 1..Len(L) : y[i] = L[h]
      BY <1>2, <1>7 DEF PartOf
    <2>4. L[j].step = L[h].step
      BY <2>1, <2>2, <2>3
    <2>5. j = h
      BY <2>4, AscendsOnce
    <2> QED
      BY <2>2, <2>3, <2>5
  <1> QED
    BY <1>1, <1>2, <1>7, <1>8, SeqEqual

LEMMA PartOfSteps ==
  ASSUME NEW L, NEW s, PartOf(s, L), NEW W
  PROVE  PartOf(OfSteps(s, W), L)
  <1>1. s \in Seq(RowSet) /\ Ascends(s)
    BY DEF PartOf
  <1>2. PICK x, at : x = OfSteps(s, W) /\ Selects(x, s, W, at)
    BY <1>1, OfStepsIs
  <1>3. PICK n \in Nat : n = Len(x) /\ n = Len(at)
    BY <1>2 DEF Selects
  <1>4. x \in Seq(RowSet) /\ \A i \in 1..n : at[i] \in 1..Len(s) /\ x[i] = s[at[i]]
    BY <1>2, <1>3 DEF Selects
  <1>5. \A i, j \in 1..n : i < j => at[i] < at[j]
    BY <1>2, <1>3 DEF Selects, Rises
  <1>6. ASSUME NEW i \in 1..n, NEW j \in 1..n, i < j PROVE x[i].step < x[j].step
    <2>1. PICK a, b \in 1..Len(s) : a = at[i] /\ b = at[j] /\ x[i] = s[a] /\ x[j] = s[b]
      BY <1>4
    <2>2. a < b
      BY <1>5, <1>6, <2>1
    <2>3. s[a].step < s[b].step
      BY <1>1, <2>2 DEF Ascends
    <2> QED
      BY <2>1, <2>3
  <1>7. Ascends(x)
    BY <1>3, <1>6 DEF Ascends
  <1>8. \A i \in 1..n : \E j \in 1..Len(L) : x[i] = L[j]
    <2>1. ASSUME NEW i \in 1..n PROVE \E j \in 1..Len(L) : x[i] = L[j]
      <3>1. PICK h \in 1..Len(s) : x[i] = s[h]
        BY <1>4
      <3>2. \E j \in 1..Len(L) : s[h] = L[j]
        BY DEF PartOf
      <3> QED
        BY <3>1, <3>2
    <2> QED
      BY <2>1
  <1> QED
    BY <1>2, <1>3, <1>4, <1>7, <1>8 DEF PartOf

LEMMA PartFrom ==
  ASSUME NEW L, NEW s, PartOf(s, L), NEW j \in 1..(Len(s) + 1)
  PROVE  PartOf(From(s, j), L)
  <1>1. s \in Seq(RowSet) /\ Ascends(s)
    BY DEF PartOf
  <1>2. PICK x, y : x = From(s, j) /\ y = SubSeq(s, 1, j - 1)
    OBVIOUS
  <1>3. x \in Seq(RowSet) /\ Follow(s, y, x)
    BY <1>1, <1>2, FromIs
  <1>4. PICK p, n \in Nat : p = Len(y) /\ n = Len(x)
    BY <1>3 DEF Follow
  <1>5. \A i \in 1..n : p + i \in 1..Len(s) /\ s[p + i] = x[i]
    BY <1>3, <1>4 DEF Follow
  <1>6. ASSUME NEW i \in 1..n, NEW h \in 1..n, i < h PROVE x[i].step < x[h].step
    <2>1. PICK a, b \in 1..Len(s) : a = p + i /\ b = p + h /\ x[i] = s[a] /\ x[h] = s[b]
      BY <1>5
    <2>2. a < b
      BY <1>6, <2>1
    <2>3. s[a].step < s[b].step
      BY <1>1, <2>2 DEF Ascends
    <2> QED
      BY <2>1, <2>3
  <1>7. Ascends(x)
    BY <1>4, <1>6 DEF Ascends
  <1>8. \A i \in 1..n : \E g \in 1..Len(L) : x[i] = L[g]
    BY <1>5 DEF PartOf
  <1> QED
    BY <1>2, <1>3, <1>4, <1>7, <1>8 DEF PartOf

LEMMA PartConcat ==
  ASSUME NEW L, NEW a, PartOf(a, L), NEW b, PartOf(b, L),
         \A u \in StepsOf(a), w \in StepsOf(b) : u < w
  PROVE  PartOf(a \o b, L)
  <1>1. a \in Seq(RowSet) /\ Ascends(a) /\ b \in Seq(RowSet) /\ Ascends(b)
    BY DEF PartOf
  <1>2. PICK s : s = a \o b
    OBVIOUS
  <1>3. s \in Seq(RowSet) /\ Follow(s, a, b)
    BY <1>1, <1>2, Joined
  <1>4. PICK p, q \in Nat : p = Len(a) /\ q = Len(b) /\ Len(s) = p + q
    BY <1>3 DEF Follow
  <1>5. (\A i \in 1..p : s[i] = a[i]) /\ \A i \in 1..q : s[p + i] = b[i]
    BY <1>3, <1>4 DEF Follow
  <1>6. \A i \in 1..(p + q) : i \in 1..p \/ \E j \in 1..q : i = p + j
    BY <1>3, <1>4, Sides
  <1>7. ASSUME NEW i \in 1..(p + q), NEW j \in 1..(p + q), i < j PROVE s[i].step < s[j].step
    <2>1. CASE i \in 1..p /\ j \in 1..p
      <3>1. a[i].step < a[j].step
        BY <1>1, <1>4, <1>7, <2>1 DEF Ascends
      <3> QED
        BY <1>5, <2>1, <3>1
    <2>2. CASE i \in 1..p /\ \E h \in 1..q : j = p + h
      <3>1. PICK h \in 1..q : j = p + h
        BY <2>2
      <3>2. a[i].step \in StepsOf(a) /\ b[h].step \in StepsOf(b)
        BY <1>4, <2>2 DEF StepsOf
      <3>3. a[i].step < b[h].step
        BY <3>2
      <3> QED
        BY <1>5, <2>2, <3>1, <3>3
    <2>3. CASE (\E h \in 1..q : i = p + h) /\ \E h \in 1..q : j = p + h
      <3>1. PICK h, g \in 1..q : i = p + h /\ j = p + g
        BY <2>3
      <3>2. h < g
        BY <1>7, <3>1
      <3>3. b[h].step < b[g].step
        BY <1>1, <1>4, <3>2 DEF Ascends
      <3> QED
        BY <1>5, <3>1, <3>3
    <2>4. CASE (\E h \in 1..q : i = p + h) /\ j \in 1..p
      BY <1>7, <2>4
    <2> QED
      BY <1>6, <2>1, <2>2, <2>3, <2>4
  <1>8. Ascends(s)
    BY <1>4, <1>7 DEF Ascends
  <1>9. ASSUME NEW i \in 1..(p + q) PROVE \E j \in 1..Len(L) : s[i] = L[j]
    <2>1. CASE i \in 1..p
      BY <1>4, <1>5, <2>1 DEF PartOf
    <2>2. CASE \E h \in 1..q : i = p + h
      BY <1>4, <1>5, <2>2 DEF PartOf
    <2> QED
      BY <1>6, <2>1, <2>2
  <1> QED
    BY <1>2, <1>3, <1>4, <1>8, <1>9 DEF PartOf

\* Rows that ascend are merged already.
LEMMA MergeSelf ==
  ASSUME NEW s \in Seq(RowSet), Ascends(s)
  PROVE  MergeSteps(s) = s
  <1>1. PICK m, order : m = MergeSteps(s) /\ Merges(m, s, order)
    BY MergeIs
  <1>2. PICK n \in Nat : n = Len(m) /\ n = Len(order)
    BY <1>1 DEF Merges
  <1>3. /\ m \in Seq(RowSet) /\ Lists(order, StepsOf(s))
        /\ \A i \in 1..n : m[i].step = order[i] /\ \A k \in Keys : m[i].data[k] = Value(s, order[i], k)
    BY <1>1, <1>2 DEF Merges
  <1>4. ASSUME NEW i \in 1..n PROVE \E j \in 1..Len(s) : m[i] = s[j]
    <2>1. order[i] \in StepsOf(s)
      BY <1>2, <1>3 DEF Lists
    <2>2. PICK j \in 1..Len(s) : s[j].step = order[i]
      BY <2>1 DEF StepsOf
    <2>3. ASSUME NEW k \in Keys PROVE m[i].data[k] = s[j].data[k]
      <3>1. PICK v : v = s[j].data[k]
        OBVIOUS
      <3>2. \A h \in 1..Len(s) : s[h].step = order[i] => h = j
        BY <2>2, AscendsOnce
      <3>3. Valued(s, order[i], k, v)
        <4>1. CASE v = <<>>
          <5>1. Silent(s, order[i], k, 0)
            BY <3>1, <3>2, <4>1 DEF Silent
          <5> QED
            BY <4>1, <5>1 DEF Valued
        <4>2. CASE v # <<>>
          <5>1. Silent(s, order[i], k, j)
            <6>1. j \in Nat
              OBVIOUS
            <6> QED
              BY <3>2, <6>1 DEF Silent
          <5>2. GivenAt(s, order[i], k, j, v)
            BY <2>2, <3>1, <4>2, <5>1 DEF GivenAt
          <5> QED
            BY <5>2 DEF Valued
        <4> QED
          BY <4>1, <4>2
      <3>4. Value(s, order[i], k) = v
        BY <3>3, ValueOnce
      <3> QED
        BY <1>3, <3>1, <3>4
    <2>4. m[i] \in RowSet /\ s[j] \in RowSet
      BY <1>2, <1>3, StepsAre
    <2>5. m[i].step = s[j].step
      BY <1>3, <2>2
    <2>6. m[i] = s[j]
      BY <2>3, <2>4, <2>5, RowEqual
    <2> QED
      BY <2>6
  <1>5. Ascends(m) /\ StepsOf(m) = StepsOf(s)
    BY <1>1, MergedSteps
  <1>6. PartOf(m, s)
    BY <1>2, <1>3, <1>4, <1>5 DEF PartOf
  <1>7. PartOf(s, s)
    BY DEF PartOf
  <1> QED
    BY <1>1, <1>5, <1>6, <1>7, PartsEqual

\* How many of the newest rows are asked for.
Limit == Nat \cup {All}

\* The newest n of rows that ascend have the n steps written last.
LEMMA NewestIs ==
  ASSUME NEW L, NEW s, PartOf(s, L), NEW n \in Limit
  PROVE  PartOf(Newest(s, n), L) /\ StepsOf(Newest(s, n)) = LatestSteps(s, n)
  <1>1. s \in Seq(RowSet) /\ Ascends(s)
    BY DEF PartOf
  <1>2. PICK l \in Nat : l = Len(s)
    BY <1>1
  <1>3. CASE n = All
    <2>1. Newest(s, n) = s
      BY <1>3 DEF Newest
    <2> QED
      BY <1>1, <1>3, <2>1, LatestAll
  <1>4. CASE n \in Nat
    <2>1. n # All
      BY <1>4 DEF All
    <2>2. PICK j \in 1..(l + 1) : j = (IF l <= n THEN 1 ELSE l - n + 1)
      <3>1. CASE l <= n
        <4>1. 1 \in 1..(l + 1)
          OBVIOUS
        <4> QED
          BY <3>1, <4>1
      <3>2. CASE ~(l <= n)
        <4>1. l - n + 1 \in 1..(l + 1)
          BY <1>4, <3>2
        <4> QED
          BY <3>2, <4>1
      <3> QED
        BY <3>1, <3>2
    <2>3. Newest(s, n) = From(s, j)
      <3>1. CASE l <= n
        <4>1. Newest(s, n) = s
          BY <1>2, <3>1 DEF Newest
        <4>2. j = 1
          BY <2>2, <3>1
        <4> QED
          BY <1>1, <4>1, <4>2, LatestAll
      <3>2. CASE ~(l <= n)
        <4>1. Newest(s, n) = SubSeq(s, l - n + 1, l)
          BY <1>2, <2>1, <3>2 DEF Newest
        <4>2. j = l - n + 1
          BY <2>2, <3>2
        <4> QED
          BY <1>2, <4>1, <4>2 DEF From
      <3> QED
        BY <3>1, <3>2
    <2>4. StepsOf(From(s, j)) = {s[i].step : i \in j..l}
      BY <1>1, <1>2, FromIs
    <2>5. ASSUME NEW p \in 1..l PROVE Cardinality(After(s, s[p].step)) = l - p
      <3>1. ASSUME NEW i \in (p + 1)..l PROVE s[i].step # s[p].step
        <4>1. i \in 1..l /\ i # p
          OBVIOUS
        <4> QED
          BY <1>1, <1>2, <4>1, AscendsOnce
      <3>2. After(s, s[p].step) = {s[i].step : i \in (p + 1)..l}
        BY <1>1, <1>2, <3>1, AfterLast
      <3>3. PICK h \in 1..(l + 1) : h = p + 1
        OBVIOUS
      <3>4. After(s, s[p].step) = StepsOf(From(s, h))
        BY <1>1, <1>2, <3>2, <3>3, FromIs
      <3>5. PartOf(From(s, h), L) /\ Len(From(s, h)) = l + 1 - h
        BY <1>1, <1>2, FromIs, PartFrom
      <3>6. Cardinality(StepsOf(From(s, h))) = l + 1 - h
        BY <3>5, AscendsCount DEF PartOf
      <3> QED
        BY <3>3, <3>4, <3>6
    <2>6. LatestSteps(s, n) = {u \in StepsOf(s) : Cardinality(After(s, u)) < n}
      BY <1>1, <1>4, LatestIs
    <2>7. \A p \in 1..l : l - p < n <=> p \in j..l
      BY <1>4, <2>2
    <2>8. \A p \in 1..l : Cardinality(After(s, s[p].step)) < n <=> p \in j..l
      BY <2>5, <2>7
    <2>9. \A p \in j..l : p \in 1..l
      OBVIOUS
    <2>10. ASSUME NEW u \in LatestSteps(s, n) PROVE u \in StepsOf(From(s, j))
      <3>1. PICK p \in 1..l : u = s[p].step
        BY <1>2, <2>6 DEF StepsOf
      <3>2. p \in j..l
        BY <2>6, <2>8, <3>1
      <3> QED
        BY <2>4, <3>1, <3>2
    <2>11. ASSUME NEW u \in StepsOf(From(s, j)) PROVE u \in LatestSteps(s, n)
      <3>1. PICK p \in j..l : u = s[p].step
        BY <2>4
      <3>2. u \in StepsOf(s)
        BY <1>2, <2>9, <3>1 DEF StepsOf
      <3> QED
        BY <2>6, <2>8, <2>9, <3>1, <3>2
    <2> QED
      BY <1>2, <2>3, <2>10, <2>11, PartFrom
  <1> QED
    BY <1>3, <1>4 DEF Limit

-----------------------------------------------------------------------------
(* Which steps were written last, when rows are put together               *)

LEMMA AfterCount ==
  ASSUME NEW s \in Seq(RowSet), NEW u \in StepsOf(s)
  PROVE  /\ Cardinality(After(s, u)) \in Nat /\ Cardinality(StepsOf(s)) \in Nat
         /\ Cardinality(After(s, u)) + 1 <= Cardinality(StepsOf(s))
  <1>1. After(s, u) \subseteq StepsOf(s) /\ u \notin After(s, u) /\ StepsOf(s) \subseteq Steps
    BY AfterAre, StepsAre
  <1>2. PICK T : T = After(s, u) \cup {u}
    OBVIOUS
  <1>3. T \subseteq StepsOf(s)
    BY <1>1, <1>2
  <1>4. PICK c, d, e \in Nat : c = Cardinality(After(s, u)) /\ d = Cardinality(StepsOf(s)) /\ e = Cardinality(T)
    BY <1>1, <1>3, StepsFinite
  <1>5. e = c + 1
    BY <1>1, <1>2, <1>4, StepsFinite, FS_AddElement
  <1>6. e <= d
    BY <1>1, <1>3, <1>4, Smaller
  <1> QED
    BY <1>4, <1>5, <1>6

LEMMA LatestSmall ==
  ASSUME NEW s \in Seq(RowSet), NEW n \in Nat, Cardinality(StepsOf(s)) <= n
  PROVE  LatestSteps(s, n) = StepsOf(s)
  <1>1. ASSUME NEW u \in StepsOf(s) PROVE Cardinality(After(s, u)) < n
    <2>1. PICK c, d \in Nat : c = Cardinality(After(s, u)) /\ d = Cardinality(StepsOf(s)) /\ c + 1 <= d
      BY AfterCount
    <2> QED
      BY <2>1
  <1> QED
    BY <1>1, LatestIs

LEMMA LatestTail ==
  ASSUME NEW a \in Seq(RowSet), NEW b \in Seq(RowSet), NEW n \in Nat, Cardinality(StepsOf(b)) >= n
  PROVE  LatestSteps(a \o b, n) = LatestSteps(b, n)
  <1>1. PICK s : s = a \o b
    OBVIOUS
  <1>2. s \in Seq(RowSet) /\ StepsOf(s) = StepsOf(a) \cup StepsOf(b)
    BY <1>1, Joined, StepsConcat
  <1>3. ASSUME NEW u \in StepsOf(b) PROVE After(s, u) = After(b, u)
    BY <1>1, AfterConcat
  <1>4. ASSUME NEW u \in StepsOf(s), u \notin StepsOf(b) PROVE ~(Cardinality(After(s, u)) < n)
    <2>1. After(s, u) = After(a, u) \cup StepsOf(b)
      BY <1>1, <1>4, AfterConcat
    <2>2. StepsOf(b) \subseteq After(s, u) /\ After(s, u) \subseteq Steps
      BY <1>2, <2>1, AfterAre, StepsAre
    <2>3. PICK c, d \in Nat : c = Cardinality(After(s, u)) /\ d = Cardinality(StepsOf(b)) /\ d <= c
      BY <2>2, Smaller
    <2> QED
      BY <2>3
  <1>5. LatestSteps(s, n) = {u \in StepsOf(s) : Cardinality(After(s, u)) < n}
    BY <1>2, LatestIs
  <1>6. LatestSteps(b, n) = {u \in StepsOf(b) : Cardinality(After(b, u)) < n}
    BY LatestIs
  <1>7. \A u : u \in LatestSteps(s, n) <=> u \in LatestSteps(b, n)
    BY <1>2, <1>3, <1>4, <1>5, <1>6
  <1> QED
    BY <1>1, <1>7

\* Rows whose steps come again do not count.
LEMMA LatestSkip ==
  ASSUME NEW a \in Seq(RowSet), NEW e \in Seq(RowSet), NEW b \in Seq(RowSet),
         StepsOf(e) \subseteq StepsOf(b), NEW n \in Limit
  PROVE  LatestSteps((a \o e) \o b, n) = LatestSteps(a \o b, n)
  <1>1. PICK x, s, t : x = a \o e /\ s = x \o b /\ t = a \o b
    OBVIOUS
  <1>2. x \in Seq(RowSet) /\ s \in Seq(RowSet) /\ t \in Seq(RowSet)
    BY <1>1, Joined
  <1>3. StepsOf(s) = StepsOf(t)
    <2>1. StepsOf(x) = StepsOf(a) \cup StepsOf(e)
      BY <1>1, StepsConcat
    <2>2. StepsOf(s) = StepsOf(x) \cup StepsOf(b)
      BY <1>1, <1>2, StepsConcat
    <2>3. StepsOf(t) = StepsOf(a) \cup StepsOf(b)
      BY <1>1, StepsConcat
    <2> QED
      BY <2>1, <2>2, <2>3
  <1>4. CASE n = All
    BY <1>1, <1>2, <1>3, <1>4, LatestAll
  <1>5. CASE n \in Nat
    <2>1. ASSUME NEW u PROVE After(s, u) = After(t, u)
      <3>1. CASE u \in StepsOf(b)
        <4>1. After(s, u) = After(b, u)
          BY <1>1, <1>2, <3>1, AfterConcat
        <4>2. After(t, u) = After(b, u)
          BY <1>1, <3>1, AfterConcat
        <4> QED
          BY <4>1, <4>2
      <3>2. CASE u \notin StepsOf(b)
        <4>1. After(s, u) = After(x, u) \cup StepsOf(b)
          BY <1>1, <1>2, <3>2, AfterConcat
        <4>2. After(x, u) = After(a, u) \cup StepsOf(e)
          BY <1>1, <3>2, AfterConcat
        <4>3. After(t, u) = After(a, u) \cup StepsOf(b)
          BY <1>1, <3>2, AfterConcat
        <4> QED
          BY <4>1, <4>2, <4>3
      <3> QED
        BY <3>1, <3>2
    <2>2. LatestSteps(s, n) = {u \in StepsOf(s) : Cardinality(After(s, u)) < n}
      BY <1>2, <1>5, LatestIs
    <2>3. LatestSteps(t, n) = {u \in StepsOf(t) : Cardinality(After(t, u)) < n}
      BY <1>2, <1>5, LatestIs
    <2>4. LatestSteps(s, n) = LatestSteps(t, n)
      BY <1>3, <2>1, <2>2, <2>3
    <2> QED
      BY <1>1, <2>4
  <1> QED
    BY <1>4, <1>5 DEF Limit

-----------------------------------------------------------------------------
(* What a query reads                                                      *)

Ordinals == 1..Len(rows)

LEMMA RowsOfOrdinals ==
  ASSUME Base, NEW o \in Seq(Ordinals)
  PROVE  /\ Rows(o) \in Seq(RowSet) /\ Len(Rows(o)) = Len(o)
         /\ \A i \in 1..Len(o) : Rows(o)[i] = rows[o[i]] /\ o[i] \in Ordinals
  <1>1. PICK n \in Nat : n = Len(o)
    OBVIOUS
  <1>2. PICK x : x = Rows(o)
    OBVIOUS
  <1>3. x = [i \in 1..n |-> rows[o[i]]]
    BY <1>1, <1>2 DEF Rows
  <1>4. rows \in Seq(RowSet)
    BY DEF Base, StoreTypes
  <1>5. \A i \in 1..n : o[i] \in Ordinals /\ rows[o[i]] \in RowSet
    BY <1>1, <1>4 DEF Ordinals
  <1> QED
    BY <1>1, <1>2, <1>3, <1>5

LEMMA RowsConcat ==
  ASSUME Base, NEW a \in Seq(Ordinals), NEW b \in Seq(Ordinals)
  PROVE  Rows(a \o b) = Rows(a) \o Rows(b)
  <1>1. PICK s, x, y : s = a \o b /\ x = Rows(a) /\ y = Rows(b)
    OBVIOUS
  <1>2. s \in Seq(Ordinals) /\ Follow(s, a, b)
    BY <1>1, Joined
  <1>3. /\ x \in Seq(RowSet) /\ Len(x) = Len(a) /\ \A i \in 1..Len(a) : x[i] = rows[a[i]]
        /\ y \in Seq(RowSet) /\ Len(y) = Len(b) /\ \A i \in 1..Len(b) : y[i] = rows[b[i]]
    BY <1>1, RowsOfOrdinals
  <1>4. PICK z, w : z = Rows(s) /\ w = x \o y
    OBVIOUS
  <1>5. z \in Seq(RowSet) /\ Len(z) = Len(s) /\ \A i \in 1..Len(s) : z[i] = rows[s[i]]
    BY <1>2, <1>4, RowsOfOrdinals
  <1>6. w \in Seq(RowSet) /\ Follow(w, x, y)
    BY <1>3, <1>4, Joined
  <1>7. Len(z) = Len(w)
    BY <1>2, <1>3, <1>5, <1>6 DEF Follow
  <1>8. ASSUME NEW i \in 1..Len(s) PROVE z[i] = w[i]
    <2>1. CASE i \in 1..Len(a)
      <3>1. s[i] = a[i] /\ w[i] = x[i]
        BY <1>2, <1>3, <1>6, <2>1 DEF Follow
      <3> QED
        BY <1>3, <1>5, <2>1, <3>1
    <2>2. CASE \E j \in 1..Len(b) : i = Len(a) + j
      <3>1. PICK j \in 1..Len(b) : i = Len(a) + j
        BY <2>2
      <3>2. s[i] = b[j] /\ w[i] = y[j]
        BY <1>2, <1>3, <1>6, <3>1 DEF Follow
      <3> QED
        BY <1>3, <1>5, <3>1, <3>2
    <2> QED
      BY <1>2, <2>1, <2>2, Sides
  <1>9. z = w
    BY <1>5, <1>6, <1>7, <1>8, SeqEqual
  <1> QED
    BY <1>1, <1>4, <1>9

\* The first ordinal in the cache.
Edge == row - Len(cache)

LEMMA CacheIs ==
  ASSUME Base
  PROVE  /\ Len(cache) \in Nat /\ Edge \in Nat \ {0} /\ row = Edge + Len(cache) /\ row \in Nat
         /\ cache \in Seq(Ordinals) /\ Boundary = Edge
         /\ \A i \in 1..Len(cache) : cache[i] = Edge + i - 1
         /\ \A x \in Edge..(row - 1) : \E i \in 1..Len(cache) : cache[i] = x
         /\ row - 1 <= Len(rows) /\ Len(rows) \in Nat
  <1>1. /\ cache \in Seq(Nat) /\ row \in Nat \ {0} /\ Len(cache) < row
        /\ \A i \in 1..Len(cache) : cache[i] = row - Len(cache) + i - 1
    BY DEF Base, IInv, CacheInv, CacheShape, NothingVanishes
  <1>2. PICK c, f \in Nat : c = Len(cache) /\ f = Edge /\ f # 0 /\ row = f + c
    <2>1. Len(cache) \in Nat
      BY <1>1
    <2>2. row - Len(cache) \in Nat /\ row - Len(cache) # 0 /\ row = (row - Len(cache)) + Len(cache)
      BY <1>1, <2>1
    <2> QED
      BY <2>1, <2>2 DEF Edge
  <1>3. \A i \in 1..c : cache[i] = f + i - 1
    BY <1>1, <1>2 DEF Edge
  <1>4. row - 1 <= Len(rows) /\ Len(rows) \in Nat
    <2>1. Len(rows) = IF txn = "publish" THEN row ELSE row - 1
      BY Numbers
    <2> QED
      BY <1>1, <2>1
  <1>5. cache \in Seq(Ordinals)
    <2>1. ASSUME NEW i \in 1..c PROVE cache[i] \in Ordinals
      <3>1. PICK x \in Nat : x = cache[i] /\ x = f + i - 1
        BY <1>2, <1>3
      <3>2. PICK n, r \in Nat : n = Len(rows) /\ r = row
        BY <1>1, <1>4
      <3>3. r = f + c /\ r - 1 <= n /\ f # 0 /\ x = f + i - 1
        BY <1>2, <1>4, <3>1, <3>2, Zenon
      <3>4. x \in 1..n
        BY <3>3
      <3> QED
        BY <3>1, <3>2, <3>4 DEF Ordinals
    <2> QED
      BY <1>1, <1>2, <2>1
  <1>6. Boundary = f
    <2>1. CASE cache = <<>>
      <3>1. c = 0
        BY <1>2, <2>1
      <3> QED
        BY <1>2, <2>1, <3>1 DEF Boundary
    <2>2. CASE cache # <<>>
      <3>1. Head(cache) = cache[1] /\ 1 \in 1..c
        BY <1>1, <1>2, <2>2
      <3> QED
        BY <1>2, <1>3, <2>2, <3>1 DEF Boundary
    <2> QED
      BY <2>1, <2>2
  <1>7. \A x \in f..(row - 1) : \E i \in 1..c : cache[i] = x
    <2>1. ASSUME NEW x \in f..(row - 1) PROVE \E i \in 1..c : cache[i] = x
      <3>1. PICK i \in 1..c : x = f + i - 1
        <4>1. PICK r \in Nat : r = row
          BY <1>1
        <4>2. r = f + c /\ x \in f..(r - 1)
          BY <1>2, <4>1, Zenon
        <4>3. x - f + 1 \in 1..c /\ x = f + (x - f + 1) - 1
          BY <4>2
        <4> QED
          BY <4>3
      <3> QED
        BY <1>3, <3>1
    <2> QED
      BY <2>1
  <1>8. Edge \in Nat \ {0} /\ row = Edge + Len(cache) /\ Len(cache) \in Nat
    BY <1>2
  <1> QED
    BY <1>1, <1>2, <1>3, <1>4, <1>5, <1>6, <1>7, <1>8, Zenon

LEMMA StoredIs ==
  ASSUME Base
  PROVE  /\ stored \in Seq(Ordinals) /\ stored \in Seq(Nat) /\ Len(stored) \in Nat
         /\ pending \in Seq(Nat)
         /\ \A i, j \in 1..Len(stored) : i < j => stored[i] < stored[j]
         /\ \A i \in 1..Len(stored) : stored[i] \in Nat /\ stored[i] >= 1 /\ stored[i] <= row
         /\ Range(stored) = {stored[k] : k \in 1..Len(stored)}
  <1>1. /\ stored \in Seq(Nat) /\ next \in Nat \ {0} /\ pending \in Seq(Nat)
        /\ \A k \in 1..Len(stored) : stored[k] < next
    BY DEF Base, IInv, LogInv, LogShape, LogOrder
  <1>2. /\ \A i, j \in 1..Len(stored) : i < j => stored[i] < stored[j]
        /\ \A i \in 1..Len(stored) : stored[i] >= 1
        /\ Len(rows) = next - 1
    BY DEF Base, FileInv
  <1>3. PICK r, m \in Nat : r = row /\ m = next /\ m <= r + 1
    <2>1. row \in Nat
      BY CacheIs
    <2>2. next = IF txn = "publish" THEN row + 1 ELSE row
      BY DEF Base, IInv, Link
    <2> QED
      BY <1>1, <2>1, <2>2
  <1>4. ASSUME NEW i \in 1..Len(stored)
        PROVE  stored[i] \in Nat /\ stored[i] >= 1 /\ stored[i] <= row /\ stored[i] \in Ordinals
    <2>1. PICK x \in Nat : x = stored[i]
      BY <1>1
    <2>2. x < m /\ x >= 1
      BY <1>1, <1>2, <1>3, <2>1, Zenon
    <2>3. x <= r /\ x \in 1..(m - 1)
      BY <1>3, <2>2
    <2>4. Ordinals = 1..(m - 1)
      BY <1>2, <1>3, Zenon DEF Ordinals
    <2> QED
      BY <1>3, <2>1, <2>2, <2>3, <2>4, Zenon
  <1>5. stored \in Seq(Ordinals)
    <2>1. \A i \in 1..Len(stored) : stored[i] \in Ordinals
      BY <1>4
    <2> QED
      BY <1>1, <2>1
  <1>6. Range(stored) = {stored[k] : k \in 1..Len(stored)}
    BY StoredRange DEF Base, IInv, LogInv
  <1>7. Len(stored) \in Nat
    BY <1>1
  <1> QED
    BY <1>1, <1>2, <1>4, <1>5, <1>6, <1>7, Zenon

\* Lines up to d are in front of the cache, those behind it are not.
Divides(d) ==
    /\ d \in 0..Len(stored)
    /\ \A i \in 1..d : stored[i] < Edge
    /\ \A i \in (d + 1)..Len(stored) : stored[i] >= Edge

LEMMA Division ==
  ASSUME Base
  PROVE  \E d \in Nat : Divides(d)
  <1>1. PICK p \in Nat : p = Len(stored)
    BY StoredIs
  <1>2. PICK T : T = {i \in 0..p : \A j \in 1..i : stored[j] < Edge}
    OBVIOUS
  <1>3. 0 \in T /\ T \subseteq 0..p
    <2>1. 0 \in 0..p /\ \A j \in 1..0 : stored[j] < Edge
      OBVIOUS
    <2> QED
      BY <1>2, <2>1
  <1>4. PICK d \in T : \A x \in T : x <= d
    BY <1>3, Greatest
  <1>5. d \in 0..p /\ d \in Nat /\ \A i \in 1..d : stored[i] < Edge
    BY <1>2, <1>4
  <1>6. ASSUME NEW i \in (d + 1)..p PROVE stored[i] >= Edge
    <2>1. PICK e : e = d + 1
      OBVIOUS
    <2>2. e \in 0..p /\ e \in 1..p /\ i \in 1..p /\ e <= i /\ ~(e <= d)
      BY <1>5, <2>1
    <2>3. e \notin T
      BY <1>4, <2>2
    <2>4. ~(stored[e] < Edge)
      <3>1. ASSUME stored[e] < Edge, NEW j \in 1..e PROVE stored[j] < Edge
        <4>1. j = e \/ j \in 1..d
          BY <1>5, <2>1
        <4> QED
          BY <1>5, <3>1, <4>1
      <3> QED
        BY <1>2, <2>2, <2>3, <3>1
    <2>5. PICK x, y, f \in Nat : x = stored[e] /\ y = stored[i] /\ f = Edge
      BY <1>1, <2>2, StoredIs, CacheIs
    <2>6. x = y \/ x < y
      <3>1. CASE e = i
        BY <2>5, <3>1
      <3>2. CASE e # i
        <4>1. e < i
          BY <2>2, <3>2
        <4> QED
          BY <1>1, <2>2, <2>5, <4>1, StoredIs
      <3> QED
        BY <3>1, <3>2
    <2> QED
      BY <2>4, <2>5, <2>6
  <1> QED
    BY <1>1, <1>5, <1>6 DEF Divides

\* What can be known: the lines in front of the cache, and the cache.
LEMMA KnownIs ==
  ASSUME Base, NEW d \in Nat, Divides(d)
  PROVE  /\ SubSeq(stored, 1, d) \in Seq(Ordinals)
         /\ Known = SubSeq(stored, 1, d) \o cache
         /\ Lists(Known, {i \in 1..(row - 1) : i \in Range(stored) \cup Range(cache)})
  <1>1. PICK p, c, f \in Nat : p = Len(stored) /\ c = Len(cache) /\ f = Edge /\ f # 0 /\ row = f + c
    BY StoredIs, CacheIs
  <1>2. /\ d \in 0..p /\ (\A i \in 1..d : stored[i] < f)
        /\ \A i \in (d + 1)..p : stored[i] >= f
    BY <1>1 DEF Divides
  <1>3. PICK a : a = SubSeq(stored, 1, d)
    OBVIOUS
  <1>4. a \in Seq(Ordinals) /\ Len(a) = d /\ \A i \in 1..d : a[i] = stored[i]
    BY <1>1, <1>2, <1>3, StoredIs, CutTo
  <1>5. cache \in Seq(Ordinals) /\ \A i \in 1..c : cache[i] = f + i - 1
    BY <1>1, CacheIs
  <1>6. PICK t : t = a \o cache
    OBVIOUS
  <1>7. t \in Seq(Ordinals) /\ Follow(t, a, cache)
    BY <1>4, <1>5, <1>6, Joined
  <1>8. /\ Len(t) = d + c /\ (\A i \in 1..d : t[i] = stored[i])
        /\ \A i \in 1..c : t[d + i] = f + i - 1
    BY <1>1, <1>4, <1>5, <1>7 DEF Follow
  <1>9. \A i \in 1..(d + c) : i \in 1..d \/ \E j \in 1..c : i = d + j
    BY <1>1, <1>4, <1>7, <1>8, Sides
  <1>10. t \in Seq(Nat)
    BY <1>7, CacheIs DEF Ordinals
  <1>11. \A i \in 1..d : i \in 1..p /\ stored[i] \in Nat /\ stored[i] >= 1 /\ stored[i] < f
    BY <1>1, <1>2, StoredIs
  <1>12. ASSUME NEW i \in 1..(d + c), NEW j \in 1..(d + c), i < j PROVE t[i] < t[j]
    <2>1. CASE i \in 1..d /\ j \in 1..d
      <3>1. stored[i] < stored[j]
        BY <1>1, <1>11, <1>12, <2>1, StoredIs
      <3> QED
        BY <1>8, <2>1, <3>1
    <2>2. CASE i \in 1..d /\ \E h \in 1..c : j = d + h
      <3>1. PICK h \in 1..c : j = d + h
        BY <2>2
      <3>2. PICK x \in Nat : x = stored[i] /\ x < f
        BY <1>11, <2>2
      <3>3. t[i] = x /\ t[j] = f + h - 1
        BY <1>8, <2>2, <3>1, <3>2
      <3>4. x < f + h - 1
        BY <3>2
      <3> QED
        BY <3>3, <3>4
    <2>3. CASE (\E h \in 1..c : i = d + h) /\ \E h \in 1..c : j = d + h
      <3>1. PICK h, g \in 1..c : i = d + h /\ j = d + g
        BY <2>3
      <3>2. f + h - 1 < f + g - 1
        BY <1>12, <3>1
      <3> QED
        BY <1>8, <3>1, <3>2
    <2>4. CASE (\E h \in 1..c : i = d + h) /\ j \in 1..d
      BY <1>12, <2>4
    <2> QED
      BY <1>9, <2>1, <2>2, <2>3, <2>4
  <1>13. PICK K : K = {i \in 1..(row - 1) : i \in Range(stored) \cup Range(cache)}
    OBVIOUS
  <1>14. /\ Range(stored) = {stored[k] : k \in 1..p}
         /\ Range(cache) = {cache[k] : k \in 1..c}
    <2>1. DOMAIN cache = 1..c
      BY <1>1, <1>5
    <2> QED
      BY <1>1, <2>1, StoredIs, Zenon DEF Range
  <1>15. ASSUME NEW i \in 1..(d + c) PROVE t[i] \in K
    <2>1. CASE i \in 1..d
      <3>1. PICK x \in Nat : x = stored[i] /\ x >= 1 /\ x < f /\ i \in 1..p
        BY <1>11, <2>1
      <3>2. x \in 1..(row - 1)
        <4>1. x \in 1..(f + c - 1)
          BY <3>1
        <4>2. row = f + c
          BY <1>1
        <4> QED
          BY <4>1, <4>2
      <3>3. x \in Range(stored)
        BY <1>14, <3>1
      <3> QED
        BY <1>8, <1>13, <2>1, <3>1, <3>2, <3>3
    <2>2. CASE \E h \in 1..c : i = d + h
      <3>1. PICK h \in 1..c : i = d + h
        BY <2>2
      <3>2. PICK x : x = f + h - 1
        OBVIOUS
      <3>3. x \in 1..(row - 1)
        <4>1. f # 0
          BY <1>1
        <4>2. x \in 1..(f + c - 1)
          BY <3>2, <4>1
        <4>3. row = f + c
          BY <1>1
        <4> QED
          BY <4>2, <4>3
      <3>4. x \in Range(cache)
        BY <1>5, <1>14, <3>2
      <3> QED
        BY <1>8, <1>13, <3>1, <3>2, <3>3, <3>4
    <2> QED
      BY <1>9, <2>1, <2>2
  <1>16. ASSUME NEW x \in K PROVE \E i \in 1..(d + c) : t[i] = x
    <2>1. x \in 1..(row - 1) /\ (x \in Range(stored) \/ x \in Range(cache))
      BY <1>13
    <2>2. ASSUME NEW h \in 1..c, cache[h] = x PROVE \E i \in 1..(d + c) : t[i] = x
      <3>1. t[d + h] = x
        BY <1>5, <1>8, <2>2
      <3>2. d + h \in 1..(d + c)
        OBVIOUS
      <3> QED
        BY <3>1, <3>2
    <2>3. CASE x \in Range(cache)
      BY <1>14, <2>2, <2>3
    <2>4. CASE x \in Range(stored)
      <3>1. PICK k \in 1..p : x = stored[k]
        BY <1>14, <2>4
      <3>2. CASE k <= d
        <4>1. k \in 1..d /\ k \in 1..(d + c)
          BY <3>2
        <4> QED
          BY <1>8, <3>1, <4>1
      <3>3. CASE k > d
        <4>1. k \in (d + 1)..p
          BY <3>3
        <4>2. x >= f
          BY <1>2, <3>1, <4>1
        <4>3. x \in Edge..(row - 1)
          BY <1>1, <2>1, <4>2
        <4>4. PICK h \in 1..c : cache[h] = x
          BY <1>1, <4>3, CacheIs
        <4> QED
          BY <2>2, <4>4
      <3> QED
        BY <3>2, <3>3
    <2> QED
      BY <2>1, <2>3, <2>4
  <1>17. Lists(t, K)
    BY <1>8, <1>10, <1>12, <1>15, <1>16 DEF Lists, Rises
  <1>18. PICK top \in Nat : K \subseteq 0..top
    <2>1. PICK r \in Nat : r = row
      BY CacheIs
    <2>2. \A x \in K : x \in 1..(r - 1)
      BY <1>13, <2>1, Zenon
    <2>3. \A x \in 1..(r - 1) : x \in 0..r
      OBVIOUS
    <2> QED
      BY <2>2, <2>3
  <1>19. Known = t
    <2>1. InOrder(K) = t
      BY <1>17, <1>18, InOrderIs
    <2> QED
      BY <1>13, <2>1, Zenon DEF Known
  <1> QED
    BY <1>3, <1>4, <1>6, <1>13, <1>17, <1>19, Zenon

\* What a query reads of the file: the lines in front of the cache and, once
\* lines and ordinals have drifted apart, lines that the cache holds as well.
LEMMA DiskIs ==
  ASSUME Base, Lines, ~Drifting, NEW d \in Nat, Divides(d)
  PROVE  \E e \in Seq(Ordinals) :
           /\ \A file \in {stored, stored \o pending} :
                DiskLines(file) = Rows(SubSeq(stored, 1, d) \o e)
           /\ \A i \in 1..Len(e) : \E j \in 1..Len(cache) : e[i] = cache[j]
           /\ ~dropped => Len(e) = 0
  <1>1. PICK p, f, r \in Nat : p = Len(stored) /\ f = Edge /\ f # 0 /\ r = row
    BY StoredIs, CacheIs
  <1>2. /\ d \in 0..p /\ (\A i \in 1..d : stored[i] < f)
        /\ \A i \in (d + 1)..p : stored[i] >= f
    BY <1>1 DEF Divides
  <1>3. stored \in Seq(Ordinals) /\ stored \in Seq(Nat) /\ pending \in Seq(Nat)
    BY StoredIs
  <1>4. PICK stop : stop = IF dropped \/ Boundary > Len(stored) THEN Len(stored) ELSE Boundary - 1
    OBVIOUS
  <1>5. stop = IF dropped \/ f > p THEN p ELSE f - 1
    BY <1>1, <1>4, CacheIs
  <1>6. stop \in 0..p
    BY <1>1, <1>5
  <1>7. ~dropped => stop = d
    <2> SUFFICES ASSUME ~dropped PROVE stop = d
      OBVIOUS
    <2>1. \A i \in 1..p : stored[i] = i
      BY <1>1 DEF Lines
    <2>2. CASE f > p
      <3>1. stop = p
        BY <1>5, <2>2
      <3>2. ASSUME d < p PROVE FALSE
        <4>1. p \in (d + 1)..p /\ p \in 1..p
          BY <1>2, <3>2
        <4>2. stored[p] >= f /\ stored[p] = p
          BY <1>2, <2>1, <4>1
        <4> QED
          BY <2>2, <4>2
      <3> QED
        BY <1>2, <3>1, <3>2
    <2>3. CASE ~(f > p)
      <3>1. stop = f - 1
        BY <1>5, <2>3
      <3>2. ASSUME d > f - 1 PROVE FALSE
        <4>1. d \in 1..d /\ d \in 1..p
          BY <1>1, <1>2, <3>2
        <4>2. stored[d] < f /\ stored[d] = d
          BY <1>2, <2>1, <4>1
        <4> QED
          BY <3>2, <4>2
      <3>3. ASSUME d < f - 1 PROVE FALSE
        <4>1. PICK g : g = d + 1
          OBVIOUS
        <4>2. g \in (d + 1)..p /\ g \in 1..p /\ g < f
          BY <1>2, <2>3, <3>3, <4>1
        <4>3. stored[g] >= f /\ stored[g] = g
          BY <1>2, <2>1, <4>2
        <4> QED
          BY <4>2, <4>3
      <3> QED
        BY <3>1, <3>2, <3>3
    <2> QED
      BY <2>2, <2>3
  <1>8. d <= stop
    <2>1. CASE dropped
      <3>1. stop = p
        BY <1>5, <2>1
      <3> QED
        BY <1>2, <3>1
    <2>2. CASE ~dropped
      BY <1>7, <2>2
    <2> QED
      BY <2>1, <2>2
  <1>9. PICK b : b = SubSeq(stored, 1, stop)
    OBVIOUS
  <1>10. b \in Seq(Ordinals) /\ Len(b) = stop /\ \A i \in 1..stop : b[i] = stored[i]
    BY <1>1, <1>3, <1>6, <1>9, CutTo
  <1>11. PICK a, e : a = SubSeq(stored, 1, d) /\ e = SubSeq(b, d + 1, stop)
    OBVIOUS
  <1>12. a \in Seq(Ordinals) /\ Len(a) = d /\ \A i \in 1..d : a[i] = stored[i]
    BY <1>1, <1>2, <1>3, <1>11, CutTo
  <1>13. e \in Seq(Ordinals) /\ Len(e) = stop - d /\ \A i \in 1..(stop - d) : e[i] = b[d + i]
    <2>1. d \in 0..Len(b)
      BY <1>6, <1>8, <1>10
    <2> QED
      BY <1>10, <1>11, <2>1, CutFrom
  <1>14. b = a \o e
    <2>1. PICK s : s = a \o e
      OBVIOUS
    <2>2. s \in Seq(Ordinals) /\ Follow(s, a, e)
      BY <1>12, <1>13, <2>1, Joined
    <2>3. Len(s) = stop /\ (\A i \in 1..d : s[i] = a[i]) /\ \A i \in 1..(stop - d) : s[d + i] = e[i]
      <3>1. Len(s) = d + (stop - d)
        BY <1>12, <1>13, <2>2 DEF Follow
      <3>2. d + (stop - d) = stop
        BY <1>6
      <3> QED
        BY <1>12, <1>13, <2>2, <3>1, <3>2 DEF Follow
    <2>4. ASSUME NEW i \in 1..stop PROVE b[i] = s[i]
      <3>1. CASE i <= d
        <4>1. i \in 1..d
          BY <3>1
        <4> QED
          BY <1>10, <1>12, <2>3, <4>1
      <3>2. CASE i > d
        <4>1. PICK h \in 1..(stop - d) : i = d + h
          <5>1. i - d \in 1..(stop - d) /\ i = d + (i - d)
            BY <1>6, <3>2
          <5> QED
            BY <5>1
        <4> QED
          BY <1>13, <2>3, <4>1
      <3> QED
        BY <1>6, <3>1, <3>2
    <2>5. b = s
      BY <1>10, <2>2, <2>3, <2>4, SeqEqual
    <2> QED
      BY <2>1, <2>5
  <1>15. ASSUME NEW file \in {stored, stored \o pending} PROVE DiskLines(file) = Rows(b)
    <2>1. PICK w : w = SubSeq(file, 1, stop)
      OBVIOUS
    <2>2. file \in Seq(Nat) /\ stop \in 0..Len(file) /\ \A i \in 1..stop : file[i] = stored[i]
      <3>1. CASE file = stored
        BY <1>1, <1>3, <1>6, <3>1
      <3>2. CASE file = stored \o pending
        <4>1. file \in Seq(Nat) /\ Follow(file, stored, pending)
          BY <1>3, <3>2, Joined
        <4>2. PICK q \in Nat : q = Len(pending) /\ Len(file) = p + q
          BY <1>1, <4>1 DEF Follow
        <4>3. stop \in 0..(p + q)
          BY <1>6
        <4>4. \A i \in 1..stop : i \in 1..p
          BY <1>6
        <4>5. \A i \in 1..p : file[i] = stored[i]
          BY <1>1, <4>1 DEF Follow
        <4> QED
          BY <4>1, <4>2, <4>3, <4>4, <4>5
      <3> QED
        BY <3>1, <3>2
    <2>3. w \in Seq(Nat) /\ Len(w) = stop /\ \A i \in 1..stop : w[i] = file[i]
      BY <2>1, <2>2, CutTo
    <2>4. b \in Seq(Nat)
      BY <1>10, CacheIs DEF Ordinals
    <2>5. w = b
      BY <1>10, <2>2, <2>3, <2>4, SeqEqual
    <2>6. DiskLines(file) = Rows(SubSeq(file, 1, stop))
      BY <1>4, Zenon DEF DiskLines
    <2> QED
      BY <2>1, <2>5, <2>6
  <1>16. ASSUME NEW i \in 1..Len(e) PROVE \E j \in 1..Len(cache) : e[i] = cache[j]
    <2>1. CASE ~dropped
      <3>1. Len(e) = 0
        BY <1>7, <1>13, <2>1
      <3> QED
        BY <3>1
    <2>2. CASE dropped
      <3>1. stop = p
        BY <1>5, <2>2
      <3>2. PICK g : g = d + i
        OBVIOUS
      <3>3. g \in (d + 1)..p /\ g \in 1..p /\ g \in 1..stop /\ i \in 1..(stop - d)
        <4>1. i \in 1..(p - d)
          BY <1>13, <3>1
        <4> QED
          BY <1>2, <3>1, <3>2, <4>1
      <3>4. e[i] = stored[g]
        BY <1>10, <1>13, <3>2, <3>3
      <3>5. PICK x \in Nat : x = stored[g]
        BY <1>1, <3>3, StoredIs
      <3>6. x >= f /\ x <= r
        BY <1>1, <1>2, <3>3, <3>5, StoredIs
      <3>7. x # r
        <4>1. x \in Range(stored)
          BY <1>1, <3>3, <3>5, StoredIs
        <4> QED
          BY <1>1, <2>2, <4>1 DEF Drifting
      <3>8. x \in f..(r - 1)
        BY <3>6, <3>7
      <3>9. PICK j \in 1..Len(cache) : cache[j] = x
        BY <1>1, <3>8, CacheIs
      <3> QED
        BY <3>4, <3>5, <3>9
    <2> QED
      BY <2>1, <2>2
  <1>17. ~dropped => Len(e) = 0
    BY <1>7, <1>13
  <1>18. \A file \in {stored, stored \o pending} : DiskLines(file) = Rows(SubSeq(stored, 1, d) \o e)
    BY <1>11, <1>14, <1>15
  <1> QED
    BY <1>13, <1>16, <1>17, <1>18

LEMMA PublishedAscend ==
  ASSUME Base, Emit, ~merge
  PROVE  /\ \A i, j \in 1..(row - 1) : i < j => rows[i].step < rows[j].step
         /\ \A i \in 1..(row - 1) : rows[i].step <= emitted
  <1>1. PICK n \in Nat : n = row - 1
    BY Numbers
  <1>2. \A i \in 1..n : rows[i].step \in Int
    <2>1. \A i \in 1..n : i \in 1..Len(rows)
      <3>1. PICK m \in Nat : m = Len(rows) /\ n <= m
        BY <1>1, CacheIs
      <3>2. \A i \in 1..n : i \in 1..m
        BY <3>1
      <3> QED
        BY <3>1, <3>2
    <2> QED
      BY <2>1, Numbers
  <1>3. \A i \in 1..(n - 1) : rows[i].step < rows[i + 1].step
    <2>1. row - 2 = n - 1
      BY <1>1, Numbers
    <2> QED
      BY <2>1 DEF Emit
  <1> DEFINE T == {j \in Nat : \A i \in 1..n : i < j /\ j <= n => rows[i].step < rows[j].step}
  <1>4. 0 \in T
    OBVIOUS
  <1>5. ASSUME NEW j \in Nat, j \in T PROVE j + 1 \in T
    <2>1. SUFFICES ASSUME NEW i \in 1..n, i < j + 1, j + 1 <= n PROVE rows[i].step < rows[j + 1].step
      OBVIOUS
    <2>2. PICK k : k = j + 1
      OBVIOUS
    <2>3. j \in 1..(n - 1) /\ j \in 1..n /\ k \in 1..n
      BY <2>1, <2>2
    <2>4. PICK a, b, c \in Int : a = rows[i].step /\ b = rows[j].step /\ c = rows[k].step
      BY <1>2, <2>1, <2>3
    <2>5. b < c
      BY <1>3, <2>2, <2>3, <2>4
    <2>6. i = j \/ i < j
      BY <2>1
    <2>7. a = b \/ a < b
      BY <1>5, <2>1, <2>3, <2>4, <2>6
    <2>8. a < c
      BY <2>5, <2>7
    <2> QED
      BY <2>2, <2>4, <2>8
  <1>6. Nat \subseteq T
    <2> HIDE DEF T
    <2> QED
      BY <1>4, <1>5, Inductive
  <1>7. \A i, j \in 1..n : i < j => rows[i].step < rows[j].step
    BY <1>6
  <1>8. ASSUME NEW i \in 1..n PROVE rows[i].step <= emitted
    <2>1. n \in 1..n
      OBVIOUS
    <2>2. PICK a, b, e \in Int : a = rows[i].step /\ b = rows[n].step /\ e = emitted
      BY <1>2, <2>1, Numbers
    <2>3. b <= e
      <3>1. row > 1 /\ row - 1 = n
        BY <1>1, Numbers
      <3>2. rows[row - 1].step <= emitted
        BY <3>1 DEF Emit
      <3> QED
        BY <2>2, <3>1, <3>2
    <2>4. a = b \/ a < b
      <3>1. CASE i = n
        BY <2>2, <3>1
      <3>2. CASE i # n
        <4>1. i < n
          BY <3>2
        <4> QED
          BY <1>7, <2>1, <2>2, <4>1
      <3> QED
        BY <3>1, <3>2
    <2>5. a <= e
      BY <2>3, <2>4
    <2> QED
      BY <2>2, <2>5
  <1> QED
    BY <1>1, <1>7, <1>8

\* Each row of E is one of C.
Among(E, C) == \A i \in 1..Len(E) : \E j \in 1..Len(C) : E[i] = C[j]

\* The file as it was when the query began, or grown since.
Readable == {stored, stored \o pending}

\* What a query has before it: rows D that are on disk only, the cached rows C
\* and lines E that are read although the cache holds them.
Snapshot(D, E, C) ==
    /\ D \in Seq(RowSet) /\ E \in Seq(RowSet) /\ C \in Seq(RowSet)
    /\ Rows(cache) = C /\ Rows(Known) = D \o C
    /\ \A file \in Readable : DiskLines(file) = D \o E
    /\ Among(E, C)
    /\ ~dropped => E = <<>>
    /\ ~diskPrefix => D = <<>>
    /\ ~merge => Ascends(D \o C) /\ \A u \in StepsOf(D \o C) : u <= emitted

LEMMA Snapshots ==
  ASSUME Base, Emit, Lines, ~Drifting
  PROVE  \E D, E, C : Snapshot(D, E, C)
  <1>1. PICK d \in Nat : Divides(d)
    BY Division
  <1>2. PICK a : a = SubSeq(stored, 1, d)
    OBVIOUS
  <1>3. PICK K : K = {i \in 1..(row - 1) : i \in Range(stored) \cup Range(cache)}
    OBVIOUS
  <1>4. a \in Seq(Ordinals) /\ Known = a \o cache /\ Lists(Known, K)
    BY <1>1, <1>2, <1>3, KnownIs
  <1>5. PICK e \in Seq(Ordinals) :
          /\ \A file \in {stored, stored \o pending} : DiskLines(file) = Rows(a \o e)
          /\ \A i \in 1..Len(e) : \E j \in 1..Len(cache) : e[i] = cache[j]
          /\ ~dropped => Len(e) = 0
    BY <1>1, <1>2, DiskIs
  <1>6. cache \in Seq(Ordinals)
    BY CacheIs
  <1>7. PICK D, E, C : D = Rows(a) /\ E = Rows(e) /\ C = Rows(cache)
    OBVIOUS
  <1>8. /\ D \in Seq(RowSet) /\ E \in Seq(RowSet) /\ C \in Seq(RowSet)
        /\ Len(D) = Len(a) /\ Len(E) = Len(e) /\ Len(C) = Len(cache)
        /\ (\A i \in 1..Len(e) : E[i] = rows[e[i]])
        /\ \A i \in 1..Len(cache) : C[i] = rows[cache[i]]
    BY <1>4, <1>5, <1>6, <1>7, RowsOfOrdinals
  <1>9. Rows(Known) = D \o C
    BY <1>4, <1>6, <1>7, RowsConcat
  <1>10. \A file \in {stored, stored \o pending} : DiskLines(file) = D \o E
    <2>1. Rows(a \o e) = D \o E
      BY <1>4, <1>5, <1>7, RowsConcat
    <2> QED
      BY <1>5, <2>1
  <1>11. Among(E, C)
    <2>1. ASSUME NEW i \in 1..Len(E) PROVE \E j \in 1..Len(C) : E[i] = C[j]
      <3>1. i \in 1..Len(e)
        BY <1>8, Zenon
      <3>2. PICK j \in 1..Len(cache) : e[i] = cache[j]
        BY <1>5, <3>1
      <3>3. E[i] = rows[e[i]] /\ C[j] = rows[cache[j]] /\ j \in 1..Len(C)
        BY <1>8, <3>1, Zenon
      <3> QED
        BY <3>2, <3>3, Zenon
    <2> QED
      BY <2>1 DEF Among
  <1>12. ~dropped => E = <<>>
    BY <1>5, <1>8, NoSteps
  <1>13. ~diskPrefix => D = <<>>
    <2> SUFFICES ASSUME ~diskPrefix PROVE D = <<>>
      OBVIOUS
    <2>1. PICK c, r, f \in Nat : c = Len(cache) /\ r = row /\ f = Edge /\ r = f + c
      BY CacheIs
    <2>2. c = r - 1
      BY <2>1 DEF Base, IInv, CacheInv, NothingVanishes
    <2>3. f = 1
      BY <2>1, <2>2
    <2>4. PICK p \in Nat : p = Len(stored)
      BY StoredIs
    <2>5. d \in 0..p /\ \A i \in 1..d : stored[i] < f
      BY <1>1, <2>1, <2>4 DEF Divides
    <2>6. ASSUME d # 0 PROVE FALSE
      <3>1. 1 \in 1..d /\ 1 \in 1..p
        BY <2>5, <2>6
      <3>2. stored[1] < f /\ stored[1] \in Nat /\ stored[1] >= 1
        BY <2>4, <2>5, <3>1, StoredIs
      <3> QED
        BY <2>3, <3>2
    <2>7. Len(a) = 0
      <3>1. stored \in Seq(Ordinals)
        BY StoredIs
      <3> QED
        BY <1>2, <2>4, <2>5, <2>6, <3>1, CutTo
    <2> QED
      BY <1>8, <2>7, NoSteps
  <1>14. ~merge => Ascends(D \o C) /\ \A u \in StepsOf(D \o C) : u <= emitted
    <2> SUFFICES ASSUME ~merge PROVE Ascends(D \o C) /\ \A u \in StepsOf(D \o C) : u <= emitted
      OBVIOUS
    <2>1. PICK t, s : t = Known /\ s = Rows(t)
      OBVIOUS
    <2>2. t \in Seq(Ordinals)
      BY <1>4, <1>6, <2>1, Joined
    <2>3. Len(s) = Len(t) /\ \A i \in 1..Len(t) : s[i] = rows[t[i]]
      BY <2>1, <2>2, RowsOfOrdinals
    <2>4. PICK n \in Nat : n = row - 1
      BY Numbers
    <2>5. /\ \A i \in 1..Len(t) : t[i] \in 1..n
          /\ \A i, j \in 1..Len(t) : i < j => t[i] < t[j]
      BY <1>3, <1>4, <2>1, <2>4 DEF Lists, Rises
    <2>6. /\ \A i, j \in 1..n : i < j => rows[i].step < rows[j].step
          /\ \A i \in 1..n : rows[i].step <= emitted
      BY <2>4, PublishedAscend
    <2>7. ASSUME NEW i \in 1..Len(s), NEW j \in 1..Len(s), i < j PROVE s[i].step < s[j].step
      <3>1. i \in 1..Len(t) /\ j \in 1..Len(t)
        BY <2>3, Zenon
      <3>2. t[i] \in 1..n /\ t[j] \in 1..n /\ t[i] < t[j]
        BY <2>5, <2>7, <3>1
      <3>3. rows[t[i]].step < rows[t[j]].step
        BY <2>6, <3>2
      <3> QED
        BY <2>3, <3>1, <3>3
    <2>8. ASSUME NEW u \in StepsOf(s) PROVE u <= emitted
      <3>1. PICK i \in 1..Len(s) : u = s[i].step
        BY DEF StepsOf
      <3>2. i \in 1..Len(t)
        BY <2>3, Zenon
      <3>3. t[i] \in 1..n /\ s[i] = rows[t[i]]
        BY <2>3, <2>5, <3>2
      <3> QED
        BY <2>6, <3>1, <3>3
    <2> QED
      BY <1>9, <2>1, <2>7, <2>8 DEF Ascends
  <1>15. Snapshot(D, E, C)
    BY <1>7, <1>8, <1>9, <1>10, <1>11, <1>12, <1>13, <1>14, Zenon DEF Snapshot, Readable
  <1> QED
    BY <1>15

-----------------------------------------------------------------------------
(* Answers that merge                                                      *)

LEMMA LatestSub ==
  ASSUME NEW s \in Seq(RowSet), NEW n \in Limit
  PROVE  /\ LatestSteps(s, n) \subseteq StepsOf(s)
         /\ n \in Nat => Cardinality(LatestSteps(s, n)) <= n
  <1>1. CASE n = All
    BY <1>1, LatestAll DEF All
  <1>2. CASE n \in Nat
    <2>1. LatestSteps(s, n) = StepsOf(From(s, SuffixOf(s, n)))
      BY Zenon DEF LatestSteps, From
    <2>2. Cardinality(StepsOf(From(s, SuffixOf(s, n)))) <= n
      BY <1>2, SuffixIs
    <2> QED
      BY <1>2, <2>1, <2>2, LatestIs
  <1> QED
    BY <1>1, <1>2 DEF Limit

\* The latest steps, merged.
Exact(s, n) == MergeSteps(OfSteps(s, LatestSteps(s, n)))

LEMMA SameMerge ==
  ASSUME NEW r \in Seq(RowSet), NEW s \in Seq(RowSet), NEW n \in Limit,
         LatestSteps(r, n) = LatestSteps(s, n),
         \A u \in LatestSteps(s, n), k \in Keys : Value(r, u, k) = Value(s, u, k)
  PROVE  Exact(r, n) = Exact(s, n)
  <1>1. PICK W : W = LatestSteps(s, n)
    OBVIOUS
  <1>2. W \subseteq StepsOf(s) /\ W \subseteq StepsOf(r)
    BY <1>1, LatestSub
  <1>3. PICK x, y : x = OfSteps(r, W) /\ y = OfSteps(s, W)
    OBVIOUS
  <1>4. x \in Seq(RowSet) /\ StepsOf(x) = W /\ y \in Seq(RowSet) /\ StepsOf(y) = W
    <2>1. StepsOf(x) = StepsOf(r) \cap W /\ StepsOf(y) = StepsOf(s) \cap W
      BY <1>3, OfStepsSteps
    <2> QED
      BY <1>2, <1>3, <2>1, OfStepsSteps
  <1>5. ASSUME NEW u \in W, NEW k \in Keys PROVE Value(x, u, k) = Value(y, u, k)
    <2>1. Value(x, u, k) = Value(r, u, k) /\ Value(y, u, k) = Value(s, u, k)
      BY <1>3, ValueOfSteps
    <2> QED
      BY <1>1, <2>1
  <1>6. MergeSteps(x) = MergeSteps(y)
    BY <1>4, <1>5, MergeSame
  <1> QED
    BY <1>1, <1>3, <1>6 DEF Exact

\* Lines that are read although the cache holds them say nothing new.
LEMMA ReadTwice ==
  ASSUME NEW D \in Seq(RowSet), NEW E \in Seq(RowSet), NEW N \in Seq(RowSet), Among(E, N)
  PROVE  /\ StepsOf(E) \subseteq StepsOf(N)
         /\ \A u : \A k \in Keys : Value(E, u, k) # <<>> => Value(N, u, k) # <<>>
         /\ \A u : \A k \in Keys : Value((D \o E) \o N, u, k) = Value(D \o N, u, k)
  <1>1. StepsOf(E) \subseteq StepsOf(N)
    <2>1. ASSUME NEW u \in StepsOf(E) PROVE u \in StepsOf(N)
      <3>1. PICK i \in 1..Len(E) : u = E[i].step
        BY DEF StepsOf
      <3>2. PICK j \in 1..Len(N) : E[i] = N[j]
        BY DEF Among
      <3> QED
        BY <3>1, <3>2 DEF StepsOf
    <2> QED
      BY <2>1
  <1>2. ASSUME NEW u, NEW k \in Keys, Value(E, u, k) # <<>> PROVE Value(N, u, k) # <<>>
    <2>1. PICK v, w : v = Value(E, u, k) /\ w = Value(N, u, k)
      OBVIOUS
    <2>2. Valued(E, u, k, v) /\ Valued(N, u, k, w)
      BY <2>1, ValueIs
    <2>3. PICK m \in 1..Len(E) : E[m].step = u /\ E[m].data[k] # <<>>
      BY <1>2, <2>1, <2>2 DEF Valued, GivenAt
    <2>4. PICK j \in 1..Len(N) : E[m] = N[j]
      BY DEF Among
    <2>5. ASSUME w = <<>> PROVE FALSE
      <3>1. Silent(N, u, k, 0)
        BY <2>2, <2>5 DEF Valued, GivenAt
      <3>2. j > 0
        OBVIOUS
      <3>3. N[j].data[k] = <<>>
        BY <2>3, <2>4, <3>1, <3>2 DEF Silent
      <3> QED
        BY <2>3, <2>4, <3>3
    <2> QED
      BY <2>1, <2>5
  <1>3. ASSUME NEW u, NEW k \in Keys
        PROVE  Value((D \o E) \o N, u, k) = Value(D \o N, u, k)
    <2>1. PICK x : x = D \o E
      OBVIOUS
    <2>2. x \in Seq(RowSet)
      BY <2>1, Joined
    <2>3. Value(x \o N, u, k) = IF Value(N, u, k) # <<>> THEN Value(N, u, k) ELSE Value(x, u, k)
      BY <2>2, ValueConcat
    <2>4. Value(D \o N, u, k) = IF Value(N, u, k) # <<>> THEN Value(N, u, k) ELSE Value(D, u, k)
      BY <2>2, ValueConcat
    <2>5. Value(x, u, k) = IF Value(E, u, k) # <<>> THEN Value(E, u, k) ELSE Value(D, u, k)
      BY <2>1, ValueConcat
    <2> QED
      BY <1>2, <2>1, <2>3, <2>4, <2>5
  <1> QED
    BY <1>1, <1>2, <1>3

\* The tail of what is read: the rows on disk only with the latest steps, in
\* front of the newer rows.
LEMMA TailMerges ==
  ASSUME NEW D \in Seq(RowSet), NEW E \in Seq(RowSet), NEW N \in Seq(RowSet), Among(E, N),
         NEW n \in Nat, NEW W,
         W = IF Cardinality(StepsOf(N)) >= n THEN LatestSteps(N, n)
             ELSE LatestSteps((D \o E) \o N, n)
  PROVE  Exact(MergeSteps(OfSteps(D \o E, W)) \o N, n) = Exact(D \o N, n)
  <1>1. PICK x : x = D \o E
    OBVIOUS
  <1>2. PICK y : y = OfSteps(x, W)
    OBVIOUS
  <1>3. PICK m : m = MergeSteps(y)
    OBVIOUS
  <1>4. PICK L, r : L = D \o N /\ r = m \o N
    OBVIOUS
  <1>5. x \in Seq(RowSet) /\ StepsOf(x) = StepsOf(D) \cup StepsOf(E)
    BY <1>1, Joined, StepsConcat
  <1>6. y \in Seq(RowSet) /\ StepsOf(y) = StepsOf(x) \cap W
    BY <1>2, <1>5, OfStepsSteps
  <1>7. m \in Seq(RowSet) /\ StepsOf(m) = StepsOf(x) \cap W
    BY <1>3, <1>6, MergedSteps
  <1>8. /\ L \in Seq(RowSet) /\ r \in Seq(RowSet) /\ StepsOf(L) = StepsOf(D) \cup StepsOf(N)
        /\ StepsOf(r) = StepsOf(m) \cup StepsOf(N)
    BY <1>4, <1>5, <1>7, Joined, StepsConcat
  <1>9. StepsOf(E) \subseteq StepsOf(N)
    BY ReadTwice
  <1>10. n \in Limit
    BY DEF Limit
  <1>11. W = LatestSteps(L, n)
    <2>1. CASE Cardinality(StepsOf(N)) >= n
      <3>1. LatestSteps(D \o N, n) = LatestSteps(N, n)
        BY <1>5, <2>1, LatestTail
      <3> QED
        BY <1>4, <2>1, <3>1
    <2>2. CASE ~(Cardinality(StepsOf(N)) >= n)
      <3>1. LatestSteps((D \o E) \o N, n) = LatestSteps(D \o N, n)
        BY <1>5, <1>9, <1>10, LatestSkip
      <3> QED
        BY <1>4, <2>2, <3>1
    <2> QED
      BY <2>1, <2>2
  <1>12. LatestSteps(r, n) = W
    <2>1. CASE Cardinality(StepsOf(N)) >= n
      <3>1. LatestSteps(m \o N, n) = LatestSteps(N, n)
        BY <1>5, <1>7, <2>1, LatestTail
      <3> QED
        BY <1>4, <2>1, <3>1
    <2>2. CASE ~(Cardinality(StepsOf(N)) >= n)
      <3>1. ASSUME NEW u \in StepsOf(N) PROVE u \in W
        <4>1. After(L, u) = After(N, u)
          BY <1>4, <1>5, AfterConcat
        <4>2. PICK c, d \in Nat : /\ c = Cardinality(After(N, u)) /\ d = Cardinality(StepsOf(N))
                                  /\ c + 1 <= d
          BY <1>5, AfterCount
        <4>3. c < n
          BY <2>2, <4>2
        <4>4. LatestSteps(L, n) = {w \in StepsOf(L) : Cardinality(After(L, w)) < n}
          BY <1>8, LatestIs
        <4> QED
          BY <1>8, <1>11, <4>1, <4>2, <4>3, <4>4
      <3>2. W \subseteq StepsOf(L) /\ Cardinality(W) <= n
        BY <1>8, <1>10, <1>11, LatestSub
      <3>3. StepsOf(r) = W
        BY <1>5, <1>7, <1>8, <3>1, <3>2
      <3> QED
        BY <1>8, <3>2, <3>3, LatestSmall
    <2> QED
      BY <2>1, <2>2
  <1>13. ASSUME NEW u \in W, NEW k \in Keys PROVE Value(r, u, k) = Value(L, u, k)
    <2>1. Value(m, u, k) = Value(x, u, k)
      <3>1. Value(m, u, k) = Value(y, u, k)
        BY <1>3, <1>6, MergedValue
      <3>2. Value(y, u, k) = Value(x, u, k)
        BY <1>2, <1>5, ValueOfSteps
      <3> QED
        BY <3>1, <3>2
    <2>2. Value(r, u, k) = IF Value(N, u, k) # <<>> THEN Value(N, u, k) ELSE Value(m, u, k)
      BY <1>4, <1>5, <1>7, ValueConcat
    <2>3. Value(x \o N, u, k) = IF Value(N, u, k) # <<>> THEN Value(N, u, k) ELSE Value(x, u, k)
      BY <1>5, ValueConcat
    <2>4. Value(x \o N, u, k) = Value(L, u, k)
      BY <1>1, <1>4, ReadTwice
    <2> QED
      BY <2>1, <2>2, <2>3, <2>4
  <1>14. Exact(r, n) = Exact(L, n)
    BY <1>8, <1>10, <1>11, <1>12, <1>13, SameMerge
  <1> QED
    BY <1>1, <1>2, <1>3, <1>4, <1>14

\* All of what is read.
LEMMA AllMerges ==
  ASSUME NEW D \in Seq(RowSet), NEW E \in Seq(RowSet), NEW N \in Seq(RowSet), Among(E, N),
         NEW n \in Limit
  PROVE  Exact((D \o E) \o N, n) = Exact(D \o N, n)
  <1>1. PICK L, r, x : L = D \o N /\ x = D \o E /\ r = x \o N
    OBVIOUS
  <1>2. x \in Seq(RowSet)
    BY <1>1, Joined
  <1>3. L \in Seq(RowSet) /\ r \in Seq(RowSet)
    BY <1>1, <1>2, Joined
  <1>4. StepsOf(E) \subseteq StepsOf(N)
    BY ReadTwice
  <1>5. LatestSteps(r, n) = LatestSteps(L, n)
    <2>1. LatestSteps((D \o E) \o N, n) = LatestSteps(D \o N, n)
      BY <1>4, LatestSkip
    <2> QED
      BY <1>1, <2>1, Zenon
  <1>6. \A u : \A k \in Keys : Value(r, u, k) = Value(L, u, k)
    BY <1>1, ReadTwice
  <1>7. Exact(r, n) = Exact(L, n)
    BY <1>3, <1>5, <1>6, SameMerge
  <1> QED
    BY <1>1, <1>7

-----------------------------------------------------------------------------
(* Answers from rows that ascend                                           *)

LEMMA AscendsParts ==
  ASSUME NEW a \in Seq(RowSet), NEW b \in Seq(RowSet), Ascends(a \o b)
  PROVE  /\ PartOf(a, a \o b) /\ PartOf(b, a \o b) /\ PartOf(a \o b, a \o b)
         /\ \A u \in StepsOf(a), w \in StepsOf(b) : u < w
  <1>1. PICK s : s = a \o b
    OBVIOUS
  <1>2. s \in Seq(RowSet) /\ Follow(s, a, b)
    BY <1>1, Joined
  <1>3. PICK p, q \in Nat : p = Len(a) /\ q = Len(b)
    OBVIOUS
  <1>4. \A i, j \in 1..(p + q) : i < j => s[i].step < s[j].step
    BY <1>1, <1>2, <1>3 DEF Ascends, Follow
  <1>5. (\A i \in 1..p : s[i] = a[i]) /\ \A i \in 1..q : s[p + i] = b[i]
    BY <1>2, <1>3 DEF Follow
  <1>6. PartOf(a, s)
    <2>1. Ascends(a)
      <3>1. \A i \in 1..p : i \in 1..(p + q)
        OBVIOUS
      <3> QED
        BY <1>3, <1>4, <1>5, <3>1 DEF Ascends
    <2>2. \A i \in 1..Len(a) : \E j \in 1..Len(s) : a[i] = s[j]
      BY <1>2 DEF Follow
    <2> QED
      BY <2>1, <2>2 DEF PartOf
  <1>7. PartOf(b, s)
    <2>1. ASSUME NEW i \in 1..q, NEW j \in 1..q, i < j PROVE b[i].step < b[j].step
      <3>1. p + i \in 1..(p + q) /\ p + j \in 1..(p + q) /\ p + i < p + j
        BY <2>1
      <3>2. s[p + i].step < s[p + j].step
        BY <1>4, <3>1
      <3> QED
        BY <1>5, <3>2
    <2>2. Ascends(b)
      BY <1>3, <2>1 DEF Ascends
    <2>3. \A i \in 1..Len(b) : \E j \in 1..Len(s) : b[i] = s[j]
      BY <1>2 DEF Follow
    <2> QED
      BY <2>2, <2>3 DEF PartOf
  <1>8. PartOf(s, s)
    BY <1>1, <1>2 DEF PartOf
  <1>9. ASSUME NEW u \in StepsOf(a), NEW w \in StepsOf(b) PROVE u < w
    <2>1. PICK i \in 1..p : u = a[i].step
      BY <1>3 DEF StepsOf
    <2>2. PICK j \in 1..q : w = b[j].step
      BY <1>3 DEF StepsOf
    <2>3. i \in 1..(p + q) /\ p + j \in 1..(p + q) /\ i < p + j
      OBVIOUS
    <2>4. s[i].step < s[p + j].step
      BY <1>4, <2>3
    <2> QED
      BY <1>5, <2>1, <2>2, <2>4
  <1> QED
    BY <1>1, <1>6, <1>7, <1>8, <1>9

\* The latest steps of rows that ascend: some of these rows.
LEMMA PlainSteps ==
  ASSUME NEW L, NEW s, PartOf(s, L), NEW n \in Limit
  PROVE  /\ PartOf(OfSteps(s, LatestSteps(s, n)), L)
         /\ StepsOf(OfSteps(s, LatestSteps(s, n))) = LatestSteps(s, n)
         /\ Exact(s, n) = OfSteps(s, LatestSteps(s, n))
  <1>1. s \in Seq(RowSet)
    BY DEF PartOf
  <1>2. PICK W, x : W = LatestSteps(s, n) /\ x = OfSteps(s, W)
    OBVIOUS
  <1>3. PartOf(x, L) /\ x \in Seq(RowSet) /\ Ascends(x)
    BY <1>2, PartOfSteps DEF PartOf
  <1>4. StepsOf(x) = StepsOf(s) \cap W /\ W \subseteq StepsOf(s)
    BY <1>1, <1>2, OfStepsSteps, LatestSub
  <1>5. MergeSteps(x) = x
    BY <1>3, MergeSelf
  <1> QED
    BY <1>2, <1>3, <1>4, <1>5 DEF Exact

LEMMA PlainIs ==
  ASSUME NEW L \in Seq(RowSet), Ascends(L), NEW n \in Limit, NEW x, PartOf(x, L),
         StepsOf(x) = LatestSteps(L, n)
  PROVE  x = Exact(L, n)
  <1>1. PartOf(L, L)
    BY DEF PartOf
  <1> QED
    BY <1>1, PlainSteps, PartsEqual

\* The newest rows on disk, in front of the newer rows.
LEMMA PlainTail ==
  ASSUME NEW D \in Seq(RowSet), NEW N \in Seq(RowSet), Ascends(D \o N), NEW n \in Nat, NEW q \in Nat,
         Len(N) + q >= n
  PROVE  OfSteps(Newest(D, q) \o N, LatestSteps(Newest(D, q) \o N, n)) = Exact(D \o N, n)
  <1>1. PICK L : L = D \o N
    OBVIOUS
  <1>2. PICK z : z = Newest(D, q)
    OBVIOUS
  <1>3. PICK r : r = z \o N
    OBVIOUS
  <1>4. /\ L \in Seq(RowSet) /\ Ascends(L) /\ PartOf(D, L) /\ PartOf(N, L)
        /\ \A u \in StepsOf(D), w \in StepsOf(N) : u < w
    BY <1>1, Joined, AscendsParts
  <1>5. n \in Limit /\ q \in Limit
    BY DEF Limit
  <1>6. PartOf(z, L) /\ z \in Seq(RowSet) /\ StepsOf(z) \subseteq StepsOf(D)
    <2>1. PartOf(z, L) /\ StepsOf(z) = LatestSteps(D, q)
      BY <1>2, <1>4, <1>5, NewestIs
    <2>2. LatestSteps(D, q) \subseteq StepsOf(D)
      BY <1>5, LatestSub
    <2> QED
      BY <2>1, <2>2 DEF PartOf
  <1>7. PartOf(r, L) /\ r \in Seq(RowSet) /\ Ascends(r)
    <2>1. \A u \in StepsOf(z), w \in StepsOf(N) : u < w
      BY <1>4, <1>6
    <2> QED
      <3>1. PartOf(z \o N, L)
        BY <1>4, <1>6, <2>1, PartConcat, Zenon
      <3> QED
        BY <1>3, <3>1 DEF PartOf
  <1>8. PICK d, l \in Nat : d = Len(D) /\ l = Len(N)
    OBVIOUS
  <1>9. LatestSteps(r, n) = LatestSteps(L, n)
    <2>1. CASE d <= q
      <3>1. z = D
        BY <1>2, <1>8, <2>1 DEF Newest
      <3> QED
        BY <1>1, <1>3, <3>1
    <2>2. CASE ~(d <= q)
      <3>1. PICK j \in 1..(d + 1) : j = d - q + 1
        BY <2>2
      <3>2. z = From(D, j)
        <4>1. q # All
          BY DEF All
        <4> QED
          BY <1>2, <1>8, <2>2, <3>1, <4>1 DEF Newest, From
      <3>3. PICK y : y = SubSeq(D, 1, j - 1)
        OBVIOUS
      <3>4. y \in Seq(RowSet) /\ Len(z) = d + 1 - j /\ D = y \o z
        BY <1>8, <3>1, <3>2, <3>3, FromIs, Rejoined
      <3>5. L = y \o r
        <4>1. (y \o z) \o N = y \o (z \o N)
          BY <1>6, <3>4, SMTT(40)
        <4> QED
          BY <1>1, <1>3, <3>4, <4>1, Zenon
      <3>6. Len(r) = q + l
        <4>1. Follow(r, z, N)
          BY <1>3, <1>6, Joined
        <4>2. Len(r) = Len(z) + Len(N)
          BY <4>1 DEF Follow
        <4> QED
          BY <1>8, <3>1, <3>4, <4>2
      <3>7. Cardinality(StepsOf(r)) >= n
        <4>1. Cardinality(StepsOf(r)) = q + l
          BY <1>7, <3>6, AscendsCount
        <4> QED
          BY <1>8, <4>1
      <3> QED
        BY <1>7, <3>4, <3>5, <3>7, LatestTail
    <2> QED
      BY <2>1, <2>2
  <1>10. /\ PartOf(OfSteps(r, LatestSteps(r, n)), L)
         /\ StepsOf(OfSteps(r, LatestSteps(r, n))) = LatestSteps(r, n)
    BY <1>5, <1>7, PlainSteps
  <1>11. OfSteps(r, LatestSteps(r, n)) = Exact(L, n)
    BY <1>4, <1>5, <1>9, <1>10, PlainIs
  <1> QED
    BY <1>1, <1>2, <1>3, <1>11

\* The newest rows of a part that has the latest steps.
LEMMA PlainNewest ==
  ASSUME NEW D \in Seq(RowSet), NEW N \in Seq(RowSet), Ascends(D \o N), NEW n \in Limit,
         LatestSteps(N, n) = LatestSteps(D \o N, n)
  PROVE  Newest(N, n) = Exact(D \o N, n)
  <1>1. PICK L : L = D \o N
    OBVIOUS
  <1>2. L \in Seq(RowSet) /\ Ascends(L) /\ PartOf(N, L)
    BY <1>1, Joined, AscendsParts
  <1>3. PartOf(Newest(N, n), L) /\ StepsOf(Newest(N, n)) = LatestSteps(L, n)
    BY <1>1, <1>2, NewestIs
  <1> QED
    BY <1>1, <1>2, <1>3, PlainIs

\* A suffix that leaves out rows has as many steps as were asked for.
LEMMA SuffixFull ==
  ASSUME NEW C \in Seq(RowSet), Ascends(C), NEW n \in Limit, SuffixOf(C, n) > 1
  PROVE  n \in Nat /\ Cardinality(StepsOf(From(C, SuffixOf(C, n)))) >= n
  <1>1. n \in Nat
    BY LatestAll DEF Limit
  <1>2. PICK c \in Nat : c = Len(C)
    OBVIOUS
  <1>3. PICK j : j = SuffixOf(C, n)
    OBVIOUS
  <1>4. j \in 1..(c + 1) /\ j > 1 /\ \A i \in 1..(j - 1) : Cardinality(StepsOf(From(C, i))) > n
    BY <1>1, <1>2, <1>3, SuffixIs
  <1>5. ASSUME NEW i \in 1..(c + 1) PROVE Cardinality(StepsOf(From(C, i))) = c + 1 - i
    <2>1. PartOf(C, C)
      BY DEF PartOf
    <2>2. PartOf(From(C, i), C) /\ Len(From(C, i)) = c + 1 - i
      BY <1>2, <2>1, PartFrom, FromIs
    <2>3. From(C, i) \in Seq(RowSet) /\ Ascends(From(C, i))
      BY <2>2 DEF PartOf
    <2> QED
      BY <2>2, <2>3, AscendsCount
  <1>6. PICK i : i = j - 1
    OBVIOUS
  <1>7. i \in 1..(c + 1) /\ i \in 1..(j - 1)
    BY <1>4, <1>6
  <1>8. c + 1 - i > n
    BY <1>4, <1>5, <1>7
  <1>9. c + 1 - j >= n
    BY <1>1, <1>4, <1>6, <1>8
  <1> QED
    BY <1>1, <1>3, <1>4, <1>5, <1>9

-----------------------------------------------------------------------------
(* What a query answers                                                    *)

\* The open row, where the query takes it.
Opened(withOpen) == IF withOpen THEN OpenRow ELSE <<>>

LEMMA OpenedIs ==
  ASSUME Base, NEW withOpen \in BOOLEAN
  PROVE  /\ Opened(withOpen) \in Seq(RowSet) /\ Ascends(Opened(withOpen))
         /\ \A u \in StepsOf(Opened(withOpen)) : withOpen /\ open # NoStep /\ u = open
  <1>1. CASE withOpen /\ open # NoStep
    <2>1. PICK r : r = [step |-> open, data |-> data]
      OBVIOUS
    <2>2. r \in RowSet /\ r.step = open
      <3>1. open \in Steps /\ data \in [Keys -> Seq(Nat)]
        BY <1>1 DEF Base, StoreTypes, StepOrNone
      <3> QED
        BY <2>1, <3>1 DEF RowSet
    <2>3. PICK s : s = <<r>>
      OBVIOUS
    <2>4. s \in Seq(RowSet) /\ Len(s) = 1 /\ s[1] = r
      BY <2>2, <2>3
    <2>5. Opened(withOpen) = s
      BY <1>1, <2>1, <2>3 DEF Opened, OpenRow
    <2>6. \A i \in 1..Len(s) : i = 1
      BY <2>4
    <2>7. Ascends(s)
      BY <2>6 DEF Ascends
    <2>8. \A u \in StepsOf(s) : u = open
      BY <2>2, <2>4, <2>6 DEF StepsOf
    <2> QED
      BY <1>1, <2>4, <2>5, <2>7, <2>8
  <1>2. CASE ~(withOpen /\ open # NoStep)
    <2>1. Opened(withOpen) = <<>>
      BY <1>2 DEF Opened, OpenRow
    <2>2. Ascends(<<>>)
      BY DEF Ascends
    <2> QED
      BY <2>1, <2>2, NoSteps
  <1> QED
    BY <1>1, <1>2

LEMMA PlainAscends ==
  ASSUME Base, NEW D, NEW E, NEW C, Snapshot(D, E, C), NEW withOpen \in BOOLEAN, ~Merging(withOpen)
  PROVE  Ascends((D \o C) \o Opened(withOpen)) /\ E = <<>>
  <1>1. PICK a, b : a = D \o C /\ b = Opened(withOpen)
    OBVIOUS
  <1>2. /\ ~merge /\ ~dropped
        /\ withOpen /\ open # NoStep => ~(open <= emitted)
    BY DEF Merging
  <1>3. a \in Seq(RowSet) /\ Ascends(a) /\ (\A u \in StepsOf(a) : u <= emitted) /\ E = <<>>
    BY <1>1, <1>2, Joined DEF Snapshot
  <1>4. /\ b \in Seq(RowSet) /\ Ascends(b)
        /\ \A u \in StepsOf(b) : withOpen /\ open # NoStep /\ u = open
    BY <1>1, OpenedIs
  <1>5. PICK s : s = a \o b
    OBVIOUS
  <1>6. Follow(s, a, b)
    BY <1>3, <1>4, <1>5, Joined
  <1>7. PartOf(a, s) /\ PartOf(b, s)
    BY <1>3, <1>4, <1>6 DEF PartOf, Follow
  <1>8. ASSUME NEW u \in StepsOf(a), NEW w \in StepsOf(b) PROVE u < w
    <2>1. u \in Nat
      <3>1. u \in Steps
        BY <1>3, StepsAre
      <3> QED
        BY <3>1, StoreAssumption DEF Steps
    <2>2. PICK e, o \in Int : e = emitted /\ o = open
      BY Numbers
    <2>3. u <= e /\ w = o /\ ~(o <= e)
      BY <1>2, <1>3, <1>4, <2>2
    <2> QED
      BY <2>1, <2>3
  <1>9. PartOf(a \o b, s)
    BY <1>7, <1>8, PartConcat
  <1> QED
    BY <1>1, <1>3, <1>9 DEF PartOf

LEMMA CacheTailIs ==
  ASSUME NEW C, Rows(cache) = C, NEW merging \in BOOLEAN, NEW n
  PROVE  LET from == IF merging THEN 1 ELSE SuffixOf(C, n)
         IN  /\ CacheTail(merging, n).rows = From(C, from)
             /\ CacheTail(merging, n).complete <=> (~diskPrefix \/ from > 1)
  BY DEF CacheTail, From

\* The parts of a tail answer.
TailShape(n, withOpen, file, newer, old, records) ==
    LET merging == Merging(withOpen)
        view    == CacheTail(merging, n)
        disk    == DiskLines(file)
        answer  == TailAnswer(n, withOpen, file)
    IN  /\ newer = view.rows \o Opened(withOpen)
        /\ view.complete => old = <<>>
        /\ ~view.complete /\ n = All => old = disk
        /\ ~view.complete /\ n # All /\ ~merging =>
             old = Newest(disk, IF n > Len(newer) THEN n - Len(newer) ELSE 0)
        /\ ~view.complete /\ n # All /\ merging =>
             old = MergeSteps(OfSteps(disk, IF Cardinality(StepsOf(newer)) >= n THEN LatestSteps(newer, n)
                                            ELSE LatestSteps(disk \o newer, n)))
        /\ records = old \o newer
        /\ merging => answer = Exact(records, n)
        /\ ~merging /\ view.complete => answer = Newest(records, n)
        /\ ~merging /\ ~view.complete => answer = OfSteps(records, LatestSteps(records, n))

LEMMA TailParts ==
  ASSUME NEW n, NEW withOpen, NEW file
  PROVE  \E newer, old, records : TailShape(n, withOpen, file, newer, old, records)
  <1> DEFINE merging == Merging(withOpen)
             view    == CacheTail(merging, n)
             newer   == view.rows \o Opened(withOpen)
             wanted  == IF Cardinality(StepsOf(newer)) >= n THEN LatestSteps(newer, n)
                        ELSE LatestSteps(DiskLines(file) \o newer, n)
             old     == IF view.complete THEN <<>>
                        ELSE IF n = All THEN DiskLines(file)
                        ELSE IF ~merging
                        THEN Newest(DiskLines(file), IF n > Len(newer) THEN n - Len(newer) ELSE 0)
                        ELSE MergeSteps(OfSteps(DiskLines(file), wanted))
             records == old \o newer
             kept    == OfSteps(records, LatestSteps(records, n))
  <1>1. TailAnswer(n, withOpen, file)
          = IF merging THEN MergeSteps(kept) ELSE IF view.complete THEN Newest(records, n) ELSE kept
    BY Zenon DEF TailAnswer, Opened
  <1>2. MergeSteps(kept) = Exact(records, n)
    BY Zenon DEF Exact
  <1>3. PICK N : N = newer
    OBVIOUS
  <1>4. PICK o : o = old
    OBVIOUS
  <1>5. PICK r : r = records
    OBVIOUS
  <1>6. view.complete => o = <<>>
    BY <1>4, Zenon
  <1>7. ~view.complete /\ n = All => o = DiskLines(file)
    BY <1>4, Zenon
  <1>8. ~view.complete /\ n # All /\ ~merging =>
          o = Newest(DiskLines(file), IF n > Len(newer) THEN n - Len(newer) ELSE 0)
    BY <1>4, Zenon
  <1>9. ~view.complete /\ n # All /\ merging => o = MergeSteps(OfSteps(DiskLines(file), wanted))
    BY <1>4, Zenon
  <1> HIDE DEF old
  <1>10. r = o \o N
    BY <1>3, <1>4, <1>5, Zenon
  <1> HIDE DEF records
  <1>11. /\ merging => TailAnswer(n, withOpen, file) = Exact(r, n)
         /\ ~merging /\ view.complete => TailAnswer(n, withOpen, file) = Newest(r, n)
         /\ ~merging /\ ~view.complete => TailAnswer(n, withOpen, file) = OfSteps(r, LatestSteps(r, n))
    BY <1>1, <1>2, <1>5, Zenon
  <1>12. TailShape(n, withOpen, file, N, o, r)
    BY <1>3, <1>6, <1>7, <1>8, <1>9, <1>10, <1>11, Zenon DEF TailShape
  <1> QED
    BY <1>12

\* The tail of a query is exact.
LEMMA TailMerging ==
  ASSUME Base, NEW D, NEW E, NEW C, Snapshot(D, E, C), NEW n \in Limit, NEW withOpen \in BOOLEAN,
         NEW file \in Readable, Merging(withOpen)
  PROVE  TailAnswer(n, withOpen, file) = Exact(D \o (C \o Opened(withOpen)), n)
  <1>1. PICK newer, old, records : TailShape(n, withOpen, file, newer, old, records)
    BY TailParts, Zenon
  <1>2. PICK O : O = Opened(withOpen)
    OBVIOUS
  <1>3. O \in Seq(RowSet)
    BY <1>2, OpenedIs
  <1>4. /\ D \in Seq(RowSet) /\ E \in Seq(RowSet) /\ C \in Seq(RowSet) /\ Rows(cache) = C
        /\ DiskLines(file) = D \o E /\ Among(E, C) /\ (~diskPrefix => D = <<>>)
    BY Zenon DEF Snapshot
  <1>5. /\ CacheTail(TRUE, n).rows = From(C, 1)
        /\ CacheTail(TRUE, n).complete <=> ~diskPrefix
    <2>1. ~(1 > 1)
      OBVIOUS
    <2>2. LET from == IF TRUE THEN 1 ELSE SuffixOf(C, n)
          IN  /\ CacheTail(TRUE, n).rows = From(C, from)
              /\ CacheTail(TRUE, n).complete <=> (~diskPrefix \/ from > 1)
      BY <1>4, CacheTailIs, Zenon
    <2> QED
      BY <2>1, <2>2
  <1>6. From(C, 1) = C
    BY <1>4, LatestAll
  <1>7. Merging(withOpen) = TRUE
    <2>1. Merging(withOpen) \in BOOLEAN
      BY DEF Merging, Base, StoreTypes
    <2> QED
      BY <2>1
  <1>8. newer = C \o O /\ TailAnswer(n, withOpen, file) = Exact(records, n)
    BY <1>1, <1>2, <1>5, <1>6, <1>7, Zenon DEF TailShape
  <1>9. newer \in Seq(RowSet) /\ Among(E, newer)
    <2>1. newer \in Seq(RowSet) /\ Follow(newer, C, O)
      BY <1>3, <1>4, <1>8, Joined
    <2>2. ASSUME NEW i \in 1..Len(E) PROVE \E j \in 1..Len(newer) : E[i] = newer[j]
      <3>1. PICK j \in 1..Len(C) : E[i] = C[j]
        BY <1>4 DEF Among
      <3>2. j \in 1..Len(newer) /\ newer[j] = C[j]
        BY <2>1 DEF Follow
      <3> QED
        BY <3>1, <3>2
    <2> QED
      BY <2>1, <2>2 DEF Among
  <1>10. Exact(records, n) = Exact(D \o newer, n)
    <2>1. CASE ~diskPrefix
      <3>1. old = <<>> /\ D = <<>>
        BY <1>1, <1>4, <1>5, <1>7, <2>1, Zenon DEF TailShape
      <3> QED
        BY <1>1, <3>1, Zenon DEF TailShape
    <2>2. CASE diskPrefix /\ n = All
      <3>1. old = D \o E
        BY <1>1, <1>4, <1>5, <1>7, <2>2, Zenon DEF TailShape
      <3>2. Exact((D \o E) \o newer, n) = Exact(D \o newer, n)
        BY <1>4, <1>9, AllMerges
      <3> QED
        BY <1>1, <3>1, <3>2, Zenon DEF TailShape
    <2>3. CASE diskPrefix /\ n # All
      <3>1. n \in Nat
        BY <2>3 DEF Limit
      <3>2. PICK W : W = IF Cardinality(StepsOf(newer)) >= n THEN LatestSteps(newer, n)
                         ELSE LatestSteps((D \o E) \o newer, n)
        OBVIOUS
      <3>3. old = MergeSteps(OfSteps(D \o E, W))
        BY <1>1, <1>4, <1>5, <1>7, <2>3, <3>2, Zenon DEF TailShape
      <3>4. Exact(MergeSteps(OfSteps(D \o E, W)) \o newer, n) = Exact(D \o newer, n)
        BY <1>4, <1>9, <3>1, <3>2, TailMerges
      <3> QED
        BY <1>1, <3>3, <3>4, Zenon DEF TailShape
    <2> QED
      BY <2>1, <2>2, <2>3
  <1> QED
    BY <1>2, <1>8, <1>10, Zenon

LEMMA TailPlain ==
  ASSUME Base, NEW D, NEW E, NEW C, Snapshot(D, E, C), NEW n \in Limit, NEW withOpen \in BOOLEAN,
         NEW file \in Readable, ~Merging(withOpen)
  PROVE  TailAnswer(n, withOpen, file) = Exact(D \o (C \o Opened(withOpen)), n)
  <1>1. PICK newer, old, records : TailShape(n, withOpen, file, newer, old, records)
    BY TailParts, Zenon
  <1>2. PICK O : O = Opened(withOpen)
    OBVIOUS
  <1>3. O \in Seq(RowSet)
    BY <1>2, OpenedIs
  <1>4. /\ D \in Seq(RowSet) /\ C \in Seq(RowSet) /\ Rows(cache) = C
        /\ DiskLines(file) = D \o E /\ (~diskPrefix => D = <<>>)
    BY Zenon DEF Snapshot
  <1>5. Ascends((D \o C) \o O) /\ E = <<>>
    BY <1>2, PlainAscends
  <1>6. DiskLines(file) = D
    BY <1>4, <1>5, NoSteps
  <1>7. PICK M : M = C \o O
    OBVIOUS
  <1>8. M \in Seq(RowSet)
    BY <1>3, <1>4, <1>7, Joined
  <1>9. (D \o C) \o O = D \o M
    <2>1. (D \o C) \o O = D \o (C \o O)
      BY <1>3, <1>4, SMTT(40)
    <2> QED
      BY <1>7, <2>1, Zenon
  <1>10. Ascends(D \o M)
    BY <1>5, <1>9, Zenon
  <1>11. Ascends(C)
    <2>1. PartOf(M, D \o M)
      BY <1>4, <1>8, <1>10, AscendsParts
    <2>2. Ascends(C \o O)
      BY <1>7, <2>1, Zenon DEF PartOf
    <2>3. PartOf(C, C \o O)
      BY <1>3, <1>4, <2>2, AscendsParts
    <2> QED
      BY <2>3 DEF PartOf
  <1>12. PICK from : from = SuffixOf(C, n)
    OBVIOUS
  <1>13. Merging(withOpen) = FALSE
    <2>1. Merging(withOpen) \in BOOLEAN
      BY DEF Merging, Base, StoreTypes
    <2> QED
      BY <2>1
  <1>14. /\ CacheTail(FALSE, n).rows = From(C, from)
         /\ CacheTail(FALSE, n).complete <=> (~diskPrefix \/ from > 1)
    <2>1. LET from0 == IF FALSE THEN 1 ELSE SuffixOf(C, n)
          IN  /\ CacheTail(FALSE, n).rows = From(C, from0)
              /\ CacheTail(FALSE, n).complete <=> (~diskPrefix \/ from0 > 1)
      BY <1>4, CacheTailIs, Zenon
    <2> QED
      BY <1>12, <2>1
  <1>15. newer = From(C, from) \o O
    BY <1>1, <1>2, <1>13, <1>14, Zenon DEF TailShape
  <1>16. from \in 1..(Len(C) + 1) /\ (from > 1 \/ from = 1)
    <2>1. from \in 1..(Len(C) + 1)
      <3>1. CASE n = All
        <4>1. from = 1
          BY <1>4, <1>12, <3>1, LatestAll
        <4> QED
          BY <1>4, <4>1
      <3>2. CASE n \in Nat
        BY <1>4, <1>12, <3>2, SuffixIs
      <3> QED
        BY <3>1, <3>2 DEF Limit
    <2> QED
      BY <2>1
  <1>17. from = 1 => newer = M
    BY <1>4, <1>7, <1>15, LatestAll
  <1>18. CASE from > 1
    <2>1. TailAnswer(n, withOpen, file) = Newest(newer, n)
      <3>1. old = <<>> /\ TailAnswer(n, withOpen, file) = Newest(records, n) /\ records = old \o newer
        BY <1>1, <1>13, <1>14, <1>18, Zenon DEF TailShape
      <3>2. newer \in Seq(RowSet)
        BY <1>3, <1>4, <1>15, <1>16, FromIs, Joined
      <3> QED
        BY <3>1, <3>2, NoSteps
    <2>2. PICK y, z : y = SubSeq(C, 1, from - 1) /\ z = From(C, from)
      OBVIOUS
    <2>3. y \in Seq(RowSet) /\ z \in Seq(RowSet) /\ C = y \o z
      BY <1>4, <1>16, <2>2, FromIs, Rejoined
    <2>4. PICK x : x = D \o y
      OBVIOUS
    <2>5. x \in Seq(RowSet) /\ newer \in Seq(RowSet) /\ newer = z \o O
      BY <1>3, <1>4, <1>15, <2>2, <2>3, <2>4, Joined
    <2>6. D \o M = x \o newer
      <3>1. D \o ((y \o z) \o O) = (D \o y) \o (z \o O)
        BY <1>3, <1>4, <2>3, SMTT(60)
      <3> QED
        BY <1>7, <2>3, <2>4, <2>5, <3>1, Zenon
    <2>7. n \in Nat /\ Cardinality(StepsOf(newer)) >= n
      <3>1. n \in Nat /\ Cardinality(StepsOf(z)) >= n
        BY <1>4, <1>11, <1>12, <1>18, <2>2, SuffixFull
      <3>2. StepsOf(z) \subseteq StepsOf(newer) /\ StepsOf(newer) \subseteq Steps
        BY <1>3, <2>3, <2>5, StepsConcat, StepsAre
      <3>3. PICK c, d \in Nat : c = Cardinality(StepsOf(z)) /\ d = Cardinality(StepsOf(newer)) /\ c <= d
        BY <3>2, Smaller
      <3> QED
        BY <3>1, <3>3
    <2>8. LatestSteps(newer, n) = LatestSteps(x \o newer, n)
      BY <2>5, <2>7, LatestTail
    <2>9. Ascends(x \o newer)
      BY <1>10, <2>6, Zenon
    <2>10. Newest(newer, n) = Exact(x \o newer, n)
      BY <2>5, <2>8, <2>9, PlainNewest
    <2> QED
      BY <1>2, <1>7, <2>1, <2>6, <2>10, Zenon
  <1>19. CASE from = 1 /\ ~diskPrefix
    <2>1. D = <<>> /\ D \o M = M
      BY <1>4, <1>8, <1>19, NoSteps
    <2>2. old = <<>> /\ TailAnswer(n, withOpen, file) = Newest(records, n) /\ records = old \o newer
      BY <1>1, <1>13, <1>14, <1>19, Zenon DEF TailShape
    <2>3. records = M
      BY <1>8, <1>17, <1>19, <2>2, NoSteps
    <2>4. LatestSteps(M, n) = LatestSteps(D \o M, n)
      BY <2>1, Zenon
    <2>5. Newest(M, n) = Exact(D \o M, n)
      BY <1>4, <1>8, <1>10, <2>4, PlainNewest
    <2> QED
      BY <1>2, <1>7, <2>2, <2>3, <2>5, Zenon
  <1>20. CASE from = 1 /\ diskPrefix
    <2>1. /\ TailAnswer(n, withOpen, file) = OfSteps(records, LatestSteps(records, n))
          /\ records = old \o newer /\ newer = M
      <3>1. ~CacheTail(FALSE, n).complete
        <4>1. ~(from > 1)
          BY <1>20
        <4> QED
          BY <1>14, <1>20, <4>1, Zenon
      <3> QED
        BY <1>1, <1>13, <1>17, <1>20, <3>1, Zenon DEF TailShape
    <2>2. CASE n = All
      <3>1. old = D
        <4>1. ~(from > 1)
          BY <1>20
        <4> QED
          BY <1>1, <1>6, <1>13, <1>14, <1>20, <2>2, <4>1, Zenon DEF TailShape
      <3>2. PartOf(D \o M, D \o M)
        BY <1>4, <1>8, <1>10, AscendsParts
      <3>3. Exact(D \o M, n) = OfSteps(D \o M, LatestSteps(D \o M, n))
        BY <3>2, PlainSteps
      <3> QED
        BY <1>2, <1>7, <2>1, <3>1, <3>3, Zenon
    <2>3. CASE n \in Nat
      <3>1. n # All
        BY <2>3 DEF All
      <3>2. PICK q : q = IF n > Len(newer) THEN n - Len(newer) ELSE 0
        OBVIOUS
      <3>3. old = Newest(D, q)
        <4>1. ~(from > 1)
          BY <1>20
        <4> QED
          BY <1>1, <1>6, <1>13, <1>14, <1>20, <3>1, <3>2, <4>1, Zenon DEF TailShape
      <3>4. q \in Nat /\ Len(M) + q >= n
        <4>1. PICK l \in Nat : l = Len(M)
          BY <1>8
        <4>2. q = IF n > l THEN n - l ELSE 0
          BY <2>1, <3>2, <4>1
        <4> QED
          BY <2>3, <4>1, <4>2
      <3>5. OfSteps(Newest(D, q) \o M, LatestSteps(Newest(D, q) \o M, n)) = Exact(D \o M, n)
        BY <1>4, <1>8, <1>10, <2>3, <3>4, PlainTail
      <3> QED
        BY <1>2, <1>7, <2>1, <3>3, <3>5, Zenon
    <2> QED
      BY <2>2, <2>3 DEF Limit
  <1> QED
    BY <1>16, <1>18, <1>19, <1>20

-----------------------------------------------------------------------------
(* The rows of a range                                                     *)

LEMMA WithinConcat ==
  ASSUME NEW C \in Seq(RowSet), NEW O \in Seq(RowSet), NEW R
  PROVE  /\ OfSteps(C, R) \o OfSteps(O, R) \in Seq(RowSet)
         /\ StepsOf(OfSteps(C, R) \o OfSteps(O, R)) = StepsOf(C \o O) \cap R
         /\ \A u \in R, k \in Keys : Value(OfSteps(C, R) \o OfSteps(O, R), u, k) = Value(C \o O, u, k)
  <1>1. PICK x, y : x = OfSteps(C, R) /\ y = OfSteps(O, R)
    OBVIOUS
  <1>2. /\ x \in Seq(RowSet) /\ StepsOf(x) = StepsOf(C) \cap R
        /\ y \in Seq(RowSet) /\ StepsOf(y) = StepsOf(O) \cap R
    BY <1>1, OfStepsSteps
  <1>3. x \o y \in Seq(RowSet) /\ StepsOf(x \o y) = StepsOf(x) \cup StepsOf(y)
    BY <1>2, Joined, StepsConcat
  <1>4. StepsOf(C \o O) = StepsOf(C) \cup StepsOf(O)
    BY StepsConcat
  <1>5. ASSUME NEW u \in R, NEW k \in Keys PROVE Value(x \o y, u, k) = Value(C \o O, u, k)
    <2>1. Value(x, u, k) = Value(C, u, k) /\ Value(y, u, k) = Value(O, u, k)
      BY <1>1, ValueOfSteps
    <2>2. Value(x \o y, u, k) = IF Value(y, u, k) # <<>> THEN Value(y, u, k) ELSE Value(x, u, k)
      BY <1>2, ValueConcat
    <2>3. Value(C \o O, u, k) = IF Value(O, u, k) # <<>> THEN Value(O, u, k) ELSE Value(C, u, k)
      BY ValueConcat
    <2> QED
      BY <2>1, <2>2, <2>3
  <1> QED
    BY <1>1, <1>2, <1>3, <1>4, <1>5

\* Rows of the range, read from disk and merged, in front of those in memory.
SameValues(M, N, R) == \A u \in R, k \in Keys : Value(M, u, k) = Value(N, u, k)

LEMMA RangeMerges ==
  ASSUME NEW D \in Seq(RowSet), NEW E \in Seq(RowSet), NEW N \in Seq(RowSet), Among(E, N),
         NEW R, NEW M \in Seq(RowSet), StepsOf(M) = StepsOf(N) \cap R,
         SameValues(M, N, R)
  PROVE  MergeSteps(MergeSteps(OfSteps(D \o E, R)) \o M) = MergeSteps(OfSteps(D \o N, R))
  <1>1. PICK x, y, m, r, L, z : /\ x = D \o E /\ y = OfSteps(x, R) /\ m = MergeSteps(y) /\ r = m \o M
                                /\ L = D \o N /\ z = OfSteps(L, R)
    OBVIOUS
  <1>2. x \in Seq(RowSet) /\ StepsOf(x) = StepsOf(D) \cup StepsOf(E)
    BY <1>1, Joined, StepsConcat
  <1>3. y \in Seq(RowSet) /\ StepsOf(y) = StepsOf(x) \cap R
    BY <1>1, <1>2, OfStepsSteps
  <1>4. m \in Seq(RowSet) /\ StepsOf(m) = StepsOf(y)
    BY <1>1, <1>3, MergedSteps
  <1>5. r \in Seq(RowSet) /\ StepsOf(r) = StepsOf(m) \cup StepsOf(M)
    BY <1>1, <1>4, Joined, StepsConcat
  <1>6. L \in Seq(RowSet) /\ StepsOf(L) = StepsOf(D) \cup StepsOf(N)
    BY <1>1, Joined, StepsConcat
  <1>7. z \in Seq(RowSet) /\ StepsOf(z) = StepsOf(L) \cap R
    BY <1>1, <1>6, OfStepsSteps
  <1>8. StepsOf(E) \subseteq StepsOf(N)
    BY ReadTwice
  <1>9. StepsOf(r) = StepsOf(z)
    BY <1>2, <1>3, <1>4, <1>5, <1>6, <1>7, <1>8
  <1>10. ASSUME NEW u \in StepsOf(z), NEW k \in Keys PROVE Value(r, u, k) = Value(z, u, k)
    <2>1. u \in R
      BY <1>7
    <2>2. Value(z, u, k) = Value(L, u, k) /\ Value(y, u, k) = Value(x, u, k)
      <3>1. Value(OfSteps(L, R), u, k) = Value(L, u, k)
        BY <1>6, <2>1, ValueOfSteps
      <3>2. Value(OfSteps(x, R), u, k) = Value(x, u, k)
        BY <1>2, <2>1, ValueOfSteps
      <3> QED
        BY <1>1, <3>1, <3>2, Zenon
    <2>3. Value(m, u, k) = Value(y, u, k)
      BY <1>1, <1>3, MergedValue
    <2>4. Value(r, u, k) = IF Value(M, u, k) # <<>> THEN Value(M, u, k) ELSE Value(m, u, k)
      BY <1>1, <1>4, ValueConcat
    <2>5. Value(x \o N, u, k) = IF Value(N, u, k) # <<>> THEN Value(N, u, k) ELSE Value(x, u, k)
      BY <1>2, ValueConcat
    <2>6. Value(x \o N, u, k) = Value(L, u, k)
      <3>1. Value((D \o E) \o N, u, k) = Value(D \o N, u, k)
        BY ReadTwice
      <3> QED
        BY <1>1, <3>1, Zenon
    <2>7. Value(M, u, k) = Value(N, u, k)
      BY <2>1 DEF SameValues
    <2> QED
      BY <2>2, <2>3, <2>4, <2>5, <2>6, <2>7
  <1>11. MergeSteps(r) = MergeSteps(z)
    BY <1>5, <1>7, <1>9, <1>10, MergeSame
  <1> QED
    BY <1>1, <1>11, Zenon

LEMMA PartTrans ==
  ASSUME NEW L, NEW a, PartOf(a, L), NEW x, PartOf(x, a)
  PROVE  PartOf(x, L)
  <1>1. x \in Seq(RowSet) /\ Ascends(x)
    BY DEF PartOf
  <1>2. ASSUME NEW i \in 1..Len(x) PROVE \E j \in 1..Len(L) : x[i] = L[j]
    <2>1. PICK h \in 1..Len(a) : x[i] = a[h]
      BY DEF PartOf
    <2>2. PICK j \in 1..Len(L) : a[h] = L[j]
      BY DEF PartOf
    <2> QED
      BY <2>1, <2>2
  <1> QED
    BY <1>1, <1>2 DEF PartOf

LEMMA RangePlain ==
  ASSUME NEW D \in Seq(RowSet), NEW C \in Seq(RowSet), NEW O \in Seq(RowSet),
         Ascends(D \o (C \o O)), NEW R
  PROVE  OfSteps(D, R) \o (OfSteps(C, R) \o OfSteps(O, R)) = MergeSteps(OfSteps(D \o (C \o O), R))
  <1>1. PICK N, L : N = C \o O /\ L = D \o N
    OBVIOUS
  <1>2. N \in Seq(RowSet) /\ L \in Seq(RowSet)
    BY <1>1, Joined
  <1>3. /\ PartOf(D, L) /\ PartOf(N, L) /\ PartOf(L, L)
        /\ \A u \in StepsOf(D), w \in StepsOf(N) : u < w
    BY <1>1, <1>2, AscendsParts
  <1>4. /\ PartOf(C, N) /\ PartOf(O, N)
        /\ \A u \in StepsOf(C), w \in StepsOf(O) : u < w
    <2>1. Ascends(C \o O)
      BY <1>1, <1>3 DEF PartOf
    <2>2. /\ PartOf(C, C \o O) /\ PartOf(O, C \o O)
          /\ \A u \in StepsOf(C), w \in StepsOf(O) : u < w
      BY <2>1, AscendsParts
    <2> QED
      BY <1>1, <2>2
  <1>5. PICK x, y, z : x = OfSteps(D, R) /\ y = OfSteps(C, R) /\ z = OfSteps(O, R)
    OBVIOUS
  <1>6. /\ StepsOf(x) = StepsOf(D) \cap R /\ StepsOf(y) = StepsOf(C) \cap R
        /\ StepsOf(z) = StepsOf(O) \cap R
    BY <1>5, OfStepsSteps
  <1>7. PartOf(x, L) /\ PartOf(y, L) /\ PartOf(z, L)
    <2>1. PartOf(C, L) /\ PartOf(O, L)
      BY <1>3, <1>4, PartTrans
    <2> QED
      BY <1>3, <1>5, <2>1, PartOfSteps
  <1>8. PICK w : w = y \o z
    OBVIOUS
  <1>9. PartOf(w, L)
    <2>1. \A u \in StepsOf(y), t \in StepsOf(z) : u < t
      BY <1>4, <1>6
    <2> QED
      BY <1>7, <1>8, <2>1, PartConcat
  <1>10. StepsOf(w) = StepsOf(N) \cap R
    BY <1>1, <1>5, <1>8, WithinConcat
  <1>11. PICK r : r = x \o w
    OBVIOUS
  <1>12. PartOf(r, L)
    <2>1. \A u \in StepsOf(x), t \in StepsOf(w) : u < t
      BY <1>3, <1>6, <1>10
    <2> QED
      BY <1>7, <1>9, <1>11, <2>1, PartConcat
  <1>13. PICK s : s = OfSteps(L, R)
    OBVIOUS
  <1>14. PartOf(s, L) /\ StepsOf(s) = StepsOf(L) \cap R
    BY <1>2, <1>3, <1>13, PartOfSteps, OfStepsSteps
  <1>15. StepsOf(r) = StepsOf(s)
    <2>1. StepsOf(r) = StepsOf(x) \cup StepsOf(w)
      BY <1>7, <1>9, <1>11, StepsConcat DEF PartOf
    <2>2. StepsOf(L) = StepsOf(D) \cup StepsOf(N)
      BY <1>1, <1>2, StepsConcat
    <2> QED
      BY <1>6, <1>10, <1>14, <2>1, <2>2
  <1>16. r = s
    <2>1. Ascends(L)
      BY <1>3 DEF PartOf
    <2> QED
      BY <1>2, <1>12, <1>14, <1>15, <2>1, PartsEqual
  <1>17. MergeSteps(s) = s
    BY <1>14, MergeSelf DEF PartOf
  <1> QED
    BY <1>1, <1>5, <1>8, <1>11, <1>13, <1>16, <1>17, Zenon

\* The parts of a range answer.
Span(lo, hi) == {u \in Steps : InRange(u, lo, hi)}

RangeShape(lo, hi, withOpen, file, newer, old, records) ==
    LET merging == Merging(withOpen)
        view    == CacheRange(merging, lo, hi)
        inside  == OfSteps(DiskLines(file), Span(lo, hi))
        answer  == RangeAnswer(All, lo, hi, withOpen, file)
    IN  /\ newer = OfSteps(Rows(cache), Span(lo, hi)) \o OfSteps(Opened(withOpen), Span(lo, hi))
        /\ view.complete <=> \/ ~diskPrefix
                             \/ /\ ~merging /\ lo # NoStep /\ Rows(cache) # <<>>
                                /\ lo >= Head(Rows(cache)).step
        /\ view.complete => old = <<>>
        /\ ~view.complete /\ merging => old = MergeSteps(inside)
        /\ ~view.complete /\ ~merging => old = inside
        /\ records = old \o newer
        /\ merging => answer = MergeSteps(records)
        /\ ~merging => answer = records

LEMMA RangeParts ==
  ASSUME NEW lo, NEW hi, NEW withOpen, NEW file
  PROVE  \E newer, old, records : RangeShape(lo, hi, withOpen, file, newer, old, records)
  <1> DEFINE merging == Merging(withOpen)
             view    == CacheRange(merging, lo, hi)
             newer   == view.rows \o Within(Opened(withOpen), lo, hi)
             inside  == Within(DiskLines(file), lo, hi)
             old     == IF view.complete THEN <<>> ELSE IF merging THEN MergeSteps(inside) ELSE inside
             records == old \o newer
  <1>1. RangeAnswer(All, lo, hi, withOpen, file)
          = Newest(IF merging THEN MergeSteps(records) ELSE records, All)
    BY Zenon DEF RangeAnswer, Opened
  <1>2. \A s : Newest(s, All) = s
    BY DEF Newest
  <1>3. \A s : Within(s, lo, hi) = OfSteps(s, Span(lo, hi))
    BY Zenon DEF Within, Span
  <1>4. /\ view.rows = OfSteps(Rows(cache), Span(lo, hi))
        /\ view.complete <=> \/ ~diskPrefix
                             \/ /\ ~merging /\ lo # NoStep /\ Rows(cache) # <<>>
                                /\ lo >= Head(Rows(cache)).step
    BY <1>3 DEF CacheRange
  <1>5. PICK N : N = newer
    OBVIOUS
  <1>6. PICK o : o = old
    OBVIOUS
  <1>7. PICK r : r = records
    OBVIOUS
  <1>8. /\ view.complete => o = <<>>
        /\ ~view.complete /\ merging => o = MergeSteps(inside)
        /\ ~view.complete /\ ~merging => o = inside
    BY <1>6, Zenon
  <1>9. inside = OfSteps(DiskLines(file), Span(lo, hi))
    BY <1>3, Zenon
  <1>10. N = OfSteps(Rows(cache), Span(lo, hi)) \o OfSteps(Opened(withOpen), Span(lo, hi))
    BY <1>3, <1>4, <1>5, Zenon
  <1>11. r = o \o N
    BY <1>5, <1>6, <1>7, Zenon
  <1>12. /\ merging => RangeAnswer(All, lo, hi, withOpen, file) = MergeSteps(r)
         /\ ~merging => RangeAnswer(All, lo, hi, withOpen, file) = r
    <2> HIDE DEF records
    <2>1. RangeAnswer(All, lo, hi, withOpen, file) = IF merging THEN MergeSteps(records) ELSE records
      <3>1. PICK w : w = IF merging THEN MergeSteps(records) ELSE records
        OBVIOUS
      <3>2. RangeAnswer(All, lo, hi, withOpen, file) = Newest(w, All)
        BY <1>1, <3>1
      <3>3. Newest(w, All) = w
        BY <1>2
      <3> QED
        BY <3>1, <3>2, <3>3
    <2> QED
      BY <1>7, <2>1
  <1>13. RangeShape(lo, hi, withOpen, file, N, o, r)
    BY <1>4, <1>8, <1>9, <1>10, <1>11, <1>12, Zenon DEF RangeShape
  <1> QED
    BY <1>13

\* The rows of a range are exact.
LEMMA NoneSelected ==
  ASSUME NEW s \in Seq(RowSet), NEW R, \A u \in StepsOf(s) : u \notin R
  PROVE  OfSteps(s, R) = <<>>
  <1>1. PICK x : x = OfSteps(s, R)
    OBVIOUS
  <1>2. x \in Seq(RowSet) /\ StepsOf(x) = {}
    BY <1>1, OfStepsSteps
  <1>3. PICK l \in Nat : l = Len(x)
    BY <1>2
  <1>4. ASSUME l # 0 PROVE FALSE
    <2>1. 1 \in 1..l
      BY <1>4
    <2>2. x[1].step \in StepsOf(x)
      BY <1>3, <2>1 DEF StepsOf
    <2> QED
      BY <1>2, <2>2
  <1> QED
    BY <1>1, <1>2, <1>3, <1>4, NoSteps

LEMMA RangeMerging ==
  ASSUME Base, NEW D, NEW E, NEW C, Snapshot(D, E, C), NEW lo, NEW hi, NEW withOpen \in BOOLEAN,
         NEW file \in Readable, Merging(withOpen)
  PROVE  RangeAnswer(All, lo, hi, withOpen, file)
           = MergeSteps(OfSteps(D \o (C \o Opened(withOpen)), Span(lo, hi)))
  <1>1. PICK newer, old, records : RangeShape(lo, hi, withOpen, file, newer, old, records)
    BY RangeParts, Zenon
  <1>2. PICK O, R : O = Opened(withOpen) /\ R = Span(lo, hi)
    OBVIOUS
  <1>3. O \in Seq(RowSet)
    BY <1>2, OpenedIs
  <1>4. /\ D \in Seq(RowSet) /\ E \in Seq(RowSet) /\ C \in Seq(RowSet) /\ Rows(cache) = C
        /\ DiskLines(file) = D \o E /\ Among(E, C) /\ (~diskPrefix => D = <<>>)
    BY Zenon DEF Snapshot
  <1>5. PICK N : N = C \o O
    OBVIOUS
  <1>6. N \in Seq(RowSet) /\ Among(E, N)
    <2>1. N \in Seq(RowSet) /\ Follow(N, C, O)
      BY <1>3, <1>4, <1>5, Joined
    <2>2. ASSUME NEW i \in 1..Len(E) PROVE \E j \in 1..Len(N) : E[i] = N[j]
      <3>1. PICK j \in 1..Len(C) : E[i] = C[j]
        BY <1>4 DEF Among
      <3>2. j \in 1..Len(N) /\ N[j] = C[j]
        BY <2>1 DEF Follow
      <3> QED
        BY <3>1, <3>2
    <2> QED
      BY <2>1, <2>2 DEF Among
  <1>7. newer = OfSteps(C, R) \o OfSteps(O, R)
    BY <1>1, <1>2, <1>4, Zenon DEF RangeShape
  <1>8. /\ newer \in Seq(RowSet) /\ StepsOf(newer) = StepsOf(N) \cap R
        /\ \A u \in R, k \in Keys : Value(newer, u, k) = Value(N, u, k)
    <2>1. /\ OfSteps(C, R) \o OfSteps(O, R) \in Seq(RowSet)
          /\ StepsOf(OfSteps(C, R) \o OfSteps(O, R)) = StepsOf(C \o O) \cap R
          /\ \A u \in R, k \in Keys : Value(OfSteps(C, R) \o OfSteps(O, R), u, k) = Value(C \o O, u, k)
      BY <1>3, <1>4, WithinConcat
    <2> QED
      BY <1>5, <1>7, <2>1, Zenon
  <1>9. RangeAnswer(All, lo, hi, withOpen, file) = MergeSteps(records) /\ records = old \o newer
    BY <1>1, Zenon DEF RangeShape
  <1>10. MergeSteps(records) = MergeSteps(OfSteps(D \o N, R))
    <2>1. CASE ~diskPrefix
      <3>1. old = <<>> /\ D = <<>>
        BY <1>1, <1>4, <2>1, Zenon DEF RangeShape
      <3>2. records = newer /\ D \o N = N
        BY <1>6, <1>8, <1>9, <3>1, NoSteps
      <3>3. PICK z : z = OfSteps(N, R)
        OBVIOUS
      <3>4. z \in Seq(RowSet) /\ StepsOf(z) = StepsOf(newer)
        BY <1>6, <1>8, <3>3, OfStepsSteps
      <3>5. ASSUME NEW u \in StepsOf(newer), NEW k \in Keys PROVE Value(newer, u, k) = Value(z, u, k)
        <4>1. u \in R
          BY <1>8
        <4>2. Value(OfSteps(N, R), u, k) = Value(N, u, k)
          BY <1>6, <4>1, ValueOfSteps
        <4> QED
          BY <1>8, <3>3, <4>1, <4>2
      <3>6. MergeSteps(newer) = MergeSteps(z)
        BY <1>8, <3>4, <3>5, MergeSame
      <3> QED
        BY <3>2, <3>3, <3>6, Zenon
    <2>2. CASE diskPrefix
      <3>1. old = MergeSteps(OfSteps(D \o E, R))
        BY <1>1, <1>2, <1>4, <2>2, Zenon DEF RangeShape
      <3>2. MergeSteps(MergeSteps(OfSteps(D \o E, R)) \o newer) = MergeSteps(OfSteps(D \o N, R))
        <4>1. SameValues(newer, N, R)
          BY <1>8 DEF SameValues
        <4>2. D \in Seq(RowSet) /\ E \in Seq(RowSet) /\ N \in Seq(RowSet) /\ newer \in Seq(RowSet)
          BY <1>4, <1>6, <1>8
        <4>3. Among(E, N) /\ StepsOf(newer) = StepsOf(N) \cap R
          BY <1>6, <1>8
        <4> QED
          BY <4>1, <4>2, <4>3, RangeMerges
      <3> QED
        BY <1>9, <3>1, <3>2, Zenon
    <2> QED
      BY <2>1, <2>2
  <1> QED
    BY <1>2, <1>5, <1>9, <1>10, Zenon

LEMMA RangePlainly ==
  ASSUME Base, NEW D, NEW E, NEW C, Snapshot(D, E, C), NEW lo \in Int, NEW hi \in Int,
         NEW withOpen \in BOOLEAN, NEW file \in Readable, ~Merging(withOpen)
  PROVE  RangeAnswer(All, lo, hi, withOpen, file)
           = MergeSteps(OfSteps(D \o (C \o Opened(withOpen)), Span(lo, hi)))
  <1>1. PICK newer, old, records : RangeShape(lo, hi, withOpen, file, newer, old, records)
    BY RangeParts, Zenon
  <1>2. PICK O, R : O = Opened(withOpen) /\ R = Span(lo, hi)
    OBVIOUS
  <1>3. O \in Seq(RowSet)
    BY <1>2, OpenedIs
  <1>4. /\ D \in Seq(RowSet) /\ C \in Seq(RowSet) /\ Rows(cache) = C
        /\ DiskLines(file) = D \o E /\ (~diskPrefix => D = <<>>)
    BY Zenon DEF Snapshot
  <1>5. Ascends((D \o C) \o O) /\ E = <<>>
    BY <1>2, PlainAscends
  <1>6. DiskLines(file) = D
    BY <1>4, <1>5, NoSteps
  <1>7. Ascends(D \o (C \o O))
    <2>1. (D \o C) \o O = D \o (C \o O)
      BY <1>3, <1>4, SMTT(40)
    <2> QED
      BY <1>5, <2>1, Zenon
  <1>8. newer = OfSteps(C, R) \o OfSteps(O, R)
    BY <1>1, <1>2, <1>4, Zenon DEF RangeShape
  <1>9. old = OfSteps(D, R)
    <2>1. CASE ~CacheRange(Merging(withOpen), lo, hi).complete
      BY <1>1, <1>2, <1>6, <2>1, Zenon DEF RangeShape
    <2>2. CASE CacheRange(Merging(withOpen), lo, hi).complete
      <3>1. old = <<>>
        BY <1>1, <2>2, Zenon DEF RangeShape
      <3>2. \/ ~diskPrefix
            \/ lo # NoStep /\ C # <<>> /\ lo >= Head(C).step
        BY <1>1, <1>4, <2>2, Zenon DEF RangeShape
      <3>3. \A u \in StepsOf(D) : u \notin R
        <4>1. CASE ~diskPrefix
          BY <1>4, <4>1, NoSteps
        <4>2. CASE lo # NoStep /\ C # <<>> /\ lo >= Head(C).step
          <5>1. PICK N : N = C \o O
            OBVIOUS
          <5>2. N \in Seq(RowSet) /\ StepsOf(N) = StepsOf(C) \cup StepsOf(O)
            BY <1>3, <1>4, <5>1, Joined, StepsConcat
          <5>3. \A u \in StepsOf(D), w \in StepsOf(N) : u < w
            <6>1. Ascends(D \o N)
              BY <1>7, <5>1
            <6> QED
              BY <1>4, <5>2, <6>1, AscendsParts
          <5>4. PICK h : h = Head(C).step
            OBVIOUS
          <5>5. h \in StepsOf(C) /\ h \in Nat
            <6>1. 1 \in 1..Len(C) /\ Head(C) = C[1]
              BY <1>4, <4>2
            <6> QED
              BY <1>4, <5>4, <6>1, StepsAre
          <5>6. ASSUME NEW u \in StepsOf(D), u \in R PROVE FALSE
            <6>1. u \in Nat
              <7>1. u \in Steps
                BY <1>4, StepsAre
              <7> QED
                BY <7>1, StoreAssumption DEF Steps
            <6>2. u < h
              BY <5>2, <5>3, <5>5
            <6>3. u >= lo
              BY <1>2, <4>2, <5>6 DEF Span, InRange
            <6>4. lo >= h
              BY <4>2, <5>4
            <6> QED
              BY <5>5, <6>1, <6>2, <6>3, <6>4
          <5> QED
            BY <5>6
        <4> QED
          BY <3>2, <4>1, <4>2
      <3> QED
        BY <1>4, <3>1, <3>3, NoneSelected
    <2> QED
      BY <2>1, <2>2
  <1>10. RangeAnswer(All, lo, hi, withOpen, file) = OfSteps(D, R) \o (OfSteps(C, R) \o OfSteps(O, R))
    BY <1>1, <1>8, <1>9, Zenon DEF RangeShape
  <1>11. OfSteps(D, R) \o (OfSteps(C, R) \o OfSteps(O, R)) = MergeSteps(OfSteps(D \o (C \o O), R))
    BY <1>3, <1>4, <1>7, RangePlain
  <1> QED
    BY <1>2, <1>10, <1>11, Zenon

\* Every query is exact, whatever its limit and its range.
Answers ==
    \A withOpen \in BOOLEAN :
      LET log == Rows(Known) \o Opened(withOpen)
      IN  \A file \in Readable :
            /\ \A n \in Limit : TailAnswer(n, withOpen, file) = Exact(log, n)
            /\ \A lo, hi \in Int : RangeAnswer(All, lo, hi, withOpen, file) = MergeSteps(Within(log, lo, hi))

LEMMA QueriesAnswer ==
  ASSUME Base, Emit, Lines, ~Drifting
  PROVE  Answers
  <1>1. PICK D, E, C : Snapshot(D, E, C)
    BY Snapshots
  <1>2. ASSUME NEW withOpen \in BOOLEAN, NEW file \in Readable
        PROVE  LET log == Rows(Known) \o Opened(withOpen)
               IN  /\ \A n \in Limit : TailAnswer(n, withOpen, file) = Exact(log, n)
                   /\ \A lo, hi \in Int :
                        RangeAnswer(All, lo, hi, withOpen, file) = MergeSteps(Within(log, lo, hi))
    <2>1. PICK O, L : O = Opened(withOpen) /\ L = Rows(Known) \o O
      OBVIOUS
    <2>2. L = D \o (C \o O)
      <3>1. O \in Seq(RowSet)
        BY <2>1, OpenedIs
      <3>2. D \in Seq(RowSet) /\ C \in Seq(RowSet) /\ Rows(Known) = D \o C
        BY <1>1, Zenon DEF Snapshot
      <3>3. (D \o C) \o O = D \o (C \o O)
        BY <3>1, <3>2, SMTT(40)
      <3> QED
        BY <2>1, <3>2, <3>3, Zenon
    <2>3. ASSUME NEW n \in Limit PROVE TailAnswer(n, withOpen, file) = Exact(L, n)
      <3>1. TailAnswer(n, withOpen, file) = Exact(D \o (C \o Opened(withOpen)), n)
        <4>1. CASE Merging(withOpen)
          BY <1>1, <4>1, TailMerging
        <4>2. CASE ~Merging(withOpen)
          BY <1>1, <4>2, TailPlain
        <4> QED
          BY <4>1, <4>2
      <3> QED
        BY <2>1, <2>2, <3>1, Zenon
    <2>4. ASSUME NEW lo \in Int, NEW hi \in Int
          PROVE  RangeAnswer(All, lo, hi, withOpen, file) = MergeSteps(Within(L, lo, hi))
      <3>1. RangeAnswer(All, lo, hi, withOpen, file)
              = MergeSteps(OfSteps(D \o (C \o Opened(withOpen)), Span(lo, hi)))
        <4>1. CASE Merging(withOpen)
          BY <1>1, <4>1, RangeMerging
        <4>2. CASE ~Merging(withOpen)
          BY <1>1, <4>2, RangePlainly
        <4> QED
          BY <4>1, <4>2
      <3>2. Within(L, lo, hi) = OfSteps(L, Span(lo, hi))
        BY Zenon DEF Within, Span
      <3> QED
        BY <2>1, <2>2, <3>1, <3>2, Zenon
    <2> QED
      BY <2>1, <2>3, <2>4, Zenon
  <1> QED
    BY <1>2, Zenon DEF Answers

(* history() is exact: merged by step, no row missing or half merged, the  *)
(* newest n steps written or the steps of a range, with and without the    *)
(* open row, whatever was evicted, resumed, patched, reordered or dropped: *)
(* for every n and every range, of which the runs try a few.               *)
THEOREM QueriesExact == Spec => []((~Drifting => Answers) /\ QueryExact)
  <1>1. Init => Emit /\ Lines
    <2> SUFFICES ASSUME Init PROVE Emit /\ Lines
      OBVIOUS
    <2>1. row = 1 /\ lost = {} /\ stored = <<>> /\ pending = <<>> /\ next = 1
      BY Zenon DEF Init, Writer!Init
    <2>2. Emit
      BY <2>1 DEF Emit
    <2>3. Lines
      BY <2>1 DEF Lines
    <2> QED
      BY <2>2, <2>3
  <1>2. Base /\ Emit /\ Lines => (~Drifting => Answers)
    BY QueriesAnswer
  <1>3. Base /\ Emit /\ Lines => QueryExact
    <2> SUFFICES ASSUME Base, Emit, Lines, ~Drifting PROVE QueryExact
      BY DEF QueryExact
    <2>1. Answers
      BY QueriesAnswer
    <2>2. (open # NoStep) \in BOOLEAN
      OBVIOUS
    <2>3. {All, 1, 2} \subseteq Limit /\ {NoStep, 1} \subseteq Int /\ {NoStep, 2} \subseteq Int
      BY DEF Limit, NoStep
    <2>4. ASSUME NEW withOpen \in {FALSE, open # NoStep}, NEW file \in Readable
          PROVE  LET log == Rows(Known) \o (IF withOpen THEN OpenRow ELSE <<>>)
                 IN  /\ \A n \in {All, 1, 2} :
                          TailAnswer(n, withOpen, file) = MergeSteps(OfSteps(log, LatestSteps(log, n)))
                     /\ \A lo \in {NoStep, 1}, hi \in {NoStep, 2} :
                          RangeAnswer(All, lo, hi, withOpen, file) = MergeSteps(Within(log, lo, hi))
      <3>1. withOpen \in BOOLEAN
        BY <2>2
      <3>2. PICK log : log = Rows(Known) \o (IF withOpen THEN OpenRow ELSE <<>>)
        OBVIOUS
      <3>3. log = Rows(Known) \o Opened(withOpen)
        BY <3>2, Zenon DEF Opened
      <3>4. /\ \A n \in Limit : TailAnswer(n, withOpen, file) = Exact(log, n)
            /\ \A lo, hi \in Int :
                 RangeAnswer(All, lo, hi, withOpen, file) = MergeSteps(Within(log, lo, hi))
        BY <2>1, <3>1, <3>3, Zenon DEF Answers
      <3>5. \A n \in {All, 1, 2} :
              TailAnswer(n, withOpen, file) = MergeSteps(OfSteps(log, LatestSteps(log, n)))
        BY <2>3, <3>4, Zenon DEF Exact
      <3>6. \A lo \in {NoStep, 1}, hi \in {NoStep, 2} :
              RangeAnswer(All, lo, hi, withOpen, file) = MergeSteps(Within(log, lo, hi))
        BY <2>3, <3>4
      <3> QED
        BY <3>2, <3>5, <3>6, Zenon
    <2> QED
      BY <2>4, Zenon DEF QueryExact, Readable
  <1> QED
    BY <1>1, <1>2, <1>3, InitBase, NextBase, NextEmit, NextLines, PTL DEF Spec
=============================================================================

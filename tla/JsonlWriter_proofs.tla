-------------------------- MODULE JsonlWriter_proofs --------------------------
(***************************************************************************)
(* What the writer keeps, for any number of threads, any sizes and any     *)
(* limits: its control, the byte counts and the limits on what is held,    *)
(* what the file holds above and below the watermark, and, when a rollback *)
(* that fails is left out, that it implements WriterLog.                   *)
(***************************************************************************)
EXTENDS JsonlWriter, SequenceTheorems, FiniteSetTheorems, TLAPS

-----------------------------------------------------------------------------
(* Numbers and sequences                                                   *)

\* A set of numbers that is not empty has a least one.
LEMMA Least ==
  ASSUME NEW T, T \subseteq Nat, T # {}
  PROVE  \E x \in T : \A y \in T : x <= y
  <1>1. PICK top \in T : TRUE
    OBVIOUS
  <1>2. PICK S : S = 0..top
    OBVIOUS
  <1>3. top \in Nat /\ IsFiniteSet(S)
    BY <1>1, <1>2, FS_Interval
  <1>4. IsWellFoundedOn(StrictSubsetOrdering(S), SUBSET S)
    BY <1>3, FS_StrictSubsetOrderingWellFounded, FS_FiniteSubsetsOfFinite
  <1> DEFINE F == {0..x : x \in {z \in T : z <= top}}
  <1>5. F \subseteq SUBSET S /\ F # {}
    <2>1. \A x \in Nat : x <= top => 0..x \in SUBSET S
      BY <1>2, <1>3
    <2>2. top \in {z \in T : z <= top}
      BY <1>1, <1>3
    <2> QED
      BY <2>1, <2>2
  <1>6. PICK I \in F : \A J \in F : ~ (<<J, I>> \in StrictSubsetOrdering(S))
    BY <1>4, <1>5, WFMin
  <1>7. PICK x \in T : x <= top /\ I = 0..x
    BY <1>6
  <1>8. ASSUME NEW y \in T, y < x PROVE FALSE
    <2>1. PICK J : J = 0..y
      OBVIOUS
    <2>2. y \in Nat /\ x \in Nat /\ y <= top
      BY <1>3, <1>7, <1>8
    <2>3. J \in F
      BY <2>1, <2>2
    <2>4. J \subseteq I /\ J # I
      BY <1>7, <1>8, <2>1, <2>2
    <2> HIDE DEF F
    <2>5. J \in SUBSET S /\ I \in SUBSET S
      BY <1>5, <1>6, <2>3
    <2>6. <<J, I>> \in StrictSubsetOrdering(S)
      BY <2>4, <2>5 DEF StrictSubsetOrdering
    <2> QED
      BY <1>6, <2>3, <2>6
  <1>9. \A y \in T : x <= y
    BY <1>7, <1>8
  <1> QED
    BY <1>7, <1>9

\* Induction over a set of numbers.
LEMMA Inductive ==
  ASSUME NEW T, 0 \in T, \A n \in Nat : n \in T => n + 1 \in T
  PROVE  Nat \subseteq T
  <1> SUFFICES ASSUME Nat \ T # {} PROVE FALSE
    OBVIOUS
  <1>1. PICK x \in Nat \ T : \A y \in Nat \ T : x <= y
    BY Least
  <1>2. x - 1 \in Nat /\ x - 1 \in T
    BY <1>1
  <1> QED
    BY <1>1, <1>2

\* A sequence up to a position, and from there on.
LEMMA CutTo ==
  ASSUME NEW S, NEW s \in Seq(S), NEW k \in 0..Len(s)
  PROVE  /\ SubSeq(s, 1, k) \in Seq(S) /\ Len(SubSeq(s, 1, k)) = k
         /\ \A i \in 1..k : SubSeq(s, 1, k)[i] = s[i]
  OBVIOUS

LEMMA CutFrom ==
  ASSUME NEW S, NEW s \in Seq(S), NEW k \in 0..Len(s)
  PROVE  /\ SubSeq(s, k + 1, Len(s)) \in Seq(S) /\ Len(SubSeq(s, k + 1, Len(s))) = Len(s) - k
         /\ \A i \in 1..(Len(s) - k) : SubSeq(s, k + 1, Len(s))[i] = s[k + i]
  OBVIOUS

-----------------------------------------------------------------------------
(* Sums of bytes                                                           *)

Chunks == [row : Nat, bytes : Nat \ {0}]

\* The bytes of each prefix.
Sums(s) == CHOOSE f : f = [i \in 0..Len(s) |-> IF i = 0 THEN 0 ELSE f[i - 1] + s[i].bytes]

LEMMA SumsExist ==
  ASSUME NEW s \in Seq(Chunks)
  PROVE  \E f \in [0..Len(s) -> Nat] :
           f = [i \in 0..Len(s) |-> IF i = 0 THEN 0 ELSE f[i - 1] + s[i].bytes]
  <1> DEFINE Upto(f, m) == /\ f \in [0..m -> Nat] /\ f[0] = 0
                           /\ \A i \in 1..m : f[i] = f[i - 1] + s[i].bytes
             T == {m \in Nat : m <= Len(s) => \E f : Upto(f, m)}
  <1> HIDE DEF Upto
  <1>1. 0 \in T
    <2>1. PICK f : f = [i \in 0..0 |-> 0]
      OBVIOUS
    <2>2. f \in [0..0 -> Nat] /\ f[0] = 0
      BY <2>1
    <2>3. Upto(f, 0)
      BY <2>2 DEF Upto
    <2> QED
      BY <2>3
  <1>2. ASSUME NEW m \in Nat, m \in T PROVE m + 1 \in T
    <2>1. SUFFICES ASSUME m + 1 <= Len(s) PROVE \E g : Upto(g, m + 1)
      OBVIOUS
    <2>2. PICK f : Upto(f, m)
      BY <1>2, <2>1
    <2>3. m + 1 \in 1..Len(s)
      BY <2>1
    <2>4. PICK b \in Nat : b = s[m + 1].bytes
      <3>1. s[m + 1] \in Chunks
        BY <2>3
      <3> QED
        BY <3>1 DEF Chunks
    <2>5. PICK g : g = [i \in 0..(m + 1) |-> IF i = m + 1 THEN f[m] + b ELSE f[i]]
      OBVIOUS
    <2>6. /\ g \in [0..(m + 1) -> Nat]
          /\ g[m + 1] = f[m] + b /\ \A i \in 0..m : g[i] = f[i]
      BY <2>2, <2>5 DEF Upto
    <2>7. ASSUME NEW i \in 1..(m + 1) PROVE g[i] = g[i - 1] + s[i].bytes
      <3>1. CASE i = m + 1
        <4>1. i - 1 = m /\ m \in 0..m
          BY <3>1
        <4> QED
          BY <2>4, <2>6, <3>1, <4>1
      <3>2. CASE i # m + 1
        <4>1. i \in 1..m /\ i \in 0..m /\ i - 1 \in 0..m
          BY <3>2
        <4> QED
          BY <2>2, <2>6, <4>1 DEF Upto
      <3> QED
        BY <3>1, <3>2
    <2>8. g[0] = 0
      BY <2>2, <2>6 DEF Upto
    <2>9. Upto(g, m + 1)
      BY <2>6, <2>7, <2>8 DEF Upto
    <2> QED
      BY <2>9
  <1>3. Len(s) \in T
    <2> HIDE DEF T
    <2>1. Nat \subseteq T
      BY <1>1, <1>2, Inductive
    <2> QED
      BY <2>1
  <1>4. PICK f : Upto(f, Len(s))
    BY <1>3
  <1>5. PICK n \in Nat : n = Len(s)
    OBVIOUS
  <1>6. PICK g : g = [i \in 0..n |-> IF i = 0 THEN 0 ELSE f[i - 1] + s[i].bytes]
    OBVIOUS
  <1>7. \A i \in 0..n : g[i] = f[i]
    <2>1. ASSUME NEW i \in 0..n PROVE g[i] = f[i]
      <3>1. CASE i = 0
        BY <1>4, <1>5, <1>6, <3>1 DEF Upto
      <3>2. CASE i # 0
        <4>1. i \in 1..n
          BY <3>2
        <4> QED
          BY <1>4, <1>5, <1>6, <3>2, <4>1 DEF Upto
      <3> QED
        BY <3>1, <3>2
    <2> QED
      BY <2>1
  <1>8. f = g
    BY <1>4, <1>5, <1>6, <1>7 DEF Upto
  <1> QED
    BY <1>4, <1>5, <1>6, <1>8 DEF Upto

LEMMA SumsAre ==
  ASSUME NEW s \in Seq(Chunks)
  PROVE  /\ Sums(s) \in [0..Len(s) -> Nat] /\ Sums(s)[0] = 0
         /\ \A i \in 1..Len(s) : Sums(s)[i] = Sums(s)[i - 1] + s[i].bytes
         /\ BytesOf(s) = Sums(s)[Len(s)] /\ BytesOf(s) \in Nat
  <1>1. PICK f : f = Sums(s)
    OBVIOUS
  <1>2. PICK n \in Nat : n = Len(s)
    OBVIOUS
  <1>3. f = [i \in 0..n |-> IF i = 0 THEN 0 ELSE f[i - 1] + s[i].bytes]
    BY <1>1, <1>2, SumsExist, Zenon DEF Sums
  <1>4. f \in [0..n -> Nat]
    <2>1. PICK g \in [0..n -> Nat] : g = [i \in 0..n |-> IF i = 0 THEN 0 ELSE g[i - 1] + s[i].bytes]
      BY <1>2, SumsExist
    <2> DEFINE T == {m \in Nat : m <= n => f[m] = g[m]}
    <2>2. 0 \in T
      BY <1>3, <2>1
    <2>3. ASSUME NEW m \in Nat, m \in T PROVE m + 1 \in T
      <3>1. SUFFICES ASSUME m + 1 <= n PROVE f[m + 1] = g[m + 1]
        OBVIOUS
      <3>2. PICK k : k = m + 1
        OBVIOUS
      <3>3. k \in 0..n /\ k # 0 /\ k - 1 = m
        BY <3>1, <3>2
      <3>4. f[k] = f[k - 1] + s[k].bytes /\ g[k] = g[k - 1] + s[k].bytes
        BY <1>3, <2>1, <3>3
      <3>5. f[m] = g[m]
        BY <2>3, <3>1
      <3> QED
        BY <3>2, <3>3, <3>4, <3>5
    <2>4. Nat \subseteq T
      <3> HIDE DEF T
      <3> QED
        BY <2>2, <2>3, Inductive
    <2>5. ASSUME NEW i \in 0..n PROVE f[i] = g[i] /\ g[i] \in Nat
      <3>1. i \in T
        BY <2>4
      <3> QED
        BY <2>1, <3>1
    <2> QED
      BY <1>3, <2>5
  <1>5. f[0] = 0 /\ \A i \in 1..n : f[i] = f[i - 1] + s[i].bytes
    BY <1>3
  <1>6. BytesOf(s) = f[n]
    BY <1>1, <1>2, Zenon DEF BytesOf, Sums
  <1> QED
    BY <1>1, <1>2, <1>4, <1>5, <1>6

\* The sum over a prefix depends on the prefix.
LEMMA SumsAgree ==
  ASSUME NEW s \in Seq(Chunks), NEW t \in Seq(Chunks), NEW n \in Nat, n <= Len(s), n <= Len(t),
         \A i \in 1..n : s[i] = t[i]
  PROVE  \A i \in 0..n : Sums(s)[i] = Sums(t)[i]
  <1>1. PICK f, g : f = Sums(s) /\ g = Sums(t)
    OBVIOUS
  <1>2. /\ f[0] = 0 /\ \A i \in 1..n : f[i] = f[i - 1] + s[i].bytes
        /\ g[0] = 0 /\ \A i \in 1..n : g[i] = g[i - 1] + t[i].bytes
    <2>1. f[0] = 0 /\ \A i \in 1..Len(s) : f[i] = f[i - 1] + s[i].bytes
      BY <1>1, SumsAre
    <2>2. g[0] = 0 /\ \A i \in 1..Len(t) : g[i] = g[i - 1] + t[i].bytes
      BY <1>1, SumsAre
    <2>3. \A i \in 1..n : i \in 1..Len(s) /\ i \in 1..Len(t)
      OBVIOUS
    <2> QED
      BY <2>1, <2>2, <2>3
  <1> DEFINE T == {m \in Nat : m <= n => f[m] = g[m]}
  <1>3. 0 \in T
    BY <1>2
  <1>4. ASSUME NEW m \in Nat, m \in T PROVE m + 1 \in T
    <2>1. SUFFICES ASSUME m + 1 <= n PROVE f[m + 1] = g[m + 1]
      OBVIOUS
    <2>2. PICK k : k = m + 1
      OBVIOUS
    <2>3. k \in 1..n /\ k - 1 = m /\ f[m] = g[m]
      BY <1>4, <2>1, <2>2
    <2> QED
      BY <1>2, <2>2, <2>3
  <1>5. Nat \subseteq T
    <2> HIDE DEF T
    <2> QED
      BY <1>3, <1>4, Inductive
  <1>6. ASSUME NEW i \in 0..n PROVE f[i] = g[i]
    <2>1. i \in T
      BY <1>5
    <2> QED
      BY <2>1
  <1> QED
    BY <1>1, <1>6

\* Every chunk has bytes.
LEMMA SumsGrow ==
  ASSUME NEW s \in Seq(Chunks), NEW i \in 0..Len(s), NEW j \in 0..Len(s), i < j
  PROVE  Sums(s)[i] < Sums(s)[j]
  <1>0. PICK n \in Nat : n = Len(s)
    OBVIOUS
  <1>1. PICK f : f = Sums(s) /\ n = Len(s)
    BY <1>0
  <1>2. f \in [0..n -> Nat] /\ \A k \in 1..n : f[k] = f[k - 1] + s[k].bytes
    BY <1>1, SumsAre
  <1>3. ASSUME NEW k \in 1..n PROVE s[k].bytes \in Nat \ {0}
    <2>1. s[k] \in Chunks
      BY <1>1
    <2> QED
      BY <2>1 DEF Chunks
  <1> DEFINE T == {m \in Nat : i + 1 + m <= n => f[i] < f[i + 1 + m]}
  <1>4. ASSUME NEW k \in 1..n PROVE f[k - 1] \in Nat /\ f[k] \in Nat /\ f[k - 1] < f[k]
    <2>1. k - 1 \in 0..n /\ k \in 0..n
      OBVIOUS
    <2>2. PICK b \in Nat \ {0} : b = s[k].bytes
      BY <1>3
    <2>3. f[k] = f[k - 1] + b /\ f[k - 1] \in Nat /\ f[k] \in Nat
      BY <1>2, <2>1, <2>2
    <2> QED
      BY <2>3
  <1>5. 0 \in T
    <2>1. i + 1 <= n => i + 1 \in 1..n /\ (i + 1) - 1 = i
      BY <1>1
    <2>2. PICK k : k = i + 1
      OBVIOUS
    <2>3. k <= n => f[i] < f[k]
      BY <1>4, <2>1, <2>2
    <2> QED
      BY <2>2, <2>3
  <1>6. ASSUME NEW m \in Nat, m \in T PROVE m + 1 \in T
    <2>1. SUFFICES ASSUME i + 1 + (m + 1) <= n PROVE f[i] < f[i + 1 + (m + 1)]
      OBVIOUS
    <2>2. PICK k : k = i + 1 + m
      OBVIOUS
    <2>3. k + 1 \in 1..n /\ (k + 1) - 1 = k /\ i \in 0..n /\ k = i + 1 + m /\ k <= n
      BY <1>1, <2>1, <2>2
    <2>4. f[k] < f[k + 1] /\ f[k] \in Nat /\ f[k + 1] \in Nat /\ f[i] \in Nat
      BY <1>2, <1>4, <2>3
    <2>5. f[i] < f[k]
      BY <1>6, <2>3
    <2>6. i + 1 + (m + 1) = k + 1
      BY <1>1, <2>3
    <2>7. f[i] < f[k + 1]
      <3>1. PICK a \in Nat, b \in Nat, c \in Nat : a = f[i] /\ b = f[k] /\ c = f[k + 1]
        BY <2>4
      <3>2. a < b /\ b < c
        BY <2>4, <2>5, <3>1, Zenon
      <3>3. a < c
        BY <3>2
      <3> QED
        BY <3>1, <3>3, Zenon
    <2> QED
      BY <2>6, <2>7, Zenon
  <1>7. Nat \subseteq T
    <2> HIDE DEF T
    <2> QED
      BY <1>5, <1>6, Inductive
  <1>8. PICK m : m = j - i - 1
    OBVIOUS
  <1>9. m \in Nat /\ i + 1 + m = j /\ j <= n
    BY <1>1, <1>8
  <1>10. m \in T
    BY <1>7, <1>9
  <1>11. f[i] < f[j]
    BY <1>9, <1>10
  <1> QED
    BY <1>1, <1>11

LEMMA BytesConcat ==
  ASSUME NEW s \in Seq(Chunks), NEW t \in Seq(Chunks)
  PROVE  /\ BytesOf(s \o t) = BytesOf(s) + BytesOf(t)
         /\ \A i \in 0..Len(s) : Sums(s \o t)[i] = Sums(s)[i]
  <1>1. PICK u : u = s \o t
    OBVIOUS
  <1>2. /\ u \in Seq(Chunks) /\ Len(u) = Len(s) + Len(t)
        /\ \A i \in 1..Len(s) : u[i] = s[i]
        /\ \A i \in 1..Len(t) : u[Len(s) + i] = t[i]
    BY <1>1
  <1>3. PICK f : f = Sums(u)
    OBVIOUS
  <1>4. PICK g : g = Sums(t)
    OBVIOUS
  <1>5. PICK l \in Nat : l = Len(s)
    OBVIOUS
  <1>6. PICK n \in Nat : n = Len(t)
    OBVIOUS
  <1>7. \A i \in 0..l : f[i] = Sums(s)[i]
    <2>1. \A i \in 1..l : u[i] = s[i]
      BY <1>2, <1>5
    <2>2. l <= Len(u) /\ l <= Len(s)
      BY <1>2, <1>5, <1>6
    <2> QED
      BY <1>2, <1>3, <2>1, <2>2, SumsAgree
  <1>8. /\ \A i \in 1..(l + n) : f[i] = f[i - 1] + u[i].bytes
        /\ g \in [0..n -> Nat] /\ g[0] = 0 /\ \A i \in 1..n : g[i] = g[i - 1] + t[i].bytes
    <2>1. \A i \in 1..Len(u) : f[i] = f[i - 1] + u[i].bytes
      BY <1>2, <1>3, SumsAre
    <2>2. g \in [0..n -> Nat] /\ g[0] = 0 /\ \A i \in 1..n : g[i] = g[i - 1] + t[i].bytes
      BY <1>4, <1>6, SumsAre
    <2> QED
      BY <1>2, <1>5, <1>6, <2>1, <2>2
  <1>9. PICK b \in Nat : b = f[l] /\ b = BytesOf(s)
    <2>1. BytesOf(s) = Sums(s)[l] /\ BytesOf(s) \in Nat
      BY <1>5, SumsAre
    <2> QED
      BY <1>7, <2>1
  <1> DEFINE T == {m \in Nat : m <= n => f[l + m] = b + g[m]}
  <1>10. 0 \in T
    <2>1. l + 0 = l /\ g[0] = 0 /\ b + 0 = b
      BY <1>8
    <2>2. f[l + 0] = b + g[0]
      BY <1>9, <2>1, Zenon
    <2> QED
      BY <2>2
  <1>11. ASSUME NEW m \in Nat, m \in T PROVE m + 1 \in T
    <2>1. SUFFICES ASSUME m + 1 <= n PROVE f[l + (m + 1)] = b + g[m + 1]
      OBVIOUS
    <2>2. PICK k : k = m + 1
      OBVIOUS
    <2>3. k \in 1..n /\ k - 1 = m /\ l + k \in 1..(l + n) /\ (l + k) - 1 = l + m /\ m \in 0..n
      BY <2>1, <2>2
    <2>4. u[l + k] = t[k] /\ t[k] \in Chunks
      BY <1>2, <1>5, <1>6, <2>3
    <2>5. PICK c \in Nat : c = t[k].bytes
      BY <2>4 DEF Chunks
    <2>6. f[l + k] = f[l + m] + c /\ g[k] = g[m] + c
      BY <1>8, <2>3, <2>4, <2>5
    <2>7. f[l + m] = b + g[m] /\ g[m] \in Nat
      BY <1>8, <1>11, <2>1, <2>3
    <2>8. f[l + k] = b + g[k]
      <3>1. PICK x, y : x = f[l + m] /\ y = g[m]
        OBVIOUS
      <3>2. x = b + y /\ y \in Nat /\ f[l + k] = x + c /\ g[k] = y + c
        BY <2>6, <2>7, <3>1, Zenon
      <3>3. x + c = b + (y + c)
        BY <3>2
      <3> QED
        BY <3>2, <3>3, Zenon
    <2> QED
      BY <2>2, <2>8, Zenon
  <1>12. Nat \subseteq T
    <2> HIDE DEF T
    <2> QED
      BY <1>10, <1>11, Inductive
  <1>13. f[l + n] = b + g[n]
    <2>1. n \in T
      BY <1>12
    <2> QED
      BY <2>1
  <1>14. BytesOf(u) = f[l + n] /\ BytesOf(t) = g[n]
    <2>1. BytesOf(u) = f[Len(u)]
      BY <1>2, <1>3, SumsAre
    <2>2. BytesOf(t) = g[n]
      BY <1>4, <1>6, SumsAre
    <2> QED
      BY <1>2, <1>5, <1>6, <2>1, <2>2
  <1> QED
    BY <1>1, <1>3, <1>5, <1>7, <1>9, <1>13, <1>14

LEMMA BytesFew ==
  /\ BytesOf(<<>>) = 0
  /\ \A c \in Chunks : BytesOf(<<c>>) = c.bytes
  <1>0. <<>> \in Seq(Chunks)
    OBVIOUS
  <1>1. PICK s \in Seq(Chunks) : s = <<>>
    BY <1>0
  <1>2. Len(s) = 0 /\ BytesOf(s) = Sums(s)[Len(s)] /\ Sums(s)[0] = 0
    BY <1>1, SumsAre
  <1>3. ASSUME NEW c \in Chunks PROVE BytesOf(<<c>>) = c.bytes
    <2>0. <<c>> \in Seq(Chunks)
      OBVIOUS
    <2>1. PICK t \in Seq(Chunks) : t = <<c>>
      BY <2>0
    <2>2. Len(t) = 1 /\ t[1] = c
      BY <2>1
    <2>3. PICK f : f = Sums(t)
      OBVIOUS
    <2>4. f[0] = 0 /\ \A i \in 1..Len(t) : f[i] = f[i - 1] + t[i].bytes
      BY <2>3, SumsAre
    <2>5. BytesOf(t) = f[1]
      BY <2>2, <2>3, SumsAre
    <2>6. 1 \in 1..Len(t)
      BY <2>2
    <2>7. f[1] = 0 + c.bytes
      BY <2>2, <2>4, <2>6
    <2>8. c.bytes \in Nat
      BY DEF Chunks
    <2> QED
      BY <2>1, <2>5, <2>7, <2>8
  <1> QED
    BY <1>1, <1>2, <1>3

\* A sequence cut in two.
LEMMA BytesCut ==
  ASSUME NEW s \in Seq(Chunks), NEW k \in 0..Len(s)
  PROVE  /\ SubSeq(s, 1, k) \in Seq(Chunks) /\ SubSeq(s, k + 1, Len(s)) \in Seq(Chunks)
         /\ SubSeq(s, 1, k) \o SubSeq(s, k + 1, Len(s)) = s
         /\ BytesOf(SubSeq(s, 1, k)) = Sums(s)[k]
         /\ BytesOf(s) = BytesOf(SubSeq(s, 1, k)) + BytesOf(SubSeq(s, k + 1, Len(s)))
         /\ BytesOf(SubSeq(s, 1, k)) \in Nat /\ BytesOf(SubSeq(s, k + 1, Len(s))) \in Nat
  <1>1. PICK n \in Nat : n = Len(s)
    OBVIOUS
  <1>2. PICK p : p = SubSeq(s, 1, k)
    OBVIOUS
  <1>3. PICK q : q = SubSeq(s, k + 1, n)
    OBVIOUS
  <1>4. p \in Seq(Chunks) /\ Len(p) = k /\ \A i \in 1..k : p[i] = s[i]
    BY <1>1, <1>2
  <1>5. q \in Seq(Chunks) /\ Len(q) = n - k /\ \A i \in 1..(n - k) : q[i] = s[k + i]
    BY <1>1, <1>3
  <1>6. p \o q = s
    <2>1. PICK r : r = p \o q
      OBVIOUS
    <2>0. /\ r \in Seq(Chunks) /\ Len(r) = Len(p) + Len(q)
          /\ \A i \in 1..Len(p) : r[i] = p[i]
          /\ \A j \in 1..Len(q) : r[Len(p) + j] = q[j]
      <3>1. p \in Seq(Chunks) /\ q \in Seq(Chunks)
        BY <1>4, <1>5
      <3> QED
        BY <2>1, <3>1
    <2>2. /\ r \in Seq(Chunks) /\ Len(r) = n
          /\ \A i \in 1..k : r[i] = p[i]
      BY <1>1, <1>4, <1>5, <2>0
    <2>3. ASSUME NEW i \in 1..n PROVE r[i] = s[i]
      <3>1. CASE i <= k
        <4>1. i \in 1..k
          BY <3>1
        <4> QED
          BY <1>4, <2>2, <4>1
      <3>2. CASE i > k
        <4>1. PICK j : j = i - k
          OBVIOUS
        <4>2. j \in 1..(n - k) /\ k + j = i
          BY <1>1, <3>2, <4>1
        <4>3. \A m \in 1..(n - k) : r[k + m] = q[m]
          BY <1>4, <1>5, <2>0
        <4> QED
          BY <1>5, <4>2, <4>3
      <3> QED
        BY <1>1, <3>1, <3>2
    <2> QED
      BY <1>1, <2>1, <2>2, <2>3, SeqEqual
  <1>7. BytesOf(p) = Sums(s)[k]
    <2>1. k \in Nat /\ k <= Len(p) /\ k <= Len(s)
      BY <1>4
    <2>2. Sums(p)[k] = Sums(s)[k]
      <3>1. \A i \in 0..k : Sums(p)[i] = Sums(s)[i]
        BY <1>4, <2>1, SumsAgree
      <3> QED
        BY <2>1, <3>1
    <2> QED
      BY <1>4, <2>2, SumsAre
  <1>8. BytesOf(p \o q) = BytesOf(p) + BytesOf(q)
    BY <1>4, <1>5, BytesConcat
  <1>9. BytesOf(p) \in Nat /\ BytesOf(q) \in Nat
    BY <1>4, <1>5, SumsAre
  <1> QED
    BY <1>1, <1>2, <1>3, <1>4, <1>5, <1>6, <1>7, <1>8, <1>9, Zenon

\* Cutting a file at the end of a line drops the lines after it.
LEMMA TruncatedAt ==
  ASSUME NEW d \in Seq(Chunks), NEW e \in Seq(Chunks)
  PROVE  Truncated(d \o e, BytesOf(d)) = d
  <1>1. PICK f : f = d \o e
    OBVIOUS
  <1>2. PICK l \in Nat : l = Len(d)
    OBVIOUS
  <1>3. /\ f \in Seq(Chunks) /\ l \in 0..Len(f) /\ l <= Len(f)
        /\ \A i \in 1..l : f[i] = d[i]
    BY <1>1, <1>2
  <1>4. PICK b : b = BytesOf(d)
    OBVIOUS
  <1>5. b = Sums(f)[l]
    <2>1. BytesOf(d) = Sums(d)[l]
      BY <1>2, SumsAre
    <2>2. \A i \in 0..Len(d) : Sums(f)[i] = Sums(d)[i]
      BY <1>1, BytesConcat, Zenon
    <2>3. l \in 0..Len(d)
      BY <1>2
    <2> QED
      BY <1>4, <2>1, <2>2, <2>3, Zenon
  <1>6. \A k \in 0..Len(f) : BytesOf(SubSeq(f, 1, k)) = Sums(f)[k]
    BY <1>3, BytesCut
  <1>7. ASSUME NEW k \in 0..Len(f) PROVE Sums(f)[k] <= b <=> k <= l
    <2>1. PICK x \in Nat : x = Sums(f)[k]
      BY <1>3, SumsAre
    <2>2. b \in Nat
      BY <1>4, SumsAre
    <2>3. k < l => x < b
      BY <1>3, <1>5, <2>1, SumsGrow
    <2>4. l < k => b < x
      BY <1>3, <1>5, <2>1, SumsGrow
    <2>5. k = l => x = b
      BY <1>5, <2>1
    <2>6. k \in Nat /\ (x <= b <=> k <= l)
      BY <2>2, <2>3, <2>4, <2>5
    <2> QED
      BY <2>1, <2>6, Zenon
  <1>8. PICK fits : fits = {k \in 0..Len(f) : BytesOf(SubSeq(f, 1, k)) <= b}
    OBVIOUS
  <1>9. fits = 0..l
    <2>1. \A k \in 0..Len(f) : BytesOf(SubSeq(f, 1, k)) <= b <=> k <= l
      BY <1>6, <1>7, Zenon
    <2>2. \A k : k \in fits <=> k \in 0..Len(f) /\ k <= l
      BY <1>8, <2>1, Zenon
    <2>3. \A k : k \in 0..Len(f) /\ k <= l <=> k \in 0..l
      BY <1>3
    <2> QED
      BY <2>2, <2>3, Zenon
  <1>10. PICK k : k = CHOOSE m \in fits : \A j \in fits : j <= m
    OBVIOUS
  <1>11. k = l
    <2>1. l \in fits /\ \A j \in fits : j <= l
      BY <1>9
    <2>2. k \in fits /\ \A j \in fits : j <= k
      BY <1>10, <2>1, Zenon
    <2> QED
      BY <1>9, <2>1, <2>2
  <1>12. SubSeq(f, 1, l) = d
    <2>1. PICK g : g = SubSeq(f, 1, l)
      OBVIOUS
    <2>2. g \in Seq(Chunks) /\ Len(g) = l /\ \A i \in 1..l : g[i] = f[i]
      BY <1>3, <2>1
    <2>3. \A i \in 1..l : g[i] = d[i]
      BY <1>3, <2>2
    <2> QED
      BY <1>2, <2>1, <2>2, <2>3, SeqEqual
  <1>13. b - BytesOf(d) = 0 /\ b \in Nat
    BY <1>4, SumsAre
  <1>14. PICK rest : rest = b - BytesOf(SubSeq(f, 1, k))
    OBVIOUS
  <1>15. ~(rest > 0)
    <2>1. rest = b - BytesOf(d)
      BY <1>11, <1>12, <1>14, Zenon
    <2> QED
      BY <1>13, <2>1
  <1>16. Truncated(f, b) = SubSeq(f, 1, k) \o
           IF k < Len(f) /\ rest > 0 THEN <<[row |-> 0, bytes |-> rest]>> ELSE <<>>
    BY <1>8, <1>10, <1>14 DEF Truncated
  <1>17. d \o <<>> = d
    OBVIOUS
  <1> QED
    BY <1>1, <1>4, <1>11, <1>12, <1>15, <1>16, <1>17, Zenon

-----------------------------------------------------------------------------
(* Rows of a sequence                                                      *)

LEMMA RecordsAreChunks == Record \subseteq Chunks /\ Seq(Record) \subseteq Seq(Chunks)
  <1>1. Record \subseteq Chunks
    BY WriterAssumption DEF Record, Chunks
  <1> QED
    BY <1>1

LEMMA RowsConcat ==
  ASSUME NEW s \in Seq(Chunks), NEW t \in Seq(Chunks)
  PROVE  RowsOf(s \o t) = RowsOf(s) \cup RowsOf(t)
  <1>1. PICK u : u = s \o t
    OBVIOUS
  <1>2. /\ u \in Seq(Chunks) /\ Len(u) = Len(s) + Len(t)
        /\ \A i \in 1..Len(s) : u[i] = s[i]
        /\ \A i \in 1..Len(t) : u[Len(s) + i] = t[i]
    BY <1>1
  <1>3. ASSUME NEW i \in 1..Len(u) PROVE u[i].row \in RowsOf(s) \cup RowsOf(t)
    <2>1. CASE i <= Len(s)
      <3>1. i \in 1..Len(s) /\ u[i] = s[i]
        BY <1>2, <2>1
      <3> QED
        BY <3>1 DEF RowsOf
    <2>2. CASE i > Len(s)
      <3>1. PICK j : j = i - Len(s)
        OBVIOUS
      <3>2. j \in 1..Len(t) /\ Len(s) + j = i
        BY <1>2, <2>2, <3>1
      <3>3. u[i] = t[j]
        BY <1>2, <3>2
      <3> QED
        BY <3>2, <3>3 DEF RowsOf
    <2> QED
      BY <1>2, <2>1, <2>2
  <1>4. ASSUME NEW i \in 1..Len(s) PROVE s[i].row \in RowsOf(u)
    <2>1. i \in 1..Len(u) /\ u[i] = s[i]
      BY <1>2
    <2> QED
      BY <2>1 DEF RowsOf
  <1>5. ASSUME NEW i \in 1..Len(t) PROVE t[i].row \in RowsOf(u)
    <2>1. Len(s) + i \in 1..Len(u) /\ u[Len(s) + i] = t[i]
      BY <1>2
    <2> QED
      BY <2>1 DEF RowsOf
  <1>6. \A x : x \in RowsOf(u) => x \in RowsOf(s) \cup RowsOf(t)
    BY <1>3 DEF RowsOf
  <1>7. \A x : x \in RowsOf(s) \cup RowsOf(t) => x \in RowsOf(u)
    <2>1. \A x : x \in RowsOf(s) => x \in RowsOf(u)
      BY <1>4 DEF RowsOf
    <2>2. \A x : x \in RowsOf(t) => x \in RowsOf(u)
      BY <1>5 DEF RowsOf
    <2> QED
      BY <2>1, <2>2
  <1> QED
    BY <1>1, <1>6, <1>7

LEMMA RowsFew ==
  /\ RowsOf(<<>>) = {}
  /\ \A c \in Chunks : RowsOf(<<c>>) = {c.row}
  <1>1. RowsOf(<<>>) = {}
    BY DEF RowsOf
  <1>2. ASSUME NEW c \in Chunks PROVE RowsOf(<<c>>) = {c.row}
    <2>0. <<c>> \in Seq(Chunks)
      OBVIOUS
    <2>1. PICK t \in Seq(Chunks) : t = <<c>>
      BY <2>0
    <2>2. Len(t) = 1 /\ t[1] = c /\ 1..1 = {1}
      BY <2>1
    <2>3. RowsOf(t) = {c.row}
      BY <2>2 DEF RowsOf
    <2> QED
      BY <2>1, <2>3, Zenon
  <1> QED
    BY <1>1, <1>2

-----------------------------------------------------------------------------
(* Control                                                                 *)

\* One thread at a time owns the batch, before the writer has closed, and
\* there is a batch exactly while somebody owns it.
Flushing(t) == pc[t] \in {"write", "commit", "undo"}

OneFlush ==
    /\ \A t \in Everyone : Flushing(t) => wlock = t /\ ~closed /\ inflight # <<>>
    /\ inflight # <<>> => \E t \in Everyone : Flushing(t)

\* A thread at admission has a record to admit.
NeedSet == \A t \in Threads :
    pc[t] \in {"admit", "observe", "start_observe", "wait"} => need[t] \in Sizes

LEMMA InitNeedSet == Init => NeedSet
  BY WriterAssumption DEF Init, NeedSet, Everyone

LEMMA NextNeedSet == TypeOK /\ NeedSet /\ [Next]_vars => NeedSet'
  <1> SUFFICES ASSUME TypeOK, NeedSet, [Next]_vars PROVE NeedSet'
    OBVIOUS
  <1> USE DEF Everyone, NeedSet, TypeOK
  <1>1. ASSUME NEW t \in Threads, ClientCall(t) PROVE NeedSet'
    BY <1>1 DEF ClientCall, Append_, Flush, BeginClose, CloseAgain, Goto, GotoNotify
  <1>2. ASSUME NEW t \in Threads, Push(t) PROVE NeedSet'
    BY <1>2 DEF Push, Goto, GotoNotify, AtAdmission
  <1>3. ASSUME NEW t \in Threads, ClientStep(t), ~Push(t) PROVE NeedSet'
    BY <1>3 DEF ClientStep, Refuse, RejectOversized, Backpressure, Wait, DropNewest,
                AwaitClosed, Join, EndClose, Goto, GotoNotify, AtAdmission
  <1>4. ASSUME NEW t \in Everyone, FlushStep(t) PROVE NeedSet'
    BY <1>4 DEF FlushStep, TakeBatch, NothingToTake, WriteBatch, WriteFails, CommitBatch, Watermark, UndoBatch, Undone, Requeued,
                Reschedule, StartWorker, Goto, GotoNotify, Home
  <1>5. CASE WorkerStep
    BY <1>5 DEF WorkerStep, WorkDue, WorkerExit, Goto
  <1>6. CASE UNCHANGED vars
    BY <1>6 DEF vars
  <1> QED
    BY <1>1, <1>2, <1>3, <1>4, <1>5, <1>6 DEF Next, Finished

LEMMA InitOneFlush == Init => OneFlush
  <1> SUFFICES ASSUME Init PROVE OneFlush
    OBVIOUS
  <1>1. \A t \in Everyone : ~Flushing(t)
    BY DEF Init, Flushing
  <1> QED
    BY <1>1 DEF Init, OneFlush

\* A step that moves nobody into or out of a flush.
LEMMA OneFlushFrame ==
  ASSUME OneFlush, \A u \in Everyone : Flushing(u)' <=> Flushing(u),
         UNCHANGED <<inflight, wlock, closed>>
  PROVE  OneFlush'
  BY DEF OneFlush

LEMMA NextOneFlush == TypeOK /\ OneFlush /\ [Next]_vars => OneFlush'
  <1> SUFFICES ASSUME TypeOK, OneFlush, [Next]_vars PROVE OneFlush'
    OBVIOUS
  <1> USE WriterAssumption
      DEF Everyone, OneFlush, Flushing, TypeOK, queueVars, batchVars, lifeVars
  <1>1. ASSUME NEW t \in Threads, ClientCall(t) PROVE OneFlush'
    <2>1. \A u \in Everyone : Flushing(u)' <=> Flushing(u)
      BY <1>1 DEF ClientCall, Append_, Flush, BeginClose, CloseAgain, Goto, GotoNotify
    <2>2. UNCHANGED <<inflight, wlock, closed>>
      BY <1>1 DEF ClientCall, Append_, Flush, BeginClose, CloseAgain
    <2> QED
      BY <2>1, <2>2, OneFlushFrame
  <1>2. ASSUME NEW t \in Threads, Push(t) PROVE OneFlush'
    BY <1>2 DEF Push, Goto, GotoNotify, AtAdmission
  <1>3. ASSUME NEW t \in Threads, ClientStep(t), ~Push(t), ~EndClose(t) PROVE OneFlush'
    <2>1. \A u \in Everyone : Flushing(u)' <=> Flushing(u)
      BY <1>3 DEF ClientStep, Refuse, RejectOversized, Backpressure, Wait, DropNewest,
                  AwaitClosed, Join, Goto, GotoNotify, AtAdmission
    <2>2. UNCHANGED <<inflight, wlock, closed>>
      BY <1>3 DEF ClientStep, Refuse, RejectOversized, Backpressure, Wait, DropNewest,
                  AwaitClosed, Join
    <2> QED
      BY <2>1, <2>2, OneFlushFrame
  <1>10. ASSUME NEW t \in Threads, EndClose(t) PROVE OneFlush'
    <2>1. \A u \in Everyone : ~Flushing(u) /\ ~Flushing(u)'
      BY <1>10 DEF EndClose, GotoNotify
    <2> QED
      BY <1>10, <2>1 DEF EndClose
  <1>4. ASSUME NEW t \in Everyone, TakeBatch(t) PROVE OneFlush'
    BY <1>4 DEF TakeBatch, NothingToTake, Goto
  <1>5. ASSUME NEW t \in Everyone, WriteBatch(t) \/ WriteFails(t) PROVE OneFlush'
    <2>1. \A u \in Everyone : Flushing(u)' <=> Flushing(u)
      BY <1>5 DEF WriteBatch, WriteFails, Goto
    <2>2. UNCHANGED <<inflight, wlock, closed>>
      BY <1>5 DEF WriteBatch, WriteFails
    <2> QED
      BY <2>1, <2>2, OneFlushFrame
  <1>6. ASSUME NEW t \in Everyone, CommitBatch(t) \/ UndoBatch(t) PROVE OneFlush'
    <2>1. \A u \in Everyone : Flushing(u) => u = t
      BY <1>6 DEF CommitBatch, Watermark, UndoBatch, Undone, Requeued
    <2>2. \A u \in Everyone : ~Flushing(u)'
      BY <1>6, <2>1 DEF CommitBatch, Watermark, UndoBatch, Undone, Requeued, GotoNotify
    <2>3. inflight' = <<>>
      BY <1>6 DEF CommitBatch, Watermark, UndoBatch, Undone, Requeued
    <2> QED
      BY <2>2, <2>3
  <1>7. ASSUME NEW t \in Everyone, Reschedule(t) \/ StartWorker(t) PROVE OneFlush'
    <2>1. \A u \in Everyone : Flushing(u)' <=> Flushing(u)
      <3>1. CASE Reschedule(t)
        <4>1. PICK label \in {"start", "work", "end_close", "idle"} :
                GotoNotify(t, label) \/ Goto(t, label)
          BY <3>1 DEF Reschedule, Home
        <4> QED
          BY <3>1, <4>1 DEF Reschedule, Goto, GotoNotify
      <3>2. CASE StartWorker(t)
        BY <3>2 DEF StartWorker, Home
      <3> QED
        BY <1>7, <3>1, <3>2
    <2>2. UNCHANGED <<inflight, closed>>
      BY <1>7 DEF Reschedule, StartWorker
    <2>3. wlock' = wlock \/ wlock = t
      BY <1>7 DEF Reschedule, StartWorker
    <2>4. ~Flushing(t)
      BY <1>7 DEF Reschedule, StartWorker
    <2> QED
      BY <2>1, <2>2, <2>3, <2>4
  <1>8. CASE WorkerStep
    <2>1. \A u \in Everyone : Flushing(u)' <=> Flushing(u)
      BY <1>8 DEF WorkerStep, WorkDue, WorkerExit, Goto
    <2>2. UNCHANGED <<inflight, wlock, closed>>
      BY <1>8 DEF WorkerStep, WorkDue, WorkerExit
    <2> QED
      BY <2>1, <2>2, OneFlushFrame
  <1>9. CASE UNCHANGED vars
    BY <1>9 DEF vars
  <1> QED
    BY <1>1, <1>2, <1>3, <1>4, <1>5, <1>6, <1>7, <1>8, <1>9, <1>10
       DEF Next, FlushStep, Finished

LEMMA InitTypeOK == Init => TypeOK
  <1> SUFFICES ASSUME Init PROVE TypeOK
    OBVIOUS
  <1>1. pc \in [Everyone -> Labels]
    BY DEF Init, Labels
  <1>2. queue \in Seq(Record) /\ inflight \in Seq(Record)
    BY DEF Init
  <1>3. calls \in 0..MaxCalls /\ fails \in 0..MaxFails
    BY WriterAssumption DEF Init
  <1>4. need \in [Threads -> Sizes \cup {0}] /\ lost \in SUBSET Nat
    BY DEF Init
  <1>5. /\ wlock \in Everyone \cup {NoOne} /\ closer \in Threads \cup {NoOne}
        /\ flushed \in Nat /\ dropped \in Nat /\ nextRow \in Nat \ {0}
    BY DEF Init
  <1>6. /\ retry \in BOOLEAN /\ requested \in BOOLEAN /\ deadline \in BOOLEAN
        /\ started \in BOOLEAN /\ appended \in BOOLEAN /\ duplicates \in BOOLEAN
        /\ async \in BOOLEAN /\ closing \in BOOLEAN /\ closed \in BOOLEAN
    BY WriterAssumption DEF Init
  <1> QED
    BY <1>1, <1>2, <1>3, <1>4, <1>5, <1>6 DEF TypeOK

\* Writer::schedule keeps the timer flags Boolean, whatever it decides.
LEMMA ScheduledTypes ==
  ASSUME TypeOK, NEW q, NEW imm \in BOOLEAN, Scheduled(q, imm)
  PROVE  /\ requested' \in BOOLEAN /\ deadline' \in BOOLEAN /\ started' \in BOOLEAN
  BY DEF TypeOK, Scheduled, timerVars

LEMMA RowsOfType == ASSUME NEW s \in Seq(Record) PROVE RowsOf(s) \subseteq Nat
  <1>1. ASSUME NEW i \in 1..Len(s) PROVE s[i].row \in Nat
    <2>1. s[i] \in Record
      OBVIOUS
    <2> QED
      BY <2>1 DEF Record
  <1> QED
    BY <1>1 DEF RowsOf

\* Whatever a thread moves to, and whoever it wakes, pc keeps its type.
LEMMA GotoTypes ==
  ASSUME pc \in [Everyone -> Labels], NEW t \in Everyone, NEW label \in Labels,
         Goto(t, label) \/ GotoNotify(t, label)
  PROVE  pc' \in [Everyone -> Labels]
  <1>1. "admit" \in Labels
    BY DEF Labels
  <1> QED
    BY <1>1 DEF Goto, GotoNotify

LEMMA NextTypeOK == TypeOK /\ NeedSet /\ OneFlush /\ [Next]_vars => TypeOK'
  <1> SUFFICES ASSUME TypeOK, NeedSet, OneFlush, [Next]_vars PROVE TypeOK'
    OBVIOUS
  <1> USE DEF Everyone, Labels, queueVars, batchVars, timerVars, lifeVars, fileVars, countVars
  <1>1. ASSUME NEW t \in Threads, Append_(t) PROVE TypeOK'
    BY <1>1, WriterAssumption DEF Append_, TypeOK, Goto
  <1>2. ASSUME NEW t \in Threads, Flush(t) PROVE TypeOK'
    BY <1>2, WriterAssumption DEF Flush, TypeOK, Goto
  <1>3. ASSUME NEW t \in Threads, BeginClose(t) PROVE TypeOK'
    BY <1>3 DEF BeginClose, TypeOK, GotoNotify
  <1>4. ASSUME NEW t \in Threads, CloseAgain(t) \/ AwaitClosed(t) \/ Join(t) PROVE TypeOK'
    <2>1. CASE CloseAgain(t)
      BY <2>1 DEF CloseAgain, TypeOK, Goto
    <2>2. CASE AwaitClosed(t)
      BY <2>2 DEF AwaitClosed, TypeOK, Goto
    <2>3. CASE Join(t)
      BY <2>3 DEF Join, TypeOK, Goto
    <2> QED
      BY <1>4, <2>1, <2>2, <2>3
  <1>5. ASSUME NEW t \in Threads, Refuse(t) \/ Wait(t) PROVE TypeOK'
    <2>1. CASE Refuse(t)
      BY <2>1 DEF Refuse, TypeOK, Goto
    <2>2. CASE Wait(t)
      BY <2>2 DEF Wait, TypeOK, Goto
    <2> QED
      BY <1>5, <2>1, <2>2
  <1>7. ASSUME NEW t \in Threads, RejectOversized(t) PROVE TypeOK'
    BY <1>7 DEF RejectOversized, TypeOK, Goto
  <1>6. ASSUME NEW t \in Threads, Backpressure(t) PROVE TypeOK'
    BY <1>6, ScheduledTypes DEF Backpressure, TypeOK, GotoNotify
  <1>9. ASSUME NEW t \in Threads, EndClose(t) PROVE TypeOK'
    BY <1>9 DEF EndClose, TypeOK, GotoNotify
  <1>8. ASSUME NEW t \in Threads, Push(t) PROVE TypeOK'
    <2>1. need[t] \in Sizes
      BY <1>8 DEF Push, AtAdmission, NeedSet
    <2>2. PICK k \in 0..Len(queue) :
            /\ queue' = Append(SubSeq(queue, k + 1, Len(queue)),
                               [row |-> nextRow, bytes |-> need[t]])
            /\ dropped' = dropped + k
            /\ Discard(k)
      BY <1>8 DEF Push
    <2>3. queue' \in Seq(Record)
      <3>1. [row |-> nextRow, bytes |-> need[t]] \in Record
        BY <2>1 DEF TypeOK, Record
      <3>2. SubSeq(queue, k + 1, Len(queue)) \in Seq(Record)
        BY DEF TypeOK
      <3> QED
        BY <2>2, <3>1, <3>2
    <2>4. lost' \in SUBSET Nat
      <3>1. SubSeq(queue, 1, k) \in Seq(Record)
        BY DEF TypeOK
      <3> QED
        BY <2>2, <3>1, RowsOfType DEF TypeOK, Discard
    <2>5. /\ requested' \in BOOLEAN /\ deadline' \in BOOLEAN /\ started' \in BOOLEAN
          /\ pc' \in [Everyone -> Labels]
      <3>1. PICK elapsed \in BOOLEAN :
              LET due == Len(queue') >= BufferSize \/ ~appended \/ elapsed
              IN  IF async
                  THEN /\ Scheduled(queue', due)
                       /\ LET next == IF Starts THEN "start" ELSE "idle"
                          IN  IF <<requested, deadline>>' # <<requested, deadline>> \/ Starts
                              THEN GotoNotify(t, next) ELSE Goto(t, next)
                  ELSE /\ Goto(t, IF due THEN "flush" ELSE "sched")
                       /\ UNCHANGED timerVars
        BY <1>8 DEF Push
      <3> DEFINE due == Len(queue') >= BufferSize \/ ~appended \/ elapsed
      <3>2. CASE async
        <4>1. Scheduled(queue', due) /\ due \in BOOLEAN
          BY <3>1, <3>2
        <4>2. pc' \in [Everyone -> Labels]
          BY <3>1, <3>2 DEF TypeOK, Goto, GotoNotify
        <4> QED
          BY <4>1, <4>2, ScheduledTypes
      <3>3. CASE ~async
        BY <3>1, <3>3 DEF TypeOK, Goto
      <3> QED
        BY <3>2, <3>3
    <2> QED
      BY <1>8, <2>2, <2>3, <2>4, <2>5 DEF Push, TypeOK
  <1>10. ASSUME NEW t \in Threads, DropNewest(t) PROVE TypeOK'
    <2>1. queue' \in Seq(Record) /\ dropped' \in Nat /\ pc' \in [Everyone -> Labels]
      BY <1>10 DEF DropNewest, TypeOK, Goto
    <2>2. lost' \in SUBSET Nat
      <3>1. SubSeq(queue, 1, Len(queue)) \in Seq(Record)
        BY DEF TypeOK
      <3> QED
        BY <1>10, <3>1, RowsOfType DEF DropNewest, TypeOK, Discard
    <2> QED
      BY <1>10, <2>1, <2>2 DEF DropNewest, TypeOK
  <1>11. ASSUME NEW t \in Everyone, WriteBatch(t) PROVE TypeOK'
    BY <1>11 DEF WriteBatch, TypeOK, Goto
  <1>12. ASSUME NEW t \in Everyone, WriteFails(t) PROVE TypeOK'
    <2>1. pc' \in [Everyone -> Labels] /\ fails' \in 0..MaxFails
      BY <1>12, WriterAssumption DEF WriteFails, TypeOK, Goto
    <2> QED
      BY <2>1, <1>12 DEF WriteFails, TypeOK
  <1>13. ASSUME NEW t \in Everyone, TakeBatch(t) PROVE TypeOK'
    <2>1. pc' \in [Everyone -> Labels] /\ wlock' \in Everyone
      BY <1>13 DEF TakeBatch, NothingToTake, TypeOK, Goto
    <2>2. requested' \in BOOLEAN /\ deadline' \in BOOLEAN
      BY <1>13 DEF TakeBatch, NothingToTake, TypeOK
    <2>3. queue' \in Seq(Record) /\ inflight' \in Seq(Record)
      <3>1. CASE closed \/ queue = <<>>
        BY <1>13, <3>1 DEF TakeBatch, NothingToTake, TypeOK
      <3>2. CASE ~(closed \/ queue = <<>>)
        BY <1>13, <3>2 DEF TakeBatch, NothingToTake, TypeOK
      <3> QED
        BY <3>1, <3>2
    <2> QED
      BY <1>13, <2>1, <2>2, <2>3 DEF TakeBatch, NothingToTake, TypeOK
  <1>18. ASSUME NEW t \in Everyone, CommitBatch(t), inflight # <<>> PROVE TypeOK'
    <2>1. inflight[Len(inflight)] \in Record
      BY <1>18 DEF TypeOK
    <2>2. flushed' \in Nat
      BY <1>18, <2>1 DEF CommitBatch, Watermark, TypeOK, Last, Record
    <2>3. pc' \in [Everyone -> Labels] /\ inflight' \in Seq(Record)
      BY <1>18, SMTT(30) DEF CommitBatch, TypeOK, GotoNotify
    <2>4. /\ retry' = FALSE
          /\ UNCHANGED <<need, wlock, queueVars, timerVars, lifeVars,
                         duplicates, fails, countVars, calls>>
      BY <1>18 DEF CommitBatch
    <2>5. retry' \in BOOLEAN /\ lost' \in SUBSET Nat /\ fails' \in 0..MaxFails
      BY <2>4 DEF TypeOK
    <2>6. queue' \in Seq(Record) /\ dropped' \in Nat /\ nextRow' \in Nat \ {0}
      BY <2>4 DEF TypeOK
    <2>7. /\ need' \in [Threads -> Sizes \cup {0}]
          /\ wlock' \in Everyone \cup {NoOne} /\ closer' \in Threads \cup {NoOne}
      BY <2>4 DEF TypeOK
    <2> QED
      BY <2>2, <2>3, <2>4, <2>5, <2>6, <2>7, Zenon DEF TypeOK
  <1>19. ASSUME NEW t \in Everyone, UndoBatch(t) PROVE TypeOK'
    <2>1. queue' \in Seq(Record) /\ inflight' \in Seq(Record)
      BY <1>19 DEF UndoBatch, Undone, Requeued, TypeOK
    <2>2. requested' \in BOOLEAN /\ deadline' \in BOOLEAN /\ duplicates' \in BOOLEAN
      BY <1>19, Zenon DEF UndoBatch, Undone, Requeued, TypeOK
    <2>3. pc' \in [Everyone -> Labels]
      BY <1>19 DEF UndoBatch, Undone, Requeued, TypeOK, GotoNotify
    <2> QED
      BY <1>19, <2>1, <2>2, <2>3 DEF UndoBatch, Undone, Requeued, TypeOK
  <1>14. ASSUME NEW t \in Everyone, Reschedule(t) PROVE TypeOK'
    <2>1. requested' \in BOOLEAN /\ deadline' \in BOOLEAN /\ started' \in BOOLEAN
      BY <1>14, ScheduledTypes DEF Reschedule
    <2>2. PICK label \in {"start", Home(t)} : Goto(t, label) \/ GotoNotify(t, label)
      BY <1>14 DEF Reschedule
    <2>3. Home(t) \in Labels /\ "start" \in Labels
      BY DEF Home
    <2>4. pc' \in [Everyone -> Labels]
      BY <2>2, <2>3, GotoTypes DEF TypeOK
    <2>5. wlock' \in Everyone \cup {NoOne}
      BY <1>14 DEF Reschedule, TypeOK
    <2>6. UNCHANGED <<need, queueVars, batchVars, retry, lifeVars, fileVars, countVars, calls>>
      BY <1>14 DEF Reschedule
    <2> QED
      BY <2>1, <2>4, <2>5, <2>6, SMTT(30) DEF TypeOK
  <1>15. ASSUME NEW t \in Everyone, StartWorker(t) PROVE TypeOK'
    BY <1>15 DEF StartWorker, TypeOK, Home
  <1>16. CASE WorkerStep
    <2>1. \E label \in {"flush", "exited"} :
            /\ Goto(Worker, label)
            /\ UNCHANGED <<need, wlock, queueVars, batchVars, retry, timerVars,
                           lifeVars, fileVars, countVars, calls>>
      <3>1. CASE WorkDue
        BY <3>1 DEF WorkDue
      <3>2. CASE WorkerExit
        BY <3>2 DEF WorkerExit
      <3> QED
        BY <1>16, <3>1, <3>2 DEF WorkerStep
    <2>2. pc' \in [Everyone -> Labels]
      BY <2>1 DEF TypeOK, Goto
    <2>3. UNCHANGED <<need, wlock, queueVars, batchVars, retry, timerVars,
                      lifeVars, fileVars, countVars, calls>>
      BY <2>1
    <2> QED
      BY <2>2, <2>3 DEF TypeOK
  <1>17. CASE UNCHANGED vars
    BY <1>17 DEF vars, TypeOK
  <1>20. ASSUME NEW t \in Everyone, CommitBatch(t) PROVE inflight # <<>>
    BY <1>20 DEF CommitBatch, Watermark, OneFlush, Flushing
  <1> QED
    BY <1>1, <1>2, <1>3, <1>4, <1>5, <1>6, <1>7, <1>8, <1>9, <1>10, <1>11, <1>12, <1>13,
       <1>14, <1>15, <1>16, <1>17, <1>18, <1>19, <1>20
       DEF Next, ClientCall, ClientStep, FlushStep, Finished

(* Every reachable state of the writer is well typed.                      *)
THEOREM TypeCorrect == Spec => [](TypeOK /\ NeedSet /\ OneFlush)
  <1>1. Init => TypeOK /\ NeedSet /\ OneFlush
    BY InitTypeOK, InitNeedSet, InitOneFlush
  <1>2. TypeOK /\ NeedSet /\ OneFlush /\ [Next]_vars => (TypeOK /\ NeedSet /\ OneFlush)'
    BY NextTypeOK, NextNeedSet, NextOneFlush
  <1> QED
    BY <1>1, <1>2, PTL DEF Spec

(* No thread touches the file or the watermark once the writer has closed: *)
(* flush() owns the write lock from taking its batch to accounting for it, *)
(* and end_close() waits for that lock.                                    *)
THEOREM ClosedFrozen == Spec => FrozenWhenClosed
  <1>1. TypeOK /\ OneFlush /\ [Next]_vars =>
          (closed => UNCHANGED <<disk, size, flushed, closed>>)
    <2> SUFFICES ASSUME TypeOK, OneFlush, [Next]_vars, closed
                 PROVE  UNCHANGED <<disk, size, flushed, closed>>
      OBVIOUS
    <2> USE DEF lifeVars, fileVars
    <2>1. ASSUME NEW t \in Threads, ClientCall(t) \/ ClientStep(t)
          PROVE  UNCHANGED <<disk, size, flushed, closed>>
      BY <2>1 DEF TypeOK, ClientCall, Append_, Flush, BeginClose, CloseAgain, ClientStep,
                  Refuse, RejectOversized, Backpressure, Wait, Push, DropNewest,
                  AwaitClosed, Join, EndClose
    <2>2. ASSUME NEW t \in Everyone, TakeBatch(t) \/ Reschedule(t) \/ StartWorker(t)
          PROVE  UNCHANGED <<disk, size, flushed, closed>>
      BY <2>2 DEF TakeBatch, NothingToTake, Reschedule, StartWorker
    <2>3. ASSUME NEW t \in Everyone,
                 WriteBatch(t) \/ WriteFails(t) \/ CommitBatch(t) \/ UndoBatch(t)
          PROVE  FALSE
      BY <2>3 DEF OneFlush, Flushing, WriteBatch, WriteFails, CommitBatch, Watermark, UndoBatch, Undone, Requeued
    <2>4. CASE WorkerStep
      BY <2>4 DEF WorkerStep, WorkDue, WorkerExit
    <2>5. CASE UNCHANGED vars
      BY <2>5 DEF vars
    <2> QED
      BY <2>1, <2>2, <2>3, <2>4, <2>5 DEF Next, FlushStep, Finished
  <1> QED
    BY <1>1, TypeCorrect, PTL DEF Spec, FrozenWhenClosed

-----------------------------------------------------------------------------
(* PendingInOrder, position by position in the batch and in the queue.     *)

Fresh(r) == r > flushed /\ r < nextRow /\ r \notin lost

Ordered ==
    /\ \A i \in 1..Len(inflight) : Fresh(inflight[i].row)
    /\ \A i \in 1..Len(queue) : Fresh(queue[i].row)
    /\ \A i, j \in 1..Len(inflight) : i < j => inflight[i].row < inflight[j].row
    /\ \A i, j \in 1..Len(queue) : i < j => queue[i].row < queue[j].row
    /\ \A i \in 1..Len(inflight), j \in 1..Len(queue) : inflight[i].row < queue[j].row
    /\ flushed < nextRow /\ \A r \in lost : r < nextRow

OrderVars == <<inflight, queue, flushed, nextRow, lost>>

LEMMA RowType ==
  ASSUME TypeOK
  PROVE  /\ \A i \in 1..Len(queue) : queue[i].row \in Nat
         /\ \A i \in 1..Len(inflight) : inflight[i].row \in Nat
  <1>1. /\ \A i \in 1..Len(queue) : queue[i] \in Record
        /\ \A i \in 1..Len(inflight) : inflight[i] \in Record
    BY DEF TypeOK
  <1> QED
    BY <1>1 DEF Record

\* Popping k records and appending the next one keeps the order.
LEMMA PushOrdered ==
  ASSUME TypeOK, Ordered, NEW t \in Threads, Push(t) PROVE Ordered'
  <1>1. PICK k \in 0..Len(queue) :
          /\ queue' = Append(SubSeq(queue, k + 1, Len(queue)),
                             [row |-> nextRow, bytes |-> need[t]])
          /\ Discard(k)
    BY DEF Push
  <1>2. UNCHANGED <<inflight, flushed>> /\ nextRow' = nextRow + 1
    BY DEF Push, batchVars, fileVars
  <1> DEFINE n == Len(queue) - k
             NewFresh(r) == r > flushed' /\ r < nextRow' /\ r \notin lost'
  <1>3. /\ Len(queue') = n + 1 /\ n \in Nat
        /\ \A i \in 1..n : queue'[i] = queue[i + k] /\ i + k \in 1..Len(queue)
        /\ queue'[n + 1].row = nextRow
    <2> DEFINE left == SubSeq(queue, k + 1, Len(queue))
    <2>1. Len(queue) \in Nat /\ k \in Nat /\ k <= Len(queue) /\ queue \in Seq(Record)
      BY DEF TypeOK
    <2>2. /\ left \in Seq(Record) /\ Len(left) = n
          /\ \A i \in 1..n : left[i] = queue[i + k]
      BY <2>1
    <2>3. queue' = Append(left, [row |-> nextRow, bytes |-> need[t]])
      BY <1>1
    <2> HIDE DEF left
    <2>4. /\ Len(queue') = n + 1
          /\ \A i \in 1..n : queue'[i] = left[i]
          /\ queue'[n + 1] = [row |-> nextRow, bytes |-> need[t]]
      BY <2>2, <2>3
    <2> QED
      BY <2>1, <2>2, <2>4
  <1>4. \A r \in lost' : r \in lost \/ \E i \in 1..k : r = queue[i].row
    <2>1. \A i \in 1..k : SubSeq(queue, 1, k)[i] = queue[i]
      BY DEF TypeOK
    <2> QED
      BY <1>1, <2>1 DEF Discard, RowsOf, TypeOK
  <1> HIDE DEF n
  <1>5. \A i \in 1..Len(queue) : queue[i].row < nextRow /\ queue[i].row \in Nat
    BY RowType DEF Ordered, Fresh
  <1>12. k \in Nat /\ k <= Len(queue) /\ Len(queue) \in Nat /\ nextRow \in Nat /\ flushed \in Nat
    BY DEF TypeOK
  <1>13. \A i \in 1..k : i \in 1..Len(queue)
    BY <1>12
  <1>6. \A i \in 1..Len(inflight) : NewFresh(inflight[i].row)
    <2> SUFFICES ASSUME NEW i \in 1..Len(inflight) PROVE NewFresh(inflight[i].row)
      OBVIOUS
    <2>1. inflight[i].row \in Nat /\ Fresh(inflight[i].row)
      BY RowType DEF Ordered
    <2>2. \A j \in 1..k : inflight[i].row < queue[j].row
      BY <1>13 DEF Ordered
    <2>3. inflight[i].row \notin lost'
      <3> SUFFICES ASSUME inflight[i].row \in lost' PROVE FALSE
        OBVIOUS
      <3>1. inflight[i].row \notin lost
        BY <2>1 DEF Fresh
      <3>2. PICK j \in 1..k : inflight[i].row = queue[j].row
        BY <1>4, <3>1
      <3>3. inflight[i].row < queue[j].row
        BY <2>2
      <3> QED
        BY <2>1, <3>2, <3>3
    <2> QED
      BY <1>2, <1>12, <2>1, <2>3 DEF Fresh
  <1>7. \A i \in 1..(n + 1) : NewFresh(queue'[i].row)
    <2>1. ASSUME NEW i \in 1..n PROVE NewFresh(queue'[i].row)
      <3>1. Fresh(queue[i + k].row) /\ queue[i + k].row \in Nat
        BY <1>3, RowType DEF Ordered
      <3>2. \A j \in 1..k : queue[j].row < queue[i + k].row
        <4>1. \A j \in 1..k : j < i + k /\ j \in Nat
          BY <1>12
        <4> QED
          BY <4>1, <1>3, <1>13 DEF Ordered
      <3>3. queue[i + k].row \notin lost'
        <4> SUFFICES ASSUME queue[i + k].row \in lost' PROVE FALSE
          OBVIOUS
        <4>1. queue[i + k].row \notin lost
          BY <3>1 DEF Fresh
        <4>2. PICK j \in 1..k : queue[i + k].row = queue[j].row
          BY <1>4, <4>1
        <4>3. queue[j].row < queue[i + k].row /\ queue[j].row \in Nat
          BY <3>2, <1>5, <1>13
        <4> QED
          BY <3>1, <4>2, <4>3
      <3> QED
        BY <1>2, <1>3, <1>12, <3>1, <3>3 DEF Fresh
    <2>2. NewFresh(queue'[n + 1].row)
      <3>1. nextRow \notin lost'
        BY <1>4, <1>5, <1>12, <1>13 DEF Ordered
      <3> QED
        BY <1>2, <1>3, <1>12, <3>1 DEF Fresh, Ordered
    <2> QED
      BY <1>3, <2>1, <2>2
  <1>8. \A i, j \in 1..(n + 1) : i < j => queue'[i].row < queue'[j].row
    <2> SUFFICES ASSUME NEW i \in 1..(n + 1), NEW j \in 1..(n + 1), i < j
                 PROVE  queue'[i].row < queue'[j].row
      OBVIOUS
    <2>1. CASE j \in 1..n
      <3>1. /\ i \in 1..n
            /\ i + k \in 1..Len(queue) /\ j + k \in 1..Len(queue) /\ i + k < j + k
        BY <2>1, <1>3, <1>12
      <3> QED
        BY <2>1, <3>1, <1>3 DEF Ordered
    <2>2. CASE j = n + 1
      <3>1. i \in 1..n
        BY <2>2, <1>3
      <3> QED
        BY <2>2, <3>1, <1>3, <1>5
    <2> QED
      BY <1>3, <2>1, <2>2
  <1>9. \A i \in 1..Len(inflight), j \in 1..(n + 1) : inflight[i].row < queue'[j].row
    <2> SUFFICES ASSUME NEW i \in 1..Len(inflight), NEW j \in 1..(n + 1)
                 PROVE  inflight[i].row < queue'[j].row
      OBVIOUS
    <2>1. CASE j \in 1..n
      BY <2>1, <1>3 DEF Ordered
    <2>2. CASE j = n + 1
      BY <2>2, <1>3 DEF Ordered, Fresh
    <2> QED
      BY <1>3, <2>1, <2>2
  <1>10. flushed' < nextRow' /\ \A r \in lost' : r < nextRow'
    <2>1. ASSUME NEW r \in lost' PROVE r < nextRow'
      <3>1. CASE r \in lost
        <4>1. r \in Nat /\ r < nextRow
          BY <3>1 DEF Ordered, TypeOK
        <4> QED
          BY <4>1, <1>2, <1>12
      <3>2. CASE \E i \in 1..k : r = queue[i].row
        BY <3>2, <1>2, <1>5, <1>12, <1>13
      <3> QED
        BY <3>1, <3>2, <1>4
    <2> QED
      BY <2>1, <1>2, <1>12 DEF Ordered
  <1>11. \A i, j \in 1..Len(inflight) : i < j => inflight[i].row < inflight[j].row
    BY DEF Ordered
  <1> QED
    BY <1>2, <1>3, <1>6, <1>7, <1>8, <1>9, <1>10, <1>11 DEF Ordered, Fresh

LEMMA NextOrdered ==
  TypeOK /\ OneFlush /\ Ordered /\ [Next]_vars => Ordered'
  <1> SUFFICES ASSUME TypeOK, OneFlush, Ordered, [Next]_vars PROVE Ordered'
    OBVIOUS
  <1> USE DEF queueVars, batchVars, timerVars, lifeVars, fileVars, countVars, OrderVars
  <1>1. CASE UNCHANGED OrderVars
    BY <1>1 DEF Ordered, Fresh
  <1>2. ASSUME NEW t \in Threads, ClientCall(t) PROVE UNCHANGED OrderVars
    BY <1>2 DEF ClientCall, Append_, Flush, BeginClose, CloseAgain
  <1>3. ASSUME NEW t \in Threads, ClientStep(t), ~Push(t), ~DropNewest(t)
        PROVE  UNCHANGED OrderVars
    BY <1>3 DEF ClientStep, Refuse, RejectOversized, Backpressure, Wait, AwaitClosed,
                Join, EndClose
  <1>4. ASSUME NEW t \in Threads, DropNewest(t) PROVE Ordered'
    <2>1. /\ queue' = <<>> /\ UNCHANGED <<inflight, flushed, nextRow>>
          /\ lost' = lost \cup RowsOf(SubSeq(queue, 1, Len(queue)))
      BY <1>4 DEF DropNewest, Discard
    <2>2. \A r \in lost' : r \in lost \/ \E i \in 1..Len(queue) : r = queue[i].row
      BY <2>1 DEF RowsOf, TypeOK
    <2>3. \A i \in 1..Len(inflight) : inflight[i].row \notin lost'
      BY <2>2, RowType DEF Ordered, Fresh
    <2> QED
      BY <2>1, <2>2, <2>3 DEF Ordered, Fresh
  <1>5. ASSUME NEW t \in Everyone, TakeBatch(t) PROVE Ordered'
    <2>1. CASE closed \/ queue = <<>>
      BY <1>1, <1>5, <2>1 DEF TakeBatch, NothingToTake
    <2>2. CASE ~(closed \/ queue = <<>>)
      <3>1. inflight' = queue /\ queue' = <<>> /\ UNCHANGED <<flushed, nextRow, lost>>
        BY <1>5, <2>2 DEF TakeBatch, NothingToTake
      <3> QED
        BY <3>1 DEF Ordered, Fresh
    <2> QED
      BY <2>1, <2>2
  <1>6. ASSUME NEW t \in Everyone, WriteBatch(t) \/ WriteFails(t) \/ Reschedule(t) \/ StartWorker(t)
        PROVE  UNCHANGED OrderVars
    BY <1>6 DEF WriteBatch, WriteFails, Reschedule, StartWorker
  <1>7. ASSUME NEW t \in Everyone, CommitBatch(t) PROVE Ordered'
    <2>1. inflight # <<>> /\ Len(inflight) \in 1..Len(inflight)
      BY <1>7 DEF CommitBatch, Watermark, OneFlush, Flushing, TypeOK
    <2>2. /\ inflight' = <<>> /\ UNCHANGED <<queue, nextRow, lost>>
          /\ flushed' = inflight[Len(inflight)].row
      BY <1>7, <2>1, RowType DEF CommitBatch, Watermark, Last, Ordered, Fresh, TypeOK
    <2> QED
      BY <2>1, <2>2 DEF Ordered, Fresh
  <1>8. ASSUME NEW t \in Everyone, UndoBatch(t) PROVE Ordered'
    <2> DEFINE m == Len(inflight)
    <2>1. inflight' = <<>> /\ queue' = inflight \o queue /\ UNCHANGED <<flushed, nextRow, lost>>
      BY <1>8 DEF UndoBatch, Undone, Requeued
    <2>2. /\ m \in Nat /\ Len(queue) \in Nat /\ Len(queue') = m + Len(queue)
          /\ \A i \in 1..Len(queue') :
               \/ i \in 1..m /\ queue'[i] = inflight[i]
               \/ i > m /\ i - m \in 1..Len(queue) /\ queue'[i] = queue[i - m]
      BY <2>1 DEF TypeOK
    <2> HIDE DEF m
    <2>3. \A i \in 1..m : i \in 1..Len(inflight)
      BY DEF m
    <2>4. \A i \in 1..Len(queue') : Fresh(queue'[i].row)
      BY <2>2, <2>3 DEF Ordered
    <2>5. \A i, j \in 1..Len(queue') : i < j => queue'[i].row < queue'[j].row
      <3> SUFFICES ASSUME NEW i \in 1..Len(queue'), NEW j \in 1..Len(queue'), i < j
                   PROVE  queue'[i].row < queue'[j].row
        OBVIOUS
      <3>1. CASE j \in 1..m
        BY <3>1, <2>2, <2>3 DEF Ordered
      <3>2. CASE i \in 1..m /\ j > m
        <4>1. queue'[i] = inflight[i] /\ j - m \in 1..Len(queue) /\ queue'[j] = queue[j - m]
          BY <3>2, <2>2
        <4> QED
          BY <3>2, <4>1, <2>3 DEF Ordered
      <3>3. CASE i > m
        <4>1. /\ i - m \in 1..Len(queue) /\ queue'[i] = queue[i - m]
              /\ j - m \in 1..Len(queue) /\ queue'[j] = queue[j - m]
              /\ i - m < j - m
          BY <3>3, <2>2
        <4> QED
          BY <4>1 DEF Ordered
      <3> QED
        BY <3>1, <3>2, <3>3, <2>2
    <2>6. UNCHANGED <<flushed, nextRow, lost>> /\ 1..Len(inflight') = {}
      BY <2>1
    <2>7. ASSUME NEW i \in 1..Len(queue') PROVE Fresh(queue[i].row)'
      <3>1. Fresh(queue'[i].row)
        BY <2>4
      <3> QED
        BY <3>1, <2>6 DEF Fresh
    <2>8. flushed' < nextRow' /\ \A r \in lost' : r < nextRow'
      BY <2>6 DEF Ordered
    <2>9. \A i \in 1..Len(inflight') : FALSE
      BY <2>6
    <2> QED
      BY <2>5, <2>7, <2>8, <2>9 DEF Ordered
  <1>9. CASE WorkerStep
    BY <1>1, <1>9 DEF WorkerStep, WorkDue, WorkerExit
  <1>10. CASE UNCHANGED vars
    BY <1>1, <1>10 DEF vars
  <1> QED
    BY <1>1, <1>2, <1>3, <1>4, <1>5, <1>6, <1>7, <1>8, <1>9, <1>10, PushOrdered
       DEF Next, FlushStep, Finished

LEMMA OrderedGivesPending == TypeOK /\ Ordered => PendingInOrder
  <1> SUFFICES ASSUME TypeOK, Ordered PROVE PendingInOrder
    OBVIOUS
  <1> DEFINE p == inflight \o queue  m == Len(inflight)
  <1>1. /\ m \in Nat /\ Len(queue) \in Nat /\ Len(p) = m + Len(queue)
        /\ \A i \in 1..Len(p) :
             \/ i \in 1..m /\ p[i] = inflight[i]
             \/ i > m /\ i - m \in 1..Len(queue) /\ p[i] = queue[i - m]
    BY DEF TypeOK
  <1> HIDE DEF m, p
  <1>2. \A i \in 1..m : i \in 1..Len(inflight)
    BY DEF m
  <1>3. \A i \in 1..Len(p) : p[i].row \in Nat /\ Fresh(p[i].row)
    BY <1>1, <1>2, RowType DEF Ordered
  <1>4. \A i, j \in 1..Len(p) : i < j => p[i].row < p[j].row
    <2> SUFFICES ASSUME NEW i \in 1..Len(p), NEW j \in 1..Len(p), i < j
                 PROVE  p[i].row < p[j].row
      OBVIOUS
    <2>1. CASE j \in 1..m
      BY <2>1, <1>1, <1>2 DEF Ordered
    <2>2. CASE i \in 1..m /\ j > m
      BY <2>2, <1>1, <1>2 DEF Ordered
    <2>3. CASE i > m
      <3>1. /\ i - m \in 1..Len(queue) /\ p[i] = queue[i - m]
            /\ j - m \in 1..Len(queue) /\ p[j] = queue[j - m]
            /\ i - m < j - m
        BY <2>3, <1>1
      <3> QED
        BY <3>1 DEF Ordered
    <2> QED
      BY <2>1, <2>2, <2>3, <1>1
  <1>5. \A i \in 1..Len(p) : p[i].row \in (flushed + 1)..(nextRow - 1) /\ p[i].row \notin lost
    BY <1>3 DEF Fresh, TypeOK
  <1> QED
    BY <1>4, <1>5 DEF PendingInOrder, p

(* What waits to be written is in admission order and above the watermark, *)
(* for every number of threads and every limit: batches that failed, rows  *)
(* an outage popped and rows admitted during a write never change places.  *)
THEOREM PendingOrder == Spec => []PendingInOrder
  <1>1. Init => Ordered
    BY DEF Init, Ordered
  <1>2. TypeOK /\ NeedSet /\ OneFlush /\ Ordered /\ [Next]_vars => Ordered'
    BY NextOrdered
  <1>3. TypeOK /\ Ordered => PendingInOrder
    BY OrderedGivesPending
  <1> QED
    BY <1>1, <1>2, <1>3, TypeCorrect, PTL DEF Spec

-----------------------------------------------------------------------------
(* The limits                                                              *)

HeldVars == <<queue, queuedBytes, inflight, inflightBytes>>

\* The queue and the batch are sequences of chunks.
LEMMA HeldAreChunks ==
  ASSUME TypeOK
  PROVE  /\ queue \in Seq(Chunks) /\ inflight \in Seq(Chunks)
         /\ Len(queue) \in Nat /\ Len(inflight) \in Nat
         /\ BytesOf(queue) \in Nat /\ BytesOf(inflight) \in Nat
  <1>1. queue \in Seq(Record) /\ inflight \in Seq(Record)
    BY DEF TypeOK
  <1>2. queue \in Seq(Chunks) /\ inflight \in Seq(Chunks)
    BY <1>1, RecordsAreChunks
  <1> QED
    BY <1>2, SumsAre

\* Appending to what is left after popping k.
LEMMA PushLimits ==
  ASSUME TypeOK, NeedSet, WithinLimits, NEW t \in Threads, Push(t) PROVE WithinLimits'
  <1>1. PICK k \in 0..Len(queue) :
         LET left      == SubSeq(queue, k + 1, Len(queue))
             leftBytes == queuedBytes - BytesOf(SubSeq(queue, 1, k))
         IN  /\ Capacity(left, leftBytes, need[t])
             /\ queue' = Append(left, [row |-> nextRow, bytes |-> need[t]])
             /\ queuedBytes' = leftBytes + need[t]
    BY DEF Push
  <1>2. UNCHANGED <<inflight, inflightBytes>>
    BY DEF Push, batchVars
  <1>3. PICK c : c = [row |-> nextRow, bytes |-> need[t]]
    OBVIOUS
  <1>4. c \in Chunks /\ c.bytes = need[t] /\ need[t] \in Nat
    <2>1. need[t] \in Sizes
      BY DEF Push, AtAdmission, NeedSet
    <2> QED
      BY <1>3, <2>1, WriterAssumption DEF Chunks, TypeOK
  <1>5. PICK left : left = SubSeq(queue, k + 1, Len(queue))
    OBVIOUS
  <1>6. PICK p : p = SubSeq(queue, 1, k)
    OBVIOUS
  <1>7. /\ left \in Seq(Chunks) /\ BytesOf(queue) = BytesOf(p) + BytesOf(left)
        /\ BytesOf(p) \in Nat /\ BytesOf(left) \in Nat
    BY <1>5, <1>6, HeldAreChunks, BytesCut
  <1>8. /\ Len(left) + Len(inflight) < MaxRecords
        /\ queuedBytes - BytesOf(p) + inflightBytes + need[t] <= MaxBytes
        /\ queue' = Append(left, c)
        /\ queuedBytes' = (queuedBytes - BytesOf(p)) + need[t]
    BY <1>1, <1>3, <1>5, <1>6, Zenon DEF Capacity
  <1>9. BytesOf(queue') = BytesOf(left) + need[t] /\ Len(queue') = Len(left) + 1
    <2>1. Append(left, c) = left \o <<c>> /\ <<c>> \in Seq(Chunks) /\ Len(Append(left, c)) = Len(left) + 1
      BY <1>4, <1>7
    <2>2. BytesOf(left \o <<c>>) = BytesOf(left) + BytesOf(<<c>>) /\ BytesOf(<<c>>) = c.bytes
      BY <1>4, <1>7, <2>1, BytesConcat, BytesFew
    <2> QED
      BY <1>4, <1>8, <2>1, <2>2, Zenon
  <1>10. queuedBytes = BytesOf(queue) /\ inflightBytes = BytesOf(inflight)
    BY DEF WithinLimits
  <1>11. PICK x, y \in Nat : x = BytesOf(p) /\ y = BytesOf(left)
    BY <1>7
  <1>12. PICK z \in Nat : z = BytesOf(inflight)
    BY HeldAreChunks
  <1>13. queuedBytes = x + y /\ inflightBytes = z
    BY <1>7, <1>10, <1>11, <1>12, Zenon
  <1>14. queuedBytes' = y + need[t] /\ y + need[t] + z <= MaxBytes
    <2>1. PICK w \in Nat : w = need[t]
      BY <1>4
    <2>2. queuedBytes' = ((x + y) - x) + w /\ ((x + y) - x) + z + w <= MaxBytes
      BY <1>8, <1>11, <1>13, <2>1, Zenon
    <2>3. ((x + y) - x) + w = y + w /\ ((x + y) - x) + z + w = y + w + z
      OBVIOUS
    <2> QED
      BY <2>1, <2>2, <2>3, Zenon
  <1>15. Len(left) + 1 + Len(inflight) <= MaxRecords
    BY <1>7, <1>8, HeldAreChunks, WriterAssumption
  <1> QED
    BY <1>2, <1>9, <1>11, <1>12, <1>13, <1>14, <1>15 DEF WithinLimits

LEMMA NextWithinLimits ==
  TypeOK /\ NeedSet /\ OneFlush /\ WithinLimits /\ [Next]_vars => WithinLimits'
  <1> SUFFICES ASSUME TypeOK, NeedSet, OneFlush, WithinLimits, [Next]_vars PROVE WithinLimits'
    OBVIOUS
  <1> USE DEF queueVars, batchVars, timerVars, lifeVars, fileVars, countVars, HeldVars
  <1>0. /\ Len(queue) \in Nat /\ Len(inflight) \in Nat /\ BytesOf(<<>>) = 0
        /\ BytesOf(queue) \in Nat /\ BytesOf(inflight) \in Nat
    BY HeldAreChunks, BytesFew
  <1>1. CASE UNCHANGED HeldVars
    BY <1>1 DEF WithinLimits
  <1>2. ASSUME NEW t \in Threads, ClientCall(t) PROVE UNCHANGED HeldVars
    BY <1>2 DEF ClientCall, Append_, Flush, BeginClose, CloseAgain
  <1>3. ASSUME NEW t \in Threads, ClientStep(t), ~Push(t), ~DropNewest(t)
        PROVE  UNCHANGED HeldVars
    BY <1>3 DEF ClientStep, Refuse, RejectOversized, Backpressure, Wait, AwaitClosed,
                Join, EndClose
  <1>4. ASSUME NEW t \in Threads, DropNewest(t) PROVE WithinLimits'
    <2>1. /\ queue' = <<>> /\ UNCHANGED <<inflight, inflightBytes>>
          /\ queuedBytes' = queuedBytes - BytesOf(queue)
      BY <1>4 DEF DropNewest
    <2>2. PICK x, y \in Nat : x = BytesOf(queue) /\ y = BytesOf(inflight)
      BY <1>0
    <2>3. /\ queuedBytes = x /\ inflightBytes = y /\ x + y <= MaxBytes
          /\ Len(queue) + Len(inflight) <= MaxRecords
      BY <2>2 DEF WithinLimits
    <2>4. queuedBytes' = 0 /\ y <= MaxBytes /\ 0 + y = y
      BY <2>1, <2>2, <2>3, WriterAssumption
    <2>5. Len(queue') = 0 /\ Len(queue') + Len(inflight) <= MaxRecords
      BY <1>0, <2>1, <2>3, WriterAssumption
    <2> QED
      BY <1>0, <2>1, <2>2, <2>3, <2>4, <2>5 DEF WithinLimits
  <1>5. ASSUME NEW t \in Everyone, TakeBatch(t) PROVE WithinLimits'
    <2>1. CASE closed \/ queue = <<>>
      BY <1>1, <1>5, <2>1 DEF TakeBatch, NothingToTake
    <2>2. CASE ~(closed \/ queue = <<>>)
      <3>1. /\ inflight' = queue /\ queue' = <<>>
            /\ inflightBytes' = queuedBytes /\ queuedBytes' = 0 /\ wlock = NoOne /\ t \in Everyone
        BY <1>5, <2>2 DEF TakeBatch, NothingToTake
      <3>2. inflight = <<>>
        BY <3>1, WriterAssumption DEF OneFlush, Everyone
      <3>3. inflightBytes = 0 /\ Len(inflight) = 0
        BY <1>0, <3>2 DEF WithinLimits
      <3>4. PICK x \in Nat : x = BytesOf(queue)
        BY <1>0
      <3>5. queuedBytes = x /\ x + 0 <= MaxBytes /\ Len(queue) + 0 <= MaxRecords
        BY <3>3, <3>4 DEF WithinLimits
      <3> QED
        BY <1>0, <3>1, <3>4, <3>5, WriterAssumption DEF WithinLimits
    <2> QED
      BY <2>1, <2>2
  <1>6. ASSUME NEW t \in Everyone, WriteBatch(t) \/ WriteFails(t) \/ Reschedule(t) \/ StartWorker(t)
        PROVE  UNCHANGED HeldVars
    BY <1>6 DEF WriteBatch, WriteFails, Reschedule, StartWorker
  <1>7. ASSUME NEW t \in Everyone, CommitBatch(t) PROVE WithinLimits'
    <2>1. inflight' = <<>> /\ inflightBytes' = 0 /\ UNCHANGED <<queue, queuedBytes>>
      BY <1>7 DEF CommitBatch
    <2>2. PICK x, y \in Nat : x = BytesOf(queue) /\ y = BytesOf(inflight)
      BY <1>0
    <2>3. /\ queuedBytes = x /\ inflightBytes = y /\ x + y <= MaxBytes
          /\ Len(queue) + Len(inflight) <= MaxRecords
      BY <2>2 DEF WithinLimits
    <2>4. x + 0 <= MaxBytes /\ Len(queue) + 0 <= MaxRecords
      <3>1. MaxBytes \in Nat /\ MaxRecords \in Nat
        BY WriterAssumption
      <3>2. x + 0 <= MaxBytes
        BY <2>3, <3>1
      <3> QED
        BY <1>0, <2>3, <3>1, <3>2
    <2> QED
      BY <1>0, <2>1, <2>2, <2>3, <2>4 DEF WithinLimits
  <1>8. ASSUME NEW t \in Everyone, UndoBatch(t) PROVE WithinLimits'
    <2>1. /\ inflight' = <<>> /\ inflightBytes' = 0 /\ queue' = inflight \o queue
          /\ queuedBytes' = queuedBytes + inflightBytes
      BY <1>8 DEF UndoBatch, Requeued
    <2>2. PICK x, y \in Nat : x = BytesOf(queue) /\ y = BytesOf(inflight)
      BY <1>0
    <2>3. /\ queuedBytes = x /\ inflightBytes = y /\ x + y <= MaxBytes
          /\ Len(queue) + Len(inflight) <= MaxRecords
      BY <2>2 DEF WithinLimits
    <2>4. BytesOf(queue') = y + x /\ Len(queue') = Len(inflight) + Len(queue)
      <3>1. BytesOf(inflight \o queue) = BytesOf(inflight) + BytesOf(queue)
        BY HeldAreChunks, BytesConcat
      <3>2. Len(inflight \o queue) = Len(inflight) + Len(queue)
        BY HeldAreChunks
      <3> QED
        BY <2>1, <2>2, <3>1, <3>2, Zenon
    <2>5. queuedBytes' = y + x /\ (y + x) + 0 <= MaxBytes /\ Len(queue') + 0 <= MaxRecords
      <3>1. MaxBytes \in Nat /\ MaxRecords \in Nat
        BY WriterAssumption
      <3>2. queuedBytes' = x + y
        BY <2>1, <2>3
      <3>3. x + y = y + x /\ (y + x) + 0 = x + y
        OBVIOUS
      <3>4. Len(queue') + 0 <= MaxRecords
        BY <1>0, <2>3, <2>4, <3>1
      <3> QED
        BY <2>3, <3>2, <3>3, <3>4, Zenon
    <2> QED
      BY <1>0, <2>1, <2>4, <2>5 DEF WithinLimits
  <1>9. CASE WorkerStep
    BY <1>1, <1>9 DEF WorkerStep, WorkDue, WorkerExit
  <1>10. CASE UNCHANGED vars
    BY <1>1, <1>10 DEF vars
  <1> QED
    BY <1>1, <1>2, <1>3, <1>4, <1>5, <1>6, <1>7, <1>8, <1>9, <1>10, PushLimits
       DEF Next, FlushStep, Finished

(* Queue and batch together stay within both limits, for any limits, any  *)
(* sizes and any number of callers, also when a failed batch goes back to  *)
(* the queue, and the byte counters are the sums of the records they stand *)
(* for: the outage loop's subtractions never drift (enqueue_shared, flush).*)
THEOREM LimitsHold == Spec => []WithinLimits
  <1>1. Init => WithinLimits
    <2>1. BytesOf(<<>>) = 0
      BY BytesFew
    <2> QED
      BY <2>1, WriterAssumption DEF Init, WithinLimits
  <1>2. TypeOK /\ NeedSet /\ OneFlush /\ WithinLimits /\ [Next]_vars => WithinLimits'
    BY NextWithinLimits
  <1>3. Spec => [](TypeOK /\ NeedSet /\ OneFlush)
    <2>1. Init => NeedSet /\ OneFlush
      BY InitNeedSet, InitOneFlush
    <2>2. TypeOK /\ NeedSet /\ OneFlush /\ [Next]_vars => (NeedSet /\ OneFlush)'
      BY NextNeedSet, NextOneFlush
    <2> QED
      BY <2>1, <2>2, TypeCorrect, PTL DEF Spec
  <1> QED
    BY <1>1, <1>2, <1>3, PTL DEF Spec

-----------------------------------------------------------------------------
(* What becomes of an admitted record                                      *)

\* A row above the watermark waits, is being written or was given up.
Covered == \A r \in (flushed + 1)..(nextRow - 1) : r \in RowsOf(inflight) \cup RowsOf(queue) \cup lost

\* A batch was written and is not committed; was half written and is not undone.
Wrote == \E t \in Everyone : pc[t] = "commit"
Cut   == \E t \in Everyone : pc[t] = "undo"

Fragments == {<<>>} \cup {<<[row |-> 0, bytes |-> c]>> : c \in Nat \ {0}}

\* File f is d and what was written of batch b: all of it once w holds,
\* some lines and a fragment when the write failed (u), else nothing.
Splits(d, f, b, w, u) ==
    \E m \in 0..Len(b), fr \in Fragments :
      /\ f = d \o (SubSeq(b, 1, m) \o fr)
      /\ w => m = Len(b) /\ fr = <<>>
      /\ ~w /\ ~u => m = 0 /\ fr = <<>>

\* d has s bytes, is in order and holds every row up to w that is not in l.
Counted(d, s, w, l) ==
    /\ d \in Seq(Record) /\ s = BytesOf(d)
    /\ \A i, j \in 1..Len(d) : i < j => d[i].row < d[j].row
    /\ \A i \in 1..Len(d) : d[i].row <= w
    /\ \A r \in 1..w : r \in RowsOf(d) \cup l

FileOK == ~duplicates => /\ Splits(Durable, disk, inflight, Wrote, Cut)
                         /\ Counted(Durable, size, flushed, lost)

LEMMA EmptyCut ==
  ASSUME NEW b \in Seq(Chunks)
  PROVE  SubSeq(b, 1, 0) = <<>> /\ SubSeq(b, 1, Len(b)) = b
  <1>1. SubSeq(b, 1, 0) = <<>>
    OBVIOUS
  <1>2. SubSeq(b, 1, Len(b)) = b
    <2>1. PICK g : g = SubSeq(b, 1, Len(b))
      OBVIOUS
    <2>2. g \in Seq(Chunks) /\ Len(g) = Len(b) /\ \A i \in 1..Len(b) : g[i] = b[i]
      BY <2>1
    <2> QED
      BY <2>1, <2>2, SeqEqual
  <1> QED
    BY <1>1, <1>2

LEMMA FragmentsAre == \A fr \in Fragments : fr \in Seq(Chunks) /\ \A i \in 1..Len(fr) : fr[i].row = 0
  <1>1. ASSUME NEW c \in Nat \ {0}
        PROVE  /\ <<[row |-> 0, bytes |-> c]>> \in Seq(Chunks)
               /\ \A i \in 1..Len(<<[row |-> 0, bytes |-> c]>>) : <<[row |-> 0, bytes |-> c]>>[i].row = 0
    <2>1. PICK x : x = [row |-> 0, bytes |-> c]
      OBVIOUS
    <2>2. x \in Chunks /\ x.row = 0
      BY <2>1 DEF Chunks
    <2>3. PICK s : s = <<x>>
      OBVIOUS
    <2>4. s \in Seq(Chunks) /\ Len(s) = 1 /\ s[1] = x
      BY <2>2, <2>3
    <2>5. \A i \in 1..Len(s) : s[i].row = 0
      BY <2>2, <2>4
    <2> QED
      BY <2>1, <2>3, <2>4, <2>5, Zenon
  <1>2. <<>> \in Seq(Chunks) /\ \A i \in 1..Len(<<>>) : <<>>[i].row = 0
    OBVIOUS
  <1> QED
    BY <1>1, <1>2 DEF Fragments

LEMMA SplitsNone ==
  ASSUME NEW d \in Seq(Chunks), NEW f, NEW b \in Seq(Chunks), NEW w, NEW u, ~w, ~u
  PROVE  Splits(d, f, b, w, u) <=> f = d
  <1>1. d \o (SubSeq(b, 1, 0) \o <<>>) = d
    <2>1. <<>> \o <<>> = <<>> /\ d \o <<>> = d
      OBVIOUS
    <2> QED
      BY <2>1, EmptyCut, Zenon
  <1>2. 0 \in 0..Len(b) /\ <<>> \in Fragments
    BY DEF Fragments
  <1> QED
    BY <1>1, <1>2, Zenon DEF Splits

LEMMA SplitsAll ==
  ASSUME NEW d \in Seq(Chunks), NEW f, NEW b \in Seq(Chunks), NEW w, NEW u, w
  PROVE  Splits(d, f, b, w, u) <=> f = d \o b
  <1>1. d \o (SubSeq(b, 1, Len(b)) \o <<>>) = d \o b
    <2>1. b \o <<>> = b
      OBVIOUS
    <2> QED
      BY <2>1, EmptyCut, Zenon
  <1>2. Len(b) \in 0..Len(b) /\ <<>> \in Fragments
    BY DEF Fragments
  <1> QED
    BY <1>1, <1>2, Zenon DEF Splits

LEMMA SplitsSome ==
  ASSUME NEW d \in Seq(Chunks), NEW b \in Seq(Chunks), NEW w, NEW u, ~w, u,
         NEW n \in 0..Len(b), NEW fr \in Fragments
  PROVE  Splits(d, d \o SubSeq(b, 1, n) \o fr, b, w, u)
  <1>1. fr \in Seq(Chunks) /\ SubSeq(b, 1, n) \in Seq(Chunks)
    BY FragmentsAre, BytesCut
  <1>2. PICK e \in Seq(Chunks) : e = SubSeq(b, 1, n)
    BY <1>1
  <1>3. (d \o e) \o fr = d \o (e \o fr)
    BY <1>1, ConcatAssociative
  <1> QED
    BY <1>2, <1>3, Zenon DEF Splits

\* The file without what the flush in progress wrote.
LEMMA SplitsDurable ==
  ASSUME NEW d \in Seq(Chunks), NEW f, NEW b \in Seq(Chunks), NEW w, NEW u, Splits(d, f, b, w, u)
  PROVE  Truncated(f, BytesOf(d)) = d
  <1>1. PICK m \in 0..Len(b), fr \in Fragments : f = d \o (SubSeq(b, 1, m) \o fr)
    BY Zenon DEF Splits
  <1>2. fr \in Seq(Chunks) /\ SubSeq(b, 1, m) \in Seq(Chunks)
    BY FragmentsAre, BytesCut
  <1>3. PICK e \in Seq(Chunks) : e = SubSeq(b, 1, m) \o fr
    <2>1. PICK g \in Seq(Chunks) : g = SubSeq(b, 1, m)
      BY <1>2
    <2>2. g \o fr \in Seq(Chunks)
      BY <1>2
    <2> QED
      BY <2>1, <2>2, Zenon
  <1>4. Truncated(d \o e, BytesOf(d)) = d
    BY TruncatedAt
  <1> QED
    BY <1>1, <1>3, <1>4, Zenon

LEMMA DurableTypes ==
  ASSUME NEW d, NEW s, NEW w, NEW l, Counted(d, s, w, l)
  PROVE  d \in Seq(Record) /\ d \in Seq(Chunks) /\ s = BytesOf(d)
  BY RecordsAreChunks DEF Counted

LEMMA FileFrame ==
  ASSUME TypeOK, FileOK, ~duplicates, disk' = disk, size' = size, flushed' = flushed,
         inflight' = inflight, lost \subseteq lost', Wrote' <=> Wrote, Cut' <=> Cut
  PROVE  FileOK'
  <1>1. Durable' = Durable
    BY Zenon DEF Durable
  <1>2. Splits(Durable, disk, inflight, Wrote', Cut')
    BY Zenon DEF FileOK, Splits
  <1>3. Counted(Durable, size, flushed, lost')
    BY Zenon DEF FileOK, Counted
  <1> QED
    BY <1>1, <1>2, <1>3, Zenon DEF FileOK

LEMMA FileKept ==
  ASSUME NEW d, inflight' \in Seq(Record), Splits(d, disk', inflight', Wrote', Cut'),
         Counted(d, size', flushed', lost')
  PROVE  FileOK' /\ Durable' = d
  <1>1. d \in Seq(Chunks) /\ size' = BytesOf(d) /\ inflight' \in Seq(Chunks)
    BY DurableTypes, RecordsAreChunks
  <1>2. Truncated(disk', BytesOf(d)) = d
    BY <1>1, SplitsDurable
  <1>3. Durable' = d
    BY <1>1, <1>2, Zenon DEF Durable
  <1> QED
    BY <1>3, Zenon DEF FileOK

LEMMA HeldRows ==
  ASSUME TypeOK
  PROVE  /\ \A r : r \in RowsOf(queue) <=> \E i \in 1..Len(queue) : r = queue[i].row
         /\ \A r : r \in RowsOf(inflight) <=> \E i \in 1..Len(inflight) : r = inflight[i].row
  BY DEF RowsOf

\* Popping k records and appending the next one.
LEMMA PushRows ==
  ASSUME TypeOK, NEW t \in Threads, Push(t)
  PROVE  RowsOf(queue) \cup {nextRow} \subseteq RowsOf(queue') \cup lost'
  <1>1. PICK k \in 0..Len(queue) :
          /\ queue' = Append(SubSeq(queue, k + 1, Len(queue)),
                             [row |-> nextRow, bytes |-> need[t]])
          /\ Discard(k)
    BY DEF Push
  <1>2. PICK n \in Nat : n = Len(queue)
    BY DEF TypeOK
  <1>3. PICK left : left = SubSeq(queue, k + 1, Len(queue))
    OBVIOUS
  <1>4. PICK p : p = SubSeq(queue, 1, k)
    OBVIOUS
  <1>5. /\ left \in Seq(Record) /\ Len(left) = n - k /\ \A i \in 1..(n - k) : left[i] = queue[k + i]
        /\ Len(p) = k /\ \A i \in 1..k : p[i] = queue[i]
    <2>1. queue \in Seq(Record)
      BY DEF TypeOK
    <2> QED
      BY <1>2, <1>3, <1>4, <2>1
  <1>6. PICK c : c = [row |-> nextRow, bytes |-> need[t]]
    OBVIOUS
  <1>7. queue' = Append(left, c) /\ lost' = lost \cup RowsOf(p) /\ c.row = nextRow
    BY <1>1, <1>3, <1>4, <1>6, Zenon DEF Discard
  <1>8. /\ Len(queue') = (n - k) + 1 /\ queue'[(n - k) + 1] = c
        /\ \A i \in 1..(n - k) : queue'[i] = left[i]
    BY <1>2, <1>5, <1>7
  <1>9. nextRow \in RowsOf(queue')
    <2>1. PICK j : j = (n - k) + 1
      OBVIOUS
    <2>2. j \in 1..Len(queue') /\ queue'[j] = c
      BY <1>2, <1>8, <2>1
    <2> QED
      BY <1>7, <2>2, Zenon DEF RowsOf
  <1>10. ASSUME NEW i \in 1..n PROVE queue[i].row \in RowsOf(queue') \cup lost'
    <2>1. CASE i <= k
      <3>1. i \in 1..Len(p) /\ p[i] = queue[i]
        BY <1>5, <2>1
      <3>2. queue[i].row \in RowsOf(p)
        BY <3>1, Zenon DEF RowsOf
      <3> QED
        BY <1>7, <3>2
    <2>2. CASE i > k
      <3>1. PICK j : j = i - k
        OBVIOUS
      <3>2. j \in 1..(n - k) /\ k + j = i /\ j \in 1..((n - k) + 1)
        BY <1>2, <2>2, <3>1
      <3>3. left[j] = queue[i] /\ queue'[j] = left[j]
        BY <1>5, <1>8, <3>2
      <3>4. j \in 1..Len(queue') /\ queue'[j] = queue[i]
        BY <1>8, <3>2, <3>3
      <3>5. queue[i].row \in RowsOf(queue')
        BY <3>4, Zenon DEF RowsOf
      <3> QED
        BY <3>5
    <2> QED
      BY <1>2, <2>1, <2>2
  <1>11. ASSUME NEW r \in RowsOf(queue) PROVE r \in RowsOf(queue') \cup lost'
    <2>1. PICK i \in 1..n : r = queue[i].row
      BY <1>2 DEF RowsOf
    <2> QED
      BY <1>10, <2>1
  <1> QED
    BY <1>9, <1>11

RowVars == <<inflight, queue, flushed, nextRow, lost>>

LEMMA NextCovered ==
  TypeOK /\ OneFlush /\ Ordered /\ Covered /\ [Next]_vars => Covered'
  <1> SUFFICES ASSUME TypeOK, OneFlush, Ordered, Covered, [Next]_vars PROVE Covered'
    OBVIOUS
  <1> USE DEF queueVars, batchVars, timerVars, lifeVars, fileVars, countVars, RowVars
  <1>0. flushed \in Nat /\ nextRow \in Nat
    BY DEF TypeOK
  <1>1. CASE UNCHANGED RowVars
    BY <1>1 DEF Covered
  <1>2. ASSUME NEW t \in Threads, ClientCall(t) PROVE UNCHANGED RowVars
    BY <1>2 DEF ClientCall, Append_, Flush, BeginClose, CloseAgain
  <1>3. ASSUME NEW t \in Threads, ClientStep(t), ~Push(t), ~DropNewest(t)
        PROVE  UNCHANGED RowVars
    BY <1>3 DEF ClientStep, Refuse, RejectOversized, Backpressure, Wait, AwaitClosed,
                Join, EndClose
  <1>11. ASSUME NEW t \in Threads, Push(t) PROVE Covered'
    <2>1. /\ inflight' = inflight /\ flushed' = flushed /\ nextRow' = nextRow + 1
          /\ \E k \in 0..Len(queue) : Discard(k)
      BY <1>11 DEF Push
    <2>2. lost \subseteq lost'
      BY <2>1 DEF Discard
    <2>3. ASSUME NEW r \in (flushed + 1)..nextRow
          PROVE  r \in RowsOf(inflight) \cup RowsOf(queue') \cup lost'
      <3>1. CASE r = nextRow
        BY <1>11, <3>1, PushRows
      <3>2. CASE r # nextRow
        <4>1. r \in (flushed + 1)..(nextRow - 1)
          BY <1>0, <3>2
        <4>2. r \in RowsOf(inflight) \cup RowsOf(queue) \cup lost
          BY <4>1 DEF Covered
        <4> QED
          BY <1>11, <2>2, <4>2, PushRows
      <3> QED
        BY <3>1, <3>2
    <2>4. (flushed + 1)..(nextRow' - 1) = (flushed + 1)..nextRow
      BY <1>0, <2>1
    <2> QED
      BY <2>1, <2>3, <2>4, Zenon DEF Covered
  <1>4. ASSUME NEW t \in Threads, DropNewest(t) PROVE Covered'
    <2>1. /\ queue' = <<>> /\ inflight' = inflight /\ flushed' = flushed /\ nextRow' = nextRow
          /\ lost' = lost \cup RowsOf(SubSeq(queue, 1, Len(queue)))
      BY <1>4 DEF DropNewest, Discard
    <2>2. SubSeq(queue, 1, Len(queue)) = queue
      BY HeldAreChunks, EmptyCut
    <2>3. lost' = lost \cup RowsOf(queue)
      BY <2>1, <2>2, Zenon
    <2>4. \A r \in (flushed + 1)..(nextRow - 1) : r \in RowsOf(inflight) \cup RowsOf(queue') \cup lost'
      BY <2>3 DEF Covered
    <2> QED
      BY <2>1, <2>4, Zenon DEF Covered
  <1>5. ASSUME NEW t \in Everyone, TakeBatch(t) PROVE Covered'
    <2>1. CASE closed \/ queue = <<>>
      BY <1>1, <1>5, <2>1 DEF TakeBatch, NothingToTake
    <2>2. CASE ~(closed \/ queue = <<>>)
      <3>1. /\ inflight' = queue /\ queue' = <<>> /\ wlock = NoOne
            /\ flushed' = flushed /\ nextRow' = nextRow /\ lost' = lost
        BY <1>5, <2>2 DEF TakeBatch, NothingToTake
      <3>2. inflight = <<>>
        BY <3>1, WriterAssumption DEF OneFlush, Everyone
      <3>3. \A r \in (flushed + 1)..(nextRow - 1) : r \in RowsOf(queue) \cup RowsOf(<<>>) \cup lost
        BY <3>2 DEF Covered
      <3> QED
        BY <3>1, <3>3, Zenon DEF Covered
    <2> QED
      BY <2>1, <2>2
  <1>6. ASSUME NEW t \in Everyone, WriteBatch(t) \/ WriteFails(t) \/ Reschedule(t) \/ StartWorker(t)
        PROVE  UNCHANGED RowVars
    BY <1>6 DEF WriteBatch, WriteFails, Reschedule, StartWorker
  <1>7. ASSUME NEW t \in Everyone, CommitBatch(t) PROVE Covered'
    <2>1. inflight # <<>> /\ Len(inflight) \in 1..Len(inflight)
      BY <1>7 DEF CommitBatch, OneFlush, Flushing, TypeOK
    <2>2. /\ inflight' = <<>> /\ queue' = queue /\ nextRow' = nextRow /\ lost' = lost
          /\ flushed' = inflight[Len(inflight)].row
      BY <1>7, <2>1, RowType DEF CommitBatch, Watermark, Last, Ordered, Fresh, TypeOK
    <2>3. PICK w \in Nat : w = flushed'
      BY <2>1, <2>2, RowType
    <2>4. flushed < w /\ \A i \in 1..Len(inflight) : inflight[i].row <= w
      <3>1. flushed < w
        BY <2>1, <2>2, <2>3 DEF Ordered, Fresh
      <3>2. ASSUME NEW i \in 1..Len(inflight) PROVE inflight[i].row <= w
        <4>1. CASE i = Len(inflight)
          BY <2>2, <2>3, <4>1
        <4>2. CASE i # Len(inflight)
          <5>1. i < Len(inflight)
            BY <2>1, <4>2
          <5>2. inflight[i].row < inflight[Len(inflight)].row /\ inflight[i].row \in Nat
            BY <2>1, <5>1, RowType DEF Ordered
          <5> QED
            BY <2>2, <2>3, <5>2
        <4> QED
          BY <4>1, <4>2
      <3> QED
        BY <3>1, <3>2
    <2>5. ASSUME NEW r \in (w + 1)..(nextRow - 1) PROVE r \in RowsOf(<<>>) \cup RowsOf(queue) \cup lost
      <3>1. r \in (flushed + 1)..(nextRow - 1) /\ r > w
        BY <1>0, <2>4
      <3>2. r \in RowsOf(inflight) \cup RowsOf(queue) \cup lost
        BY <3>1 DEF Covered
      <3>3. r \notin RowsOf(inflight)
        <4> SUFFICES ASSUME NEW i \in 1..Len(inflight), r = inflight[i].row PROVE FALSE
          BY HeldRows
        <4>1. inflight[i].row <= w
          BY <2>4
        <4>2. r \in Nat /\ w \in Nat /\ r <= w /\ r > w
          BY <3>1, <4>1
        <4> QED
          BY <4>2
      <3> QED
        BY <3>2, <3>3
    <2> QED
      BY <2>2, <2>3, <2>5, Zenon DEF Covered
  <1>8. ASSUME NEW t \in Everyone, UndoBatch(t) PROVE Covered'
    <2>1. /\ inflight' = <<>> /\ queue' = inflight \o queue
          /\ flushed' = flushed /\ nextRow' = nextRow /\ lost' = lost
      BY <1>8 DEF UndoBatch, Requeued
    <2>2. RowsOf(queue') = RowsOf(inflight) \cup RowsOf(queue)
      BY <2>1, HeldAreChunks, RowsConcat, Zenon
    <2>3. \A r \in (flushed + 1)..(nextRow - 1) : r \in RowsOf(<<>>) \cup RowsOf(queue') \cup lost
      BY <2>2 DEF Covered
    <2> QED
      BY <2>1, <2>3, Zenon DEF Covered
  <1>9. CASE WorkerStep
    BY <1>1, <1>9 DEF WorkerStep, WorkDue, WorkerExit
  <1>10. CASE UNCHANGED vars
    BY <1>1, <1>10 DEF vars
  <1> QED
    BY <1>1, <1>2, <1>3, <1>4, <1>5, <1>6, <1>7, <1>8, <1>9, <1>10, <1>11
       DEF Next, FlushStep, Finished

-----------------------------------------------------------------------------
(* The file                                                                *)

\* Who writes is alone.
LEMMA OneWrites ==
  ASSUME OneFlush, NEW t \in Everyone, Flushing(t)
  PROVE  /\ \A u \in Everyone : Flushing(u) => u = t
         /\ Wrote <=> pc[t] = "commit"
         /\ Cut <=> pc[t] = "undo"
  <1>1. \A u \in Everyone : Flushing(u) => u = t
    BY DEF OneFlush
  <1> QED
    BY <1>1, Zenon DEF Wrote, Cut, Flushing

LEMMA NoneWrites ==
  ASSUME \A u \in Everyone : ~Flushing(u)
  PROVE  ~Wrote /\ ~Cut
  BY DEF Wrote, Cut, Flushing

\* Steps that leave the phases of a write alone.
LEMMA SamePhase ==
  ASSUME pc' \in [Everyone -> Labels],
         \A u \in Everyone : /\ pc'[u] = "commit" <=> pc[u] = "commit"
                             /\ pc'[u] = "undo" <=> pc[u] = "undo"
  PROVE  (Wrote' <=> Wrote) /\ (Cut' <=> Cut)
  BY Zenon DEF Wrote, Cut

LEMMA GotoSame ==
  ASSUME TypeOK, NEW t \in Everyone, NEW label, label \notin {"commit", "undo"},
         pc[t] \notin {"commit", "undo"}, Goto(t, label) \/ GotoNotify(t, label)
  PROVE  (Wrote' <=> Wrote) /\ (Cut' <=> Cut)
  <1>1. \A u \in Everyone : /\ pc'[u] = "commit" <=> pc[u] = "commit"
                            /\ pc'[u] = "undo" <=> pc[u] = "undo"
    BY DEF Goto, GotoNotify, TypeOK
  <1> QED
    BY <1>1, Zenon DEF Wrote, Cut

\* A batch that was written joins the durable part.
LEMMA CommitCounted ==
  ASSUME TypeOK, Ordered, Covered, inflight # <<>>, NEW d, Counted(d, size, flushed, lost),
         NEW w, w = inflight[Len(inflight)].row, w \in Nat
  PROVE  Counted(d \o inflight, size + BytesOf(inflight), w, lost)
  <1>1. PICK f : f = d \o inflight
    OBVIOUS
  <1>2. PICK n \in Nat : n = Len(inflight)
    BY HeldAreChunks
  <1>3. d \in Seq(Record) /\ inflight \in Seq(Record) /\ n > 0
    BY <1>2 DEF Counted, TypeOK
  <1>4. PICK l \in Nat : l = Len(d)
    BY <1>3
  <1>5. /\ f \in Seq(Record) /\ Len(f) = l + n
        /\ \A i \in 1..l : f[i] = d[i]
        /\ \A i \in 1..n : f[l + i] = inflight[i]
    <2>1. /\ f \in Seq(Record) /\ Len(f) = Len(d) + Len(inflight)
          /\ \A i \in 1..Len(d) : f[i] = d[i]
          /\ \A i \in 1..Len(inflight) : f[Len(d) + i] = inflight[i]
      BY <1>1, <1>3
    <2> QED
      BY <1>2, <1>4, <2>1, Zenon
  <1>6. BytesOf(f) = size + BytesOf(inflight)
    BY <1>1, <1>3, RecordsAreChunks, BytesConcat DEF Counted
  <1>7. /\ \A i \in 1..l : d[i].row \in Nat /\ d[i].row <= flushed
        /\ \A i, j \in 1..l : i < j => d[i].row < d[j].row
        /\ flushed \in Nat
    <2>1. \A i \in 1..l : d[i] \in Record
      BY <1>3, <1>4
    <2> QED
      BY <1>4, <2>1 DEF Counted, Record, TypeOK
  <1>8. /\ \A i \in 1..n : inflight[i].row \in Nat /\ flushed < inflight[i].row /\ inflight[i].row <= w
        /\ \A i, j \in 1..n : i < j => inflight[i].row < inflight[j].row
    <2>1. \A i, j \in 1..n : i < j => inflight[i].row < inflight[j].row
      BY <1>2 DEF Ordered
    <2>2. \A i \in 1..n : inflight[i].row \in Nat /\ flushed < inflight[i].row
      BY <1>2, RowType DEF Ordered, Fresh
    <2>3. ASSUME NEW i \in 1..n PROVE inflight[i].row <= w
      <3>1. CASE i = n
        BY <1>2, <2>2, <3>1
      <3>2. CASE i # n
        <4>1. i < n /\ n \in 1..n
          BY <3>2
        <4>2. inflight[i].row < inflight[n].row /\ inflight[i].row \in Nat /\ inflight[n].row \in Nat
          BY <2>1, <2>2, <4>1
        <4> QED
          BY <1>2, <4>2
      <3> QED
        BY <3>1, <3>2
    <2> QED
      BY <2>1, <2>2, <2>3
  <1>9. flushed < w
    <2>1. n \in 1..n
      BY <1>2, <1>3
    <2> QED
      BY <1>2, <1>8, <2>1
  <1>10. ASSUME NEW i \in 1..(l + n)
         PROVE  \/ i \in 1..l /\ f[i] = d[i]
                \/ i - l \in 1..n /\ f[i] = inflight[i - l]
    <2>1. CASE i <= l
      BY <1>5, <2>1
    <2>2. CASE i > l
      <3>1. PICK j : j = i - l
        OBVIOUS
      <3>2. j \in 1..n /\ l + j = i
        BY <2>2, <3>1
      <3>3. f[i] = inflight[j]
        BY <1>5, <3>2
      <3> QED
        BY <3>1, <3>2, <3>3
    <2> QED
      BY <2>1, <2>2
  <1>11. ASSUME NEW i \in 1..(l + n) PROVE f[i].row <= w
    <2>1. CASE i \in 1..l /\ f[i] = d[i]
      <3>1. f[i].row \in Nat /\ f[i].row <= flushed
        BY <1>7, <2>1
      <3>2. PICK a, b \in Nat : a = f[i].row /\ b = flushed
        BY <1>7, <3>1
      <3>3. a <= b /\ b < w
        BY <1>9, <3>1, <3>2, Zenon
      <3>4. a <= w
        BY <3>3
      <3> QED
        BY <3>2, <3>4, Zenon
    <2>2. CASE i - l \in 1..n /\ f[i] = inflight[i - l]
      BY <1>8, <2>2
    <2> QED
      BY <1>10, <2>1, <2>2
  <1>12. ASSUME NEW i \in 1..(l + n), NEW j \in 1..(l + n), i < j PROVE f[i].row < f[j].row
    <2>1. CASE j \in 1..l /\ f[j] = d[j]
      <3>1. i \in 1..l
        BY <1>12, <2>1
      <3>2. f[i] = d[i]
        BY <1>5, <3>1
      <3> QED
        BY <1>7, <1>12, <2>1, <3>1, <3>2
    <2>2. CASE j - l \in 1..n /\ f[j] = inflight[j - l] /\ i \in 1..l /\ f[i] = d[i]
      <3>1. PICK a \in Nat : a = f[i].row
        BY <1>7, <2>2
      <3>2. PICK b \in Nat : b = f[j].row
        BY <1>8, <2>2
      <3>3. a <= flushed /\ flushed < b
        BY <1>7, <1>8, <2>2, <3>1, <3>2
      <3>4. a < b
        BY <1>7, <3>3
      <3> QED
        BY <3>1, <3>2, <3>4, Zenon
    <2>3. CASE j - l \in 1..n /\ f[j] = inflight[j - l] /\ i - l \in 1..n /\ f[i] = inflight[i - l]
      <3>1. i - l < j - l
        BY <1>12
      <3> QED
        BY <1>8, <2>3, <3>1
    <2> QED
      BY <1>10, <2>1, <2>2, <2>3
  <1>13. RowsOf(f) = RowsOf(d) \cup RowsOf(inflight)
    BY <1>1, <1>3, RecordsAreChunks, RowsConcat
  <1>14. ASSUME NEW r \in 1..w PROVE r \in RowsOf(f) \cup lost
    <2>1. CASE r <= flushed
      <3>1. r \in 1..flushed
        BY <1>7, <2>1
      <3> QED
        BY <1>13, <3>1 DEF Counted
    <2>2. CASE r > flushed
      <3>1. w < nextRow /\ nextRow \in Nat
        <4>1. n \in 1..n
          BY <1>3
        <4> QED
          BY <1>2, <4>1 DEF Ordered, Fresh, TypeOK
      <3>2. r \in (flushed + 1)..(nextRow - 1)
        <4>1. PICK a, b \in Nat : a = flushed /\ b = nextRow
          BY <1>7, <3>1
        <4>2. w < b /\ a < r
          BY <2>2, <3>1, <4>1
        <4>3. r \in (a + 1)..(b - 1)
          BY <4>2
        <4> QED
          BY <4>1, <4>3, Zenon
      <3>3. r \in RowsOf(inflight) \cup RowsOf(queue) \cup lost
        BY <3>2 DEF Covered
      <3>4. r \notin RowsOf(queue)
        <4> SUFFICES ASSUME NEW i \in 1..Len(queue), r = queue[i].row PROVE FALSE
          BY HeldRows
        <4>1. n \in 1..Len(inflight)
          BY <1>2, <1>3
        <4>2. w < queue[i].row
          BY <1>2, <4>1 DEF Ordered
        <4> QED
          BY <4>2
      <3> QED
        BY <1>13, <3>3, <3>4
    <2> QED
      BY <1>7, <2>1, <2>2
  <1>15. Counted(f, size + BytesOf(inflight), w, lost)
    BY <1>5, <1>6, <1>11, <1>12, <1>14 DEF Counted
  <1> QED
    BY <1>1, <1>15

LEMMA FileParts ==
  ASSUME TypeOK, TypeOK', FileOK, ~duplicates
  PROVE  /\ inflight \in Seq(Record) /\ inflight' \in Seq(Record)
         /\ inflight \in Seq(Chunks) /\ inflight' \in Seq(Chunks)
         /\ Durable \in Seq(Record) /\ Durable \in Seq(Chunks)
         /\ Splits(Durable, disk, inflight, Wrote, Cut)
         /\ Counted(Durable, size, flushed, lost)
  <1>1. inflight \in Seq(Record) /\ inflight' \in Seq(Record)
    BY DEF TypeOK
  <1> QED
    BY <1>1, RecordsAreChunks, DurableTypes DEF FileOK

\* What a write adds, also half of it, is not durable yet.
LEMMA WriteFile ==
  ASSUME TypeOK, TypeOK', OneFlush, FileOK, ~duplicates, NEW t \in Everyone,
         WriteBatch(t) \/ WriteFails(t)
  PROVE  FileOK' /\ Durable' = Durable
  <1> USE DEF queueVars, batchVars, timerVars, lifeVars, fileVars, countVars
  <1>1. PICK d : d = Durable
    OBVIOUS
  <1>2. /\ inflight \in Seq(Chunks) /\ inflight' \in Seq(Record) /\ d \in Seq(Chunks)
        /\ Splits(d, disk, inflight, Wrote, Cut) /\ Counted(d, size, flushed, lost)
    BY <1>1, FileParts
  <1>3. /\ pc[t] = "write" /\ inflight' = inflight
        /\ size' = size /\ flushed' = flushed /\ lost' = lost
    BY DEF WriteBatch, WriteFails
  <1>4. ~Wrote /\ ~Cut
    BY <1>3, OneWrites DEF Flushing
  <1>5. disk = d
    BY <1>2, <1>4, SplitsNone
  <1>6. CASE WriteBatch(t)
    <2>1. disk' = d \o inflight /\ pc'[t] = "commit"
      BY <1>5, <1>6 DEF WriteBatch, Goto, TypeOK
    <2>2. Wrote'
      BY <2>1, Zenon DEF Wrote
    <2>3. Splits(d, disk', inflight', Wrote', Cut')
      BY <1>2, <1>3, <2>1, <2>2, SplitsAll
    <2> QED
      BY <1>1, <1>2, <1>3, <2>3, FileKept
  <1>7. CASE WriteFails(t)
    <2>1. PICK n \in 0..(Len(inflight) - 1) : \E cut \in 0..(inflight[n + 1].bytes - 1) :
            disk' = disk \o SubSeq(inflight, 1, n) \o
                    (IF cut = 0 THEN <<>> ELSE <<[row |-> 0, bytes |-> cut]>>)
      BY <1>7 DEF WriteFails
    <2>2. PICK cut \in 0..(inflight[n + 1].bytes - 1) :
            disk' = disk \o SubSeq(inflight, 1, n) \o
                    (IF cut = 0 THEN <<>> ELSE <<[row |-> 0, bytes |-> cut]>>)
      BY <2>1
    <2>3. n \in 0..Len(inflight) /\ n + 1 \in 1..Len(inflight)
      BY <1>2
    <2>4. PICK fr : fr = IF cut = 0 THEN <<>> ELSE <<[row |-> 0, bytes |-> cut]>>
      OBVIOUS
    <2>5. fr \in Fragments
      <3>1. inflight[n + 1] \in Chunks
        BY <1>2, <2>3
      <3>2. cut \in Nat
        BY <3>1 DEF Chunks
      <3> QED
        BY <2>4, <3>2 DEF Fragments
    <2>6. disk' = d \o SubSeq(inflight, 1, n) \o fr
      BY <1>5, <2>2, <2>4, Zenon
    <2>7. \A u \in Everyone : pc'[u] # "commit"
      BY <1>3, <1>4, <1>7 DEF WriteFails, Goto, TypeOK, Wrote
    <2>8. pc'[t] = "undo"
      BY <1>7 DEF WriteFails, Goto, TypeOK
    <2>9. ~Wrote' /\ Cut'
      BY <2>7, <2>8, Zenon DEF Wrote, Cut
    <2>10. Splits(d, disk', inflight', Wrote', Cut')
      BY <1>2, <1>3, <2>3, <2>5, <2>6, <2>9, SplitsSome
    <2> QED
      BY <1>1, <1>2, <1>3, <2>10, FileKept
  <1> QED
    BY <1>6, <1>7

LEMMA WriteEnds ==
  ASSUME TypeOK, OneFlush, NEW t \in Everyone, CommitBatch(t) \/ UndoBatch(t)
  PROVE  ~Wrote' /\ ~Cut' /\ inflight' = <<>> /\ lost' = lost
  <1>1. Flushing(t) /\ GotoNotify(t, "sched") /\ inflight' = <<>> /\ lost' = lost
    BY DEF Flushing, CommitBatch, UndoBatch, countVars
  <1>2. \A u \in Everyone : Flushing(u) => u = t
    BY <1>1, OneWrites
  <1>3. \A u \in Everyone : ~(pc'[u] = "commit") /\ ~(pc'[u] = "undo")
    BY <1>1, <1>2 DEF GotoNotify, Flushing
  <1> QED
    BY <1>1, <1>3 DEF Wrote, Cut

\* A commit makes the batch durable.
LEMMA CommitFile ==
  ASSUME TypeOK, TypeOK', OneFlush, Ordered, Covered, FileOK, ~duplicates, NEW t \in Everyone,
         CommitBatch(t)
  PROVE  FileOK' /\ Durable' = Durable \o inflight
  <1> USE DEF queueVars, batchVars, timerVars, lifeVars, fileVars, countVars
  <1>1. PICK d : d = Durable
    OBVIOUS
  <1>2. /\ inflight \in Seq(Chunks) /\ inflight' \in Seq(Record) /\ inflight' \in Seq(Chunks)
        /\ d \in Seq(Chunks)
        /\ Splits(d, disk, inflight, Wrote, Cut) /\ Counted(d, size, flushed, lost)
    BY <1>1, FileParts
  <1>3. pc[t] = "commit" /\ disk' = disk /\ size' = size + BytesOf(inflight)
    BY DEF CommitBatch
  <1>4. ~Wrote' /\ ~Cut' /\ inflight' = <<>> /\ lost' = lost
    BY WriteEnds
  <1>5. Wrote
    BY <1>3, Zenon DEF Wrote
  <1>6. disk = d \o inflight
    BY <1>2, <1>5, SplitsAll
  <1>7. inflight # <<>> /\ Len(inflight) \in 1..Len(inflight)
    BY <1>3 DEF OneFlush, Flushing, TypeOK
  <1>8. flushed' = inflight[Len(inflight)].row
    BY <1>7, RowType DEF CommitBatch, Watermark, Last, Ordered, Fresh, TypeOK
  <1>9. Counted(d \o inflight, size + BytesOf(inflight), flushed', lost)
    <2>1. flushed' \in Nat
      BY DEF TypeOK
    <2> QED
      BY <1>2, <1>7, <1>8, <2>1, CommitCounted
  <1>10. d \o inflight \in Seq(Chunks)
    BY <1>2
  <1>11. Splits(d \o inflight, disk', inflight', Wrote', Cut')
    BY <1>2, <1>3, <1>4, <1>6, <1>10, SplitsNone
  <1>12. Counted(d \o inflight, size', flushed', lost')
    BY <1>3, <1>4, <1>9, Zenon
  <1> QED
    BY <1>1, <1>2, <1>11, <1>12, FileKept

\* Undoing a failed write leaves what was durable.
LEMMA UndoFile ==
  ASSUME TypeOK, TypeOK', OneFlush, FileOK, ~duplicates, ~duplicates', NEW t \in Everyone,
         UndoBatch(t)
  PROVE  FileOK' /\ Durable' = Durable
  <1>1. PICK d : d = Durable
    OBVIOUS
  <1>2. /\ inflight' \in Seq(Record) /\ inflight' \in Seq(Chunks) /\ d \in Seq(Chunks)
        /\ Counted(d, size, flushed, lost)
    BY <1>1, FileParts
  <1>3. disk' = Truncated(disk, size) /\ size' = size /\ flushed' = flushed
    BY DEF UndoBatch, Undone
  <1>4. disk' = d
    BY <1>1, <1>3, Zenon DEF Durable
  <1>5. ~Wrote' /\ ~Cut' /\ inflight' = <<>> /\ lost' = lost
    BY WriteEnds
  <1>6. Splits(d, disk', inflight', Wrote', Cut')
    BY <1>2, <1>4, <1>5, SplitsNone
  <1> QED
    BY <1>1, <1>2, <1>3, <1>5, <1>6, FileKept

FileSame == <<disk, size, flushed, inflight, duplicates>>

LEMMA NextFileOK ==
  TypeOK /\ NeedSet /\ OneFlush /\ Ordered /\ Covered /\ FileOK /\ [Next]_vars => FileOK'
  <1> SUFFICES ASSUME TypeOK, NeedSet, OneFlush, Ordered, Covered, FileOK, [Next]_vars, ~duplicates'
               PROVE  FileOK'
    BY Zenon DEF FileOK
  <1>1. TypeOK' /\ inflight \in Seq(Record) /\ inflight' \in Seq(Record)
        /\ inflight \in Seq(Chunks) /\ inflight' \in Seq(Chunks)
    <2>1. TypeOK' /\ TypeOK
      BY NextTypeOK
    <2> QED
      BY <2>1, RecordsAreChunks DEF TypeOK
  <1> USE DEF queueVars, batchVars, timerVars, lifeVars, fileVars, countVars, FileSame
  <1>2. CASE UNCHANGED FileSame /\ lost \subseteq lost' /\ (Wrote' <=> Wrote) /\ (Cut' <=> Cut)
    BY <1>2, FileFrame
  <1>3. ASSUME NEW t \in Threads, ClientCall(t) PROVE FileOK'
    <2>1. UNCHANGED FileSame /\ lost' = lost /\ t \in Everyone
      BY <1>3 DEF ClientCall, Append_, Flush, BeginClose, CloseAgain, Everyone
    <2>2. pc[t] = "idle" /\ \E label \in {"admit", "flush", "join", "await"} :
            Goto(t, label) \/ GotoNotify(t, label)
      BY <1>3 DEF ClientCall, Append_, Flush, BeginClose, CloseAgain
    <2>3. (Wrote' <=> Wrote) /\ (Cut' <=> Cut)
      BY <2>1, <2>2, GotoSame
    <2> QED
      BY <1>2, <2>1, <2>3
  <1>4. ASSUME NEW t \in Threads, Push(t) PROVE FileOK'
    <2>1. UNCHANGED FileSame /\ t \in Everyone /\ \E k \in 0..Len(queue) : Discard(k)
      BY <1>4 DEF Push, Everyone
    <2>2. pc[t] \notin {"commit", "undo"} /\ \E label \in {"start", "idle", "flush", "sched"} :
            Goto(t, label) \/ GotoNotify(t, label)
      BY <1>4 DEF Push, AtAdmission
    <2>3. (Wrote' <=> Wrote) /\ (Cut' <=> Cut)
      BY <2>1, <2>2, GotoSame
    <2> QED
      BY <1>2, <2>1, <2>3 DEF Discard
  <1>5. ASSUME NEW t \in Threads, ClientStep(t), ~Push(t) PROVE FileOK'
    <2>1. UNCHANGED FileSame /\ lost \subseteq lost' /\ t \in Everyone
      BY <1>5 DEF ClientStep, Refuse, RejectOversized, Backpressure, Wait, DropNewest,
                  Discard, AwaitClosed, Join, EndClose, Everyone
    <2>2. pc[t] \notin {"commit", "undo"}
          /\ \E label \in {"idle", "start_observe", "observe", "wait", "flush"} :
               Goto(t, label) \/ GotoNotify(t, label)
      BY <1>5 DEF ClientStep, Refuse, RejectOversized, Backpressure, Wait, DropNewest,
                  AwaitClosed, Join, EndClose, AtAdmission
    <2>3. (Wrote' <=> Wrote) /\ (Cut' <=> Cut)
      BY <2>1, <2>2, GotoSame
    <2> QED
      BY <1>2, <2>1, <2>3
  <1>6. ASSUME NEW t \in Everyone, Reschedule(t) \/ StartWorker(t) PROVE FileOK'
    <2>1. UNCHANGED FileSame /\ lost' = lost
      BY <1>6 DEF Reschedule, StartWorker
    <2>2. (Wrote' <=> Wrote) /\ (Cut' <=> Cut)
      <3>1. CASE Reschedule(t)
        <4>1. pc[t] = "sched" /\ \E label \in {"start", "work", "end_close", "idle"} :
                Goto(t, label) \/ GotoNotify(t, label)
          BY <3>1 DEF Reschedule, Home
        <4> QED
          BY <4>1, GotoSame
      <3>2. CASE StartWorker(t)
        <4>1. \A u \in Everyone : /\ pc'[u] = "commit" <=> pc[u] = "commit"
                                  /\ pc'[u] = "undo" <=> pc[u] = "undo"
          BY <3>2 DEF StartWorker, Home
        <4> QED
          BY <4>1, Zenon DEF Wrote, Cut
      <3> QED
        BY <1>6, <3>1, <3>2
    <2> QED
      BY <1>2, <2>1, <2>2
  <1>7. CASE WorkerStep
    <2>1. UNCHANGED FileSame /\ lost' = lost /\ Worker \in Everyone
      BY <1>7 DEF WorkerStep, WorkDue, WorkerExit, Everyone
    <2>2. pc[Worker] = "work" /\ \E label \in {"flush", "exited"} : Goto(Worker, label)
      BY <1>7 DEF WorkerStep, WorkDue, WorkerExit
    <2>3. (Wrote' <=> Wrote) /\ (Cut' <=> Cut)
      BY <2>1, <2>2, GotoSame
    <2> QED
      BY <1>2, <2>1, <2>3
  <1>8. CASE UNCHANGED vars
    <2>1. pc' = pc /\ UNCHANGED FileSame /\ lost' = lost
      BY <1>8 DEF vars
    <2>2. (Wrote' <=> Wrote) /\ (Cut' <=> Cut)
      BY <2>1, Zenon DEF Wrote, Cut
    <2> QED
      BY <1>2, <2>1, <2>2
  <1>9. ASSUME NEW t \in Everyone, FlushStep(t), duplicates PROVE FALSE
    BY <1>9 DEF FlushStep, TakeBatch, WriteBatch, WriteFails, CommitBatch, UndoBatch, Undone,
                Reschedule, StartWorker
  <1>10. ASSUME ~duplicates
         PROVE  /\ Splits(Durable, disk, inflight, Wrote, Cut)
                /\ Counted(Durable, size, flushed, lost)
                /\ Durable \in Seq(Record) /\ Durable \in Seq(Chunks)
    BY <1>10, DurableTypes DEF FileOK
  <1>11. PICK d : d = Durable
    OBVIOUS
  <1>12. ASSUME NEW t \in Everyone, TakeBatch(t) PROVE FileOK'
    <2>1. wlock = NoOne /\ ~duplicates /\ disk' = disk /\ size' = size /\ flushed' = flushed /\ lost' = lost
      BY <1>9, <1>12 DEF TakeBatch, FlushStep
    <2>2. \A u \in Everyone : ~Flushing(u)
      BY <2>1, WriterAssumption DEF OneFlush, Everyone
    <2>3. \A u \in Everyone : ~(pc'[u] = "commit") /\ ~(pc'[u] = "undo")
      <3>1. PICK label \in {"sched", "write"} : Goto(t, label)
        BY <1>12 DEF TakeBatch
      <3> QED
        BY <2>2, <3>1 DEF Goto, Flushing, TypeOK
    <2>4. ~Wrote /\ ~Cut /\ ~Wrote' /\ ~Cut'
      BY <2>2, <2>3, NoneWrites DEF Wrote, Cut
    <2>5. disk = d
      BY <1>1, <1>10, <1>11, <2>1, <2>4, SplitsNone
    <2>6. Splits(d, disk', inflight', Wrote', Cut')
      BY <1>1, <1>10, <1>11, <2>1, <2>4, <2>5, SplitsNone
    <2> QED
      BY <1>1, <1>10, <1>11, <2>1, <2>6, FileKept
  <1>13. ASSUME NEW t \in Everyone, WriteBatch(t) \/ WriteFails(t) PROVE FileOK'
    BY <1>1, <1>9, <1>13, WriteFile DEF FlushStep
  <1>15. ASSUME NEW t \in Everyone, CommitBatch(t) PROVE FileOK'
    BY <1>1, <1>9, <1>15, CommitFile DEF FlushStep
  <1>16. ASSUME NEW t \in Everyone, UndoBatch(t) PROVE FileOK'
    BY <1>1, <1>9, <1>16, UndoFile DEF FlushStep
  <1> QED
    BY <1>3, <1>4, <1>5, <1>6, <1>7, <1>8, <1>12, <1>13, <1>15, <1>16 DEF Next, FlushStep, Finished

-----------------------------------------------------------------------------
(* What the file says                                                      *)

\* In place of the lines of the durable part, the file has nothing else.
LEMMA DurableOnDisk ==
  ASSUME TypeOK, FileOK, ~duplicates
  PROVE  RowsOf(Durable) \subseteq OnDisk
  <1>1. PICK d : d = Durable
    OBVIOUS
  <1>2. d \in Seq(Record) /\ d \in Seq(Chunks) /\ Splits(d, disk, inflight, Wrote, Cut)
    BY <1>1, DurableTypes DEF FileOK
  <1>3. PICK e \in Seq(Chunks) : disk = d \o e
    <2>1. PICK m \in 0..Len(inflight), fr \in Fragments : disk = d \o (SubSeq(inflight, 1, m) \o fr)
      BY <1>2, Zenon DEF Splits
    <2>2. PICK g \in Seq(Chunks) : g = SubSeq(inflight, 1, m)
      BY HeldAreChunks, BytesCut
    <2>3. g \o fr \in Seq(Chunks)
      BY FragmentsAre
    <2> QED
      BY <2>1, <2>2, <2>3, Zenon
  <1>4. PICK l \in Nat : l = Len(d)
    BY <1>2
  <1>5. /\ \A i \in 1..l : disk[i] = d[i] /\ d[i].row # 0
        /\ l <= Len(disk) /\ Len(disk) \in Nat
    <2>1. /\ \A i \in 1..Len(d) : disk[i] = d[i]
          /\ Len(disk) = Len(d) + Len(e)
      BY <1>2, <1>3
    <2>2. ASSUME NEW i \in 1..l PROVE d[i].row # 0
      <3>1. d[i] \in Record
        BY <1>2, <1>4
      <3> QED
        BY <3>1 DEF Record
    <2> QED
      BY <1>4, <2>1, <2>2
  <1>6. ASSUME NEW i \in 1..l PROVE d[i].row \in OnDisk
    <2>1. i \in 1..Len(disk) /\ (i = 1 \/ i - 1 \in 1..l)
      BY <1>5
    <2>2. Readable(i)
      BY <1>5, <2>1 DEF Readable
    <2>3. i \in {j \in 1..Len(disk) : Readable(j)}
      BY <2>1, <2>2
    <2>4. disk[i].row \in OnDisk
      BY <2>3, Zenon DEF OnDisk
    <2> QED
      BY <1>5, <2>4
  <1> QED
    BY <1>1, <1>4, <1>6 DEF RowsOf

LEMMA FileOKGivesHonest == TypeOK /\ FileOK => WatermarkHonest
  <1> SUFFICES ASSUME TypeOK, FileOK, ~duplicates, NEW r \in 1..flushed
               PROVE  r \in OnDisk \cup lost
    BY Zenon DEF WatermarkHonest
  <1>1. r \in RowsOf(Durable) \cup lost
    BY Zenon DEF FileOK, Counted
  <1> QED
    BY <1>1, DurableOnDisk

\* Nothing is in the file twice while has_duplicate_steps is not set.
LEMMA FileOKGivesFlagged == TypeOK /\ Ordered /\ FileOK => RepeatsFlagged
  <1> SUFFICES ASSUME TypeOK, Ordered, FileOK, ~duplicates,
                      NEW i \in 1..Len(disk), NEW j \in 1..Len(disk), i # j,
                      disk[i].row = disk[j].row, disk[i].row # 0
               PROVE  FALSE
    BY Zenon DEF RepeatsFlagged
  <1>1. PICK d : d = Durable
    OBVIOUS
  <1>2. /\ d \in Seq(Record) /\ d \in Seq(Chunks) /\ Splits(d, disk, inflight, Wrote, Cut)
        /\ Counted(d, size, flushed, lost)
    BY <1>1, DurableTypes DEF FileOK
  <1>3. PICK m \in 0..Len(inflight), fr \in Fragments : disk = d \o (SubSeq(inflight, 1, m) \o fr)
    BY <1>2, Zenon DEF Splits
  <1>4. PICK g : g = SubSeq(inflight, 1, m)
    OBVIOUS
  <1>5. g \in Seq(Chunks) /\ Len(g) = m /\ \A k \in 1..m : g[k] = inflight[k] /\ k \in 1..Len(inflight)
    <2>1. inflight \in Seq(Chunks) /\ Len(inflight) \in Nat
      BY HeldAreChunks
    <2>2. g \in Seq(Chunks) /\ Len(g) = m /\ \A k \in 1..m : g[k] = inflight[k]
      BY <1>4, <2>1
    <2>3. \A k \in 1..m : k \in 1..Len(inflight)
      BY <2>1
    <2> QED
      BY <2>2, <2>3
  <1>6. fr \in Seq(Chunks) /\ \A k \in 1..Len(fr) : fr[k].row = 0
    BY FragmentsAre
  <1>7. PICK l \in Nat : l = Len(d)
    BY <1>2
  <1>8. PICK e : e = g \o fr
    OBVIOUS
  <1>9. /\ e \in Seq(Chunks) /\ Len(e) = m + Len(fr) /\ Len(fr) \in Nat
        /\ \A k \in 1..m : e[k] = g[k]
        /\ \A k \in 1..Len(fr) : e[m + k] = fr[k]
    <2>1. /\ e \in Seq(Chunks) /\ Len(e) = Len(g) + Len(fr) /\ Len(fr) \in Nat
          /\ \A k \in 1..Len(g) : e[k] = g[k]
          /\ \A k \in 1..Len(fr) : e[Len(g) + k] = fr[k]
      <3>1. g \in Seq(Chunks) /\ fr \in Seq(Chunks)
        BY <1>5, <1>6
      <3> QED
        BY <1>8, <3>1
    <2> QED
      BY <1>5, <2>1, Zenon
  <1>10. /\ Len(disk) = l + Len(e)
         /\ \A k \in 1..l : disk[k] = d[k]
         /\ \A k \in 1..Len(e) : disk[l + k] = e[k]
    <2>1. disk = d \o e
      BY <1>3, <1>4, <1>8, Zenon
    <2>2. /\ Len(disk) = Len(d) + Len(e)
          /\ \A k \in 1..Len(d) : disk[k] = d[k]
          /\ \A k \in 1..Len(e) : disk[Len(d) + k] = e[k]
      <3>1. d \in Seq(Chunks) /\ e \in Seq(Chunks)
        BY <1>2, <1>9
      <3> QED
        BY <2>1, <3>1
    <2> QED
      BY <1>7, <2>2, Zenon
  \* A line of the durable part, or a line of the batch.
  <1>11. ASSUME NEW k \in 1..Len(disk), disk[k].row # 0
         PROVE  \/ k \in 1..l /\ disk[k] = d[k]
                \/ k - l \in 1..m /\ disk[k] = inflight[k - l]
    <2>1. CASE k <= l
      BY <1>10, <2>1
    <2>2. CASE k > l
      <3>1. PICK a : a = k - l
        OBVIOUS
      <3>2. a \in 1..Len(e) /\ l + a = k
        <4>1. Len(e) \in Nat /\ Len(disk) = l + Len(e)
          BY <1>9, <1>10
        <4> QED
          BY <2>2, <3>1, <4>1
      <3>3. disk[k] = e[a]
        BY <1>10, <3>2
      <3>4. CASE a <= m
        <4>1. a \in 1..m
          BY <3>2, <3>4
        <4> QED
          BY <1>5, <1>9, <3>1, <3>3, <4>1
      <3>5. CASE a > m
        <4>1. PICK b : b = a - m
          OBVIOUS
        <4>2. b \in 1..Len(fr) /\ m + b = a
          BY <1>9, <3>2, <3>5, <4>1
        <4>3. e[a] = fr[b] /\ fr[b].row = 0
          BY <1>6, <1>9, <4>2
        <4> QED
          BY <1>11, <3>3, <4>3
      <3> QED
        BY <3>2, <3>4, <3>5
    <2> QED
      BY <2>1, <2>2
  <1>12. /\ \A a \in 1..l : d[a].row \in Nat /\ d[a].row <= flushed
         /\ \A a, b \in 1..l : a < b => d[a].row # d[b].row
         /\ flushed \in Nat
    <2>1. \A a \in 1..l : d[a] \in Record
      BY <1>2, <1>7
    <2>2. \A a \in 1..l : d[a].row \in Nat
      BY <2>1 DEF Record
    <2>3. \A a, b \in 1..l : a < b => d[a].row < d[b].row
      BY <1>2, <1>7 DEF Counted
    <2>4. \A a, b \in 1..l : a < b => d[a].row # d[b].row
      BY <2>2, <2>3
    <2> QED
      BY <1>2, <1>7, <2>2, <2>4 DEF Counted, TypeOK
  <1>13. /\ \A a \in 1..m : inflight[a].row \in Nat /\ flushed < inflight[a].row
         /\ \A a, b \in 1..m : a < b => inflight[a].row # inflight[b].row
    <2>1. \A a \in 1..m : inflight[a].row \in Nat /\ flushed < inflight[a].row
      BY <1>5, RowType DEF Ordered, Fresh
    <2>2. \A a, b \in 1..m : a < b => inflight[a].row < inflight[b].row
      BY <1>5 DEF Ordered
    <2> QED
      BY <2>1, <2>2
  <1>14. \A a \in 1..l, b \in 1..m : d[a].row # inflight[b].row
    <2>1. ASSUME NEW a \in 1..l, NEW b \in 1..m PROVE d[a].row # inflight[b].row
      <3>1. PICK x \in Nat : x = d[a].row
        BY <1>12
      <3>2. PICK y \in Nat : y = inflight[b].row
        BY <1>13
      <3>3. x <= flushed /\ flushed < y
        BY <1>12, <1>13, <3>1, <3>2
      <3>4. x # y
        BY <1>12, <3>3
      <3> QED
        BY <3>1, <3>2, <3>4, Zenon
    <2> QED
      BY <2>1
  <1>15. i < j \/ j < i
    BY <1>9, <1>10
  <1>16. ASSUME NEW a \in 1..Len(disk), NEW b \in 1..Len(disk), a < b,
                disk[a].row # 0, disk[b].row # 0
         PROVE  disk[a].row # disk[b].row
    <2>1. CASE a \in 1..l /\ disk[a] = d[a] /\ b \in 1..l /\ disk[b] = d[b]
      BY <1>12, <1>16, <2>1, Zenon
    <2>2. CASE a \in 1..l /\ disk[a] = d[a] /\ b - l \in 1..m /\ disk[b] = inflight[b - l]
      BY <1>14, <2>2, Zenon
    <2>3. CASE a - l \in 1..m /\ b \in 1..l
      BY <1>16, <2>3
    <2>4. CASE a - l \in 1..m /\ disk[a] = inflight[a - l] /\ b - l \in 1..m /\ disk[b] = inflight[b - l]
      <3>1. a - l < b - l
        BY <1>16
      <3> QED
        BY <1>13, <2>4, <3>1, Zenon
    <2> QED
      BY <1>11, <1>16, <2>1, <2>2, <2>3, <2>4
  <1> QED
    BY <1>15, <1>16

LEMMA FileInvariant == Spec => [](TypeOK /\ Ordered /\ Covered /\ FileOK)
  <1> DEFINE I == TypeOK /\ NeedSet /\ OneFlush
             J == Ordered /\ Covered /\ FileOK
  <1>1. Init => J
    <2> SUFFICES ASSUME Init PROVE J
      OBVIOUS
    <2>1. Ordered
      BY DEF Init, Ordered
    <2>2. Covered
      BY DEF Init, Covered
    <2>3. ~Wrote /\ ~Cut
      BY DEF Init, Wrote, Cut
    <2>4. <<>> \in Seq(Chunks) /\ <<>> \in Seq(Record)
      OBVIOUS
    <2>5. BytesOf(<<>>) = 0
      BY BytesFew
    <2>6. Splits(<<>>, <<>>, <<>>, Wrote, Cut)
      BY <2>3, <2>4, SplitsNone, Zenon
    <2>7. Truncated(<<>>, 0) = <<>>
      BY <2>4, <2>5, <2>6, SplitsDurable, Zenon
    <2>8. Counted(<<>>, 0, 0, lost)
      BY <2>4, <2>5 DEF Counted
    <2>9. disk = <<>> /\ inflight = <<>> /\ size = 0 /\ flushed = 0
      BY DEF Init
    <2>10. Durable = <<>>
      BY <2>7, <2>9, Zenon DEF Durable
    <2>11. FileOK
      BY <2>6, <2>8, <2>9, <2>10, Zenon DEF FileOK
    <2> QED
      BY <2>1, <2>2, <2>11
  <1>2. I /\ J /\ [Next]_vars => J'
    BY NextOrdered, NextCovered, NextFileOK
  <1>3. Spec => []I
    BY TypeCorrect
  <1>4. Spec => []J
    <2> HIDE DEF I, J
    <2> QED
      BY <1>1, <1>2, <1>3, PTL DEF Spec
  <1>5. I /\ J => TypeOK /\ Ordered /\ Covered /\ FileOK
    OBVIOUS
  <1> QED
    BY <1>3, <1>4, <1>5, PTL

(* Eviction may trust the watermark: every row up to flushed_row is in the *)
(* file as a line of its own, or was discarded in an outage and counted,   *)
(* whatever writes failed and were undone, for every number of threads.    *)
THEOREM WatermarkTrusted == Spec => []WatermarkHonest
  BY FileInvariant, FileOKGivesHonest, PTL

(* No record reaches the file twice unless has_duplicate_steps says so:    *)
(* a batch that failed is cut off before it is written again, and when the *)
(* cut itself fails the flag is set (rollback in persistence.rs).          *)
THEOREM NoSilentRepeats == Spec => []RepeatsFlagged
  BY FileInvariant, FileOKGivesFlagged, PTL

-----------------------------------------------------------------------------
(* The abstract log                                                        *)

LEMMA RowsAre ==
  ASSUME NEW s \in Seq(Chunks)
  PROVE  /\ Rows(s) \in Seq(Nat) /\ Len(Rows(s)) = Len(s)
         /\ \A i \in 1..Len(s) : Rows(s)[i] = s[i].row
  <1>1. ASSUME NEW i \in 1..Len(s) PROVE s[i].row \in Nat
    <2>1. s[i] \in Chunks
      OBVIOUS
    <2> QED
      BY <2>1 DEF Chunks
  <1>2. PICK f : f = Rows(s)
    OBVIOUS
  <1>3. f = [i \in 1..Len(s) |-> s[i].row] /\ Len(s) \in Nat
    BY <1>2 DEF Rows
  <1>4. f \in Seq(Nat) /\ Len(f) = Len(s)
    BY <1>1, <1>3
  <1> QED
    BY <1>2, <1>3, <1>4

LEMMA RowsOfConcat ==
  ASSUME NEW s \in Seq(Chunks), NEW t \in Seq(Chunks)
  PROVE  Rows(s \o t) = Rows(s) \o Rows(t)
  <1>1. PICK u : u = s \o t
    OBVIOUS
  <1>2. PICK m, n \in Nat : m = Len(s) /\ n = Len(t)
    OBVIOUS
  <1>3. u \in Seq(Chunks) /\ Len(u) = m + n
        /\ (\A i \in 1..m : u[i] = s[i]) /\ (\A i \in 1..n : u[m + i] = t[i])
    <2>1. /\ u \in Seq(Chunks) /\ Len(u) = Len(s) + Len(t)
          /\ \A i \in 1..Len(s) : u[i] = s[i]
          /\ \A i \in 1..Len(t) : u[Len(s) + i] = t[i]
      BY <1>1
    <2> QED
      BY <1>2, <2>1, Zenon
  <1>4. PICK a, b, c : a = Rows(s) /\ b = Rows(t) /\ c = Rows(u)
    OBVIOUS
  <1>5. /\ a \in Seq(Nat) /\ Len(a) = m /\ \A i \in 1..m : a[i] = s[i].row
        /\ b \in Seq(Nat) /\ Len(b) = n /\ \A i \in 1..n : b[i] = t[i].row
        /\ c \in Seq(Nat) /\ Len(c) = m + n /\ \A i \in 1..(m + n) : c[i] = u[i].row
    BY <1>2, <1>3, <1>4, RowsAre, Zenon
  <1>6. PICK d : d = a \o b
    OBVIOUS
  <1>7. d \in Seq(Nat) /\ Len(d) = m + n
        /\ (\A i \in 1..m : d[i] = a[i]) /\ (\A i \in 1..n : d[m + i] = b[i])
    <2>1. a \in Seq(Nat) /\ b \in Seq(Nat)
      BY <1>5
    <2>2. /\ d \in Seq(Nat) /\ Len(d) = Len(a) + Len(b)
          /\ \A i \in 1..Len(a) : d[i] = a[i]
          /\ \A i \in 1..Len(b) : d[Len(a) + i] = b[i]
      BY <1>6, <2>1
    <2> QED
      BY <1>5, <2>2, Zenon
  <1>8. ASSUME NEW i \in 1..(m + n) PROVE c[i] = d[i]
    <2>1. CASE i <= m
      <3>1. i \in 1..m
        BY <2>1
      <3>2. c[i] = u[i].row /\ u[i] = s[i] /\ d[i] = a[i] /\ a[i] = s[i].row
        BY <1>3, <1>5, <1>7, <3>1, Zenon
      <3> QED
        BY <3>2, Zenon
    <2>2. CASE i > m
      <3>1. PICK j : j = i - m
        OBVIOUS
      <3>2. j \in 1..n /\ m + j = i
        BY <2>2, <3>1
      <3>3. c[m + j] = u[m + j].row /\ u[m + j] = t[j] /\ d[m + j] = b[j] /\ b[j] = t[j].row
        BY <1>3, <1>5, <1>7, <3>2, Zenon
      <3> QED
        BY <3>2, <3>3, Zenon
    <2> QED
      BY <2>1, <2>2
  <1>9. c = d
    BY <1>5, <1>7, <1>8, SeqEqual
  <1> QED
    BY <1>1, <1>4, <1>6, <1>9, Zenon

LEMMA RowsOfCut ==
  ASSUME NEW s \in Seq(Chunks), NEW k \in 0..Len(s)
  PROVE  Rows(SubSeq(s, k + 1, Len(s))) = SubSeq(Rows(s), k + 1, Len(s))
  <1>1. PICK n \in Nat : n = Len(s)
    OBVIOUS
  <1>2. PICK t : t = SubSeq(s, k + 1, n)
    OBVIOUS
  <1>3. t \in Seq(Chunks) /\ Len(t) = n - k /\ \A i \in 1..(n - k) : t[i] = s[k + i]
    BY <1>1, <1>2
  <1>4. PICK a, b : a = Rows(s) /\ b = Rows(t)
    OBVIOUS
  <1>5. /\ a \in Seq(Nat) /\ Len(a) = n /\ \A i \in 1..n : a[i] = s[i].row
        /\ b \in Seq(Nat) /\ Len(b) = n - k /\ \A i \in 1..(n - k) : b[i] = t[i].row
    BY <1>1, <1>3, <1>4, RowsAre, Zenon
  <1>6. PICK d : d = SubSeq(a, k + 1, n)
    OBVIOUS
  <1>7. d \in Seq(Nat) /\ Len(d) = n - k /\ \A i \in 1..(n - k) : d[i] = a[k + i]
    <2>1. a \in Seq(Nat) /\ Len(a) = n /\ k \in 0..Len(a)
      BY <1>1, <1>5
    <2> QED
      BY <1>6, <2>1, CutFrom, Zenon
  <1>8. ASSUME NEW i \in 1..(n - k) PROVE b[i] = d[i]
    <2>1. k + i \in 1..n
      BY <1>1
    <2> QED
      BY <1>3, <1>5, <1>7, <2>1, Zenon
  <1>9. b = d
    BY <1>1, <1>5, <1>7, <1>8, SeqEqual
  <1> QED
    BY <1>1, <1>2, <1>4, <1>6, <1>9, Zenon

\* Giving up k numbers after the first ones, and what is then left.
LEMMA WithoutIs ==
  ASSUME NEW a \in Seq(Nat), NEW b \in Seq(Nat), NEW k \in 0..Len(b)
  PROVE  /\ SubSeq(a \o b, 1, Len(a)) = a
         /\ SubSeq(a \o b, Len(a) + 1 + k, Len(a \o b)) = SubSeq(b, k + 1, Len(b))
         /\ \A j \in 1..Len(b) : (a \o b)[Len(a) + j] = b[j]
         /\ Len(a \o b) = Len(a) + Len(b)
  <1>1. PICK c : c = a \o b
    OBVIOUS
  <1>2. PICK m, n \in Nat : m = Len(a) /\ n = Len(b)
    OBVIOUS
  <1>3. c \in Seq(Nat) /\ Len(c) = m + n
        /\ (\A i \in 1..m : c[i] = a[i]) /\ (\A i \in 1..n : c[m + i] = b[i])
    <2>1. /\ c \in Seq(Nat) /\ Len(c) = Len(a) + Len(b)
          /\ \A i \in 1..Len(a) : c[i] = a[i]
          /\ \A i \in 1..Len(b) : c[Len(a) + i] = b[i]
      BY <1>1
    <2> QED
      BY <1>2, <2>1, Zenon
  <1>4. SubSeq(c, 1, m) = a
    <2>1. PICK d : d = SubSeq(c, 1, m)
      OBVIOUS
    <2>2. d \in Seq(Nat) /\ Len(d) = m /\ \A i \in 1..m : d[i] = c[i]
      <3>1. c \in Seq(Nat) /\ m \in 0..Len(c)
        BY <1>3
      <3> QED
        BY <2>1, <3>1, CutTo, Zenon
    <2>3. \A i \in 1..m : d[i] = a[i]
      BY <1>3, <2>2, Zenon
    <2> QED
      BY <1>2, <2>1, <2>2, <2>3, SeqEqual
  <1>5. SubSeq(c, m + 1 + k, m + n) = SubSeq(b, k + 1, n)
    <2>1. PICK d, e : d = SubSeq(c, m + 1 + k, m + n) /\ e = SubSeq(b, k + 1, n)
      OBVIOUS
    <2>2. PICK f \in Nat : f = m + k
      OBVIOUS
    <2>3. f <= m + n /\ d = SubSeq(c, f + 1, m + n) /\ (m + n) - f = n - k
      BY <1>2, <2>1, <2>2
    <2>4. d \in Seq(Nat) /\ Len(d) = n - k /\ \A i \in 1..(n - k) : d[i] = c[f + i]
      <3>1. c \in Seq(Nat) /\ Len(c) = m + n /\ f \in 0..Len(c)
        BY <1>3, <2>3
      <3>2. d \in Seq(Nat) /\ Len(d) = (m + n) - f /\ \A i \in 1..((m + n) - f) : d[i] = c[f + i]
        <4>1. d = SubSeq(c, f + 1, Len(c))
          BY <2>3, <3>1, Zenon
        <4>2. d \in Seq(Nat) /\ Len(d) = Len(c) - f /\ \A i \in 1..(Len(c) - f) : d[i] = c[f + i]
          BY <3>1, <4>1, CutFrom, Zenon
        <4> QED
          BY <3>1, <4>2, Zenon
      <3> QED
        BY <2>3, <3>2
    <2>5. e \in Seq(Nat) /\ Len(e) = n - k /\ \A i \in 1..(n - k) : e[i] = b[k + i]
      BY <1>2, <2>1, CutFrom, Zenon
    <2>6. ASSUME NEW i \in 1..(n - k) PROVE d[i] = e[i]
      <3>1. k + i \in 1..n /\ f + i = m + (k + i)
        BY <1>2, <2>2
      <3>2. c[m + (k + i)] = b[k + i]
        BY <1>3, <3>1, Zenon
      <3> QED
        BY <2>4, <2>5, <3>1, <3>2, Zenon
    <2> QED
      BY <1>2, <2>1, <2>4, <2>5, <2>6, SeqEqual
  <1> QED
    BY <1>1, <1>2, <1>3, <1>4, <1>5, Zenon

-----------------------------------------------------------------------------
(* Closing                                                                 *)

\* Only the thread whose begin_close won ends the close, and only once.
ClosesOnce ==
    /\ closing <=> closer # NoOne
    /\ closed => closing
    /\ \A t \in Everyone : pc[t] = "end_close" => t = closer /\ ~closed

\* What is still queued when the closer has had its flush failed to be written.
Past == {"write", "commit", "undo", "sched", "start", "end_close"}

Drained ==
    closing /\ ~closed /\ pc[closer] \in Past => (queue # <<>> => retry /\ inflight = <<>>)

LEMMA NextClosesOnce == TypeOK /\ ClosesOnce /\ [Next]_vars => ClosesOnce'
  <1> SUFFICES ASSUME TypeOK, ClosesOnce, [Next]_vars PROVE ClosesOnce'
    OBVIOUS
  <1> USE WriterAssumption
      DEF Everyone, ClosesOnce, TypeOK, queueVars, batchVars, lifeVars
  <1>1. ASSUME NEW t \in Threads, BeginClose(t) PROVE ClosesOnce'
    <2>1. closer = NoOne /\ closer' = t /\ closing' /\ closed' = closed /\ ~closing
      BY <1>1 DEF BeginClose
    <2>2. \A u \in Everyone : pc'[u] # "end_close"
      BY <1>1, <2>1 DEF BeginClose, GotoNotify
    <2> QED
      BY <2>1, <2>2
  <1>2. ASSUME NEW t \in Threads, Append_(t) \/ Flush(t) \/ CloseAgain(t) PROVE ClosesOnce'
    BY <1>2 DEF Append_, Flush, CloseAgain, Goto
  <1>3. ASSUME NEW t \in Threads, Push(t) PROVE ClosesOnce'
    BY <1>3 DEF Push, Goto, GotoNotify, AtAdmission
  <1>4. ASSUME NEW t \in Threads, ClientStep(t), ~Push(t), ~EndClose(t) PROVE ClosesOnce'
    <2>1. UNCHANGED <<closing, closed, closer>>
      BY <1>4 DEF ClientStep, Refuse, RejectOversized, Backpressure, Wait, DropNewest,
                  AwaitClosed, Join
    <2>2. \A u \in Everyone : pc'[u] = "end_close" => pc[u] = "end_close"
      <3>1. PICK label \in {"idle", "start_observe", "observe", "wait", "flush"} :
              Goto(t, label) \/ GotoNotify(t, label)
        BY <1>4 DEF ClientStep, Refuse, RejectOversized, Backpressure, Wait, DropNewest,
                    AwaitClosed, Join
      <3> QED
        BY <3>1 DEF Goto, GotoNotify
    <2> QED
      BY <2>1, <2>2
  <1>5. ASSUME NEW t \in Threads, EndClose(t) PROVE ClosesOnce'
    <2>1. t = closer /\ closed' /\ closer' = closer /\ closing' = closing
      BY <1>5 DEF EndClose
    <2>2. \A u \in Everyone : pc'[u] # "end_close"
      BY <1>5, <2>1 DEF EndClose, GotoNotify
    <2> QED
      BY <2>1, <2>2
  <1>6. ASSUME NEW t \in Everyone, TakeBatch(t) \/ WriteBatch(t) \/ WriteFails(t) PROVE ClosesOnce'
    <2>1. UNCHANGED <<closing, closed, closer>>
      BY <1>6 DEF TakeBatch, WriteBatch, WriteFails
    <2>2. \A u \in Everyone : pc'[u] = "end_close" => pc[u] = "end_close"
      BY <1>6 DEF TakeBatch, WriteBatch, WriteFails, Goto
    <2> QED
      BY <2>1, <2>2
  <1>7. ASSUME NEW t \in Everyone, CommitBatch(t) \/ UndoBatch(t) PROVE ClosesOnce'
    <2>1. UNCHANGED <<closing, closed, closer>>
      BY <1>7 DEF CommitBatch, UndoBatch
    <2>2. \A u \in Everyone : pc'[u] = "end_close" => pc[u] = "end_close"
      BY <1>7 DEF CommitBatch, UndoBatch, GotoNotify
    <2> QED
      BY <2>1, <2>2
  <1>8. ASSUME NEW t \in Everyone, Reschedule(t) \/ StartWorker(t) PROVE ClosesOnce'
    <2>1. UNCHANGED <<closing, closed, closer>>
      BY <1>8 DEF Reschedule, StartWorker
    <2>2. \A u \in Everyone : pc'[u] = "end_close" => pc[u] = "end_close" \/ (u = closer /\ ~closed)
      <3>1. CASE Reschedule(t)
        <4>1. PICK label \in {"start", Home(t)} : GotoNotify(t, label) \/ Goto(t, label)
          BY <3>1 DEF Reschedule
        <4>2. label = "end_close" => t = closer /\ ~closed
          BY <4>1 DEF Home
        <4> QED
          BY <4>1, <4>2 DEF Goto, GotoNotify
      <3>2. CASE StartWorker(t)
        BY <3>2 DEF StartWorker, Home
      <3> QED
        BY <1>8, <3>1, <3>2
    <2> QED
      BY <2>1, <2>2
  <1>9. CASE WorkerStep
    BY <1>9 DEF WorkerStep, WorkDue, WorkerExit, Goto
  <1>10. CASE UNCHANGED vars
    BY <1>10 DEF vars
  <1> QED
    BY <1>1, <1>2, <1>3, <1>4, <1>5, <1>6, <1>7, <1>8, <1>9, <1>10
       DEF Next, ClientCall, FlushStep, Finished

LEMMA NextDrained == TypeOK /\ OneFlush /\ ClosesOnce /\ Drained /\ [Next]_vars => Drained'
  <1> SUFFICES ASSUME TypeOK, OneFlush, ClosesOnce, Drained, [Next]_vars,
                      closing', ~closed', pc'[closer'] \in Past, queue' # <<>>
               PROVE  retry' /\ inflight' = <<>>
    BY DEF Drained
  <1> USE DEF Everyone, Past, TypeOK, queueVars, batchVars, lifeVars
  \* Steps that move nobody to where the closer's flush is over.
  <1>1. CASE UNCHANGED <<queue, inflight, retry, closing, closer, closed>> /\ pc[closer] \in Past
    BY <1>1 DEF Drained
  <1>2. closing => closer \in Threads
    BY DEF ClosesOnce
  <1>3. ASSUME NEW t \in Threads, BeginClose(t) PROVE FALSE
    BY <1>3 DEF BeginClose, GotoNotify
  <1>4. ASSUME NEW t \in Threads, Append_(t) \/ Flush(t) \/ CloseAgain(t)
        PROVE  retry' /\ inflight' = <<>>
    <2>1. UNCHANGED <<queue, inflight, retry, closing, closer, closed>>
      BY <1>4 DEF Append_, Flush, CloseAgain
    <2>2. pc[closer] \in Past
      BY <1>2, <1>4, <2>1 DEF Append_, Flush, CloseAgain, Goto
    <2> QED
      BY <1>1, <2>1, <2>2
  <1>5. ASSUME NEW t \in Threads, Push(t) \/ DropNewest(t) \/ RejectOversized(t) \/ Backpressure(t) PROVE FALSE
    BY <1>5 DEF Push, DropNewest, RejectOversized, Backpressure, Blocked
  <1>6. ASSUME NEW t \in Threads, EndClose(t) PROVE FALSE
    BY <1>6 DEF EndClose
  <1>7. ASSUME NEW t \in Threads, Refuse(t) \/ Wait(t) \/ AwaitClosed(t) \/ Join(t)
        PROVE  retry' /\ inflight' = <<>>
    <2>1. UNCHANGED <<queue, inflight, retry, closing, closer, closed>>
      BY <1>7 DEF Refuse, Wait, AwaitClosed, Join
    <2>2. pc[closer] \in Past
      BY <1>2, <1>7, <2>1 DEF Refuse, Wait, AwaitClosed, Join, Goto
    <2> QED
      BY <1>1, <2>1, <2>2
  <1>8. ASSUME NEW t \in Everyone, TakeBatch(t) PROVE FALSE
    BY <1>8 DEF TakeBatch, NothingToTake
  <1>9. ASSUME NEW t \in Everyone, WriteBatch(t) \/ WriteFails(t)
        PROVE  retry' /\ inflight' = <<>>
    <2>1. UNCHANGED <<queue, inflight, retry, closing, closer, closed>> /\ pc[t] = "write"
      BY <1>9 DEF WriteBatch, WriteFails
    <2>2. pc[closer] \in Past
      BY <1>2, <1>9, <2>1 DEF WriteBatch, WriteFails, Goto
    <2> QED
      BY <1>1, <2>1, <2>2
  <1>10. ASSUME NEW t \in Everyone, CommitBatch(t) PROVE FALSE
    <2>1. /\ UNCHANGED <<queue, closing, closer, closed>> /\ pc[t] = "commit"
          /\ GotoNotify(t, "sched")
      BY <1>10 DEF CommitBatch
    <2>2. pc[closer] \in Past
      BY <1>2, <2>1 DEF GotoNotify
    <2>3. inflight # <<>>
      BY <2>1 DEF OneFlush, Flushing
    <2> QED
      BY <2>1, <2>2, <2>3 DEF Drained
  <1>11. ASSUME NEW t \in Everyone, UndoBatch(t) PROVE retry' /\ inflight' = <<>>
    BY <1>11 DEF UndoBatch
  <1>12. ASSUME NEW t \in Everyone, Reschedule(t) \/ StartWorker(t)
         PROVE  retry' /\ inflight' = <<>>
    <2>1. UNCHANGED <<queue, inflight, retry, closing, closer, closed>>
      BY <1>12 DEF Reschedule, StartWorker
    <2>2. pc[closer] \in Past
      <3>1. CASE Reschedule(t)
        <4>1. pc[t] = "sched" /\ \E label \in {"start", Home(t)} : GotoNotify(t, label) \/ Goto(t, label)
          BY <3>1 DEF Reschedule
        <4> QED
          BY <1>2, <2>1, <4>1 DEF Goto, GotoNotify
      <3>2. CASE StartWorker(t)
        BY <1>2, <2>1, <3>2, WriterAssumption DEF StartWorker, Home
      <3> QED
        BY <1>12, <3>1, <3>2
    <2> QED
      BY <1>1, <2>1, <2>2
  <1>13. CASE WorkerStep
    <2>1. UNCHANGED <<queue, inflight, retry, closing, closer, closed>>
      BY <1>13 DEF WorkerStep, WorkDue, WorkerExit
    <2>2. pc[closer] \in Past
      BY <1>2, <1>13, <2>1, WriterAssumption DEF WorkerStep, WorkDue, WorkerExit, Goto
    <2> QED
      BY <1>1, <2>1, <2>2
  <1>14. CASE UNCHANGED vars
    BY <1>1, <1>14 DEF vars
  <1> QED
    BY <1>3, <1>4, <1>5, <1>6, <1>7, <1>8, <1>9, <1>10, <1>11, <1>12, <1>13, <1>14
       DEF Next, ClientCall, ClientStep, FlushStep, Finished

LEMMA LogSame ==
  ASSUME Rows(inflight' \o queue') = Rows(inflight \o queue), Durable' = Durable,
         UNCHANGED <<retry, nextRow, lost, closing, closed>>
  PROVE  UNCHANGED Log!logVars
  <1>1. Rows(inflight \o queue)' = Rows(inflight \o queue) /\ Rows(Durable)' = Rows(Durable)
    BY Zenon
  <1> QED
    BY <1>1, Zenon DEF Log!logVars

\* What waits, as the log sees it.
LEMMA PendingIs ==
  ASSUME NEW b \in Seq(Chunks), NEW q \in Seq(Chunks)
  PROVE  /\ Rows(b \o q) = Rows(b) \o Rows(q)
         /\ Rows(b) \in Seq(Nat) /\ Len(Rows(b)) = Len(b) /\ Len(b) \in Nat
         /\ Rows(q) \in Seq(Nat) /\ Len(Rows(q)) = Len(q) /\ Len(q) \in Nat
         /\ Rows(b \o q) \in Seq(Nat) /\ Len(Rows(b \o q)) = Len(b) + Len(q)
         /\ \A j \in 1..Len(q) : Rows(b \o q)[Len(b) + j] = q[j].row
  <1>1. PICK x, y : x = Rows(b) /\ y = Rows(q)
    OBVIOUS
  <1>2. /\ x \in Seq(Nat) /\ Len(x) = Len(b) /\ Len(b) \in Nat
        /\ y \in Seq(Nat) /\ Len(y) = Len(q) /\ Len(q) \in Nat
        /\ \A j \in 1..Len(q) : y[j] = q[j].row
    <2>1. /\ Rows(b) \in Seq(Nat) /\ Len(Rows(b)) = Len(b)
          /\ Rows(q) \in Seq(Nat) /\ Len(Rows(q)) = Len(q)
          /\ \A j \in 1..Len(q) : Rows(q)[j] = q[j].row
      BY RowsAre
    <2>2. Len(b) \in Nat /\ Len(q) \in Nat
      OBVIOUS
    <2> QED
      BY <1>1, <2>1, <2>2, Zenon
  <1>3. Rows(b \o q) = x \o y
    BY <1>1, RowsOfConcat, Zenon
  <1>4. PICK z : z = x \o y
    OBVIOUS
  <1>5. z \in Seq(Nat) /\ Len(z) = Len(x) + Len(y) /\ \A j \in 1..Len(y) : z[Len(x) + j] = y[j]
    <2>1. x \in Seq(Nat) /\ y \in Seq(Nat)
      BY <1>2
    <2> QED
      BY <1>4, <2>1
  <1> QED
    BY <1>1, <1>2, <1>3, <1>4, <1>5, Zenon

\* What the outage loop pops is given up; the rest keeps its place.
LEMMA PoppedIs ==
  ASSUME NEW b \in Seq(Chunks), NEW q \in Seq(Chunks), NEW k \in 0..Len(q)
  PROVE  /\ Rows(b \o SubSeq(q, k + 1, Len(q)))
              = SubSeq(Rows(b \o q), 1, Len(b)) \o
                SubSeq(Rows(b \o q), Len(b) + 1 + k, Len(Rows(b \o q)))
         /\ RowsOf(SubSeq(q, 1, k)) = {Rows(b \o q)[j] : j \in (Len(b) + 1)..(Len(b) + 1 + k - 1)}
  <1>1. PICK x, y : x = Rows(b) /\ y = Rows(q)
    OBVIOUS
  <1>2. PICK m, n \in Nat : m = Len(b) /\ n = Len(q)
    OBVIOUS
  <1>3. PICK z : z = Rows(b \o q)
    OBVIOUS
  <1>4. /\ z = x \o y /\ x \in Seq(Nat) /\ Len(x) = m /\ y \in Seq(Nat) /\ Len(y) = n
        /\ \A j \in 1..n : z[m + j] = q[j].row
    BY <1>1, <1>2, <1>3, PendingIs, Zenon
  <1>5. SubSeq(z, 1, m) = x /\ SubSeq(z, m + 1 + k, Len(z)) = SubSeq(y, k + 1, n)
    <2>1. k \in 0..Len(y)
      BY <1>2, <1>4
    <2> QED
      BY <1>4, <2>1, WithoutIs, Zenon
  <1>6. SubSeq(q, k + 1, n) \in Seq(Chunks) /\ Rows(SubSeq(q, k + 1, n)) = SubSeq(y, k + 1, n)
    BY <1>1, <1>2, BytesCut, RowsOfCut, Zenon
  <1>7. Rows(b \o SubSeq(q, k + 1, n)) = x \o SubSeq(y, k + 1, n)
    BY <1>1, <1>6, RowsOfConcat, Zenon
  <1>8. PICK p : p = SubSeq(q, 1, k)
    OBVIOUS
  <1>9. Len(p) = k /\ \A j \in 1..k : p[j] = q[j]
    BY <1>8, CutTo, Zenon
  <1>10. \A r : r \in RowsOf(p) <=> \E j \in 1..k : r = z[m + j]
    <2>1. \A j \in 1..k : j \in 1..n
      BY <1>2
    <2>2. \A j \in 1..k : p[j].row = z[m + j]
      BY <1>4, <1>9, <2>1, Zenon
    <2> QED
      BY <1>9, <2>2, Zenon DEF RowsOf
  <1>11. ASSUME NEW r PROVE r \in RowsOf(p) <=> r \in {z[j] : j \in (m + 1)..(m + 1 + k - 1)}
    <2>1. ASSUME NEW j \in 1..k PROVE m + j \in (m + 1)..(m + 1 + k - 1)
      OBVIOUS
    <2>2. ASSUME NEW i \in (m + 1)..(m + 1 + k - 1) PROVE \E j \in 1..k : i = m + j
      <3>1. PICK j : j = i - m
        OBVIOUS
      <3>2. j \in 1..k /\ i = m + j
        BY <3>1
      <3> QED
        BY <3>2
    <2> QED
      BY <1>10, <2>1, <2>2, Zenon
  <1> QED
    BY <1>2, <1>3, <1>5, <1>7, <1>8, <1>11, Zenon

LEMMA PushAdmits ==
  ASSUME TypeOK, NeedSet, WithinLimits, ClosesOnce, Durable' = Durable, NEW t \in Threads, Push(t)
  PROVE  Log!Admit
  <1>1. PICK k \in 0..Len(queue) :
          LET left      == SubSeq(queue, k + 1, Len(queue))
              leftBytes == queuedBytes - BytesOf(SubSeq(queue, 1, k))
          IN  /\ Pops(k, need[t])
              /\ queue' = Append(left, [row |-> nextRow, bytes |-> need[t]])
              /\ Discard(k)
    BY DEF Push
  <1>2. /\ inflight' = inflight /\ retry' = retry /\ nextRow' = nextRow + 1
        /\ closing' = closing /\ closed' = closed /\ ~closing /\ ~closed /\ ~Blocked(need[t])
    BY DEF Push, batchVars, lifeVars, ClosesOnce
  <1>3. PICK c : c = [row |-> nextRow, bytes |-> need[t]]
    OBVIOUS
  <1>4. c \in Chunks /\ c.row = nextRow /\ nextRow \in Nat
    <2>1. need[t] \in Sizes
      BY DEF Push, AtAdmission, NeedSet
    <2> QED
      BY <1>3, <2>1, WriterAssumption DEF Chunks, TypeOK
  <1>5. PICK b \in Seq(Chunks) : b = inflight
    BY HeldAreChunks
  <1>6. PICK q \in Seq(Chunks) : q = queue
    BY HeldAreChunks
  <1>7. PICK left : left = SubSeq(q, k + 1, Len(q))
    OBVIOUS
  <1>8. left \in Seq(Chunks) /\ queue' = Append(left, c)
    BY <1>1, <1>3, <1>6, <1>7, BytesCut, Zenon
  <1>9. PICK z : z = Rows(b \o q)
    OBVIOUS
  <1>10. PICK m \in Nat : m = Len(b)
    OBVIOUS
  <1>11. z \in Seq(Nat) /\ Len(z) = m + Len(q) /\ Len(q) \in Nat
    BY <1>9, <1>10, PendingIs, Zenon
  <1>12. /\ Rows(b \o left) = SubSeq(z, 1, m) \o SubSeq(z, m + 1 + k, Len(z))
         /\ RowsOf(SubSeq(q, 1, k)) = {z[j] : j \in (m + 1)..(m + 1 + k - 1)}
    <2>1. k \in 0..Len(q)
      BY <1>6
    <2>2. Rows(b \o SubSeq(q, k + 1, Len(q)))
            = SubSeq(Rows(b \o q), 1, Len(b)) \o
              SubSeq(Rows(b \o q), Len(b) + 1 + k, Len(Rows(b \o q)))
      BY <2>1, PoppedIs
    <2>3. RowsOf(SubSeq(q, 1, k)) = {Rows(b \o q)[j] : j \in (Len(b) + 1)..(Len(b) + 1 + k - 1)}
      BY <2>1, PoppedIs
    <2> QED
      BY <1>7, <1>9, <1>10, <2>2, <2>3
  <1>13. Rows(inflight' \o queue') = Append(Rows(b \o left), nextRow)
    <2>0. Append(left, c) = left \o <<c>> /\ <<c>> \in Seq(Chunks)
      <3>1. <<c>> \in Seq(Chunks)
        BY <1>4
      <3>2. left \in Seq(Chunks)
        BY <1>8
      <3> QED
        BY <1>4, <3>1, <3>2, AppendIsConcat
    <2>1. queue' = left \o <<c>> /\ <<c>> \in Seq(Chunks)
      BY <1>8, <2>0, Zenon
    <2>2. b \o (left \o <<c>>) = (b \o left) \o <<c>> /\ b \o left \in Seq(Chunks)
      BY <1>8, <2>1, ConcatAssociative
    <2>3. Rows((b \o left) \o <<c>>) = Rows(b \o left) \o Rows(<<c>>) /\ Rows(b \o left) \in Seq(Nat)
      BY <2>1, <2>2, RowsOfConcat, RowsAre, Zenon
    <2>4. Rows(<<c>>) = <<nextRow>>
      <3>1. PICK s \in Seq(Chunks) : s = <<c>>
        BY <2>1
      <3>2. Len(s) = 1 /\ s[1] = c
        BY <3>1
      <3>3. PICK r : r = Rows(s)
        OBVIOUS
      <3>4. r \in Seq(Nat) /\ Len(r) = 1 /\ \A i \in 1..Len(s) : r[i] = s[i].row
        BY <3>2, <3>3, RowsAre, Zenon
      <3>5. 1 \in 1..Len(s)
        BY <3>2
      <3>6. r[1] = nextRow
        BY <1>4, <3>2, <3>4, <3>5, Zenon
      <3>7. r = <<nextRow>>
        BY <3>4, <3>6
      <3> QED
        BY <3>1, <3>3, <3>7, Zenon
    <2>5. Rows(b \o left) \o <<nextRow>> = Append(Rows(b \o left), nextRow)
      BY <1>4, <2>3, AppendIsConcat
    <2> QED
      BY <1>2, <1>5, <2>1, <2>2, <2>3, <2>4, <2>5, Zenon
  <1>14. k > 0 => retry
    <2> SUFFICES ASSUME k > 0 PROVE retry
      OBVIOUS
    <2>1. 0 \in 0..(k - 1)
      OBVIOUS
    <2>2. ~Capacity(SubSeq(queue, 0 + 1, Len(queue)), queuedBytes - BytesOf(SubSeq(queue, 1, 0)), need[t])
      BY <1>1, <2>1, Zenon DEF Pops
    <2>3. SubSeq(queue, 0 + 1, Len(queue)) = queue /\ queuedBytes - BytesOf(SubSeq(queue, 1, 0)) = queuedBytes
      <3>1. SubSeq(queue, 1, Len(queue)) = queue /\ SubSeq(queue, 1, 0) = <<>> /\ 0 + 1 = 1
        BY HeldAreChunks, EmptyCut
      <3>2. BytesOf(<<>>) = 0 /\ queuedBytes \in Nat
        BY HeldAreChunks, BytesFew DEF WithinLimits
      <3>3. queuedBytes - 0 = queuedBytes
        BY <3>2
      <3> QED
        BY <3>1, <3>2, <3>3, Zenon
    <2>4. ~Capacity(queue, queuedBytes, need[t])
      BY <2>2, <2>3, Zenon
    <2> QED
      BY <1>2, <2>4 DEF Blocked
  <1>15. lost' = lost \cup {z[j] : j \in (m + 1)..(m + 1 + k - 1)}
    BY <1>1, <1>6, <1>12, Zenon DEF Discard
  <1>16. m + 1 \in 1..(Len(z) + 1) /\ k \in 0..(Len(z) + 1 - (m + 1)) /\ (m + 1) - 1 = m
    BY <1>6, <1>11
  <1>17. Log!Without(m + 1, k) = SubSeq(z, 1, m) \o SubSeq(z, m + 1 + k, Len(z))
    BY <1>5, <1>6, <1>9, <1>16, Zenon DEF Log!Without
  <1>18. Log!GiveUp(m + 1, k)
    BY <1>5, <1>6, <1>9, <1>14, <1>15, Zenon DEF Log!GiveUp
  <1>19. Rows(inflight \o queue)' = Append(Log!Without(m + 1, k), nextRow)
    BY <1>12, <1>13, <1>17, Zenon
  <1>20. \E i \in 1..(Len(Rows(inflight \o queue)) + 1) :
         \E n \in 0..(Len(Rows(inflight \o queue)) + 1 - i) :
           /\ Log!GiveUp(i, n)
           /\ Rows(inflight \o queue)' = Append(Log!Without(i, n), nextRow)
    BY <1>5, <1>6, <1>9, <1>16, <1>18, <1>19, Zenon
  <1> QED
    BY <1>2, <1>20, Zenon DEF Log!Admit

\* Giving up the whole queue for a record that still does not fit.
LEMMA DropDiscards ==
  ASSUME TypeOK, WithinLimits, ClosesOnce, Durable' = Durable, NEW t \in Threads, DropNewest(t)
  PROVE  Log!Discard \/ UNCHANGED Log!logVars
  <1>1. /\ inflight' = inflight /\ retry' = retry /\ nextRow' = nextRow /\ queue' = <<>>
        /\ closing' = closing /\ closed' = closed /\ ~closing /\ ~closed /\ ~Blocked(need[t])
        /\ lost' = lost \cup RowsOf(SubSeq(queue, 1, Len(queue)))
        /\ ~Capacity(<<>>, queuedBytes - BytesOf(queue), need[t])
    BY DEF DropNewest, Discard, batchVars, lifeVars, ClosesOnce
  <1>2. PICK b \in Seq(Chunks) : b = inflight
    BY HeldAreChunks
  <1>3. PICK q \in Seq(Chunks) : q = queue
    BY HeldAreChunks
  <1>4. PICK z : z = Rows(b \o q)
    OBVIOUS
  <1>5. PICK m \in Nat : m = Len(b)
    OBVIOUS
  <1>6. PICK k \in Nat : k = Len(q)
    OBVIOUS
  <1>7. z \in Seq(Nat) /\ Len(z) = m + k
    BY <1>4, <1>5, <1>6, PendingIs, Zenon
  <1>8. SubSeq(q, k + 1, k) = <<>> /\ k \in 0..Len(q)
    <2>1. k \in 0..Len(q)
      BY <1>6
    <2>2. PICK e : e = SubSeq(q, k + 1, k)
      OBVIOUS
    <2>3. e \in Seq(Chunks) /\ Len(e) = k - k
      BY <1>6, <2>1, <2>2, CutFrom, Zenon
    <2>4. e = <<>>
      BY <2>3
    <2> QED
      BY <2>1, <2>2, <2>4
  <1>9. Rows(b \o <<>>) = SubSeq(z, 1, m) \o SubSeq(z, m + 1 + k, Len(z))
    <2>1. Rows(b \o SubSeq(q, k + 1, Len(q)))
            = SubSeq(Rows(b \o q), 1, Len(b)) \o
              SubSeq(Rows(b \o q), Len(b) + 1 + k, Len(Rows(b \o q)))
      BY <1>8, PoppedIs
    <2> QED
      BY <1>4, <1>5, <1>6, <1>8, <2>1, Zenon
  <1>10. RowsOf(SubSeq(q, 1, k)) = {z[j] : j \in (m + 1)..(m + 1 + k - 1)}
    <2>1. RowsOf(SubSeq(q, 1, k)) = {Rows(b \o q)[j] : j \in (Len(b) + 1)..(Len(b) + 1 + k - 1)}
      BY <1>8, PoppedIs
    <2> QED
      BY <1>4, <1>5, <2>1
  <1>11. retry
    <2> SUFFICES ASSUME ~retry PROVE FALSE
      OBVIOUS
    <2>1. Capacity(queue, queuedBytes, need[t])
      BY <1>1 DEF Blocked
    <2>2. PICK x, y, n \in Nat : x = BytesOf(queue) /\ y = BytesOf(inflight) /\ n = need[t]
      <3>1. need[t] \in Nat
        <4>1. need[t] \in Sizes \cup {0}
          BY DEF TypeOK
        <4>2. Sizes \subseteq Nat
          BY WriterAssumption
        <4>3. PICK n : n = need[t]
          OBVIOUS
        <4>4. n \in Sizes \/ n = 0
          BY <4>1, <4>3, Zenon
        <4>5. n \in Nat
          <5>1. CASE n \in Sizes
            BY <4>2, <5>1, Zenon
          <5>2. CASE n = 0
            BY <5>2
          <5> QED
            BY <4>4, <5>1, <5>2, Zenon
        <4> QED
          BY <4>3, <4>5, Zenon
      <3> QED
        BY <3>1, HeldAreChunks
    <2>3. queuedBytes = x /\ inflightBytes = y
      BY <2>2, Zenon DEF WithinLimits
    <2>4. k + m < MaxRecords /\ x + y + n <= MaxBytes
      BY <1>2, <1>3, <1>5, <1>6, <2>1, <2>2, <2>3, Zenon DEF Capacity
    <2>5. 0 + m < MaxRecords /\ (x - x) + y + n <= MaxBytes
      BY <2>4, WriterAssumption
    <2>6. Len(<<>>) = 0
      OBVIOUS
    <2>7. Capacity(<<>>, queuedBytes - BytesOf(queue), need[t])
      BY <1>2, <1>5, <2>2, <2>3, <2>5, <2>6, Zenon DEF Capacity
    <2> QED
      BY <1>1, <2>7
  <1>12. CASE k = 0
    <2>1. q = <<>> /\ queue' = queue
      <3>1. q = <<>>
        <4>1. Len(q) = 0
          BY <1>6, <1>12, Zenon
        <4> QED
          BY <4>1
      <3> QED
        BY <1>1, <1>3, <3>1
    <2>2. RowsOf(SubSeq(q, 1, 0)) = {}
      BY EmptyCut, RowsFew, Zenon
    <2>3. lost' = lost
      BY <1>1, <1>3, <1>6, <1>12, <2>2
    <2> QED
      BY <1>1, <2>1, <2>3, LogSame, Zenon
  <1>13. CASE k # 0
    <2>1. m + 1 \in 1..Len(z) /\ k \in 1..(Len(z) + 1 - (m + 1)) /\ (m + 1) - 1 = m
      BY <1>7, <1>13
    <2>2. Log!Without(m + 1, k) = SubSeq(z, 1, m) \o SubSeq(z, m + 1 + k, Len(z))
      BY <1>2, <1>3, <1>4, <2>1, Zenon DEF Log!Without
    <2>3. lost' = lost \cup {z[j] : j \in (m + 1)..(m + 1 + k - 1)}
      BY <1>1, <1>3, <1>6, <1>10
    <2>4. Log!GiveUp(m + 1, k)
      BY <1>2, <1>3, <1>4, <1>11, <2>3, Zenon DEF Log!GiveUp
    <2>5. Rows(inflight \o queue)' = Log!Without(m + 1, k)
      BY <1>1, <1>2, <1>9, <2>2, Zenon
    <2>6. \E i \in 1..Len(Rows(inflight \o queue)) :
          \E n \in 1..(Len(Rows(inflight \o queue)) + 1 - i) :
            /\ Log!GiveUp(i, n)
            /\ Rows(inflight \o queue)' = Log!Without(i, n)
      BY <1>2, <1>3, <1>4, <2>1, <2>4, <2>5, Zenon
    <2> QED
      BY <1>1, <2>6, Zenon DEF Log!Discard
  <1> QED
    BY <1>12, <1>13

\* A commit makes the oldest pending records durable.
LEMMA CommitPersists ==
  ASSUME TypeOK, OneFlush, NEW d \in Seq(Chunks), Durable = d, Durable' = d \o inflight,
         NEW t \in Everyone, CommitBatch(t)
  PROVE  Log!Persist
  <1>1. /\ inflight' = <<>> /\ queue' = queue /\ retry' = FALSE /\ nextRow' = nextRow
        /\ lost' = lost /\ closing' = closing /\ closed' = closed
    BY DEF CommitBatch, queueVars, lifeVars, countVars
  <1>2. inflight # <<>> /\ ~closed
    BY DEF CommitBatch, OneFlush, Flushing
  <1>3. PICK b \in Seq(Chunks) : b = inflight
    BY HeldAreChunks
  <1>4. PICK q \in Seq(Chunks) : q = queue
    BY HeldAreChunks
  <1>5. PICK z : z = Rows(b \o q)
    OBVIOUS
  <1>6. PICK x, y : x = Rows(b) /\ y = Rows(q)
    OBVIOUS
  <1>7. PICK m, k \in Nat : m = Len(b) /\ k = Len(q)
    OBVIOUS
  <1>8. /\ z = x \o y /\ x \in Seq(Nat) /\ Len(x) = m /\ y \in Seq(Nat) /\ Len(y) = k
        /\ z \in Seq(Nat) /\ Len(z) = m + k
    BY <1>5, <1>6, <1>7, PendingIs, Zenon
  <1>9. SubSeq(z, 1, m) = x /\ SubSeq(z, m + 1, Len(z)) = y
    <2>1. 0 \in 0..Len(y) /\ m + 1 + 0 = m + 1 /\ 0 + 1 = 1
      BY <1>8
    <2>2. SubSeq(z, 1, m) = x /\ SubSeq(z, m + 1 + 0, Len(z)) = SubSeq(y, 0 + 1, Len(y))
      BY <1>8, <2>1, WithoutIs, Zenon
    <2>3. SubSeq(y, 1, Len(y)) = y
      <3>1. PICK g : g = SubSeq(y, 1, Len(y))
        OBVIOUS
      <3>2. Len(y) \in 0..Len(y)
        BY <1>8
      <3>3. g \in Seq(Nat) /\ Len(g) = Len(y) /\ \A i \in 1..Len(y) : g[i] = y[i]
        BY <1>8, <3>1, <3>2, CutTo, Zenon
      <3> QED
        BY <1>8, <3>1, <3>3, SeqEqual
    <2> QED
      BY <2>1, <2>2, <2>3, Zenon
  <1>10. m \in 1..Len(z)
    <2>1. m # 0
      BY <1>2, <1>3, <1>7
    <2> QED
      BY <1>8, <2>1
  <1>11. Rows(Durable)' = Rows(Durable) \o SubSeq(z, 1, m)
    <2>1. Rows(d \o b) = Rows(d) \o Rows(b)
      BY RowsOfConcat
    <2> QED
      BY <1>3, <1>6, <1>9, <2>1, Zenon
  <1>12. Rows(inflight \o queue)' = SubSeq(z, m + 1, Len(z))
    <2>1. <<>> \o q = q
      OBVIOUS
    <2> QED
      BY <1>1, <1>4, <1>6, <1>9, <2>1, Zenon
  <1>13. \E n \in 1..Len(Rows(inflight \o queue)) :
           /\ Rows(Durable)' = Rows(Durable) \o SubSeq(Rows(inflight \o queue), 1, n)
           /\ Rows(inflight \o queue)' = SubSeq(Rows(inflight \o queue), n + 1, Len(Rows(inflight \o queue)))
    BY <1>3, <1>4, <1>5, <1>10, <1>11, <1>12, Zenon
  <1>14. (IF closed THEN "closed" ELSE IF closing THEN "closing" ELSE "open") # "closed"
    BY <1>2
  <1> QED
    BY <1>1, <1>13, <1>14, Zenon DEF Log!Persist

\* A failed batch is pending again, in its place.
LEMMA UndoFailsLog ==
  ASSUME TypeOK, OneFlush, Durable' = Durable, NEW t \in Everyone, UndoBatch(t)
  PROVE  Log!Fail
  <1>1. /\ inflight' = <<>> /\ queue' = inflight \o queue /\ retry' = TRUE /\ nextRow' = nextRow
        /\ lost' = lost /\ closing' = closing /\ closed' = closed
    BY DEF UndoBatch, Requeued, lifeVars, countVars
  <1>2. inflight # <<>> /\ ~closed
    BY DEF UndoBatch, OneFlush, Flushing
  <1>3. PICK b \in Seq(Chunks) : b = inflight
    BY HeldAreChunks
  <1>4. PICK q \in Seq(Chunks) : q = queue
    BY HeldAreChunks
  <1>5. Rows(b \o q) # <<>>
    <2>1. PICK m, k \in Nat : m = Len(b) /\ k = Len(q)
      OBVIOUS
    <2>2. Len(Rows(b \o q)) = m + k
      BY <2>1, PendingIs, Zenon
    <2>3. m # 0
      BY <1>2, <1>3, <2>1
    <2>4. Len(Rows(b \o q)) # 0 /\ Len(<<>>) = 0
      BY <2>2, <2>3
    <2> QED
      BY <2>4, Zenon
  <1>6. <<>> \o (b \o q) = b \o q
    <2>1. b \o q \in Seq(Chunks)
      OBVIOUS
    <2> QED
      BY <2>1
  <1>7. Rows(inflight \o queue)' = Rows(inflight \o queue)
    BY <1>1, <1>3, <1>4, <1>6, Zenon
  <1>8. (IF closed THEN "closed" ELSE IF closing THEN "closing" ELSE "open") # "closed"
    BY <1>2
  <1> QED
    BY <1>1, <1>3, <1>4, <1>5, <1>7, <1>8, Zenon DEF Log!Fail

LogInv == /\ TypeOK /\ NeedSet /\ OneFlush /\ Ordered /\ Covered /\ FileOK /\ WithinLimits
          /\ ClosesOnce /\ Drained /\ ~duplicates

\* Every step of the writer is a step of the log, or none.
LEMMA StepRefines ==
  ASSUME ~RollbackFails, LogInv, LogInv', [Next]_vars
  PROVE  Log!Next \/ UNCHANGED Log!logVars
  <1> USE DEF queueVars, batchVars, timerVars, lifeVars, fileVars, countVars
  <1>0. /\ TypeOK /\ NeedSet /\ OneFlush /\ Ordered /\ Covered /\ FileOK /\ WithinLimits
        /\ ClosesOnce /\ Drained /\ ~duplicates /\ ~duplicates' /\ TypeOK'
    BY Zenon DEF LogInv
  <1>1. ASSUME UNCHANGED <<queue, inflight, retry, nextRow, lost, closing, closed, disk, size>>
        PROVE  UNCHANGED Log!logVars
    <2>1. Durable' = Durable
      BY <1>1, Zenon DEF Durable
    <2> QED
      BY <1>1, <2>1, LogSame, Zenon
  <1>2. ASSUME NEW t \in Threads, Append_(t) \/ Flush(t) \/ CloseAgain(t)
        PROVE  UNCHANGED <<queue, inflight, retry, nextRow, lost, closing, closed, disk, size>>
    BY <1>2 DEF Append_, Flush, CloseAgain
  <1>3. ASSUME NEW t \in Threads, BeginClose(t) PROVE Log!Shut
    <2>1. /\ UNCHANGED <<queue, inflight, retry, nextRow, lost, closed, disk, size>>
          /\ ~closing /\ closing'
      BY <1>3 DEF BeginClose
    <2>2. ~closed
      BY <1>0, <2>1 DEF ClosesOnce
    <2>3. Durable' = Durable
      BY <2>1, Zenon DEF Durable
    <2>4. /\ Rows(inflight \o queue)' = Rows(inflight \o queue)
          /\ Rows(Durable)' = Rows(Durable)
      BY <2>1, <2>3, Zenon
    <2>5. /\ (IF closed THEN "closed" ELSE IF closing THEN "closing" ELSE "open") = "open"
          /\ (IF closed THEN "closed" ELSE IF closing THEN "closing" ELSE "open")' = "closing"
      BY <2>1, <2>2
    <2> QED
      BY <2>1, <2>4, <2>5, Zenon DEF Log!Shut
  <1>4. ASSUME NEW t \in Threads, EndClose(t) PROVE Log!Shut
    <2>1. /\ UNCHANGED <<queue, inflight, retry, nextRow, lost, closing, disk, size>>
          /\ closed' /\ pc[t] = "end_close" /\ wlock = NoOne /\ t \in Everyone
      BY <1>4 DEF EndClose, Everyone
    <2>2. t = closer /\ ~closed /\ closing
      BY <1>0, <2>1, WriterAssumption DEF ClosesOnce, Everyone
    <2>3. inflight = <<>>
      BY <1>0, <2>1, WriterAssumption DEF OneFlush, Everyone
    <2>4. queue # <<>> => retry
      BY <1>0, <2>1, <2>2 DEF Drained, Past
    <2>5. Rows(inflight \o queue) # <<>> => retry
      <3>1. ASSUME queue = <<>> PROVE Rows(inflight \o queue) = <<>>
        <4>1. PICK e \in Seq(Chunks) : e = <<>>
          <5>1. <<>> \in Seq(Chunks)
            OBVIOUS
          <5> QED
            BY <5>1
        <4>2. Rows(e \o e) \in Seq(Nat) /\ Len(Rows(e \o e)) = 0 + 0
          <5>1. Len(e) = 0
            BY <4>1
          <5> QED
            BY <5>1, PendingIs
        <4>3. Rows(e \o e) = <<>>
          BY <4>2
        <4> QED
          BY <2>3, <3>1, <4>1, <4>3, Zenon
      <3> QED
        BY <2>4, <3>1
    <2>6. Durable' = Durable
      BY <2>1, Zenon DEF Durable
    <2>7. /\ Rows(inflight \o queue)' = Rows(inflight \o queue)
          /\ Rows(Durable)' = Rows(Durable)
      BY <2>1, <2>6, Zenon
    <2>8. /\ (IF closed THEN "closed" ELSE IF closing THEN "closing" ELSE "open") = "closing"
          /\ (IF closed THEN "closed" ELSE IF closing THEN "closing" ELSE "open")' = "closed"
      BY <2>1, <2>2
    <2> QED
      BY <2>1, <2>5, <2>7, <2>8, Zenon DEF Log!Shut
  <1>5. ASSUME NEW t \in Threads, Push(t) PROVE Log!Admit
    <2>1. Durable' = Durable
      BY <1>5, Zenon DEF Push, Durable
    <2> QED
      BY <1>0, <1>5, <2>1, PushAdmits
  <1>6. ASSUME NEW t \in Threads, DropNewest(t) PROVE Log!Discard \/ UNCHANGED Log!logVars
    <2>1. Durable' = Durable
      BY <1>6, Zenon DEF DropNewest, Durable
    <2> QED
      BY <1>0, <1>6, <2>1, DropDiscards
  <1>7. ASSUME NEW t \in Threads, ClientStep(t), ~Push(t), ~DropNewest(t), ~EndClose(t)
        PROVE  UNCHANGED <<queue, inflight, retry, nextRow, lost, closing, closed, disk, size>>
    BY <1>7 DEF ClientStep, Refuse, RejectOversized, Backpressure, Wait, AwaitClosed, Join
  <1>8. ASSUME NEW t \in Everyone, Reschedule(t) \/ StartWorker(t)
        PROVE  UNCHANGED <<queue, inflight, retry, nextRow, lost, closing, closed, disk, size>>
    BY <1>8 DEF Reschedule, StartWorker
  <1>9. ASSUME NEW t \in Everyone, TakeBatch(t) PROVE UNCHANGED Log!logVars
    <2>1. CASE closed \/ queue = <<>>
      <3>1. UNCHANGED <<queue, inflight, retry, nextRow, lost, closing, closed, disk, size>>
        BY <1>9, <2>1 DEF TakeBatch, NothingToTake
      <3> QED
        BY <1>1, <3>1, Zenon
    <2>2. CASE ~(closed \/ queue = <<>>)
      <3>1. /\ inflight' = queue /\ queue' = <<>> /\ wlock = NoOne
            /\ UNCHANGED <<retry, nextRow, lost, closing, closed, disk, size>>
        BY <1>9, <2>2 DEF TakeBatch, NothingToTake
      <3>2. inflight = <<>>
        BY <1>0, <3>1, WriterAssumption DEF OneFlush, Everyone
      <3>3. queue \o <<>> = queue /\ <<>> \o queue = queue
        BY <1>0, HeldAreChunks, ConcatEmptySeq
      <3>4. Durable' = Durable
        BY <3>1, Zenon DEF Durable
      <3>5. Rows(inflight' \o queue') = Rows(inflight \o queue)
        BY <3>1, <3>2, <3>3, Zenon
      <3> QED
        BY <3>1, <3>4, <3>5, LogSame, Zenon
    <2> QED
      BY <2>1, <2>2
  <1>10. ASSUME NEW t \in Everyone, WriteBatch(t) \/ WriteFails(t) PROVE UNCHANGED Log!logVars
    <2>1. UNCHANGED <<queue, inflight, retry, nextRow, lost, closing, closed>>
      BY <1>10 DEF WriteBatch, WriteFails
    <2>2. Durable' = Durable
      BY <1>0, <1>10, WriteFile
    <2>3. Rows(inflight' \o queue') = Rows(inflight \o queue)
      BY <2>1, Zenon
    <2> QED
      BY <2>1, <2>2, <2>3, LogSame, Zenon
  <1>11. ASSUME NEW t \in Everyone, CommitBatch(t) PROVE Log!Persist
    <2>1. PICK d : d = Durable
      OBVIOUS
    <2>2. d \in Seq(Chunks) /\ Durable' = d \o inflight
      BY <1>0, <1>11, <2>1, CommitFile, FileParts
    <2> QED
      BY <1>0, <1>11, <2>1, <2>2, CommitPersists
  <1>12. ASSUME NEW t \in Everyone, UndoBatch(t) PROVE Log!Fail
    BY <1>0, <1>12, UndoFile, UndoFailsLog
  <1>13. CASE WorkerStep
    BY <1>1, <1>13 DEF WorkerStep, WorkDue, WorkerExit
  <1>14. CASE UNCHANGED vars
    BY <1>1, <1>14 DEF vars
  <1> QED
    BY <1>1, <1>2, <1>3, <1>4, <1>5, <1>6, <1>7, <1>8, <1>9, <1>10, <1>11, <1>12, <1>13, <1>14
       DEF Next, ClientCall, FlushStep, Finished, Log!Next

(* With a disk whose rollbacks work, the writer is the log its callers are *)
(* promised (WriterLog): records become durable oldest first, in batches,  *)
(* a record is given up only while writes fail, a failed batch keeps its   *)
(* place, and closing leaves something pending only after a failed write.  *)
(* Whatever threads, sizes and limits there are.                           *)
THEOREM Implements == ASSUME ~RollbackFails PROVE Spec => ImplementsLog
  <1>1. Init => ClosesOnce /\ Drained /\ ~duplicates /\ Log!Init
    <2> SUFFICES ASSUME Init PROVE ClosesOnce /\ Drained /\ ~duplicates /\ Log!Init
      OBVIOUS
    <2>1. ClosesOnce /\ Drained /\ ~duplicates
      BY WriterAssumption DEF Init, ClosesOnce, Drained, Everyone
    <2>2. /\ inflight = <<>> /\ queue = <<>> /\ disk = <<>> /\ size = 0 /\ lost = {} /\ nextRow = 1
          /\ retry = FALSE /\ ~closed /\ ~closing
      BY DEF Init
    <2>3. <<>> \in Seq(Chunks) /\ <<>> \o <<>> = <<>> /\ Len(<<>>) = 0
      OBVIOUS
    <2>4. Truncated(<<>>, 0) = <<>>
      BY <2>3, BytesFew, TruncatedAt, Zenon
    <2>5. Rows(<<>>) = <<>>
      <3>1. Rows(<<>>) \in Seq(Nat) /\ Len(Rows(<<>>)) = 0
        BY <2>3, RowsAre, Zenon
      <3> QED
        BY <3>1
    <2>6. Rows(inflight \o queue) = <<>> /\ Rows(Durable) = <<>>
      BY <2>2, <2>3, <2>4, <2>5, Zenon DEF Durable
    <2>7. (IF closed THEN "closed" ELSE IF closing THEN "closing" ELSE "open") = "open"
      BY <2>2
    <2> QED
      BY <2>1, <2>2, <2>6, <2>7, Zenon DEF Log!Init
  <1> DEFINE I == /\ TypeOK /\ NeedSet /\ OneFlush /\ Ordered /\ Covered /\ FileOK /\ WithinLimits
             J == ClosesOnce /\ Drained /\ ~duplicates
  <1>2. Spec => []I
    <2>1. Spec => [](TypeOK /\ NeedSet /\ OneFlush)
      BY TypeCorrect
    <2>2. Spec => [](TypeOK /\ Ordered /\ Covered /\ FileOK)
      BY FileInvariant
    <2>3. Spec => []WithinLimits
      BY LimitsHold
    <2> QED
      BY <2>1, <2>2, <2>3, PTL
  <1>3. I /\ J /\ [Next]_vars => J'
    <2> SUFFICES ASSUME I, J, [Next]_vars PROVE J'
      OBVIOUS
    <2>1. ClosesOnce' /\ Drained'
      BY NextClosesOnce, NextDrained
    <2>2. ASSUME NEW t \in Everyone, UndoBatch(t) PROVE ~duplicates'
      BY <2>2 DEF UndoBatch, Undone
    <2>3. ASSUME NEW t \in Threads, ClientCall(t) \/ ClientStep(t) PROVE duplicates' = duplicates
      BY <2>3 DEF ClientCall, Append_, Flush, BeginClose, CloseAgain, ClientStep, Refuse, RejectOversized,
                  Backpressure, Wait, Push, DropNewest, AwaitClosed, Join, EndClose, fileVars
    <2>4. ASSUME NEW t \in Everyone, FlushStep(t), ~UndoBatch(t) PROVE duplicates' = duplicates
      BY <2>4 DEF FlushStep, TakeBatch, WriteBatch, WriteFails, CommitBatch, Reschedule, StartWorker, fileVars
    <2>5. WorkerStep \/ UNCHANGED vars => duplicates' = duplicates
      BY DEF WorkerStep, WorkDue, WorkerExit, vars, fileVars
    <2> QED
      BY <2>1, <2>2, <2>3, <2>4, <2>5 DEF Next, Finished
  <1>4. I /\ J <=> LogInv
    BY DEF LogInv
  <1>5. Spec => []LogInv
    <2> HIDE DEF I, J
    <2>1. Init => J
      BY <1>1 DEF J
    <2> QED
      BY <1>2, <1>3, <1>4, <2>1, PTL DEF Spec
  <1>6. LogInv /\ LogInv' /\ [Next]_vars => [Log!Next]_(Log!logVars)
    BY StepRefines
  <1>7. Init => Log!Init
    BY <1>1
  <1> QED
    BY <1>5, <1>6, <1>7, PTL DEF Spec, ImplementsLog, Log!Spec
=============================================================================

------------------------- MODULE SegmentedLog_proofs -------------------------
(***************************************************************************)
(* What a failed write, a rollback and a killed writer leave on disk, for  *)
(* every size of a part, every batch and every number of failures.         *)
(*                                                                         *)
(* The inductive invariant names the sequence of records the parts spell,  *)
(* one after the other: the acknowledged ones first, then those of the     *)
(* batch that reached the disk, rising, with at most one cut line, at the  *)
(* end of the last part.                                                   *)
(***************************************************************************)
EXTENDS SegmentedLog, SequenceTheorems, FiniteSetTheorems, TLAPS

-----------------------------------------------------------------------------
(* Numbers and recursion                                                   *)

\* A set of numbers that is not empty has a least one.
LEMMA Least ==
  ASSUME NEW T, T \subseteq Nat, T # {}
  PROVE  \E x \in T : \A y \in T : x <= y
  <1>1. PICK top \in T : TRUE
    OBVIOUS
  <1>2. PICK S : S = 0..top
    OBVIOUS
  <1>3. top \in Nat /\ IsFiniteSet(S)
    BY <1>1, <1>2, FS_Interval
  <1>4. IsWellFoundedOn(StrictSubsetOrdering(S), SUBSET S)
    BY <1>3, FS_StrictSubsetOrderingWellFounded, FS_FiniteSubsetsOfFinite
  <1> DEFINE F == {0..x : x \in {z \in T : z <= top}}
  <1>5. F \subseteq SUBSET S /\ F # {}
    <2>1. \A x \in Nat : x <= top => 0..x \in SUBSET S
      BY <1>2, <1>3
    <2>2. top \in {z \in T : z <= top}
      BY <1>1, <1>3
    <2> QED
      BY <2>1, <2>2
  <1>6. PICK I \in F : \A J \in F : ~ (<<J, I>> \in StrictSubsetOrdering(S))
    BY <1>4, <1>5, WFMin
  <1>7. PICK x \in T : x <= top /\ I = 0..x
    BY <1>6
  <1>8. ASSUME NEW y \in T, y < x PROVE FALSE
    <2>1. PICK J : J = 0..y
      OBVIOUS
    <2>2. y \in Nat /\ x \in Nat /\ y <= top
      BY <1>3, <1>7, <1>8
    <2>3. J \in F
      BY <2>1, <2>2
    <2>4. J \subseteq I /\ J # I
      BY <1>7, <1>8, <2>1, <2>2
    <2> HIDE DEF F
    <2>5. J \in SUBSET S /\ I \in SUBSET S
      BY <1>5, <1>6, <2>3
    <2>6. <<J, I>> \in StrictSubsetOrdering(S)
      BY <2>4, <2>5 DEF StrictSubsetOrdering
    <2> QED
      BY <1>6, <2>3, <2>6
  <1>9. \A y \in T : x <= y
    BY <1>7, <1>8
  <1> QED
    BY <1>7, <1>9

\* A set of numbers that is bounded and not empty has a greatest one.
LEMMA Greatest ==
  ASSUME NEW n \in Nat, NEW T, T \subseteq 0..n, T # {}
  PROVE  \E x \in T : \A y \in T : y <= x
  <1> DEFINE U == {m \in Nat : \E x \in T : m + x = n}
  <1>1. U \subseteq Nat /\ U # {}
    <2>1. PICK x \in T : TRUE
      OBVIOUS
    <2>2. n - x \in Nat /\ (n - x) + x = n
      BY <2>1
    <2> QED
      BY <2>1, <2>2
  <1>2. PICK m \in U : \A k \in U : m <= k
    <2> HIDE DEF U
    <2> QED
      BY <1>1, Least
  <1>3. PICK x \in T : m + x = n
    BY <1>2
  <1>4. ASSUME NEW y \in T PROVE y <= x
    <2>1. n - y \in U
      OBVIOUS
    <2> QED
      BY <1>2, <1>3, <2>1
  <1> QED
    BY <1>4

\* Induction over a set of numbers.
LEMMA Inductive ==
  ASSUME NEW T, 0 \in T, \A n \in Nat : n \in T => n + 1 \in T
  PROVE  Nat \subseteq T
  <1> SUFFICES ASSUME Nat \ T # {} PROVE FALSE
    OBVIOUS
  <1>1. PICK x \in Nat \ T : \A y \in Nat \ T : x <= y
    BY Least
  <1>2. x - 1 \in Nat /\ x - 1 \in T
    BY <1>1
  <1> QED
    BY <1>1, <1>2

\* A sequence up to a position, and from there on.
LEMMA CutTo ==
  ASSUME NEW S, NEW s \in Seq(S), NEW k \in 0..Len(s)
  PROVE  /\ SubSeq(s, 1, k) \in Seq(S) /\ Len(SubSeq(s, 1, k)) = k
         /\ \A i \in 1..k : SubSeq(s, 1, k)[i] = s[i]
  OBVIOUS

LEMMA CutFrom ==
  ASSUME NEW S, NEW s \in Seq(S), NEW k \in 0..Len(s)
  PROVE  /\ SubSeq(s, k + 1, Len(s)) \in Seq(S) /\ Len(SubSeq(s, k + 1, Len(s))) = Len(s) - k
         /\ \A i \in 1..(Len(s) - k) : SubSeq(s, k + 1, Len(s))[i] = s[k + i]
  OBVIOUS

\* A function on the numbers is given by its first value and its steps.
Iterates(f, S, base, G) ==
    /\ f \in [Nat -> S] /\ f[0] = base
    /\ \A n \in Nat : f[n + 1] = G[<<n, f[n]>>]

LEMMA Recursion ==
  ASSUME NEW S, NEW base \in S, NEW G \in [Nat \X S -> S]
  PROVE  \E f : Iterates(f, S, base, G)
  <1> DEFINE Upto(f, m) == /\ f \in [0..m -> S] /\ f[0] = base
                           /\ \A i \in 0..(m - 1) : f[i + 1] = G[<<i, f[i]>>]
             T == {m \in Nat : \E f : Upto(f, m)}
  <1> HIDE DEF Upto
  <1>1. 0 \in T
    <2>1. PICK f : f = [i \in 0..0 |-> base]
      OBVIOUS
    <2>2. f \in [0..0 -> S] /\ f[0] = base
      BY <2>1
    <2>3. Upto(f, 0)
      BY <2>2 DEF Upto
    <2> QED
      BY <2>3
  <1>2. ASSUME NEW m \in Nat, m \in T PROVE m + 1 \in T
    <2>1. PICK f : Upto(f, m)
      BY <1>2
    <2>2. f \in [0..m -> S] /\ f[m] \in S
      BY <2>1 DEF Upto
    <2>3. PICK y \in S : y = G[<<m, f[m]>>]
      BY <2>2
    <2>4. PICK g : g = [i \in 0..(m + 1) |-> IF i = m + 1 THEN y ELSE f[i]]
      OBVIOUS
    <2>5. g \in [0..(m + 1) -> S] /\ g[m + 1] = y /\ \A i \in 0..m : g[i] = f[i]
      BY <2>2, <2>3, <2>4
    <2>6. ASSUME NEW i \in 0..m PROVE g[i + 1] = G[<<i, g[i]>>]
      <3>1. CASE i = m
        BY <2>3, <2>5, <3>1
      <3>2. CASE i # m
        <4>1. i \in 0..(m - 1) /\ i + 1 \in 0..m
          BY <3>2
        <4> QED
          BY <2>1, <2>5, <4>1 DEF Upto
      <3> QED
        BY <3>1, <3>2
    <2>7. Upto(g, m + 1)
      BY <2>1, <2>5, <2>6 DEF Upto
    <2> QED
      BY <2>7
  <1>3. \A m \in Nat : \E f : Upto(f, m)
    <2>1. Nat \subseteq T
      <3> HIDE DEF T
      <3> QED
        BY <1>1, <1>2, Inductive
    <2> QED
      BY <2>1
  <1>4. ASSUME NEW f, NEW g, NEW m \in Nat, NEW k \in Nat, Upto(f, m), Upto(g, k), m <= k
        PROVE  f[m] = g[m]
    <2> DEFINE U == {i \in Nat : i <= m => f[i] = g[i]}
    <2>1. 0 \in U
      BY <1>4 DEF Upto
    <2>2. ASSUME NEW i \in Nat, i \in U PROVE i + 1 \in U
      <3>1. SUFFICES ASSUME i + 1 <= m PROVE f[i + 1] = g[i + 1]
        OBVIOUS
      <3>2. i \in 0..(m - 1) /\ i \in 0..(k - 1) /\ f[i] = g[i]
        BY <1>4, <2>2, <3>1
      <3> QED
        BY <1>4, <3>2, Zenon DEF Upto
    <2>3. Nat \subseteq U
      <3> HIDE DEF U
      <3> QED
        BY <2>1, <2>2, Inductive
    <2> QED
      BY <2>3
  <1> DEFINE F(m) == CHOOSE f : Upto(f, m)
  <1>5. \A m \in Nat : Upto(F(m), m)
    BY <1>3
  <1> HIDE DEF F
  <1>6. PICK h : h = [m \in Nat |-> F(m)[m]]
    OBVIOUS
  <1>7. ASSUME NEW m \in Nat PROVE h[m] \in S /\ h[m] = F(m)[m]
    BY <1>5, <1>6 DEF Upto
  <1>8. h \in [Nat -> S]
    BY <1>6, <1>7
  <1>9. h[0] = base
    BY <1>5, <1>6 DEF Upto
  <1>10. ASSUME NEW m \in Nat PROVE h[m + 1] = G[<<m, h[m]>>]
    <2>1. PICK k \in Nat : k = m + 1
      OBVIOUS
    <2>2. Upto(F(m), m) /\ Upto(F(k), k) /\ m <= k
      BY <1>5, <2>1
    <2>3. F(m)[m] = F(k)[m]
      BY <1>4, <2>2
    <2>4. m \in 0..(k - 1)
      BY <2>1
    <2>5. F(k)[m + 1] = G[<<m, F(k)[m]>>]
      BY <2>2, <2>4 DEF Upto
    <2> QED
      BY <1>7, <2>1, <2>3, <2>5
  <1>11. Iterates(h, S, base, G)
    BY <1>8, <1>9, <1>10 DEF Iterates
  <1> QED
    BY <1>11

-----------------------------------------------------------------------------
(* The inductive invariant                                                 *)

\* A byte of the log that holds these records in whole lines.
ByteOf(rows, i) == <<rows[LineOf(i)], PlaceOf(i)>>

\* The parts hold the lines of these records, one after the other.  Only the
\* last line of the last part may be cut.
Spells(fs, rows) ==
    /\ Total(LengthsOf(fs)) <= LineBytes * Len(rows)
    /\ LineBytes * Len(rows) < Total(LengthsOf(fs)) + LineBytes
    /\ \A n \in DOMAIN fs : \A i \in 1..Len(fs[n]) :
         fs[n][i] = ByteOf(rows, Before(LengthsOf(fs), n) + i)
    /\ \A n \in DOMAIN fs : n = LastOf(DOMAIN fs) \/ Len(fs[n]) % LineBytes = 0

Rising(rows) == \A i \in 2..Len(rows) : rows[i - 1] < rows[i]

\* The steps of records, and what the writer or its metadata says of lines that
\* have them.
Values(rows, st) == [i \in 1..Len(rows) |-> st[rows[i]]]

Describes(m, vals) ==
    /\ m.lines = Len(vals)
    /\ m.sorted = (\A i \in 2..Len(vals) : vals[i - 1] <= vals[i])
    /\ m.dups = (\E i \in 2..Len(vals) : vals[i - 1] = vals[i])
    /\ m.last = IF Len(vals) = 0 THEN NoStep ELSE vals[Len(vals)]
    /\ m.max = NoStep \/ \E i \in 1..Len(vals) : m.max = vals[i]
    /\ \A i \in 1..Len(vals) : vals[i] <= m.max
    /\ \A i \in 1..Len(m.index) :
         /\ m.index[i].line \in 0..(Len(vals) - 1)
         /\ m.index[i].at = LineBytes * m.index[i].line
         /\ m.index[i].step = vals[m.index[i].line + 1]

\* What the writer and its metadata can say of the lines.
AnchorSet == [step : Nat, line : Nat, at : Nat]
LogSet == [lines : Nat, sorted : BOOLEAN, dups : BOOLEAN, last : Nat, max : Nat,
           index : Seq(AnchorSet), every : Nat, next : Nat]
MetaSet == [size : Nat, lines : Nat, sorted : BOOLEAN, dups : BOOLEAN, last : Nat, max : Nat,
            index : Seq(AnchorSet)]

\* Parts of bytes of so many records, finitely many.
ByteSet(n) == (1..n) \X (1..LineBytes)
Parted(fs, n) ==
    /\ \A p \in DOMAIN fs : p \in Nat /\ fs[p] \in Seq(ByteSet(n))
    /\ \E top \in Nat : DOMAIN fs \subseteq 0..top

\* Of every state, even after a failure that could not be undone.
Typed ==
    /\ pc \in {"down", "idle", "write", "rollback", "commit", "save"}
    /\ steps \in Seq(Steps) /\ Len(steps) <= MaxRows
    /\ Parted(files, Len(steps))
    /\ queue \in Seq(1..Len(steps)) /\ batch \in Seq(1..Len(steps))
    /\ committed \in Seq(1..Len(steps))
    /\ todo \in Nat \ {0} /\ active \in Nat /\ activeSize \in Nat /\ size \in Nat
    /\ retry \in BOOLEAN /\ slipped \in BOOLEAN /\ mishaps \in 0..MaxMishaps
    /\ undo.left \in Nat /\ undo.parts \subseteq DOMAIN files
    /\ log \in LogSet /\ meta \in MetaSet \cup {NoMeta}
    /\ pc = "write" => todo <= Len(batch)
    /\ pc = "down" => queue = <<>> /\ batch = <<>> /\ todo = 1

\* The disk holds the acknowledged records and then later ones.
Held(fs, done, k, rows) ==
    /\ Spells(fs, rows)
    /\ rows \in Seq(1..k) /\ Rising(rows)
    /\ IsPrefix(done, rows) /\ LineBytes * Len(done) <= Total(LengthsOf(fs))
    /\ \A n \in DOMAIN fs : Len(fs[n]) <= MaxOf(MaxFile, LineBytes)

\* The metadata is that of some first records.
MetaOf(m, done, st) ==
    \/ m = NoMeta
    \/ \E k \in 0..Len(done) :
         /\ m.size = LineBytes * k
         /\ Describes(m, Values(SubSeq(done, 1, k), st))

\* The records the writer answers for, in order.
Accepted == committed \o (batch \o queue)

\* The disk, while nothing has failed.
Stage(rows) ==
    /\ rows = SubSeq(Accepted, 1, Len(committed) + (todo - 1))
    /\ Total(Lengths) = LineBytes * Len(rows)
    /\ \A n \in DOMAIN files : n <= active
    /\ activeSize = Len(Contents(active))
    /\ todo - 1 <= Len(batch)
    /\ pc \in {"idle", "save"} => batch = <<>> /\ todo = 1
    /\ pc = "commit" => todo - 1 = Len(batch)
    /\ pc # "write" => active = LastOf(DOMAIN files)

\* A rollback keeps what is committed of the parts it has visited.
Undoing(left, parts, fs, kept) ==
    \E next \in Nat :
      /\ parts = {n \in DOMAIN fs : n >= next}
      /\ left + Before(LengthsOf(fs), next) = kept

Working ==
    /\ Rising(Accepted)
    /\ size = LineBytes * Len(committed)
    /\ Describes(log, Values(committed, steps))
    /\ pc = "rollback" => Undoing(undo.left, undo.parts, files, size)

Sound ==
    /\ MetaOf(meta, committed, steps)
    /\ pc # "down" => Working
    /\ \E rows : /\ Held(files, committed, Len(steps), rows)
                 /\ pc \notin {"down", "rollback"} => Stage(rows)

IInv == Typed /\ (~slipped => Sound)

-----------------------------------------------------------------------------
(* The bytes before a part                                                 *)

\* Lengths of parts: numbers, of finitely many.
Measured(L) ==
    /\ \A n \in DOMAIN L : n \in Nat /\ L[n] \in Nat
    /\ \E top \in Nat : DOMAIN L \subseteq 0..top

Sums(L) == CHOOSE f : f = [n \in Nat |-> IF n = 0 THEN 0 ELSE f[n - 1] + LengthIn(L, n - 1)]

LEMMA LengthInNat ==
  ASSUME NEW L, Measured(L)
  PROVE  \A n \in Nat : LengthIn(L, n) \in Nat
  BY DEF Measured, LengthIn

LEMMA BeforeIs ==
  ASSUME NEW L, Measured(L)
  PROVE  /\ Before(L, 0) = 0
         /\ \A n \in Nat : /\ Before(L, n) \in Nat
                           /\ Before(L, n + 1) = Before(L, n) + LengthIn(L, n)
  <1>1. PICK len : len = [n \in Nat |-> LengthIn(L, n)]
    OBVIOUS
  <1>2. len \in [Nat -> Nat] /\ \A n \in Nat : len[n] = LengthIn(L, n)
    BY <1>1, LengthInNat
  <1>3. PICK G : G = [p \in Nat \X Nat |-> p[2] + len[p[1]]]
    OBVIOUS
  <1>4. G \in [Nat \X Nat -> Nat] /\ \A i \in Nat, x \in Nat : G[<<i, x>>] = x + len[i]
    BY <1>2, <1>3
  <1>5. PICK z \in Nat : z = 0
    OBVIOUS
  <1>6. PICK f \in [Nat -> Nat] : f[0] = 0 /\ \A n \in Nat : f[n + 1] = G[<<n, f[n]>>]
    <2>1. \E f : Iterates(f, Nat, z, G)
      BY <1>4, Recursion
    <2> QED
      BY <1>5, <2>1 DEF Iterates
  <1>7. \A n \in Nat : f[n] \in Nat /\ f[n + 1] = f[n] + LengthIn(L, n)
    <2>1. ASSUME NEW n \in Nat PROVE f[n] \in Nat /\ f[n + 1] = f[n] + len[n]
      BY <1>4, <1>6
    <2> QED
      BY <1>2, <2>1
  <1>8. PICK g : g = [n \in Nat |-> IF n = 0 THEN 0 ELSE f[n - 1] + LengthIn(L, n - 1)]
    OBVIOUS
  <1>9. ASSUME NEW n \in Nat PROVE f[n] = g[n]
    <2>1. CASE n = 0
      BY <1>6, <1>8, <2>1
    <2>2. CASE n # 0
      <3>1. PICK k \in Nat : k = n - 1 /\ n = k + 1
        BY <2>2
      <3>2. g[n] = f[k] + LengthIn(L, k)
        BY <1>8, <2>2, <3>1
      <3> QED
        BY <1>7, <3>1, <3>2
    <2> QED
      BY <2>1, <2>2
  <1>10. f = g
    BY <1>6, <1>8, <1>9
  <1>11. PICK s : s = Sums(L)
    OBVIOUS
  <1>12. s = [n \in Nat |-> IF n = 0 THEN 0 ELSE s[n - 1] + LengthIn(L, n - 1)]
    BY <1>8, <1>10, <1>11 DEF Sums
  <1>13. s[0] = 0
    BY <1>12
  <1>14. ASSUME NEW n \in Nat PROVE s[n + 1] = s[n] + LengthIn(L, n)
    <2>1. PICK k \in Nat : k = n + 1 /\ k # 0 /\ k - 1 = n
      OBVIOUS
    <2>2. s[k] = s[k - 1] + LengthIn(L, k - 1)
      BY <1>12, <2>1
    <2> QED
      BY <2>1, <2>2
  <1>15. \A n \in Nat : s[n] \in Nat
    <2> DEFINE T == {n \in Nat : s[n] \in Nat}
    <2>1. 0 \in T
      BY <1>13
    <2>2. \A n \in Nat : n \in T => n + 1 \in T
      BY <1>14, LengthInNat
    <2>3. Nat \subseteq T
      <3> HIDE DEF T
      <3> QED
        BY <2>1, <2>2, Inductive
    <2> QED
      BY <2>3
  <1>16. \A n : Before(L, n) = s[n]
    BY <1>11, Zenon DEF Before, Sums
  <1> QED
    BY <1>13, <1>14, <1>15, <1>16

LEMMA BeforeGap ==
  ASSUME NEW L, Measured(L), NEW n \in Nat, NEW m \in Nat, n <= m
  PROVE  /\ Before(L, n) <= Before(L, m)
         /\ (\A k \in n..(m - 1) : k \notin DOMAIN L) => Before(L, m) = Before(L, n)
  <1> DEFINE T == {d \in Nat : /\ Before(L, n) <= Before(L, n + d)
                               /\ (\A k \in n..(n + d - 1) : k \notin DOMAIN L)
                                    => Before(L, n + d) = Before(L, n)}
  <1>1. 0 \in T
    BY BeforeIs
  <1>2. ASSUME NEW d \in Nat, d \in T PROVE d + 1 \in T
    <2>1. PICK x \in Nat : x = n + d
      OBVIOUS
    <2>2. /\ Before(L, x + 1) = Before(L, x) + LengthIn(L, x) /\ LengthIn(L, x) \in Nat
          /\ Before(L, x) \in Nat /\ Before(L, n) \in Nat /\ Before(L, x + 1) \in Nat
      BY BeforeIs, LengthInNat
    <2>3. Before(L, n) <= Before(L, x)
      BY <1>2, <2>1
    <2>4. Before(L, n) <= Before(L, x + 1)
      BY <2>2, <2>3
    <2>5. ASSUME \A k \in n..x : k \notin DOMAIN L PROVE Before(L, x + 1) = Before(L, n)
      <3>1. \A k \in n..(n + d - 1) : k \notin DOMAIN L
        BY <2>1, <2>5
      <3>2. Before(L, x) = Before(L, n)
        BY <1>2, <2>1, <3>1
      <3>3. LengthIn(L, x) = 0
        BY <2>1, <2>5 DEF LengthIn
      <3> QED
        BY <2>2, <3>2, <3>3
    <2>6. n + (d + 1) = x + 1 /\ n + (d + 1) - 1 = x
      BY <2>1
    <2> QED
      BY <2>4, <2>5, <2>6
  <1>3. Nat \subseteq T
    <2> HIDE DEF T
    <2> QED
      BY <1>1, <1>2, Inductive
  <1>4. m - n \in T /\ n + (m - n) = m
    BY <1>3
  <1> QED
    BY <1>4

LEMMA LastIs ==
  ASSUME NEW S, NEW top \in Nat, S \subseteq 0..top
  PROVE  /\ LastOf(S) \in 0..top /\ \A m \in S : m <= LastOf(S)
         /\ S # {} => LastOf(S) \in S
         /\ S = {} => LastOf(S) = 0
         /\ \A n \in S : (\A m \in S : m <= n) => LastOf(S) = n
  <1>1. \E n \in S \cup {0} : \A m \in S : m <= n
    <2>1. CASE S = {}
      BY <2>1
    <2>2. CASE S # {}
      <3>1. \E n \in S : \A m \in S : m <= n
        BY <2>2, Greatest
      <3> QED
        BY <3>1
    <2> QED
      BY <2>1, <2>2
  <1>2. LastOf(S) \in S \cup {0} /\ \A m \in S : m <= LastOf(S)
    BY <1>1 DEF LastOf
  <1>3. LastOf(S) \in 0..top
    <2>1. 0 \in 0..top
      OBVIOUS
    <2> QED
      BY <1>2, <2>1
  <1>4. S # {} => LastOf(S) \in S
    <2>1. ASSUME S # {}, LastOf(S) = 0 PROVE 0 \in S
      <3>1. PICK m \in S : TRUE
        BY <2>1
      <3>2. m <= 0 /\ m \in 0..top
        BY <1>2, <2>1
      <3>3. m = 0
        BY <3>2
      <3> QED
        BY <3>1, <3>3
    <2> QED
      BY <1>2, <2>1
  <1>5. ASSUME NEW n \in S, \A m \in S : m <= n PROVE LastOf(S) = n
    <2>1. LastOf(S) <= n /\ n <= LastOf(S)
      BY <1>2, <1>4, <1>5
    <2> QED
      BY <1>3, <2>1
  <1> QED
    BY <1>2, <1>3, <1>4, <1>5

LEMMA TotalIs ==
  ASSUME NEW L, Measured(L), NEW t \in Nat, \A n \in DOMAIN L : n < t
  PROVE  /\ Total(L) = Before(L, t) /\ Total(L) \in Nat
         /\ LastOf(DOMAIN L) \in Nat /\ \A n \in DOMAIN L : n <= LastOf(DOMAIN L)
  <1>1. PICK top \in Nat : DOMAIN L \subseteq 0..top
    BY DEF Measured
  <1>2. PICK l \in Nat : l = LastOf(DOMAIN L) /\ \A n \in DOMAIN L : n <= l
    BY <1>1, LastIs
  <1>3. Total(L) = Before(L, l + 1)
    BY <1>2 DEF Total
  <1>4. \A n \in DOMAIN L : n \in Nat
    BY DEF Measured
  <1>5. Total(L) = Before(L, t)
    <2>1. CASE l + 1 <= t
      <3>1. \A k \in (l + 1)..(t - 1) : k \notin DOMAIN L
        BY <1>2, <1>4
      <3> QED
        BY <1>3, <2>1, <3>1, BeforeGap
    <2>2. CASE t < l + 1
      <3>1. \A k \in t..(l + 1 - 1) : k \notin DOMAIN L
        BY <1>4
      <3>2. l + 1 \in Nat /\ t <= l + 1
        BY <2>2
      <3> QED
        BY <1>3, <3>1, <3>2, BeforeGap
    <2> QED
      BY <2>1, <2>2
  <1> QED
    BY <1>2, <1>5, BeforeIs

\* One part changes its length: the parts behind it move.
LEMMA BeforeShift ==
  ASSUME NEW L, Measured(L), NEW M, Measured(M), NEW n \in Nat,
         \A i \in Nat \ {n} : LengthIn(L, i) = LengthIn(M, i)
  PROVE  /\ \A m \in 0..n : Before(M, m) = Before(L, m)
         /\ \A m \in Nat : m > n => Before(M, m) + LengthIn(L, n) = Before(L, m) + LengthIn(M, n)
         /\ Total(M) + LengthIn(L, n) = Total(L) + LengthIn(M, n)
  <1>1. PICK a \in Nat : a = LengthIn(L, n)
    BY LengthInNat
  <1>2. PICK b \in Nat : b = LengthIn(M, n)
    BY LengthInNat
  <1> DEFINE T == {m \in Nat : IF m <= n THEN Before(M, m) = Before(L, m)
                                         ELSE Before(M, m) + a = Before(L, m) + b}
  <1>3. 0 \in T
    BY BeforeIs
  <1>4. ASSUME NEW m \in Nat, m \in T PROVE m + 1 \in T
    <2>1. PICK x, y : x = LengthIn(L, m) /\ y = LengthIn(M, m)
      OBVIOUS
    <2>2. /\ Before(L, m + 1) = Before(L, m) + x /\ x \in Nat /\ Before(L, m) \in Nat
          /\ Before(M, m + 1) = Before(M, m) + y /\ y \in Nat /\ Before(M, m) \in Nat
      BY <2>1, BeforeIs, LengthInNat
    <2>3. CASE m = n
      <3>1. x = a /\ y = b /\ Before(M, m) = Before(L, m)
        BY <1>1, <1>2, <1>4, <2>1, <2>3
      <3>2. Before(M, m + 1) + a = Before(L, m + 1) + b
        BY <1>1, <1>2, <2>2, <3>1
      <3> QED
        BY <2>3, <3>2
    <2>4. CASE m < n
      <3>1. x = y
        BY <2>1, <2>4
      <3> QED
        BY <1>4, <2>2, <2>4, <3>1
    <2>5. CASE m > n
      <3>1. x = y
        BY <2>1, <2>5
      <3>2. Before(M, m) + a = Before(L, m) + b
        BY <1>4, <2>5
      <3>3. Before(M, m + 1) + a = Before(L, m + 1) + b
        BY <1>1, <1>2, <2>2, <3>1, <3>2
      <3> QED
        BY <2>5, <3>3
    <2> QED
      BY <2>3, <2>4, <2>5
  <1>5. Nat \subseteq T
    <2> HIDE DEF T
    <2> QED
      BY <1>3, <1>4, Inductive
  <1>6. \A m \in 0..n : Before(M, m) = Before(L, m)
    BY <1>5
  <1>7. \A m \in Nat : m > n => Before(M, m) + a = Before(L, m) + b
    BY <1>5
  <1>8. Total(M) + a = Total(L) + b
    <2>1. PICK p \in Nat : DOMAIN L \subseteq 0..p
      BY DEF Measured
    <2>2. PICK q \in Nat : DOMAIN M \subseteq 0..q
      BY DEF Measured
    <2>3. PICK t \in Nat : t = p + q + n + 1
      OBVIOUS
    <2>4. t > n /\ (\A i \in DOMAIN L : i < t) /\ \A i \in DOMAIN M : i < t
      BY <2>1, <2>2, <2>3
    <2>5. Total(L) = Before(L, t) /\ Total(M) = Before(M, t)
      BY <2>4, TotalIs
    <2> QED
      BY <1>7, <2>4, <2>5
  <1> QED
    BY <1>1, <1>2, <1>6, <1>7, <1>8

-----------------------------------------------------------------------------
(* Numbers in order                                                        *)

Upto(S) == CHOOSE f : f = [n \in Nat |-> IF n = 0 THEN <<>>
                                         ELSE IF n - 1 \in S THEN Append(f[n - 1], n - 1)
                                         ELSE f[n - 1]]

LEMMA UptoIs ==
  ASSUME NEW S
  PROVE  /\ Upto(S)[0] = <<>>
         /\ \A n \in Nat : /\ Upto(S)[n] \in Seq(Nat)
                           /\ Upto(S)[n + 1] = IF n \in S THEN Append(Upto(S)[n], n) ELSE Upto(S)[n]
  <1>1. PICK G : G = [p \in Nat \X Seq(Nat) |-> IF p[1] \in S THEN Append(p[2], p[1]) ELSE p[2]]
    OBVIOUS
  <1>2. /\ G \in [Nat \X Seq(Nat) -> Seq(Nat)]
        /\ \A i \in Nat, x \in Seq(Nat) : G[<<i, x>>] = IF i \in S THEN Append(x, i) ELSE x
    <2>1. ASSUME NEW i \in Nat, NEW x \in Seq(Nat)
          PROVE  G[<<i, x>>] = (IF i \in S THEN Append(x, i) ELSE x) /\ G[<<i, x>>] \in Seq(Nat)
      BY <1>1
    <2> QED
      BY <1>1, <2>1
  <1>3. PICK e \in Seq(Nat) : e = <<>>
    BY EmptySeq
  <1>4. PICK f : Iterates(f, Seq(Nat), e, G)
    BY <1>2, <1>3, Recursion
  <1>5. \A n \in Nat : f[n] \in Seq(Nat) /\ f[n + 1] = IF n \in S THEN Append(f[n], n) ELSE f[n]
    BY <1>2, <1>4 DEF Iterates
  <1>6. PICK g : g = [n \in Nat |-> IF n = 0 THEN <<>>
                                    ELSE IF n - 1 \in S THEN Append(f[n - 1], n - 1) ELSE f[n - 1]]
    OBVIOUS
  <1>7. ASSUME NEW n \in Nat PROVE f[n] = g[n]
    <2>1. CASE n = 0
      BY <1>3, <1>4, <1>6, <2>1 DEF Iterates
    <2>2. CASE n # 0
      <3>1. PICK k \in Nat : k = n - 1 /\ n = k + 1
        BY <2>2
      <3>2. g[n] = IF k \in S THEN Append(f[k], k) ELSE f[k]
        BY <1>6, <2>2, <3>1
      <3> QED
        BY <1>5, <3>1, <3>2
    <2> QED
      BY <2>1, <2>2
  <1>8. f = g
    BY <1>4, <1>6, <1>7 DEF Iterates
  <1>9. PICK s : s = Upto(S)
    OBVIOUS
  <1>10. s = [n \in Nat |-> IF n = 0 THEN <<>>
                            ELSE IF n - 1 \in S THEN Append(s[n - 1], n - 1) ELSE s[n - 1]]
    <2>1. f = [n \in Nat |-> IF n = 0 THEN <<>>
                             ELSE IF n - 1 \in S THEN Append(f[n - 1], n - 1) ELSE f[n - 1]]
      BY <1>6, <1>8, Zenon
    <2> QED
      BY <1>9, <2>1, Zenon DEF Upto
  <1>11. s[0] = <<>>
    BY <1>10
  <1>12. ASSUME NEW n \in Nat PROVE s[n + 1] = IF n \in S THEN Append(s[n], n) ELSE s[n]
    <2>1. PICK k \in Nat : k = n + 1 /\ k # 0 /\ k - 1 = n
      OBVIOUS
    <2>2. s[k] = IF k - 1 \in S THEN Append(s[k - 1], k - 1) ELSE s[k - 1]
      BY <1>10, <2>1
    <2> QED
      BY <2>1, <2>2
  <1>13. \A n \in Nat : s[n] \in Seq(Nat)
    <2> DEFINE T == {n \in Nat : s[n] \in Seq(Nat)}
    <2>1. 0 \in T
      BY <1>11, EmptySeq
    <2>2. ASSUME NEW n \in Nat, n \in T PROVE n + 1 \in T
      <3>1. s[n] \in Seq(Nat)
        BY <2>2
      <3>2. Append(s[n], n) \in Seq(Nat)
        BY <3>1, AppendProperties
      <3>3. s[n + 1] \in Seq(Nat)
        BY <1>12, <3>1, <3>2, Zenon
      <3> QED
        BY <3>3
    <2>3. Nat \subseteq T
      <3> HIDE DEF T
      <3> QED
        BY <2>1, <2>2, Inductive
    <2> QED
      BY <2>3
  <1> QED
    BY <1>9, <1>11, <1>12, <1>13

LEMMA AscendingUpto ==
  ASSUME NEW S
  PROVE  Ascending(S) = Upto(S)[LastOf(S) + 1]
  BY Zenon DEF Ascending, Upto

\* Only numbers of the set are listed.
LEMMA AscendingType ==
  ASSUME NEW S, NEW top \in Nat, S \subseteq 0..top
  PROVE  Ascending(S) \in Seq(S)
  <1>1. PICK s : s = Upto(S)
    OBVIOUS
  <1>2. /\ s[0] = <<>>
        /\ \A n \in Nat : s[n + 1] = IF n \in S THEN Append(s[n], n) ELSE s[n]
    BY <1>1, UptoIs
  <1> DEFINE T == {n \in Nat : s[n] \in Seq(S)}
  <1>3. 0 \in T
    BY <1>2, EmptySeq
  <1>4. ASSUME NEW n \in Nat, n \in T PROVE n + 1 \in T
    <2>1. s[n] \in Seq(S)
      BY <1>4
    <2>2. n \in S => Append(s[n], n) \in Seq(S)
      BY <2>1, AppendProperties
    <2>3. s[n + 1] \in Seq(S)
      BY <1>2, <2>1, <2>2, Zenon
    <2> QED
      BY <2>3
  <1>5. Nat \subseteq T
    <2> HIDE DEF T
    <2> QED
      BY <1>3, <1>4, Inductive
  <1>6. PICK l \in 0..top : l = LastOf(S)
    BY LastIs
  <1>7. l + 1 \in Nat
    OBVIOUS
  <1> QED
    BY <1>1, <1>5, <1>6, <1>7, AscendingUpto

LEMMA RisingPairs ==
  ASSUME NEW t \in Seq(Nat), Rising(t)
  PROVE  \A i, j \in 1..Len(t) : i < j => t[i] < t[j]
  <1>1. PICK n \in Nat : n = Len(t)
    OBVIOUS
  <1>2. \A i \in 2..n : t[i - 1] < t[i]
    BY <1>1 DEF Rising
  <1>3. \A i \in 1..n : t[i] \in Nat
    BY <1>1
  <1> DEFINE T == {j \in Nat : \A i \in 1..n : i < j /\ j <= n => t[i] < t[j]}
  <1>4. 0 \in T
    OBVIOUS
  <1>5. ASSUME NEW j \in Nat, j \in T PROVE j + 1 \in T
    <2>1. SUFFICES ASSUME NEW i \in 1..n, i < j + 1, j + 1 <= n PROVE t[i] < t[j + 1]
      OBVIOUS
    <2>2. PICK k : k = j + 1
      OBVIOUS
    <2>3. k \in 2..n /\ k - 1 = j /\ j \in 1..n /\ k \in 1..n
      BY <2>1, <2>2
    <2>4. t[j] < t[k]
      BY <1>2, <2>3
    <2>5. i = j \/ t[i] < t[j]
      BY <1>5, <2>1, <2>3
    <2>6. PICK a, b, c \in Nat : a = t[i] /\ b = t[j] /\ c = t[k]
      BY <1>3, <2>1, <2>3
    <2>7. t[i] < t[k]
      <3>1. b < c /\ (a = b \/ a < b)
        BY <2>4, <2>5, <2>6
      <3>2. a < c
        BY <3>1
      <3> QED
        BY <2>6, <3>2
    <2> QED
      BY <2>2, <2>7
  <1>6. Nat \subseteq T
    <2> HIDE DEF T
    <2> QED
      BY <1>4, <1>5, Inductive
  <1> QED
    BY <1>1, <1>6

\* A rising sequence is what its numbers are in order.
LEMMA AscendingIs ==
  ASSUME NEW t \in Seq(Nat), Rising(t), NEW S,
         \A i \in 1..Len(t) : t[i] \in S, \A x \in S : \E i \in 1..Len(t) : x = t[i]
  PROVE  Ascending(S) = t
  <1>1. PICK l \in Nat : l = Len(t)
    OBVIOUS
  <1>2. PICK u : u = Upto(S)
    OBVIOUS
  <1>3. /\ u[0] = <<>>
        /\ \A n \in Nat : u[n + 1] = IF n \in S THEN Append(u[n], n) ELSE u[n]
    <2>1. /\ Upto(S)[0] = <<>>
          /\ \A n \in Nat : /\ Upto(S)[n] \in Seq(Nat)
                            /\ Upto(S)[n + 1] = IF n \in S THEN Append(Upto(S)[n], n) ELSE Upto(S)[n]
      BY UptoIs, Zenon
    <2> QED
      BY <1>2, <2>1
  <1>4. \A i \in 1..l : t[i] \in Nat /\ t[i] \in S
    BY <1>1
  <1>5. \A i, j \in 1..l : i < j => t[i] < t[j]
    BY <1>1, RisingPairs
  <1> DEFINE Part(n, j) == /\ u[n] = SubSeq(t, 1, j)
                           /\ \A k \in 1..j : t[k] < n
                           /\ \A k \in (j + 1)..l : t[k] >= n
             T == {n \in Nat : \E j \in 0..l : Part(n, j)}
  <1> HIDE DEF Part
  <1>6. 0 \in T
    <2>1. SubSeq(t, 1, 0) = <<>>
      BY SubSeqEmpty
    <2>2. \A k \in 1..l : t[k] >= 0
      BY <1>4
    <2>3. Part(0, 0)
      BY <1>3, <2>1, <2>2 DEF Part
    <2> QED
      BY <2>3
  <1>7. ASSUME NEW n \in Nat, n \in T PROVE n + 1 \in T
    <2>1. PICK j \in 0..l : Part(n, j)
      BY <1>7
    <2>2. CASE n \in S
      <3>1. PICK k \in 1..l : t[k] = n
        BY <1>1, <2>2
      <3>2. PICK m : m = j + 1
        OBVIOUS
      <3>3. k >= m
        <4>1. ASSUME k <= j PROVE FALSE
          <5>1. t[k] < n
            BY <2>1, <3>1, <4>1 DEF Part
          <5> QED
            BY <3>1, <5>1
        <4> QED
          BY <3>2, <4>1
      <3>4. m \in 1..l
        BY <3>1, <3>2, <3>3
      <3>5. t[m] >= n
        BY <2>1, <3>2, <3>4 DEF Part
      <3>6. k = m
        <4>1. ASSUME m < k PROVE FALSE
          <5>1. t[m] < t[k]
            BY <1>5, <3>1, <3>4, <4>1
          <5>2. PICK a \in Nat : a = t[m]
            BY <1>4, <3>4
          <5> QED
            BY <3>1, <3>5, <5>1, <5>2
        <4> QED
          BY <3>1, <3>3, <3>4, <4>1
      <3>7. t[m] = n
        BY <3>1, <3>6
      <3>8. SubSeq(t, 1, m) = Append(SubSeq(t, 1, j), n)
        <4>1. PICK a : a = SubSeq(t, 1, m)
          OBVIOUS
        <4>2. PICK b : b = SubSeq(t, 1, j)
          OBVIOUS
        <4>3. a \in Seq(Nat) /\ Len(a) = m /\ \A i \in 1..m : a[i] = t[i]
          BY <1>1, <3>4, <4>1, CutTo
        <4>4. b \in Seq(Nat) /\ Len(b) = j /\ \A i \in 1..j : b[i] = t[i]
          BY <1>1, <4>2, CutTo
        <4>5. PICK c : c = Append(b, n)
          OBVIOUS
        <4>6. c \in Seq(Nat) /\ Len(c) = j + 1 /\ (\A i \in 1..j : c[i] = b[i]) /\ c[j + 1] = n
          BY <4>4, <4>5, AppendProperties
        <4>7. \A i \in 1..m : a[i] = c[i]
          <5>1. ASSUME NEW i \in 1..m PROVE a[i] = c[i]
            <6>1. CASE i = m
              BY <3>2, <3>7, <4>3, <4>6, <6>1
            <6>2. CASE i # m
              <7>1. i \in 1..j
                BY <3>2, <6>2
              <7> QED
                BY <4>3, <4>4, <4>6, <7>1
            <6> QED
              BY <6>1, <6>2
          <5> QED
            BY <5>1
        <4>8. a = c
          BY <3>2, <4>3, <4>6, <4>7, SeqEqual
        <4> QED
          BY <4>1, <4>2, <4>5, <4>8
      <3>9. u[n + 1] = SubSeq(t, 1, m)
        BY <1>3, <2>1, <2>2, <3>8 DEF Part
      <3>10. \A i \in 1..m : t[i] < n + 1
        <4>1. ASSUME NEW i \in 1..m PROVE t[i] < n + 1
          <5>1. CASE i = m
            BY <3>7, <5>1
          <5>2. CASE i # m
            <6>1. i \in 1..j /\ i \in 1..l
              BY <3>2, <5>2
            <6>2. PICK a \in Nat : a = t[i] /\ a < n
              BY <1>4, <2>1, <6>1 DEF Part
            <6> QED
              BY <6>2
          <5> QED
            BY <5>1, <5>2
        <4> QED
          BY <4>1
      <3>11. \A i \in (m + 1)..l : t[i] >= n + 1
        <4>1. ASSUME NEW i \in (m + 1)..l PROVE t[i] >= n + 1
          <5>1. i \in 1..l /\ m < i
            BY <3>4
          <5>2. PICK a \in Nat : a = t[i]
            BY <1>4, <5>1
          <5>3. n < a
            BY <1>5, <3>4, <3>7, <5>1, <5>2
          <5> QED
            BY <5>2, <5>3
        <4> QED
          BY <4>1
      <3>12. m \in 0..l /\ Part(n + 1, m)
        BY <3>4, <3>9, <3>10, <3>11 DEF Part
      <3> QED
        BY <3>12
    <2>3. CASE n \notin S
      <3>1. u[n + 1] = SubSeq(t, 1, j)
        BY <1>3, <2>1, <2>3 DEF Part
      <3>2. ASSUME NEW i \in 1..j PROVE t[i] < n + 1
        <4>1. i \in 1..l
          OBVIOUS
        <4>2. PICK a \in Nat : a = t[i] /\ a < n
          BY <1>4, <2>1, <4>1 DEF Part
        <4> QED
          BY <4>2
      <3>3. ASSUME NEW i \in (j + 1)..l PROVE t[i] >= n + 1
        <4>1. i \in 1..l
          OBVIOUS
        <4>2. PICK a \in Nat : a = t[i]
          BY <1>4, <4>1
        <4>3. a \in S
          BY <1>4, <4>1, <4>2
        <4>4. a >= n
          BY <2>1, <4>2 DEF Part
        <4>5. a # n
          BY <2>3, <4>3
        <4>6. a >= n + 1
          BY <4>4, <4>5
        <4> QED
          BY <4>2, <4>6
      <3>4. Part(n + 1, j)
        BY <3>1, <3>2, <3>3 DEF Part
      <3> QED
        BY <3>4
    <2> QED
      BY <2>2, <2>3
  <1>8. Nat \subseteq T
    <2> HIDE DEF T
    <2> QED
      BY <1>6, <1>7, Inductive
  <1>9. PICK top \in Nat : S \subseteq 0..top
    <2>1. CASE l = 0
      <3>1. S = {}
        BY <1>1, <2>1
      <3> QED
        BY <3>1
    <2>2. CASE l # 0
      <3>1. l \in 1..l
        BY <2>2
      <3>2. PICK top \in Nat : top = t[l]
        BY <1>4, <3>1
      <3>3. ASSUME NEW x \in S PROVE x \in 0..top
        <4>1. PICK i \in 1..l : x = t[i]
          BY <1>1
        <4>2. x \in Nat
          BY <1>4, <4>1
        <4>3. x <= top
          <5>1. CASE i = l
            BY <3>2, <4>1, <5>1
          <5>2. CASE i # l
            <6>1. i < l
              BY <5>2
            <6>2. x < top
              BY <1>5, <3>1, <3>2, <4>1, <6>1
            <6> QED
              BY <4>2, <6>2
          <5> QED
            BY <5>1, <5>2
        <4> QED
          BY <4>2, <4>3
      <3> QED
        BY <3>3
    <2> QED
      BY <2>1, <2>2
  <1>10. PICK n \in Nat : n = LastOf(S) /\ \A m \in S : m <= n
    <2>1. LastOf(S) \in 0..top /\ \A m \in S : m <= LastOf(S)
      BY <1>9, LastIs, Zenon
    <2>2. PICK n \in 0..top : n = LastOf(S)
      BY <2>1, Zenon
    <2>3. n \in Nat
      OBVIOUS
    <2> QED
      BY <2>1, <2>2, <2>3, Zenon
  <1>11. n + 1 \in T
    BY <1>8
  <1>12. PICK j \in 0..l : Part(n + 1, j)
    BY <1>11
  <1>13. j = l
    <2>1. ASSUME j < l PROVE FALSE
      <3>1. l \in (j + 1)..l /\ l \in 1..l
        BY <2>1
      <3>2. PICK a \in Nat : a = t[l]
        BY <1>4, <3>1
      <3>3. a \in S
        BY <1>4, <3>1, <3>2
      <3>4. a <= n
        BY <1>10, <3>3
      <3>5. a >= n + 1
        BY <1>12, <3>1, <3>2 DEF Part
      <3> QED
        BY <3>4, <3>5
    <2> QED
      BY <2>1
  <1>14. SubSeq(t, 1, l) = t
    <2>1. PICK a : a = SubSeq(t, 1, l)
      OBVIOUS
    <2>2. a \in Seq(Nat) /\ Len(a) = l /\ \A i \in 1..l : a[i] = t[i]
      BY <1>1, <2>1, CutTo
    <2>3. a = t
      BY <1>1, <2>2, SeqEqual
    <2> QED
      BY <2>1, <2>3
  <1>15. u[n + 1] = t
    BY <1>12, <1>13, <1>14 DEF Part
  <1> QED
    BY <1>2, <1>10, <1>15, AscendingUpto

LEMMA PickType ==
  ASSUME NEW X, NEW s \in Seq(X), NEW P, P \subseteq 1..Len(s)
  PROVE  Pick(s, P) \in Seq(X)
  <1>1. PICK l \in Nat : l = Len(s)
    OBVIOUS
  <1>2. P \subseteq 0..l
    BY <1>1
  <1>3. PICK at : at = Ascending(P)
    OBVIOUS
  <1>4. at \in Seq(P)
    BY <1>2, <1>3, AscendingType
  <1>5. PICK n \in Nat : n = Len(at)
    BY <1>4
  <1>6. ASSUME NEW i \in 1..n PROVE s[at[i]] \in X
    <2>1. at[i] \in P
      BY <1>4, <1>5
    <2>2. at[i] \in 1..Len(s)
      BY <2>1
    <2> QED
      BY <2>2, ElementOfSeq
  <1>7. Pick(s, P) = [i \in 1..n |-> s[at[i]]]
    BY <1>3, <1>5, Zenon DEF Pick
  <1> QED
    BY <1>6, <1>7

LEMMA PickFirst ==
  ASSUME NEW X, NEW s \in Seq(X), NEW m \in 0..Len(s)
  PROVE  Pick(s, 1..m) = SubSeq(s, 1, m)
  <1>1. PICK t : t = [i \in 1..m |-> i]
    OBVIOUS
  <1>2. t \in Seq(Nat) /\ Len(t) = m /\ (\A i \in 1..m : t[i] = i) /\ m \in Nat
    BY <1>1
  <1>3. Rising(t)
    BY <1>2 DEF Rising
  <1>4. (\A i \in 1..Len(t) : t[i] \in 1..m) /\ \A x \in 1..m : \E i \in 1..Len(t) : x = t[i]
    BY <1>2
  <1>5. Ascending(1..m) = t
    BY <1>2, <1>3, <1>4, AscendingIs
  <1>6. PICK p : p = Pick(s, 1..m)
    OBVIOUS
  <1>7. p = [i \in 1..m |-> s[t[i]]]
    BY <1>2, <1>5, <1>6, Zenon DEF Pick
  <1>8. \A i \in 1..m : s[i] \in X
    OBVIOUS
  <1>9. p \in Seq(X) /\ Len(p) = m /\ \A i \in 1..m : p[i] = s[i]
    BY <1>2, <1>7, <1>8
  <1>10. PICK q : q = SubSeq(s, 1, m)
    OBVIOUS
  <1>11. q \in Seq(X) /\ Len(q) = m /\ \A i \in 1..m : q[i] = s[i]
    BY <1>10, CutTo
  <1>12. p = q
    BY <1>9, <1>11, SeqEqual
  <1> QED
    BY <1>6, <1>10, <1>12

-----------------------------------------------------------------------------
(* Lines of bytes                                                          *)

LineSet(n) == [at : Nat, row : 1..n, step : Steps \cup {NoStep}, whole : BOOLEAN]

\* Where a byte is in a line of a log of whole lines.
LEMMA Places ==
  /\ \A i \in Nat \ {0} : /\ LineOf(i) \in Nat \ {0} /\ PlaceOf(i) \in 1..LineBytes
                          /\ i = LineBytes * (LineOf(i) - 1) + PlaceOf(i)
  /\ \A k \in Nat \ {0}, j \in 1..LineBytes :
       LineOf(LineBytes * (k - 1) + j) = k /\ PlaceOf(LineBytes * (k - 1) + j) = j
  BY DEF LineOf, PlaceOf, LineBytes

LEMMA StepOfType ==
  ASSUME steps \in Seq(Steps), NEW line \in Seq(ByteSet(Len(steps)))
  PROVE  StepOf(line) \in Steps \cup {NoStep}
  <1>1. CASE Len(line) \in {LineBytes - 1, LineBytes}
    <2>1. 1 \in 1..Len(line)
      <3>1. PICK l \in Nat : l = Len(line)
        OBVIOUS
      <3>2. l = 2 \/ l = 3
        BY <1>1, <3>1 DEF LineBytes
      <3>3. 1 \in 1..l
        BY <3>2
      <3> QED
        BY <3>1, <3>3
    <2>2. line[1] \in ByteSet(Len(steps))
      BY <2>1, ElementOfSeq
    <2>3. line[1][1] \in 1..Len(steps)
      BY <2>2 DEF ByteSet
    <2>4. steps[line[1][1]] \in Steps
      BY <2>3, ElementOfSeq
    <2> QED
      BY <2>4, Zenon DEF StepOf
  <1>2. CASE Len(line) \notin {LineBytes - 1, LineBytes}
    BY <1>2, Zenon DEF StepOf
  <1> QED
    BY <1>1, <1>2

\* A line of some bytes, from its first byte to its last.
CutLine(bytes, a, e) ==
    [at |-> a - 1, row |-> bytes[a][1], step |-> StepOf(SubSeq(bytes, a, e)),
     whole |-> Newline(bytes[e])]
Starts(bytes) == {i \in 1..Len(bytes) : i = 1 \/ Newline(bytes[i - 1])}
EndOf(bytes, at, n) == IF n = Len(at) THEN Len(bytes) ELSE at[n + 1] - 1

LEMMA LinesInIs ==
  ASSUME NEW bytes, NEW at, at = Ascending(Starts(bytes))
  PROVE  LinesIn(bytes) = [n \in 1..Len(at) |-> CutLine(bytes, at[n], EndOf(bytes, at, n))]
  BY Zenon DEF LinesIn, CutLine, Starts, EndOf

LEMMA LinesType ==
  ASSUME steps \in Seq(Steps), NEW bytes \in Seq(ByteSet(Len(steps)))
  PROVE  LinesIn(bytes) \in Seq(LineSet(Len(steps)))
  <1>1. PICK l \in Nat : l = Len(bytes)
    OBVIOUS
  <1>2. PICK at : at = Ascending(Starts(bytes))
    OBVIOUS
  <1>3. at \in Seq(1..l)
    <2>1. Starts(bytes) \subseteq 0..l /\ Starts(bytes) \subseteq 1..l
      BY <1>1 DEF Starts
    <2>2. at \in Seq(Starts(bytes))
      BY <1>2, <2>1, AscendingType
    <2> QED
      BY <2>1, <2>2
  <1>4. PICK m \in Nat : m = Len(at)
    BY <1>3
  <1>5. ASSUME NEW n \in 1..m
        PROVE  CutLine(bytes, at[n], EndOf(bytes, at, n)) \in LineSet(Len(steps))
    <2>1. PICK a : a = at[n]
      OBVIOUS
    <2>2. a \in 1..l
      BY <1>3, <1>4, <2>1
    <2>3. PICK e : e = EndOf(bytes, at, n)
      OBVIOUS
    <2>4. e \in 0..l
      <3>1. CASE n = m
        BY <1>1, <1>4, <2>3, <3>1 DEF EndOf
      <3>2. CASE n # m
        <4>1. n + 1 \in 1..m
          BY <3>2
        <4>2. at[n + 1] \in 1..l
          BY <1>3, <1>4, <4>1
        <4>3. e = at[n + 1] - 1
          BY <1>4, <2>3, <3>2, Zenon DEF EndOf
        <4> QED
          BY <4>2, <4>3
      <3> QED
        BY <3>1, <3>2
    <2>5. ASSUME NEW i \in a..e PROVE bytes[i] \in ByteSet(Len(steps))
      <3>1. i \in 1..Len(bytes)
        BY <1>1, <2>2, <2>4
      <3> QED
        BY <3>1, ElementOfSeq
    <2>6. a \in Int /\ e \in Int
      BY <2>2, <2>4
    <2>7. SubSeq(bytes, a, e) \in Seq(ByteSet(Len(steps)))
      BY <2>5, <2>6, SubSeqProperties
    <2>8. StepOf(SubSeq(bytes, a, e)) \in Steps \cup {NoStep}
      BY <2>7, StepOfType
    <2>9. bytes[a][1] \in 1..Len(steps)
      <3>1. bytes[a] \in ByteSet(Len(steps))
        BY <1>1, <2>2, ElementOfSeq
      <3> QED
        BY <3>1 DEF ByteSet
    <2>10. a - 1 \in Nat /\ Newline(bytes[e]) \in BOOLEAN
      BY <2>2 DEF Newline
    <2>11. CutLine(bytes, a, e) \in LineSet(Len(steps))
      BY <2>8, <2>9, <2>10, Zenon DEF CutLine, LineSet
    <2> QED
      BY <2>1, <2>3, <2>11
  <1>6. LinesIn(bytes) = [n \in 1..m |-> CutLine(bytes, at[n], EndOf(bytes, at, n))]
    BY <1>2, <1>4, LinesInIs
  <1>7. \A n \in 1..m : CutLine(bytes, at[n], EndOf(bytes, at, n)) \in LineSet(Len(steps))
    BY <1>5
  <1> QED
    BY <1>6, <1>7

\* A line at another offset.
Line(at, row, step, whole) == [at |-> at, row |-> row, step |-> step, whole |-> whole]
Moved(line, at) == [line EXCEPT !.at = at]

LEMMA MovedIs ==
  ASSUME NEW p, NEW q, NEW r, NEW s, NEW b
  PROVE  Moved(Line(q, r, s, b), p) = Line(p, r, s, b)
  BY DEF Moved, Line

\* Line k of a log of so many bytes that holds these records.
LineAt(rows, k, total) ==
    [at    |-> LineBytes * (k - 1),
     row   |-> rows[k],
     step  |-> IF LineBytes * k - 1 <= total THEN steps[rows[k]] ELSE NoStep,
     whole |-> LineBytes * k <= total]

\* The lines of a part that holds some records from record off + 1 on.
LEMMA LinesAre ==
  ASSUME steps \in Seq(Steps), NEW rows \in Seq(1..Len(steps)), NEW off \in Nat, NEW num \in Nat,
         NEW bytes \in Seq(ByteSet(Len(steps))),
         \A i \in 1..Len(bytes) : bytes[i] = ByteOf(rows, LineBytes * off + i),
         Len(bytes) <= LineBytes * num, LineBytes * num < Len(bytes) + LineBytes,
         off + num <= Len(rows)
  PROVE  LinesIn(bytes) =
           [k \in 1..num |-> Moved(LineAt(rows, off + k, LineBytes * off + Len(bytes)),
                                   LineBytes * (k - 1))]
  <1>1. PICK l \in Nat : l = Len(bytes)
    OBVIOUS
  <1>2. l <= 3 * num /\ 3 * num < l + 3
    BY <1>1 DEF LineBytes
  <1>3. \A k \in 1..num, j \in 1..3 : 3 * (k - 1) + j <= l =>
          bytes[3 * (k - 1) + j] = <<rows[off + k], j>>
    <2>1. SUFFICES ASSUME NEW k \in 1..num, NEW j \in 1..3, 3 * (k - 1) + j <= l
                   PROVE  bytes[3 * (k - 1) + j] = <<rows[off + k], j>>
      OBVIOUS
    <2>2. PICK i \in Nat : i = 3 * (k - 1) + j
      OBVIOUS
    <2>3. i \in 1..l
      BY <2>1, <2>2
    <2>4. bytes[i] = ByteOf(rows, LineBytes * off + i)
      BY <1>1, <2>3
    <2>5. PICK g \in Nat : g = off + k
      OBVIOUS
    <2>6. LineBytes * off + i = LineBytes * (g - 1) + j /\ g \in Nat \ {0} /\ j \in 1..LineBytes
      BY <2>2, <2>5 DEF LineBytes
    <2>7. LineOf(LineBytes * (g - 1) + j) = g /\ PlaceOf(LineBytes * (g - 1) + j) = j
      BY <2>6, Places
    <2> QED
      BY <2>2, <2>4, <2>5, <2>6, <2>7, Zenon DEF ByteOf
  <1>4. \A k \in 1..num : 3 * (k - 1) + 1 <= l
    BY <1>2
  <1>5. PICK t : t = [k \in 1..num |-> 3 * (k - 1) + 1]
    OBVIOUS
  <1>6. t \in Seq(Nat) /\ Len(t) = num /\ \A k \in 1..num : t[k] = 3 * (k - 1) + 1
    BY <1>5
  <1>7. Rising(t)
    BY <1>6 DEF Rising
  <1>8. \A k \in 1..Len(t) : t[k] \in Starts(bytes)
    <2>1. ASSUME NEW k \in 1..num PROVE 3 * (k - 1) + 1 \in Starts(bytes)
      <3>1. 3 * (k - 1) + 1 \in 1..Len(bytes)
        BY <1>1, <1>4
      <3>2. CASE k = 1
        BY <3>1, <3>2 DEF Starts
      <3>3. CASE k # 1
        <4>1. PICK p \in 1..num : p = k - 1
          BY <3>3
        <4>2. 3 * (p - 1) + 3 <= l /\ 3 * (p - 1) + 3 = (3 * (k - 1) + 1) - 1
          BY <1>4, <4>1
        <4>3. bytes[3 * (p - 1) + 3] = <<rows[off + p], 3>>
          BY <1>3, <4>2, SMTT(30)
        <4>4. Newline(bytes[(3 * (k - 1) + 1) - 1])
          BY <4>2, <4>3, SMTT(30) DEF Newline, LineBytes
        <4> QED
          BY <3>1, <4>4 DEF Starts
      <3> QED
        BY <3>2, <3>3
    <2> QED
      BY <1>6, <2>1
  <1>9. \A x \in Starts(bytes) : \E k \in 1..Len(t) : x = t[k]
    <2>1. ASSUME NEW x \in Starts(bytes) PROVE \E k \in 1..num : x = 3 * (k - 1) + 1
      <3>1. x \in 1..l
        BY <1>1 DEF Starts
      <3>2. CASE x = 1
        <4>1. 1 \in 1..num
          BY <1>2, <3>1
        <4> QED
          BY <3>2, <4>1
      <3>3. CASE x # 1
        <4>1. Newline(bytes[x - 1])
          BY <3>3 DEF Starts
        <4>2. PICK y \in Nat \ {0} : y = x - 1
          BY <3>1, <3>3
        <4>3. PICK k, j : k = LineOf(y) /\ j = PlaceOf(y)
          OBVIOUS
        <4>4. k \in Nat \ {0} /\ j \in 1..3 /\ y = 3 * (k - 1) + j
          BY <4>3, Places DEF LineBytes
        <4>5. k \in 1..num /\ 3 * (k - 1) + j <= l
          BY <1>2, <3>1, <4>2, <4>4
        <4>6. bytes[y] = <<rows[off + k], j>>
          BY <1>3, <4>4, <4>5
        <4>7. j = 3
          BY <4>1, <4>2, <4>6 DEF Newline, LineBytes
        <4>8. x = 3 * ((k + 1) - 1) + 1 /\ k + 1 \in 1..num
          BY <1>2, <3>1, <4>2, <4>4, <4>7
        <4> QED
          BY <4>8
      <3> QED
        BY <3>2, <3>3
    <2> QED
      BY <1>6, <2>1
  <1>10. t = Ascending(Starts(bytes))
    BY <1>6, <1>7, <1>8, <1>9, AscendingIs
  <1>11. ASSUME NEW k \in 1..num
         PROVE  CutLine(bytes, t[k], EndOf(bytes, t, k)) =
                  Moved(LineAt(rows, off + k, LineBytes * off + Len(bytes)), LineBytes * (k - 1))
    <2>1. PICK a \in Nat : a = 3 * (k - 1)
      OBVIOUS
    <2>2. t[k] = a + 1
      BY <1>6, <2>1
    <2>3. PICK w \in 1..3 : a + w = EndOf(bytes, t, k) /\ a + w <= l /\ (w = 3 \/ a + w = l)
      <3>1. CASE k = num
        <4>1. EndOf(bytes, t, k) = l
          BY <1>1, <1>6, <3>1, Zenon DEF EndOf
        <4>2. l - a \in 1..3 /\ a + (l - a) = l
          BY <1>2, <2>1, <3>1
        <4> QED
          BY <4>1, <4>2
      <3>2. CASE k # num
        <4>1. PICK p \in 1..num : p = k + 1
          BY <3>2
        <4>2. EndOf(bytes, t, k) = t[p] - 1
          BY <1>6, <3>2, <4>1, Zenon DEF EndOf
        <4>3. t[p] = 3 * (p - 1) + 1
          BY <1>6
        <4>4. 3 * (p - 1) + 1 <= l
          BY <1>4
        <4>5. 3 * (p - 1) + 1 = a + 4
          BY <2>1, <4>1
        <4>6. t[p] - 1 = a + 3 /\ a + 3 <= l
          BY <4>3, <4>4, <4>5
        <4> QED
          BY <4>2, <4>6
      <3> QED
        BY <3>1, <3>2
    <2>4. \A j \in 1..w : bytes[a + j] = <<rows[off + k], j>>
      <3>1. ASSUME NEW j \in 1..w PROVE bytes[a + j] = <<rows[off + k], j>>
        <4>1. j \in 1..3 /\ a + j <= l
          BY <2>3
        <4> QED
          BY <1>3, <2>1, <4>1
      <3> QED
        BY <3>1
    <2>5. \A j \in 1..w : bytes[a + j] \in ByteSet(Len(steps))
      <3>1. ASSUME NEW j \in 1..w PROVE bytes[a + j] \in ByteSet(Len(steps))
        <4>1. a + j \in 1..Len(bytes)
          BY <1>1, <2>3
        <4> QED
          BY <4>1, ElementOfSeq
      <3> QED
        BY <3>1
    <2>6. PICK line : line = SubSeq(bytes, a + 1, a + w)
      OBVIOUS
    <2>7. /\ line \in Seq(ByteSet(Len(steps))) /\ Len(line) = w
          /\ \A j \in 1..w : line[j] = <<rows[off + k], j>>
      <3>1. ASSUME NEW i \in (a + 1)..(a + w) PROVE bytes[i] \in ByteSet(Len(steps))
        <4>1. i - a \in 1..w /\ a + (i - a) = i
          OBVIOUS
        <4> QED
          BY <2>5, <4>1
      <3>2. a + 1 \in Int /\ a + w \in Int
        OBVIOUS
      <3>3. /\ line \in Seq(ByteSet(Len(steps)))
            /\ Len(line) = IF a + 1 <= a + w THEN (a + w) - (a + 1) + 1 ELSE 0
            /\ \A j \in 1..((a + w) - (a + 1) + 1) : line[j] = bytes[(a + 1) + j - 1]
        BY <2>6, <3>1, <3>2, SubSeqProperties
      <3>4. (a + w) - (a + 1) + 1 = w /\ a + 1 <= a + w /\ \A j \in 1..w : (a + 1) + j - 1 = a + j
        OBVIOUS
      <3> QED
        BY <2>4, <3>3, <3>4
    <2>8. PICK r \in 1..Len(steps) : r = rows[off + k]
      <3>1. off + k \in 1..Len(rows)
        OBVIOUS
      <3> QED
        BY <3>1, ElementOfSeq
    <2>9. StepOf(line) = IF w >= 2 THEN steps[r] ELSE NoStep
      <3>1. line[1][1] = r
        <4>1. 1 \in 1..w
          OBVIOUS
        <4>2. line[1] = <<rows[off + k], 1>>
          BY <2>7, <4>1
        <4> QED
          BY <2>8, <4>2
      <3>2. \A j \in 1..Len(line) : line[j] = <<line[1][1], j>>
        BY <2>7, <2>8, <3>1
      <3>3. Len(line) \in {LineBytes - 1, LineBytes} <=> w >= 2
        BY <2>7, SMTT(30) DEF LineBytes
      <3> QED
        BY <3>1, <3>2, <3>3, Zenon DEF StepOf
    <2>10. bytes[a + 1][1] = r /\ (Newline(bytes[a + w]) = (w = 3))
      <3>1. 1 \in 1..w /\ w \in 1..w
        OBVIOUS
      <3>2. bytes[a + 1] = <<rows[off + k], 1>> /\ bytes[a + w] = <<rows[off + k], w>>
        BY <2>4, <3>1
      <3> QED
        BY <2>8, <3>2 DEF Newline, LineBytes
    <2>11. PICK g, total \in Nat : g = off + k /\ total = 3 * off + l
      OBVIOUS
    <2>12. /\ LineBytes * off + Len(bytes) = total /\ LineBytes * (k - 1) = (a + 1) - 1
           /\ (LineBytes * g - 1 <= total <=> w >= 2)
           /\ ((LineBytes * g <= total) = (w = 3))
      <3>1. LineBytes * off + Len(bytes) = total /\ LineBytes * (k - 1) = (a + 1) - 1
        BY <1>1, <2>1, <2>11 DEF LineBytes
      <3>2. LineBytes * g = 3 * off + (a + 3)
        BY <2>1, <2>11 DEF LineBytes
      <3>3. (3 * off + (a + 3)) - 1 <= 3 * off + l <=> w >= 2
        BY <2>3
      <3>4. 3 * off + (a + 3) <= 3 * off + l <=> w = 3
        BY <2>3
      <3> QED
        BY <2>11, <3>1, <3>2, <3>3, <3>4, SMTT(30)
    <2>13. CutLine(bytes, a + 1, a + w) =
             [at |-> (a + 1) - 1, row |-> r, step |-> IF w >= 2 THEN steps[r] ELSE NoStep, whole |-> w = 3]
      BY <2>6, <2>9, <2>10, Zenon DEF CutLine
    <2>14. LineAt(rows, g, total) =
             [at |-> LineBytes * (g - 1), row |-> r, step |-> IF w >= 2 THEN steps[r] ELSE NoStep,
              whole |-> w = 3]
      BY <2>8, <2>11, <2>12, Zenon DEF LineAt
    <2>15. Moved(LineAt(rows, g, total), (a + 1) - 1) = CutLine(bytes, a + 1, a + w)
      <3>1. PICK s, b : s = (IF w >= 2 THEN steps[r] ELSE NoStep) /\ b = (w = 3)
        OBVIOUS
      <3>2. PICK p, q : p = (a + 1) - 1 /\ q = LineBytes * (g - 1)
        OBVIOUS
      <3>3. CutLine(bytes, a + 1, a + w) = Line(p, r, s, b)
        BY <2>13, <3>1, <3>2, Zenon DEF Line
      <3>4. LineAt(rows, g, total) = Line(q, r, s, b)
        BY <2>14, <3>1, <3>2, Zenon DEF Line
      <3>5. Moved(Line(q, r, s, b), p) = Line(p, r, s, b)
        BY MovedIs
      <3> QED
        BY <3>2, <3>3, <3>4, <3>5, Zenon
    <2> QED
      BY <2>2, <2>3, <2>11, <2>12, <2>15, Zenon
  <1>12. LinesIn(bytes) = [k \in 1..num |-> CutLine(bytes, t[k], EndOf(bytes, t, k))]
    <2>1. LinesIn(bytes) = [k \in 1..Len(t) |-> CutLine(bytes, t[k], EndOf(bytes, t, k))]
      BY <1>10, LinesInIs
    <2> QED
      BY <1>6, <2>1, Zenon
  <1> QED
    BY <1>11, <1>12, Zenon

-----------------------------------------------------------------------------
(* The lines of the whole log                                              *)

LEMMA LengthsAre ==
  ASSUME NEW fs, NEW n, Parted(fs, n)
  PROVE  /\ Measured(LengthsOf(fs)) /\ DOMAIN LengthsOf(fs) = DOMAIN fs
         /\ \A p : LengthIn(LengthsOf(fs), p) = Len(ContentsIn(fs, p))
         /\ \A p \in DOMAIN fs : LengthsOf(fs)[p] = Len(fs[p]) /\ Len(fs[p]) \in Nat
  <1>1. PICK L : L = LengthsOf(fs)
    OBVIOUS
  <1>2. DOMAIN L = DOMAIN fs /\ \A p \in DOMAIN fs : L[p] = Len(fs[p])
    BY <1>1 DEF LengthsOf
  <1>3. \A p \in DOMAIN fs : p \in Nat /\ Len(fs[p]) \in Nat
    BY DEF Parted
  <1>4. Measured(L)
    BY <1>2, <1>3, Zenon DEF Measured, Parted
  <1>5. ASSUME NEW p PROVE LengthIn(L, p) = Len(ContentsIn(fs, p))
    <2>1. CASE p \in DOMAIN fs
      BY <1>2, <2>1, Zenon DEF LengthIn, ContentsIn
    <2>2. CASE p \notin DOMAIN fs
      <3>1. Len(<<>>) = 0
        OBVIOUS
      <3> QED
        BY <1>2, <2>2, <3>1, Zenon DEF LengthIn, ContentsIn
    <2> QED
      BY <2>1, <2>2
  <1> QED
    BY <1>1, <1>2, <1>3, <1>4, <1>5, Zenon

\* A part ends where the log ends, or before.
LEMMA PartFits ==
  ASSUME NEW fs, NEW n, Parted(fs, n), NEW p \in DOMAIN fs
  PROVE  /\ p \in Nat /\ Before(LengthsOf(fs), p) \in Nat /\ Total(LengthsOf(fs)) \in Nat
         /\ LastOf(DOMAIN fs) \in Nat /\ p <= LastOf(DOMAIN fs)
         /\ Before(LengthsOf(fs), p) + Len(fs[p]) <= Total(LengthsOf(fs))
         /\ p = LastOf(DOMAIN fs) =>
              Before(LengthsOf(fs), p) + Len(fs[p]) = Total(LengthsOf(fs))
  <1>1. PICK L : L = LengthsOf(fs)
    OBVIOUS
  <1>2. Measured(L) /\ DOMAIN L = DOMAIN fs /\ L[p] = Len(fs[p]) /\ p \in Nat
    BY <1>1, LengthsAre DEF Parted
  <1>3. PICK top \in Nat : DOMAIN L \subseteq 0..top
    BY <1>2 DEF Measured
  <1>4. PICK last \in Nat : last = LastOf(DOMAIN fs) /\ \A m \in DOMAIN fs : m <= last
    <2>1. LastOf(DOMAIN L) \in 0..top /\ \A m \in DOMAIN L : m <= LastOf(DOMAIN L)
      BY <1>3, LastIs, Zenon
    <2> QED
      BY <1>2, <2>1
  <1>5. Total(L) = Before(L, last + 1)
    BY <1>2, <1>4, Zenon DEF Total
  <1>6. LengthIn(L, p) = Len(fs[p])
    BY <1>2, Zenon DEF LengthIn
  <1>7. Before(L, p + 1) = Before(L, p) + Len(fs[p]) /\ Before(L, p) \in Nat
    BY <1>2, <1>6, BeforeIs
  <1>8. p <= last /\ last + 1 \in Nat /\ p + 1 \in Nat /\ p + 1 <= last + 1
    BY <1>2, <1>4
  <1>9. Before(L, p + 1) <= Before(L, last + 1)
    BY <1>2, <1>8, BeforeGap
  <1>10. Before(L, last + 1) \in Nat
    BY <1>2, <1>8, BeforeIs
  <1> QED
    BY <1>1, <1>2, <1>4, <1>5, <1>7, <1>8, <1>9, <1>10

PartLines(fs, n) ==
    IF n \in DOMAIN fs
    THEN [i \in 1..Len(LinesIn(fs[n])) |->
            Moved(LinesIn(fs[n])[i], Before(LengthsOf(fs), n) + LinesIn(fs[n])[i].at)]
    ELSE <<>>

LEMMA MovedType ==
  ASSUME NEW n, NEW l \in LineSet(n), NEW at \in Nat
  PROVE  Moved(l, at) \in LineSet(n)
  BY DEF Moved, LineSet

LEMMA PartLinesType ==
  ASSUME steps \in Seq(Steps), NEW fs, Parted(fs, Len(steps)), NEW n \in Nat
  PROVE  PartLines(fs, n) \in Seq(LineSet(Len(steps)))
  <1>1. CASE n \in DOMAIN fs
    <2>1. PICK lines : lines = LinesIn(fs[n])
      OBVIOUS
    <2>2. lines \in Seq(LineSet(Len(steps)))
      BY <1>1, <2>1, LinesType DEF Parted
    <2>3. PICK b \in Nat : b = Before(LengthsOf(fs), n)
      BY <1>1, PartFits
    <2>4. PICK m \in Nat : m = Len(lines)
      BY <2>2
    <2>5. ASSUME NEW i \in 1..m PROVE Moved(lines[i], b + lines[i].at) \in LineSet(Len(steps))
      <3>1. lines[i] \in LineSet(Len(steps))
        BY <2>2, <2>4
      <3>2. b + lines[i].at \in Nat
        BY <3>1 DEF LineSet
      <3> QED
        BY <3>1, <3>2, MovedType
    <2>6. PartLines(fs, n) = [i \in 1..m |-> Moved(lines[i], b + lines[i].at)]
      BY <1>1, <2>1, <2>3, <2>4, Zenon DEF PartLines
    <2> QED
      BY <2>5, <2>6
  <1>2. CASE n \notin DOMAIN fs
    BY <1>2, EmptySeq, Zenon DEF PartLines
  <1> QED
    BY <1>1, <1>2

LEMMA NoLines ==
  ASSUME steps \in Seq(Steps)
  PROVE  LinesIn(<<>>) = <<>>
  <1>1. PICK at : at = Ascending(Starts(<<>>))
    OBVIOUS
  <1>2. Starts(<<>>) \subseteq 0..0 /\ Starts(<<>>) = {}
    BY DEF Starts
  <1>3. at \in Seq(Starts(<<>>))
    BY <1>1, <1>2, AscendingType
  <1>4. Len(at) = 0
    <2>1. ASSUME Len(at) # 0 PROVE FALSE
      <3>1. 1 \in 1..Len(at)
        BY <1>3, <2>1
      <3>2. at[1] \in Starts(<<>>)
        BY <1>3, <3>1, ElementOfSeq
      <3> QED
        BY <1>2, <3>2
    <2> QED
      BY <2>1
  <1>5. LinesIn(<<>>) = [n \in 1..Len(at) |-> CutLine(<<>>, at[n], EndOf(<<>>, at, n))]
    BY <1>1, LinesInIs
  <1> QED
    BY <1>4, <1>5

\* Visiting a part from the beginning of the log to its end.
LEMMA WholePart ==
  ASSUME steps \in Seq(Steps), NEW fs, Parted(fs, Len(steps)), NEW n \in Nat
  PROVE  VisitPart(fs, n, LengthsOf(fs), 0, Total(LengthsOf(fs)), TRUE) = PartLines(fs, n)
  <1>1. PICK L : L = LengthsOf(fs)
    OBVIOUS
  <1>2. DOMAIN L = DOMAIN fs
    BY <1>1, LengthsAre
  <1>3. CASE n \notin DOMAIN fs
    BY <1>1, <1>2, <1>3, Zenon DEF VisitPart, PartLines
  <1>4. CASE n \in DOMAIN fs
    <2>1. PICK bytes : bytes = fs[n]
      OBVIOUS
    <2>2. PICK b, l, total \in Nat : b = Before(L, n) /\ l = Len(bytes) /\ total = Total(L)
      <3>1. Len(bytes) \in Nat
        BY <1>4, <2>1, LengthsAre
      <3> QED
        BY <1>1, <1>4, <3>1, PartFits
    <2>3. L[n] = l /\ b + l <= total
      <3>1. L[n] = Len(fs[n])
        BY <1>1, <1>4, LengthsAre
      <3>2. Before(L, n) + Len(fs[n]) <= Total(L)
        BY <1>1, <1>4, PartFits
      <3> QED
        BY <2>1, <2>2, <3>1, <3>2
    <2>4. MinOf(L[n], total - b) = l
      BY <2>3 DEF MinOf
    <2>5. MaxOf(0 - b, 0) = 0 /\ MinOf(l, l) = l
      BY DEF MaxOf, MinOf
    <2>6. bytes \in Seq(ByteSet(Len(steps)))
      BY <1>4, <2>1 DEF Parted
    <2>7. SubSeq(bytes, 0 + 1, l) = bytes
      <3>1. PICK a : a = SubSeq(bytes, 1, l)
        OBVIOUS
      <3>2. a \in Seq(ByteSet(Len(steps))) /\ Len(a) = l /\ \A i \in 1..l : a[i] = bytes[i]
        <4>1. l \in 0..Len(bytes)
          BY <2>2
        <4> QED
          BY <2>6, <3>1, <4>1, CutTo
      <3>3. a = bytes
        BY <2>2, <2>6, <3>2, SeqEqual
      <3> QED
        BY <3>1, <3>3
    <2>8. PICK lines : lines = LinesIn(bytes)
      OBVIOUS
    <2>9. lines \in Seq(LineSet(Len(steps)))
      BY <2>6, <2>8, LinesType
    <2>10. PICK m \in Nat : m = Len(lines)
      BY <2>9
    <2>11. {i \in 1..Len(lines) : Allowed(lines[i], l, L[n], TRUE)} = 1..m
      BY <2>3, <2>10 DEF Allowed
    <2>12. Pick(lines, 1..m) = lines
      <3>1. m \in 0..Len(lines)
        BY <2>10
      <3>2. PICK a : a = SubSeq(lines, 1, m)
        OBVIOUS
      <3>3. a \in Seq(LineSet(Len(steps))) /\ Len(a) = m /\ \A i \in 1..m : a[i] = lines[i]
        BY <2>9, <3>1, <3>2, CutTo
      <3>4. a = lines
        BY <2>9, <2>10, <3>3, SeqEqual
      <3>5. Pick(lines, 1..m) = SubSeq(lines, 1, m)
        BY <2>9, <3>1, PickFirst
      <3> QED
        BY <3>2, <3>4, <3>5
    <2>13. PICK w : w = VisitPart(fs, n, L, 0, total, TRUE)
      OBVIOUS
    <2>14. w = IF b >= total \/ 0 >= l THEN <<>>
               ELSE [i \in 1..m |-> [lines[i] EXCEPT !.at = b + 0 + @]]
      <3>1. PICK end, from : end = MinOf(L[n], total - b) /\ from = MaxOf(0 - b, 0)
        OBVIOUS
      <3>2. end = l /\ from = 0
        BY <2>4, <2>5, <3>1, Zenon
      <3>3. PICK cut : cut = SubSeq(fs[n], from + 1, MinOf(end, Len(fs[n])))
        OBVIOUS
      <3>4. cut = bytes
        BY <2>1, <2>2, <2>5, <2>7, <3>2, <3>3, Zenon
      <3>5. PICK found : found = Pick(lines, {i \in 1..Len(lines) : Allowed(lines[i], end, L[n], TRUE)})
        OBVIOUS
      <3>6. found = lines
        BY <2>11, <2>12, <3>2, <3>5, Zenon
      <3>7. LinesIn(cut) = lines
        BY <2>8, <3>4, Zenon
      <3>8. found = Pick(LinesIn(cut), {i \in 1..Len(LinesIn(cut)) : Allowed(LinesIn(cut)[i], end, L[n], TRUE)})
        BY <3>5, <3>7, Zenon
      <3>9. w = IF n \notin DOMAIN L \/ b >= total \/ from >= end THEN <<>>
                ELSE [i \in 1..Len(found) |-> [found[i] EXCEPT !.at = b + from + @]]
        <4> DEFINE Cut(e, f) == LinesIn(SubSeq(fs[n], f + 1, MinOf(e, Len(fs[n]))))
        <4> DEFINE Found(e, s) == Pick(s, {i \in 1..Len(s) : Allowed(s[i], e, L[n], TRUE)})
        <4> DEFINE Seen(c, e, f, s) ==
              IF n \notin DOMAIN L \/ c >= total \/ f >= e THEN <<>>
              ELSE [i \in 1..Len(s) |-> [s[i] EXCEPT !.at = c + f + @]]
        <4> DEFINE E(c) == MinOf(L[n], total - c)
        <4> DEFINE F(c) == MaxOf(0 - c, 0)
        <4>1. VisitPart(fs, n, L, 0, total, TRUE)
                = Seen(Before(L, n), E(Before(L, n)), F(Before(L, n)),
                       Found(E(Before(L, n)), Cut(E(Before(L, n)), F(Before(L, n)))))
          BY Zenon DEF VisitPart
        <4>2. E(b) = end /\ F(b) = from
          BY <3>1, Zenon
        <4>3. Found(end, Cut(end, from)) = found
          BY <3>3, <3>8, Zenon
        <4> HIDE DEF Cut, Found, Seen, E, F
        <4>4. w = Seen(b, end, from, found)
          BY <2>2, <2>13, <4>1, <4>2, <4>3, Zenon
        <4> QED
          BY <4>4, Zenon DEF Seen
      <3>10. n \in DOMAIN L
        BY <1>2, <1>4, Zenon
      <3>11. w = IF b >= total \/ 0 >= l THEN <<>>
                 ELSE [i \in 1..Len(lines) |-> [lines[i] EXCEPT !.at = b + 0 + @]]
        BY <3>2, <3>6, <3>9, <3>10, Zenon
      <3> QED
        BY <2>10, <3>11, Zenon
    <2>15. PartLines(fs, n) = [i \in 1..m |-> Moved(lines[i], b + lines[i].at)]
      BY <1>1, <1>4, <2>1, <2>2, <2>8, <2>10, Zenon DEF PartLines
    <2>16. CASE l = 0
      <3>1. bytes = <<>>
        <4>1. <<>> \in Seq(ByteSet(Len(steps))) /\ Len(<<>>) = 0
          BY EmptySeq
        <4>2. Len(bytes) = Len(<<>>) /\ \A i \in 1..Len(bytes) : bytes[i] = <<>>[i]
          BY <2>2, <2>16, <4>1
        <4> QED
          BY <2>6, <4>1, <4>2, SeqEqual
      <3>2. lines = <<>>
        BY <2>8, <3>1, NoLines
      <3>3. m = 0
        BY <2>10, <3>2
      <3>4. PartLines(fs, n) = <<>>
        BY <2>15, <3>3
      <3>5. w = <<>>
        BY <2>14, <2>16
      <3> QED
        BY <1>1, <2>2, <2>13, <3>4, <3>5
    <2>17. CASE l # 0
      <3>1. ~(b >= total \/ 0 >= l)
        BY <2>3, <2>17
      <3>2. \A i \in 1..m : b + 0 + lines[i].at = b + lines[i].at
        <4>1. ASSUME NEW i \in 1..m PROVE b + 0 + lines[i].at = b + lines[i].at
          OBVIOUS
        <4> QED
          BY <4>1
      <3>3. w = [i \in 1..m |-> [lines[i] EXCEPT !.at = b + 0 + @]]
        BY <2>14, <3>1, Zenon
      <3>4. w = PartLines(fs, n)
        BY <2>15, <3>2, <3>3, Zenon DEF Moved
      <3> QED
        BY <1>1, <2>2, <2>13, <3>4
    <2> QED
      BY <2>16, <2>17
  <1> QED
    BY <1>3, <1>4

Visits(fs) ==
    CHOOSE f : f = [n \in Nat |->
      IF n = 0 THEN <<>>
      ELSE f[n - 1] \o VisitPart(fs, n - 1, LengthsOf(fs), 0, Total(LengthsOf(fs)), TRUE)]

\* The lines of the parts before one.
Listed(v, fs) ==
    /\ \A n \in Nat : v[n] \in Seq(LineSet(Len(steps))) /\ v[n + 1] = v[n] \o PartLines(fs, n)
    /\ v[0] = <<>> /\ LinesOf(fs) = v[LastOf(DOMAIN fs) + 1]

LEMMA VisitIs ==
  ASSUME steps \in Seq(Steps), NEW fs, Parted(fs, Len(steps))
  PROVE  \E v : Listed(v, fs)
  <1>1. PICK S : S = Seq(LineSet(Len(steps)))
    OBVIOUS
  <1>2. PICK part : part = [n \in Nat |-> PartLines(fs, n)]
    OBVIOUS
  <1>3. part \in [Nat -> S] /\ \A n \in Nat : part[n] = PartLines(fs, n)
    BY <1>1, <1>2, PartLinesType
  <1>4. PICK G : G = [p \in Nat \X S |-> p[2] \o part[p[1]]]
    OBVIOUS
  <1>5. /\ G \in [Nat \X S -> S]
        /\ \A i \in Nat, x \in S : G[<<i, x>>] = x \o part[i]
    <2>1. ASSUME NEW i \in Nat, NEW x \in S
          PROVE  G[<<i, x>>] = x \o part[i] /\ G[<<i, x>>] \in S
      <3>1. x \o part[i] \in S
        BY <1>1, <1>3, ConcatProperties
      <3> QED
        BY <1>4, <3>1
    <2> QED
      BY <1>4, <2>1
  <1>6. PICK e \in S : e = <<>>
    BY <1>1, EmptySeq
  <1>7. PICK f : Iterates(f, S, e, G)
    BY <1>5, <1>6, Recursion
  <1>8. \A n \in Nat : f[n] \in S /\ f[n + 1] = f[n] \o part[n]
    BY <1>5, <1>7 DEF Iterates
  <1>9. PICK vp : vp = [n \in Nat |-> VisitPart(fs, n, LengthsOf(fs), 0, Total(LengthsOf(fs)), TRUE)]
    OBVIOUS
  <1>10. \A n \in Nat : vp[n] = part[n]
    BY <1>3, <1>9, WholePart
  <1>11. PICK g : g = [n \in Nat |-> IF n = 0 THEN <<>> ELSE f[n - 1] \o
             VisitPart(fs, n - 1, LengthsOf(fs), 0, Total(LengthsOf(fs)), TRUE)]
    OBVIOUS
  <1>12. ASSUME NEW n \in Nat PROVE f[n] = g[n]
    <2>1. CASE n = 0
      BY <1>6, <1>7, <1>11, <2>1 DEF Iterates
    <2>2. CASE n # 0
      <3>1. PICK k \in Nat : k = n - 1 /\ n = k + 1
        BY <2>2
      <3>2. g[n] = f[k] \o VisitPart(fs, k, LengthsOf(fs), 0, Total(LengthsOf(fs)), TRUE)
        BY <1>11, <2>2, <3>1, Zenon
      <3>3. VisitPart(fs, k, LengthsOf(fs), 0, Total(LengthsOf(fs)), TRUE) = part[k]
        BY <1>9, <1>10, <3>1, Zenon
      <3>4. f[k + 1] = f[k] \o part[k]
        BY <1>8, <3>1
      <3> QED
        BY <3>1, <3>2, <3>3, <3>4, Zenon
    <2> QED
      BY <2>1, <2>2
  <1>13. f = g
    BY <1>7, <1>11, <1>12 DEF Iterates
  <1>14. PICK v : v = Visits(fs)
    OBVIOUS
  <1>15. v = [n \in Nat |-> IF n = 0 THEN <<>> ELSE v[n - 1] \o
             VisitPart(fs, n - 1, LengthsOf(fs), 0, Total(LengthsOf(fs)), TRUE)]
    <2>1. f = [n \in Nat |-> IF n = 0 THEN <<>> ELSE f[n - 1] \o
             VisitPart(fs, n - 1, LengthsOf(fs), 0, Total(LengthsOf(fs)), TRUE)]
      BY <1>11, <1>13, Zenon
    <2> QED
      BY <1>14, <2>1, Zenon DEF Visits
  <1>16. v[0] = <<>>
    BY <1>15, Zenon
  <1>17. ASSUME NEW n \in Nat PROVE v[n + 1] = v[n] \o part[n]
    <2>1. PICK k \in Nat : k = n + 1 /\ k # 0 /\ k - 1 = n
      OBVIOUS
    <2>2. v[k] = v[k - 1] \o VisitPart(fs, k - 1, LengthsOf(fs), 0, Total(LengthsOf(fs)), TRUE)
      BY <1>15, <2>1, Zenon
    <2>3. VisitPart(fs, n, LengthsOf(fs), 0, Total(LengthsOf(fs)), TRUE) = part[n]
      BY <1>9, <1>10, Zenon
    <2> QED
      BY <2>1, <2>2, <2>3, Zenon
  <1>18. \A n \in Nat : v[n] \in S
    <2> DEFINE T == {n \in Nat : v[n] \in S}
    <2>1. 0 \in T
      BY <1>6, <1>16
    <2>2. ASSUME NEW n \in Nat, n \in T PROVE n + 1 \in T
      <3>1. v[n] \in S /\ part[n] \in S
        BY <1>3, <2>2
      <3>2. v[n] \o part[n] \in S
        BY <1>1, <3>1, ConcatProperties
      <3>3. v[n + 1] \in S
        BY <1>17, <3>2
      <3> QED
        BY <3>3
    <2>3. Nat \subseteq T
      <3> HIDE DEF T
      <3> QED
        BY <2>1, <2>2, Inductive
    <2> QED
      BY <2>3
  <1>19. DOMAIN LengthsOf(fs) = DOMAIN fs
    BY LengthsAre
  <1>20. LinesOf(fs) = v[LastOf(DOMAIN fs) + 1]
    BY <1>14, <1>19, Zenon DEF LinesOf, Visit, Visits
  <1>21. Listed(v, fs)
    BY <1>1, <1>3, <1>16, <1>17, <1>18, <1>20 DEF Listed
  <1> QED
    BY <1>21

LEMMA LinesOfType ==
  ASSUME steps \in Seq(Steps), NEW fs, Parted(fs, Len(steps))
  PROVE  LinesOf(fs) \in Seq(LineSet(Len(steps)))
  <1>1. PICK v : Listed(v, fs)
    BY VisitIs
  <1>2. PICK top \in Nat : DOMAIN fs \subseteq 0..top
    BY DEF Parted
  <1>3. LastOf(DOMAIN fs) \in 0..top
    BY <1>2, LastIs
  <1>4. LastOf(DOMAIN fs) + 1 \in Nat
    BY <1>3
  <1> QED
    BY <1>1, <1>4 DEF Listed

LEMMA RowsOfType ==
  ASSUME steps \in Seq(Steps), NEW fs, Parted(fs, Len(steps))
  PROVE  RowsOf(fs) \in Seq(1..Len(steps))
  <1>1. PICK lines : lines = LinesOf(fs)
    OBVIOUS
  <1>2. lines \in Seq(LineSet(Len(steps)))
    BY <1>1, LinesOfType
  <1>3. PICK P : P = {i \in 1..Len(lines) : lines[i].whole /\ lines[i].step # NoStep}
    OBVIOUS
  <1>4. PICK kept : kept = Pick(lines, P)
    OBVIOUS
  <1>5. kept \in Seq(LineSet(Len(steps)))
    <2>1. P \subseteq 1..Len(lines)
      BY <1>3
    <2> QED
      BY <1>2, <1>4, <2>1, PickType
  <1>6. RowsOf(fs) = [i \in 1..Len(kept) |-> kept[i].row]
    BY <1>1, <1>3, <1>4, Zenon DEF RowsOf
  <1>7. ASSUME NEW i \in 1..Len(kept) PROVE kept[i].row \in 1..Len(steps)
    <2>1. kept[i] \in LineSet(Len(steps))
      BY <1>5, ElementOfSeq
    <2> QED
      BY <2>1 DEF LineSet
  <1>8. Len(kept) \in Nat
    BY <1>5
  <1> QED
    BY <1>6, <1>7, <1>8

\* Parts before the last one hold whole lines.
LEMMA WholeBefore ==
  ASSUME NEW fs, NEW n, Parted(fs, n), NEW rows, Spells(fs, rows),
         NEW p \in Nat, p <= LastOf(DOMAIN fs)
  PROVE  \E off \in Nat : Before(LengthsOf(fs), p) = LineBytes * off
  <1>1. PICK L : L = LengthsOf(fs)
    OBVIOUS
  <1>2. PICK top \in Nat : DOMAIN fs \subseteq 0..top
    BY DEF Parted
  <1>3. PICK last \in Nat : last = LastOf(DOMAIN fs)
    BY <1>2, LastIs
  <1>4. /\ Before(L, 0) = 0
        /\ \A i \in Nat : Before(L, i) \in Nat /\ Before(L, i + 1) = Before(L, i) + LengthIn(L, i)
    BY <1>1, LengthsAre, BeforeIs
  <1> DEFINE T == {i \in Nat : i <= last => \E off \in Nat : Before(L, i) = 3 * off}
  <1>5. 0 \in T
    <2>1. Before(L, 0) = 3 * 0
      BY <1>4
    <2> QED
      BY <2>1
  <1>6. ASSUME NEW i \in Nat, i \in T PROVE i + 1 \in T
    <2>1. SUFFICES ASSUME i + 1 <= last PROVE \E off \in Nat : Before(L, i + 1) = 3 * off
      OBVIOUS
    <2>2. PICK off \in Nat : Before(L, i) = 3 * off
      BY <1>6, <2>1
    <2>3. PICK len \in Nat : len = LengthIn(L, i) /\ len % 3 = 0
      <3>1. CASE i \in DOMAIN fs
        <4>1. LengthIn(L, i) = Len(fs[i])
          BY <1>1, <3>1, LengthsAre DEF ContentsIn
        <4>2. Len(fs[i]) % 3 = 0 /\ Len(fs[i]) \in Nat
          BY <1>3, <2>1, <3>1, LengthsAre DEF Spells, LineBytes
        <4> QED
          BY <4>1, <4>2
      <3>2. CASE i \notin DOMAIN fs
        <4>1. LengthIn(L, i) = 0
          BY <1>1, <3>2, LengthsAre DEF LengthIn
        <4> QED
          BY <4>1
      <3> QED
        BY <3>1, <3>2
    <2>4. PICK m \in Nat : len = 3 * m
      BY <2>3
    <2>5. Before(L, i + 1) = Before(L, i) + LengthIn(L, i)
      BY <1>4
    <2>6. PICK k \in Nat : k = off + m
      OBVIOUS
    <2>7. Before(L, i + 1) = 3 * k
      BY <2>2, <2>3, <2>4, <2>5, <2>6
    <2> QED
      BY <2>7
  <1>7. Nat \subseteq T
    <2> HIDE DEF T
    <2> QED
      BY <1>5, <1>6, Inductive
  <1> QED
    BY <1>1, <1>3, <1>7 DEF LineBytes

\* The number of lines of so many bytes.
LEMMA LineCount ==
  ASSUME NEW len \in Nat
  PROVE  \E num \in Nat : /\ len <= LineBytes * num /\ LineBytes * num < len + LineBytes
                          /\ len % LineBytes = 0 => len = LineBytes * num
  <1>1. PICK num \in Nat : num = (len + 2) \div 3
    OBVIOUS
  <1>2. len <= 3 * num /\ 3 * num < len + 3 /\ (len % 3 = 0 => len = 3 * num)
    BY <1>1
  <1> QED
    BY <1>2 DEF LineBytes

\* A part in the log: its first line, its lines, and where it ends.
Lies(fs, n, off, num, total) ==
    /\ off \in Nat /\ num \in Nat /\ total \in Nat
    /\ Before(LengthsOf(fs), n) = LineBytes * off
    /\ Len(fs[n]) <= LineBytes * num /\ LineBytes * num < Len(fs[n]) + LineBytes
    /\ Before(LengthsOf(fs), n + 1) = LineBytes * off + Len(fs[n])
    /\ total = Total(LengthsOf(fs)) /\ LineBytes * off + Len(fs[n]) <= total
    /\ IF n = LastOf(DOMAIN fs) THEN LineBytes * off + Len(fs[n]) = total
                                ELSE Len(fs[n]) = LineBytes * num

LEMMA PartLies ==
  ASSUME NEW fs, NEW k, Parted(fs, k), NEW rows \in Seq(1..k), Spells(fs, rows),
         NEW n \in DOMAIN fs
  PROVE  \E off, num, total : Lies(fs, n, off, num, total) /\ off + num <= Len(rows)
  <1>1. PICK L : L = LengthsOf(fs)
    OBVIOUS
  <1>2. /\ n \in Nat /\ Total(L) \in Nat /\ LastOf(DOMAIN fs) \in Nat /\ n <= LastOf(DOMAIN fs)
        /\ Before(L, n) + Len(fs[n]) <= Total(L) /\ Len(fs[n]) \in Nat
        /\ n = LastOf(DOMAIN fs) => Before(L, n) + Len(fs[n]) = Total(L)
    BY <1>1, PartFits, LengthsAre
  <1>3. PICK off \in Nat : Before(L, n) = 3 * off
    BY <1>1, <1>2, WholeBefore DEF LineBytes
  <1>4. PICK len, total \in Nat : len = Len(fs[n]) /\ total = Total(L)
    BY <1>2
  <1>5. PICK num \in Nat : len <= 3 * num /\ 3 * num < len + 3 /\ (len % 3 = 0 => len = 3 * num)
    BY LineCount DEF LineBytes
  <1>6. Before(L, n + 1) = 3 * off + len
    <2>1. LengthIn(L, n) = len
      BY <1>1, <1>4, LengthsAre DEF ContentsIn
    <2>2. Before(L, n + 1) = Before(L, n) + LengthIn(L, n)
      BY <1>1, <1>2, LengthsAre, BeforeIs
    <2> QED
      BY <1>3, <2>1, <2>2
  <1>7. IF n = LastOf(DOMAIN fs) THEN 3 * off + len = total ELSE len = 3 * num
    <2>1. n # LastOf(DOMAIN fs) => len % 3 = 0
      BY <1>4 DEF Spells, LineBytes
    <2> QED
      BY <1>2, <1>3, <1>4, <1>5, <2>1
  <1>8. 3 * off + len <= total
    BY <1>2, <1>3, <1>4
  <1>9. Lies(fs, n, off, num, total)
    BY <1>1, <1>3, <1>4, <1>5, <1>6, <1>7, <1>8 DEF Lies, LineBytes
  <1>10. PICK m \in Nat : m = Len(rows)
    OBVIOUS
  <1>11. total <= 3 * m
    BY <1>1, <1>4, <1>10 DEF Spells, LineBytes
  <1>12. off + num <= m
    BY <1>5, <1>8, <1>11
  <1> QED
    BY <1>9, <1>10, <1>12

\* The lines of a part, in the log it is a part of.
LEMMA PartLinesAre ==
  ASSUME steps \in Seq(Steps), NEW fs, Parted(fs, Len(steps)),
         NEW rows \in Seq(1..Len(steps)), Spells(fs, rows), NEW n \in DOMAIN fs,
         NEW off, NEW num, NEW total, Lies(fs, n, off, num, total), off + num <= Len(rows)
  PROVE  PartLines(fs, n) = [k \in 1..num |-> LineAt(rows, off + k, total)]
  <1>1. PICK bytes : bytes = fs[n]
    OBVIOUS
  <1>2. bytes \in Seq(ByteSet(Len(steps)))
    BY <1>1 DEF Parted
  <1>3. PICK len \in Nat : len = Len(bytes)
    BY <1>2
  <1>4. /\ off \in Nat /\ num \in Nat /\ total \in Nat /\ Before(LengthsOf(fs), n) = 3 * off
        /\ len <= 3 * num /\ 3 * num < len + 3 /\ 3 * off + len <= total
        /\ IF n = LastOf(DOMAIN fs) THEN 3 * off + len = total ELSE len = 3 * num
    BY <1>1, <1>3 DEF Lies, LineBytes
  <1>5. \A i \in 1..Len(bytes) : bytes[i] = ByteOf(rows, LineBytes * off + i)
    BY <1>1, <1>4 DEF Spells, LineBytes
  <1>6. PICK lines : lines = LinesIn(bytes)
    OBVIOUS
  <1>7. lines = [k \in 1..num |-> Moved(LineAt(rows, off + k, LineBytes * off + Len(bytes)),
                                        LineBytes * (k - 1))]
    <2>1. Len(bytes) <= LineBytes * num /\ LineBytes * num < Len(bytes) + LineBytes
      BY <1>3, <1>4 DEF LineBytes
    <2> QED
      BY <1>2, <1>4, <1>5, <1>6, <2>1, LinesAre
  <1>8. Len(lines) = num
    BY <1>4, <1>7
  <1>9. PartLines(fs, n) = [k \in 1..num |-> Moved(lines[k], LineBytes * off + lines[k].at)]
    <2>1. Before(LengthsOf(fs), n) = LineBytes * off
      BY <1>4 DEF LineBytes
    <2> QED
      BY <1>1, <1>6, <1>8, <2>1, Zenon DEF PartLines
  <1>10. ASSUME NEW k \in 1..num
         PROVE  Moved(lines[k], LineBytes * off + lines[k].at) = LineAt(rows, off + k, total)
    <2>1. PICK g, here \in Nat : g = off + k /\ here = 3 * off + len
      BY <1>4
    <2>2. lines[k] = Moved(LineAt(rows, g, here), LineBytes * (k - 1))
      BY <1>3, <1>7, <2>1 DEF LineBytes
    <2>3. PICK p, q, r, s, b : p = LineBytes * (k - 1) /\ q = LineBytes * (g - 1) /\ r = rows[g]
            /\ s = (IF LineBytes * g - 1 <= here THEN steps[rows[g]] ELSE NoStep)
            /\ b = (LineBytes * g <= here)
      OBVIOUS
    <2>4. LineAt(rows, g, here) = Line(q, r, s, b)
      BY <2>3, Zenon DEF LineAt, Line
    <2>5. lines[k] = Line(p, r, s, b)
      <3>1. Moved(Line(q, r, s, b), p) = Line(p, r, s, b)
        BY MovedIs
      <3> QED
        BY <2>2, <2>3, <2>4, <3>1, Zenon
    <2>6. lines[k].at = p
      BY <2>5 DEF Line
    <2>7. LineBytes * off + p = q
      BY <1>4, <2>1, <2>3 DEF LineBytes
    <2>8. Moved(lines[k], LineBytes * off + lines[k].at) = Line(q, r, s, b)
      <3>1. Moved(Line(p, r, s, b), q) = Line(q, r, s, b)
        BY MovedIs
      <3> QED
        BY <2>5, <2>6, <2>7, <3>1, Zenon
    <2>9. LineAt(rows, g, total) = LineAt(rows, g, here)
      <3>1. CASE n = LastOf(DOMAIN fs)
        BY <1>4, <2>1, <3>1
      <3>2. CASE n # LastOf(DOMAIN fs)
        <4>1. 3 * g <= here /\ 3 * g <= total /\ 3 * g - 1 <= here /\ 3 * g - 1 <= total
          BY <1>4, <2>1, <3>2
        <4>2. (LineBytes * g <= here) = TRUE /\ (LineBytes * g <= total) = TRUE
              /\ LineBytes * g - 1 <= here /\ LineBytes * g - 1 <= total
          BY <4>1 DEF LineBytes
        <4> QED
          BY <4>2, Zenon DEF LineAt
      <3> QED
        BY <3>1, <3>2
    <2> QED
      BY <2>1, <2>4, <2>8, <2>9, Zenon
  <1> QED
    BY <1>9, <1>10, Zenon

\* Reading all the parts reads the lines of the records they spell.
LEMMA LinesOfSpelled ==
  ASSUME steps \in Seq(Steps), NEW fs, Parted(fs, Len(steps)),
         NEW rows \in Seq(1..Len(steps)), Spells(fs, rows)
  PROVE  /\ LinesOf(fs) = [k \in 1..Len(rows) |-> LineAt(rows, k, Total(LengthsOf(fs)))]
         /\ Total(LengthsOf(fs)) \in Nat
  <1>1. PICK v : Listed(v, fs)
    BY VisitIs
  <1>2. PICK L : L = LengthsOf(fs)
    OBVIOUS
  <1>3. PICK top \in Nat : DOMAIN fs \subseteq 0..top
    BY DEF Parted
  <1>4. PICK last \in Nat : last = LastOf(DOMAIN fs) /\ \A n \in DOMAIN fs : n <= last
    BY <1>3, LastIs
  <1>5. Measured(L) /\ DOMAIN L = DOMAIN fs
    BY <1>2, LengthsAre
  <1>6. PICK total \in Nat : total = Total(L) /\ total = Before(L, last + 1)
    <2>1. \A n \in DOMAIN L : n < last + 1
      BY <1>3, <1>4, <1>5
    <2> QED
      BY <1>5, <2>1, TotalIs
  <1>7. PICK len \in Nat : len = Len(rows)
    OBVIOUS
  <1>8. total <= 3 * len /\ 3 * len < total + 3
    BY <1>2, <1>6, <1>7 DEF Spells, LineBytes
  <1>9. PICK S : S = LineSet(Len(steps))
    OBVIOUS
  <1>10. /\ v[0] = <<>> /\ LinesOf(fs) = v[last + 1]
         /\ \A n \in Nat : v[n] \in Seq(S) /\ v[n + 1] = v[n] \o PartLines(fs, n)
    BY <1>1, <1>4, <1>9 DEF Listed
  <1> DEFINE Some(n, m) == /\ m \in 0..len /\ Before(L, n) <= 3 * m /\ 3 * m < Before(L, n) + 3
                           /\ n <= last => Before(L, n) = 3 * m
                           /\ v[n] = [k \in 1..m |-> LineAt(rows, k, total)]
             T == {n \in Nat : n <= last + 1 => \E m \in Nat : Some(n, m)}
  <1> HIDE DEF Some
  <1>11. 0 \in T
    <2>1. Before(L, 0) = 0
      BY <1>5, BeforeIs
    <2>2. v[0] = [k \in 1..0 |-> LineAt(rows, k, total)]
      BY <1>10
    <2>3. Some(0, 0)
      BY <2>1, <2>2 DEF Some
    <2> QED
      BY <2>3
  <1>12. ASSUME NEW n \in Nat, n \in T PROVE n + 1 \in T
    <2>1. SUFFICES ASSUME n + 1 <= last + 1 PROVE \E m \in Nat : Some(n + 1, m)
      OBVIOUS
    <2>2. PICK m \in Nat : Some(n, m)
      BY <1>12, <2>1
    <2>3. /\ m \in 0..len /\ Before(L, n) = 3 * m
          /\ v[n] = [k \in 1..m |-> LineAt(rows, k, total)]
      BY <2>1, <2>2 DEF Some
    <2>4. CASE n \in DOMAIN fs
      <3>1. PICK off, num, whole : Lies(fs, n, off, num, whole) /\ off + num <= len
        BY <1>7, <2>4, PartLies
      <3>2. off = m /\ whole = total /\ num \in Nat
        <4>1. /\ off \in Nat /\ num \in Nat /\ whole = Total(L)
              /\ Before(L, n) = 3 * off
          BY <1>2, <3>1 DEF Lies, LineBytes
        <4>2. 3 * off = 3 * m
          BY <2>3, <4>1
        <4>3. \A x, y \in Nat : 3 * x = 3 * y => x = y
          OBVIOUS
        <4>4. off = m
          BY <4>1, <4>2, <4>3, Zenon
        <4> QED
          BY <1>6, <4>1, <4>4, Zenon
      <3>3. PICK w : w = PartLines(fs, n)
        OBVIOUS
      <3>4. w = [k \in 1..num |-> LineAt(rows, m + k, total)]
        <4>1. Lies(fs, n, m, num, total) /\ m + num <= Len(rows)
          BY <1>7, <3>1, <3>2, Zenon
        <4>2. PartLines(fs, n) = [k \in 1..num |-> LineAt(rows, m + k, total)]
          BY <2>4, <4>1, PartLinesAre
        <4> QED
          BY <3>3, <4>2, Zenon
      <3>5. w \in Seq(S) /\ Len(w) = num
        <4>1. w \in Seq(S)
          BY <1>9, <3>3, PartLinesType
        <4>2. DOMAIN w = 1..num
          BY <3>4
        <4> QED
          BY <3>2, <4>1, <4>2, LenProperties
      <3>6. v[n] \in Seq(S) /\ Len(v[n]) = m
        <4>1. v[n] \in Seq(S) /\ DOMAIN v[n] = 1..m
          BY <1>10, <2>3, Zenon
        <4> QED
          BY <4>1, LenProperties
      <3>7. PICK b : b = v[n] \o w
        OBVIOUS
      <3>8. /\ b \in Seq(S) /\ Len(b) = m + num
            /\ \A i \in 1..(m + num) : b[i] = IF i <= m THEN v[n][i] ELSE w[i - m]
        BY <3>5, <3>6, <3>7, ConcatProperties
      <3>9. \A i \in 1..(m + num) : b[i] = LineAt(rows, i, total)
        <4>1. ASSUME NEW i \in 1..(m + num) PROVE b[i] = LineAt(rows, i, total)
          <5>1. CASE i <= m
            <6>1. i \in 1..m /\ b[i] = v[n][i]
              BY <3>8, <5>1
            <6> QED
              BY <2>3, <6>1, Zenon
          <5>2. CASE ~(i <= m)
            <6>1. PICK k \in 1..num : k = i - m /\ m + k = i
              BY <3>2, <5>2
            <6>2. b[i] = w[k]
              BY <3>8, <5>2, <6>1
            <6> QED
              BY <3>4, <6>1, <6>2, Zenon
          <5> QED
            BY <5>1, <5>2
        <4> QED
          BY <4>1
      <3>10. b = [i \in 1..(m + num) |-> LineAt(rows, i, total)]
        <4>1. b \in [1..(m + num) -> S]
          BY <3>8, LenProperties, Zenon
        <4> QED
          BY <3>9, <4>1
      <3>11. PICK here \in Nat : here = Len(fs[n])
        BY <2>4, LengthsAre
      <3>12. /\ Before(L, n + 1) = 3 * m + here /\ here <= 3 * num /\ 3 * num < here + 3
             /\ IF n = last THEN TRUE ELSE here = 3 * num
        BY <1>2, <1>4, <3>1, <3>2, <3>11 DEF Lies, LineBytes
      <3>13. m + num \in 0..len /\ 3 * (m + num) < (3 * m + here) + 3 /\ 3 * m + here <= 3 * (m + num)
        <4>1. m + num <= len
          BY <3>1, <3>2
        <4>2. here <= 3 * num /\ 3 * num < here + 3
          BY <3>12
        <4> QED
          BY <3>2, <4>1, <4>2
      <3>14. n + 1 <= last => 3 * m + here = 3 * (m + num)
        BY <3>2, <3>12
      <3>15. v[n + 1] = b
        BY <1>10, <3>3, <3>7
      <3>16. Some(n + 1, m + num)
        BY <3>10, <3>12, <3>13, <3>14, <3>15, Zenon DEF Some
      <3> QED
        BY <3>2, <3>16
    <2>5. CASE n \notin DOMAIN fs
      <3>1. PartLines(fs, n) = <<>> /\ LengthIn(L, n) = 0
        BY <1>5, <2>5 DEF PartLines, LengthIn
      <3>2. v[n + 1] = v[n]
        BY <1>10, <3>1, ConcatEmptySeq
      <3>3. Before(L, n + 1) = 3 * m
        BY <1>5, <2>3, <3>1, BeforeIs
      <3>4. Some(n + 1, m)
        <4>1. 3 * m <= 3 * m /\ 3 * m < 3 * m + 3
          OBVIOUS
        <4> QED
          BY <2>3, <3>2, <3>3, <4>1, Zenon DEF Some
      <3> QED
        BY <3>4
    <2> QED
      BY <2>4, <2>5
  <1>13. Nat \subseteq T
    <2> HIDE DEF T
    <2> QED
      BY <1>11, <1>12, Inductive
  <1>14. PICK end \in Nat : end = last + 1
    OBVIOUS
  <1>15. PICK m \in Nat : Some(end, m)
    BY <1>13, <1>14
  <1>16. /\ m \in 0..len /\ total <= 3 * m /\ 3 * m < total + 3
         /\ v[end] = [k \in 1..m |-> LineAt(rows, k, total)]
    BY <1>6, <1>14, <1>15 DEF Some
  <1>17. m = len
    BY <1>8, <1>16
  <1> QED
    BY <1>2, <1>6, <1>7, <1>10, <1>14, <1>16, <1>17, Zenon

\* The records of the whole lines.
LEMMA RowsOfSpelled ==
  ASSUME LogAssumption, steps \in Seq(Steps), NEW fs, Parted(fs, Len(steps)),
         NEW rows \in Seq(1..Len(steps)), Spells(fs, rows)
  PROVE  \E w \in 0..Len(rows) :
           /\ RowsOf(fs) = SubSeq(rows, 1, w)
           /\ LineBytes * w <= Total(LengthsOf(fs)) /\ Total(LengthsOf(fs)) < LineBytes * w + LineBytes
  <1>1. PICK len, total \in Nat : len = Len(rows) /\ total = Total(LengthsOf(fs))
    BY LinesOfSpelled
  <1>2. PICK lines : lines = LinesOf(fs)
    OBVIOUS
  <1>3. lines = [k \in 1..len |-> LineAt(rows, k, total)]
    BY <1>1, <1>2, LinesOfSpelled
  <1>4. lines \in Seq(LineSet(Len(steps))) /\ Len(lines) = len
    <2>1. lines \in Seq(LineSet(Len(steps)))
      BY <1>2, LinesOfType
    <2>2. DOMAIN lines = 1..len
      BY <1>3
    <2> QED
      BY <1>1, <2>1, <2>2, LenProperties
  <1>5. total <= 3 * len /\ 3 * len < total + 3
    BY <1>1 DEF Spells, LineBytes
  <1>6. PICK w \in 0..len : 3 * w <= total /\ total < 3 * w + 3
    <2>1. CASE total = 3 * len
      <3>1. len \in 0..len /\ 3 * len <= total /\ total < 3 * len + 3
        BY <2>1
      <3> QED
        BY <3>1
    <2>2. CASE total # 3 * len
      <3>1. PICK u \in 0..len : u = len - 1
        BY <1>5, <2>2
      <3>2. 3 * u <= total /\ total < 3 * u + 3
        BY <1>5, <2>2, <3>1
      <3> QED
        BY <3>2
    <2> QED
      BY <2>1, <2>2
  <1>7. \A i \in 1..len : /\ lines[i].row = rows[i]
                          /\ (lines[i].whole /\ lines[i].step # NoStep) <=> i <= w
    <2>1. ASSUME NEW i \in 1..len
          PROVE  lines[i].row = rows[i] /\ ((lines[i].whole /\ lines[i].step # NoStep) <=> i <= w)
      <3>1. lines[i] = LineAt(rows, i, total)
        BY <1>3
      <3>2. /\ lines[i].row = rows[i]
            /\ lines[i].whole = (LineBytes * i <= total)
            /\ lines[i].step = IF LineBytes * i - 1 <= total THEN steps[rows[i]] ELSE NoStep
        BY <3>1 DEF LineAt
      <3>3. steps[rows[i]] # NoStep
        <4>1. rows[i] \in 1..Len(steps)
          BY <1>1, ElementOfSeq
        <4>2. steps[rows[i]] \in Steps
          BY <4>1, ElementOfSeq
        <4> QED
          BY <4>2 DEF LogAssumption, NoStep
      <3>4. 3 * i <= total <=> i <= w
        BY <1>6
      <3>5. 3 * i <= total => 3 * i - 1 <= total
        OBVIOUS
      <3> QED
        BY <3>2, <3>3, <3>4, <3>5 DEF LineBytes
    <2> QED
      BY <2>1
  <1>8. {i \in 1..Len(lines) : lines[i].whole /\ lines[i].step # NoStep} = 1..w
    <2>1. \A i \in 1..w : i \in 1..len /\ i <= w
      BY <1>6
    <2>2. \A i \in 1..len : i <= w => i \in 1..w
      OBVIOUS
    <2> QED
      BY <1>4, <1>7, <2>1, <2>2, Zenon
  <1>9. PICK kept : kept = SubSeq(lines, 1, w)
    OBVIOUS
  <1>10. kept \in Seq(LineSet(Len(steps))) /\ Len(kept) = w /\ \A i \in 1..w : kept[i] = lines[i]
    <2>1. w \in 0..Len(lines)
      BY <1>4
    <2> QED
      BY <1>4, <1>9, <2>1, CutTo
  <1>11. Pick(lines, 1..w) = kept
    <2>1. w \in 0..Len(lines)
      BY <1>4
    <2> QED
      BY <1>4, <1>9, <2>1, PickFirst
  <1>12. RowsOf(fs) = [i \in 1..w |-> kept[i].row]
    BY <1>2, <1>8, <1>10, <1>11, Zenon DEF RowsOf
  <1>13. PICK a, b : a = RowsOf(fs) /\ b = SubSeq(rows, 1, w)
    OBVIOUS
  <1>14. b \in Seq(1..Len(steps)) /\ Len(b) = w /\ \A i \in 1..w : b[i] = rows[i]
    BY <1>1, <1>13, CutTo
  <1>15. a \in Seq(1..Len(steps)) /\ Len(a) = w
    <2>1. a \in Seq(1..Len(steps))
      BY <1>13, RowsOfType
    <2>2. DOMAIN a = 1..w
      BY <1>12, <1>13
    <2> QED
      BY <2>1, <2>2, LenProperties
  <1>16. \A i \in 1..w : a[i] = rows[i]
    <2>1. ASSUME NEW i \in 1..w PROVE a[i] = rows[i]
      <3>1. a[i] = kept[i].row /\ kept[i] = lines[i] /\ i \in 1..len
        BY <1>10, <1>12, <1>13
      <3> QED
        BY <1>7, <3>1
    <2> QED
      BY <2>1
  <1>17. a = b
    BY <1>14, <1>15, <1>16, SeqEqual
  <1> QED
    BY <1>1, <1>6, <1>13, <1>17 DEF LineBytes

-----------------------------------------------------------------------------
(* What is tracked of the lines                                            *)

\* The fields of a log after a record with a step.
Follows(new, m, step, at) ==
    /\ new.lines = m.lines + 1
    /\ new.sorted = (m.sorted /\ step >= m.last)
    /\ new.dups = (m.dups \/ step = m.last)
    /\ new.last = step /\ new.max = MaxOf(m.max, step)
    /\ \A i \in 1..Len(new.index) :
         \/ new.index[i] = [step |-> step, line |-> m.lines, at |-> at]
         \/ \E j \in 1..Len(m.index) : new.index[i] = m.index[j]

LEMMA Anchoring ==
  ASSUME NEW m \in LogSet, NEW step \in Nat, NEW at \in Nat
  PROVE  LET new == Anchored(m, step, at)
         IN  /\ new \in LogSet /\ new.lines = m.lines /\ new.sorted = m.sorted
             /\ new.dups = m.dups /\ new.last = m.last /\ new.max = m.max
             /\ \A i \in 1..Len(new.index) :
                  \/ new.index[i] = [step |-> step, line |-> m.lines, at |-> at]
                  \/ \E j \in 1..Len(m.index) : new.index[i] = m.index[j]
  <1>1. PICK a : a = [step |-> step, line |-> m.lines, at |-> at]
    OBVIOUS
  <1>2. a \in AnchorSet
    BY <1>1 DEF AnchorSet, LogSet
  <1>3. PICK old : old = m.index
    OBVIOUS
  <1>4. old \in Seq(AnchorSet)
    BY <1>3 DEF LogSet
  <1>5. PICK n \in Nat : n = Len(old)
    BY <1>4
  <1>6. PICK index : index = Append(old, a)
    OBVIOUS
  <1>7. /\ index \in Seq(AnchorSet) /\ Len(index) = n + 1
        /\ \A i \in 1..n : index[i] = old[i]
        /\ index[n + 1] = a
    BY <1>2, <1>4, <1>5, <1>6, AppendProperties
  <1>8. \A i \in 1..(n + 1) : index[i] = a \/ \E j \in 1..n : index[i] = old[j]
    <2>1. ASSUME NEW i \in 1..(n + 1) PROVE index[i] = a \/ \E j \in 1..n : index[i] = old[j]
      <3>1. CASE i = n + 1
        BY <1>7, <3>1
      <3>2. CASE i # n + 1
        BY <1>7, <3>2
      <3> QED
        BY <3>1, <3>2
    <2> QED
      BY <2>1
  <1>9. PICK c \in Nat : c = (Len(index) + 1) \div 2 /\ c >= 1 /\ \A i \in 1..c : 2 * i - 1 \in 1..(n + 1)
    <2>1. PICK c \in Nat : c = ((n + 1) + 1) \div 2
      OBVIOUS
    <2>2. c >= 1 /\ 2 * c <= n + 2
      BY <2>1
    <2>3. \A i \in 1..c : 2 * i - 1 \in 1..(n + 1)
      BY <2>2
    <2> QED
      BY <1>7, <2>1, <2>2, <2>3
  <1>10. PICK kept : kept = [i \in 1..((Len(index) + 1) \div 2) |-> index[2 * i - 1]]
    OBVIOUS
  <1>11. kept \in Seq(AnchorSet) /\ Len(kept) = c /\ \A i \in 1..c : kept[i] = index[2 * i - 1]
    <2>1. kept = [i \in 1..c |-> index[2 * i - 1]]
      BY <1>9, <1>10, Zenon
    <2>2. ASSUME NEW i \in 1..c PROVE index[2 * i - 1] \in AnchorSet
      <3>1. 2 * i - 1 \in 1..Len(index)
        BY <1>7, <1>9
      <3> QED
        BY <1>7, <3>1, ElementOfSeq
    <2> QED
      BY <2>1, <2>2
  <1>12. Last(kept).line \in Nat
    <2>1. kept[c] \in AnchorSet
      BY <1>9, <1>11
    <2>2. Last(kept) = kept[c]
      BY <1>11 DEF Last
    <2> QED
      BY <2>1, <2>2 DEF AnchorSet
  <1>13. PICK every, lines \in Nat : every = m.every /\ lines = m.lines
    BY DEF LogSet
  <1>14. PICK new : new = Anchored(m, step, at)
    OBVIOUS
  <1>15. CASE Len(index) <= MaxAnchors
    <2>0. PICK next \in Nat : next = lines + every
      OBVIOUS
    <2>1. new = [m EXCEPT !.index = index, !.next = next]
      BY <1>1, <1>3, <1>6, <1>13, <1>14, <1>15, <2>0, Zenon DEF Anchored
    <2>2. /\ new \in LogSet /\ new.lines = m.lines /\ new.sorted = m.sorted
          /\ new.dups = m.dups /\ new.last = m.last /\ new.max = m.max /\ new.index = index
      BY <1>7, <2>1 DEF LogSet
    <2> QED
      BY <1>1, <1>3, <1>5, <1>7, <1>8, <1>14, <2>2
  <1>16. CASE ~(Len(index) <= MaxAnchors)
    <2>1. PICK next \in Nat : next = Last(kept).line + 2 * every
      BY <1>12
    <2>2. new = [m EXCEPT !.index = kept, !.every = 2 * @, !.next = next]
      BY <1>1, <1>3, <1>6, <1>10, <1>13, <1>14, <1>16, <2>1, Zenon DEF Anchored
    <2>3. /\ new \in LogSet /\ new.lines = m.lines /\ new.sorted = m.sorted
          /\ new.dups = m.dups /\ new.last = m.last /\ new.max = m.max /\ new.index = kept
      <3>1. 2 * m.every \in Nat
        BY <1>13
      <3> QED
        BY <1>11, <2>2, <3>1 DEF LogSet
    <2>4. \A i \in 1..c : kept[i] = a \/ \E j \in 1..n : kept[i] = old[j]
      BY <1>8, <1>9, <1>11
    <2> QED
      BY <1>1, <1>3, <1>5, <1>11, <1>14, <2>3, <2>4
  <1> QED
    BY <1>15, <1>16

LEMMA TrackIs ==
  ASSUME NEW m \in LogSet, NEW step \in Nat, NEW at \in Nat
  PROVE  /\ Track(m, step, at) \in LogSet
         /\ step # NoStep => Follows(Track(m, step, at), m, step, at)
  <1>1. PICK new : new = Track(m, step, at)
    OBVIOUS
  <1>2. CASE step = NoStep
    <2>1. new = [m EXCEPT !.lines = @ + 1]
      BY <1>1, <1>2, Zenon DEF Track
    <2>2. m.lines + 1 \in Nat
      BY DEF LogSet
    <2>3. new \in LogSet
      BY <2>1, <2>2 DEF LogSet
    <2> QED
      BY <1>1, <1>2, <2>3
  <1>3. CASE step # NoStep
    <2>1. PICK b : b = IF m.lines >= m.next THEN Anchored(m, step, at) ELSE m
      OBVIOUS
    <2>2. /\ b \in LogSet /\ b.lines = m.lines /\ b.sorted = m.sorted
          /\ b.dups = m.dups /\ b.last = m.last /\ b.max = m.max
          /\ \A i \in 1..Len(b.index) :
               \/ b.index[i] = [step |-> step, line |-> m.lines, at |-> at]
               \/ \E j \in 1..Len(m.index) : b.index[i] = m.index[j]
      <3>1. CASE m.lines >= m.next
        <4>1. b = Anchored(m, step, at)
          BY <2>1, <3>1
        <4> QED
          BY <4>1, Anchoring, Zenon
      <3>2. CASE ~(m.lines >= m.next)
        BY <2>1, <3>2
      <3> QED
        BY <3>1, <3>2
    <2>3. new = [b EXCEPT !.sorted = @ /\ step >= m.last, !.dups = @ \/ step = m.last,
                          !.max = MaxOf(@, step), !.last = step, !.lines = @ + 1]
      BY <1>1, <1>3, <2>1, Zenon DEF Track
    <2>4. PICK s, d, x, l : /\ s = (b.sorted /\ step >= m.last) /\ d = (b.dups \/ step = m.last)
                            /\ x = MaxOf(b.max, step) /\ l = b.lines + 1
      OBVIOUS
    <2>5. new = [b EXCEPT !.sorted = s, !.dups = d, !.max = x, !.last = step, !.lines = l]
      BY <2>3, <2>4, Zenon
    <2>6. s \in BOOLEAN /\ d \in BOOLEAN /\ x \in Nat /\ l \in Nat
      BY <2>2, <2>4 DEF LogSet, MaxOf
    <2>7. /\ new \in LogSet /\ new.sorted = s /\ new.dups = d /\ new.max = x /\ new.last = step
          /\ new.lines = l /\ new.index = b.index
      BY <2>2, <2>5, <2>6 DEF LogSet
    <2>8. Follows(new, m, step, at)
      BY <2>2, <2>4, <2>7, Zenon DEF Follows
    <2> QED
      BY <1>1, <1>3, <2>7, <2>8
  <1> QED
    BY <1>2, <1>3

\* Lines that can be tracked.
Tracked(f, m, lines) ==
    /\ \A i \in 0..Len(lines) : f[i] \in LogSet
    /\ f[0] = m /\ TrackAll(m, lines) = f[Len(lines)]
    /\ \A i \in 1..Len(lines) : f[i] = Track(f[i - 1], lines[i].step, lines[i].at)

LEMMA TrackAllIs ==
  ASSUME NEW m \in LogSet, NEW lines, Len(lines) \in Nat,
         \A i \in 1..Len(lines) : lines[i].step \in Nat /\ lines[i].at \in Nat
  PROVE  \E f : Tracked(f, m, lines)
  <1>1. PICK n \in Nat : n = Len(lines)
    OBVIOUS
  <1>2. PICK step, at : step = [i \in 1..n |-> lines[i].step] /\ at = [i \in 1..n |-> lines[i].at]
    OBVIOUS
  <1>3. step \in [1..n -> Nat] /\ at \in [1..n -> Nat]
    BY <1>1, <1>2
  <1>4. PICK G : G = [p \in Nat \X LogSet |-> IF p[1] + 1 \in 1..n
                                              THEN Track(p[2], step[p[1] + 1], at[p[1] + 1]) ELSE p[2]]
    OBVIOUS
  <1>5. /\ G \in [Nat \X LogSet -> LogSet]
        /\ \A i \in Nat, x \in LogSet :
             i + 1 \in 1..n => G[<<i, x>>] = Track(x, step[i + 1], at[i + 1])
    <2>1. ASSUME NEW i \in Nat, NEW x \in LogSet
          PROVE  /\ G[<<i, x>>] \in LogSet
                 /\ i + 1 \in 1..n => G[<<i, x>>] = Track(x, step[i + 1], at[i + 1])
      <3>1. PICK k \in Nat : k = i + 1
        OBVIOUS
      <3>2. G[<<i, x>>] = IF k \in 1..n THEN Track(x, step[k], at[k]) ELSE x
        BY <1>4, <3>1
      <3>3. k \in 1..n => Track(x, step[k], at[k]) \in LogSet
        <4>1. k \in 1..n => step[k] \in Nat /\ at[k] \in Nat
          BY <1>3
        <4> QED
          BY <4>1, TrackIs
      <3> QED
        BY <3>1, <3>2, <3>3, Zenon
    <2> QED
      BY <1>4, <2>1
  <1>6. PICK h : Iterates(h, LogSet, m, G)
    BY <1>5, Recursion
  <1>7. h[0] = m /\ \A i \in Nat : h[i] \in LogSet /\ h[i + 1] = G[<<i, h[i]>>]
    BY <1>6 DEF Iterates
  <1>8. ASSUME NEW i \in 1..n PROVE h[i] = Track(h[i - 1], lines[i].step, lines[i].at)
    <2>1. PICK k \in Nat : k = i - 1 /\ k + 1 = i
      OBVIOUS
    <2>2. h[k + 1] = G[<<k, h[k]>>] /\ h[k] \in LogSet
      BY <1>7
    <2>3. G[<<k, h[k]>>] = Track(h[k], step[k + 1], at[k + 1])
      BY <1>5, <2>1, <2>2
    <2>4. step[i] = lines[i].step /\ at[i] = lines[i].at
      BY <1>2
    <2> QED
      BY <2>1, <2>2, <2>3, <2>4, Zenon
  <1>9. PICK f : f = [i \in 0..n |-> h[i]]
    OBVIOUS
  <1>10. f = [i \in 0..Len(lines) |-> IF i = 0 THEN m ELSE Track(f[i - 1], lines[i].step, lines[i].at)]
    <2>1. ASSUME NEW i \in 0..n
          PROVE  f[i] = IF i = 0 THEN m ELSE Track(f[i - 1], lines[i].step, lines[i].at)
      <3>1. CASE i = 0
        BY <1>7, <1>9, <3>1
      <3>2. CASE i # 0
        <4>1. i \in 1..n /\ i - 1 \in 0..n
          BY <3>2
        <4>2. f[i] = h[i] /\ f[i - 1] = h[i - 1]
          BY <1>9, <4>1
        <4> QED
          BY <1>8, <3>2, <4>1, <4>2, Zenon
      <3> QED
        BY <3>1, <3>2
    <2> QED
      BY <1>1, <1>9, <2>1, Zenon
  <1>11. PICK g : g = CHOOSE s : s = [i \in 0..Len(lines) |->
                            IF i = 0 THEN m ELSE Track(s[i - 1], lines[i].step, lines[i].at)]
    OBVIOUS
  <1>12. g = [i \in 0..n |-> IF i = 0 THEN m ELSE Track(g[i - 1], lines[i].step, lines[i].at)]
    BY <1>1, <1>10, <1>11, Zenon
  <1>13. TrackAll(m, lines) = g[n]
    BY <1>1, <1>11, Zenon DEF TrackAll
  <1>14. g[0] = m
    BY <1>12
  <1>15. ASSUME NEW i \in 1..n PROVE g[i] = Track(g[i - 1], lines[i].step, lines[i].at)
    <2>1. i \in 0..n /\ i # 0
      OBVIOUS
    <2> QED
      BY <1>12, <2>1, Zenon
  <1> DEFINE T == {i \in Nat : i <= n => g[i] \in LogSet}
  <1>16. 0 \in T
    BY <1>14
  <1>17. ASSUME NEW i \in Nat, i \in T PROVE i + 1 \in T
    <2>1. SUFFICES ASSUME i + 1 <= n PROVE g[i + 1] \in LogSet
      OBVIOUS
    <2>2. PICK k \in 1..n : k = i + 1 /\ k - 1 = i
      BY <2>1
    <2>3. g[i] \in LogSet
      BY <1>17, <2>1
    <2>4. Track(g[i], lines[k].step, lines[k].at) \in LogSet
      BY <1>1, <2>3, TrackIs
    <2> QED
      BY <1>15, <2>2, <2>4, Zenon
  <1>18. Nat \subseteq T
    <2> HIDE DEF T
    <2> QED
      BY <1>16, <1>17, Inductive
  <1>19. \A i \in 0..n : g[i] \in LogSet
    BY <1>18
  <1>20. Tracked(g, m, lines)
    BY <1>1, <1>13, <1>14, <1>15, <1>19, Zenon DEF Tracked
  <1> QED
    BY <1>20

Positive == Nat \ {0}

LEMMA FollowDescribes ==
  ASSUME NEW vals \in Seq(Positive), NEW m \in LogSet, Describes(m, vals), NEW step \in Positive,
         NEW new \in LogSet, Follows(new, m, step, LineBytes * Len(vals))
  PROVE  Describes(new, Append(vals, step))
  <1>1. PICK n \in Nat : n = Len(vals)
    OBVIOUS
  <1>2. PICK more : more = Append(vals, step)
    OBVIOUS
  <1>3. /\ Len(more) = n + 1 /\ more[n + 1] = step
        /\ \A i \in 1..n : more[i] = vals[i] /\ vals[i] \in Nat /\ vals[i] > 0
    <2>1. /\ more \in Seq(Positive) /\ Len(more) = n + 1 /\ more[n + 1] = step
          /\ \A i \in 1..n : more[i] = vals[i]
      BY <1>1, <1>2, AppendProperties
    <2>2. \A i \in 1..n : vals[i] \in Positive
      BY <1>1
    <2> QED
      BY <2>1, <2>2 DEF Positive
  <1>4. step \in Nat /\ step > 0
    BY DEF Positive
  <1>5. new.lines = n + 1
    BY <1>1 DEF Follows, Describes
  <1>6. PICK last \in Nat : last = m.last /\ last = IF n = 0 THEN 0 ELSE vals[n]
    <2>1. m.last \in Nat
      BY DEF LogSet
    <2> QED
      BY <1>1, <2>1, Zenon DEF Describes, NoStep
  <1>7. new.sorted = (\A i \in 2..(n + 1) : more[i - 1] <= more[i])
    <2>1. new.sorted = (m.sorted /\ step >= last)
      BY <1>6 DEF Follows
    <2>2. m.sorted = \A i \in 2..n : vals[i - 1] <= vals[i]
      BY <1>1 DEF Describes
    <2>3. ASSUME \A i \in 2..n : vals[i - 1] <= vals[i], step >= last, NEW i \in 2..(n + 1)
          PROVE  more[i - 1] <= more[i]
      <3>1. CASE i = n + 1
        <4>1. i - 1 \in 1..n /\ i - 1 = n /\ n # 0
          BY <3>1
        <4> QED
          BY <1>3, <1>6, <2>3, <3>1, <4>1
      <3>2. CASE i # n + 1
        <4>1. i \in 2..n /\ i - 1 \in 1..n /\ i \in 1..n
          BY <3>2
        <4> QED
          BY <1>3, <2>3, <4>1
      <3> QED
        BY <3>1, <3>2
    <2>4. ASSUME \A i \in 2..(n + 1) : more[i - 1] <= more[i]
          PROVE  step >= last /\ \A i \in 2..n : vals[i - 1] <= vals[i]
      <3>1. ASSUME NEW i \in 2..n PROVE vals[i - 1] <= vals[i]
        <4>1. i \in 2..(n + 1) /\ i - 1 \in 1..n /\ i \in 1..n
          OBVIOUS
        <4> QED
          BY <1>3, <2>4, <4>1
      <3>2. step >= last
        <4>1. CASE n = 0
          BY <1>4, <1>6, <4>1
        <4>2. CASE n # 0
          <5>1. PICK k \in 2..(n + 1) : k = n + 1 /\ k - 1 = n /\ n \in 1..n
            BY <4>2
          <5>2. more[k - 1] <= more[k]
            BY <2>4
          <5> QED
            BY <1>3, <1>4, <1>6, <4>2, <5>1, <5>2
        <4> QED
          BY <4>1, <4>2
      <3> QED
        BY <3>1, <3>2
    <2>5. (m.sorted /\ step >= last) <=> \A i \in 2..(n + 1) : more[i - 1] <= more[i]
      BY <2>2, <2>3, <2>4
    <2>6. new.sorted \in BOOLEAN
      BY DEF LogSet
    <2> QED
      BY <2>1, <2>5, <2>6, Zenon
  <1>8. new.dups = (\E i \in 2..(n + 1) : more[i - 1] = more[i])
    <2>1. new.dups = (m.dups \/ step = last)
      BY <1>6 DEF Follows
    <2>2. m.dups = \E i \in 2..n : vals[i - 1] = vals[i]
      BY <1>1 DEF Describes
    <2>3. ASSUME NEW i \in 2..n, vals[i - 1] = vals[i]
          PROVE  \E j \in 2..(n + 1) : more[j - 1] = more[j]
      <3>1. i \in 2..(n + 1) /\ i - 1 \in 1..n /\ i \in 1..n
        OBVIOUS
      <3>2. more[i - 1] = more[i]
        BY <1>3, <2>3, <3>1
      <3> QED
        BY <3>1, <3>2
    <2>4. ASSUME step = last PROVE \E j \in 2..(n + 1) : more[j - 1] = more[j]
      <3>1. n # 0
        BY <1>4, <1>6, <2>4
      <3>2. n + 1 \in 2..(n + 1) /\ (n + 1) - 1 = n /\ n \in 1..n
        BY <3>1
      <3>3. more[(n + 1) - 1] = more[n + 1]
        BY <1>3, <1>6, <2>4, <3>1, <3>2
      <3> QED
        BY <3>2, <3>3
    <2>5. ASSUME NEW j \in 2..(n + 1), more[j - 1] = more[j]
          PROVE  step = last \/ \E i \in 2..n : vals[i - 1] = vals[i]
      <3>1. CASE j = n + 1
        <4>1. j - 1 = n /\ n \in 1..n /\ n # 0
          BY <3>1
        <4> QED
          BY <1>3, <1>6, <2>5, <3>1, <4>1
      <3>2. CASE j # n + 1
        <4>1. j \in 2..n /\ j - 1 \in 1..n /\ j \in 1..n
          BY <3>2
        <4>2. vals[j - 1] = vals[j]
          BY <1>3, <2>5, <4>1
        <4> QED
          BY <4>1, <4>2
      <3> QED
        BY <3>1, <3>2
    <2>6. (m.dups \/ step = last) <=> \E i \in 2..(n + 1) : more[i - 1] = more[i]
      BY <2>2, <2>3, <2>4, <2>5
    <2>7. new.dups \in BOOLEAN
      BY DEF LogSet
    <2> QED
      BY <2>1, <2>6, <2>7, Zenon
  <1>9. new.last = step
    BY DEF Follows
  <1>10. PICK max \in Nat : max = m.max
    BY DEF LogSet
  <1>11. new.max = IF max >= step THEN max ELSE step
    BY <1>10 DEF Follows, MaxOf
  <1>12. new.max = NoStep \/ \E i \in 1..(n + 1) : new.max = more[i]
    <2>1. CASE max >= step
      <3>1. PICK i \in 1..n : max = vals[i]
        BY <1>1, <1>4, <1>10, <2>1 DEF Describes, NoStep
      <3>2. i \in 1..(n + 1) /\ new.max = more[i]
        BY <1>3, <1>11, <2>1, <3>1
      <3> QED
        BY <3>2
    <2>2. CASE ~(max >= step)
      <3>1. n + 1 \in 1..(n + 1) /\ new.max = more[n + 1]
        BY <1>3, <1>11, <2>2
      <3> QED
        BY <3>1
    <2> QED
      BY <2>1, <2>2
  <1>13. ASSUME NEW i \in 1..(n + 1) PROVE more[i] <= new.max
    <2>1. CASE i = n + 1
      BY <1>3, <1>4, <1>11, <2>1
    <2>2. CASE i # n + 1
      <3>1. i \in 1..n
        BY <2>2
      <3>2. vals[i] <= max /\ vals[i] \in Nat
        BY <1>1, <1>3, <1>10, <3>1 DEF Describes
      <3>3. more[i] = vals[i]
        BY <1>3, <3>1
      <3> QED
        BY <1>4, <1>11, <3>2, <3>3
    <2> QED
      BY <2>1, <2>2
  <1>14. ASSUME NEW i \in 1..Len(new.index)
         PROVE  /\ new.index[i].line \in 0..((n + 1) - 1)
                /\ new.index[i].at = LineBytes * new.index[i].line
                /\ new.index[i].step = more[new.index[i].line + 1]
    <2>1. CASE new.index[i] = [step |-> step, line |-> m.lines, at |-> LineBytes * Len(vals)]
      <3>1. m.lines = n
        BY <1>1 DEF Describes
      <3>2. new.index[i].line = n /\ new.index[i].at = LineBytes * n /\ new.index[i].step = step
        BY <1>1, <2>1, <3>1
      <3> QED
        BY <1>3, <3>2
    <2>2. CASE \E j \in 1..Len(m.index) : new.index[i] = m.index[j]
      <3>1. PICK j \in 1..Len(m.index) : new.index[i] = m.index[j]
        BY <2>2
      <3>2. PICK k : k = m.index[j].line
        OBVIOUS
      <3>3. k \in 0..(n - 1) /\ m.index[j].at = LineBytes * k /\ m.index[j].step = vals[k + 1]
        BY <1>1, <3>2 DEF Describes
      <3>4. k + 1 \in 1..n /\ k \in 0..((n + 1) - 1)
        BY <3>3
      <3>5. more[k + 1] = vals[k + 1]
        BY <1>3, <3>4
      <3> QED
        BY <3>1, <3>2, <3>3, <3>4, <3>5, Zenon
    <2> QED
      BY <1>14, <2>1, <2>2, Zenon DEF Follows
  <1>15. Len(more) = n + 1 /\ n + 1 # 0
    BY <1>3
  <1>16. Describes(new, more)
    BY <1>3, <1>5, <1>7, <1>8, <1>9, <1>12, <1>13, <1>14, <1>15, Zenon DEF Describes
  <1> QED
    BY <1>2, <1>16

LEMMA TrackAllDescribes ==
  ASSUME NEW vals \in Seq(Positive), NEW m \in LogSet, Describes(m, vals),
         NEW more \in Seq(Positive), NEW lines, Len(lines) = Len(more),
         \A i \in 1..Len(more) : /\ lines[i].step = more[i]
                                 /\ lines[i].at = LineBytes * (Len(vals) + i - 1)
  PROVE  TrackAll(m, lines) \in LogSet /\ Describes(TrackAll(m, lines), vals \o more)
  <1>1. PICK v, n \in Nat : v = Len(vals) /\ n = Len(more)
    OBVIOUS
  <1>2. \A i \in 1..n : more[i] \in Positive
    BY <1>1
  <1>3. \A i \in 1..n : lines[i].step \in Nat /\ lines[i].at \in Nat
    <2>1. ASSUME NEW i \in 1..n PROVE lines[i].step \in Nat /\ lines[i].at \in Nat
      <3>1. LineBytes * (v + i - 1) \in Nat
        BY DEF LineBytes
      <3> QED
        BY <1>1, <1>2, <3>1 DEF Positive
    <2> QED
      BY <2>1
  <1>4. PICK f : Tracked(f, m, lines)
    BY <1>1, <1>3, TrackAllIs
  <1>5. /\ f[0] = m /\ TrackAll(m, lines) = f[n]
        /\ \A i \in 0..n : f[i] \in LogSet
        /\ \A i \in 1..n : f[i] = Track(f[i - 1], lines[i].step, lines[i].at)
    BY <1>1, <1>4 DEF Tracked
  <1> DEFINE T == {i \in Nat : i <= n => Describes(f[i], vals \o SubSeq(more, 1, i))}
  <1>6. 0 \in T
    <2>1. vals \o SubSeq(more, 1, 0) = vals
      BY SubSeqEmpty, ConcatEmptySeq
    <2> QED
      BY <1>5, <2>1
  <1>7. ASSUME NEW i \in Nat, i \in T PROVE i + 1 \in T
    <2>1. SUFFICES ASSUME i + 1 <= n PROVE Describes(f[i + 1], vals \o SubSeq(more, 1, i + 1))
      OBVIOUS
    <2>2. PICK k \in 1..n : k = i + 1 /\ k - 1 = i
      BY <2>1
    <2>3. PICK a : a = vals \o SubSeq(more, 1, i)
      OBVIOUS
    <2>4. PICK b, c : b = SubSeq(more, 1, i) /\ c = SubSeq(more, 1, k)
      OBVIOUS
    <2>5. b \in Seq(Positive) /\ Len(b) = i /\ \A j \in 1..i : b[j] = more[j]
      <3>1. i \in 0..Len(more)
        BY <1>1, <2>1
      <3> QED
        BY <2>4, <3>1, CutTo
    <2>6. c \in Seq(Positive) /\ Len(c) = k /\ \A j \in 1..k : c[j] = more[j]
      <3>1. k \in 0..Len(more)
        BY <1>1, <2>2
      <3> QED
        BY <2>4, <3>1, CutTo
    <2>7. a \in Seq(Positive) /\ Len(a) = v + i
      BY <1>1, <2>3, <2>4, <2>5, ConcatProperties
    <2>8. PICK s \in Positive : s = more[k]
      BY <1>2
    <2>9. vals \o c = Append(a, s)
      <3>1. c = Append(b, s)
        <4>1. PICK d : d = Append(b, s)
          OBVIOUS
        <4>2. /\ d \in Seq(Positive) /\ Len(d) = i + 1 /\ d[i + 1] = s
              /\ \A j \in 1..i : d[j] = b[j]
          BY <2>5, <4>1, AppendProperties
        <4>3. \A j \in 1..k : c[j] = d[j]
          <5>1. ASSUME NEW j \in 1..k PROVE c[j] = d[j]
            <6>1. CASE j = k
              BY <2>2, <2>6, <2>8, <4>2, <6>1
            <6>2. CASE j # k
              <7>1. j \in 1..i
                BY <2>2, <6>2
              <7> QED
                BY <2>5, <2>6, <4>2, <7>1
            <6> QED
              BY <6>1, <6>2
          <5> QED
            BY <5>1
        <4>4. c = d
          BY <2>2, <2>6, <4>2, <4>3, SeqEqual
        <4> QED
          BY <4>1, <4>4
      <3>2. Append(b, s) = b \o <<s>> /\ Append(a, s) = a \o <<s>> /\ <<s>> \in Seq(Positive)
        <4>1. Append(b, s) = b \o <<s>>
          BY <2>5, AppendIsConcat
        <4>2. Append(a, s) = a \o <<s>>
          BY <2>7, AppendIsConcat
        <4> QED
          BY <4>1, <4>2
      <3>3. (vals \o b) \o <<s>> = vals \o (b \o <<s>>)
        <4>1. PICK one : one = <<s>>
          OBVIOUS
        <4>2. one \in Seq(Positive)
          BY <4>1
        <4>3. b \in Seq(Positive)
          BY <2>5
        <4>4. (vals \o b) \o one = vals \o (b \o one)
          BY <4>2, <4>3, SMTT(40)
        <4> QED
          BY <4>1, <4>4, Zenon
      <3> QED
        BY <2>3, <2>4, <3>1, <3>2, <3>3, Zenon
    <2>10. f[i] \in LogSet /\ Describes(f[i], a)
      BY <1>5, <1>7, <2>1, <2>3
    <2>11. PICK at \in Nat : at = LineBytes * Len(a) /\ at = lines[k].at /\ s = lines[k].step
      <3>1. v + k - 1 = v + i
        BY <2>2
      <3>2. LineBytes * (v + i) \in Nat
        BY DEF LineBytes
      <3>3. lines[k].at = LineBytes * (v + k - 1) /\ lines[k].step = more[k]
        BY <1>1
      <3> QED
        BY <2>7, <2>8, <3>1, <3>2, <3>3, Zenon
    <2>12. PICK new : new = Track(f[i], s, at)
      OBVIOUS
    <2>13. new \in LogSet /\ Follows(new, f[i], s, LineBytes * Len(a))
      <3>1. s \in Nat /\ s # NoStep
        BY DEF Positive, NoStep
      <3> QED
        BY <2>10, <2>11, <2>12, <3>1, TrackIs, Zenon
    <2>14. Describes(new, Append(a, s))
      BY <2>7, <2>10, <2>13, FollowDescribes
    <2>15. f[k] = new
      BY <1>5, <2>2, <2>11, <2>12, Zenon
    <2> QED
      BY <2>2, <2>4, <2>9, <2>14, <2>15, Zenon
  <1>8. Nat \subseteq T
    <2> HIDE DEF T
    <2> QED
      BY <1>6, <1>7, Inductive
  <1>9. Describes(f[n], vals \o SubSeq(more, 1, n))
    BY <1>8
  <1>10. SubSeq(more, 1, n) = more
    BY <1>1, SubSeqFull
  <1>11. n \in 0..n
    OBVIOUS
  <1> QED
    BY <1>5, <1>9, <1>10, <1>11, Zenon

-----------------------------------------------------------------------------
(* Appending to the parts                                                  *)

LEMMA LineBounds ==
  ASSUME NEW m \in Nat, NEW i \in Nat \ {0}
  PROVE  /\ i <= LineBytes * m => LineOf(i) \in 1..m
         /\ i > LineBytes * m => LineOf(i) > m
         /\ LineOf(i) \in Nat \ {0}
         /\ LineOf(LineBytes * m + i) = m + LineOf(i)
         /\ PlaceOf(LineBytes * m + i) = PlaceOf(i)
  BY DEF LineOf, PlaceOf, LineBytes

\* If there is no cut line then every part holds whole lines.
LEMMA AllWhole ==
  ASSUME NEW fs, NEW k, Parted(fs, k), NEW rows \in Seq(1..k), Spells(fs, rows),
         Total(LengthsOf(fs)) = LineBytes * Len(rows), NEW n \in DOMAIN fs
  PROVE  Len(fs[n]) % LineBytes = 0
  <1>1. PICK off, num, total : Lies(fs, n, off, num, total)
    BY PartLies
  <1>2. PICK len, r \in Nat : len = Len(fs[n]) /\ r = Len(rows)
    BY LengthsAre
  <1>3. CASE n = LastOf(DOMAIN fs)
    <2>1. off \in Nat /\ 3 * off + len = 3 * r
      BY <1>1, <1>2, <1>3 DEF Lies, LineBytes
    <2>2. \A x, y, z \in Nat : 3 * x + y = 3 * z => y % 3 = 0
      OBVIOUS
    <2> QED
      BY <1>2, <2>1, <2>2 DEF LineBytes
  <1>4. CASE n # LastOf(DOMAIN fs)
    BY <1>4 DEF Spells
  <1> QED
    BY <1>3, <1>4

\* The part that is written to becomes the last one.
Appended(gs, fs, a, extra) ==
    gs = [m \in DOMAIN fs \cup {a} |-> IF m = a THEN ContentsIn(fs, a) \o extra ELSE fs[m]]

Extended(gs, fs, k, a, old, extra) ==
    /\ Parted(gs, k) /\ DOMAIN gs = DOMAIN fs \cup {a}
    /\ \A n \in DOMAIN fs : n # a => gs[n] = fs[n]
    /\ old \in Seq(ByteSet(k)) /\ Len(gs[a]) = Len(old) + Len(extra)
    /\ \A i \in 1..Len(gs[a]) : gs[a][i] = IF i <= Len(old) THEN old[i] ELSE extra[i - Len(old)]

LEMMA AppendedType ==
  ASSUME NEW fs, NEW k, Parted(fs, k), NEW a \in Nat, NEW extra \in Seq(ByteSet(k)),
         NEW gs, Appended(gs, fs, a, extra)
  PROVE  Extended(gs, fs, k, a, ContentsIn(fs, a), extra)
  <1>1. PICK old : old = ContentsIn(fs, a)
    OBVIOUS
  <1>2. old \in Seq(ByteSet(k))
    <2>1. CASE a \in DOMAIN fs
      BY <1>1, <2>1 DEF ContentsIn, Parted
    <2>2. CASE a \notin DOMAIN fs
      BY <1>1, <2>2, EmptySeq, Zenon DEF ContentsIn
    <2> QED
      BY <2>1, <2>2
  <1>3. gs = [m \in DOMAIN fs \cup {a} |-> IF m = a THEN old \o extra ELSE fs[m]]
    BY <1>1 DEF Appended
  <1>4. /\ DOMAIN gs = DOMAIN fs \cup {a} /\ gs[a] = old \o extra
        /\ \A n \in DOMAIN fs : n # a => gs[n] = fs[n]
    BY <1>3
  <1>5. /\ old \o extra \in Seq(ByteSet(k)) /\ Len(old \o extra) = Len(old) + Len(extra)
        /\ \A i \in 1..(Len(old) + Len(extra)) :
             (old \o extra)[i] = IF i <= Len(old) THEN old[i] ELSE extra[i - Len(old)]
    BY <1>2, ConcatProperties
  <1>6. Parted(gs, k)
    <2>1. PICK top \in Nat : DOMAIN fs \subseteq 0..top
      BY DEF Parted
    <2>2. PICK new \in Nat : new = top + a
      OBVIOUS
    <2>3. DOMAIN gs \subseteq 0..new
      BY <1>4, <2>1, <2>2
    <2>4. ASSUME NEW p \in DOMAIN gs PROVE p \in Nat /\ gs[p] \in Seq(ByteSet(k))
      <3>1. CASE p = a
        BY <1>4, <1>5, <3>1
      <3>2. CASE p # a
        <4>1. p \in DOMAIN fs /\ gs[p] = fs[p]
          BY <1>4, <3>2
        <4> QED
          BY <4>1 DEF Parted
      <3> QED
        BY <3>1, <3>2
    <2> QED
      BY <2>2, <2>3, <2>4, Zenon DEF Parted
  <1> QED
    BY <1>1, <1>2, <1>4, <1>5, <1>6, Zenon DEF Extended

\* The bytes of more records at the end of whole lines.
Extends(gs, fs, k, a, extra, rows, new, num) ==
    /\ Parted(fs, k) /\ rows \in Seq(1..k) /\ Spells(fs, rows)
    /\ Total(LengthsOf(fs)) = LineBytes * Len(rows)
    /\ a \in Nat /\ \A n \in DOMAIN fs : n <= a
    /\ extra \in Seq(ByteSet(k)) /\ num \in Nat
    /\ Len(extra) <= LineBytes * num /\ LineBytes * num < Len(extra) + LineBytes
    /\ new \in Seq(1..k) /\ Len(new) = Len(rows) + num
    /\ \A i \in 1..Len(rows) : new[i] = rows[i]
    /\ \A i \in 1..Len(extra) : extra[i] = <<new[Len(rows) + LineOf(i)], PlaceOf(i)>>
    /\ Appended(gs, fs, a, extra)

LEMMA AppendSpells ==
  ASSUME NEW gs, NEW fs, NEW k, NEW a, NEW extra, NEW rows, NEW new, NEW num,
         Extends(gs, fs, k, a, extra, rows, new, num)
  PROVE  /\ Spells(gs, new) /\ LastOf(DOMAIN gs) = a
         /\ Total(LengthsOf(gs)) = Total(LengthsOf(fs)) + Len(extra)
  <1> USE DEF Extends
  <1>1. PICK L, M : L = LengthsOf(fs) /\ M = LengthsOf(gs)
    OBVIOUS
  <1>2. PICK old : old = ContentsIn(fs, a)
    OBVIOUS
  <1>3. /\ Parted(gs, k) /\ DOMAIN gs = DOMAIN fs \cup {a}
        /\ \A n \in DOMAIN fs : n # a => gs[n] = fs[n]
        /\ old \in Seq(ByteSet(k)) /\ Len(gs[a]) = Len(old) + Len(extra)
        /\ \A i \in 1..Len(gs[a]) : gs[a][i] = IF i <= Len(old) THEN old[i] ELSE extra[i - Len(old)]
    <2>1. Extended(gs, fs, k, a, ContentsIn(fs, a), extra)
      BY AppendedType
    <2> QED
      BY <1>2, <2>1, Zenon DEF Extended
  <1>4. PICK o, e, r \in Nat : o = Len(old) /\ e = Len(extra) /\ r = Len(rows)
    BY <1>3
  <1>5. Measured(L) /\ Measured(M) /\ DOMAIN L = DOMAIN fs /\ DOMAIN M = DOMAIN gs
    BY <1>1, <1>3, LengthsAre
  <1>6. LengthIn(L, a) = o /\ LengthIn(M, a) = o + e
    <2>1. LengthIn(L, a) = Len(old)
      BY <1>1, <1>2, LengthsAre
    <2>2. LengthIn(M, a) = Len(ContentsIn(gs, a))
      BY <1>1, <1>3, LengthsAre
    <2>3. ContentsIn(gs, a) = gs[a]
      BY <1>3 DEF ContentsIn
    <2> QED
      BY <1>3, <1>4, <2>1, <2>2, <2>3
  <1>7. \A i \in Nat \ {a} : LengthIn(L, i) = LengthIn(M, i)
    <2>1. ASSUME NEW i \in Nat \ {a} PROVE LengthIn(L, i) = LengthIn(M, i)
      <3>1. ContentsIn(fs, i) = ContentsIn(gs, i)
        BY <1>3 DEF ContentsIn
      <3>2. LengthIn(L, i) = Len(ContentsIn(fs, i)) /\ LengthIn(M, i) = Len(ContentsIn(gs, i))
        BY <1>1, <1>3, LengthsAre
      <3> QED
        BY <3>1, <3>2
    <2> QED
      BY <2>1
  <1>8. /\ \A m \in 0..a : Before(M, m) = Before(L, m)
        /\ Total(M) + o = Total(L) + (o + e)
    BY <1>5, <1>6, <1>7, BeforeShift
  <1>9. Total(L) = 3 * r /\ Total(M) = 3 * r + e
    <2>1. Total(L) = 3 * r
      BY <1>1, <1>4 DEF LineBytes
    <2>2. Total(M) \in Nat
      <3>1. PICK t \in Nat : \A n \in DOMAIN M : n < t
        <4>1. PICK top \in Nat : DOMAIN M \subseteq 0..top
          BY <1>5 DEF Measured
        <4>2. \A n \in DOMAIN M : n < top + 1
          BY <4>1
        <4> QED
          BY <4>2
      <3> QED
        BY <1>5, <3>1, TotalIs
    <2>3. PICK t \in Nat : t = Total(M)
      BY <2>2
    <2>4. t + o = 3 * r + (o + e)
      BY <1>8, <2>1, <2>3
    <2>5. t = 3 * r + e
      BY <2>4
    <2> QED
      BY <2>1, <2>3, <2>5
  <1>10. LastOf(DOMAIN gs) = a
    <2>1. PICK top \in Nat : DOMAIN gs \subseteq 0..top
      BY <1>3 DEF Parted
    <2>2. a \in DOMAIN gs /\ \A m \in DOMAIN gs : m <= a
      BY <1>3
    <2> QED
      BY <2>1, <2>2, LastIs
  <1>11. Before(L, a) + o = 3 * r /\ Before(L, a) \in Nat
    <2>1. CASE a \in DOMAIN fs
      <3>1. PICK top \in Nat : DOMAIN fs \subseteq 0..top
        BY DEF Parted
      <3>2. LastOf(DOMAIN fs) = a
        BY <2>1, <3>1, LastIs
      <3>3. Before(L, a) + Len(fs[a]) = Total(L) /\ Before(L, a) \in Nat
        BY <1>1, <2>1, <3>2, PartFits
      <3>4. old = fs[a]
        BY <1>2, <2>1 DEF ContentsIn
      <3> QED
        BY <1>4, <1>9, <3>3, <3>4
    <2>2. CASE a \notin DOMAIN fs
      <3>1. \A n \in DOMAIN L : n < a
        <4>1. \A n \in DOMAIN L : n \in Nat /\ n <= a /\ n # a
          BY <1>5, <2>2 DEF Measured
        <4> QED
          BY <4>1
      <3>2. Total(L) = Before(L, a)
        BY <1>5, <3>1, TotalIs
      <3>3. LengthIn(L, a) = 0
        BY <1>5, <2>2 DEF LengthIn
      <3> QED
        BY <1>6, <1>9, <3>2, <3>3
    <2> QED
      BY <2>1, <2>2
  <1>12. ASSUME NEW i \in Nat \ {0}, i <= 3 * r
         PROVE  ByteOf(new, i) = ByteOf(rows, i)
    <2>1. LineOf(i) \in 1..r
      BY <1>12, LineBounds DEF LineBytes
    <2>2. new[LineOf(i)] = rows[LineOf(i)]
      BY <1>4, <2>1
    <2> QED
      BY <2>2 DEF ByteOf
  <1>13. ASSUME NEW n \in DOMAIN fs, NEW i \in 1..Len(fs[n])
         PROVE  fs[n][i] = ByteOf(new, Before(L, n) + i)
    <2>1. PICK x \in Nat : x = Before(L, n) /\ x + Len(fs[n]) <= 3 * r /\ Len(fs[n]) \in Nat
      BY <1>1, <1>9, PartFits, LengthsAre
    <2>2. x + i \in Nat \ {0} /\ x + i <= 3 * r
      <3>1. PICK l \in Nat : l = Len(fs[n])
        BY <2>1
      <3>2. i \in 1..l /\ x + l <= 3 * r
        BY <2>1, <3>1
      <3> QED
        BY <3>2
    <2>3. fs[n][i] = ByteOf(rows, x + i)
      BY <1>1, <2>1 DEF Spells
    <2> QED
      BY <1>12, <2>1, <2>2, <2>3
  <1>14. ASSUME NEW n \in DOMAIN gs, NEW i \in 1..Len(gs[n])
         PROVE  gs[n][i] = ByteOf(new, Before(M, n) + i)
    <2>1. CASE n # a
      <3>1. n \in DOMAIN fs /\ gs[n] = fs[n]
        BY <1>3, <2>1
      <3>2. n \in 0..a
        BY <3>1 DEF Parted
      <3>3. fs[n][i] = ByteOf(new, Before(L, n) + i)
        BY <1>13, <3>1
      <3> QED
        BY <1>8, <3>1, <3>2, <3>3, Zenon
    <2>2. CASE n = a
      <3>1. i \in 1..(o + e)
        BY <1>3, <1>4, <2>2
      <3>2. PICK b \in Nat : Before(M, a) = b /\ Before(L, a) = b
        <4>1. a \in 0..a
          OBVIOUS
        <4> QED
          BY <1>8, <1>11, <4>1
      <3>3. CASE i <= o
        <4>1. a \in DOMAIN fs /\ old = fs[a]
          <5>1. a \notin DOMAIN fs => o = 0
            BY <1>2, <1>4 DEF ContentsIn
          <5> QED
            BY <1>2, <3>1, <3>3, <5>1 DEF ContentsIn
        <4>2. i \in 1..Len(fs[a]) /\ gs[a][i] = fs[a][i]
          BY <1>3, <1>4, <2>2, <3>1, <3>3, <4>1
        <4>3. fs[a][i] = ByteOf(new, Before(L, a) + i)
          BY <1>13, <4>1, <4>2
        <4> QED
          BY <2>2, <3>2, <4>2, <4>3, Zenon
      <3>4. CASE ~(i <= o)
        <4>0. PICK q \in 1..(o + e) : q = i /\ ~(q <= o)
          BY <3>1, <3>4
        <4>1. PICK j \in 1..e : j = i - o /\ i = o + j
          <5>1. q - o \in 1..e /\ q = o + (q - o)
            BY <4>0
          <5> QED
            BY <4>0, <5>1
        <4>2. gs[a][i] = extra[j]
          BY <1>3, <1>4, <2>2, <3>1, <3>4, <4>1
        <4>3. extra[j] = <<new[r + LineOf(j)], PlaceOf(j)>>
          BY <1>4
        <4>4. Before(M, a) + i = LineBytes * r + j
          <5>1. b + o = 3 * r
            BY <1>11, <3>2
          <5>2. b + (o + j) = 3 * r + j
            BY <5>1
          <5> QED
            BY <3>2, <4>1, <5>2 DEF LineBytes
        <4>5. LineOf(LineBytes * r + j) = r + LineOf(j) /\ PlaceOf(LineBytes * r + j) = PlaceOf(j)
          <5>1. j \in Nat \ {0}
            OBVIOUS
          <5> QED
            BY <5>1, LineBounds
        <4> QED
          BY <2>2, <4>2, <4>3, <4>4, <4>5, Zenon DEF ByteOf
      <3> QED
        BY <3>3, <3>4
    <2> QED
      BY <2>1, <2>2
  <1>15. ASSUME NEW n \in DOMAIN gs, n # a PROVE Len(gs[n]) % LineBytes = 0
    <2>1. n \in DOMAIN fs /\ gs[n] = fs[n]
      BY <1>3, <1>15
    <2> QED
      BY <2>1, AllWhole
  <1>16. Total(M) <= LineBytes * Len(new) /\ LineBytes * Len(new) < Total(M) + LineBytes
    <2>1. e <= 3 * num /\ 3 * num < e + 3
      BY <1>4 DEF LineBytes
    <2>2. 3 * r + e <= 3 * (r + num) /\ 3 * (r + num) < 3 * r + e + 3
      BY <2>1
    <2> QED
      BY <1>4, <1>9, <2>2 DEF LineBytes
  <1>17. Spells(gs, new)
    BY <1>1, <1>10, <1>14, <1>15, <1>16, Zenon DEF Spells
  <1> QED
    BY <1>1, <1>4, <1>9, <1>10, <1>17

-----------------------------------------------------------------------------
(* Cutting a part                                                          *)

\* Records without those after number c, up to number d.
Without(rows, c, d) ==
    [i \in 1..(c + (Len(rows) - d)) |-> IF i <= c THEN rows[i] ELSE rows[i + (d - c)]]

LEMMA WithoutIs ==
  ASSUME NEW k \in Nat, NEW rows \in Seq(1..k), Rising(rows),
         NEW c \in Nat, NEW d \in Nat, c <= d, d <= Len(rows)
  PROVE  /\ Without(rows, c, d) \in Seq(1..k) /\ Rising(Without(rows, c, d))
         /\ Len(Without(rows, c, d)) = c + (Len(rows) - d)
         /\ \A i \in 1..c : Without(rows, c, d)[i] = rows[i]
  <1>1. PICK r \in Nat : r = Len(rows)
    OBVIOUS
  <1>2. PICK n \in Nat : n = c + (r - d) /\ d <= r
    <2>1. d <= r
      BY <1>1
    <2>2. c + (r - d) \in Nat
      BY <2>1
    <2> QED
      BY <2>1, <2>2
  <1>3. PICK new : new = Without(rows, c, d)
    OBVIOUS
  <1>4. new = [i \in 1..n |-> IF i <= c THEN rows[i] ELSE rows[i + (d - c)]]
    BY <1>1, <1>2, <1>3 DEF Without
  <1>5. ASSUME NEW i \in 1..n
        PROVE  \E j \in 1..r : /\ j = (IF i <= c THEN i ELSE i + (d - c))
                               /\ (IF i <= c THEN rows[i] ELSE rows[i + (d - c)]) = rows[j]
    <2>1. (IF i <= c THEN i ELSE i + (d - c)) \in 1..r
      BY <1>1, <1>2
    <2> QED
      BY <2>1
  <1>6. \A j \in 1..r : rows[j] \in 1..k
    BY <1>1
  <1>7. new \in Seq(1..k) /\ Len(new) = n
    BY <1>4, <1>5, <1>6
  <1>8. \A i, j \in 1..r : i < j => rows[i] < rows[j]
    <2>1. rows \in Seq(Nat)
      BY <1>6
    <2> QED
      BY <1>1, <2>1, RisingPairs
  <1>9. ASSUME NEW i \in 2..n PROVE new[i - 1] < new[i]
    <2>1. PICK p \in 1..n : p = i - 1
      OBVIOUS
    <2>2. i \in 1..n
      OBVIOUS
    <2>3. PICK x \in 1..r : x = (IF i <= c THEN i ELSE i + (d - c)) /\ new[i] = rows[x]
      BY <1>4, <1>5, <2>2
    <2>4. PICK y \in 1..r : y = (IF p <= c THEN p ELSE p + (d - c)) /\ new[p] = rows[y]
      BY <1>4, <1>5
    <2>5. y < x
      <3>1. x = (IF i <= c THEN i ELSE i + (d - c)) /\ y = (IF i - 1 <= c THEN i - 1 ELSE (i - 1) + (d - c))
        BY <2>1, <2>3, <2>4, Zenon
      <3>2. i \in Nat
        OBVIOUS
      <3> QED
        BY <3>1, <3>2
    <2> QED
      BY <1>8, <2>1, <2>3, <2>4, <2>5
  <1>10. Rising(new)
    BY <1>7, <1>9 DEF Rising
  <1>11. \A i \in 1..c : new[i] = rows[i]
    BY <1>1, <1>2, <1>4
  <1> QED
    BY <1>1, <1>2, <1>3, <1>7, <1>10, <1>11

\* A part is shortened, or removed; the others stay.
Shortened(gs, fs, p, keep) ==
    /\ DOMAIN gs \subseteq DOMAIN fs
    /\ \A n \in DOMAIN fs : n # p => n \in DOMAIN gs /\ gs[n] = fs[n]
    /\ IF p \in DOMAIN gs THEN gs[p] = SubSeq(fs[p], 1, keep) ELSE keep = 0

LEMMA ShortenedType ==
  ASSUME NEW fs, NEW k, Parted(fs, k), NEW p \in DOMAIN fs, NEW keep \in 0..Len(fs[p]),
         NEW gs, Shortened(gs, fs, p, keep)
  PROVE  /\ Parted(gs, k) /\ \A n \in DOMAIN gs : Len(gs[n]) <= Len(fs[n])
         /\ LengthIn(LengthsOf(gs), p) = keep
         /\ \A n \in Nat \ {p} : LengthIn(LengthsOf(fs), n) = LengthIn(LengthsOf(gs), n)
         /\ p \in DOMAIN gs => /\ Len(gs[p]) = keep
                               /\ \A i \in 1..keep : gs[p][i] = fs[p][i]
  <1>1. fs[p] \in Seq(ByteSet(k))
    BY DEF Parted
  <1>2. p \in DOMAIN gs => /\ gs[p] \in Seq(ByteSet(k)) /\ Len(gs[p]) = keep
                           /\ \A i \in 1..keep : gs[p][i] = fs[p][i]
    <2>1. PICK old, new : old = fs[p] /\ new = SubSeq(fs[p], 1, keep)
      OBVIOUS
    <2>2. new \in Seq(ByteSet(k)) /\ Len(new) = keep /\ \A i \in 1..keep : new[i] = old[i]
      <3>1. old \in Seq(ByteSet(k)) /\ keep \in 0..Len(old) /\ new = SubSeq(old, 1, keep)
        BY <1>1, <2>1
      <3> QED
        BY <3>1, CutTo
    <2> QED
      BY <2>1, <2>2 DEF Shortened
  <1>3. \A n \in DOMAIN gs : n # p => n \in DOMAIN fs /\ gs[n] = fs[n]
    BY DEF Shortened
  <1>4. ASSUME NEW n \in DOMAIN gs PROVE n \in Nat /\ gs[n] \in Seq(ByteSet(k))
    <2>1. n \in DOMAIN fs
      BY DEF Shortened
    <2> QED
      BY <1>2, <1>3, <2>1 DEF Parted
  <1>5. Parted(gs, k)
    <2>1. PICK top \in Nat : DOMAIN fs \subseteq 0..top
      BY DEF Parted
    <2>2. DOMAIN gs \subseteq 0..top
      BY <2>1 DEF Shortened
    <2> QED
      BY <1>4, <2>2, Zenon DEF Parted
  <1>6. ASSUME NEW n \in DOMAIN gs PROVE Len(gs[n]) <= Len(fs[n])
    <2>1. CASE n = p
      <3>1. PICK l \in Nat : l = Len(fs[p])
        BY <1>1
      <3>2. Len(gs[p]) = keep /\ keep \in 0..l
        BY <1>2, <2>1, <3>1
      <3> QED
        BY <2>1, <3>1, <3>2
    <2>2. CASE n # p
      <3>1. n \in DOMAIN fs /\ gs[n] = fs[n]
        BY <1>3, <2>2
      <3>2. Len(fs[n]) \in Nat
        BY <3>1, LengthsAre
      <3> QED
        BY <3>1, <3>2
    <2> QED
      BY <2>1, <2>2
  <1>7. \A n : LengthIn(LengthsOf(gs), n) = Len(ContentsIn(gs, n))
    BY <1>5, LengthsAre
  <1>8. LengthIn(LengthsOf(gs), p) = keep
    <2>1. CASE p \in DOMAIN gs
      BY <1>2, <1>7, <2>1 DEF ContentsIn
    <2>2. CASE p \notin DOMAIN gs
      <3>1. keep = 0 /\ ContentsIn(gs, p) = <<>> /\ Len(<<>>) = 0
        BY <2>2 DEF ContentsIn, Shortened
      <3> QED
        BY <1>7, <3>1
    <2> QED
      BY <2>1, <2>2
  <1>9. ASSUME NEW n \in Nat \ {p} PROVE LengthIn(LengthsOf(fs), n) = LengthIn(LengthsOf(gs), n)
    <2>1. ContentsIn(fs, n) = ContentsIn(gs, n)
      <3>1. n \in DOMAIN fs <=> n \in DOMAIN gs
        BY <1>9 DEF Shortened
      <3>2. n \in DOMAIN fs => gs[n] = fs[n]
        BY <1>9 DEF Shortened
      <3> QED
        BY <3>1, <3>2, Zenon DEF ContentsIn
    <2>2. LengthIn(LengthsOf(fs), n) = Len(ContentsIn(fs, n))
      BY LengthsAre
    <2> QED
      BY <1>7, <2>1, <2>2
  <1> QED
    BY <1>2, <1>5, <1>6, <1>8, <1>9

\* What is left are the records of the bytes that are left.
Leaves(gs, fs, rows, p, keep, c, d) ==
    /\ c \in Nat /\ d \in Nat /\ c <= d /\ d <= Len(rows)
    /\ Before(LengthsOf(fs), p) + keep = LineBytes * c
    /\ Spells(gs, Without(rows, c, d))
    /\ p = LastOf(DOMAIN fs) => d = Len(rows) /\ Total(LengthsOf(gs)) = LineBytes * c
    /\ Before(LengthsOf(gs), p + 1) = LineBytes * c
    /\ LineBytes * c <= Total(LengthsOf(gs))

LEMMA ShortenedSpells ==
  ASSUME NEW k \in Nat, NEW fs, Parted(fs, k), NEW rows \in Seq(1..k), Rising(rows),
         Spells(fs, rows), NEW p \in Nat, p \in DOMAIN fs,
         NEW keep \in 0..Len(fs[p]), keep % LineBytes = 0, NEW gs, Shortened(gs, fs, p, keep)
  PROVE  \E c, d : Leaves(gs, fs, rows, p, keep, c, d)
  <1>1. PICK L, M : L = LengthsOf(fs) /\ M = LengthsOf(gs)
    OBVIOUS
  <1>2. PICK off, num, total \in Nat : Lies(fs, p, off, num, total) /\ off + num <= Len(rows)
    BY PartLies DEF Lies
  <1>3. PICK len, r \in Nat : len = Len(fs[p]) /\ r = Len(rows)
    BY LengthsAre
  <1>4. /\ off \in Nat /\ num \in Nat /\ total \in Nat /\ off + num <= r
        /\ Before(L, p) = 3 * off /\ Before(L, p + 1) = 3 * off + len
        /\ len <= 3 * num /\ 3 * num < len + 3 /\ 3 * off + len <= total /\ total = Total(L)
        /\ p = LastOf(DOMAIN fs) => 3 * off + len = total
        /\ p # LastOf(DOMAIN fs) => len = 3 * num
    BY <1>1, <1>2, <1>3 DEF Lies, LineBytes
  <1>5. PICK q \in Nat : keep = 3 * q
    <2>1. keep \in Nat /\ keep % 3 = 0
      BY <1>3 DEF LineBytes
    <2> QED
      BY <2>1
  <1>6. q <= num /\ 3 * q <= len
    BY <1>3, <1>4, <1>5
  <1>7. PICK c, d \in Nat : c = off + q /\ d = off + num
    BY <1>4
  <1>8. c <= d /\ d <= r
    BY <1>4, <1>6, <1>7
  <1>9. PICK new : new = Without(rows, c, d)
    OBVIOUS
  <1>10. new = [i \in 1..(c + (r - d)) |-> IF i <= c THEN rows[i] ELSE rows[i + (d - c)]]
    BY <1>3, <1>9 DEF Without
  <1>11. Len(new) = c + (r - d)
    <2>1. c <= d /\ d <= Len(rows)
      BY <1>3, <1>8
    <2>2. Len(Without(rows, c, d)) = c + (Len(rows) - d)
      BY <2>1, WithoutIs
    <2> QED
      BY <1>3, <1>9, <2>2
  <1>12. Measured(L) /\ Measured(M) /\ Parted(gs, k)
    <2>1. Parted(gs, k)
      BY ShortenedType
    <2> QED
      BY <1>1, <2>1, LengthsAre
  <1>13. p \in Nat /\ LengthIn(L, p) = len /\ LengthIn(M, p) = 3 * q
    <2>1. LengthIn(LengthsOf(gs), p) = keep
      BY ShortenedType
    <2>2. LengthIn(L, p) = len
      BY <1>1, <1>3, LengthsAre DEF ContentsIn
    <2> QED
      BY <1>1, <1>5, <2>1, <2>2 DEF Parted
  <1>14. \A n \in Nat \ {p} : LengthIn(L, n) = LengthIn(M, n)
    BY <1>1, ShortenedType
  <1>15. /\ \A m \in 0..p : Before(M, m) = Before(L, m)
         /\ \A m \in Nat : m > p => Before(M, m) + len = Before(L, m) + 3 * q
         /\ Total(M) + len = Total(L) + 3 * q
    BY <1>12, <1>13, <1>14, BeforeShift
  <1>16. /\ \A m \in Nat : Before(L, m) \in Nat /\ Before(M, m) \in Nat
         /\ Before(M, p + 1) = Before(M, p) + LengthIn(M, p)
    BY <1>12, <1>13, BeforeIs
  <1>17. PICK t \in Nat : t = Total(M)
    <2>1. PICK top \in Nat : DOMAIN M \subseteq 0..top
      BY <1>12 DEF Measured
    <2>2. \A n \in DOMAIN M : n < top + 1
      BY <2>1
    <2> QED
      BY <1>12, <2>2, TotalIs
  <1>18. t + len = total + 3 * q
    BY <1>4, <1>15, <1>17
  <1>19. total <= 3 * r /\ 3 * r < total + 3
    BY <1>1, <1>3, <1>4 DEF Spells, LineBytes
  <1>20. p = LastOf(DOMAIN fs) => d = r /\ t = 3 * c
    <2>1. SUFFICES ASSUME p = LastOf(DOMAIN fs) PROVE d = r /\ t = 3 * c
      OBVIOUS
    <2>2. 3 * off + len = total /\ len <= 3 * num /\ 3 * num < len + 3
      BY <1>4, <2>1
    <2>3. d = r
      BY <1>7, <1>19, <2>2
    <2>4. t = 3 * c
      BY <1>7, <1>18, <2>2
    <2> QED
      BY <2>3, <2>4
  <1>21. t <= 3 * (c + (r - d)) /\ 3 * (c + (r - d)) < t + 3 /\ 3 * c <= t
    <2>1. CASE p = LastOf(DOMAIN fs)
      BY <1>8, <1>20, <2>1
    <2>2. CASE p # LastOf(DOMAIN fs)
      <3>1. len = 3 * num
        BY <1>4, <2>2
      <3>2. t + 3 * num = total + 3 * q /\ 3 * off + 3 * num <= total
        BY <1>4, <1>18, <3>1
      <3>3. 3 * (c + (r - d)) + 3 * num = 3 * r + 3 * q /\ 3 * c = 3 * off + 3 * q
        BY <1>7
      <3> QED
        BY <1>19, <3>2, <3>3
    <2> QED
      BY <2>1, <2>2
  <1>22. Before(M, p + 1) = 3 * c
    <2>1. p \in 0..p
      BY <1>13
    <2>2. Before(M, p) = 3 * off
      BY <1>4, <1>15, <2>1
    <2> QED
      BY <1>4, <1>7, <1>13, <1>16, <2>2
  <1>23. ASSUME NEW i \in Nat \ {0}, i <= 3 * c PROVE ByteOf(new, i) = ByteOf(rows, i)
    <2>1. LineOf(i) \in 1..c
      BY <1>23, LineBounds DEF LineBytes
    <2>2. new[LineOf(i)] = rows[LineOf(i)]
      BY <1>8, <1>10, <2>1
    <2> QED
      BY <2>2 DEF ByteOf
  <1>24. ASSUME NEW i \in Nat \ {0}, i > 3 * c, i <= 3 * (c + (r - d))
         PROVE  ByteOf(new, i) = ByteOf(rows, 3 * (d - c) + i)
    <2>1. PICK m, u \in Nat : m = d - c /\ u = c + (r - d)
      BY <1>8
    <2>2. LineOf(i) > c /\ LineOf(i) \in 1..u
      BY <1>24, <2>1, LineBounds DEF LineBytes
    <2>3. new[LineOf(i)] = rows[LineOf(i) + (d - c)]
      <3>1. PICK x \in 1..(c + (r - d)) : x = LineOf(i) /\ ~(x <= c)
        BY <2>1, <2>2
      <3>2. new[x] = rows[x + (d - c)]
        BY <1>10, <3>1
      <3> QED
        BY <3>1, <3>2
    <2>4. LineOf(3 * m + i) = m + LineOf(i) /\ PlaceOf(3 * m + i) = PlaceOf(i)
      BY LineBounds DEF LineBytes
    <2>5. LineOf(i) + (d - c) = m + LineOf(i)
      BY <2>1, <2>2
    <2> QED
      BY <2>1, <2>3, <2>4, <2>5, Zenon DEF ByteOf
  <1>25. ASSUME NEW n \in Nat, n \in DOMAIN gs, NEW i \in 1..Len(gs[n])
         PROVE  gs[n][i] = ByteOf(new, Before(M, n) + i)
    <2>1. n \in DOMAIN fs /\ n \in Nat
      BY <1>25 DEF Shortened
    <2>2. PICK b, l \in Nat : b = Before(L, n) /\ l = Len(fs[n]) /\ b + l <= total
      <3>1. Before(L, n) + Len(fs[n]) <= Total(L) /\ Len(fs[n]) \in Nat
        BY <1>1, <2>1, PartFits, LengthsAre
      <3> QED
        BY <1>4, <1>16, <2>1, <3>1
    <2>3. Before(L, n + 1) = b + l
      <3>1. LengthIn(L, n) = l
        BY <1>1, <2>1, <2>2, LengthsAre DEF ContentsIn
      <3> QED
        BY <1>12, <2>1, <2>2, <3>1, BeforeIs
    <2>4. \A j \in 1..l : fs[n][j] = ByteOf(rows, b + j)
      BY <1>1, <2>1, <2>2 DEF Spells
    <2>5. CASE n < p
      <3>1. gs[n] = fs[n] /\ n \in 0..p /\ n + 1 \in Nat /\ n + 1 <= p
        <4>1. n # p /\ n \in 0..p /\ n + 1 \in Nat /\ n + 1 <= p
          BY <2>5
        <4> QED
          BY <2>1, <4>1, Zenon DEF Shortened
      <3>2. Before(L, n + 1) <= Before(L, p)
        BY <1>12, <1>13, <3>1, BeforeGap
      <3>3. PICK j \in 1..l : j = i
        BY <2>2, <3>1
      <3>4. b + j \in Nat \ {0} /\ b + j <= 3 * c
        BY <1>4, <1>7, <2>3, <3>2
      <3>5. ByteOf(new, b + j) = ByteOf(rows, b + j)
        BY <1>23, <3>4
      <3>6. Before(M, n) = b
        BY <1>15, <2>2, <3>1
      <3> QED
        BY <2>4, <3>1, <3>3, <3>5, <3>6, Zenon
    <2>6. CASE n = p
      <3>1. Len(gs[n]) = keep /\ \A j \in 1..keep : gs[n][j] = fs[n][j]
        <4>1. p \in DOMAIN gs
          BY <1>25, <2>6
        <4>2. Len(gs[p]) = keep /\ \A j \in 1..keep : gs[p][j] = fs[p][j]
          BY <4>1, ShortenedType
        <4> QED
          BY <2>6, <4>2, Zenon
      <3>2. PICK j \in 1..(3 * q) : j = i
        BY <1>5, <3>1
      <3>3. b = 3 * off /\ Before(M, n) = b /\ j \in 1..l
        <4>1. p \in 0..p /\ l = len
          BY <1>3, <1>13, <2>2, <2>6
        <4> QED
          BY <1>4, <1>6, <1>15, <2>2, <2>6, <4>1
      <3>4. b + j \in Nat \ {0} /\ b + j <= 3 * c
        BY <1>4, <1>7, <3>3
      <3>5. ByteOf(new, b + j) = ByteOf(rows, b + j)
        BY <1>23, <3>4
      <3>6. gs[n][j] = fs[n][j]
        BY <1>5, <3>1
      <3> QED
        BY <2>4, <3>2, <3>3, <3>5, <3>6, Zenon
    <2>7. CASE n > p
      <3>1. gs[n] = fs[n] /\ p # LastOf(DOMAIN fs)
        <4>1. n <= LastOf(DOMAIN fs) /\ LastOf(DOMAIN fs) \in Nat
          BY <2>1, PartFits
        <4> QED
          BY <1>13, <2>1, <2>7, <4>1 DEF Shortened
      <3>2. len = 3 * num
        BY <1>4, <3>1
      <3>3. Before(L, p + 1) <= Before(L, n)
        <4>1. p + 1 \in Nat /\ p + 1 <= n
          BY <1>13, <2>1, <2>7
        <4> QED
          BY <1>12, <2>1, <4>1, BeforeGap
      <3>4. PICK b2 \in Nat : b2 = Before(M, n)
        BY <1>16, <2>1
      <3>5. b2 + len = b + 3 * q
        BY <1>15, <2>1, <2>2, <2>7, <3>4
      <3>6. PICK j \in 1..l : j = i
        BY <2>2, <3>1
      <3>7. b >= 3 * d
        BY <1>4, <1>7, <2>2, <3>2, <3>3
      <3>8. b = b2 + 3 * (d - c)
        BY <1>4, <1>7, <3>2, <3>5
      <3>9. b2 + j \in Nat \ {0} /\ b2 + j > 3 * c /\ 3 * (d - c) + (b2 + j) = b + j
        BY <3>7, <3>8
      <3>10. b2 + j <= 3 * (c + (r - d))
        <4>1. b + j <= 3 * r
          <5>1. b + l <= total /\ j <= l
            BY <2>2
          <5> QED
            BY <1>19, <5>1
        <4> QED
          BY <3>8, <4>1
      <3>11. ByteOf(new, b2 + j) = ByteOf(rows, b + j)
        BY <1>24, <3>9, <3>10
      <3> QED
        BY <2>4, <3>1, <3>4, <3>6, <3>11, Zenon
    <2> QED
      BY <1>13, <2>1, <2>5, <2>6, <2>7
  <1>26. ASSUME NEW n \in DOMAIN gs PROVE n = LastOf(DOMAIN gs) \/ Len(gs[n]) % LineBytes = 0
    <2>1. CASE n = p
      BY <2>1, ShortenedType
    <2>2. CASE n # p
      <3>1. n \in DOMAIN fs /\ gs[n] = fs[n]
        BY <2>2 DEF Shortened
      <3>2. CASE n = LastOf(DOMAIN fs)
        <4>1. \A m \in DOMAIN gs : m <= n
          <5>1. ASSUME NEW m \in DOMAIN gs PROVE m <= n
            <6>1. m \in DOMAIN fs
              BY DEF Shortened
            <6> QED
              BY <3>2, <6>1, PartFits
          <5> QED
            BY <5>1
        <4>2. PICK top \in Nat : DOMAIN gs \subseteq 0..top
          BY <1>12 DEF Parted
        <4>3. LastOf(DOMAIN gs) = n
          BY <4>1, <4>2, LastIs
        <4> QED
          BY <4>3
      <3>3. CASE n # LastOf(DOMAIN fs)
        BY <3>1, <3>3 DEF Spells
      <3> QED
        BY <3>2, <3>3
    <2> QED
      BY <2>1, <2>2
  <1>27. Spells(gs, new)
    <2>1. Total(M) <= LineBytes * Len(new) /\ LineBytes * Len(new) < Total(M) + LineBytes
      BY <1>11, <1>17, <1>21 DEF LineBytes
    <2>2. \A n \in DOMAIN gs : n \in Nat
      BY <1>12 DEF Parted
    <2> QED
      BY <1>1, <1>25, <1>26, <2>1, <2>2, Zenon DEF Spells
  <1>28. Before(L, p) + keep = 3 * c
    BY <1>4, <1>5, <1>7
  <1>29. Leaves(gs, fs, rows, p, keep, c, d)
    BY <1>1, <1>3, <1>8, <1>9, <1>17, <1>20, <1>21, <1>22, <1>27, <1>28 DEF Leaves, LineBytes
  <1> QED
    BY <1>29

-----------------------------------------------------------------------------
(* Reopening: the cut line goes                                            *)

\* Repairing keeps some first bytes, and of whole lines all but the cut one.
LEMMA RepairedIs ==
  ASSUME NEW k, NEW bytes \in Seq(ByteSet(k))
  PROVE  \E keep \in 0..Len(bytes) :
           /\ Repaired(bytes) = SubSeq(bytes, 1, keep)
           /\ (\A i \in 1..Len(bytes) : bytes[i][2] = PlaceOf(i)) =>
                keep % LineBytes = 0 /\ Len(bytes) < keep + LineBytes
  <1>1. PICK len \in Nat : len = Len(bytes)
    OBVIOUS
  <1>2. PICK S : S = {i \in 1..Len(bytes) : Newline(bytes[i])}
    OBVIOUS
  <1>3. S \subseteq 0..len
    BY <1>1, <1>2
  <1>4. /\ LastOf(S) \in 0..len /\ \A m \in S : m <= LastOf(S)
        /\ S # {} => LastOf(S) \in S
        /\ S = {} => LastOf(S) = 0
    BY <1>3, LastIs
  <1>5. PICK keep \in 0..len : keep = LastOf(S)
    BY <1>4
  <1>6. Repaired(bytes) = SubSeq(bytes, 1, keep)
    BY <1>2, <1>5, Zenon DEF Repaired
  <1>7. ASSUME \A i \in 1..Len(bytes) : bytes[i][2] = PlaceOf(i)
        PROVE  keep % 3 = 0 /\ len < keep + 3
    <2>1. \A i \in 1..len : i \in S <=> i % 3 = 0
      <3>1. ASSUME NEW i \in 1..len PROVE i \in S <=> i % 3 = 0
        <4>1. i \in S <=> bytes[i][2] = LineBytes
          BY <1>1, <1>2 DEF Newline
        <4>2. bytes[i][2] = PlaceOf(i)
          BY <1>1, <1>7
        <4>3. PlaceOf(i) = LineBytes <=> i % 3 = 0
          BY DEF PlaceOf, LineBytes
        <4> QED
          BY <4>1, <4>2, <4>3
      <3> QED
        BY <3>1
    <2>2. keep % 3 = 0
      <3>1. CASE S = {}
        BY <1>4, <1>5, <3>1
      <3>2. CASE S # {}
        <4>1. keep \in S /\ keep \in 1..len
          BY <1>1, <1>2, <1>4, <1>5, <3>2
        <4> QED
          BY <2>1, <4>1
      <3> QED
        BY <3>1, <3>2
    <2>3. len < keep + 3
      <3>1. PICK m \in Nat : m = 3 * (len \div 3)
        OBVIOUS
      <3>2. m <= len /\ len < m + 3 /\ m % 3 = 0
        BY <3>1
      <3>3. CASE m = 0
        BY <3>2, <3>3
      <3>4. CASE m # 0
        <4>1. m \in 1..len
          BY <3>2, <3>4
        <4>2. m \in S
          BY <2>1, <3>2, <4>1
        <4>3. m <= keep
          BY <1>4, <1>5, <4>2
        <4> QED
          BY <3>2, <4>3
      <3> QED
        BY <3>3, <3>4
    <2> QED
      BY <2>2, <2>3
  <1> QED
    BY <1>1, <1>5, <1>6, <1>7 DEF LineBytes

\* The bytes of a part of the log are at their places.
LEMMA PartPlaces ==
  ASSUME NEW fs, NEW k, Parted(fs, k), NEW rows \in Seq(1..k), Spells(fs, rows),
         NEW n \in DOMAIN fs
  PROVE  \A i \in 1..Len(fs[n]) : fs[n][i][2] = PlaceOf(i)
  <1>1. PICK off, num, total : Lies(fs, n, off, num, total)
    BY PartLies
  <1>2. off \in Nat /\ Before(LengthsOf(fs), n) = LineBytes * off
    BY <1>1 DEF Lies
  <1>3. ASSUME NEW i \in 1..Len(fs[n]) PROVE fs[n][i][2] = PlaceOf(i)
    <2>1. fs[n][i] = ByteOf(rows, LineBytes * off + i)
      BY <1>2 DEF Spells
    <2>2. fs[n][i][2] = PlaceOf(LineBytes * off + i)
      BY <2>1 DEF ByteOf
    <2>3. PICK j \in Nat \ {0} : j = i
      BY LengthsAre
    <2>4. PlaceOf(LineBytes * off + j) = PlaceOf(j)
      BY <1>2, LineBounds
    <2> QED
      BY <2>2, <2>3, <2>4
  <1> QED
    BY <1>3

\* What the next writer makes of the parts.
Reopened(gs, fs) ==
    LET n == LastOf(DOMAIN fs)
        c == ContentsIn(fs, n)
    IN  gs = IF Repaired(c) # c
             THEN [m \in DOMAIN fs \cup {n} |-> IF m = n THEN Repaired(c) ELSE fs[m]]
             ELSE fs

LEMMA ReopenedEmpty ==
  ASSUME NEW fs, NEW gs, Reopened(gs, fs), DOMAIN fs = {}
  PROVE  gs = fs
  <1>1. PICK n : n = LastOf(DOMAIN fs)
    OBVIOUS
  <1>2. PICK c : c = ContentsIn(fs, n)
    OBVIOUS
  <1>3. c = <<>>
    BY <1>1, <1>2, Zenon DEF ContentsIn
  <1>4. c \in Seq(ByteSet(1)) /\ Len(c) = 0
    BY <1>3, EmptySeq
  <1>5. PICK keep \in 0..Len(c) : Repaired(c) = SubSeq(c, 1, keep)
    BY <1>4, RepairedIs
  <1>6. keep = 0
    BY <1>4, <1>5
  <1>7. Repaired(c) \in Seq(ByteSet(1)) /\ Len(Repaired(c)) = 0
    BY <1>4, <1>5, <1>6, CutTo
  <1>8. Repaired(c) = c
    BY <1>3, <1>7, EmptySeq
  <1> QED
    BY <1>1, <1>2, <1>8, Zenon DEF Reopened

LEMMA ReopenedIs ==
  ASSUME NEW fs, NEW k, Parted(fs, k), NEW gs, Reopened(gs, fs), DOMAIN fs # {}
  PROVE  \E p \in DOMAIN fs, keep \in Nat :
           /\ p = LastOf(DOMAIN fs) /\ keep \in 0..Len(fs[p]) /\ Shortened(gs, fs, p, keep)
           /\ (\A i \in 1..Len(fs[p]) : fs[p][i][2] = PlaceOf(i)) =>
                keep % LineBytes = 0 /\ Len(fs[p]) < keep + LineBytes
  <1>1. PICK top \in Nat : DOMAIN fs \subseteq 0..top
    BY DEF Parted
  <1>2. PICK p \in DOMAIN fs : p = LastOf(DOMAIN fs)
    BY <1>1, LastIs
  <1>3. PICK c : c = fs[p]
    OBVIOUS
  <1>4. c = ContentsIn(fs, LastOf(DOMAIN fs)) /\ c \in Seq(ByteSet(k))
    BY <1>2, <1>3 DEF ContentsIn, Parted
  <1>5. PICK keep \in 0..Len(c) :
          /\ Repaired(c) = SubSeq(c, 1, keep)
          /\ (\A i \in 1..Len(c) : c[i][2] = PlaceOf(i)) =>
                keep % LineBytes = 0 /\ Len(c) < keep + LineBytes
    BY <1>4, RepairedIs
  <1>6. gs = IF Repaired(c) # c
             THEN [m \in DOMAIN fs \cup {p} |-> IF m = p THEN Repaired(c) ELSE fs[m]]
             ELSE fs
    BY <1>2, <1>4, Zenon DEF Reopened
  <1>7. /\ DOMAIN gs = DOMAIN fs /\ gs[p] = Repaired(c)
        /\ \A n \in DOMAIN fs : n # p => gs[n] = fs[n]
    <2>1. CASE Repaired(c) # c
      <3>1. gs = [m \in DOMAIN fs \cup {p} |-> IF m = p THEN Repaired(c) ELSE fs[m]]
        BY <1>6, <2>1
      <3>2. p \in DOMAIN fs /\ DOMAIN fs \cup {p} = DOMAIN fs
        BY <1>2
      <3> QED
        BY <3>1, <3>2
    <2>2. CASE Repaired(c) = c
      <3>1. gs = fs
        BY <1>6, <2>2
      <3> QED
        BY <1>3, <2>2, <3>1
    <2> QED
      BY <2>1, <2>2
  <1>8. Shortened(gs, fs, p, keep)
    BY <1>3, <1>5, <1>7 DEF Shortened
  <1>9. keep \in Nat
    <2>1. Len(c) \in Nat
      BY <1>4
    <2> QED
      BY <2>1
  <1> QED
    BY <1>2, <1>3, <1>5, <1>8, <1>9, Zenon

\* The log without its cut line.
Kept(gs, fs, rows, c) ==
    /\ c \in 0..Len(rows)
    /\ Spells(gs, SubSeq(rows, 1, c)) /\ RowsOf(gs) = SubSeq(rows, 1, c)
    /\ Total(LengthsOf(gs)) = LineBytes * c
    /\ Total(LengthsOf(fs)) < LineBytes * c + LineBytes
    /\ \A n \in DOMAIN gs : n \in DOMAIN fs /\ Len(gs[n]) <= Len(fs[n])

LEMMA KeptIs ==
  ASSUME LogAssumption, steps \in Seq(Steps), NEW fs, Parted(fs, Len(steps)),
         NEW rows \in Seq(1..Len(steps)), Rising(rows), Spells(fs, rows),
         NEW gs, Reopened(gs, fs)
  PROVE  \E c : Kept(gs, fs, rows, c) /\ Parted(gs, Len(steps))
  <1>1. PICK k, r \in Nat : k = Len(steps) /\ r = Len(rows)
    OBVIOUS
  <1>2. PICK c \in 0..r : 
          /\ Parted(gs, k) /\ Spells(gs, SubSeq(rows, 1, c))
          /\ Total(LengthsOf(gs)) = LineBytes * c
          /\ Total(LengthsOf(fs)) < LineBytes * c + LineBytes
          /\ \A n \in DOMAIN gs : n \in DOMAIN fs /\ Len(gs[n]) <= Len(fs[n])
    <2>1. CASE DOMAIN fs = {}
      <3>1. gs = fs
        BY <2>1, ReopenedEmpty
      <3>2. Total(LengthsOf(fs)) = 0
        <4>1. PICK L : L = LengthsOf(fs)
          OBVIOUS
        <4>2. Measured(L) /\ DOMAIN L = {}
          BY <2>1, <4>1, LengthsAre
        <4>3. Total(L) = Before(L, 0)
          BY <4>2, TotalIs
        <4> QED
          BY <4>1, <4>2, <4>3, BeforeIs
      <3>3. r = 0
        BY <1>1, <3>2 DEF Spells, LineBytes
      <3>4. SubSeq(rows, 1, 0) = rows
        BY <1>1, <3>3, SubSeqFull
      <3>5. \A n \in DOMAIN gs : n \in DOMAIN fs /\ Len(gs[n]) <= Len(fs[n])
        BY <2>1, <3>1
      <3>6. Total(LengthsOf(gs)) = LineBytes * 0 /\ Total(LengthsOf(fs)) < LineBytes * 0 + LineBytes
        BY <3>1, <3>2 DEF LineBytes
      <3>7. Spells(gs, SubSeq(rows, 1, 0)) /\ Parted(gs, k)
        BY <1>1, <3>1, <3>4
      <3>8. 0 \in 0..r
        OBVIOUS
      <3> QED
        BY <3>5, <3>6, <3>7, <3>8
    <2>2. CASE DOMAIN fs # {}
      <3>1. PICK p \in DOMAIN fs, keep \in Nat :
              /\ p = LastOf(DOMAIN fs) /\ keep \in 0..Len(fs[p]) /\ Shortened(gs, fs, p, keep)
              /\ (\A i \in 1..Len(fs[p]) : fs[p][i][2] = PlaceOf(i)) =>
                   keep % LineBytes = 0 /\ Len(fs[p]) < keep + LineBytes
        BY <2>2, ReopenedIs
      <3>2. keep % LineBytes = 0 /\ Len(fs[p]) < keep + LineBytes
        BY <3>1, PartPlaces
      <3>3. p \in Nat /\ Len(fs[p]) \in Nat /\ Before(LengthsOf(fs), p) \in Nat
            /\ Before(LengthsOf(fs), p) + Len(fs[p]) = Total(LengthsOf(fs))
        BY <3>1, PartFits, LengthsAre
      <3>4. PICK c, d : Leaves(gs, fs, rows, p, keep, c, d)
        BY <1>1, <3>1, <3>2, <3>3, ShortenedSpells
      <3>5. c \in 0..r /\ d = r /\ Total(LengthsOf(gs)) = LineBytes * c
            /\ Before(LengthsOf(fs), p) + keep = LineBytes * c
        BY <1>1, <3>1, <3>4 DEF Leaves
      <3>6. Total(LengthsOf(fs)) < LineBytes * c + LineBytes
        <4>1. PICK b, len, keep2, t \in Nat :
                /\ b = Before(LengthsOf(fs), p) /\ len = Len(fs[p]) /\ keep2 = keep
                /\ t = LineBytes * c
          <5>1. keep \in Nat /\ LineBytes * c \in Nat
            BY <3>1, <3>3, <3>5 DEF LineBytes
          <5> QED
            BY <3>3, <5>1
        <4>2. len < keep2 + LineBytes /\ b + keep2 = t /\ Total(LengthsOf(fs)) = b + len
          BY <3>2, <3>3, <3>5, <4>1
        <4>3. b + len < t + LineBytes
          BY <4>2 DEF LineBytes
        <4> QED
          BY <4>1, <4>2, <4>3
      <3>7. Without(rows, c, d) = SubSeq(rows, 1, c)
        <4>1. PICK x, y : x = Without(rows, c, d) /\ y = SubSeq(rows, 1, c)
          OBVIOUS
        <4>2. d \in Nat /\ c \in Nat /\ c <= d /\ d <= Len(rows)
          BY <1>1, <3>5
        <4>3. /\ x \in Seq(1..k) /\ Len(x) = c + (Len(rows) - d) /\ \A i \in 1..c : x[i] = rows[i]
          <5>1. rows \in Seq(1..k) /\ Rising(rows) /\ k \in Nat
            BY <1>1
          <5>2. /\ Without(rows, c, d) \in Seq(1..k) /\ Len(Without(rows, c, d)) = c + (Len(rows) - d)
                /\ \A i \in 1..c : Without(rows, c, d)[i] = rows[i]
            BY <4>2, <5>1, WithoutIs
          <5> QED
            BY <4>1, <5>2, Zenon
        <4>4. Len(x) = c
          BY <1>1, <3>5, <4>3
        <4>5. y \in Seq(1..k) /\ Len(y) = c /\ \A i \in 1..c : y[i] = rows[i]
          BY <1>1, <3>5, <4>1, CutTo
        <4>6. x = y
          BY <4>3, <4>4, <4>5, SeqEqual
        <4> QED
          BY <4>1, <4>6
      <3>8. Spells(gs, SubSeq(rows, 1, c))
        BY <3>4, <3>7 DEF Leaves
      <3>9. Parted(gs, k) /\ \A n \in DOMAIN gs : n \in DOMAIN fs /\ Len(gs[n]) <= Len(fs[n])
        <4>1. Parted(gs, k) /\ \A n \in DOMAIN gs : Len(gs[n]) <= Len(fs[n])
          BY <1>1, <3>1, ShortenedType
        <4>2. DOMAIN gs \subseteq DOMAIN fs
          BY <3>1 DEF Shortened
        <4> QED
          BY <4>1, <4>2
      <3> QED
        BY <3>5, <3>6, <3>8, <3>9
    <2> QED
      BY <2>1, <2>2
  <1>3. PICK s : s = SubSeq(rows, 1, c)
    OBVIOUS
  <1>4. s \in Seq(1..k) /\ Len(s) = c
    BY <1>1, <1>2, <1>3, CutTo
  <1>5. RowsOf(gs) = s
    <2>1. Spells(gs, s) /\ Parted(gs, Len(steps)) /\ s \in Seq(1..Len(steps))
      BY <1>1, <1>2, <1>3, <1>4
    <2>2. PICK w \in 0..Len(s) :
            /\ RowsOf(gs) = SubSeq(s, 1, w)
            /\ LineBytes * w <= Total(LengthsOf(gs))
            /\ Total(LengthsOf(gs)) < LineBytes * w + LineBytes
      BY <2>1, RowsOfSpelled
    <2>3. w = Len(s)
      BY <1>2, <1>4, <2>2 DEF LineBytes
    <2> QED
      BY <2>1, <2>2, <2>3, SubSeqFull
  <1>6. Kept(gs, fs, rows, c)
    BY <1>1, <1>2, <1>3, <1>5 DEF Kept
  <1> QED
    BY <1>1, <1>2, <1>6

-----------------------------------------------------------------------------
(* What is said of the same lines agrees                                   *)

LEMMA NothingKnown == 
  ASSUME LogAssumption
  PROVE  Empty \in LogSet /\ Describes(Empty, <<>>)
  <1>1. <<>> \in Seq(AnchorSet)
    BY EmptySeq
  <1>2. Empty \in LogSet
    BY <1>1 DEF Empty, LogSet, LogAssumption, NoStep
  <1>3. Describes(Empty, <<>>)
    BY DEF Empty, Describes, NoStep
  <1> QED
    BY <1>2, <1>3

LEMMA RestoredIs ==
  ASSUME LogAssumption, NEW m \in MetaSet
  PROVE  /\ Restored(m) \in LogSet
         /\ \A vals : Describes(m, vals) => Describes(Restored(m), vals)
  <1>1. PICK n : n = (IF m.index = <<>> THEN 0 ELSE Last(m.index).line + Every)
    OBVIOUS
  <1>2. n \in Nat
    <2>1. CASE m.index = <<>>
      BY <1>1, <2>1
    <2>2. CASE m.index # <<>>
      <3>1. PICK index \in Seq(AnchorSet) : index = m.index /\ index # <<>>
        BY <2>2 DEF MetaSet
      <3>2. Len(index) \in 1..Len(index)
        BY <3>1, EmptySeq
      <3>3. Last(index) \in AnchorSet
        BY <3>2 DEF Last
      <3> QED
        BY <1>1, <2>2, <3>1, <3>3 DEF AnchorSet, LogAssumption
    <2> QED
      BY <2>1, <2>2
  <1>3. Restored(m) = [lines |-> m.lines, sorted |-> m.sorted, dups |-> m.dups, last |-> m.last,
                       max |-> m.max, index |-> m.index, every |-> Every, next |-> n]
    BY <1>1, Zenon DEF Restored
  <1>4. Restored(m) \in LogSet
    BY <1>2, <1>3 DEF MetaSet, LogSet, LogAssumption
  <1>5. ASSUME NEW vals, Describes(m, vals) PROVE Describes(Restored(m), vals)
    BY <1>3, <1>5 DEF Describes
  <1> QED
    BY <1>4, <1>5

LEMMA MetadataIs ==
  ASSUME size \in Nat, log \in LogSet
  PROVE  /\ Metadata \in MetaSet /\ Metadata.size = size
         /\ \A vals : Describes(log, vals) => Describes(Metadata, vals)
  <1>1. Metadata \in MetaSet /\ Metadata.size = size
    BY DEF Metadata, MetaSet, LogSet
  <1>2. ASSUME NEW vals, Describes(log, vals) PROVE Describes(Metadata, vals)
    BY <1>2 DEF Describes, Metadata
  <1> QED
    BY <1>1, <1>2

LEMMA Agreeing ==
  ASSUME NEW vals, Len(vals) \in Nat, \A i \in 1..Len(vals) : vals[i] \in Positive,
         NEW m, NEW n, Describes(m, vals), Describes(n, vals)
  PROVE  m.lines = n.lines /\ m.sorted = n.sorted /\ m.dups = n.dups /\ m.last = n.last
         /\ m.max = n.max
  <1>1. m.lines = n.lines /\ m.sorted = n.sorted /\ m.dups = n.dups /\ m.last = n.last
    BY Zenon DEF Describes
  <1>2. PICK l \in Nat : l = Len(vals)
    OBVIOUS
  <1>3. /\ m.max = NoStep \/ \E i \in 1..l : m.max = vals[i]
        /\ n.max = NoStep \/ \E i \in 1..l : n.max = vals[i]
        /\ \A i \in 1..l : vals[i] <= m.max
        /\ \A i \in 1..l : vals[i] <= n.max
    BY <1>2, Zenon DEF Describes
  <1>4. \A i \in 1..l : vals[i] \in Nat /\ vals[i] > 0
    BY <1>2 DEF Positive
  <1>5. m.max = n.max
    BY <1>3, <1>4 DEF NoStep
  <1> QED
    BY <1>1, <1>5

-----------------------------------------------------------------------------
(* Records, their steps, and first records                                 *)

LEMMA PrefixIs ==
  ASSUME NEW S, NEW s \in Seq(S), NEW t \in Seq(S)
  PROVE  /\ IsPrefix(s, t) <=> Len(s) <= Len(t) /\ \A i \in 1..Len(s) : s[i] = t[i]
         /\ IsPrefix(s, t) => Len(s) \in 0..Len(t) /\ s = SubSeq(t, 1, Len(s))
  <1>1. PICK m, n \in Nat : m = Len(s) /\ n = Len(t)
    OBVIOUS
  <1>2. IsPrefix(s, t) <=> m <= n /\ SubSeq(s, 1, m) = SubSeq(t, 1, m)
    BY <1>1, Zenon DEF IsPrefix
  <1>3. SubSeq(s, 1, m) = s
    BY <1>1, SubSeqFull
  <1>4. ASSUME m <= n PROVE s = SubSeq(t, 1, m) <=> \A i \in 1..m : s[i] = t[i]
    <2>1. PICK u : u = SubSeq(t, 1, m)
      OBVIOUS
    <2>2. m \in 0..Len(t)
      BY <1>1, <1>4
    <2>3. u \in Seq(S) /\ Len(u) = m /\ \A i \in 1..m : u[i] = t[i]
      BY <2>1, <2>2, CutTo
    <2>4. (\A i \in 1..m : s[i] = u[i]) => s = u
      BY <1>1, <2>3, SeqEqual
    <2> QED
      BY <2>1, <2>3, <2>4
  <1>5. m <= n => m \in 0..n
    OBVIOUS
  <1> QED
    BY <1>1, <1>2, <1>3, <1>4, <1>5

LEMMA RisingPart ==
  ASSUME NEW k \in Nat, NEW rows \in Seq(1..k), Rising(rows), NEW c \in 0..Len(rows)
  PROVE  /\ SubSeq(rows, 1, c) \in Seq(1..k) /\ Len(SubSeq(rows, 1, c)) = c
         /\ Rising(SubSeq(rows, 1, c)) /\ \A i \in 1..c : SubSeq(rows, 1, c)[i] = rows[i]
  <1>1. PICK s : s = SubSeq(rows, 1, c)
    OBVIOUS
  <1>2. s \in Seq(1..k) /\ Len(s) = c /\ \A i \in 1..c : s[i] = rows[i]
    BY <1>1, CutTo
  <1>3. ASSUME NEW i \in 2..c PROVE s[i - 1] < s[i]
    <2>1. i - 1 \in 1..c /\ i \in 1..c /\ i \in 2..Len(rows)
      OBVIOUS
    <2>2. rows[i - 1] < rows[i]
      BY <2>1 DEF Rising
    <2> QED
      BY <1>2, <2>1, <2>2
  <1> QED
    BY <1>1, <1>2, <1>3 DEF Rising

LEMMA ValuesAre ==
  ASSUME LogAssumption, NEW st \in Seq(Steps), NEW rows \in Seq(1..Len(st))
  PROVE  /\ Values(rows, st) \in Seq(Positive) /\ Len(Values(rows, st)) = Len(rows)
         /\ \A i \in 1..Len(rows) : Values(rows, st)[i] = st[rows[i]] /\ st[rows[i]] \in Steps
  <1>1. PICK n \in Nat : n = Len(rows)
    OBVIOUS
  <1>2. \A i \in 1..n : st[rows[i]] \in Steps
    BY <1>1
  <1>3. Values(rows, st) = [i \in 1..n |-> st[rows[i]]]
    BY <1>1 DEF Values
  <1>4. Steps \subseteq Positive
    BY DEF LogAssumption, Positive
  <1>5. PICK v : v = Values(rows, st)
    OBVIOUS
  <1>6. v \in [1..n -> Positive] /\ \A i \in 1..n : v[i] = st[rows[i]]
    BY <1>2, <1>3, <1>4, <1>5
  <1>7. v \in Seq(Positive)
    BY <1>6, IsASeq
  <1>8. Len(v) = n
    BY <1>6, <1>7, LenProperties
  <1> QED
    BY <1>1, <1>2, <1>5, <1>6, <1>7, <1>8

LEMMA ValuesConcat ==
  ASSUME NEW st \in Seq(Steps), NEW a \in Seq(1..Len(st)), NEW b \in Seq(1..Len(st))
  PROVE  Values(a \o b, st) = Values(a, st) \o Values(b, st)
  <1>1. PICK k, m, n \in Nat : k = Len(st) /\ m = Len(a) /\ n = Len(b)
    OBVIOUS
  <1>2. /\ a \o b \in Seq(1..k) /\ Len(a \o b) = m + n
        /\ \A i \in 1..(m + n) : (a \o b)[i] = IF i <= m THEN a[i] ELSE b[i - m]
    BY <1>1, ConcatProperties
  <1>3. PICK x, y, z : x = Values(a, st) /\ y = Values(b, st) /\ z = Values(a \o b, st)
    OBVIOUS
  <1>4. /\ x = [i \in 1..m |-> st[a[i]]] /\ y = [i \in 1..n |-> st[b[i]]]
        /\ z = [i \in 1..(m + n) |-> st[(a \o b)[i]]]
    BY <1>1, <1>2, <1>3, Zenon DEF Values
  <1>5. \A r \in Seq(1..k), l \in Nat : Len(r) = l =>
          LET v == [i \in 1..l |-> st[r[i]]]
          IN  v \in Seq(Steps) /\ Len(v) = l /\ \A i \in 1..l : v[i] = st[r[i]]
    <2>1. SUFFICES ASSUME NEW r \in Seq(1..k), NEW l \in Nat, Len(r) = l,
                          NEW v, v = [i \in 1..l |-> st[r[i]]]
                   PROVE  v \in Seq(Steps) /\ Len(v) = l /\ \A i \in 1..l : v[i] = st[r[i]]
      OBVIOUS
    <2>2. v \in [1..l -> Steps]
      BY <1>1, <2>1
    <2>3. v \in Seq(Steps)
      BY <2>2, IsASeq
    <2> QED
      BY <2>1, <2>2, <2>3, LenProperties
  <1>6. /\ x \in Seq(Steps) /\ Len(x) = m /\ \A i \in 1..m : x[i] = st[a[i]]
        /\ y \in Seq(Steps) /\ Len(y) = n /\ \A i \in 1..n : y[i] = st[b[i]]
        /\ z \in Seq(Steps) /\ Len(z) = m + n /\ \A i \in 1..(m + n) : z[i] = st[(a \o b)[i]]
    <2>1. x \in Seq(Steps) /\ Len(x) = m /\ \A i \in 1..m : x[i] = st[a[i]]
      BY <1>1, <1>4, <1>5
    <2>2. y \in Seq(Steps) /\ Len(y) = n /\ \A i \in 1..n : y[i] = st[b[i]]
      BY <1>1, <1>4, <1>5
    <2>3. z \in Seq(Steps) /\ Len(z) = m + n /\ \A i \in 1..(m + n) : z[i] = st[(a \o b)[i]]
      <3>1. m + n \in Nat
        OBVIOUS
      <3> QED
        BY <1>2, <1>4, <1>5, <3>1
    <2> QED
      BY <2>1, <2>2, <2>3
  <1>7. /\ x \o y \in Seq(Steps) /\ Len(x \o y) = m + n
        /\ \A i \in 1..(m + n) : (x \o y)[i] = IF i <= m THEN x[i] ELSE y[i - m]
    <2>1. x \in Seq(Steps) /\ y \in Seq(Steps) /\ Len(x) = m /\ Len(y) = n
      BY <1>6
    <2> QED
      BY <2>1, ConcatProperties
  <1>8. ASSUME NEW i \in 1..(m + n) PROVE z[i] = (x \o y)[i]
    <2>1. PICK j \in 1..(m + n) : j = i
      OBVIOUS
    <2>2. CASE j <= m
      <3>1. (a \o b)[j] = a[j] /\ (x \o y)[j] = x[j] /\ z[j] = st[(a \o b)[j]]
        BY <1>2, <1>6, <1>7, <2>2
      <3>2. j \in 1..m
        BY <2>2
      <3>3. x[j] = st[a[j]]
        BY <1>6, <3>2
      <3> QED
        BY <2>1, <3>1, <3>3
    <2>3. CASE ~(j <= m)
      <3>1. j - m \in 1..n
        BY <2>3
      <3>2. (a \o b)[j] = b[j - m] /\ (x \o y)[j] = y[j - m] /\ z[j] = st[(a \o b)[j]]
        BY <1>2, <1>6, <1>7, <2>3
      <3>3. y[j - m] = st[b[j - m]]
        BY <1>6, <3>1
      <3> QED
        BY <2>1, <3>2, <3>3
    <2> QED
      BY <2>2, <2>3
  <1>9. z = x \o y
    BY <1>6, <1>7, <1>8, SeqEqual
  <1> QED
    BY <1>3, <1>9

\* The steps of known records stay what they are.
LEMMA ValuesGrow ==
  ASSUME NEW st \in Seq(Steps), NEW s \in Steps, NEW rows \in Seq(1..Len(st))
  PROVE  Values(rows, Append(st, s)) = Values(rows, st)
  <1>1. PICK k, n \in Nat : k = Len(st) /\ n = Len(rows)
    OBVIOUS
  <1>2. \A i \in 1..k : Append(st, s)[i] = st[i]
    BY <1>1, AppendProperties
  <1>3. \A i \in 1..n : rows[i] \in 1..k
    BY <1>1
  <1>4. \A i \in 1..n : Append(st, s)[rows[i]] = st[rows[i]]
    BY <1>2, <1>3
  <1> QED
    BY <1>1, <1>4 DEF Values

\* Reading all the lines finds what is to be known of the records.
LEMMA ScanIs ==
  ASSUME LogAssumption, steps \in Seq(Steps), NEW fs, Parted(fs, Len(steps)),
         NEW rows \in Seq(1..Len(steps)), Spells(fs, rows),
         Total(LengthsOf(fs)) = LineBytes * Len(rows)
  PROVE  /\ TrackAll(Empty, LinesOf(fs)) \in LogSet
         /\ Describes(TrackAll(Empty, LinesOf(fs)), Values(rows, steps))
         /\ Len(LinesOf(fs)) = Len(rows)
         /\ \A i \in 1..Len(rows) : /\ LinesOf(fs)[i].step = Values(rows, steps)[i]
                                    /\ LinesOf(fs)[i].at = LineBytes * (i - 1)
  <1>1. PICK n \in Nat : n = Len(rows)
    OBVIOUS
  <1>2. PICK lines : lines = LinesOf(fs)
    OBVIOUS
  <1>3. lines = [i \in 1..n |-> LineAt(rows, i, LineBytes * n)]
    BY <1>1, <1>2, LinesOfSpelled
  <1>4. PICK vals : vals = Values(rows, steps)
    OBVIOUS
  <1>5. /\ vals \in Seq(Positive) /\ Len(vals) = n
        /\ \A i \in 1..n : vals[i] = steps[rows[i]]
    BY <1>1, <1>4, ValuesAre
  <1>6. lines \in Seq(LineSet(Len(steps)))
    BY <1>2, LinesOfType
  <1>7. Len(lines) = n
    BY <1>3, <1>6, LenProperties
  <1>8. ASSUME NEW i \in 1..n
        PROVE  lines[i].step = vals[i] /\ lines[i].at = LineBytes * (i - 1)
    <2>1. lines[i] = LineAt(rows, i, LineBytes * n)
      BY <1>3
    <2>2. LineBytes * i - 1 <= LineBytes * n
      BY DEF LineBytes
    <2> QED
      BY <1>5, <2>1, <2>2 DEF LineAt
  <1>9. PICK none : none = <<>>
    OBVIOUS
  <1>10. none \in Seq(Positive) /\ Len(none) = 0
    BY <1>9, EmptySeq
  <1>11. Empty \in LogSet /\ Describes(Empty, none)
    BY <1>9, NothingKnown
  <1>12. \A i \in 1..Len(vals) : /\ lines[i].step = vals[i]
                                 /\ lines[i].at = LineBytes * (Len(none) + i - 1)
    <2>1. ASSUME NEW i \in 1..n PROVE LineBytes * (Len(none) + i - 1) = LineBytes * (i - 1)
      BY <1>10
    <2> QED
      BY <1>5, <1>8, <2>1
  <1>13. Len(lines) = Len(vals)
    BY <1>5, <1>7
  <1>14. TrackAll(Empty, lines) \in LogSet /\ Describes(TrackAll(Empty, lines), none \o vals)
    BY <1>5, <1>10, <1>11, <1>12, <1>13, TrackAllDescribes
  <1>15. none \o vals = vals
    BY <1>5, <1>9, ConcatEmptySeq
  <1>16. Describes(TrackAll(Empty, lines), vals)
    BY <1>14, <1>15, Zenon
  <1> QED
    BY <1>1, <1>2, <1>4, <1>7, <1>8, <1>14, <1>16

-----------------------------------------------------------------------------
(* The invariant at the beginning                                          *)

LEMMA NoBytes ==
  ASSUME NEW fs, NEW k, Parted(fs, k), DOMAIN fs = {}
  PROVE  Total(LengthsOf(fs)) = 0
  <1>1. PICK L : L = LengthsOf(fs)
    OBVIOUS
  <1>2. Measured(L) /\ DOMAIN L = {}
    BY <1>1, LengthsAre
  <1>3. Total(L) = Before(L, 0)
    BY <1>2, TotalIs
  <1> QED
    BY <1>1, <1>2, <1>3, BeforeIs

LEMMA InitTyped ==
  ASSUME LogAssumption, Init
  PROVE  Typed
  <1>1. /\ files = <<>> /\ steps = <<>> /\ queue = <<>> /\ batch = <<>> /\ committed = <<>>
        /\ pc = "down" /\ todo = 1 /\ retry = FALSE /\ slipped = FALSE /\ mishaps = 0
        /\ active = 0 /\ activeSize = 0 /\ size = 0 /\ log = Empty /\ meta = NoMeta
        /\ undo.left = 0 /\ undo.parts = {}
    BY DEF Init
  <1>2. <<>> \in Seq(Steps) /\ Len(<<>>) = 0 /\ <<>> \in Seq(1..0) /\ DOMAIN <<>> = {}
    BY EmptySeq
  <1>3. Parted(files, Len(steps))
    <2>1. DOMAIN files \subseteq 0..0 /\ DOMAIN files = {} /\ 0 \in Nat
      BY <1>1, <1>2
    <2> QED
      BY <2>1 DEF Parted
  <1>4. Empty \in LogSet
    BY NothingKnown
  <1>5. steps \in Seq(Steps) /\ Len(steps) = 0
    BY <1>1, <1>2
  <1>6. /\ queue \in Seq(1..Len(steps)) /\ batch \in Seq(1..Len(steps))
        /\ committed \in Seq(1..Len(steps))
    BY <1>1, EmptySeq, Zenon
  <1>7. /\ 0 <= MaxRows /\ 0 \in 0..MaxMishaps
        /\ undo.parts \subseteq DOMAIN files
    BY <1>1 DEF LogAssumption
  <1>8. /\ pc \in {"down", "idle", "write", "rollback", "commit", "save"}
        /\ todo \in Nat \ {0} /\ active \in Nat /\ activeSize \in Nat /\ size \in Nat
        /\ mishaps \in 0..MaxMishaps /\ undo.left \in Nat
    BY <1>1, <1>7
  <1>9. retry \in BOOLEAN /\ slipped \in BOOLEAN
    BY <1>1
  <1>10. log \in LogSet /\ meta \in MetaSet \cup {NoMeta}
    BY <1>1, <1>4
  <1>11. /\ pc = "write" => todo <= Len(batch)
         /\ pc = "down" => queue = <<>> /\ batch = <<>> /\ todo = 1
    BY <1>1
  <1>12. Len(steps) <= MaxRows
    BY <1>5, <1>7
  <1> QED
    BY <1>3, <1>5, <1>6, <1>7, <1>8, <1>9, <1>10, <1>11, <1>12 DEF Typed

LEMMA InitSound ==
  ASSUME LogAssumption, Init, Typed
  PROVE  Sound
  <1>1. /\ files = <<>> /\ steps = <<>> /\ committed = <<>> /\ pc = "down" /\ meta = NoMeta
    BY DEF Init
  <1>2. PICK none : none = <<>>
    OBVIOUS
  <1>3. /\ \A S : none \in Seq(S)
        /\ Len(none) = 0 /\ DOMAIN none = {}
    BY <1>2, EmptySeq
  <1>4. Total(LengthsOf(none)) = 0
    <2>1. Parted(none, Len(steps))
      BY <1>1, <1>2 DEF Typed
    <2> QED
      BY <1>3, <2>1, NoBytes
  <1>5. Spells(none, none)
    BY <1>3, <1>4 DEF Spells, LineBytes
  <1>6. Rising(none)
    BY <1>3 DEF Rising
  <1>7. IsPrefix(none, none)
    <2>1. none \in Seq(Nat) /\ \A i \in 1..Len(none) : none[i] = none[i]
      BY <1>3
    <2>2. Len(none) <= Len(none)
      BY <1>3
    <2> QED
      BY <2>1, <2>2, PrefixIs
  <1>8. Held(files, committed, Len(steps), none)
    BY <1>1, <1>2, <1>3, <1>4, <1>5, <1>6, <1>7 DEF Held, LineBytes
  <1>9. MetaOf(meta, committed, steps)
    BY <1>1 DEF MetaOf
  <1> QED
    BY <1>1, <1>8, <1>9 DEF Sound

-----------------------------------------------------------------------------
(* A record is queued                                                      *)

LEMMA EnqueueTyped ==
  ASSUME LogAssumption, Typed, NEW s \in Steps, Enqueue(s)
  PROVE  Typed'
  <1>1. /\ pc # "down" /\ Len(steps) < MaxRows
        /\ steps' = Append(steps, s) /\ queue' = Append(queue, Len(steps'))
        /\ UNCHANGED <<files, meta, pc, batch, todo, undo, retry, active, activeSize, size, log,
                       slipped, committed, mishaps>>
    BY DEF Enqueue, diskVars, activeVars, ghostVars
  <1>2. PICK k \in Nat : k = Len(steps)
    <2>1. steps \in Seq(Steps)
      BY DEF Typed
    <2> QED
      BY <2>1
  <1>3. steps' \in Seq(Steps) /\ Len(steps') = k + 1 /\ k + 1 <= MaxRows
    <2>1. steps \in Seq(Steps)
      BY DEF Typed
    <2>2. Append(steps, s) \in Seq(Steps) /\ Len(Append(steps, s)) = Len(steps) + 1
      BY <2>1, AppendProperties
    <2> QED
      BY <1>1, <1>2, <2>2 DEF LogAssumption
  <1>4. \A t : t \in Seq(1..k) => t \in Seq(1..(k + 1))
    <2>1. 1..k \subseteq 1..(k + 1)
      OBVIOUS
    <2> QED
      BY <2>1, SeqMonotonic
  <1>5. queue \in Seq(1..(k + 1)) /\ batch' \in Seq(1..(k + 1)) /\ committed' \in Seq(1..(k + 1))
    BY <1>1, <1>2, <1>4 DEF Typed
  <1>6. queue' \in Seq(1..(k + 1))
    <2>1. k + 1 \in 1..(k + 1)
      OBVIOUS
    <2>2. queue' = Append(queue, k + 1)
      BY <1>1, <1>3
    <2> QED
      BY <1>5, <2>1, <2>2, AppendProperties
  <1>7. Parted(files', k + 1)
    <2>1. Parted(files, k)
      BY <1>2 DEF Typed
    <2>2. ByteSet(k) \subseteq ByteSet(k + 1)
      BY DEF ByteSet
    <2>3. \A t : t \in Seq(ByteSet(k)) => t \in Seq(ByteSet(k + 1))
      BY <2>2, SeqMonotonic
    <2> QED
      BY <1>1, <2>1, <2>3 DEF Parted
  <1> QED
    BY <1>1, <1>3, <1>5, <1>6, <1>7 DEF Typed

\* The records the writer answers for.
LEMMA Joined ==
  ASSUME NEW S, NEW a \in Seq(S), NEW b \in Seq(S), NEW q \in Seq(S)
  PROVE  /\ a \o (b \o q) \in Seq(S) /\ Len(a \o (b \o q)) = Len(a) + (Len(b) + Len(q))
         /\ \A i \in 1..Len(a) : (a \o (b \o q))[i] = a[i]
         /\ \A i \in 1..Len(b) : (a \o (b \o q))[Len(a) + i] = b[i]
  <1>1. PICK l, m, n \in Nat : l = Len(a) /\ m = Len(b) /\ n = Len(q)
    OBVIOUS
  <1>2. PICK t : t = b \o q
    OBVIOUS
  <1>3. /\ t \in Seq(S) /\ Len(t) = m + n
        /\ \A i \in 1..(m + n) : t[i] = IF i <= m THEN b[i] ELSE q[i - m]
    BY <1>1, <1>2, ConcatProperties
  <1>4. PICK w : w = a \o t
    OBVIOUS
  <1>5. /\ w \in Seq(S) /\ Len(w) = l + (m + n)
        /\ \A i \in 1..(l + (m + n)) : w[i] = IF i <= l THEN a[i] ELSE t[i - l]
    <2>1. /\ a \o t \in Seq(S) /\ Len(a \o t) = Len(a) + Len(t)
          /\ \A i \in 1..(Len(a) + Len(t)) :
               (a \o t)[i] = IF i <= Len(a) THEN a[i] ELSE t[i - Len(a)]
      BY <1>3, ConcatProperties
    <2> QED
      BY <1>1, <1>3, <1>4, <2>1, Zenon
  <1>6. ASSUME NEW i \in 1..l PROVE w[i] = a[i]
    <2>1. i \in 1..(l + (m + n)) /\ i <= l
      OBVIOUS
    <2> QED
      BY <1>5, <2>1
  <1>7. ASSUME NEW i \in 1..m PROVE w[l + i] = b[i]
    <2>1. l + i \in 1..(l + (m + n)) /\ ~(l + i <= l) /\ (l + i) - l = i
      OBVIOUS
    <2>2. w[l + i] = t[i]
      BY <1>5, <2>1
    <2>3. i \in 1..(m + n) /\ i <= m
      OBVIOUS
    <2>4. t[i] = b[i]
      BY <1>3, <2>3
    <2> QED
      BY <2>2, <2>4
  <1> QED
    BY <1>1, <1>2, <1>4, <1>5, <1>6, <1>7

JoinsAs(a, b, q, x) == a \o (b \o Append(q, x)) = Append(a \o (b \o q), x)

LEMMA JoinedAppend ==
  ASSUME NEW S, NEW a \in Seq(S), NEW b \in Seq(S), NEW q \in Seq(S), NEW x \in S
  PROVE  JoinsAs(a, b, q, x)
  <1>1. PICK one : one = <<x>>
    OBVIOUS
  <1>2. one \in Seq(S)
    BY <1>1
  <1>3. Append(q, x) = q \o one
    BY <1>1, AppendIsConcat
  <1>4. b \o (q \o one) = (b \o q) \o one
    BY <1>2, SMTT(40)
  <1>5. b \o q \in Seq(S)
    BY ConcatProperties
  <1>6. a \o ((b \o q) \o one) = (a \o (b \o q)) \o one
    BY <1>2, <1>5, SMTT(40)
  <1>7. a \o (b \o q) \in Seq(S)
    BY <1>5, ConcatProperties
  <1>8. Append(a \o (b \o q), x) = (a \o (b \o q)) \o one
    BY <1>1, <1>7, AppendIsConcat
  <1> QED
    BY <1>3, <1>4, <1>6, <1>8, Zenon DEF JoinsAs

LEMMA RisingAppend ==
  ASSUME NEW k \in Nat, NEW rows \in Seq(1..k), Rising(rows)
  PROVE  Rising(Append(rows, k + 1))
  <1>1. PICK n \in Nat : n = Len(rows)
    OBVIOUS
  <1>2. rows \in Seq(Nat)
    <2>1. 1..k \subseteq Nat
      OBVIOUS
    <2> QED
      BY <2>1, SeqMonotonic
  <1>3. PICK t : t = Append(rows, k + 1)
    OBVIOUS
  <1>4. /\ Len(t) = n + 1 /\ t[n + 1] = k + 1
        /\ \A i \in 1..n : t[i] = rows[i]
    BY <1>1, <1>2, <1>3, AppendProperties
  <1>5. ASSUME NEW i \in 2..(n + 1) PROVE t[i - 1] < t[i]
    <2>1. i - 1 \in 1..n
      OBVIOUS
    <2>2. CASE i = n + 1
      <3>1. rows[i - 1] \in 1..k
        BY <1>1, <2>1
      <3>2. t[i - 1] = rows[i - 1] /\ t[i] = k + 1
        BY <1>4, <2>1, <2>2
      <3> QED
        BY <3>1, <3>2
    <2>3. CASE i # n + 1
      <3>1. i \in 1..n /\ i \in 2..n
        BY <2>3
      <3>2. rows[i - 1] < rows[i]
        BY <1>1, <3>1 DEF Rising
      <3> QED
        BY <1>4, <2>1, <3>1, <3>2
    <2> QED
      BY <2>2, <2>3
  <1> QED
    BY <1>3, <1>4, <1>5 DEF Rising

\* The metadata of acknowledged records stays theirs.
LEMMA MetaStays ==
  ASSUME NEW st \in Seq(Steps), NEW done \in Seq(1..Len(st)), NEW m, MetaOf(m, done, st),
         NEW more \in Seq(1..Len(st)), IsPrefix(done, more)
  PROVE  /\ MetaOf(m, more, st)
         /\ \A s \in Steps : MetaOf(m, done, Append(st, s))
  <1>1. CASE m = NoMeta
    BY <1>1 DEF MetaOf
  <1>2. CASE m # NoMeta
    <2>1. PICK k \in 0..Len(done) :
            /\ m.size = LineBytes * k
            /\ Describes(m, Values(SubSeq(done, 1, k), st))
      BY <1>2 DEF MetaOf
    <2>2. PICK t : t = SubSeq(done, 1, k)
      OBVIOUS
    <2>3. t \in Seq(1..Len(st)) /\ Len(t) = k /\ \A i \in 1..k : t[i] = done[i]
      BY <2>2, CutTo
    <2>4. Len(done) <= Len(more) /\ \A i \in 1..Len(done) : done[i] = more[i]
      BY PrefixIs
    <2>5. k \in 0..Len(more)
      BY <2>4
    <2>6. SubSeq(more, 1, k) = t
      <3>1. PICK u : u = SubSeq(more, 1, k)
        OBVIOUS
      <3>2. u \in Seq(1..Len(st)) /\ Len(u) = k /\ \A i \in 1..k : u[i] = more[i]
        BY <2>5, <3>1, CutTo
      <3>3. \A i \in 1..k : i \in 1..Len(done)
        BY <2>1
      <3>4. u = t
        BY <2>3, <2>4, <3>2, <3>3, SeqEqual
      <3> QED
        BY <3>1, <3>4
    <2>7. Describes(m, Values(t, st))
      BY <2>1, <2>2, Zenon
    <2>8. MetaOf(m, more, st)
      BY <2>1, <2>5, <2>6, <2>7, Zenon DEF MetaOf
    <2>9. ASSUME NEW s \in Steps PROVE MetaOf(m, done, Append(st, s))
      <3>1. Values(t, Append(st, s)) = Values(t, st)
        BY <2>3, ValuesGrow
      <3>2. Describes(m, Values(SubSeq(done, 1, k), Append(st, s)))
        BY <2>2, <2>7, <3>1, Zenon
      <3> QED
        BY <2>1, <3>2 DEF MetaOf
    <2> QED
      BY <2>8, <2>9
  <1> QED
    BY <1>1, <1>2

\* While nothing has slipped and there is a writer.
LEMMA AtWork ==
  ASSUME Typed, Sound, pc # "down"
  PROVE  /\ Rising(Accepted) /\ size = LineBytes * Len(committed)
         /\ Describes(log, Values(committed, steps))
         /\ pc = "rollback" => Undoing(undo.left, undo.parts, files, size)
         /\ Accepted \in Seq(1..Len(steps))
         /\ Len(Accepted) = Len(committed) + (Len(batch) + Len(queue))
         /\ steps \in Seq(Steps)
  <1>1. /\ committed \in Seq(1..Len(steps)) /\ batch \in Seq(1..Len(steps))
        /\ queue \in Seq(1..Len(steps)) /\ steps \in Seq(Steps)
    BY DEF Typed
  <1>2. Accepted \in Seq(1..Len(steps)) /\ Len(Accepted) = Len(committed) + (Len(batch) + Len(queue))
    BY <1>1, Joined, ZenonT(30) DEF Accepted
  <1>3. Working
    BY DEF Sound
  <1> QED
    BY <1>1, <1>2, <1>3, Zenon DEF Working

LEMMA FirstOfAppend ==
  ASSUME NEW S, NEW s \in Seq(S), NEW x \in S, NEW m \in 0..Len(s)
  PROVE  SubSeq(Append(s, x), 1, m) = SubSeq(s, 1, m)
  <1>1. PICK n \in Nat : n = Len(s)
    OBVIOUS
  <1>2. PICK t : t = Append(s, x)
    OBVIOUS
  <1>3. t \in Seq(S) /\ Len(t) = n + 1 /\ \A i \in 1..n : t[i] = s[i]
    BY <1>1, <1>2, AppendProperties
  <1>4. PICK u, v : u = SubSeq(t, 1, m) /\ v = SubSeq(s, 1, m)
    OBVIOUS
  <1>5. u \in Seq(S) /\ Len(u) = m /\ \A i \in 1..m : u[i] = t[i]
    BY <1>1, <1>3, <1>4, CutTo
  <1>6. v \in Seq(S) /\ Len(v) = m /\ \A i \in 1..m : v[i] = s[i]
    BY <1>4, CutTo
  <1>7. u = v
    BY <1>1, <1>3, <1>5, <1>6, SeqEqual
  <1> QED
    BY <1>2, <1>4, <1>7

LEMMA EnqueueSound ==
  ASSUME LogAssumption, Typed, Typed', Sound, NEW s \in Steps, Enqueue(s)
  PROVE  Sound'
  <1>1. /\ pc # "down" /\ steps' = Append(steps, s) /\ queue' = Append(queue, Len(steps'))
        /\ UNCHANGED <<files, meta, pc, batch, todo, undo, retry, active, activeSize, size, log,
                       slipped, committed, mishaps>>
    BY DEF Enqueue, diskVars, activeVars, ghostVars
  <1>2. /\ steps \in Seq(Steps) /\ committed \in Seq(1..Len(steps))
        /\ batch \in Seq(1..Len(steps)) /\ queue \in Seq(1..Len(steps)) /\ todo \in Nat \ {0}
    BY DEF Typed
  <1>3. PICK k \in Nat : k = Len(steps)
    BY <1>2
  <1>4. Len(steps') = k + 1
    BY <1>1, <1>2, <1>3, AppendProperties
  <1>5. \A t : t \in Seq(1..k) => t \in Seq(1..(k + 1))
    <2>1. 1..k \subseteq 1..(k + 1)
      OBVIOUS
    <2> QED
      BY <2>1, SeqMonotonic
  <1>6. PICK A : A = Accepted
    OBVIOUS
  <1>7. A \in Seq(1..k) /\ Rising(A) /\ Len(A) = Len(committed) + (Len(batch) + Len(queue))
    BY <1>1, <1>3, <1>6, AtWork
  <1>8. Accepted' = Append(A, k + 1)
    <2>1. committed \in Seq(1..(k + 1)) /\ batch \in Seq(1..(k + 1)) /\ queue \in Seq(1..(k + 1))
      BY <1>2, <1>3, <1>5
    <2>2. k + 1 \in 1..(k + 1)
      OBVIOUS
    <2>3. committed \o (batch \o Append(queue, k + 1)) = Append(committed \o (batch \o queue), k + 1)
      <3>1. PICK S, x : S = 1..(k + 1) /\ x = k + 1
        OBVIOUS
      <3>2. PICK a, b, q : a = committed /\ b = batch /\ q = queue
        OBVIOUS
      <3>3. a \in Seq(S) /\ b \in Seq(S) /\ q \in Seq(S) /\ x \in S
        BY <2>1, <2>2, <3>1, <3>2
      <3>4. JoinsAs(a, b, q, x)
        BY <3>3, JoinedAppend
      <3> QED
        BY <3>1, <3>2, <3>4, Zenon DEF JoinsAs
    <2>4. queue' = Append(queue, k + 1)
      BY <1>1, <1>4
    <2> QED
      BY <1>1, <1>6, <2>3, <2>4, Zenon DEF Accepted
  <1>9. Rising(Accepted')
    BY <1>7, <1>8, RisingAppend
  <1>10. Values(committed, steps') = Values(committed, steps)
    BY <1>1, <1>2, ValuesGrow
  <1>11. Working'
    <2>1. Describes(log', Values(committed', steps'))
      BY <1>1, <1>10, AtWork
    <2>2. size' = LineBytes * Len(committed')
      BY <1>1, AtWork
    <2>3. pc' = "rollback" => Undoing(undo.left, undo.parts, files, size)'
      BY <1>1, AtWork
    <2> QED
      BY <1>9, <2>1, <2>2, <2>3 DEF Working
  <1>12. MetaOf(meta', committed', steps')
    <2>1. MetaOf(meta, committed, steps)
      BY DEF Sound
    <2>2. IsPrefix(committed, committed)
      BY <1>2, PrefixIs
    <2>3. MetaOf(meta, committed, Append(steps, s))
      BY <1>2, <2>1, <2>2, MetaStays
    <2> QED
      BY <1>1, <2>3, Zenon
  <1>13. PICK rows : /\ Held(files, committed, Len(steps), rows)
                     /\ pc \notin {"down", "rollback"} => Stage(rows)
    BY DEF Sound
  <1>14. Held(files', committed', Len(steps'), rows)
    BY <1>1, <1>3, <1>4, <1>5, <1>13 DEF Held
  <1>15. ASSUME pc \notin {"down", "rollback"} PROVE Stage(rows)'
    <2>1. Stage(rows)
      BY <1>13, <1>15
    <2>2. PICK c, b, d, q \in Nat : /\ c = Len(committed) /\ b = Len(batch) /\ d = todo - 1
                                    /\ q = Len(queue)
      <3>1. Len(committed) \in Nat /\ Len(batch) \in Nat /\ Len(queue) \in Nat
        BY <1>2
      <3>2. todo - 1 \in Nat
        BY <1>2
      <3> QED
        BY <3>1, <3>2
    <2>3. d <= b
      BY <2>1, <2>2 DEF Stage
    <2>4. c + d \in 0..Len(A)
      BY <1>7, <2>2, <2>3
    <2>5. k + 1 \in 1..(k + 1) /\ A \in Seq(1..(k + 1))
      BY <1>5, <1>7
    <2>6. SubSeq(Append(A, k + 1), 1, c + d) = SubSeq(A, 1, c + d)
      BY <2>4, <2>5, FirstOfAppend
    <2>7. rows = SubSeq(A, 1, c + d)
      BY <1>6, <2>1, <2>2 DEF Stage
    <2>8. rows = SubSeq(Accepted', 1, Len(committed') + (todo' - 1))
      BY <1>1, <1>8, <2>2, <2>6, <2>7
    <2>9. /\ Total(Lengths) = LineBytes * Len(rows)
          /\ \A n \in DOMAIN files : n <= active
          /\ activeSize = Len(Contents(active))
          /\ todo - 1 <= Len(batch)
          /\ pc \in {"idle", "save"} => batch = <<>> /\ todo = 1
          /\ pc = "commit" => todo - 1 = Len(batch)
          /\ pc # "write" => active = LastOf(DOMAIN files)
      BY <2>1 DEF Stage
    <2> QED
      BY <1>1, <2>8, <2>9 DEF Stage, Lengths, Contents
  <1> QED
    BY <1>1, <1>11, <1>12, <1>13, <1>14, <1>15 DEF Sound

-----------------------------------------------------------------------------
(* The steps that leave the parts alone                                    *)

LEMMA TakeBatchTyped ==
  ASSUME Typed, TakeBatch
  PROVE  Typed'
  <1>1. /\ queue # <<>> /\ batch' = queue /\ queue' = <<>> /\ todo' = 1 /\ pc' = "write"
        /\ UNCHANGED <<files, meta, steps, undo, retry, active, activeSize, size, log, slipped,
                       committed, mishaps>>
    BY DEF TakeBatch, diskVars, activeVars, ghostVars
  <1>2. queue' \in Seq(1..Len(steps')) /\ batch' \in Seq(1..Len(steps'))
    BY <1>1, EmptySeq DEF Typed
  <1>3. todo' <= Len(batch') /\ todo' \in Nat \ {0}
    <2>1. queue \in Seq(1..Len(steps)) /\ queue # <<>>
      BY <1>1 DEF Typed
    <2>2. Len(queue) # 0 /\ Len(queue) \in Nat
      BY <2>1, EmptySeq
    <2> QED
      BY <1>1, <2>2
  <1> QED
    BY <1>1, <1>2, <1>3 DEF Typed

LEMMA TakeBatchSound ==
  ASSUME Typed, Sound, TakeBatch
  PROVE  Sound'
  <1>1. /\ pc = "idle" /\ batch' = queue /\ queue' = <<>> /\ todo' = 1 /\ pc' = "write"
        /\ UNCHANGED <<files, meta, steps, undo, retry, active, activeSize, size, log, slipped,
                       committed, mishaps>>
    BY DEF TakeBatch, diskVars, activeVars, ghostVars
  <1>2. PICK rows : Held(files, committed, Len(steps), rows) /\ Stage(rows)
    BY <1>1 DEF Sound
  <1>3. /\ rows = SubSeq(Accepted, 1, Len(committed) + (todo - 1))
        /\ Total(Lengths) = LineBytes * Len(rows)
        /\ \A n \in DOMAIN files : n <= active
        /\ activeSize = Len(Contents(active))
        /\ batch = <<>> /\ todo = 1
    BY <1>1, <1>2 DEF Stage
  <1>4. Accepted' = Accepted
    <2>1. queue \in Seq(1..Len(steps))
      BY DEF Typed
    <2>2. queue \o <<>> = queue /\ <<>> \o queue = queue
      BY <2>1, ConcatEmptySeq
    <2> QED
      BY <1>1, <1>3, <2>2, Zenon DEF Accepted
  <1>5. queue \in Seq(1..Len(steps))
    BY DEF Typed
  <1>6. Stage(rows)'
    BY <1>1, <1>3, <1>4, <1>5 DEF Stage, Lengths, Contents
  <1>7. Working'
    <2>1. Working
      BY <1>1 DEF Sound
    <2> QED
      BY <1>1, <1>4, <2>1 DEF Working
  <1> QED
    BY <1>1, <1>2, <1>6, <1>7 DEF Sound

LEMMA RotateTyped ==
  ASSUME Typed, Rotate
  PROVE  Typed'
  BY DEF Typed, Rotate, diskVars, batchVars, ghostVars

LEMMA RotateSound ==
  ASSUME Typed, Sound, Rotate
  PROVE  Sound'
  <1>1. /\ pc = "write" /\ active' = active + 1 /\ activeSize' = 0
        /\ UNCHANGED <<files, meta, pc, steps, queue, batch, todo, undo, retry, size, log, slipped,
                       committed, mishaps>>
    BY DEF Rotate, diskVars, batchVars, ghostVars
  <1>2. PICK rows : Held(files, committed, Len(steps), rows) /\ Stage(rows)
    BY <1>1 DEF Sound
  <1>3. /\ rows = SubSeq(Accepted, 1, Len(committed) + (todo - 1))
        /\ Total(Lengths) = LineBytes * Len(rows)
        /\ \A n \in DOMAIN files : n <= active
        /\ todo - 1 <= Len(batch)
    BY <1>2 DEF Stage
  <1>4. active \in Nat /\ \A n \in DOMAIN files : n \in Nat
    BY DEF Typed, Parted
  <1>5. active + 1 \notin DOMAIN files
    BY <1>3, <1>4
  <1>6. Contents(active + 1) = <<>>
    BY <1>5, Zenon DEF Contents, ContentsIn
  <1>7. Contents(active)' = <<>>
    BY <1>1, <1>6, Zenon DEF Contents
  <1>8. Len(<<>>) = 0
    BY EmptySeq
  <1>9. activeSize' = Len(Contents(active)')
    BY <1>1, <1>7, <1>8, Zenon
  <1>10. Accepted' = Accepted /\ Lengths' = Lengths
    BY <1>1 DEF Accepted, Lengths
  <1>11. \A n \in DOMAIN files : n <= active + 1
    BY <1>3, <1>4
  <1>12. Stage(rows)'
    BY <1>1, <1>3, <1>9, <1>10, <1>11 DEF Stage
  <1>13. Working'
    <2>1. Working
      BY <1>1 DEF Sound
    <2> QED
      BY <1>1, <1>10, <2>1 DEF Working
  <1> QED
    BY <1>1, <1>2, <1>12, <1>13 DEF Sound

\* What is saved is what is known of all acknowledged records.
LEMMA Saved ==
  ASSUME LogAssumption, Typed, Sound, pc # "down"
  PROVE  Metadata \in MetaSet /\ MetaOf(Metadata, committed, steps)
  <1>1. size \in Nat /\ log \in LogSet /\ committed \in Seq(1..Len(steps))
    BY DEF Typed
  <1>2. size = LineBytes * Len(committed) /\ Describes(log, Values(committed, steps))
    BY AtWork
  <1>3. Metadata \in MetaSet /\ Metadata.size = size /\ Describes(Metadata, Values(committed, steps))
    BY <1>1, <1>2, MetadataIs
  <1>4. PICK k \in 0..Len(committed) : k = Len(committed)
    BY <1>1
  <1>5. SubSeq(committed, 1, k) = committed
    BY <1>1, <1>4, SubSeqFull
  <1>6. Describes(Metadata, Values(SubSeq(committed, 1, k), steps))
    BY <1>3, <1>5, Zenon
  <1> QED
    BY <1>2, <1>3, <1>4, <1>6 DEF MetaOf

LEMMA SaveMetaTyped ==
  ASSUME Typed, SaveMeta
  PROVE  Typed'
  <1>1. meta' \in MetaSet \cup {NoMeta}
    <2>1. size \in Nat /\ log \in LogSet /\ meta \in MetaSet \cup {NoMeta}
      BY DEF Typed
    <2>2. Metadata \in MetaSet
      BY <2>1, MetadataIs
    <2> QED
      BY <2>1, <2>2 DEF SaveMeta
  <1>2. /\ pc' = "idle"
        /\ UNCHANGED <<files, steps, queue, batch, todo, undo, retry, active, activeSize, size, log,
                       slipped, committed, mishaps>>
    BY DEF SaveMeta, batchVars, activeVars, ghostVars
  <1> QED
    BY <1>1, <1>2 DEF Typed

LEMMA SaveMetaSound ==
  ASSUME LogAssumption, Typed, Sound, SaveMeta
  PROVE  Sound'
  <1>1. /\ pc = "save" /\ pc' = "idle" /\ meta' \in {meta, Metadata}
        /\ UNCHANGED <<files, steps, queue, batch, todo, undo, retry, active, activeSize, size, log,
                       slipped, committed, mishaps>>
    BY DEF SaveMeta, batchVars, activeVars, ghostVars
  <1>2. PICK rows : Held(files, committed, Len(steps), rows) /\ Stage(rows)
    BY <1>1 DEF Sound
  <1>3. Stage(rows)'
    BY <1>1, <1>2 DEF Stage, Accepted, Lengths, Contents
  <1>4. Working'
    BY <1>1 DEF Sound, Working, Accepted
  <1>5. MetaOf(meta', committed, steps)
    <2>1. MetaOf(Metadata, committed, steps)
      BY <1>1, Saved
    <2>2. MetaOf(meta, committed, steps)
      BY DEF Sound
    <2> QED
      BY <1>1, <2>1, <2>2
  <1> QED
    BY <1>1, <1>2, <1>3, <1>4, <1>5 DEF Sound

LEMMA ForgetTyped ==
  ASSUME LogAssumption, Forget, committed \in Seq(1..Len(steps)), steps \in Seq(Steps), Len(steps) <= MaxRows,
         Parted(files', Len(steps)), UNCHANGED <<steps, slipped, committed>>,
         slipped \in BOOLEAN, mishaps' \in 0..MaxMishaps, meta' \in MetaSet \cup {NoMeta}
  PROVE  Typed'
  <1>1. /\ pc' = "down" /\ queue' = <<>> /\ batch' = <<>> /\ todo' = 1 /\ retry' = FALSE
        /\ undo'.left = 0 /\ undo'.parts = {} /\ active' = 0 /\ activeSize' = 0 /\ size' = 0
        /\ log' = Empty
    BY DEF Forget
  <1>2. queue' \in Seq(1..Len(steps')) /\ batch' \in Seq(1..Len(steps'))
    BY <1>1, EmptySeq, Zenon
  <1>3. log' \in LogSet
    BY <1>1, NothingKnown
  <1>4. /\ pc' \in {"down", "idle", "write", "rollback", "commit", "save"}
        /\ todo' \in Nat \ {0} /\ active' \in Nat /\ activeSize' \in Nat /\ size' \in Nat
        /\ undo'.left \in Nat /\ undo'.parts \subseteq DOMAIN files'
    BY <1>1
  <1>5. /\ pc' = "write" => todo' <= Len(batch')
        /\ pc' = "down" => queue' = <<>> /\ batch' = <<>> /\ todo' = 1
    BY <1>1
  <1>6. retry' \in BOOLEAN /\ slipped' \in BOOLEAN
    BY <1>1
  <1> QED
    BY <1>2, <1>3, <1>4, <1>5, <1>6 DEF Typed

LEMMA CloseTyped ==
  ASSUME LogAssumption, Typed, Close
  PROVE  Typed'
  <1>1. meta' \in MetaSet \cup {NoMeta}
    <2>1. size \in Nat /\ log \in LogSet /\ meta \in MetaSet \cup {NoMeta}
      BY DEF Typed
    <2>2. Metadata \in MetaSet
      BY <2>1, MetadataIs
    <2> QED
      BY <2>1, <2>2 DEF Close
  <1>2. Forget /\ UNCHANGED <<files, steps, slipped, committed, mishaps>>
    BY DEF Close, ghostVars
  <1>3. /\ committed \in Seq(1..Len(steps)) /\ steps \in Seq(Steps) /\ Len(steps) <= MaxRows
        /\ Parted(files, Len(steps)) /\ slipped \in BOOLEAN /\ mishaps \in 0..MaxMishaps
    BY DEF Typed
  <1> QED
    BY <1>1, <1>2, <1>3, ForgetTyped

LEMMA CloseSound ==
  ASSUME LogAssumption, Typed, Sound, Close
  PROVE  Sound'
  <1>1. /\ pc = "idle" /\ pc' = "down" /\ meta' \in {meta, Metadata}
        /\ UNCHANGED <<files, steps, slipped, committed, mishaps>>
    BY DEF Close, Forget, ghostVars
  <1>2. PICK rows : Held(files, committed, Len(steps), rows)
    BY DEF Sound
  <1>3. MetaOf(meta', committed, steps)
    <2>1. MetaOf(Metadata, committed, steps)
      BY <1>1, Saved
    <2>2. MetaOf(meta, committed, steps)
      BY DEF Sound
    <2> QED
      BY <1>1, <2>1, <2>2
  <1> QED
    BY <1>1, <1>2, <1>3 DEF Sound

-----------------------------------------------------------------------------
(* A rollback                                                              *)

\* The batch back in front of the queue.
LEMMA RequeueTyped ==
  ASSUME Typed, Requeue, UNCHANGED <<files, meta, steps, size, committed>>,
         active' \in Nat, activeSize' \in Nat, log' \in LogSet, slipped' \in BOOLEAN,
         mishaps' \in 0..MaxMishaps
  PROVE  Typed'
  <1>1. /\ queue' = batch \o queue /\ batch' = <<>> /\ todo' = 1 /\ retry' = TRUE
        /\ undo'.left = 0 /\ undo'.parts = {} /\ pc' = "idle"
    BY DEF Requeue
  <1>2. queue' \in Seq(1..Len(steps'))
    <2>1. queue \in Seq(1..Len(steps)) /\ batch \in Seq(1..Len(steps))
      BY DEF Typed
    <2> QED
      BY <1>1, <2>1, ConcatProperties
  <1>3. batch' \in Seq(1..Len(steps'))
    BY <1>1, EmptySeq, Zenon
  <1>4. /\ steps' \in Seq(Steps) /\ Len(steps') <= MaxRows /\ Parted(files', Len(steps'))
        /\ committed' \in Seq(1..Len(steps')) /\ size' \in Nat /\ meta' \in MetaSet \cup {NoMeta}
    BY DEF Typed
  <1>5. /\ pc' \in {"down", "idle", "write", "rollback", "commit", "save"}
        /\ todo' \in Nat \ {0} /\ undo'.left \in Nat /\ undo'.parts \subseteq DOMAIN files'
    BY <1>1
  <1>6. retry' \in BOOLEAN
    BY <1>1
  <1>7. /\ pc' = "write" => todo' <= Len(batch')
        /\ pc' = "down" => queue' = <<>> /\ batch' = <<>> /\ todo' = 1
    BY <1>1
  <1> QED
    BY <1>2, <1>3, <1>4, <1>5, <1>6, <1>7 DEF Typed

LEMMA RolledBackTyped ==
  ASSUME Typed, RolledBack
  PROVE  Typed'
  <1>1. /\ active' = LastOf(DOMAIN files) /\ activeSize' = Len(Contents(LastOf(DOMAIN files)))
        /\ Requeue
        /\ UNCHANGED <<files, meta, steps, size, log, slipped, committed, mishaps>>
    BY DEF RolledBack, diskVars, ghostVars
  <1>2. Parted(files, Len(steps)) /\ log \in LogSet /\ slipped \in BOOLEAN /\ mishaps \in 0..MaxMishaps
    BY DEF Typed
  <1>3. active' \in Nat
    <2>1. PICK top \in Nat : DOMAIN files \subseteq 0..top
      BY <1>2 DEF Parted
    <2>2. LastOf(DOMAIN files) \in 0..top
      BY <2>1, LastIs
    <2> QED
      BY <1>1, <2>2
  <1>4. activeSize' \in Nat
    <2>1. PICK p : p = LastOf(DOMAIN files)
      OBVIOUS
    <2>2. p \in Nat
      BY <1>1, <1>3, <2>1
    <2>3. LengthIn(LengthsOf(files), p) = Len(ContentsIn(files, p))
      BY <1>2, LengthsAre
    <2>4. LengthIn(LengthsOf(files), p) \in Nat
      BY <1>2, <2>2, LengthsAre, LengthInNat
    <2> QED
      BY <1>1, <2>1, <2>3, <2>4 DEF Contents
  <1> QED
    BY <1>1, <1>2, <1>3, <1>4, RequeueTyped

LEMMA RollbackFailsTyped ==
  ASSUME LogAssumption, Typed, RollbackFails
  PROVE  Typed'
  <1>1. /\ Requeue /\ UNCHANGED <<files, meta, steps, active, activeSize, size, committed>>
        /\ slipped' = TRUE /\ log' = [log EXCEPT !.dups = TRUE]
        /\ mishaps < MaxMishaps /\ mishaps' = mishaps + 1
    BY DEF RollbackFails, diskVars, activeVars, Mishap
  <1>2. log' \in LogSet
    <2>1. log \in LogSet
      BY DEF Typed
    <2> QED
      BY <1>1, <2>1 DEF LogSet
  <1>3. mishaps' \in 0..MaxMishaps /\ active' \in Nat /\ activeSize' \in Nat
    <2>1. active \in Nat /\ activeSize \in Nat /\ mishaps \in 0..MaxMishaps /\ MaxMishaps \in Nat
      BY DEF Typed, LogAssumption
    <2> QED
      BY <1>1, <2>1
  <1>4. slipped' \in BOOLEAN
    BY <1>1
  <1> QED
    BY <1>1, <1>2, <1>3, <1>4, RequeueTyped

LEMMA RolledBackSound ==
  ASSUME LogAssumption, Typed, Sound, RolledBack
  PROVE  Sound'
  <1>1. /\ pc = "rollback" /\ undo.parts = {} /\ pc' = "idle"
        /\ active' = LastOf(DOMAIN files) /\ activeSize' = Len(Contents(LastOf(DOMAIN files)))
        /\ queue' = batch \o queue /\ batch' = <<>> /\ todo' = 1
        /\ UNCHANGED <<files, meta, steps, size, log, slipped, committed, mishaps>>
    BY DEF RolledBack, diskVars, ghostVars, Requeue
  <1>2. /\ Parted(files, Len(steps)) /\ committed \in Seq(1..Len(steps))
        /\ batch \in Seq(1..Len(steps)) /\ queue \in Seq(1..Len(steps)) /\ undo.left \in Nat
    BY DEF Typed
  <1>3. PICK rows : Held(files, committed, Len(steps), rows)
    BY DEF Sound
  <1>4. /\ Spells(files, rows) /\ rows \in Seq(1..Len(steps)) /\ IsPrefix(committed, rows)
        /\ LineBytes * Len(committed) <= Total(LengthsOf(files))
    BY <1>3 DEF Held
  <1>5. PICK c, r, left \in Nat : c = Len(committed) /\ r = Len(rows) /\ left = undo.left
    BY <1>2, <1>4
  <1>6. size = LineBytes * c /\ Undoing(undo.left, undo.parts, files, size)
    BY <1>1, <1>5, AtWork
  <1>7. PICK next \in Nat : /\ undo.parts = {n \in DOMAIN files : n >= next}
                            /\ undo.left + Before(LengthsOf(files), next) = size
    BY <1>6 DEF Undoing
  <1>8. PICK L : L = LengthsOf(files)
    OBVIOUS
  <1>9. Measured(L) /\ DOMAIN L = DOMAIN files
    BY <1>2, <1>8, LengthsAre
  <1>10. \A n \in DOMAIN L : n < next
    <2>1. \A n \in DOMAIN files : n \in Nat
      BY <1>2 DEF Parted
    <2> QED
      BY <1>1, <1>7, <1>9, <2>1
  <1>11. Total(L) = Before(L, next) /\ Total(L) \in Nat
    BY <1>9, <1>10, TotalIs
  <1>12. PICK t \in Nat : t = Total(L)
    BY <1>11
  <1>13. left + t = 3 * c /\ 3 * c <= t
    BY <1>4, <1>5, <1>6, <1>7, <1>8, <1>11, <1>12 DEF LineBytes
  <1>14. t = 3 * c
    BY <1>13
  <1>15. t <= 3 * r /\ 3 * r < t + 3
    BY <1>4, <1>5, <1>8, <1>12 DEF Spells, LineBytes
  <1>16. r = c
    BY <1>14, <1>15
  <1>17. rows = committed
    <2>1. committed = SubSeq(rows, 1, Len(committed))
      BY <1>2, <1>4, PrefixIs
    <2> QED
      BY <1>4, <1>5, <1>16, <2>1, SubSeqFull
  <1>18. PICK A : A = Accepted
    OBVIOUS
  <1>19. Accepted' = A
    <2>1. batch \o queue \in Seq(1..Len(steps))
      BY <1>2, ConcatProperties
    <2>2. <<>> \o (batch \o queue) = batch \o queue
      BY <2>1, ConcatEmptySeq
    <2> QED
      BY <1>1, <1>18, <2>2, Zenon DEF Accepted
  <1>20. SubSeq(A, 1, c) = committed
    <2>1. A = committed \o (batch \o queue)
      BY <1>18 DEF Accepted
    <2>2. /\ A \in Seq(1..Len(steps)) /\ Len(A) = Len(committed) + (Len(batch) + Len(queue))
          /\ \A i \in 1..Len(committed) : A[i] = committed[i]
      BY <1>2, <2>1, Joined
    <2>3. Len(batch) \in Nat /\ Len(queue) \in Nat
      BY <1>2
    <2>4. Len(committed) <= Len(A)
      BY <1>5, <2>2, <2>3
    <2>5. IsPrefix(committed, A)
      BY <1>2, <2>2, <2>4, PrefixIs
    <2> QED
      BY <1>2, <1>5, <2>2, <2>5, PrefixIs
  <1>21. Stage(rows)'
    <2>1. Len(<<>>) = 0
      BY EmptySeq
    <2>2. Len(committed') + (todo' - 1) = c
      BY <1>1, <1>5
    <2>3. rows = SubSeq(Accepted', 1, Len(committed') + (todo' - 1))
      BY <1>17, <1>19, <1>20, <2>2, Zenon
    <2>4. Total(LengthsOf(files)) = LineBytes * Len(rows)
      BY <1>5, <1>8, <1>12, <1>14, <1>16 DEF LineBytes
    <2>5. \A n \in DOMAIN files : n <= active'
      <3>1. \A n \in DOMAIN files : n <= LastOf(DOMAIN files)
        BY <1>2, PartFits
      <3> QED
        BY <1>1, <3>1
    <2>6. activeSize' = Len(ContentsIn(files, active'))
      BY <1>1 DEF Contents
    <2>7. todo' - 1 <= Len(batch')
      BY <1>1, <2>1
    <2> QED
      BY <1>1, <2>3, <2>4, <2>5, <2>6, <2>7 DEF Stage, Lengths, Contents
  <1>22. Working'
    <2>1. Working
      BY <1>1 DEF Sound
    <2> QED
      BY <1>1, <1>18, <1>19, <2>1 DEF Working
  <1>23. MetaOf(meta, committed, steps)
    BY DEF Sound
  <1> QED
    BY <1>1, <1>3, <1>21, <1>22, <1>23 DEF Sound

\* What a rollback does to a part shortens it; the parts after it are next.
LEMMA CutPartIs ==
  ASSUME Parted(files, Len(steps)), undo.left \in Nat, NEW p \in DOMAIN files, CutPart(p)
  PROVE  \E keep \in 0..Len(files[p]) :
           /\ Shortened(files', files, p, keep)
           /\ keep = MinOf(undo.left, Len(files[p]))
           /\ undo'.left \in Nat /\ undo'.left + keep = undo.left
           /\ undo'.parts = undo.parts \ {p}
           /\ undo.left >= Len(files[p]) => UNCHANGED files
  <1>1. PICK left, len \in Nat : left = undo.left /\ len = Len(files[p])
    BY LengthsAre
  <1>2. CASE /\ undo.left >= Len(files[p])
             /\ undo' = [left |-> undo.left - Len(files[p]), parts |-> undo.parts \ {p}]
             /\ UNCHANGED files
    <2>1. len \in 0..len /\ len = MinOf(left, len) /\ left - len \in Nat /\ (left - len) + len = left
      <3>1. left >= len
        BY <1>1, <1>2
      <3> QED
        BY <3>1 DEF MinOf
    <2>2. undo'.left = left - len /\ undo'.parts = undo.parts \ {p}
      BY <1>1, <1>2
    <2>3. Shortened(files', files, p, len)
      <3>1. files[p] \in Seq(ByteSet(Len(steps)))
        BY DEF Parted
      <3>2. SubSeq(files[p], 1, len) = files[p]
        BY <1>1, <3>1, SubSeqFull
      <3> QED
        BY <1>2, <3>2 DEF Shortened
    <2>4. undo.left >= Len(files[p]) => UNCHANGED files
      BY <1>1, <1>2
    <2> QED
      BY <1>1, <2>1, <2>2, <2>3, <2>4
  <1>3. CASE /\ undo.left < Len(files[p]) /\ (undo.left > 0 \/ p = 0)
             /\ undo' = [left |-> 0, parts |-> undo.parts \ {p}]
             /\ files' = Put(p, SubSeq(files[p], 1, undo.left))
    <2>1. left \in 0..len /\ left = MinOf(left, len) /\ 0 + left = left
      BY <1>1, <1>3 DEF MinOf
    <2>2. undo'.left = 0 /\ undo'.parts = undo.parts \ {p}
      BY <1>3
    <2>3. Shortened(files', files, p, left)
      <3>1. files' = [m \in DOMAIN files \cup {p} |-> IF m = p THEN SubSeq(files[p], 1, left) ELSE files[m]]
        BY <1>1, <1>3 DEF Put
      <3>2. DOMAIN files' = DOMAIN files /\ files'[p] = SubSeq(files[p], 1, left)
            /\ \A n \in DOMAIN files : n # p => files'[n] = files[n]
        BY <3>1
      <3> QED
        BY <3>2 DEF Shortened
    <2>4. undo.left >= Len(files[p]) => UNCHANGED files
      BY <1>1, <1>3
    <2> QED
      BY <1>1, <2>1, <2>2, <2>3, <2>4
  <1>4. CASE /\ undo.left < Len(files[p]) /\ undo.left = 0 /\ p # 0
             /\ files' = Restrict(files, DOMAIN files \ {p})
             /\ undo' = [left |-> 0, parts |-> undo.parts \ {p}]
    <2>1. 0 \in 0..len /\ 0 = MinOf(left, len) /\ 0 + 0 = left
      BY <1>1, <1>4 DEF MinOf
    <2>2. undo'.left = 0 /\ undo'.parts = undo.parts \ {p}
      BY <1>4
    <2>3. Shortened(files', files, p, 0)
      BY <1>4 DEF Shortened, Restrict
    <2>4. undo.left >= Len(files[p]) => UNCHANGED files
      BY <1>1, <1>4
    <2> QED
      BY <1>1, <2>1, <2>2, <2>3, <2>4
  <1> QED
    BY <1>2, <1>3, <1>4, Zenon DEF CutPart

LEMMA NextPartIs ==
  ASSUME Parted(files, Len(steps)), undo.parts \subseteq DOMAIN files, undo.parts # {}
  PROVE  /\ NextPart \in undo.parts /\ NextPart \in DOMAIN files /\ NextPart \in Nat
         /\ \A m \in undo.parts : NextPart <= m
  <1>1. undo.parts \subseteq Nat
    BY DEF Parted
  <1>2. \E n \in undo.parts : \A m \in undo.parts : n <= m
    BY <1>1, Least
  <1>3. NextPart \in undo.parts /\ \A m \in undo.parts : NextPart <= m
    BY <1>2 DEF NextPart
  <1> QED
    BY <1>1, <1>3

LEMMA RollbackPartTyped ==
  ASSUME Typed, RollbackPart
  PROVE  Typed'
  <1>1. /\ pc = "rollback" /\ undo.parts # {} /\ CutPart(NextPart)
        /\ UNCHANGED <<meta, pc, steps, queue, batch, todo, retry, active, activeSize, size, log,
                       slipped, committed, mishaps>>
    BY DEF RollbackPart, activeVars, ghostVars
  <1>2. Parted(files, Len(steps)) /\ undo.left \in Nat /\ undo.parts \subseteq DOMAIN files
    BY DEF Typed
  <1>3. PICK p : p = NextPart
    OBVIOUS
  <1>4. p \in DOMAIN files /\ CutPart(p)
    BY <1>1, <1>2, <1>3, NextPartIs
  <1>5. PICK keep \in 0..Len(files[p]) :
          /\ Shortened(files', files, p, keep)
          /\ undo'.left \in Nat /\ undo'.parts = undo.parts \ {p}
    BY <1>2, <1>4, CutPartIs
  <1>6. Parted(files', Len(steps'))
    BY <1>1, <1>2, <1>4, <1>5, ShortenedType
  <1>7. undo'.parts \subseteq DOMAIN files'
    BY <1>2, <1>5 DEF Shortened
  <1> QED
    BY <1>1, <1>5, <1>6, <1>7 DEF Typed

LEMMA RollbackPartSound ==
  ASSUME LogAssumption, Typed, Sound, RollbackPart
  PROVE  Sound'
  <1>1. /\ pc = "rollback" /\ undo.parts # {} /\ CutPart(NextPart)
        /\ UNCHANGED <<meta, pc, steps, queue, batch, todo, retry, active, activeSize, size, log,
                       slipped, committed, mishaps>>
    BY DEF RollbackPart, activeVars, ghostVars
  <1>2. /\ Parted(files, Len(steps)) /\ undo.left \in Nat /\ undo.parts \subseteq DOMAIN files
        /\ committed \in Seq(1..Len(steps)) /\ steps \in Seq(Steps)
    BY DEF Typed
  <1>3. PICK p : p = NextPart
    OBVIOUS
  <1>4. /\ p \in DOMAIN files /\ p \in Nat /\ CutPart(p) /\ p \in undo.parts
        /\ \A m \in undo.parts : p <= m
    BY <1>1, <1>2, <1>3, NextPartIs
  <1>5. PICK keep \in 0..Len(files[p]) :
          /\ Shortened(files', files, p, keep)
          /\ keep = MinOf(undo.left, Len(files[p]))
          /\ undo'.left \in Nat /\ undo'.left + keep = undo.left
          /\ undo'.parts = undo.parts \ {p}
          /\ undo.left >= Len(files[p]) => UNCHANGED files
    BY <1>2, <1>4, CutPartIs
  <1>6. PICK rows : Held(files, committed, Len(steps), rows)
    BY DEF Sound
  <1>7. /\ Spells(files, rows) /\ rows \in Seq(1..Len(steps)) /\ IsPrefix(committed, rows)
        /\ LineBytes * Len(committed) <= Total(LengthsOf(files)) /\ Rising(rows)
        /\ \A n \in DOMAIN files : Len(files[n]) <= MaxOf(MaxFile, LineBytes)
    BY <1>6 DEF Held
  <1>8. PICK c, left, len, k \in Nat : /\ c = Len(committed) /\ left = undo.left
                                       /\ len = Len(files[p]) /\ k = Len(steps)
    <2>1. Len(committed) \in Nat /\ Len(steps) \in Nat
      BY <1>2
    <2>2. Len(files[p]) \in Nat
      BY <1>2, <1>4, LengthsAre
    <2> QED
      BY <1>2, <2>1, <2>2
  <1>9. size = 3 * c /\ Undoing(undo.left, undo.parts, files, size)
    BY <1>1, <1>8, AtWork DEF LineBytes
  <1>10. PICK next \in Nat : /\ undo.parts = {n \in DOMAIN files : n >= next}
                             /\ undo.left + Before(LengthsOf(files), next) = size
    BY <1>9 DEF Undoing
  <1>11. PICK L : L = LengthsOf(files)
    OBVIOUS
  <1>12. /\ Measured(L) /\ DOMAIN L = DOMAIN files
         /\ LengthIn(L, p) = len
    BY <1>2, <1>4, <1>8, <1>11, LengthsAre DEF ContentsIn
  <1>13. Before(L, p) = Before(L, next)
    <2>1. next <= p
      BY <1>4, <1>10
    <2>2. \A n \in next..(p - 1) : n \notin DOMAIN L
      <3>1. SUFFICES ASSUME NEW n \in next..(p - 1), n \in DOMAIN files PROVE FALSE
        BY <1>12
      <3>2. n \in undo.parts
        BY <1>10, <3>1
      <3> QED
        BY <1>4, <3>2
    <2> QED
      BY <1>4, <1>12, <2>1, <2>2, BeforeGap
  <1>14. PICK before, off, t \in Nat : /\ before = Before(L, p) /\ before = 3 * off /\ t = Total(L)
                                       /\ p <= LastOf(DOMAIN files)
                                       /\ before + len <= t
                                       /\ p = LastOf(DOMAIN files) => before + len = t
    <2>1. /\ Before(L, p) \in Nat /\ Total(L) \in Nat /\ p <= LastOf(DOMAIN files)
          /\ Before(L, p) + Len(files[p]) <= Total(L)
          /\ p = LastOf(DOMAIN files) => Before(L, p) + Len(files[p]) = Total(L)
      BY <1>2, <1>4, <1>11, PartFits
    <2>2. \E x \in Nat : Before(L, p) = 3 * x
      BY <1>2, <1>4, <1>7, <1>11, <2>1, WholeBefore DEF LineBytes
    <2> QED
      BY <1>8, <2>1, <2>2
  <1>15. left + before = 3 * c /\ 3 * c <= t
    BY <1>7, <1>8, <1>9, <1>10, <1>11, <1>13, <1>14 DEF LineBytes
  <1>16. Before(L, p + 1) = before + len
    <2>1. Before(L, p + 1) = Before(L, p) + LengthIn(L, p)
      BY <1>4, <1>12, BeforeIs
    <2> QED
      BY <1>12, <1>14, <2>1
  <1>17. undo'.parts = {n \in DOMAIN files' : n >= p + 1}
    <2>1. \A n \in DOMAIN files : n \in Nat
      BY <1>2 DEF Parted
    <2>2. \A n : n \in DOMAIN files' /\ n # p <=> n \in DOMAIN files /\ n # p
      BY <1>5 DEF Shortened
    <2>3. \A n \in DOMAIN files : n \in undo.parts /\ n # p <=> n >= p + 1
      BY <1>4, <1>10, <2>1
    <2>4. DOMAIN files' \subseteq DOMAIN files
      BY <1>5 DEF Shortened
    <2> QED
      BY <1>2, <1>5, <2>1, <2>2, <2>3, <2>4
  <1>18. ASSUME left >= len
         PROVE  /\ \E new : Held(files', committed', Len(steps'), new)
                /\ Undoing(undo'.left, undo'.parts, files', size')
    <2>1. files' = files
      BY <1>5, <1>8, <1>18
    <2>2. keep = len
      <3>1. MinOf(left, len) = len
        BY <1>18 DEF MinOf
      <3> QED
        BY <1>5, <1>8, <3>1
    <2>3. undo'.left + Before(L, p + 1) = 3 * c
      <3>1. PICK l \in Nat : l = undo'.left
        BY <1>5
      <3>2. l + len = left
        BY <1>5, <1>8, <2>2, <3>1
      <3>3. l + (before + len) = 3 * c
        BY <1>15, <3>2
      <3> QED
        BY <1>16, <3>1, <3>3
    <2>4. Undoing(undo'.left, undo'.parts, files', size')
      <3>1. p + 1 \in Nat
        BY <1>4
      <3> QED
        BY <1>1, <1>9, <1>11, <1>17, <2>1, <2>3, <3>1 DEF Undoing
    <2>5. Held(files', committed', Len(steps'), rows)
      BY <1>1, <1>6, <2>1
    <2> QED
      BY <2>4, <2>5
  <1>19. ASSUME left < len
         PROVE  /\ \E new : Held(files', committed', Len(steps'), new)
                /\ Undoing(undo'.left, undo'.parts, files', size')
    <2>1. keep = left /\ undo'.left = 0
      <3>1. MinOf(left, len) = left
        BY <1>19 DEF MinOf
      <3>2. keep = left
        BY <1>5, <1>8, <3>1
      <3>3. PICK l \in Nat : l = undo'.left
        BY <1>5
      <3>4. l + left = left
        BY <1>5, <1>8, <3>2, <3>3
      <3> QED
        BY <3>2, <3>3, <3>4
    <2>2. left = 3 * (c - off) /\ left % 3 = 0
      BY <1>14, <1>15
    <2>3. rows \in Seq(1..k) /\ Parted(files, k) /\ left \in 0..Len(files[p])
      BY <1>2, <1>7, <1>8, <1>19
    <2>4. Shortened(files', files, p, left) /\ left % LineBytes = 0
      BY <1>5, <2>1, <2>2 DEF LineBytes
    <2>5. PICK c1, d : Leaves(files', files, rows, p, left, c1, d)
      BY <1>4, <1>7, <2>3, <2>4, ShortenedSpells
    <2>6. /\ c1 \in Nat /\ d \in Nat /\ c1 <= d /\ d <= Len(rows)
          /\ Before(L, p) + left = 3 * c1
          /\ Spells(files', Without(rows, c1, d))
          /\ Before(LengthsOf(files'), p + 1) = 3 * c1
          /\ 3 * c1 <= Total(LengthsOf(files'))
      BY <1>11, <2>5 DEF Leaves, LineBytes
    <2>7. c1 = c
      BY <1>14, <1>15, <2>6
    <2>8. PICK new : new = Without(rows, c, d)
      OBVIOUS
    <2>9. /\ new \in Seq(1..k) /\ Rising(new) /\ Len(new) = c + (Len(rows) - d)
          /\ \A i \in 1..c : new[i] = rows[i]
      <3>1. c <= d /\ d <= Len(rows) /\ d \in Nat
        BY <2>6, <2>7
      <3>2. /\ Without(rows, c, d) \in Seq(1..k) /\ Rising(Without(rows, c, d))
            /\ Len(Without(rows, c, d)) = c + (Len(rows) - d)
            /\ \A i \in 1..c : Without(rows, c, d)[i] = rows[i]
        BY <1>7, <2>3, <3>1, WithoutIs, SMTT(30)
      <3> QED
        BY <2>8, <3>2, Zenon
    <2>10. IsPrefix(committed, new)
      <3>1. committed \in Seq(1..k)
        BY <1>2, <1>8
      <3>2. \A i \in 1..c : committed[i] = rows[i]
        BY <1>7, <1>8, <2>3, <3>1, PrefixIs
      <3>3. PICK r, e \in Nat : r = Len(rows) /\ e = d
        BY <2>3, <2>6
      <3>4. c <= c + (r - e)
        BY <2>6, <3>3
      <3>5. Len(committed) <= Len(new)
        BY <1>8, <2>9, <3>3, <3>4
      <3> QED
        BY <1>8, <2>9, <3>1, <3>2, <3>5, PrefixIs
    <2>11. \A n \in DOMAIN files' : Len(files'[n]) <= MaxOf(MaxFile, LineBytes)
      <3>1. ASSUME NEW n \in DOMAIN files' PROVE Len(files'[n]) <= MaxOf(MaxFile, LineBytes)
        <4>1. Parted(files', k) /\ Len(files'[n]) <= Len(files[n])
          BY <1>4, <2>3, <2>4, ShortenedType
        <4>2. n \in DOMAIN files
          BY <2>4 DEF Shortened
        <4>3. Len(files[n]) <= MaxOf(MaxFile, LineBytes)
          BY <1>7, <4>2
        <4>4. PICK x, y \in Nat : x = Len(files'[n]) /\ y = Len(files[n])
          BY <2>3, <4>1, <4>2, LengthsAre
        <4>5. PICK z \in Nat : z = MaxOf(MaxFile, LineBytes)
          BY DEF MaxOf, LogAssumption, LineBytes
        <4> QED
          BY <4>1, <4>3, <4>4, <4>5
      <3> QED
        BY <3>1
    <2>12. Held(files', committed', Len(steps'), new)
      BY <1>1, <1>8, <2>6, <2>7, <2>8, <2>9, <2>10, <2>11 DEF Held, LineBytes
    <2>13. Undoing(undo'.left, undo'.parts, files', size')
      <3>1. p + 1 \in Nat
        BY <1>4
      <3>2. undo'.left + Before(LengthsOf(files'), p + 1) = size'
        BY <1>1, <1>9, <2>1, <2>6, <2>7
      <3> QED
        BY <1>17, <3>1, <3>2 DEF Undoing
    <2> QED
      BY <2>12, <2>13
  <1>20. left >= len \/ left < len
    BY <1>8
  <1>21. PICK new : /\ Held(files', committed', Len(steps'), new)
                    /\ Undoing(undo'.left, undo'.parts, files', size')
    BY <1>18, <1>19, <1>20
  <1>22. Working'
    <2>1. Working
      BY <1>1 DEF Sound
    <2> QED
      BY <1>1, <1>21, <2>1 DEF Working, Accepted
  <1>23. MetaOf(meta', committed', steps')
    BY <1>1 DEF Sound
  <1> QED
    BY <1>1, <1>21, <1>22, <1>23 DEF Sound

-----------------------------------------------------------------------------
(* Writing                                                                 *)

LEMMA ChunkIs ==
  ASSUME LogAssumption, NEW k \in Nat, batch \in Seq(1..k), todo \in Nat \ {0},
         todo <= Len(batch), activeSize \in Nat
  PROVE  \E n \in 0..(Len(batch) - (todo - 1)) :
           /\ Chunk \in Seq(1..k) /\ Len(Chunk) = n
           /\ \A i \in 1..n : Chunk[i] = batch[(todo - 1) + i]
           /\ n # 0 => activeSize + LineBytes * n <= MaxOf(MaxFile, LineBytes)
  <1>1. PICK b, d \in Nat : b = Len(batch) /\ todo = d + 1 /\ d < b
    <2>1. PICK b \in Nat : b = Len(batch)
      OBVIOUS
    <2>2. todo - 1 \in Nat /\ todo = (todo - 1) + 1 /\ todo - 1 < b
      BY <2>1
    <2> QED
      BY <2>1, <2>2
  <1>2. PICK S : S = {m \in 1..(Len(batch) - todo + 1) : Room(m)}
    OBVIOUS
  <1>3. Len(batch) - todo + 1 = b - d /\ b - d \in Nat
    BY <1>1
  <1>4. S \subseteq 0..(b - d) /\ \A m \in S : m \in 1..(b - d) /\ Room(m)
    BY <1>2, <1>3
  <1>5. /\ LastOf(S) \in 0..(b - d) /\ (S # {} => LastOf(S) \in S) /\ (S = {} => LastOf(S) = 0)
    BY <1>3, <1>4, LastIs
  <1>6. PICK n \in 0..(b - d) : n = LastOf(S)
    BY <1>5
  <1>7. Chunk = SubSeq(batch, todo, todo + n - 1)
    BY <1>2, <1>6, Zenon DEF Chunk
  <1>8. PICK l : l = d + n
    OBVIOUS
  <1>9. l \in 0..Len(batch) /\ todo + n - 1 = l /\ l \in Nat
    BY <1>1, <1>6, <1>8
  <1>10. Chunk = SubSeq(batch, d + 1, l)
    BY <1>1, <1>7, <1>9
  <1>11. PICK s : s = SubSeq(batch, d + 1, l)
    OBVIOUS
  <1>12. s \in Seq(1..k) /\ Len(s) = n /\ \A i \in 1..n : s[i] = batch[d + i]
    <2>1. d + 1 \in Int /\ l \in Int /\ \A i \in (d + 1)..l : batch[i] \in 1..k
      <3>1. ASSUME NEW i \in (d + 1)..l PROVE batch[i] \in 1..k
        <4>1. i \in 1..Len(batch)
          BY <1>1, <1>9
        <4> QED
          BY <4>1
      <3> QED
        BY <1>1, <1>9, <3>1
    <2>2. /\ s \in Seq(1..k) /\ Len(s) = (IF d + 1 <= l THEN l - (d + 1) + 1 ELSE 0)
          /\ \A i \in 1..(l - (d + 1) + 1) : s[i] = batch[(d + 1) + i - 1]
      BY <1>11, <2>1, SubSeqProperties, SMTT(30)
    <2>3. n \in Nat /\ l - (d + 1) + 1 = n /\ (d + 1 <= l <=> n # 0)
      BY <1>1, <1>6, <1>8, SMTT(30)
    <2>4. Len(s) = n
      BY <2>2, <2>3
    <2>5. \A i \in 1..n : (d + 1) + i - 1 = d + i
      BY <1>1
    <2>6. \A i \in 1..n : s[i] = batch[d + i]
      <3>1. ASSUME NEW i \in 1..n PROVE s[i] = batch[d + i]
        <4>1. s[i] = batch[(d + 1) + i - 1]
          BY <2>2, <2>3
        <4> QED
          BY <2>5, <4>1
      <3> QED
        BY <3>1
    <2> QED
      BY <2>2, <2>4, <2>6
  <1>13. ASSUME n # 0 PROVE activeSize + LineBytes * n <= MaxOf(MaxFile, LineBytes)
    <2>1. Room(n)
      BY <1>4, <1>5, <1>6, <1>13
    <2>2. \/ activeSize + n * 3 <= MaxFile
          \/ activeSize = 0 /\ n = 1
      BY <2>1 DEF Room, LineBytes
    <2> QED
      BY <2>2 DEF MaxOf, LineBytes, LogAssumption
  <1>14. todo - 1 = d
    BY <1>1
  <1> QED
    BY <1>1, <1>6, <1>10, <1>11, <1>12, <1>13, <1>14

LEMMA BytesAre ==
  ASSUME NEW k \in Nat, NEW rs \in Seq(1..k)
  PROVE  /\ Bytes(rs) \in Seq(ByteSet(k)) /\ Len(Bytes(rs)) = LineBytes * Len(rs)
         /\ \A i \in 1..(LineBytes * Len(rs)) : Bytes(rs)[i] = <<rs[LineOf(i)], PlaceOf(i)>>
  <1>1. PICK n \in Nat : n = Len(rs)
    OBVIOUS
  <1>2. PICK l \in Nat : l = LineBytes * n
    BY DEF LineBytes
  <1>3. PICK b : b = Bytes(rs)
    OBVIOUS
  <1>4. b = [i \in 1..l |-> <<rs[LineOf(i)], PlaceOf(i)>>]
    BY <1>1, <1>2, <1>3 DEF Bytes
  <1>5. ASSUME NEW i \in 1..l PROVE <<rs[LineOf(i)], PlaceOf(i)>> \in ByteSet(k)
    <2>1. LineOf(i) \in 1..n
      <3>1. i \in Nat \ {0} /\ i <= LineBytes * n
        BY <1>2
      <3> QED
        BY <3>1, LineBounds
    <2>2. rs[LineOf(i)] \in 1..k
      BY <1>1, <2>1
    <2>3. PlaceOf(i) \in 1..LineBytes
      BY Places
    <2> QED
      BY <2>2, <2>3 DEF ByteSet
  <1>6. b \in [1..l -> ByteSet(k)]
    BY <1>4, <1>5
  <1>7. b \in Seq(ByteSet(k))
    BY <1>6, IsASeq
  <1>8. Len(b) = l
    BY <1>6, <1>7, LenProperties
  <1> QED
    BY <1>1, <1>2, <1>3, <1>4, <1>7, <1>8

\* So many bytes of the next records are on disk.
Wrote(gs, m) == gs = Put(active, Contents(active) \o SubSeq(Bytes(Chunk), 1, m))

Written(gs, m, num) ==
    /\ Held(gs, committed, Len(steps), SubSeq(Accepted, 1, Len(committed) + ((todo - 1) + num)))
    /\ m <= LineBytes * num /\ LineBytes * num < m + LineBytes
    /\ Len(SubSeq(Accepted, 1, Len(committed) + ((todo - 1) + num))) = Len(committed) + ((todo - 1) + num)
    /\ Total(LengthsOf(gs)) = LineBytes * (Len(committed) + (todo - 1)) + m
    /\ LastOf(DOMAIN gs) = active
    /\ Len(ContentsIn(gs, active)) = activeSize + m

LEMMA WroteType ==
  ASSUME LogAssumption, Typed, pc = "write", NEW m, m \in 0..Len(Bytes(Chunk)), NEW gs, Wrote(gs, m)
  PROVE  /\ Appended(gs, files, active, SubSeq(Bytes(Chunk), 1, m))
         /\ SubSeq(Bytes(Chunk), 1, m) \in Seq(ByteSet(Len(steps)))
         /\ Len(SubSeq(Bytes(Chunk), 1, m)) = m
         /\ \A i \in 1..m : SubSeq(Bytes(Chunk), 1, m)[i] = Bytes(Chunk)[i]
         /\ Parted(gs, Len(steps)) /\ Chunk \in Seq(1..Len(steps)) /\ Len(Bytes(Chunk)) = LineBytes * Len(Chunk)
  <1>1. /\ batch \in Seq(1..Len(steps)) /\ todo \in Nat \ {0} /\ todo <= Len(batch)
        /\ activeSize \in Nat /\ active \in Nat /\ Parted(files, Len(steps)) /\ steps \in Seq(Steps)
    BY DEF Typed
  <1>2. Len(steps) \in Nat
    BY <1>1
  <1>3. Chunk \in Seq(1..Len(steps))
    BY <1>1, <1>2, ChunkIs
  <1>4. Bytes(Chunk) \in Seq(ByteSet(Len(steps))) /\ Len(Bytes(Chunk)) = LineBytes * Len(Chunk)
    BY <1>2, <1>3, BytesAre
  <1>5. PICK b : b = Bytes(Chunk)
    OBVIOUS
  <1>6. PICK extra : extra = SubSeq(b, 1, m)
    OBVIOUS
  <1>7. extra \in Seq(ByteSet(Len(steps))) /\ Len(extra) = m /\ \A i \in 1..m : extra[i] = b[i]
    BY <1>4, <1>5, <1>6, CutTo
  <1>8. Appended(gs, files, active, extra)
    BY <1>5, <1>6 DEF Wrote, Put, Contents, Appended
  <1>9. Parted(gs, Len(steps))
    <2>1. Extended(gs, files, Len(steps), active, ContentsIn(files, active), extra)
      BY <1>1, <1>7, <1>8, AppendedType
    <2> QED
      BY <2>1 DEF Extended
  <1> QED
    BY <1>3, <1>4, <1>5, <1>6, <1>7, <1>8, <1>9, Zenon

LEMMA WroteIs ==
  ASSUME LogAssumption, Typed, Sound, pc = "write", NEW m, m \in 0..Len(Bytes(Chunk)), NEW gs,
         Wrote(gs, m)
  PROVE  \E num \in 0..Len(Chunk) : Written(gs, m, num)
  <1>1. /\ batch \in Seq(1..Len(steps)) /\ todo \in Nat \ {0} /\ todo <= Len(batch)
        /\ activeSize \in Nat /\ active \in Nat /\ Parted(files, Len(steps)) /\ steps \in Seq(Steps)
        /\ committed \in Seq(1..Len(steps)) /\ queue \in Seq(1..Len(steps))
    BY DEF Typed
  <1>2. PICK k, c, d, b, q \in Nat : /\ k = Len(steps) /\ c = Len(committed) /\ d = todo - 1
                                     /\ b = Len(batch) /\ q = Len(queue) /\ todo = d + 1 /\ d < b
    <2>1. Len(steps) \in Nat /\ Len(committed) \in Nat /\ Len(batch) \in Nat /\ Len(queue) \in Nat
      BY <1>1
    <2>2. todo - 1 \in Nat /\ todo = (todo - 1) + 1 /\ todo - 1 < Len(batch)
      BY <1>1, <2>1
    <2> QED
      BY <2>1, <2>2
  <1>3. PICK A : A = Accepted
    OBVIOUS
  <1>4. A \in Seq(1..k) /\ Rising(A) /\ Len(A) = c + (b + q)
    BY <1>2, <1>3, AtWork
  <1>5. (\A i \in 1..c : A[i] = committed[i]) /\ \A i \in 1..b : A[c + i] = batch[i]
    <2>1. A = committed \o (batch \o queue)
      BY <1>3 DEF Accepted
    <2> QED
      BY <1>1, <1>2, <2>1, Joined
  <1>6. PICK n \in 0..(b - d) : 
          /\ Chunk \in Seq(1..k) /\ Len(Chunk) = n
          /\ \A i \in 1..n : Chunk[i] = batch[d + i]
          /\ n # 0 => activeSize + LineBytes * n <= MaxOf(MaxFile, LineBytes)
    BY <1>1, <1>2, ChunkIs
  <1>7. PICK extra : extra = SubSeq(Bytes(Chunk), 1, m)
    OBVIOUS
  <1>8. /\ Appended(gs, files, active, extra) /\ extra \in Seq(ByteSet(k)) /\ Len(extra) = m
        /\ \A i \in 1..m : extra[i] = Bytes(Chunk)[i]
        /\ Parted(gs, k)
        /\ Len(Bytes(Chunk)) = 3 * n
    BY <1>2, <1>6, <1>7, WroteType DEF LineBytes
  <1>9. m \in Nat /\ m <= 3 * n
    BY <1>6, <1>8
  <1>10. PICK num \in Nat : m <= 3 * num /\ 3 * num < m + 3
    BY <1>9, LineCount DEF LineBytes
  <1>11. num <= n
    BY <1>6, <1>9, <1>10
  <1>12. PICK e \in Nat : e = c + (d + num) /\ e <= c + (b + q)
    <2>1. d < b
      BY <1>2
    <2>2. n \in Nat /\ n <= b - d
      BY <2>1
    <2> QED
      BY <1>11, <2>1, <2>2
  <1>13. PICK old, new : old = SubSeq(A, 1, c + d) /\ new = SubSeq(A, 1, e)
    OBVIOUS
  <1>14. /\ old \in Seq(1..k) /\ Len(old) = c + d /\ Rising(old) /\ \A i \in 1..(c + d) : old[i] = A[i]
    <2>1. PICK x \in Nat : x = c + d
      OBVIOUS
    <2>2. x \in 0..Len(A)
      <3>1. d < b
        BY <1>2
      <3> QED
        BY <1>4, <2>1, <3>1
    <2>3. old = SubSeq(A, 1, x)
      BY <1>13, <2>1
    <2>4. A \in Seq(1..k) /\ Rising(A)
      BY <1>4
    <2>5. /\ SubSeq(A, 1, x) \in Seq(1..k) /\ Len(SubSeq(A, 1, x)) = x
          /\ Rising(SubSeq(A, 1, x)) /\ \A i \in 1..x : SubSeq(A, 1, x)[i] = A[i]
      BY <2>2, <2>4, RisingPart
    <2>6. /\ old \in Seq(1..k) /\ Len(old) = x /\ Rising(old) /\ \A i \in 1..x : old[i] = A[i]
      BY <2>3, <2>5, Zenon
    <2> QED
      BY <2>1, <2>6
  <1>15. /\ new \in Seq(1..k) /\ Len(new) = e /\ Rising(new) /\ \A i \in 1..e : new[i] = A[i]
    <2>1. e \in 0..Len(A)
      BY <1>4, <1>12
    <2> QED
      BY <1>4, <1>13, <2>1, RisingPart
  <1>16. PICK rows : Held(files, committed, k, rows) /\ Stage(rows)
    BY <1>2 DEF Sound
  <1>17. /\ rows = old /\ Total(LengthsOf(files)) = 3 * (c + d)
         /\ \A p \in DOMAIN files : p <= active
         /\ activeSize = Len(ContentsIn(files, active))
    <2>1. /\ rows = SubSeq(Accepted, 1, Len(committed) + (todo - 1))
          /\ Total(Lengths) = LineBytes * Len(rows)
          /\ \A p \in DOMAIN files : p <= active
          /\ activeSize = Len(Contents(active))
      BY <1>16 DEF Stage
    <2>2. rows = old
      BY <1>2, <1>3, <1>13, <2>1
    <2> QED
      BY <1>14, <2>1, <2>2 DEF Lengths, Contents, LineBytes
  <1>18. /\ Spells(files, old) /\ \A p \in DOMAIN files : Len(files[p]) <= MaxOf(MaxFile, LineBytes)
    BY <1>16, <1>17 DEF Held
  <1>19. \A i \in 1..Len(old) : new[i] = old[i]
    <2>1. \A i \in 1..(c + d) : i \in 1..e
      BY <1>12
    <2> QED
      BY <1>14, <1>15, <2>1
  <1>20. Len(new) = Len(old) + num
    BY <1>12, <1>14, <1>15
  <1>21. ASSUME NEW i \in 1..Len(extra)
         PROVE  extra[i] = <<new[Len(old) + LineOf(i)], PlaceOf(i)>>
    <2>1. PICK j \in Nat \ {0} : j = i /\ j <= m
      BY <1>8, <1>9
    <2>2. j <= LineBytes * num /\ j <= LineBytes * n
      BY <1>9, <1>10, <2>1 DEF LineBytes
    <2>3. LineOf(j) \in 1..num /\ LineOf(j) \in 1..n
      BY <1>6, <2>2, LineBounds
    <2>4. PICK l \in Nat : l = LineOf(j) /\ l >= 1 /\ l <= num /\ l <= n
      BY <2>3
    <2>5. Bytes(Chunk)[j] = <<Chunk[l], PlaceOf(j)>>
      <3>1. j \in 1..(LineBytes * Len(Chunk))
        BY <1>6, <2>1, <2>2 DEF LineBytes
      <3>2. Bytes(Chunk)[j] = <<Chunk[LineOf(j)], PlaceOf(j)>>
        BY <1>6, <3>1, BytesAre
      <3> QED
        BY <2>4, <3>2
    <2>6. extra[j] = Bytes(Chunk)[j]
      BY <1>8, <1>9, <2>1
    <2>7. Chunk[l] = batch[d + l]
      BY <1>6, <2>4, SMTT(30)
    <2>8. A[c + (d + l)] = batch[d + l]
      <3>1. d + l \in 1..b
        <4>1. d < b /\ l >= 1 /\ l <= n
          BY <1>2, <2>4
        <4>2. n <= b - d
          BY <4>1
        <4> QED
          BY <4>1, <4>2
      <3> QED
        BY <1>5, <3>1
    <2>9. new[(c + d) + l] = A[c + (d + l)]
      <3>1. (c + d) + l \in 1..e /\ (c + d) + l = c + (d + l)
        BY <1>12, <2>4
      <3> QED
        BY <1>15, <3>1
    <2> QED
      BY <1>14, <2>1, <2>4, <2>5, <2>6, <2>7, <2>8, <2>9
  <1>22. /\ Spells(gs, new) /\ LastOf(DOMAIN gs) = active
         /\ Total(LengthsOf(gs)) = Total(LengthsOf(files)) + Len(extra)
    <2>1. /\ Parted(files, k) /\ old \in Seq(1..k) /\ Spells(files, old)
          /\ Total(LengthsOf(files)) = LineBytes * Len(old)
          /\ active \in Nat /\ extra \in Seq(ByteSet(k)) /\ new \in Seq(1..k)
          /\ Len(extra) <= LineBytes * num /\ LineBytes * num < Len(extra) + LineBytes
      BY <1>1, <1>2, <1>8, <1>10, <1>14, <1>15, <1>17, <1>18 DEF LineBytes
    <2>2. /\ \A p \in DOMAIN files : p <= active
          /\ Len(new) = Len(old) + num
          /\ \A i \in 1..Len(old) : new[i] = old[i]
          /\ \A i \in 1..Len(extra) : extra[i] = <<new[Len(old) + LineOf(i)], PlaceOf(i)>>
          /\ Appended(gs, files, active, extra)
      BY <1>8, <1>17, <1>19, <1>20, <1>21, Zenon
    <2>3. PICK fs, a : fs = files /\ a = active
      OBVIOUS
    <2>4. Extends(gs, fs, k, a, extra, old, new, num)
      BY <2>1, <2>2, <2>3, Zenon DEF Extends
    <2>5. /\ Spells(gs, new) /\ LastOf(DOMAIN gs) = a
          /\ Total(LengthsOf(gs)) = Total(LengthsOf(fs)) + Len(extra)
      BY <2>4, AppendSpells
    <2> QED
      BY <2>3, <2>5, Zenon
  <1>23. Total(LengthsOf(gs)) = 3 * (c + d) + m
    BY <1>8, <1>17, <1>22
  <1>24. Len(gs[active]) = activeSize + m /\ active \in DOMAIN gs /\ DOMAIN gs = DOMAIN files \cup {active}
         /\ \A p \in DOMAIN files : p # active => gs[p] = files[p]
    <2>1. Extended(gs, files, k, active, ContentsIn(files, active), extra)
      BY <1>1, <1>2, <1>8, AppendedType
    <2> QED
      BY <1>8, <1>17, <2>1 DEF Extended
  <1>25. \A p \in DOMAIN gs : Len(gs[p]) <= MaxOf(MaxFile, LineBytes)
    <2>1. ASSUME NEW p \in DOMAIN gs PROVE Len(gs[p]) <= MaxOf(MaxFile, LineBytes)
      <3>1. CASE p = active
        <4>1. CASE n = 0
          <5>1. m = 0
            BY <1>9, <4>1
          <5>2. Len(gs[p]) = activeSize
            BY <1>1, <1>24, <3>1, <5>1
          <5>3. CASE active \in DOMAIN files
            BY <1>17, <1>18, <5>2, <5>3 DEF ContentsIn
          <5>4. CASE active \notin DOMAIN files
            <6>1. ContentsIn(files, active) = <<>>
              BY <5>4, Zenon DEF ContentsIn
            <6>2. Len(<<>>) = 0
              BY EmptySeq
            <6>3. Len(gs[p]) = 0
              BY <1>17, <5>2, <6>1, <6>2
            <6> QED
              BY <6>3 DEF MaxOf, LogAssumption, LineBytes
          <5> QED
            BY <5>3, <5>4
        <4>2. CASE n # 0
          <5>1. PICK z \in Nat : z = MaxOf(MaxFile, LineBytes)
            BY DEF MaxOf, LogAssumption, LineBytes
          <5>2. activeSize + 3 * n <= z
            BY <1>6, <4>2, <5>1 DEF LineBytes
          <5>3. activeSize + m <= z
            BY <1>1, <1>9, <5>2
          <5> QED
            BY <1>24, <3>1, <5>1, <5>3
        <4> QED
          BY <4>1, <4>2
      <3>2. CASE p # active
        BY <1>18, <1>24, <3>2
      <3> QED
        BY <3>1, <3>2
    <2> QED
      BY <2>1
  <1>26. IsPrefix(committed, new)
    <2>1. committed \in Seq(1..k) /\ Len(committed) <= Len(new)
      BY <1>1, <1>2, <1>12, <1>15
    <2>2. \A i \in 1..Len(committed) : committed[i] = new[i]
      <3>1. \A i \in 1..c : i \in 1..e
        BY <1>12
      <3> QED
        BY <1>2, <1>5, <1>15, <3>1
    <2> QED
      BY <1>15, <2>1, <2>2, PrefixIs
  <1>27. LineBytes * Len(committed) <= Total(LengthsOf(gs))
    BY <1>2, <1>9, <1>23 DEF LineBytes
  <1>28. Held(gs, committed, k, new)
    BY <1>15, <1>22, <1>25, <1>26, <1>27 DEF Held
  <1>29. new = SubSeq(Accepted, 1, Len(committed) + ((todo - 1) + num)) /\ Len(new) = Len(committed) + ((todo - 1) + num)
    BY <1>2, <1>3, <1>12, <1>13, <1>15
  <1>30. num \in 0..Len(Chunk)
    BY <1>6, <1>11
  <1>31. Total(LengthsOf(gs)) = LineBytes * (Len(committed) + (todo - 1)) + m
    BY <1>2, <1>23 DEF LineBytes
  <1>32. Len(ContentsIn(gs, active)) = activeSize + m
    BY <1>24 DEF ContentsIn
  <1>33. m <= LineBytes * num /\ LineBytes * num < m + LineBytes
    BY <1>10 DEF LineBytes
  <1>34. Written(gs, m, num)
    BY <1>2, <1>22, <1>28, <1>29, <1>31, <1>32, <1>33, Zenon DEF Written
  <1> QED
    BY <1>30, <1>34

LEMMA WriteChunkIs ==
  ASSUME LogAssumption, Typed, WriteChunk
  PROVE  /\ Wrote(files', Len(Bytes(Chunk))) /\ Len(Bytes(Chunk)) \in 0..Len(Bytes(Chunk))
         /\ pc = "write" /\ activeSize' = activeSize + Len(Bytes(Chunk)) /\ todo' = todo + Len(Chunk)
         /\ pc' = (IF todo' > Len(batch) THEN "commit" ELSE "write")
         /\ UNCHANGED <<meta, steps, queue, batch, undo, retry, active, size, log, slipped,
                        committed, mishaps>>
  <1>1. /\ pc = "write" /\ files' = Put(active, Contents(active) \o Bytes(Chunk))
        /\ activeSize' = activeSize + Len(Bytes(Chunk)) /\ todo' = todo + Len(Chunk)
        /\ pc' = (IF todo' > Len(batch) THEN "commit" ELSE "write")
        /\ UNCHANGED <<meta, steps, queue, batch, undo, retry, active, size, log, slipped,
                       committed, mishaps>>
    BY DEF WriteChunk, ghostVars
  <1>2. /\ batch \in Seq(1..Len(steps)) /\ todo \in Nat \ {0} /\ todo <= Len(batch)
        /\ activeSize \in Nat /\ Len(steps) \in Nat
    <2>1. steps \in Seq(Steps)
      BY DEF Typed
    <2> QED
      BY <1>1, <2>1 DEF Typed
  <1>3. Chunk \in Seq(1..Len(steps))
    BY <1>2, ChunkIs
  <1>4. Bytes(Chunk) \in Seq(ByteSet(Len(steps)))
    BY <1>2, <1>3, BytesAre
  <1>5. SubSeq(Bytes(Chunk), 1, Len(Bytes(Chunk))) = Bytes(Chunk)
    BY <1>4, SubSeqFull
  <1>6. Wrote(files', Len(Bytes(Chunk)))
    BY <1>1, <1>5, Zenon DEF Wrote
  <1>7. Len(Bytes(Chunk)) \in 0..Len(Bytes(Chunk))
    BY <1>4
  <1> QED
    BY <1>1, <1>6, <1>7

LEMMA AppendedDomain ==
  ASSUME NEW gs, NEW fs, NEW a, NEW extra, Appended(gs, fs, a, extra)
  PROVE  DOMAIN fs \subseteq DOMAIN gs
  BY DEF Appended

LEMMA WriteChunkTyped ==
  ASSUME LogAssumption, Typed, WriteChunk
  PROVE  Typed'
  <1>1. PICK m : m = Len(Bytes(Chunk))
    OBVIOUS
  <1>2. /\ Wrote(files', m) /\ m \in 0..Len(Bytes(Chunk))
        /\ pc = "write" /\ activeSize' = activeSize + m /\ todo' = todo + Len(Chunk)
        /\ pc' = (IF todo' > Len(batch) THEN "commit" ELSE "write")
        /\ UNCHANGED <<meta, steps, queue, batch, undo, retry, active, size, log, slipped,
                       committed, mishaps>>
    BY <1>1, WriteChunkIs
  <1>3. /\ Appended(files', files, active, SubSeq(Bytes(Chunk), 1, m))
        /\ Parted(files', Len(steps)) /\ Chunk \in Seq(1..Len(steps))
    BY <1>2, WroteType
  <1>4. undo.parts \subseteq DOMAIN files'
    <2>1. DOMAIN files \subseteq DOMAIN files'
      BY <1>3, AppendedDomain
    <2> QED
      BY <2>1 DEF Typed
  <1>5. Len(Chunk) \in Nat /\ m \in Nat
    <2>1. Len(Bytes(Chunk)) = LineBytes * Len(Chunk) /\ Len(Chunk) \in Nat
      BY <1>2, <1>3, WroteType
    <2> QED
      BY <1>1, <2>1 DEF LineBytes
  <1>6. todo \in Nat \ {0} /\ activeSize \in Nat /\ batch \in Seq(1..Len(steps))
    BY DEF Typed
  <1>7. todo' \in Nat \ {0} /\ activeSize' \in Nat
    BY <1>2, <1>5, <1>6
  <1>8. Len(batch) \in Nat
    BY <1>6
  <1>9. /\ pc' \in {"commit", "write"}
        /\ pc' = "write" => todo' <= Len(batch')
    BY <1>2, <1>7, <1>8
  <1> QED
    BY <1>2, <1>3, <1>4, <1>7, <1>9 DEF Typed

LEMMA WriteChunkSound ==
  ASSUME LogAssumption, Typed, Sound, WriteChunk
  PROVE  Sound'
  <1>1. PICK m : m = Len(Bytes(Chunk))
    OBVIOUS
  <1>2. /\ Wrote(files', m) /\ m \in 0..Len(Bytes(Chunk))
        /\ pc = "write" /\ activeSize' = activeSize + m /\ todo' = todo + Len(Chunk)
        /\ pc' = (IF todo' > Len(batch) THEN "commit" ELSE "write")
        /\ UNCHANGED <<meta, steps, queue, batch, undo, retry, active, size, log, slipped,
                       committed, mishaps>>
    BY <1>1, WriteChunkIs
  <1>3. PICK num \in 0..Len(Chunk) : Written(files', m, num)
    BY <1>2, WroteIs
  <1>4. Parted(files', Len(steps)) /\ Chunk \in Seq(1..Len(steps)) /\ m = LineBytes * Len(Chunk)
    BY <1>1, <1>2, WroteType
  <1>5. PICK n, c, b, d \in Nat : /\ n = Len(Chunk) /\ c = Len(committed) /\ b = Len(batch)
                                  /\ d = todo - 1 /\ todo = d + 1 /\ n <= b - d /\ d < b
    <2>1. /\ committed \in Seq(1..Len(steps)) /\ batch \in Seq(1..Len(steps)) /\ todo \in Nat \ {0}
          /\ todo <= Len(batch) /\ activeSize \in Nat /\ steps \in Seq(Steps)
      BY <1>2 DEF Typed
    <2>2. Len(steps) \in Nat
      BY <2>1
    <2>3. PICK n \in 0..(Len(batch) - (todo - 1)) : Len(Chunk) = n
      BY <2>1, <2>2, ChunkIs
    <2>4. Len(committed) \in Nat /\ Len(batch) \in Nat
      BY <2>1
    <2>5. PICK b \in Nat : b = Len(batch)
      BY <2>4
    <2>6. PICK d \in Nat : d = todo - 1 /\ todo = d + 1 /\ d < b
      <3>1. todo - 1 \in Nat /\ todo = (todo - 1) + 1 /\ todo - 1 < b
        BY <2>1, <2>5
      <3> QED
        BY <3>1
    <2>7. n \in 0..(b - d)
      BY <2>3, <2>5, <2>6
    <2>8. n \in Nat /\ n <= b - d
      BY <2>6, <2>7
    <2> QED
      BY <2>3, <2>4, <2>5, <2>6, <2>8
  <1>6. num = n
    <2>1. 3 * n <= 3 * num /\ num <= n /\ num \in Nat
      BY <1>3, <1>4, <1>5 DEF Written, LineBytes
    <2> QED
      BY <2>1
  <1>7. PICK new : new = SubSeq(Accepted, 1, Len(committed) + ((todo - 1) + n))
    OBVIOUS
  <1>8. /\ Held(files', committed, Len(steps), new)
        /\ Len(new) = c + (d + n)
        /\ Total(LengthsOf(files')) = 3 * (c + d) + 3 * n
        /\ LastOf(DOMAIN files') = active
        /\ Len(ContentsIn(files', active)) = activeSize + m
    BY <1>3, <1>4, <1>5, <1>6, <1>7 DEF Written, LineBytes
  <1>9. Accepted' = Accepted
    BY <1>2 DEF Accepted
  <1>10. todo' = d + 1 + n /\ todo' - 1 = d + n
    BY <1>2, <1>5
  <1>11. Stage(new)'
    <2>1. new = SubSeq(Accepted', 1, Len(committed') + (todo' - 1))
      <3>1. todo - 1 = d
        BY <1>5
      <3> QED
        BY <1>2, <1>7, <1>9, <1>10, <3>1
    <2>2. Total(LengthsOf(files')) = LineBytes * Len(new)
      BY <1>8 DEF LineBytes
    <2>3. \A p \in DOMAIN files' : p <= active
      BY <1>4, <1>8, PartFits
    <2>4. /\ todo' - 1 <= Len(batch')
          /\ pc' = "commit" => todo' - 1 = Len(batch')
      <3>1. d + n <= b /\ (d + 1 + n > b => d + n = b)
        BY <1>5
      <3>2. pc' = "commit" => todo' > b
        BY <1>2, <1>5
      <3> QED
        BY <1>2, <1>5, <1>10, <3>1, <3>2
    <2>5. pc' \in {"commit", "write"}
      BY <1>2
    <2>6. activeSize' = Len(ContentsIn(files', active'))
      BY <1>2, <1>8
    <2> QED
      BY <1>2, <1>8, <2>1, <2>2, <2>3, <2>4, <2>5, <2>6 DEF Stage, Lengths, Contents
  <1>12. Working'
    <2>1. Working /\ pc' # "rollback"
      BY <1>2 DEF Sound
    <2> QED
      BY <1>2, <1>9, <2>1 DEF Working
  <1>13. MetaOf(meta', committed', steps')
    BY <1>2 DEF Sound
  <1>14. Held(files', committed', Len(steps'), new)
    BY <1>2, <1>8
  <1> QED
    BY <1>11, <1>12, <1>13, <1>14 DEF Sound

LEMMA PartlyIs ==
  ASSUME LogAssumption, Typed, pc = "write", PartlyWritten(Bytes(Chunk))
  PROVE  /\ Parted(files', Len(steps)) /\ DOMAIN files \subseteq DOMAIN files'
         /\ Sound => \E rows : Held(files', committed, Len(steps), rows)
  <1>1. CASE UNCHANGED files
    <2>1. Parted(files, Len(steps))
      BY DEF Typed
    <2>2. Sound => \E rows : Held(files, committed, Len(steps), rows)
      BY DEF Sound
    <2> QED
      BY <1>1, <2>1, <2>2
  <1>2. CASE \E n \in 0..(Len(Bytes(Chunk)) - 1) :
               files' = Put(active, Contents(active) \o SubSeq(Bytes(Chunk), 1, n))
    <2>1. PICK n \in 0..(Len(Bytes(Chunk)) - 1) : Wrote(files', n)
      BY <1>2 DEF Wrote
    <2>2. Len(Bytes(Chunk)) \in Nat
      <3>1. /\ batch \in Seq(1..Len(steps)) /\ todo \in Nat \ {0} /\ todo <= Len(batch)
            /\ activeSize \in Nat /\ steps \in Seq(Steps)
        BY DEF Typed
      <3>2. Len(steps) \in Nat
        BY <3>1
      <3>3. Chunk \in Seq(1..Len(steps))
        BY <3>1, <3>2, ChunkIs
      <3>4. Bytes(Chunk) \in Seq(ByteSet(Len(steps)))
        BY <3>2, <3>3, BytesAre
      <3> QED
        BY <3>4
    <2>3. n \in 0..Len(Bytes(Chunk))
      BY <2>2
    <2>4. /\ Appended(files', files, active, SubSeq(Bytes(Chunk), 1, n))
          /\ Parted(files', Len(steps))
      BY <2>1, <2>3, WroteType
    <2>5. DOMAIN files \subseteq DOMAIN files'
      BY <2>4, AppendedDomain
    <2>6. ASSUME Sound PROVE \E rows : Held(files', committed, Len(steps), rows)
      <3>1. PICK num \in 0..Len(Chunk) : Written(files', n, num)
        BY <2>1, <2>3, <2>6, WroteIs
      <3> QED
        BY <3>1 DEF Written
    <2> QED
      BY <2>4, <2>5, <2>6
  <1> QED
    BY <1>1, <1>2 DEF PartlyWritten

LEMMA WriteFailsTyped ==
  ASSUME LogAssumption, Typed, WriteFails
  PROVE  Typed'
  <1>1. /\ pc = "write" /\ PartlyWritten(Bytes(Chunk)) /\ pc' = "rollback"
        /\ undo' = [left |-> size, parts |-> DOMAIN files']
        /\ mishaps < MaxMishaps /\ mishaps' = mishaps + 1
        /\ UNCHANGED <<meta, steps, queue, batch, todo, retry, active, activeSize, size, log,
                       slipped, committed>>
    BY DEF WriteFails, activeVars, ghostVars, Mishap
  <1>2. Parted(files', Len(steps))
    BY <1>1, PartlyIs
  <1>3. undo'.left = size /\ undo'.parts = DOMAIN files'
    BY <1>1
  <1>4. mishaps' \in 0..MaxMishaps
    <2>1. mishaps \in 0..MaxMishaps /\ MaxMishaps \in Nat
      BY DEF Typed, LogAssumption
    <2> QED
      BY <1>1, <2>1
  <1> QED
    BY <1>1, <1>2, <1>3, <1>4 DEF Typed

LEMMA WriteFailsSound ==
  ASSUME LogAssumption, Typed, Sound, WriteFails
  PROVE  Sound'
  <1>1. /\ pc = "write" /\ PartlyWritten(Bytes(Chunk)) /\ pc' = "rollback"
        /\ undo' = [left |-> size, parts |-> DOMAIN files']
        /\ UNCHANGED <<meta, steps, queue, batch, todo, retry, active, activeSize, size, log,
                       slipped, committed>>
    BY DEF WriteFails, activeVars, ghostVars, Mishap
  <1>2. PICK rows : Held(files', committed, Len(steps), rows)
    BY <1>1, PartlyIs
  <1>3. Undoing(undo'.left, undo'.parts, files', size')
    <2>1. Parted(files', Len(steps))
      BY <1>1, PartlyIs
    <2>2. Before(LengthsOf(files'), 0) = 0
      BY <2>1, LengthsAre, BeforeIs
    <2>3. undo'.left = size /\ undo'.parts = DOMAIN files' /\ size \in Nat
      BY <1>1 DEF Typed
    <2>4. undo'.parts = {n \in DOMAIN files' : n >= 0}
      <3>1. \A n \in DOMAIN files' : n \in Nat
        BY <2>1 DEF Parted
      <3>2. \A n \in DOMAIN files' : n >= 0
        BY <3>1
      <3> QED
        BY <2>3, <3>2
    <2>5. undo'.left + Before(LengthsOf(files'), 0) = size'
      BY <1>1, <2>2, <2>3
    <2> QED
      BY <2>4, <2>5 DEF Undoing
  <1>4. Working'
    <2>1. Working
      BY <1>1 DEF Sound
    <2> QED
      BY <1>1, <1>3, <2>1 DEF Working, Accepted
  <1>5. MetaOf(meta', committed', steps')
    BY <1>1 DEF Sound
  <1> QED
    BY <1>1, <1>2, <1>4, <1>5 DEF Sound

LEMMA CrashIs ==
  ASSUME LogAssumption, Typed, Crash
  PROVE  /\ Parted(files', Len(steps))
         /\ Sound => \E rows : Held(files', committed, Len(steps), rows)
  <1>1. CASE pc = "write" /\ Chunk # <<>>
    <2>1. PartlyWritten(Bytes(Chunk))
      BY <1>1 DEF Crash
    <2> QED
      BY <1>1, <2>1, PartlyIs
  <1>2. CASE ~(pc = "write" /\ Chunk # <<>>)
    <2>1. files' = files
      BY <1>2 DEF Crash
    <2> QED
      BY <2>1 DEF Typed, Sound
  <1> QED
    BY <1>1, <1>2

LEMMA CrashTyped ==
  ASSUME LogAssumption, Typed, Crash
  PROVE  Typed'
  <1>1. /\ Forget /\ UNCHANGED <<meta, steps, slipped, committed>>
        /\ mishaps < MaxMishaps /\ mishaps' = mishaps + 1
    BY DEF Crash, ghostVars, Mishap
  <1>2. /\ committed \in Seq(1..Len(steps)) /\ steps \in Seq(Steps) /\ Len(steps) <= MaxRows
        /\ slipped \in BOOLEAN /\ meta \in MetaSet \cup {NoMeta}
    BY DEF Typed
  <1>3. mishaps' \in 0..MaxMishaps
    <2>1. mishaps \in 0..MaxMishaps /\ MaxMishaps \in Nat
      BY DEF Typed, LogAssumption
    <2> QED
      BY <1>1, <2>1
  <1>4. Parted(files', Len(steps))
    BY CrashIs
  <1> QED
    BY <1>1, <1>2, <1>3, <1>4, ForgetTyped

LEMMA CrashSound ==
  ASSUME LogAssumption, Typed, Sound, Crash
  PROVE  Sound'
  <1>1. pc' = "down" /\ UNCHANGED <<meta, steps, slipped, committed>>
    BY DEF Crash, Forget, ghostVars
  <1>2. PICK rows : Held(files', committed, Len(steps), rows)
    BY CrashIs
  <1>3. MetaOf(meta', committed', steps')
    BY <1>1 DEF Sound
  <1> QED
    BY <1>1, <1>2, <1>3 DEF Sound

-----------------------------------------------------------------------------
(* Opening                                                                 *)

LEMMA ReopenedType ==
  ASSUME NEW fs, NEW k, Parted(fs, k), NEW gs, Reopened(gs, fs)
  PROVE  Parted(gs, k) /\ DOMAIN fs \subseteq DOMAIN gs
  <1>1. CASE DOMAIN fs = {}
    BY <1>1, ReopenedEmpty
  <1>2. CASE DOMAIN fs # {}
    <2>1. PICK p \in DOMAIN fs, keep \in Nat :
            p = LastOf(DOMAIN fs) /\ keep \in 0..Len(fs[p]) /\ Shortened(gs, fs, p, keep)
      BY <1>2, ReopenedIs
    <2>2. Parted(gs, k)
      BY <2>1, ShortenedType
    <2>3. PICK n, c : n = LastOf(DOMAIN fs) /\ c = Repaired(ContentsIn(fs, n))
      OBVIOUS
    <2>4. \/ gs = fs
          \/ gs = [m \in DOMAIN fs \cup {n} |-> IF m = n THEN c ELSE fs[m]]
      BY <2>3, Zenon DEF Reopened
    <2>5. DOMAIN fs \subseteq DOMAIN gs
      BY <2>4
    <2> QED
      BY <2>2, <2>5
  <1> QED
    BY <1>1, <1>2

LEMMA OpenIs ==
  ASSUME LogAssumption, Typed, Open
  PROVE  /\ pc = "down" /\ pc' = "idle"
         /\ \/ Reopened(files', files) /\ slipped' = slipped /\ mishaps' = mishaps
            \/ files' = files /\ slipped' = TRUE /\ mishaps < MaxMishaps /\ mishaps' = mishaps + 1
         /\ active' = LastOf(DOMAIN files')
         /\ activeSize' = Len(ContentsIn(files', LastOf(DOMAIN files')))
         /\ size' = Total(LengthsOf(files'))
         /\ log' = (IF Restorable(meta, Total(LengthsOf(files'))) THEN Restored(meta)
                    ELSE TrackAll(Empty, LinesOf(files')))
         /\ committed' = RowsOf(files')
         /\ UNCHANGED <<meta, steps, queue, batch, todo, undo, retry>>
  <1>1. PICK n, torn : /\ n = LastOf(DOMAIN files)
                       /\ torn = (Repaired(Contents(n)) # Contents(n))
                       /\ \/ /\ files' = IF torn THEN Put(n, Repaired(Contents(n))) ELSE files
                             /\ UNCHANGED <<slipped, mishaps>>
                          \/ /\ torn /\ Mishap
                             /\ slipped' = TRUE /\ UNCHANGED files
    BY Zenon DEF Open
  <1>2. ASSUME files' = IF torn THEN Put(n, Repaired(Contents(n))) ELSE files
        PROVE  Reopened(files', files)
    <2>1. PICK gs, fs : gs = files' /\ fs = files
      OBVIOUS
    <2>2. n = LastOf(DOMAIN fs) /\ torn = (Repaired(ContentsIn(fs, n)) # ContentsIn(fs, n))
      BY <1>1, <2>1 DEF Contents
    <2>3. gs = IF Repaired(ContentsIn(fs, n)) # ContentsIn(fs, n)
               THEN [m \in DOMAIN fs \cup {n} |-> IF m = n THEN Repaired(ContentsIn(fs, n))
                                                  ELSE fs[m]]
               ELSE fs
      BY <1>2, <2>1, <2>2, Zenon DEF Put, Contents
    <2>4. Reopened(gs, fs)
      BY <2>2, <2>3, Zenon DEF Reopened
    <2> QED
      BY <2>1, <2>4
  <1>3. \/ Reopened(files', files) /\ slipped' = slipped /\ mishaps' = mishaps
        \/ files' = files /\ slipped' = TRUE /\ mishaps < MaxMishaps /\ mishaps' = mishaps + 1
    BY <1>1, <1>2, Zenon DEF Mishap
  <1>4. /\ pc = "down" /\ pc' = "idle"
        /\ UNCHANGED <<meta, steps, queue, batch, todo, undo, retry>>
    BY Zenon DEF Open, batchVars
  <1>5. /\ active' = LastOf(DOMAIN files')
        /\ activeSize' = Len(ContentsIn(files', LastOf(DOMAIN files')))
        /\ size' = Total(LengthsOf(files'))
        /\ log' = (IF Restorable(meta, Total(LengthsOf(files'))) THEN Restored(meta)
                   ELSE TrackAll(Empty, LinesOf(files')))
        /\ committed' = RowsOf(files')
    BY Zenon DEF Open
  <1> QED
    BY <1>3, <1>4, <1>5

LEMMA OpenTyped ==
  ASSUME LogAssumption, Typed, Open
  PROVE  Typed'
  <1>1. PICK fs : fs = files'
    OBVIOUS
  <1>2. /\ pc = "down" /\ pc' = "idle"
        /\ \/ Reopened(fs, files) /\ slipped' = slipped /\ mishaps' = mishaps
           \/ fs = files /\ slipped' = TRUE /\ mishaps < MaxMishaps /\ mishaps' = mishaps + 1
        /\ active' = LastOf(DOMAIN fs)
        /\ activeSize' = Len(ContentsIn(fs, LastOf(DOMAIN fs)))
        /\ size' = Total(LengthsOf(fs))
        /\ log' = (IF Restorable(meta, Total(LengthsOf(fs))) THEN Restored(meta)
                   ELSE TrackAll(Empty, LinesOf(fs)))
        /\ committed' = RowsOf(fs)
        /\ UNCHANGED <<meta, steps, queue, batch, todo, undo, retry>>
    BY <1>1, OpenIs, Zenon
  <1>3. Parted(fs, Len(steps)) /\ DOMAIN files \subseteq DOMAIN fs
    <2>1. Parted(files, Len(steps))
      BY DEF Typed
    <2> QED
      BY <1>2, <2>1, ReopenedType
  <1>4. steps \in Seq(Steps) /\ Len(steps) \in Nat
    BY DEF Typed
  <1>5. committed' \in Seq(1..Len(steps))
    BY <1>2, <1>3, <1>4, RowsOfType
  <1>6. PICK top \in Nat : DOMAIN fs \subseteq 0..top
    BY <1>3 DEF Parted
  <1>7. active' \in Nat
    BY <1>2, <1>6, LastIs
  <1>8. size' \in Nat
    <2>1. Measured(LengthsOf(fs)) /\ DOMAIN LengthsOf(fs) = DOMAIN fs
      BY <1>3, LengthsAre
    <2>2. top + 1 \in Nat /\ \A n \in DOMAIN LengthsOf(fs) : n < top + 1
      BY <1>6, <2>1
    <2> QED
      BY <1>2, <2>1, <2>2, TotalIs
  <1>9. activeSize' \in Nat
    <2>1. CASE LastOf(DOMAIN fs) \in DOMAIN fs
      BY <1>2, <1>3, <2>1, LengthsAre DEF ContentsIn
    <2>2. CASE LastOf(DOMAIN fs) \notin DOMAIN fs
      <3>1. Len(<<>>) = 0
        OBVIOUS
      <3> QED
        BY <1>2, <2>2, <3>1 DEF ContentsIn
    <2> QED
      BY <2>1, <2>2
  <1>10. log' \in LogSet
    <2>1. CASE Restorable(meta, Total(LengthsOf(fs)))
      <3>1. meta.size \in Nat
        BY <1>2, <1>8, <2>1 DEF Restorable
      <3>2. meta # NoMeta
        BY <3>1 DEF NoMeta
      <3>3. meta \in MetaSet
        BY <3>2 DEF Typed
      <3> QED
        BY <1>2, <2>1, <3>3, RestoredIs
    <2>2. CASE ~Restorable(meta, Total(LengthsOf(fs)))
      <3>1. PICK lines : lines = LinesOf(fs)
        OBVIOUS
      <3>2. lines \in Seq(LineSet(Len(steps)))
        BY <1>3, <1>4, <3>1, LinesOfType
      <3>3. \A i \in 1..Len(lines) : lines[i].step \in Nat /\ lines[i].at \in Nat
        <4>1. ASSUME NEW l \in LineSet(Len(steps)) PROVE l.step \in Nat /\ l.at \in Nat
          <5>1. l.step \in Steps \cup {NoStep} /\ l.at \in Nat
            BY DEF LineSet
          <5>2. Steps \subseteq Nat /\ NoStep \in Nat
            BY DEF LogAssumption, NoStep
          <5> QED
            BY <5>1, <5>2, Zenon
        <4> QED
          BY <3>2, <4>1
      <3>4. Len(lines) \in Nat /\ Empty \in LogSet
        BY <3>2, NothingKnown
      <3>5. PICK f : Tracked(f, Empty, lines)
        BY <3>3, <3>4, TrackAllIs
      <3>6. TrackAll(Empty, lines) \in LogSet
        BY <3>4, <3>5 DEF Tracked
      <3> QED
        BY <1>2, <2>2, <3>1, <3>6
    <2> QED
      BY <2>1, <2>2
  <1>11. /\ retry' \in BOOLEAN /\ slipped' \in BOOLEAN
         /\ meta' \in MetaSet \cup {NoMeta}
         /\ pc' \in {"down", "idle", "write", "rollback", "commit", "save"}
    BY <1>2, Zenon DEF Typed
  <1>12. mishaps' \in 0..MaxMishaps
    <2>1. mishaps \in 0..MaxMishaps /\ MaxMishaps \in Nat
      BY DEF Typed, LogAssumption
    <2> QED
      BY <1>2, <2>1
  <1>13. /\ steps' \in Seq(Steps) /\ Len(steps') <= MaxRows
         /\ queue' \in Seq(1..Len(steps')) /\ batch' \in Seq(1..Len(steps'))
         /\ todo' \in Nat \ {0} /\ undo'.left \in Nat
    BY <1>2 DEF Typed
  <1>14. undo'.parts \subseteq DOMAIN files'
    BY <1>1, <1>2, <1>3 DEF Typed
  <1>15. /\ pc' # "write" /\ pc' # "down"
         /\ committed' \in Seq(1..Len(steps')) /\ Parted(files', Len(steps'))
    BY <1>1, <1>2, <1>3, <1>5
  <1> QED
    BY <1>7, <1>8, <1>9, <1>10, <1>11, <1>12, <1>13, <1>14, <1>15 DEF Typed

\* The metadata of all the records is that of the lines.
LEMMA WholeMeta ==
  ASSUME NEW st \in Seq(Steps), NEW done \in Seq(1..Len(st)), NEW m, MetaOf(m, done, st),
         m.size = LineBytes * Len(done), m \in MetaSet \cup {NoMeta}
  PROVE  m \in MetaSet /\ Describes(m, Values(done, st))
  <1>1. PICK c \in Nat : c = Len(done)
    OBVIOUS
  <1>2. m # NoMeta
    <2>1. LineBytes * c # -1
      BY DEF LineBytes
    <2> QED
      BY <1>1, <2>1 DEF NoMeta
  <1>3. PICK k \in 0..c : /\ m.size = LineBytes * k
                          /\ Describes(m, Values(SubSeq(done, 1, k), st))
    BY <1>1, <1>2 DEF MetaOf
  <1>4. k = c
    BY <1>1, <1>3 DEF LineBytes
  <1>5. SubSeq(done, 1, k) = done
    BY <1>1, <1>4, SubSeqFull
  <1> QED
    BY <1>2, <1>3, <1>5

LEMMA OpenSound ==
  ASSUME LogAssumption, Typed, Sound, Open, ~slipped'
  PROVE  Sound' /\ IsPrefix(committed, committed')
  <1>1. PICK fs, old, done, st : fs = files' /\ old = files /\ done = committed /\ st = steps
    OBVIOUS
  <1>2. /\ pc = "down" /\ pc' = "idle" /\ Reopened(fs, old)
        /\ active' = LastOf(DOMAIN fs)
        /\ activeSize' = Len(ContentsIn(fs, LastOf(DOMAIN fs)))
        /\ size' = Total(LengthsOf(fs))
        /\ log' = (IF Restorable(meta, Total(LengthsOf(fs))) THEN Restored(meta)
                   ELSE TrackAll(Empty, LinesOf(fs)))
        /\ committed' = RowsOf(fs)
        /\ UNCHANGED <<meta, steps, queue, batch, todo, undo, retry>>
    BY <1>1, OpenIs, Zenon
  <1>3. /\ st \in Seq(Steps) /\ Parted(old, Len(st)) /\ done \in Seq(1..Len(st))
        /\ meta \in MetaSet \cup {NoMeta}
        /\ queue = <<>> /\ batch = <<>> /\ todo = 1
    BY <1>1, <1>2 DEF Typed
  <1>4. PICK rows : Held(old, done, Len(st), rows)
    BY <1>1 DEF Sound
  <1>5. /\ Spells(old, rows) /\ rows \in Seq(1..Len(st)) /\ Rising(rows)
        /\ IsPrefix(done, rows) /\ LineBytes * Len(done) <= Total(LengthsOf(old))
        /\ \A n \in DOMAIN old : Len(old[n]) <= MaxOf(MaxFile, LineBytes)
    BY <1>4 DEF Held
  <1>6. PICK c : Kept(fs, old, rows, c) /\ Parted(fs, Len(st))
    BY <1>1, <1>2, <1>3, <1>5, KeptIs
  <1>7. PICK new : new = SubSeq(rows, 1, c)
    OBVIOUS
  <1>8. /\ c \in 0..Len(rows) /\ Spells(fs, new) /\ committed' = new
        /\ Total(LengthsOf(fs)) = LineBytes * c /\ Total(LengthsOf(old)) < LineBytes * c + LineBytes
        /\ \A n \in DOMAIN fs : n \in DOMAIN old /\ Len(fs[n]) <= Len(old[n])
    BY <1>2, <1>6, <1>7 DEF Kept
  <1>9. Len(st) \in Nat /\ Len(done) \in Nat /\ Len(rows) \in Nat
    BY <1>3, <1>5
  <1>10. /\ new \in Seq(1..Len(st)) /\ Len(new) = c /\ Rising(new)
         /\ \A i \in 1..c : new[i] = rows[i]
    BY <1>5, <1>7, <1>8, <1>9, RisingPart
  <1>11. PICK d \in Nat : d = Len(done) /\ d <= c
    <2>1. PICK d, t \in Nat : d = Len(done) /\ t = c
      BY <1>8, <1>9
    <2>2. LineBytes * d <= Total(LengthsOf(old)) /\ Total(LengthsOf(old)) < LineBytes * t + LineBytes
      BY <1>5, <1>8, <2>1
    <2>3. Total(LengthsOf(old)) \in Nat
      BY <1>1, <1>3, <1>5, LinesOfSpelled
    <2>4. d <= t
      BY <2>2, <2>3 DEF LineBytes
    <2> QED
      BY <2>1, <2>4
  <1>12. IsPrefix(done, new)
    <2>1. \A i \in 1..Len(done) : done[i] = rows[i]
      BY <1>3, <1>5, PrefixIs
    <2>2. \A i \in 1..d : i \in 1..c
      BY <1>8, <1>9, <1>11
    <2>3. Len(done) <= Len(new) /\ \A i \in 1..Len(done) : done[i] = new[i]
      BY <1>10, <1>11, <2>1, <2>2
    <2> QED
      BY <1>3, <1>10, <2>3, PrefixIs
  <1>13. MetaOf(meta, new, st)
    <2>1. MetaOf(meta, done, st)
      BY <1>1 DEF Sound
    <2> QED
      BY <1>3, <1>10, <1>12, <2>1, MetaStays
  <1>14. Held(fs, new, Len(st), new)
    <2>1. IsPrefix(new, new)
      <3>1. Len(new) <= Len(new)
        BY <1>8, <1>9, <1>10
      <3> QED
        BY <1>10, <3>1, PrefixIs
    <2>2. LineBytes * Len(new) <= Total(LengthsOf(fs))
      BY <1>8, <1>9, <1>10 DEF LineBytes
    <2>3. ASSUME NEW n \in DOMAIN fs PROVE Len(fs[n]) <= MaxOf(MaxFile, LineBytes)
      <3>1. PICK x, y, z \in Int : x = Len(fs[n]) /\ y = Len(old[n]) /\ z = MaxOf(MaxFile, LineBytes)
        <4>1. Len(fs[n]) \in Nat /\ Len(old[n]) \in Nat
          BY <1>3, <1>6, <1>8, LengthsAre
        <4>2. MaxOf(MaxFile, LineBytes) \in Int
          BY DEF MaxOf, LineBytes, LogAssumption
        <4> QED
          BY <4>1, <4>2
      <3>2. x <= y /\ y <= z
        BY <1>5, <1>8, <3>1
      <3>3. x <= z
        BY <3>2
      <3> QED
        BY <3>1, <3>3
    <2> QED
      BY <1>8, <1>10, <2>1, <2>2, <2>3 DEF Held
  <1>15. Total(LengthsOf(fs)) = LineBytes * Len(new)
    BY <1>8, <1>10
  <1>16. Describes(log', Values(new, st))
    <2>1. CASE Restorable(meta, Total(LengthsOf(fs)))
      <3>1. meta.size = LineBytes * Len(new)
        BY <1>15, <2>1 DEF Restorable
      <3>2. meta \in MetaSet /\ Describes(meta, Values(new, st))
        BY <1>3, <1>10, <1>13, <3>1, WholeMeta
      <3> QED
        BY <1>2, <2>1, <3>2, RestoredIs
    <2>2. CASE ~Restorable(meta, Total(LengthsOf(fs)))
      <3>1. Describes(TrackAll(Empty, LinesOf(fs)), Values(new, steps))
        BY <1>1, <1>3, <1>6, <1>8, <1>10, <1>15, ScanIs
      <3> QED
        BY <1>1, <1>2, <2>2, <3>1
    <2> QED
      BY <2>1, <2>2
  <1>17. Accepted' = new
    <2>1. Accepted' = new \o (<<>> \o <<>>)
      BY <1>2, <1>3, <1>8 DEF Accepted
    <2>2. <<>> \in Seq(1..Len(st))
      BY EmptySeq
    <2>3. <<>> \o <<>> = <<>>
      BY <2>2, ConcatEmptySeq
    <2>4. new \o <<>> = new
      BY <1>10, ConcatEmptySeq
    <2> QED
      BY <2>1, <2>3, <2>4, Zenon
  <1>18. Working'
    <2>1. Describes(log', Values(committed', steps'))
      BY <1>1, <1>2, <1>8, <1>16, Zenon
    <2>2. size' = LineBytes * Len(committed')
      BY <1>2, <1>8, <1>15
    <2> QED
      BY <1>2, <1>10, <1>17, <2>1, <2>2 DEF Working
  <1>19. Stage(new)'
    <2>1. new = SubSeq(Accepted', 1, Len(committed') + (todo' - 1))
      <3>1. todo' = 1
        BY <1>2, <1>3
      <3>2. Len(committed') + (todo' - 1) = Len(new)
        BY <1>8, <1>9, <1>10, <3>1
      <3>3. SubSeq(new, 1, Len(new)) = new
        BY <1>10, SubSeqFull
      <3> QED
        BY <1>17, <3>2, <3>3, Zenon
    <2>2. \A n \in DOMAIN files' : n <= active'
      <3>1. PICK top \in Nat : DOMAIN fs \subseteq 0..top
        BY <1>6 DEF Parted
      <3> QED
        BY <1>1, <1>2, <3>1, LastIs
    <2>3. todo' = 1 /\ batch' = <<>>
      BY <1>2, <1>3
    <2>4. todo' - 1 <= Len(batch')
      <3>1. Len(<<>>) = 0
        OBVIOUS
      <3> QED
        BY <2>3, <3>1
    <2> QED
      BY <1>1, <1>2, <1>15, <2>1, <2>2, <2>3, <2>4 DEF Stage, Lengths, Contents
  <1> QED
    <2>1. MetaOf(meta', committed', steps')
      BY <1>1, <1>2, <1>8, <1>13
    <2>2. Held(files', committed', Len(steps'), new)
      BY <1>1, <1>2, <1>8, <1>14
    <2> QED
      BY <1>1, <1>8, <1>12, <1>18, <1>19, <2>1, <2>2 DEF Sound

-----------------------------------------------------------------------------
(* A batch is acknowledged                                                 *)

LEMMA BatchLinesAre ==
  ASSUME LogAssumption, Typed
  PROVE  /\ Len(BatchLines) = Len(batch) /\ Len(batch) \in Nat
         /\ \A i \in 1..Len(batch) : /\ BatchLines[i].step = steps[batch[i]]
                                     /\ BatchLines[i].at = size + (i - 1) * LineBytes
                                     /\ BatchLines[i].step \in Nat /\ BatchLines[i].at \in Nat
  <1>1. /\ batch \in Seq(1..Len(steps)) /\ steps \in Seq(Steps) /\ size \in Nat
        /\ Steps \subseteq Nat
    BY DEF Typed, LogAssumption
  <1>2. PICK n \in Nat : n = Len(batch)
    BY <1>1
  <1>3. PICK lines : lines = BatchLines
    OBVIOUS
  <1>4. lines = [i \in 1..n |-> [step |-> steps[batch[i]], at |-> size + (i - 1) * LineBytes]]
    BY <1>2, <1>3 DEF BatchLines
  <1>5. ASSUME NEW i \in 1..n
        PROVE  steps[batch[i]] \in Nat /\ size + (i - 1) * LineBytes \in Nat
    <2>1. steps[batch[i]] \in Steps
      BY <1>1, <1>2
    <2>2. size + (i - 1) * LineBytes \in Nat
      BY <1>1 DEF LineBytes
    <2> QED
      BY <1>1, <2>1, <2>2
  <1>6. lines \in [1..n -> [step : Nat, at : Nat]]
    BY <1>4, <1>5
  <1>7. Len(lines) = n
    BY <1>6, IsASeq, LenProperties
  <1> QED
    BY <1>2, <1>3, <1>4, <1>5, <1>7

LEMMA CommitTyped ==
  ASSUME LogAssumption, Typed, Commit
  PROVE  Typed'
  <1>1. /\ pc = "commit" /\ pc' = "save"
        /\ log' = TrackAll(log, BatchLines)
        /\ size' = size + Len(Bytes(batch))
        /\ committed' = committed \o batch
        /\ batch' = <<>> /\ todo' = 1 /\ retry' = FALSE
        /\ UNCHANGED <<files, meta, steps, queue, undo, active, activeSize, slipped, mishaps>>
    BY DEF Commit, diskVars, activeVars
  <1>2. /\ batch \in Seq(1..Len(steps)) /\ committed \in Seq(1..Len(steps))
        /\ steps \in Seq(Steps) /\ size \in Nat /\ log \in LogSet
    BY DEF Typed
  <1>3. log' \in LogSet
    <2>1. PICK lines : lines = BatchLines
      OBVIOUS
    <2>2. Len(lines) \in Nat /\ \A i \in 1..Len(lines) : lines[i].step \in Nat /\ lines[i].at \in Nat
      BY <2>1, BatchLinesAre
    <2>3. PICK f : Tracked(f, log, lines)
      BY <1>2, <2>2, TrackAllIs
    <2>4. TrackAll(log, lines) \in LogSet
      BY <2>2, <2>3 DEF Tracked
    <2> QED
      BY <1>1, <2>1, <2>4
  <1>4. size' \in Nat
    <2>1. Bytes(batch) \in Seq(ByteSet(Len(steps)))
      <3>1. Len(steps) \in Nat
        BY <1>2
      <3> QED
        BY <1>2, <3>1, BytesAre
    <2>2. Len(Bytes(batch)) \in Nat
      BY <2>1
    <2> QED
      BY <1>1, <1>2, <2>2
  <1>5. committed' \in Seq(1..Len(steps'))
    BY <1>1, <1>2, ConcatProperties
  <1>6. batch' \in Seq(1..Len(steps'))
    <2>1. <<>> \in Seq(1..Len(steps))
      BY EmptySeq
    <2> QED
      BY <1>1, <2>1, Zenon
  <1>7. /\ todo' \in Nat \ {0} /\ pc' # "write" /\ pc' # "down"
        /\ pc' \in {"down", "idle", "write", "rollback", "commit", "save"}
    BY <1>1
  <1>8. retry' \in BOOLEAN
    BY <1>1
  <1> QED
    BY <1>1, <1>3, <1>4, <1>5, <1>6, <1>7, <1>8 DEF Typed

LEMMA CommitSound ==
  ASSUME LogAssumption, Typed, Sound, Commit
  PROVE  Sound' /\ IsPrefix(committed, committed')
  <1>1. /\ pc = "commit" /\ pc' = "save"
        /\ log' = TrackAll(log, BatchLines)
        /\ size' = size + Len(Bytes(batch))
        /\ committed' = committed \o batch
        /\ batch' = <<>> /\ todo' = 1
        /\ UNCHANGED <<files, meta, steps, queue, active, activeSize>>
    BY DEF Commit, diskVars, activeVars
  <1>2. PICK done, got, rest, st : done = committed /\ got = batch /\ rest = queue /\ st = steps
    OBVIOUS
  <1>3. /\ got \in Seq(1..Len(st)) /\ done \in Seq(1..Len(st)) /\ rest \in Seq(1..Len(st))
        /\ st \in Seq(Steps) /\ size \in Nat /\ log \in LogSet /\ todo \in Nat \ {0}
    BY <1>2 DEF Typed
  <1>4. PICK k, d, b \in Nat : k = Len(st) /\ d = Len(done) /\ b = Len(got)
    BY <1>3
  <1>5. PICK new : new = done \o got
    OBVIOUS
  <1>6. /\ new \in Seq(1..Len(st)) /\ Len(new) = d + b
        /\ \A i \in 1..d : new[i] = done[i]
    <2>1. /\ done \o got \in Seq(1..k) /\ Len(done \o got) = Len(done) + Len(got)
          /\ \A i \in 1..(Len(done) + Len(got)) :
               (done \o got)[i] = IF i <= Len(done) THEN done[i] ELSE got[i - Len(done)]
      BY <1>3, <1>4, ConcatProperties
    <2>2. ASSUME NEW i \in 1..d PROVE (done \o got)[i] = done[i]
      <3>1. i \in 1..(Len(done) + Len(got)) /\ i <= Len(done)
        BY <1>4
      <3> QED
        BY <2>1, <3>1
    <2> QED
      BY <1>4, <1>5, <2>1, <2>2
  <1>7. /\ Rising(Accepted) /\ size = LineBytes * d /\ Describes(log, Values(done, st))
    BY <1>1, <1>2, <1>4, AtWork
  <1>8. committed' = new /\ Accepted' = Accepted
    <2>1. Accepted' = (done \o got) \o (<<>> \o rest)
      BY <1>1, <1>2 DEF Accepted
    <2>2. <<>> \o rest = rest
      BY <1>3, ConcatEmptySeq
    <2>3. (done \o got) \o rest = done \o (got \o rest)
      BY <1>3, SMTT(40)
    <2>4. Accepted = done \o (got \o rest)
      BY <1>2 DEF Accepted
    <2>5. committed' = new
      BY <1>1, <1>2, <1>5
    <2> QED
      BY <2>1, <2>2, <2>3, <2>4, <2>5, Zenon
  <1>9. PICK rows : Held(files, done, k, rows) /\ Stage(rows)
    BY <1>1, <1>2, <1>4 DEF Sound
  <1>10. /\ rows = SubSeq(Accepted, 1, d + b)
         /\ Total(Lengths) = LineBytes * Len(rows)
         /\ \A n \in DOMAIN files : n <= active
         /\ activeSize = Len(Contents(active))
         /\ active = LastOf(DOMAIN files)
    <2>1. todo - 1 = b
      BY <1>1, <1>2, <1>4, <1>9 DEF Stage
    <2> QED
      BY <1>1, <1>2, <1>4, <1>9, <2>1 DEF Stage
  <1>11. rows = new
    <2>1. /\ Accepted \in Seq(1..k) /\ Len(Accepted) = d + (b + Len(rest))
          /\ \A i \in 1..d : Accepted[i] = done[i]
          /\ \A i \in 1..b : Accepted[d + i] = got[i]
      BY <1>2, <1>3, <1>4, Joined DEF Accepted
    <2>2. PICK acc : acc = Accepted
      OBVIOUS
    <2>3. PICK r \in Nat : r = Len(rest)
      BY <1>3
    <2>4. d + b \in 0..Len(acc)
      BY <2>1, <2>2, <2>3
    <2>5. rows \in Seq(1..k) /\ Len(rows) = d + b /\ \A i \in 1..(d + b) : rows[i] = acc[i]
      BY <1>10, <2>1, <2>2, <2>4, CutTo
    <2>6. ASSUME NEW i \in 1..(d + b) PROVE acc[i] = new[i]
      <3>1. CASE i <= d
        <4>1. i \in 1..d
          BY <3>1
        <4> QED
          BY <1>6, <2>1, <2>2, <4>1
      <3>2. CASE ~(i <= d)
        <4>1. PICK j \in 1..b : j = i - d
          BY <3>2
        <4>2. i = d + j
          BY <4>1
        <4>3. acc[d + j] = got[j]
          BY <2>1, <2>2, <4>1
        <4>4. (done \o got)[i] = got[i - d]
          BY <1>3, <1>4, <3>2, ConcatProperties
        <4> QED
          BY <1>5, <4>1, <4>2, <4>3, <4>4
      <3> QED
        BY <3>1, <3>2
    <2> QED
      BY <1>4, <1>6, <2>5, <2>6, SeqEqual
  <1>12. IsPrefix(done, new)
    <2>1. Len(done) <= Len(new) /\ \A i \in 1..Len(done) : done[i] = new[i]
      BY <1>4, <1>6
    <2> QED
      BY <1>3, <1>6, <2>1, PrefixIs
  <1>13. Held(files, new, k, new)
    <2>1. IsPrefix(new, new)
      <3>1. Len(new) <= Len(new)
        BY <1>6
      <3> QED
        BY <1>6, <3>1, PrefixIs
    <2>2. LineBytes * Len(new) <= Total(LengthsOf(files))
      BY <1>6, <1>10, <1>11 DEF Lengths, LineBytes
    <2> QED
      BY <1>9, <1>11, <2>1, <2>2 DEF Held
  <1>14. MetaOf(meta, new, st)
    <2>1. MetaOf(meta, done, st)
      BY <1>2 DEF Sound
    <2> QED
      BY <1>3, <1>6, <1>12, <2>1, MetaStays
  <1>15. Describes(log', Values(new, st))
    <2>1. PICK x, y, lines : x = Values(done, st) /\ y = Values(got, st) /\ lines = BatchLines
      OBVIOUS
    <2>2. x \in Seq(Positive) /\ Len(x) = d
      BY <1>3, <1>4, <2>1, ValuesAre
    <2>3. y \in Seq(Positive) /\ Len(y) = b /\ \A i \in 1..b : y[i] = st[got[i]]
      BY <1>3, <1>4, <2>1, ValuesAre
    <2>4. /\ Len(lines) = b
          /\ \A i \in 1..b : lines[i].step = y[i] /\ lines[i].at = LineBytes * (d + i - 1)
      <3>1. /\ Len(lines) = b
            /\ \A i \in 1..b : /\ lines[i].step = st[got[i]]
                               /\ lines[i].at = size + (i - 1) * LineBytes
        BY <1>2, <1>4, <2>1, BatchLinesAre
      <3>2. ASSUME NEW i \in 1..b
            PROVE  LineBytes * d + (i - 1) * LineBytes = LineBytes * (d + i - 1)
        BY DEF LineBytes
      <3> QED
        BY <1>7, <2>3, <3>1, <3>2
    <2>5. Describes(TrackAll(log, lines), x \o y)
      BY <1>3, <1>7, <2>1, <2>2, <2>3, <2>4, TrackAllDescribes
    <2>6. x \o y = Values(new, st)
      BY <1>3, <1>5, <2>1, ValuesConcat
    <2> QED
      BY <1>1, <2>1, <2>5, <2>6, Zenon
  <1>16. size' = LineBytes * Len(new)
    <2>1. Len(Bytes(got)) = LineBytes * b
      BY <1>3, <1>4, BytesAre
    <2> QED
      BY <1>1, <1>2, <1>6, <1>7, <2>1 DEF LineBytes
  <1>17. Working'
    <2>1. Describes(log', Values(committed', steps'))
      BY <1>1, <1>2, <1>8, <1>15
    <2> QED
      BY <1>1, <1>7, <1>8, <1>16, <2>1 DEF Working
  <1>18. Stage(new)'
    <2>1. new = SubSeq(Accepted', 1, Len(committed') + (todo' - 1))
      <3>1. Len(committed') + (todo' - 1) = d + b
        BY <1>1, <1>6, <1>8
      <3> QED
        BY <1>8, <1>10, <1>11, <3>1
    <2>2. Total(LengthsOf(files')) = LineBytes * Len(new)
      BY <1>1, <1>10, <1>11 DEF Lengths
    <2>3. todo' - 1 <= Len(batch')
      <3>1. Len(<<>>) = 0
        OBVIOUS
      <3> QED
        BY <1>1, <3>1
    <2>4. /\ \A n \in DOMAIN files' : n <= active'
          /\ activeSize' = Len(ContentsIn(files', active'))
          /\ active' = LastOf(DOMAIN files')
      BY <1>1, <1>10 DEF Contents
    <2> QED
      BY <1>1, <2>1, <2>2, <2>3, <2>4 DEF Stage, Lengths, Contents
  <1> QED
    <2>1. MetaOf(meta', committed', steps')
      BY <1>1, <1>2, <1>8, <1>14
    <2>2. Held(files', committed', Len(steps'), new)
      BY <1>1, <1>2, <1>4, <1>8, <1>13
    <2> QED
      BY <1>2, <1>8, <1>12, <1>17, <1>18, <2>1, <2>2 DEF Sound

-----------------------------------------------------------------------------
(* Invariance                                                              *)

\* A reader changes nothing of the writer or of the disk.
LEMMA ReaderSteps ==
  ASSUME IInv, ReaderStep \/ UNCHANGED vars
  PROVE  /\ UNCHANGED <<files, meta, pc, steps, queue, batch, todo, undo, retry, active,
                        activeSize, size, log, slipped, committed, mishaps>>
         /\ IInv'
  <1>1. UNCHANGED <<diskVars, writerVars>>
    BY Zenon DEF ReaderStep, Pin, PinOwn, Prepare, vars
  <1>2. UNCHANGED <<files, meta, pc, steps, queue, batch, todo, undo, retry, active,
                    activeSize, size, log, slipped, committed, mishaps>>
    BY <1>1 DEF diskVars, writerVars, batchVars, activeVars, ghostVars
  <1>3. Typed'
    BY <1>2 DEF IInv, Typed
  <1>4. Accepted' = Accepted
    BY <1>2 DEF Accepted
  <1>5. ASSUME Sound PROVE Sound'
    <2>1. PICK rows : /\ Held(files, committed, Len(steps), rows)
                      /\ pc \notin {"down", "rollback"} => Stage(rows)
      BY <1>5 DEF Sound
    <2>2. pc \notin {"down", "rollback"} => Stage(rows)'
      BY <1>2, <1>4, <2>1, Zenon DEF Stage, Lengths, Contents
    <2>3. pc # "down" => Working'
      BY <1>2, <1>4, <1>5, Zenon DEF Sound, Working
    <2>4. MetaOf(meta', committed', steps') /\ Held(files', committed', Len(steps'), rows)
      BY <1>2, <1>5, <2>1 DEF Sound
    <2> QED
      BY <1>2, <2>2, <2>3, <2>4 DEF Sound
  <1> QED
    BY <1>2, <1>3, <1>5 DEF IInv

LEMMA Induction ==
  ASSUME LogAssumption, IInv, [Next]_vars
  PROVE  IInv'
  <1> USE DEF IInv
  <1>1. CASE Open
    <2>1. ~slipped' => ~slipped
      BY <1>1, OpenIs
    <2> QED
      BY <1>1, <2>1, OpenTyped, OpenSound
  <1>2. CASE TakeBatch
    BY <1>2, TakeBatchTyped, TakeBatchSound DEF TakeBatch, ghostVars
  <1>3. CASE Rotate
    BY <1>3, RotateTyped, RotateSound DEF Rotate, ghostVars
  <1>4. CASE WriteChunk
    BY <1>4, WriteChunkTyped, WriteChunkSound DEF WriteChunk, ghostVars
  <1>5. CASE WriteFails
    BY <1>5, WriteFailsTyped, WriteFailsSound DEF WriteFails, ghostVars
  <1>6. CASE RollbackPart
    BY <1>6, RollbackPartTyped, RollbackPartSound DEF RollbackPart, ghostVars
  <1>7. CASE RolledBack
    BY <1>7, RolledBackTyped, RolledBackSound DEF RolledBack, ghostVars
  <1>8. CASE RollbackFails
    BY <1>8, RollbackFailsTyped DEF RollbackFails
  <1>9. CASE Commit
    BY <1>9, CommitTyped, CommitSound DEF Commit
  <1>10. CASE SaveMeta
    BY <1>10, SaveMetaTyped, SaveMetaSound DEF SaveMeta, ghostVars
  <1>11. CASE Close
    BY <1>11, CloseTyped, CloseSound DEF Close, ghostVars
  <1>12. CASE Crash
    BY <1>12, CrashTyped, CrashSound DEF Crash, ghostVars
  <1>13. CASE \E s \in Steps : Enqueue(s)
    <2>1. PICK s \in Steps : Enqueue(s)
      BY <1>13
    <2> QED
      BY <2>1, EnqueueTyped, EnqueueSound DEF Enqueue, ghostVars
  <1>14. CASE ReaderStep \/ UNCHANGED vars
    BY <1>14, ReaderSteps
  <1> HIDE DEF IInv
  <1> QED
    BY <1>1, <1>2, <1>3, <1>4, <1>5, <1>6, <1>7, <1>8, <1>9, <1>10, <1>11, <1>12, <1>13, <1>14
    DEF Next, WriterStep

(* Whatever fails and whenever the writer is killed, the parts spell the   *)
(* records that were acknowledged and then, rising, records of the batch,  *)
(* with at most one cut line, at the very end; and what the writer and its *)
(* metadata say of the lines is true of them.  Only a rollback or a repair *)
(* that failed, and said so, ends this.                                    *)
THEOREM Invariance == Spec => []IInv
  <1>1. LogAssumption
    BY LogAssumption
  <1>2. Init => IInv
    BY <1>1, InitTyped, InitSound DEF IInv
  <1>3. IInv /\ [Next]_vars => IInv'
    BY <1>1, Induction
  <1> QED
    BY <1>2, <1>3, PTL DEF Spec

-----------------------------------------------------------------------------
(* What the runs check                                                     *)

(* Every variable keeps its type; while nothing slipped a part is never    *)
(* longer than max_file_bytes but for a record that is, and a cut line is  *)
(* only ever at the end of the last part: what write_data, rollback_data   *)
(* and a killed writer leave.                                              *)
THEOREM Layout == Spec => []LayoutOK
  <1>1. LogAssumption
    BY LogAssumption
  <1>2. ASSUME IInv PROVE TypeOK
    <2>1. Typed
      BY <1>2 DEF IInv
    <2>2. PICK k \in Nat : k = Len(steps) /\ k <= MaxRows
      BY <2>1 DEF Typed
    <2>3. MaxRows \in Nat /\ 1..k \subseteq 1..MaxRows
      BY <1>1, <2>2 DEF LogAssumption
    <2>4. ASSUME NEW n \in DOMAIN files
          PROVE  n \in Nat /\ files[n] \in Seq((1..MaxRows) \X (1..LineBytes))
      <3>1. n \in Nat /\ files[n] \in Seq(ByteSet(k))
        BY <2>1, <2>2 DEF Typed, Parted
      <3>2. ByteSet(k) \subseteq (1..MaxRows) \X (1..LineBytes)
        BY <2>3 DEF ByteSet
      <3> QED
        BY <3>1, <3>2, SeqMonotonic
    <2>5. {queue, batch, committed} \subseteq Seq(1..MaxRows)
      <3>1. queue \in Seq(1..k) /\ batch \in Seq(1..k) /\ committed \in Seq(1..k)
        BY <2>1, <2>2 DEF Typed
      <3>2. \A s \in Seq(1..k) : s \in Seq(1..MaxRows)
        BY <2>3, SeqMonotonic
      <3> QED
        BY <3>1, <3>2
    <2> QED
      BY <2>1, <2>4, <2>5 DEF Typed, TypeOK
  <1>3. ASSUME IInv, ~slipped, NEW n \in DOMAIN files
        PROVE  /\ Len(files[n]) <= MaxOf(MaxFile, LineBytes)
               /\ n # LastOf(DOMAIN files) => Repaired(files[n]) = files[n]
    <2>1. Typed /\ Sound
      BY <1>3 DEF IInv
    <2>2. PICK rows : Held(files, committed, Len(steps), rows)
      BY <2>1 DEF Sound
    <2>3. /\ Spells(files, rows) /\ rows \in Seq(1..Len(steps))
          /\ Len(files[n]) <= MaxOf(MaxFile, LineBytes)
      BY <2>2 DEF Held
    <2>4. PICK fs : fs = files
      OBVIOUS
    <2>5. Parted(fs, Len(steps)) /\ fs[n] \in Seq(ByteSet(Len(steps)))
      BY <2>1, <2>4 DEF Typed, Parted
    <2>6. ASSUME n # LastOf(DOMAIN fs) PROVE Repaired(fs[n]) = fs[n]
      <3>1. \A i \in 1..Len(fs[n]) : fs[n][i][2] = PlaceOf(i)
        BY <2>3, <2>4, <2>5, PartPlaces
      <3>2. PICK keep \in 0..Len(fs[n]) :
              /\ Repaired(fs[n]) = SubSeq(fs[n], 1, keep)
              /\ keep % LineBytes = 0 /\ Len(fs[n]) < keep + LineBytes
        BY <2>5, <3>1, RepairedIs
      <3>3. Len(fs[n]) % LineBytes = 0
        BY <2>3, <2>4, <2>6 DEF Spells
      <3>4. PICK len \in Nat : len = Len(fs[n])
        BY <2>5
      <3>5. keep = len
        <4>1. keep \in 0..len
          BY <3>2, <3>4
        <4>2. keep % 3 = 0
          BY <3>2 DEF LineBytes
        <4>3. len < keep + 3
          BY <3>2, <3>4 DEF LineBytes
        <4>4. len % 3 = 0
          BY <3>3, <3>4 DEF LineBytes
        <4> QED
          BY <4>1, <4>2, <4>3, <4>4
      <3> QED
        BY <2>5, <3>2, <3>4, <3>5, SubSeqFull
    <2> QED
      BY <2>3, <2>4, <2>6
  <1>4. IInv => LayoutOK
    BY <1>2, <1>3 DEF LayoutOK
  <1> QED
    BY <1>4, Invariance, PTL

(* Whatever fails and whenever the writer is killed, the acknowledged      *)
(* records are the first ones that reopening reads from disk, in order and *)
(* once each, and what follows them is the batch, in order and once each.  *)
THEOREM Durability == Spec => []Durable
  <1>1. LogAssumption
    BY LogAssumption
  <1>2. ASSUME IInv, ~slipped
        PROVE  /\ IsPrefix(committed, RowsOf(files))
               /\ \A i \in 2..Len(RowsOf(files)) : RowsOf(files)[i - 1] < RowsOf(files)[i]
    <2>1. Typed /\ Sound
      BY <1>2 DEF IInv
    <2>2. PICK rows : Held(files, committed, Len(steps), rows)
      BY <2>1 DEF Sound
    <2>3. /\ Spells(files, rows) /\ rows \in Seq(1..Len(steps)) /\ Rising(rows)
          /\ IsPrefix(committed, rows)
          /\ LineBytes * Len(committed) <= Total(LengthsOf(files))
      BY <2>2 DEF Held
    <2>4. PICK fs, done, k : fs = files /\ done = committed /\ k = Len(steps)
      OBVIOUS
    <2>5. Parted(fs, k) /\ done \in Seq(1..k) /\ steps \in Seq(Steps) /\ k \in Nat
      BY <2>1, <2>4 DEF Typed
    <2>6. PICK w \in 0..Len(rows) :
            /\ RowsOf(fs) = SubSeq(rows, 1, w)
            /\ LineBytes * w <= Total(LengthsOf(fs)) /\ Total(LengthsOf(fs)) < LineBytes * w + LineBytes
      BY <1>1, <2>3, <2>4, <2>5, RowsOfSpelled
    <2>7. PICK new : new = SubSeq(rows, 1, w)
      OBVIOUS
    <2>8. /\ new \in Seq(1..k) /\ Len(new) = w /\ Rising(new)
          /\ \A i \in 1..w : new[i] = rows[i]
      BY <2>3, <2>4, <2>5, <2>7, RisingPart
    <2>9. PICK d, x \in Nat : d = Len(done) /\ x = w /\ d <= x
      <3>1. PICK d, x \in Nat : d = Len(done) /\ x = w
        BY <2>3, <2>5, <2>6
      <3>2. Total(LengthsOf(fs)) \in Nat
        BY <2>3, <2>4, <2>5, LinesOfSpelled
      <3>3. LineBytes * d <= Total(LengthsOf(fs)) /\ Total(LengthsOf(fs)) < LineBytes * x + LineBytes
        BY <2>3, <2>4, <2>6, <3>1
      <3>4. d <= x
        BY <3>2, <3>3 DEF LineBytes
      <3> QED
        BY <3>1, <3>4
    <2>10. IsPrefix(done, new)
      <3>1. \A i \in 1..Len(done) : done[i] = rows[i]
        BY <2>3, <2>4, <2>5, PrefixIs
      <3>2. \A i \in 1..d : i \in 1..x
        BY <2>9
      <3>3. Len(done) <= Len(new) /\ \A i \in 1..Len(done) : done[i] = new[i]
        BY <2>8, <2>9, <3>1, <3>2
      <3> QED
        BY <2>5, <2>8, <3>3, PrefixIs
    <2>11. RowsOf(files) = new
      BY <2>4, <2>6, <2>7
    <2> QED
      BY <2>4, <2>8, <2>10, <2>11 DEF Rising
  <1>3. IInv => Durable
    BY <1>2, Zenon DEF Durable
  <1> QED
    BY <1>3, Invariance, PTL

LEMMA CommittedGrows ==
  ASSUME LogAssumption, IInv, [Next]_vars, ~slipped'
  PROVE  IsPrefix(committed, committed')
  <1>1. Typed /\ (~slipped => Sound)
    BY DEF IInv
  <1>2. ASSUME UNCHANGED committed PROVE IsPrefix(committed, committed')
    <2>1. PICK done : done = committed /\ done \in Seq(1..Len(steps))
      BY <1>1 DEF Typed
    <2>2. Len(done) <= Len(done)
      BY <2>1
    <2>3. IsPrefix(done, done)
      BY <2>1, <2>2, PrefixIs
    <2> QED
      BY <1>2, <2>1, <2>3
  <1>3. CASE Open
    <2>1. ~slipped
      BY <1>1, <1>3, OpenIs
    <2> QED
      BY <1>1, <1>3, <2>1, OpenSound
  <1>4. CASE Commit
    <2>1. ~slipped
      BY <1>4 DEF Commit
    <2> QED
      BY <1>1, <1>4, <2>1, CommitSound
  <1>5. CASE ~Open /\ ~Commit
    <2>1. CASE ReaderStep \/ UNCHANGED vars
      BY <1>2, <2>1, ReaderSteps
    <2>2. CASE TakeBatch \/ Rotate \/ WriteChunk \/ WriteFails \/ RollbackPart
      BY <1>2, <2>2 DEF TakeBatch, Rotate, WriteChunk, WriteFails, RollbackPart, ghostVars
    <2>3. CASE RolledBack \/ RollbackFails \/ SaveMeta \/ Close \/ Crash
      BY <1>2, <2>3 DEF RolledBack, RollbackFails, SaveMeta, Close, Crash, ghostVars
    <2>4. CASE \E s \in Steps : Enqueue(s)
      BY <1>2, <2>4 DEF Enqueue, ghostVars
    <2> QED
      BY <1>5, <2>1, <2>2, <2>3, <2>4 DEF Next, WriterStep
  <1> QED
    BY <1>3, <1>4, <1>5

(* Nothing that was acknowledged is ever taken back: not by a rollback, a  *)
(* killed writer, the cut of a torn line, or what NativeWriter::new makes  *)
(* of the metadata or of the lines.                                        *)
THEOREM Remembers == Spec => NeverForgets
  <1>1. LogAssumption
    BY LogAssumption
  <1>2. ASSUME IInv, [Next]_vars, ~slipped' PROVE IsPrefix(committed, committed')
    BY <1>1, <1>2, CommittedGrows
  <1>3. IInv /\ [Next]_vars => [~slipped' => IsPrefix(committed, committed')]_vars
    BY <1>2
  <1>4. Spec => [][Next]_vars
    BY PTL DEF Spec
  <1> QED
    BY <1>3, <1>4, Invariance, PTL DEF NeverForgets

(* Between two flushes the writer's books are the disk's: the committed    *)
(* bytes, the number of lines, and the part and the room in it where the   *)
(* next batch starts, also after a rollback or a restart.                  *)
THEOREM Books == Spec => []BooksMatch
  <1>1. LogAssumption
    BY LogAssumption
  <1>2. ASSUME IInv, ~slipped, pc = "idle"
        PROVE  /\ size = Total(Lengths) /\ log.lines = Len(AllLines)
               /\ active = LastOf(DOMAIN files) /\ activeSize = Len(Contents(active))
    <2>1. Typed /\ Sound
      BY <1>2 DEF IInv
    <2>2. PICK rows : Held(files, committed, Len(steps), rows) /\ Stage(rows)
      BY <1>2, <2>1 DEF Sound
    <2>3. /\ rows = SubSeq(Accepted, 1, Len(committed) + (todo - 1))
          /\ Total(Lengths) = LineBytes * Len(rows) /\ todo = 1
          /\ active = LastOf(DOMAIN files) /\ activeSize = Len(Contents(active))
      BY <1>2, <2>2 DEF Stage
    <2>4. Spells(files, rows) /\ rows \in Seq(1..Len(steps))
      BY <2>2 DEF Held
    <2>5. /\ size = LineBytes * Len(committed)
          /\ Describes(log, Values(committed, steps))
          /\ Accepted \in Seq(1..Len(steps))
          /\ Len(Accepted) = Len(committed) + (Len(batch) + Len(queue))
      BY <1>2, <2>1, AtWork
    <2>6. PICK d, b, q \in Nat : d = Len(committed) /\ b = Len(batch) /\ q = Len(queue)
      BY <2>1 DEF Typed
    <2>7. Len(rows) = d
      <3>1. rows = SubSeq(Accepted, 1, d)
        <4>1. d + (1 - 1) = d
          BY <2>6
        <4> QED
          BY <2>3, <2>6, <4>1
      <3>2. d \in 0..Len(Accepted)
        BY <2>5, <2>6
      <3> QED
        BY <2>5, <3>1, <3>2, CutTo
    <2>8. size = Total(Lengths)
      BY <2>3, <2>5, <2>6, <2>7
    <2>9. log.lines = d
      <3>1. log.lines = Len(Values(committed, steps))
        BY <2>5 DEF Describes
      <3>2. committed \in Seq(1..Len(steps)) /\ steps \in Seq(Steps)
        BY <2>1 DEF Typed
      <3> QED
        BY <1>1, <2>6, <3>1, <3>2, ValuesAre
    <2>10. Len(LinesOf(files)) = Len(rows)
      <3>1. Parted(files, Len(steps)) /\ steps \in Seq(Steps)
        BY <2>1 DEF Typed
      <3>2. Total(LengthsOf(files)) = LineBytes * Len(rows)
        BY <2>3 DEF Lengths
      <3> QED
        BY <1>1, <2>4, <3>1, <3>2, ScanIs
    <2> QED
      BY <2>3, <2>7, <2>8, <2>9, <2>10 DEF AllLines
  <1>3. IInv => BooksMatch
    BY <1>2 DEF BooksMatch
  <1> QED
    BY <1>3, Invariance, PTL

(* When its size is that of the parts, metadata of any age is what reading *)
(* all the lines finds: their number, the order flags, the last and the    *)
(* greatest step, and every anchor is the start of the line it names.      *)
THEOREM Restoring == Spec => []RestoreIsRescan
  <1>1. LogAssumption
    BY LogAssumption
  <1>2. ASSUME IInv, ~slipped, Restorable(meta, Total(Lengths)),
               NEW lines, lines = AllLines, NEW scan, scan = TrackAll(Empty, lines)
        PROVE  /\ \A f \in {"lines", "sorted", "dups", "last", "max"} : meta[f] = scan[f]
               /\ \A i \in 1..Len(meta.index) :
                    /\ lines[meta.index[i].line + 1].at = meta.index[i].at
                    /\ lines[meta.index[i].line + 1].step = meta.index[i].step
    <2>1. Typed /\ Sound
      BY <1>2 DEF IInv
    <2>2. PICK rows : Held(files, committed, Len(steps), rows)
      BY <2>1 DEF Sound
    <2>3. /\ Spells(files, rows) /\ rows \in Seq(1..Len(steps)) /\ IsPrefix(committed, rows)
          /\ LineBytes * Len(committed) <= Total(LengthsOf(files))
      BY <2>2 DEF Held
    <2>4. /\ Parted(files, Len(steps)) /\ steps \in Seq(Steps)
          /\ committed \in Seq(1..Len(steps)) /\ meta \in MetaSet \cup {NoMeta}
      BY <2>1 DEF Typed
    <2>5. PICK t, d, r \in Nat : /\ t = Total(LengthsOf(files)) /\ d = Len(committed)
                                 /\ r = Len(rows)
      BY <2>3, <2>4, LinesOfSpelled
    <2>6. meta.size = t
      BY <1>2, <2>5 DEF Restorable, Lengths
    <2>7. MetaOf(meta, committed, steps)
      BY <2>1 DEF Sound
    <2>8. t = LineBytes * d
      <3>1. meta # NoMeta
        BY <2>5, <2>6 DEF NoMeta
      <3>2. PICK k \in 0..d : meta.size = LineBytes * k
        BY <2>5, <2>7, <3>1 DEF MetaOf
      <3>3. t = 3 * k /\ 3 * d <= t
        BY <2>3, <2>5, <2>6, <3>2 DEF LineBytes
      <3> QED
        BY <3>2, <3>3 DEF LineBytes
    <2>9. r = d
      <3>1. t <= 3 * r /\ 3 * r < t + 3
        BY <2>3, <2>5 DEF Spells, LineBytes
      <3> QED
        BY <2>8, <3>1 DEF LineBytes
    <2>10. committed = rows
      <3>1. committed = SubSeq(rows, 1, d)
        BY <2>3, <2>4, <2>5, PrefixIs
      <3> QED
        BY <2>3, <2>5, <2>9, <3>1, SubSeqFull
    <2>11. PICK vals : vals = Values(rows, steps)
      OBVIOUS
    <2>12. vals \in Seq(Positive) /\ Len(vals) = r
      BY <1>1, <2>3, <2>4, <2>5, <2>11, ValuesAre
    <2>13. Describes(meta, vals)
      BY <2>4, <2>5, <2>6, <2>7, <2>8, <2>10, <2>11, WholeMeta
    <2>14. /\ Describes(scan, vals)
           /\ \A i \in 1..r : lines[i].step = vals[i] /\ lines[i].at = LineBytes * (i - 1)
      <3>1. Total(LengthsOf(files)) = LineBytes * Len(rows)
        BY <2>5, <2>8, <2>9
      <3> QED
        BY <1>1, <1>2, <2>3, <2>4, <2>5, <2>11, <3>1, ScanIs DEF AllLines
    <2>15. \A f \in {"lines", "sorted", "dups", "last", "max"} : meta[f] = scan[f]
      <3>1. Len(vals) \in Nat /\ \A i \in 1..Len(vals) : vals[i] \in Positive
        BY <2>12
      <3>2. /\ meta.lines = scan.lines /\ meta.sorted = scan.sorted /\ meta.dups = scan.dups
            /\ meta.last = scan.last /\ meta.max = scan.max
        BY <2>13, <2>14, <3>1, Agreeing
      <3> QED
        BY <3>2
    <2>16. ASSUME NEW i \in 1..Len(meta.index)
           PROVE  /\ lines[meta.index[i].line + 1].at = meta.index[i].at
                  /\ lines[meta.index[i].line + 1].step = meta.index[i].step
      <3>1. PICK a : a = meta.index[i]
        OBVIOUS
      <3>2. a.line \in 0..(r - 1) /\ a.at = LineBytes * a.line /\ a.step = vals[a.line + 1]
        BY <2>12, <2>13, <3>1 DEF Describes
      <3>3. PICK l \in Nat : l = a.line /\ l + 1 \in 1..r /\ (l + 1) - 1 = l
        BY <3>2
      <3>4. lines[l + 1].step = vals[l + 1] /\ lines[l + 1].at = LineBytes * l
        BY <2>14, <3>3
      <3> QED
        BY <3>1, <3>2, <3>3, <3>4
    <2> QED
      BY <2>15, <2>16
  <1>3. IInv => RestoreIsRescan
    BY <1>2, Zenon DEF RestoreIsRescan
  <1> QED
    BY <1>3, Invariance, PTL

=============================================================================

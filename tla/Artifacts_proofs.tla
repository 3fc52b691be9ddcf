-------------------------- MODULE Artifacts_proofs --------------------------
(***************************************************************************)
(* Theorems about the artifact store (Artifacts): types, complete version  *)
(* directories, directories without a record, the answer of log(), and     *)
(* the registry of versions.                                               *)
(*                                                                         *)
(* Three facts carry all of them.  Base: the lock has one holder, and what *)
(* is known of the index is what reading it yields.  DirsOK and Accounted: *)
(* the directory of every stored version is in place and holds what the    *)
(* record says, and every directory belongs to a record or to the holder.  *)
(* TableOK: versions of a name are numbered from 0 without a gap, contents *)
(* and aliases are of one version each, and the record that the holder is  *)
(* about to append extends this table.                                     *)
(***************************************************************************)
EXTENDS Artifacts, Integers, SequenceTheorems, FiniteSetTheorems, TLAPS

-----------------------------------------------------------------------------
(* Numbers                                                                 *)

\* A set of numbers that is not empty has a least one.
LEMMA Least ==
  ASSUME NEW T, T \subseteq Nat, T # {}
  PROVE  \E x \in T : \A y \in T : x <= y
  <1>1. PICK top \in T : TRUE
    OBVIOUS
  <1>2. PICK S : S = 0..top
    OBVIOUS
  <1>3. top \in Nat /\ IsFiniteSet(S)
    BY <1>1, <1>2, FS_Interval
  <1>4. IsWellFoundedOn(StrictSubsetOrdering(S), SUBSET S)
    BY <1>3, FS_StrictSubsetOrderingWellFounded, FS_FiniteSubsetsOfFinite
  <1> DEFINE F == {0..x : x \in {z \in T : z <= top}}
  <1>5. F \subseteq SUBSET S /\ F # {}
    <2>1. \A x \in Nat : x <= top => 0..x \in SUBSET S
      BY <1>2, <1>3
    <2>2. top \in {z \in T : z <= top}
      BY <1>1, <1>3
    <2> QED
      BY <2>1, <2>2
  <1>6. PICK I \in F : \A J \in F : ~ (<<J, I>> \in StrictSubsetOrdering(S))
    BY <1>4, <1>5, WFMin
  <1>7. PICK x \in T : x <= top /\ I = 0..x
    BY <1>6
  <1>8. ASSUME NEW y \in T, y < x PROVE FALSE
    <2>1. PICK J : J = 0..y
      OBVIOUS
    <2>2. y \in Nat /\ x \in Nat /\ y <= top
      BY <1>3, <1>7, <1>8
    <2>3. J \in F
      BY <2>1, <2>2
    <2>4. J \subseteq I /\ J # I
      BY <1>7, <1>8, <2>1, <2>2
    <2> HIDE DEF F
    <2>5. J \in SUBSET S /\ I \in SUBSET S
      BY <1>5, <1>6, <2>3
    <2>6. <<J, I>> \in StrictSubsetOrdering(S)
      BY <2>4, <2>5 DEF StrictSubsetOrdering
    <2> QED
      BY <1>6, <2>3, <2>6
  <1>9. \A y \in T : x <= y
    BY <1>7, <1>8
  <1> QED
    BY <1>7, <1>9

\* A set of numbers that is bounded and not empty has a greatest one.
LEMMA Greatest ==
  ASSUME NEW n \in Nat, NEW T, T \subseteq 0..n, T # {}
  PROVE  \E x \in T : \A y \in T : y <= x
  <1> DEFINE U == {m \in Nat : \E x \in T : m + x = n}
  <1>1. U \subseteq Nat /\ U # {}
    <2>1. PICK x \in T : TRUE
      OBVIOUS
    <2>2. n - x \in Nat /\ (n - x) + x = n
      BY <2>1
    <2> QED
      BY <2>1, <2>2
  <1>2. PICK m \in U : \A k \in U : m <= k
    <2> HIDE DEF U
    <2> QED
      BY <1>1, Least
  <1>3. PICK x \in T : m + x = n
    BY <1>2
  <1>4. ASSUME NEW y \in T PROVE y <= x
    <2>1. n - y \in U
      OBVIOUS
    <2> QED
      BY <1>2, <1>3, <2>1
  <1> QED
    BY <1>4

\* Induction over a set of numbers.
LEMMA Inductive ==
  ASSUME NEW T, 0 \in T, \A n \in Nat : n \in T => n + 1 \in T
  PROVE  Nat \subseteq T
  <1> SUFFICES ASSUME Nat \ T # {} PROVE FALSE
    OBVIOUS
  <1>1. PICK x \in Nat \ T : \A y \in Nat \ T : x <= y
    BY Least
  <1>2. x - 1 \in Nat /\ x - 1 \in T
    BY <1>1
  <1> QED
    BY <1>1, <1>2

-----------------------------------------------------------------------------
(* Types                                                                   *)

Files == UNION {[F -> Contents \cup {Shared}] : F \in SUBSET Sources}
Drafts == [name : Names \cup {NoOne}, files : Digests, held : SUBSET Sources]
Jobs == [row : Rows \cup {NoOne}, staged : Files, todo : SUBSET Sources]

TypeOK ==
    /\ src \in [Sources -> Contents]
    /\ index \in Seq(Rows) /\ versions \in Seq(Rows)
    /\ DOMAIN dirs \subseteq Names \X Nat
    /\ \A key \in DOMAIN dirs : dirs[key] \in Files
    /\ holder \in Procs \cup {NoOne}
    /\ pc \in [Procs -> {"idle", "copy", "link", "append", "done"}]
    /\ draft \in [Procs -> Drafts] /\ job \in [Procs -> Jobs]
    /\ logs \in Nat /\ errors \in Nat /\ mishaps \in Nat

\* A call of log() holds the lock from its first step to its last, and knows
\* what it will append.
LockHeld == \A p \in Procs : pc[p] # "idle" => holder = p /\ job[p].row \in Rows /\ job[p].row.ok

-----------------------------------------------------------------------------
(* Directories                                                             *)

Key(row) == <<row.name, row.version>>

\* The directory of a version has the files of its record.
Holds(d, row) ==
    \A f \in DOMAIN row.digest : f \in DOMAIN d /\ d[f] \in {row.digest[f], Shared}

\* What is stored of the version of a record.
Kept(ds, row) == row.stored => /\ Key(row) \in DOMAIN ds
                               /\ row.whole => Holds(ds[Key(row)], row)

\* What a call has staged of a fresh version.
Staged(p) ==
    LET row == job[p].row
    IN  /\ ~row.reused /\ row.stored
        /\ row.digest = draft[p].files
        /\ row.whole <=> draft[p].held = DOMAIN draft[p].files
        /\ DOMAIN job[p].staged \cup job[p].todo = draft[p].held
        /\ \A f \in DOMAIN job[p].staged : job[p].staged[f] \in {row.digest[f], Shared}

DirsOK ==
    /\ \A i \in DOMAIN index : Kept(dirs, index[i])
    /\ \A p \in Procs : Staging(p) => Staged(p)
    /\ \A p \in Procs : pc[p] = "append" =>
          /\ Kept(dirs, job[p].row)
          /\ \A i \in DOMAIN index : index[i].stored => Key(index[i]) \notin Published(p)

\* A directory without a record is the one that a call has just renamed.
Accounted ==
    mishaps = 0 => \A key \in DOMAIN dirs :
        \/ \E i \in DOMAIN index : index[i].stored /\ Key(index[i]) = key
        \/ \E p \in Procs : pc[p] = "append" /\ key \in Published(p)

-----------------------------------------------------------------------------
(* The table of versions                                                   *)

Undamaged == \A i \in DOMAIN index : index[i].ok

\* Positions of a name's versions.
Of(vs, n) == {k \in DOMAIN vs : vs[k].name = n}

\* Numbers and contents are given once, numbers without a gap, and an alias
\* leads to one version.
Table1(vs) ==
    /\ \A k, l \in DOMAIN vs : vs[k].name = vs[l].name /\ k # l =>
          /\ vs[k].version # vs[l].version /\ vs[k].digest # vs[l].digest
          /\ vs[k].aliases \cap vs[l].aliases = {}
    /\ \A k \in DOMAIN vs : \A v \in 0..vs[k].version :
          \E l \in Of(vs, vs[k].name) : vs[l].version = v

\* The record of a reuse names a version, and that of a fresh one is next.
Extends(vs, row) ==
    IF row.reused
    THEN \E k \in Of(vs, row.name) : /\ vs[k].version = row.version /\ vs[k].digest = row.digest
                                     /\ vs[k].aliases \subseteq row.aliases
    ELSE /\ \A k \in Of(vs, row.name) : vs[k].version < row.version /\ vs[k].digest # row.digest
         /\ \A v \in 0..(row.version - 1) : \E k \in Of(vs, row.name) : vs[k].version = v

Found(vs, row) ==
    \E k \in Of(vs, row.name) : /\ vs[k].version = row.version /\ vs[k].digest = row.digest
                                /\ row.aliases \subseteq vs[k].aliases

TableOK == Undamaged =>
    /\ Table1(versions)
    /\ \A p \in Procs : /\ pc[p] \in {"copy", "link", "append"} => Extends(versions, job[p].row)
                        /\ pc[p] = "done" => Found(versions, job[p].row)

IndexRead == versions = Read(index)

\* A version that was read has a line.
Same(r, q) == /\ r.name = q.name /\ r.version = q.version /\ r.digest = q.digest
              /\ r.stored = q.stored /\ r.whole = q.whole

Lined == \A k \in DOMAIN versions : \E i \in DOMAIN index : Same(versions[k], index[i])

DraftOK == \A p \in Procs : draft[p].held \subseteq DOMAIN draft[p].files
-----------------------------------------------------------------------------
(* Reading the index                                                       *)

LEMMA Fields ==
  ASSUME NEW r \in Rows
  PROVE  /\ r.name \in Names /\ r.version \in Nat /\ r.digest \in Digests
         /\ r.aliases \subseteq Aliases
         /\ r.reused \in BOOLEAN /\ r.ok \in BOOLEAN /\ r.stored \in BOOLEAN /\ r.whole \in BOOLEAN
  BY DEF Rows

\* A record with other aliases.
LEMMA Realiased ==
  ASSUME NEW r \in Rows, NEW as \in SUBSET Aliases, NEW q, q = [r EXCEPT !.aliases = as]
  PROVE  /\ q \in Rows /\ Same(q, r) /\ q.aliases = as /\ q.ok = r.ok /\ q.reused = r.reused
  <1>1. /\ q \in Rows /\ q.aliases = as /\ q.ok = r.ok /\ q.reused = r.reused
    BY DEF Rows
  <1>2. Same(q, r)
    BY DEF Rows, Same
  <1> QED
    BY <1>1, <1>2

\* The versions that a line of the index names.
Own(known, row) == {k \in DOMAIN known : known[k].name = row.name /\ known[k].version = row.version}

\* The versions once other ones have lost the aliases of the line.
Rest(known, row) ==
    [k \in DOMAIN known |-> IF known[k].name = row.name /\ k \notin Own(known, row)
                            THEN [known[k] EXCEPT !.aliases = @ \ row.aliases]
                            ELSE known[k]]

LEMMA RestIs ==
  ASSUME NEW known \in Seq(Rows), NEW row \in Rows
  PROVE  /\ Rest(known, row) \in Seq(Rows) /\ Len(Rest(known, row)) = Len(known)
         /\ \A k \in 1..Len(known) :
              /\ Same(Rest(known, row)[k], known[k]) /\ Rest(known, row)[k].ok = known[k].ok
              /\ Rest(known, row)[k].aliases =
                   IF known[k].name = row.name /\ known[k].version # row.version
                   THEN known[k].aliases \ row.aliases ELSE known[k].aliases
  <1>1. PICK r : r = Rest(known, row)
    OBVIOUS
  <1>2. PICK n \in Nat : n = Len(known) /\ DOMAIN known = 1..n
    OBVIOUS
  <1>3. ASSUME NEW k \in 1..n
        PROVE  /\ r[k] \in Rows /\ Same(r[k], known[k]) /\ r[k].ok = known[k].ok
               /\ r[k].aliases = IF known[k].name = row.name /\ known[k].version # row.version
                                 THEN known[k].aliases \ row.aliases ELSE known[k].aliases
    <2>1. known[k] \in Rows
      BY <1>2
    <2>2. PICK q : q = known[k]
      OBVIOUS
    <2>3. r[k] = IF q.name = row.name /\ q.version # row.version
                 THEN [q EXCEPT !.aliases = q.aliases \ row.aliases] ELSE q
      BY <1>1, <1>2, <2>2 DEF Rest, Own
    <2>4. q.aliases \ row.aliases \in SUBSET Aliases
      BY <2>1, <2>2, Fields
    <2>5. CASE q.name = row.name /\ q.version # row.version
      <3>1. r[k] = [q EXCEPT !.aliases = q.aliases \ row.aliases]
        BY <2>3, <2>5
      <3>2. /\ r[k] \in Rows /\ Same(r[k], q) /\ r[k].ok = q.ok
            /\ r[k].aliases = q.aliases \ row.aliases
        <4>1. PICK as \in SUBSET Aliases : as = q.aliases \ row.aliases
          BY <2>4
        <4>2. PICK t : t = [q EXCEPT !.aliases = as]
          OBVIOUS
        <4>3. t \in Rows /\ Same(t, q) /\ t.ok = q.ok /\ t.aliases = as
          <5>1. q \in Rows
            BY <2>1, <2>2
          <5> QED
            BY <4>2, <5>1, Realiased
        <4>4. r[k] = t
          BY <3>1, <4>1, <4>2, Zenon
        <4> QED
          BY <4>1, <4>3, <4>4, Zenon
      <3> QED
        BY <2>2, <2>5, <3>2
    <2>6. CASE ~(q.name = row.name /\ q.version # row.version)
      <3>1. r[k] = q
        BY <2>3, <2>6
      <3>2. Same(q, q)
        BY DEF Same
      <3> QED
        BY <2>1, <2>2, <2>6, <3>1, <3>2
    <2> QED
      BY <2>5, <2>6
  <1>4. r \in Seq(Rows) /\ Len(r) = n
    <2>1. r = [k \in 1..n |-> r[k]]
      BY <1>1, <1>2 DEF Rest
    <2>2. \A k \in 1..n : r[k] \in Rows
      BY <1>3
    <2> HIDE DEF Rest
    <2>3. r \in [1..n -> Rows]
      BY <2>1, <2>2
    <2>4. r \in Seq(Rows)
      BY <2>3
    <2> QED
      BY <2>3, <2>4
  <1> QED
    BY <1>1, <1>2, <1>3, <1>4

\* What Absorb makes of a line.
LEMMA AbsorbSkips ==
  ASSUME NEW known \in Seq(Rows), NEW row \in Rows,
         ~row.ok \/ (row.reused <=> Own(known, row) = {})
  PROVE  Absorb(known, row) = known
  BY Zenon DEF Absorb, Own

LEMMA AbsorbAdds ==
  ASSUME NEW known \in Seq(Rows), NEW row \in Rows,
         row.ok, ~row.reused, Own(known, row) = {}
  PROVE  Absorb(known, row) = Append(Rest(known, row), row)
  BY Zenon DEF Absorb, Own, Rest

LEMMA AbsorbMerges ==
  ASSUME NEW known \in Seq(Rows), NEW row \in Rows,
         row.ok, row.reused, Own(known, row) # {}
  PROVE  Absorb(known, row) =
           [k \in DOMAIN Rest(known, row) |->
               IF k \in Own(known, row)
               THEN [Rest(known, row)[k] EXCEPT !.aliases = @ \cup row.aliases]
               ELSE Rest(known, row)[k]]
  BY Zenon DEF Absorb, Own, Rest

\* A version that was known stays what it is; a new one is the line's.
LEMMA AbsorbIs ==
  ASSUME NEW known \in Seq(Rows), NEW row \in Rows
  PROVE  /\ Absorb(known, row) \in Seq(Rows)
         /\ Len(Absorb(known, row)) \in {Len(known), Len(known) + 1}
         /\ \A k \in 1..Len(known) : /\ Same(Absorb(known, row)[k], known[k])
                                     /\ Absorb(known, row)[k].ok = known[k].ok
         /\ Len(Absorb(known, row)) = Len(known) + 1 =>
               Absorb(known, row)[Len(known) + 1] = row /\ row.ok
  <1>1. PICK a : a = Absorb(known, row)
    OBVIOUS
  <1>2. PICK s \in Seq(Rows) : s = Rest(known, row)
    BY RestIs
  <1>3. PICK n \in Nat : n = Len(known)
    OBVIOUS
  <1>4. Len(s) = n /\ \A k \in 1..n : Same(s[k], known[k]) /\ s[k].ok = known[k].ok
    BY <1>2, <1>3, RestIs, Zenon
  <1>5. CASE ~row.ok \/ (row.reused <=> Own(known, row) = {})
    <2>1. a = known
      BY <1>1, <1>5, AbsorbSkips
    <2>2. \A k \in 1..n : Same(known[k], known[k])
      BY DEF Same
    <2>3. n # n + 1
      OBVIOUS
    <2> QED
      BY <1>1, <1>3, <2>1, <2>2, <2>3, Zenon
  <1>6. CASE row.ok /\ ~row.reused /\ Own(known, row) = {}
    <2>1. a = Append(s, row)
      BY <1>1, <1>2, <1>6, AbsorbAdds, Zenon
    <2>2. a \in Seq(Rows) /\ Len(a) = n + 1 /\ a[n + 1] = row /\ \A k \in 1..n : a[k] = s[k]
      BY <1>4, <2>1
    <2>3. \A k \in 1..n : Same(a[k], known[k]) /\ a[k].ok = known[k].ok
      BY <1>4, <2>2, Zenon
    <2> QED
      BY <1>1, <1>3, <1>6, <2>2, <2>3, Zenon
  <1>7. CASE row.ok /\ row.reused /\ Own(known, row) # {}
    <2>1. a = [k \in 1..n |-> IF k \in Own(known, row)
                              THEN [s[k] EXCEPT !.aliases = @ \cup row.aliases] ELSE s[k]]
      <3>1. DOMAIN s = 1..n
        BY <1>4
      <3> QED
        BY <1>1, <1>2, <1>7, <3>1, AbsorbMerges
    <2>2. ASSUME NEW k \in 1..n
          PROVE  a[k] \in Rows /\ Same(a[k], known[k]) /\ a[k].ok = known[k].ok
      <3>1. PICK q \in Rows : q = s[k]
        BY <1>4
      <3>2. Same(q, known[k]) /\ q.ok = known[k].ok
        BY <1>4, <3>1
      <3>3. PICK as : as = q.aliases \cup row.aliases
        OBVIOUS
      <3>4. as \in SUBSET Aliases
        BY <3>3, Fields
      <3>5. PICK t : t = [q EXCEPT !.aliases = as]
        OBVIOUS
      <3>6. t \in Rows /\ Same(t, q) /\ t.ok = q.ok
        BY <3>4, <3>5, Realiased, Zenon
      <3>7. a[k] \in {t, q}
        BY <2>1, <3>1, <3>3, <3>5
      <3>8. Same(t, known[k]) /\ t.ok = known[k].ok
        BY <3>2, <3>6 DEF Same
      <3> QED
        BY <3>2, <3>6, <3>7, <3>8, Zenon
    <2>3. a \in Seq(Rows) /\ Len(a) = n
      <3>1. a = [k \in 1..n |-> a[k]]
        BY <2>1
      <3>2. a \in [1..n -> Rows]
        BY <2>2, <3>1
      <3>3. a \in Seq(Rows)
        BY <3>2
      <3> QED
        BY <3>2, <3>3
    <2>4. n # n + 1
      OBVIOUS
    <2> QED
      BY <1>1, <1>3, <2>2, <2>3, <2>4, Zenon
  <1> QED
    BY <1>5, <1>6, <1>7, Fields, Zenon

\* What reading yields after each line.
Reads(s) == CHOOSE f : f = [i \in 0..Len(s) |-> IF i = 0 THEN <<>> ELSE Absorb(f[i - 1], s[i])]

LEMMA ReadsExist ==
  ASSUME NEW s \in Seq(Rows)
  PROVE  \E f \in [0..Len(s) -> Seq(Rows)] :
           f = [i \in 0..Len(s) |-> IF i = 0 THEN <<>> ELSE Absorb(f[i - 1], s[i])]
  <1> DEFINE Upto(f, m) == /\ f \in [0..m -> Seq(Rows)] /\ f[0] = <<>>
                           /\ \A i \in 1..m : f[i] = Absorb(f[i - 1], s[i])
             T == {m \in Nat : m <= Len(s) => \E f : Upto(f, m)}
  <1> HIDE DEF Upto
  <1>1. 0 \in T
    <2>0. <<>> \in Seq(Rows)
      OBVIOUS
    <2>1. PICK f : f = [i \in 0..0 |-> <<>>]
      OBVIOUS
    <2>2. f \in [0..0 -> Seq(Rows)] /\ f[0] = <<>>
      BY <2>0, <2>1
    <2>3. Upto(f, 0)
      BY <2>2 DEF Upto
    <2> QED
      BY <2>3
  <1>2. ASSUME NEW m \in Nat, m \in T PROVE m + 1 \in T
    <2>1. SUFFICES ASSUME m + 1 <= Len(s) PROVE \E g : Upto(g, m + 1)
      OBVIOUS
    <2>2. PICK f : Upto(f, m)
      BY <1>2, <2>1
    <2>3. s[m + 1] \in Rows
      BY <2>1
    <2>4. f[m] \in Seq(Rows)
      BY <2>2 DEF Upto
    <2>5. PICK a \in Seq(Rows) : a = Absorb(f[m], s[m + 1])
      BY <2>3, <2>4, AbsorbIs
    <2>6. PICK g : g = [i \in 0..(m + 1) |-> IF i = m + 1 THEN a ELSE f[i]]
      OBVIOUS
    <2>7. /\ g \in [0..(m + 1) -> Seq(Rows)]
          /\ g[m + 1] = a /\ \A i \in 0..m : g[i] = f[i]
      <3>1. PICK S : S = Seq(Rows)
        OBVIOUS
      <3>2. f \in [0..m -> S] /\ a \in S
        BY <2>2, <2>5, <3>1, Zenon DEF Upto
      <3>3. /\ g \in [0..(m + 1) -> S]
            /\ g[m + 1] = a /\ \A i \in 0..m : g[i] = f[i]
        BY <2>6, <3>2
      <3> QED
        BY <3>1, <3>3, Zenon
    <2>8. ASSUME NEW i \in 1..(m + 1) PROVE g[i] = Absorb(g[i - 1], s[i])
      <3>1. CASE i = m + 1
        <4>1. i - 1 = m /\ m \in 0..m
          BY <3>1
        <4> QED
          BY <2>5, <2>7, <3>1, <4>1, Zenon
      <3>2. CASE i # m + 1
        <4>1. i \in 1..m /\ i \in 0..m /\ i - 1 \in 0..m
          BY <3>2
        <4> QED
          BY <2>2, <2>7, <4>1, Zenon DEF Upto
      <3> QED
        BY <3>1, <3>2
    <2>9. g[0] = <<>>
      BY <2>2, <2>7 DEF Upto
    <2>10. Upto(g, m + 1)
      BY <2>7, <2>8, <2>9 DEF Upto
    <2> QED
      BY <2>10
  <1>3. Len(s) \in T
    <2> HIDE DEF T
    <2>1. Nat \subseteq T
      BY <1>1, <1>2, Inductive
    <2> QED
      BY <2>1
  <1>4. PICK f : Upto(f, Len(s))
    BY <1>3
  <1>5. PICK n \in Nat : n = Len(s)
    OBVIOUS
  <1>6. PICK g : g = [i \in 0..n |-> IF i = 0 THEN <<>> ELSE Absorb(f[i - 1], s[i])]
    OBVIOUS
  <1>7. ASSUME NEW i \in 0..n PROVE g[i] = f[i]
    <2>1. CASE i = 0
      BY <1>4, <1>5, <1>6, <2>1 DEF Upto
    <2>2. CASE i # 0
      <3>1. i \in 1..n
        BY <2>2
      <3> QED
        BY <1>4, <1>5, <1>6, <2>2, <3>1, Zenon DEF Upto
    <2> QED
      BY <2>1, <2>2
  <1>8. f = [i \in 0..n |-> f[i]] /\ f \in [0..n -> Seq(Rows)]
    BY <1>4, <1>5 DEF Upto
  <1>9. g = [i \in 0..n |-> g[i]]
    BY <1>6
  <1>10. g = f
    BY <1>7, <1>8, <1>9
  <1> QED
    BY <1>5, <1>6, <1>8, <1>10, Zenon

LEMMA ReadsAre ==
  ASSUME NEW s \in Seq(Rows)
  PROVE  /\ \A i \in 0..Len(s) : Reads(s)[i] \in Seq(Rows)
         /\ Reads(s)[0] = <<>>
         /\ \A i \in 1..Len(s) : Reads(s)[i] = Absorb(Reads(s)[i - 1], s[i])
         /\ Read(s) = Reads(s)[Len(s)]
  <1>1. PICK f : f = Reads(s)
    OBVIOUS
  <1>2. PICK n \in Nat : n = Len(s)
    OBVIOUS
  <1>3. f = [i \in 0..n |-> IF i = 0 THEN <<>> ELSE Absorb(f[i - 1], s[i])]
    BY <1>1, <1>2, ReadsExist, Zenon DEF Reads
  <1>4. f[0] = <<>> /\ \A i \in 1..n : f[i] = Absorb(f[i - 1], s[i])
    <2>1. 0 \in 0..n /\ \A i \in 1..n : i \in 0..n /\ i # 0
      OBVIOUS
    <2> QED
      BY <1>3, <2>1, Zenon
  <1> DEFINE T == {m \in Nat : m <= n => f[m] \in Seq(Rows)}
  <1>5. 0 \in T
    <2>1. <<>> \in Seq(Rows)
      OBVIOUS
    <2> QED
      BY <1>4, <2>1
  <1>6. ASSUME NEW m \in Nat, m \in T PROVE m + 1 \in T
    <2>1. SUFFICES ASSUME m + 1 <= n PROVE f[m + 1] \in Seq(Rows)
      OBVIOUS
    <2>2. PICK k : k = m + 1
      OBVIOUS
    <2>3. k \in 1..n /\ k - 1 = m /\ f[m] \in Seq(Rows) /\ s[k] \in Rows
      BY <1>2, <1>6, <2>1, <2>2
    <2>4. f[k] = Absorb(f[m], s[k])
      BY <1>4, <2>3, Zenon
    <2>5. Absorb(f[m], s[k]) \in Seq(Rows)
      BY <2>3, AbsorbIs
    <2> QED
      BY <2>2, <2>4, <2>5, Zenon
  <1>7. Nat \subseteq T
    <2> HIDE DEF T
    <2> QED
      BY <1>5, <1>6, Inductive
  <1>8. ASSUME NEW i \in 0..n PROVE f[i] \in Seq(Rows)
    <2>1. i \in T
      BY <1>7
    <2> QED
      BY <2>1
  <1>9. Read(s) = f[n]
    BY <1>1, <1>2, Zenon DEF Read, Reads
  <1> QED
    BY <1>1, <1>2, <1>4, <1>8, <1>9, Zenon

LEMMA ReadEmpty == Read(<<>>) = <<>>
  <1>1. PICK s \in Seq(Rows) : s = <<>>
    <2>1. <<>> \in Seq(Rows)
      OBVIOUS
    <2> QED
      BY <2>1
  <1>2. Len(s) = 0
    BY <1>1
  <1> QED
    BY <1>1, <1>2, ReadsAre, Zenon

\* One more line is one more step.
LEMMA ReadAppend ==
  ASSUME NEW s \in Seq(Rows), NEW row \in Rows
  PROVE  /\ Read(s) \in Seq(Rows)
         /\ Read(Append(s, row)) = Absorb(Read(s), row)
  <1>1. PICK n \in Nat : n = Len(s)
    OBVIOUS
  <1>2. PICK t : t = Append(s, row)
    OBVIOUS
  <1>3. t \in Seq(Rows) /\ Len(t) = n + 1 /\ t[n + 1] = row /\ \A i \in 1..n : t[i] = s[i]
    BY <1>1, <1>2
  <1>4. PICK f, g : f = Reads(s) /\ g = Reads(t)
    OBVIOUS
  <1>5. f[0] = <<>> /\ (\A i \in 1..n : f[i] = Absorb(f[i - 1], s[i])) /\ Read(s) = f[n]
    BY <1>1, <1>4, ReadsAre, Zenon
  <1>6. g[0] = <<>> /\ (\A i \in 1..(n + 1) : g[i] = Absorb(g[i - 1], t[i])) /\ Read(t) = g[n + 1]
    BY <1>3, <1>4, ReadsAre, Zenon
  <1> DEFINE T == {m \in Nat : m <= n => f[m] = g[m]}
  <1>7. 0 \in T
    BY <1>5, <1>6
  <1>8. ASSUME NEW m \in Nat, m \in T PROVE m + 1 \in T
    <2>1. SUFFICES ASSUME m + 1 <= n PROVE f[m + 1] = g[m + 1]
      OBVIOUS
    <2>2. PICK k : k = m + 1
      OBVIOUS
    <2>3. k \in 1..n /\ k \in 1..(n + 1) /\ k - 1 = m /\ f[m] = g[m]
      BY <1>8, <2>1, <2>2
    <2> QED
      BY <1>3, <1>5, <1>6, <2>2, <2>3, Zenon
  <1>9. n \in T
    <2> HIDE DEF T
    <2>1. Nat \subseteq T
      BY <1>7, <1>8, Inductive
    <2> QED
      BY <2>1
  <1>10. f[n] = g[n]
    BY <1>9
  <1>11. n + 1 \in 1..(n + 1) /\ (n + 1) - 1 = n
    OBVIOUS
  <1>12. Read(s) \in Seq(Rows)
    <2>1. n \in 0..n
      OBVIOUS
    <2> QED
      BY <1>1, <2>1, ReadsAre, Zenon
  <1> QED
    BY <1>2, <1>3, <1>5, <1>6, <1>10, <1>11, <1>12, Zenon

LEMMA SameChain ==
  ASSUME NEW r, NEW q, NEW t, Same(r, q), Same(q, t)
  PROVE  Same(r, t) /\ Same(q, r)
  BY DEF Same

\* Every version that is read has a line, and every reader skips damaged ones.
LEMMA ReadLined ==
  ASSUME NEW s \in Seq(Rows)
  PROVE  /\ Read(s) \in Seq(Rows)
         /\ \A k \in DOMAIN Read(s) : /\ Read(s)[k].ok
                                      /\ \E i \in DOMAIN s : Same(Read(s)[k], s[i])
  <1>1. PICK n \in Nat : n = Len(s)
    OBVIOUS
  <1>2. PICK f : f = Reads(s)
    OBVIOUS
  <1>3. /\ \A i \in 0..n : f[i] \in Seq(Rows)
        /\ f[0] = <<>> /\ (\A i \in 1..n : f[i] = Absorb(f[i - 1], s[i])) /\ Read(s) = f[n]
    BY <1>1, <1>2, ReadsAre, Zenon
  <1> DEFINE Good(m) == \A k \in 1..Len(f[m]) : f[m][k].ok /\ \E i \in 1..m : Same(f[m][k], s[i])
             T == {m \in Nat : m <= n => Good(m)}
  <1>4. 0 \in T
    <2>1. Len(f[0]) = 0
      BY <1>3
    <2> QED
      BY <2>1
  <1>5. ASSUME NEW m \in Nat, m \in T PROVE m + 1 \in T
    <2>1. SUFFICES ASSUME m + 1 <= n PROVE Good(m + 1)
      OBVIOUS
    <2>2. PICK e : e = m + 1
      OBVIOUS
    <2>3. e \in 1..n /\ e \in 1..e /\ e - 1 = m /\ m \in 0..n /\ e \in 0..n /\ Good(m)
      BY <1>5, <2>1, <2>2
    <2>4. PICK known \in Seq(Rows) : known = f[m]
      BY <1>3, <2>3
    <2>5. PICK row \in Rows : row = s[e]
      BY <1>1, <2>3
    <2>6. PICK a \in Seq(Rows) : a = f[e]
      BY <1>3, <2>3
    <2>7. a = Absorb(known, row)
      BY <1>3, <2>3, <2>4, <2>5, <2>6, Zenon
    <2>8. PICK l \in Nat : l = Len(known)
      OBVIOUS
    <2>9. /\ Len(a) \in {l, l + 1} /\ \A k \in 1..l : Same(a[k], known[k]) /\ a[k].ok = known[k].ok
          /\ Len(a) = l + 1 => a[l + 1] = row /\ row.ok
      <3>1. /\ Len(Absorb(known, row)) \in {Len(known), Len(known) + 1}
            /\ \A k \in 1..Len(known) : /\ Same(Absorb(known, row)[k], known[k])
                                        /\ Absorb(known, row)[k].ok = known[k].ok
            /\ Len(Absorb(known, row)) = Len(known) + 1 =>
                  Absorb(known, row)[Len(known) + 1] = row /\ row.ok
        BY AbsorbIs
      <3> QED
        BY <2>7, <2>8, <3>1, Zenon
    <2>10. ASSUME NEW k \in 1..Len(a)
           PROVE  a[k].ok /\ \E i \in 1..e : Same(a[k], s[i])
      <3>1. CASE k <= l
        <4>1. k \in 1..l
          BY <3>1
        <4>2. known[k].ok /\ \E i \in 1..m : Same(known[k], s[i])
          BY <2>3, <2>4, <2>8, <4>1, Zenon
        <4>3. PICK i \in 1..m : Same(known[k], s[i])
          BY <4>2
        <4>4. Same(a[k], s[i]) /\ a[k].ok
          BY <2>9, <4>1, <4>2, <4>3, SameChain, Zenon
        <4>5. i \in 1..e
          BY <2>2
        <4> QED
          BY <4>4, <4>5
      <3>2. CASE ~(k <= l)
        <4>1. k = l + 1 /\ Len(a) = l + 1
          BY <2>9, <3>2
        <4>2. a[k] = s[e] /\ a[k].ok
          BY <2>5, <2>9, <4>1, Zenon
        <4>3. Same(a[k], s[e])
          BY <4>2 DEF Same
        <4> QED
          BY <2>3, <4>2, <4>3
      <3> QED
        BY <3>1, <3>2
    <2>11. Good(e)
      BY <2>6, <2>10
    <2> QED
      BY <2>2, <2>11
  <1>6. n \in T
    <2> HIDE DEF T
    <2>1. Nat \subseteq T
      BY <1>4, <1>5, Inductive
    <2> QED
      BY <2>1
  <1>7. Good(n)
    BY <1>6
  <1>8. n \in 0..n /\ DOMAIN s = 1..n
    BY <1>1
  <1>9. PICK v \in Seq(Rows) : v = f[n]
    BY <1>3, <1>8
  <1>10. DOMAIN v = 1..Len(v)
    OBVIOUS
  <1> QED
    BY <1>3, <1>7, <1>8, <1>9, <1>10, Zenon

\* The greatest element of a bounded set.
LEMMA MaxIs ==
  ASSUME NEW n \in Nat, NEW T, T \subseteq 0..n, T # {}
  PROVE  Max(T) \in T /\ \A y \in T : y <= Max(T)
  <1>1. PICK x \in T : \A y \in T : y <= x
    BY Greatest
  <1>2. \A y \in T : x >= y
    BY <1>1
  <1>3. Max(T) \in T /\ \A y \in T : Max(T) >= y
    BY <1>2, Zenon DEF Max
  <1> QED
    BY <1>3

LEMMA NumbersBounded ==
  ASSUME NEW vs \in Seq(Rows)
  PROVE  \E b \in Nat : \A k \in DOMAIN vs : vs[k].version \in 0..b
  <1> DEFINE T == {m \in Nat : m <= Len(vs) =>
                     \E b \in Nat : \A k \in 1..m : vs[k].version \in 0..b}
  <1>1. 0 \in T
    <2>1. \A k \in 1..0 : vs[k].version \in 0..0
      OBVIOUS
    <2> QED
      BY <2>1
  <1>2. ASSUME NEW m \in Nat, m \in T PROVE m + 1 \in T
    <2>1. SUFFICES ASSUME m + 1 <= Len(vs)
                   PROVE  \E b \in Nat : \A k \in 1..(m + 1) : vs[k].version \in 0..b
      OBVIOUS
    <2>2. PICK b \in Nat : \A k \in 1..m : vs[k].version \in 0..b
      BY <1>2, <2>1
    <2>3. vs[m + 1] \in Rows
      BY <2>1
    <2>4. PICK v \in Nat : v = vs[m + 1].version
      BY <2>3, Fields
    <2>5. \A k \in 1..(m + 1) : vs[k].version \in 0..(b + v)
      <3>1. ASSUME NEW k \in 1..(m + 1) PROVE vs[k].version \in 0..(b + v)
        <4>1. CASE k = m + 1
          BY <2>4, <4>1
        <4>2. CASE k # m + 1
          <5>1. k \in 1..m
            BY <4>2
          <5>2. PICK w : w = vs[k].version
            OBVIOUS
          <5>3. w \in 0..b
            BY <2>2, <5>1, <5>2
          <5>4. w \in 0..(b + v)
            BY <5>3
          <5> QED
            BY <5>2, <5>4
        <4> QED
          BY <4>1, <4>2
      <3> QED
        BY <3>1
    <2>6. b + v \in Nat
      OBVIOUS
    <2> QED
      BY <2>5, <2>6, Zenon
  <1>3. Len(vs) \in T
    <2> HIDE DEF T
    <2>1. Nat \subseteq T
      BY <1>1, <1>2, Inductive
    <2> QED
      BY <2>1
  <1>4. DOMAIN vs = 1..Len(vs) /\ Len(vs) <= Len(vs)
    OBVIOUS
  <1> QED
    BY <1>3, <1>4, Zenon

-----------------------------------------------------------------------------
(* What a call will append                                                 *)

LEMMA DigestIs ==
  ASSUME NEW d
  PROVE  d \in Digests <=> \E F \in SUBSET Sources : d \in [F -> Contents]
  BY Zenon DEF Digests

LEMMA FilesAre ==
  ASSUME NEW d
  PROVE  d \in Files <=> \E F \in SUBSET Sources : d \in [F -> Contents \cup {Shared}]
  BY Zenon DEF Files

LEMMA NoFilesIs == NoFiles \in Digests /\ NoFiles \in Files /\ DOMAIN NoFiles = {}
  <1>1. PICK e : e = [f \in {} |-> Shared]
    OBVIOUS
  <1>2. e \in [{} -> Contents] /\ DOMAIN e = {}
    BY <1>1
  <1>3. e \in Digests
    BY <1>2, DigestIs
  <1>4. NoFiles \in Digests /\ DOMAIN NoFiles = {}
    BY <1>2, <1>3, Zenon DEF NoFiles
  <1>5. PICK F \in SUBSET Sources : NoFiles \in [F -> Contents]
    BY <1>4, DigestIs
  <1>6. NoFiles \in [F -> Contents \cup {Shared}]
    BY <1>5
  <1>7. NoFiles \in Files
    BY <1>6, FilesAre
  <1> QED
    BY <1>4, <1>7

LEMMA NothingTyped == NoDraft \in Drafts /\ NoJob \in Jobs
  BY NoFilesIs DEF NoDraft, NoJob, Drafts, Jobs

\* A record of object d: a reuse of a version with its content, or the next
\* number.
Reuses(r, d, as) == \E k \in Versions(d.name) :
    /\ Same(r, versions[k]) /\ r.ok = versions[k].ok
    /\ r.aliases = versions[k].aliases \cup as

IsFresh(r, d, mode, as) ==
    /\ \A k \in Versions(d.name) : versions[k].digest # d.files
    /\ \A k \in Versions(d.name) : versions[k].version < r.version
    /\ r.version = 0 \/ \E k \in Versions(d.name) : versions[k].version + 1 = r.version
    /\ r.ok /\ r.aliases = as /\ r.stored = (mode # "reference")
    /\ r.whole = (d.held = DOMAIN d.files)

Recorded(r, d, mode, as) ==
    /\ r \in Rows /\ r.name = d.name /\ r.digest = d.files
    /\ r.reused => Reuses(r, d, as)
    /\ ~r.reused => IsFresh(r, d, mode, as)

LEMMA RecordIs ==
  ASSUME versions \in Seq(Rows), NEW d \in Drafts, d.name # NoOne, NEW mode, NEW as \in SUBSET Aliases
  PROVE  Recorded(Record(d, mode, as), d, mode, as)
  <1> PICK r : r = Record(d, mode, as)
    OBVIOUS
  <1> SUFFICES Recorded(r, d, mode, as)
    OBVIOUS
  <1> DEFINE known == Versions(d.name)
             same  == {k \in known : versions[k].digest = d.files}
             numbers == {versions[k].version : k \in known}
             next == IF known = {} THEN 0 ELSE 1 + Max(numbers)
             old == versions[Max(same)]
             fresh == [name |-> d.name, version |-> next, digest |-> d.files,
                       aliases |-> as, reused |-> FALSE, ok |-> TRUE,
                       stored |-> mode # "reference",
                       whole |-> d.held = DOMAIN d.files]
  <1>1. r = IF same # {} THEN [old EXCEPT !.aliases = @ \cup as, !.reused = TRUE] ELSE fresh
    BY Zenon DEF Record
  <1>2. PICK n \in Nat : n = Len(versions)
    OBVIOUS
  <1>3. /\ \A k \in known : k \in 1..n /\ k \in DOMAIN versions /\ versions[k] \in Rows /\ versions[k].name = d.name
    <2>1. DOMAIN versions = 1..n
      BY <1>2
    <2> QED
      BY <1>2, <2>1 DEF Versions
  <1>4. d.name \in Names /\ d.files \in Digests
    BY DEF Drafts
  <1>5. CASE same # {}
    <2>1. same \subseteq 0..n
      BY <1>3
    <2>2. Max(same) \in same
      <3> HIDE DEF same
      <3> QED
        BY <1>5, <2>1, MaxIs
    <2>3. PICK k \in same : k = Max(same)
      BY <2>2
    <2>4. PICK q : q = versions[k]
      OBVIOUS
    <2>5. q \in Rows /\ q.name = d.name /\ q.digest = d.files /\ k \in Versions(d.name)
      BY <1>3, <2>3, <2>4
    <2>6. r = [q EXCEPT !.aliases = @ \cup as, !.reused = TRUE]
      <3> HIDE DEF same
      <3> QED
        BY <1>1, <1>5, <2>3, <2>4
    <2>7. /\ r.name = q.name /\ r.version = q.version /\ r.digest = q.digest
          /\ r.stored = q.stored /\ r.whole = q.whole /\ r.ok = q.ok /\ r.reused
          /\ r.aliases = q.aliases \cup as
      BY <2>5, <2>6 DEF Rows
    <2>8. q.aliases \cup as \in SUBSET Aliases
      BY <2>5, Fields
    <2>9. r \in Rows
      BY <2>5, <2>6, <2>8 DEF Rows
    <2>10. Same(r, q)
      BY <2>7 DEF Same
    <2> QED
      BY <2>4, <2>5, <2>7, <2>9, <2>10, Zenon DEF Recorded, Reuses
  <1>6. CASE same = {}
    <2>1. r = fresh
      <3> HIDE DEF same, fresh
      <3> QED
        BY <1>1, <1>6
    <2>2. next \in Nat /\ (\A k \in known : versions[k].version < next)
          /\ (next = 0 \/ \E k \in known : versions[k].version + 1 = next)
      <3>1. CASE known = {}
        BY <3>1
      <3>2. CASE known # {}
        <4>1. PICK b \in Nat : \A k \in DOMAIN versions : versions[k].version \in 0..b
          BY NumbersBounded
        <4>2. numbers \subseteq 0..b /\ numbers # {}
          BY <1>3, <3>2, <4>1
        <4>3. PICK x : x = Max(numbers)
          OBVIOUS
        <4>4. x \in numbers /\ \A y \in numbers : y <= x
          <5> HIDE DEF numbers
          <5> QED
            BY <4>2, <4>3, MaxIs, Zenon
        <4>5. x \in Nat
          BY <4>2, <4>4
        <4>6. next = 1 + x
          BY <3>2, <4>3
        <4>7. \A k \in known : versions[k].version \in numbers /\ versions[k].version \in Nat
          BY <1>3, Fields
        <4>8. PICK k \in known : versions[k].version = x
          BY <4>4
        <4>9. PICK nx : nx = next
          OBVIOUS
        <4>10. nx \in Nat /\ x + 1 = nx
          BY <4>5, <4>6, <4>9
        <4>11. ASSUME NEW j \in known PROVE versions[j].version < nx
          <5>1. PICK v \in Nat : v = versions[j].version
            BY <4>7
          <5>2. v <= x
            BY <4>4, <4>7, <5>1
          <5>3. v < nx
            BY <4>5, <4>10, <5>2
          <5> QED
            BY <5>1, <5>3
        <4> QED
          BY <4>8, <4>9, <4>10, <4>11, Zenon
      <3> QED
        BY <3>1, <3>2
    <2> HIDE DEF next
    <2>3. /\ r.name = d.name /\ r.version = next /\ r.digest = d.files /\ r.aliases = as
          /\ ~r.reused /\ r.ok /\ r.stored = (mode # "reference")
          /\ r.whole = (d.held = DOMAIN d.files)
      BY <2>1
    <2>4. r \in Rows
      <3>1. PICK st, wh \in BOOLEAN : st = (mode # "reference") /\ wh = (d.held = DOMAIN d.files)
        OBVIOUS
      <3>2. r = [name |-> d.name, version |-> next, digest |-> d.files, aliases |-> as,
                 reused |-> FALSE, ok |-> TRUE, stored |-> st, whole |-> wh]
        BY <2>1, <3>1, Zenon
      <3>3. PICK x \in Nat : x = next
        BY <2>2
      <3>4. [name |-> d.name, version |-> x, digest |-> d.files, aliases |-> as,
             reused |-> FALSE, ok |-> TRUE, stored |-> st, whole |-> wh] \in Rows
        BY <1>4, <3>1 DEF Rows
      <3> QED
        BY <3>2, <3>3, <3>4, Zenon
    <2>5. \A k \in known : versions[k].digest # d.files
      BY <1>6
    <2> QED
      BY <2>2, <2>3, <2>4, <2>5, Zenon DEF Recorded, IsFresh
  <1> QED
    BY <1>5, <1>6

-----------------------------------------------------------------------------
(* Types and the lock                                                      *)

Base == TypeOK /\ LockHeld /\ IndexRead /\ DraftOK

LEMMA BaseVersions ==
  ASSUME IndexRead, index \in Seq(Rows)
  PROVE  /\ versions \in Seq(Rows) /\ Lined /\ \A k \in DOMAIN versions : versions[k].ok
  BY ReadLined DEF IndexRead, Lined

LEMMA InitBase == Init => Base
  <1> SUFFICES ASSUME Init PROVE Base
    OBVIOUS
  <1>1. <<>> \in Seq(Rows) /\ versions = Read(index)
    BY ReadEmpty DEF Init
  <1>2. TypeOK
    <2>1. DOMAIN dirs = {}
      BY DEF Init
    <2> QED
      BY <1>1, <2>1, NothingTyped DEF Init, TypeOK
  <1>3. LockHeld
    BY DEF Init, LockHeld
  <1>4. DraftOK
    BY NoFilesIs DEF Init, DraftOK, NoDraft
  <1> QED
    BY <1>1, <1>2, <1>3, <1>4 DEF Base, IndexRead

\* A call that ends lets go of the lock.
LEMMA FailBase ==
  ASSUME Base, NEW p \in Procs, pc[p] # "idle", Fail(p)
  PROVE  /\ pc' \in [Procs -> {"idle", "copy", "link", "append", "done"}]
         /\ job' \in [Procs -> Jobs] /\ holder' \in Procs \cup {NoOne} /\ draft' \in [Procs -> Drafts]
         /\ LockHeld' /\ DraftOK' /\ \A q \in Procs : pc'[q] = "idle"
  <1>1. TypeOK /\ LockHeld /\ DraftOK
    BY DEF Base
  <1>2. \A q \in Procs : pc'[q] = "idle"
    BY <1>1 DEF Fail, LockHeld, TypeOK
  <1>3. LockHeld' /\ DraftOK'
    BY <1>1, <1>2 DEF Fail, LockHeld, DraftOK
  <1>4. job' \in [Procs -> Jobs]
    BY <1>1, NothingTyped DEF Fail, TypeOK
  <1> QED
    BY <1>1, <1>2, <1>3, <1>4 DEF Fail, TypeOK

\* A file more in a table of files.
LEMMA OneMore ==
  ASSUME NEW C, NEW F \in SUBSET Sources, NEW d \in [F -> C], NEW f \in Sources, NEW c \in C,
         NEW e, e = [q \in DOMAIN d \cup {f} |-> IF q = f THEN c ELSE d[q]]
  PROVE  F \cup {f} \in SUBSET Sources /\ e \in [F \cup {f} -> C]
  OBVIOUS

LEMMA UseBase ==
  ASSUME Base, NEW p \in Procs, NEW n \in Names, NEW s, Use(p, n, s)
  PROVE  \E d \in Drafts : /\ draft' = [draft EXCEPT ![p] = d] /\ d.held = {} /\ d.name \in Names
  <1>1. versions \in Seq(Rows)
    BY DEF Base, TypeOK
  <1>2. PICK r : r = Selected(n, s)
    OBVIOUS
  <1> DEFINE found == {k \in Versions(n) : \/ s \in {Latest, versions[k].version}
                                          \/ s \in versions[k].aliases}
  <1>3. r = IF found = {} THEN NoOne ELSE versions[Max(found)]
    BY <1>2, Zenon DEF Selected
  <1>4. found # {}
    <2> HIDE DEF found
    <2> QED
      BY <1>2, <1>3 DEF Use
  <1>5. found \subseteq 0..Len(versions) /\ found \subseteq DOMAIN versions
    BY <1>1 DEF Versions
  <1>6. r \in Rows
    <2> HIDE DEF found
    <2>1. Max(found) \in found
      BY <1>1, <1>4, <1>5, MaxIs
    <2>2. Max(found) \in DOMAIN versions
      BY <1>5, <2>1
    <2> QED
      BY <1>1, <1>3, <1>4, <2>2
  <1>7. PICK d : d = FromRow(r)
    OBVIOUS
  <1>8. d \in Drafts /\ d.held = {} /\ d.name \in Names
    BY <1>6, <1>7, Fields DEF FromRow, Drafts
  <1> QED
    BY <1>2, <1>7, <1>8, Zenon DEF Use

LEMMA NextBase ==
  ASSUME Base, [Next]_vars
  PROVE  Base'
  <1>0. TypeOK /\ LockHeld /\ IndexRead /\ DraftOK
    BY DEF Base
  <1>1. CASE UNCHANGED vars
    BY <1>0, <1>1 DEF vars, Base, TypeOK, LockHeld, IndexRead, DraftOK
  \* Steps that leave the calls of log() alone.
  <1>2. ASSUME NEW p \in Procs, pc[p] = "idle", NEW d \in Drafts, d.held \subseteq DOMAIN d.files,
               draft' = [draft EXCEPT ![p] = d],
               UNCHANGED <<src, index, versions, dirs, holder, pc, job, logs, errors, mishaps>>
        PROVE  Base'
    <2>1. TypeOK'
      BY <1>0, <1>2 DEF TypeOK
    <2>2. LockHeld' /\ IndexRead'
      BY <1>0, <1>2 DEF LockHeld, IndexRead
    <2>3. DraftOK'
      BY <1>0, <1>2 DEF DraftOK, TypeOK
    <2> QED
      BY <2>1, <2>2, <2>3 DEF Base
  <1>3. ASSUME NEW p \in Procs, NEW n \in Names, New(p, n) PROVE Base'
    <2>1. PICK d : d = [NoDraft EXCEPT !.name = n]
      OBVIOUS
    <2>2. d \in Drafts /\ d.held \subseteq DOMAIN d.files
      BY <2>1, NoFilesIs DEF NoDraft, Drafts
    <2>3. draft' = [draft EXCEPT ![p] = d]
      BY <1>0, <1>3, <2>1 DEF New, TypeOK
    <2> QED
      BY <1>2, <1>3, <2>2, <2>3 DEF New
  <1>4. ASSUME NEW p \in Procs, NEW n \in Names, NEW s \in Selectors, Use(p, n, s) PROVE Base'
    <2>1. PICK d \in Drafts : draft' = [draft EXCEPT ![p] = d] /\ d.held = {}
      BY <1>4, UseBase
    <2> QED
      BY <1>2, <1>4, <2>1 DEF Use
  <1>5. ASSUME NEW p \in Procs, NEW f \in Sources, AddFile(p, f) PROVE Base'
    <2>1. PICK d0 \in Drafts : d0 = draft[p]
      BY <1>0 DEF TypeOK
    <2>2. PICK F \in SUBSET Sources : d0.files \in [F -> Contents]
      BY <2>1, DigestIs DEF Drafts
    <2>3. PICK e : e = [q \in DOMAIN d0.files \cup {f} |-> IF q = f THEN src[f] ELSE d0.files[q]]
      OBVIOUS
    <2>4. F \cup {f} \in SUBSET Sources /\ e \in [F \cup {f} -> Contents]
      <3>1. src[f] \in Contents
        BY <1>0 DEF TypeOK
      <3> QED
        BY <2>2, <2>3, <3>1, OneMore
    <2>5. e \in Digests /\ DOMAIN e = F \cup {f} /\ DOMAIN d0.files = F
      BY <2>2, <2>4, DigestIs
    <2>6. PICK d : d = [d0 EXCEPT !.files = e, !.held = @ \cup {f}]
      OBVIOUS
    <2>7. d \in Drafts /\ d.files = e /\ d.held = d0.held \cup {f}
      BY <2>1, <2>5, <2>6 DEF Drafts
    <2>8. d0.held \subseteq F
      BY <1>0, <2>1, <2>5 DEF DraftOK
    <2>9. draft' = [draft EXCEPT ![p] = d]
      BY <1>0, <1>5, <2>1, <2>3, <2>6 DEF AddFile, TypeOK
    <2> QED
      BY <1>2, <1>5, <2>5, <2>7, <2>8, <2>9 DEF AddFile
  <1>6. ASSUME NEW f \in Sources, NEW c \in Contents, Rewrite(f, c) PROVE Base'
    BY <1>0, <1>6 DEF Rewrite, Base, TypeOK, LockHeld, IndexRead, DraftOK
  \* The steps of log().
  <1>7. ASSUME NEW p \in Procs, NEW mode \in Modes, NEW as \in SUBSET Aliases, Enter(p, mode, as) PROVE Base'
    <2>1. PICK r : r = Record(draft[p], mode, as)
      OBVIOUS
    <2>2. PICK d \in Drafts : d = draft[p]
      BY <1>0 DEF TypeOK
    <2>3. r \in Rows /\ r.ok
      <3>1. versions \in Seq(Rows) /\ \A k \in DOMAIN versions : versions[k].ok
        BY <1>0, BaseVersions DEF TypeOK
      <3>2. d.name # NoOne
        BY <1>7, <2>2 DEF Enter
      <3>3. /\ r \in Rows
            /\ r.reused => \E k \in Versions(d.name) : r.ok = versions[k].ok
            /\ ~r.reused => r.ok
        <4>1. r = Record(d, mode, as)
          BY <2>1, <2>2
        <4>2. versions \in Seq(Rows)
          BY <3>1
        <4>3. Recorded(r, d, mode, as)
          BY <3>2, <4>1, <4>2, RecordIs, Zenon
        <4> QED
          BY <4>3, Zenon DEF Recorded, Reuses, IsFresh
      <3>4. Versions(d.name) \subseteq DOMAIN versions
        BY DEF Versions
      <3> QED
        BY <3>1, <3>3, <3>4
    <2>4. PICK t \in SUBSET Sources : t = IF ~r.reused /\ mode # "reference" THEN d.held ELSE {}
      BY <2>2 DEF Drafts
    <2>5. job' = [job EXCEPT ![p] = [row |-> r, staged |-> NoFiles, todo |-> t]]
      BY <1>7, <2>1, <2>2, <2>4 DEF Enter
    <2>6. [row |-> r, staged |-> NoFiles, todo |-> t] \in Jobs
      BY <2>3, NoFilesIs DEF Jobs
    <2>7. PICK m \in {"copy", "link", "append"} : pc' = [pc EXCEPT ![p] = m]
      BY <1>7, ArtifactsAssumption DEF Enter
    <2>8. TypeOK'
      <3>1. UNCHANGED <<src, index, versions, dirs, draft, errors, mishaps>> /\ holder' = p /\ logs' = logs + 1
        BY <1>7 DEF Enter
      <3>2. PICK j \in Jobs : j = [row |-> r, staged |-> NoFiles, todo |-> t]
        BY <2>6
      <3>3. job' \in [Procs -> Jobs]
        BY <1>0, <2>5, <3>2 DEF TypeOK
      <3>4. pc' \in [Procs -> {"idle", "copy", "link", "append", "done"}]
        BY <1>0, <2>7 DEF TypeOK
      <3> QED
        BY <1>0, <3>1, <3>3, <3>4 DEF TypeOK
    <2>9. LockHeld'
      <3>1. \A q \in Procs : pc[q] = "idle"
        BY <1>0, <1>7, ArtifactsAssumption DEF Enter, LockHeld
      <3>2. ASSUME NEW q \in Procs, pc'[q] # "idle" PROVE holder' = q /\ job'[q].row \in Rows /\ job'[q].row.ok
        <4>1. q = p
          BY <1>0, <2>7, <3>1, <3>2 DEF TypeOK
        <4>2. job'[p].row = r
          BY <1>0, <2>5 DEF TypeOK
        <4> QED
          BY <1>7, <2>3, <4>1, <4>2 DEF Enter
      <3> QED
        BY <3>2 DEF LockHeld
    <2>10. IndexRead' /\ DraftOK'
      BY <1>0, <1>7 DEF Enter, IndexRead, DraftOK
    <2> QED
      BY <2>8, <2>9, <2>10 DEF Base
  <1>8. ASSUME NEW p \in Procs, NEW f \in Sources, NEW linked \in BOOLEAN, StageFile(p, f, linked) PROVE Base'
    <2>1. PICK j \in Jobs : j = job[p]
      BY <1>0 DEF TypeOK
    <2>2. PICK F \in SUBSET Sources : j.staged \in [F -> Contents \cup {Shared}]
      BY <2>1, FilesAre DEF Jobs
    <2>3. PICK c \in Contents \cup {Shared} : c = IF linked THEN Shared ELSE src[f]
      BY <1>0 DEF TypeOK
    <2>4. PICK e : e = [q \in DOMAIN j.staged \cup {f} |-> IF q = f THEN c ELSE j.staged[q]]
      OBVIOUS
    <2>5. e \in Files
      <3>1. F \cup {f} \in SUBSET Sources /\ e \in [F \cup {f} -> Contents \cup {Shared}]
        BY <2>2, <2>3, <2>4, OneMore
      <3> QED
        BY <3>1, FilesAre
    <2>6. PICK i : i = [j EXCEPT !.todo = @ \ {f}, !.staged = e]
      OBVIOUS
    <2>7. i \in Jobs /\ i.row = j.row
      BY <2>1, <2>5, <2>6 DEF Jobs
    <2>8. job' = [job EXCEPT ![p] = i]
      <3>1. [q \in DOMAIN j.staged \cup {f} |-> IF q # f THEN j.staged[q]
                                                ELSE IF linked THEN Shared ELSE src[f]] = e
        BY <2>3, <2>4
      <3> QED
        BY <1>0, <1>8, <2>1, <2>6, <3>1 DEF StageFile, TypeOK
    <2>9. TypeOK'
      BY <1>0, <1>8, <2>7, <2>8 DEF StageFile, TypeOK
    <2>10. LockHeld'
      BY <1>0, <1>8, <2>1, <2>7, <2>8 DEF StageFile, LockHeld, TypeOK
    <2>11. IndexRead' /\ DraftOK'
      BY <1>0, <1>8 DEF StageFile, IndexRead, DraftOK
    <2> QED
      BY <2>9, <2>10, <2>11 DEF Base
  <1>9. ASSUME NEW p \in Procs, Rename(p) PROVE Base'
    <2>1. Key(job[p].row) \in Names \X Nat /\ Destination(p) = Key(job[p].row)
      BY <1>0, <1>9, Fields DEF Rename, Staging, LockHeld, Key, Destination
    <2>2. PICK j \in Jobs : j = job[p]
      BY <1>0 DEF TypeOK
    <2>3. PICK i \in Jobs : i = [j EXCEPT !.staged = NoFiles]
      BY <2>2, NoFilesIs DEF Jobs
    <2>4. i.row = j.row /\ job' = [job EXCEPT ![p] = i]
      BY <1>0, <1>9, <2>2, <2>3 DEF Rename, Jobs, TypeOK
    <2>5. /\ DOMAIN dirs' = DOMAIN dirs \cup {Destination(p)}
          /\ \A k \in DOMAIN dirs' : dirs'[k] = IF k = Destination(p) THEN j.staged ELSE dirs[k]
      BY <1>9, <2>2 DEF Rename
    <2>6. j.staged \in Files
      BY <2>2 DEF Jobs
    <2>7. DOMAIN dirs' \subseteq Names \X Nat /\ \A key \in DOMAIN dirs' : dirs'[key] \in Files
      BY <1>0, <2>1, <2>5, <2>6 DEF TypeOK
    <2>8. TypeOK'
      BY <1>0, <1>9, <2>4, <2>7 DEF Rename, TypeOK
    <2>9. LockHeld'
      BY <1>0, <1>9, <2>2, <2>4 DEF Rename, Staging, LockHeld, TypeOK
    <2>10. IndexRead' /\ DraftOK'
      BY <1>0, <1>9 DEF Rename, IndexRead, DraftOK
    <2> QED
      BY <2>8, <2>9, <2>10 DEF Base
  <1>10. ASSUME NEW p \in Procs, AppendIndex(p) PROVE Base'
    <2>1. PICK r \in Rows : r = job[p].row
      BY <1>0, <1>10 DEF AppendIndex, LockHeld
    <2>2. PICK s \in Seq(Rows) : s = Append(index, r)
      <3>1. index \in Seq(Rows)
        BY <1>0 DEF TypeOK
      <3>2. Append(index, r) \in Seq(Rows)
        BY <3>1
      <3> QED
        BY <3>2
    <2>3. index' = s /\ versions' = Read(s)
      BY <1>10, <2>1, <2>2 DEF AppendIndex, Replace
    <2>4. TypeOK'
      BY <1>0, <1>10, <2>3, ReadLined DEF AppendIndex, TypeOK
    <2>5. LockHeld'
      BY <1>0, <1>10 DEF AppendIndex, LockHeld, TypeOK
    <2>6. DraftOK' /\ IndexRead'
      BY <1>0, <1>10, <2>3 DEF AppendIndex, DraftOK, IndexRead
    <2> QED
      BY <2>4, <2>5, <2>6 DEF Base
  <1>11. ASSUME NEW p \in Procs, Return(p) PROVE Base'
    <2>1. PICK r \in Rows : r = job[p].row
      BY <1>0, <1>11 DEF Return, LockHeld
    <2>2. FromRow(r) \in Drafts /\ FromRow(r).held = {}
      BY Fields DEF FromRow, Drafts
    <2>3. PICK d \in Drafts : d = IF r.reused THEN draft[p] ELSE FromRow(r)
      BY <1>0, <2>2 DEF TypeOK
    <2>4. draft' = [draft EXCEPT ![p] = d] /\ d.held \subseteq DOMAIN d.files
      BY <1>0, <1>11, <2>1, <2>2, <2>3 DEF Return, DraftOK
    <2>5. TypeOK'
      BY <1>0, <1>11, <2>4, NothingTyped DEF Return, TypeOK
    <2>6. LockHeld'
      BY <1>0, <1>11, ArtifactsAssumption DEF Return, LockHeld, TypeOK
    <2>7. DraftOK'
      BY <1>0, <1>11, <2>4 DEF DraftOK, TypeOK
    <2>8. IndexRead'
      BY <1>0, <1>11 DEF Return, IndexRead
    <2> QED
      BY <2>5, <2>6, <2>7, <2>8 DEF Base
  \* The ways in which it ends early.
  <1>12. ASSUME NEW p \in Procs, pc[p] # "idle", Fail(p),
                DOMAIN dirs' \subseteq DOMAIN dirs, \A key \in DOMAIN dirs' : dirs'[key] = dirs[key],
                errors' \in Nat, mishaps' \in Nat,
                UNCHANGED <<src, index, versions, logs>>
         PROVE  Base'
    <2>1. TypeOK'
      BY <1>0, <1>12, FailBase DEF TypeOK
    <2>2. LockHeld' /\ DraftOK'
      BY <1>12, FailBase
    <2>3. IndexRead'
      BY <1>0, <1>12 DEF IndexRead
    <2> QED
      BY <2>1, <2>2, <2>3 DEF Base
  <1>13. ASSUME NEW p \in Procs, NEW f \in Sources, StageChanged(p, f) PROVE Base'
    BY <1>0, <1>12, <1>13 DEF StageChanged, Staging, TypeOK
  <1>14. ASSUME NEW p \in Procs, Occupied(p) PROVE Base'
    BY <1>0, <1>12, <1>14 DEF Occupied, Staging, TypeOK
  <1>15. ASSUME NEW p \in Procs, AppendFails(p) PROVE Base'
    BY <1>0, <1>12, <1>15 DEF AppendFails, TypeOK
  <1>16. ASSUME NEW p \in Procs, RemovalFails(p) PROVE Base'
    BY <1>0, <1>12, <1>16 DEF RemovalFails, TypeOK
  <1>17. ASSUME NEW p \in Procs, StageFails(p) PROVE Base'
    BY <1>0, <1>12, <1>17 DEF StageFails, Staging, TypeOK
  <1>18. ASSUME NEW p \in Procs, Crash(p) PROVE Base'
    <2>1. TypeOK'
      BY <1>0, <1>18, NothingTyped DEF Crash, TypeOK
    <2>2. LockHeld'
      BY <1>0, <1>18 DEF Crash, LockHeld, TypeOK
    <2>3. DraftOK'
      BY <1>0, <1>18, NoFilesIs DEF Crash, DraftOK, TypeOK, NoDraft
    <2>4. IndexRead'
      BY <1>0, <1>18 DEF Crash, IndexRead
    <2> QED
      BY <2>1, <2>2, <2>3, <2>4 DEF Base
  <1>19. ASSUME NEW i \in DOMAIN index, Damage(i) PROVE Base'
    <2>1. PICK s : s = [index EXCEPT ![i].ok = FALSE]
      OBVIOUS
    <2>2. s \in Seq(Rows)
      <3>1. index[i] \in Rows
        BY <1>0, <1>19 DEF TypeOK
      <3>2. PICK r \in Rows : r = [index[i] EXCEPT !.ok = FALSE]
        BY <3>1 DEF Rows
      <3>3. s = [index EXCEPT ![i] = r]
        BY <2>1, <3>2
      <3> QED
        BY <1>0, <3>3 DEF TypeOK
    <2>3. index' = s /\ versions' = Read(s)
      BY <1>19, <2>1 DEF Damage, Replace
    <2>4. TypeOK'
      BY <1>0, <1>19, <2>2, <2>3, ReadLined DEF Damage, TypeOK
    <2>5. LockHeld' /\ DraftOK' /\ IndexRead'
      BY <1>0, <1>19, <2>3 DEF Damage, LockHeld, DraftOK, IndexRead
    <2> QED
      BY <2>4, <2>5 DEF Base
  <1> QED
    BY <1>1, <1>3, <1>4, <1>5, <1>6, <1>7, <1>8, <1>9, <1>10, <1>11, <1>13, <1>14, <1>15,
       <1>16, <1>17, <1>18, <1>19 DEF Next

-----------------------------------------------------------------------------
(* Directories                                                             *)

LEMMA KeptSame ==
  ASSUME NEW ds, NEW r, NEW q, Same(r, q), Kept(ds, q)
  PROVE  Kept(ds, r) /\ Key(r) = Key(q)
  BY DEF Same, Kept, Key, Holds

LEMMA KeptLater ==
  ASSUME NEW ds, NEW es, NEW r, Kept(ds, r),
         r.stored => Key(r) \in DOMAIN es /\ es[Key(r)] = ds[Key(r)]
  PROVE  Kept(es, r)
  BY DEF Kept

LEMMA KeptVersions ==
  ASSUME Base, DirsOK
  PROVE  \A k \in DOMAIN versions : Kept(dirs, versions[k])
  <1>1. Lined
    BY BaseVersions DEF Base, TypeOK
  <1>2. ASSUME NEW k \in DOMAIN versions PROVE Kept(dirs, versions[k])
    <2>1. PICK i \in DOMAIN index : Same(versions[k], index[i])
      BY <1>1 DEF Lined
    <2>2. Kept(dirs, index[i])
      BY <2>1 DEF DirsOK
    <2> QED
      BY <2>1, <2>2, KeptSame
  <1> QED
    BY <1>2

LEMMA InitDirsOK == Init => DirsOK /\ Accounted
  BY DEF Init, DirsOK, Accounted, Staging

\* Only the holder of the lock is in log().
LEMMA Alone ==
  ASSUME Base, NEW p \in Procs, pc[p] # "idle", NEW q \in Procs, q # p
  PROVE  pc[q] = "idle"
  BY DEF Base, LockHeld

LEMMA EnterDirs ==
  ASSUME Base, DirsOK, Accounted, NEW p \in Procs, NEW mode \in Modes, NEW as \in SUBSET Aliases,
         Enter(p, mode, as)
  PROVE  DirsOK' /\ Accounted'
  <1>1. TypeOK /\ LockHeld /\ versions \in Seq(Rows) /\ UNCHANGED <<index, dirs, draft, mishaps>>
    BY DEF Base, TypeOK, Enter
  <1>2. \A q \in Procs : pc[q] = "idle"
    BY <1>1, ArtifactsAssumption DEF Enter, LockHeld
  <1>3. PICK d \in Drafts : d = draft[p]
    BY <1>1 DEF TypeOK
  <1>4. PICK r : r = Record(draft[p], mode, as)
    OBVIOUS
  <1>5. Recorded(r, d, mode, as)
    <2>1. d.name # NoOne
      BY <1>3 DEF Enter
    <2> QED
      BY <1>1, <1>3, <1>4, <2>1, RecordIs, Zenon
  <1>6. PICK t : t = IF ~r.reused /\ mode # "reference" THEN d.held ELSE {}
    OBVIOUS
  <1>7. /\ job' = [job EXCEPT ![p] = [row |-> r, staged |-> NoFiles, todo |-> t]]
        /\ pc' = [pc EXCEPT ![p] = IF ~r.reused /\ mode # "reference" THEN mode ELSE "append"]
    BY <1>3, <1>4, <1>6 DEF Enter
  <1>8. /\ job'[p].row = r /\ job'[p].staged = NoFiles /\ job'[p].todo = t
        /\ pc'[p] = IF ~r.reused /\ mode # "reference" THEN mode ELSE "append"
        /\ \A q \in Procs : q # p => pc'[q] = "idle"
    BY <1>1, <1>2, <1>7 DEF TypeOK
  <1>9. CASE ~r.reused /\ mode # "reference"
    <2>1. \A q \in Procs : pc'[q] # "append"
      BY <1>8, <1>9, ArtifactsAssumption
    <2>2. \A i \in DOMAIN index' : Kept(dirs', index'[i])
      BY <1>1 DEF DirsOK
    <2>3. r.stored /\ r.digest = d.files /\ r.whole = (d.held = DOMAIN d.files)
      BY <1>5, <1>9, Zenon DEF Recorded, IsFresh
    <2>4. Staged(p)'
      <3>1. DOMAIN NoFiles = {}
        BY NoFilesIs
      <3>2. draft'[p] = d
        BY <1>1, <1>3
      <3> QED
        BY <1>6, <1>8, <1>9, <2>3, <3>1, <3>2 DEF Staged
    <2>5. \A q \in Procs : Staging(q)' => Staged(q)'
      <3>1. ASSUME NEW q \in Procs, Staging(q)' PROVE q = p
        BY <1>8, <3>1 DEF Staging
      <3> QED
        BY <2>4, <3>1
    <2>6. DirsOK'
      BY <2>1, <2>2, <2>5 DEF DirsOK
    <2>7. Accounted'
      BY <1>1, <1>2 DEF Accounted
    <2> QED
      BY <2>6, <2>7
  <1>10. CASE ~(~r.reused /\ mode # "reference")
    <2>1. \A q \in Procs : ~Staging(q)'
      BY <1>8, <1>10 DEF Staging
    <2>2. r.reused \/ ~r.stored
      BY <1>5, <1>10, Zenon DEF Recorded, IsFresh
    <2>3. Published(p)' = {}
      BY <1>8, <2>2 DEF Published
    <2>4. Kept(dirs, r)
      <3>1. CASE r.reused
        <4>1. PICK k \in Versions(d.name) : Same(r, versions[k])
          BY <1>5, <3>1, Zenon DEF Recorded, Reuses
        <4>2. k \in DOMAIN versions
          BY <4>1 DEF Versions
        <4> QED
          BY <4>1, <4>2, KeptVersions, KeptSame
      <3>2. CASE ~r.reused
        BY <2>2, <3>2 DEF Kept
      <3> QED
        BY <3>1, <3>2
    <2>5. ASSUME NEW q \in Procs, pc'[q] = "append"
          PROVE  /\ Kept(dirs', job'[q].row)
                 /\ \A i \in DOMAIN index' : index'[i].stored => Key(index'[i]) \notin Published(q)'
      <3>1. q = p
        BY <1>8, <2>5
      <3> QED
        BY <1>1, <1>8, <2>3, <2>4, <3>1
    <2>6. \A i \in DOMAIN index' : Kept(dirs', index'[i])
      BY <1>1 DEF DirsOK
    <2>7. DirsOK'
      BY <2>1, <2>5, <2>6 DEF DirsOK
    <2>8. Accounted'
      BY <1>1, <1>2 DEF Accounted
    <2> QED
      BY <2>7, <2>8
  <1> QED
    BY <1>9, <1>10

LEMMA StageDirs ==
  ASSUME Base, DirsOK, Accounted, NEW p \in Procs, NEW f \in Sources, NEW linked \in BOOLEAN,
         StageFile(p, f, linked)
  PROVE  DirsOK' /\ Accounted'
  <1>1. TypeOK /\ UNCHANGED <<src, index, versions, dirs, holder, pc, draft, logs, errors, mishaps>>
    BY DEF Base, StageFile
  <1>2. \A q \in Procs : q # p => pc[q] = "idle"
    BY Alone DEF StageFile, Staging
  <1>3. Staged(p) /\ Staging(p) /\ f \in job[p].todo /\ src[f] = draft[p].files[f]
    BY DEF DirsOK, StageFile
  <1>4. PICK j \in Jobs : j = job[p]
    BY <1>1 DEF TypeOK
  <1>5. PICK c : c = IF linked THEN Shared ELSE src[f]
    OBVIOUS
  <1>6. PICK e : e = [q \in DOMAIN j.staged \cup {f} |-> IF q # f THEN j.staged[q] ELSE c]
    OBVIOUS
  <1>7. job' = [job EXCEPT ![p] = [j EXCEPT !.todo = @ \ {f}, !.staged = e]]
    <2>1. [q \in DOMAIN j.staged \cup {f} |-> IF q # f THEN j.staged[q]
                                              ELSE IF linked THEN Shared ELSE src[f]] = e
      BY <1>5, <1>6
    <2> QED
      BY <1>1, <1>4, <2>1 DEF StageFile, TypeOK
  <1>8. /\ job'[p].row = j.row /\ job'[p].todo = j.todo \ {f} /\ job'[p].staged = e
        /\ \A q \in Procs : q # p => job'[q] = job[q]
    BY <1>1, <1>4, <1>7 DEF TypeOK, Jobs
  <1>9. Staged(p)'
    <2>1. /\ ~j.row.reused /\ j.row.stored /\ j.row.digest = draft[p].files
          /\ j.row.whole <=> draft[p].held = DOMAIN draft[p].files
          /\ DOMAIN j.staged \cup j.todo = draft[p].held
          /\ \A q \in DOMAIN j.staged : j.staged[q] \in {j.row.digest[q], Shared}
      BY <1>3, <1>4 DEF Staged
    <2>2. DOMAIN e \cup (j.todo \ {f}) = draft[p].held
      BY <1>3, <1>4, <1>6, <2>1
    <2>3. \A q \in DOMAIN e : e[q] \in {j.row.digest[q], Shared}
      BY <1>3, <1>5, <1>6, <2>1
    <2>4. draft' = draft
      BY <1>1
    <2> QED
      BY <1>8, <2>1, <2>2, <2>3, <2>4 DEF Staged
  <1>10. \A q \in Procs : pc'[q] # "append"
    BY <1>1, <1>2, <1>3 DEF Staging
  <1>11. DirsOK'
    <2>1. \A i \in DOMAIN index' : Kept(dirs', index'[i])
      BY <1>1 DEF DirsOK
    <2>2. ASSUME NEW q \in Procs, Staging(q)' PROVE Staged(q)'
      <3>1. q = p
        BY <1>1, <1>2, <2>2 DEF Staging
      <3> QED
        BY <1>9, <3>1
    <2> QED
      BY <1>10, <2>1, <2>2 DEF DirsOK
  <1>12. Accounted'
    <2>1. \A q \in Procs : pc[q] # "append"
      BY <1>1, <1>10
    <2> QED
      BY <1>1, <2>1 DEF Accounted
  <1> QED
    BY <1>11, <1>12

LEMMA RenameDirs ==
  ASSUME Base, DirsOK, Accounted, NEW p \in Procs, Rename(p)
  PROVE  DirsOK' /\ Accounted'
  <1>1. TypeOK /\ UNCHANGED <<src, index, versions, holder, draft, logs, errors, mishaps>>
    BY DEF Base, Rename
  <1>2. \A q \in Procs : q # p => pc[q] = "idle"
    BY Alone DEF Rename, Staging
  <1>3. PICK j \in Jobs : j = job[p]
    BY <1>1 DEF TypeOK
  <1>4. PICK key : key = Destination(p)
    OBVIOUS
  <1>5. /\ key \notin DOMAIN dirs /\ key = Key(j.row)
        /\ DOMAIN dirs' = DOMAIN dirs \cup {key} /\ dirs'[key] = j.staged
        /\ \A k \in DOMAIN dirs : dirs'[k] = dirs[k]
    BY <1>3, <1>4 DEF Rename, Destination, Key
  <1>6. /\ job'[p].row = j.row /\ \A q \in Procs : pc'[q] = IF q = p THEN "append" ELSE "idle"
    BY <1>1, <1>2, <1>3 DEF Rename, TypeOK, Jobs
  <1>7. /\ ~j.row.reused /\ j.row.stored /\ j.row.digest = draft[p].files
        /\ j.row.whole <=> draft[p].held = DOMAIN draft[p].files
        /\ DOMAIN j.staged = draft[p].held
        /\ \A q \in DOMAIN j.staged : j.staged[q] \in {j.row.digest[q], Shared}
    BY <1>3 DEF DirsOK, Staged, Rename
  <1>8. Published(p)' = {key} /\ Destination(p)' = key
    BY <1>3, <1>4, <1>5, <1>6, <1>7 DEF Published, Destination, Key
  <1>9. Kept(dirs', j.row)
    BY <1>5, <1>7 DEF Kept, Holds
  <1>10. ASSUME NEW i \in DOMAIN index
         PROVE  Kept(dirs', index[i]) /\ (index[i].stored => Key(index[i]) # key)
    <2>1. Kept(dirs, index[i])
      BY DEF DirsOK
    <2>2. index[i].stored => Key(index[i]) \in DOMAIN dirs
      BY <2>1 DEF Kept
    <2> QED
      BY <1>5, <2>1, <2>2, KeptLater
  <1>11. DirsOK'
    <2>1. index' = index
      BY <1>1
    <2>2. \A q \in Procs : ~Staging(q)'
      BY <1>6 DEF Staging
    <2>3. ASSUME NEW q \in Procs, pc'[q] = "append"
          PROVE  /\ Kept(dirs', job'[q].row)
                 /\ \A i \in DOMAIN index' : index'[i].stored => Key(index'[i]) \notin Published(q)'
      <3>1. q = p
        BY <1>6, <2>3
      <3> QED
        BY <1>6, <1>8, <1>9, <1>10, <2>1, <3>1
    <2> QED
      BY <1>10, <2>1, <2>2, <2>3 DEF DirsOK
  <1>12. Accounted'
    <2>1. \A q \in Procs : pc[q] # "append"
      BY <1>2 DEF Rename, Staging
    <2>2. SUFFICES ASSUME mishaps = 0, NEW k \in DOMAIN dirs'
                   PROVE  \/ \E i \in DOMAIN index' : index'[i].stored /\ Key(index'[i]) = k
                          \/ \E q \in Procs : pc'[q] = "append" /\ k \in Published(q)'
      BY <1>1 DEF Accounted
    <2>3. CASE k = key
      BY <1>6, <1>8, <2>3
    <2>4. CASE k # key
      <3>1. \E i \in DOMAIN index : index[i].stored /\ Key(index[i]) = k
        BY <1>5, <2>1, <2>2, <2>4 DEF Accounted
      <3> QED
        BY <1>1, <3>1
    <2> QED
      BY <2>3, <2>4
  <1> QED
    BY <1>11, <1>12

LEMMA AppendDirs ==
  ASSUME Base, DirsOK, Accounted, NEW p \in Procs, AppendIndex(p)
  PROVE  DirsOK' /\ Accounted'
  <1>1. TypeOK /\ UNCHANGED <<src, dirs, holder, draft, job, logs, errors, mishaps>> /\ pc[p] = "append"
    BY DEF Base, AppendIndex
  <1>2. \A q \in Procs : q # p => pc[q] = "idle"
    BY <1>1, Alone
  <1>3. PICK r \in Rows : r = job[p].row
    BY <1>1 DEF Base, LockHeld
  <1>4. PICK n \in Nat : n = Len(index)
    BY <1>1 DEF TypeOK
  <1>5. /\ DOMAIN index = 1..n /\ DOMAIN index' = 1..(n + 1)
        /\ index'[n + 1] = r /\ \A i \in 1..n : index'[i] = index[i]
    <2>1. index \in Seq(Rows)
      BY <1>1 DEF TypeOK
    <2>2. PICK s : s = Append(index, r)
      OBVIOUS
    <2>3. DOMAIN index = 1..n /\ DOMAIN s = 1..(n + 1) /\ s[n + 1] = r /\ \A i \in 1..n : s[i] = index[i]
      BY <1>4, <2>1, <2>2
    <2>4. index' = s
      BY <1>3, <2>2 DEF AppendIndex, Replace
    <2> QED
      BY <2>3, <2>4
  <1>6. \A q \in Procs : pc'[q] = IF q = p THEN "done" ELSE "idle"
    BY <1>1, <1>2 DEF AppendIndex, TypeOK
  <1>7. Kept(dirs, r)
    BY <1>1, <1>3 DEF DirsOK
  <1>8. ASSUME NEW i \in 1..(n + 1) PROVE Kept(dirs, index'[i])
    <2>1. CASE i = n + 1
      BY <1>5, <1>7, <2>1
    <2>2. CASE i # n + 1
      <3>1. i \in DOMAIN index /\ index'[i] = index[i]
        BY <1>5, <2>2
      <3> QED
        BY <3>1 DEF DirsOK
    <2> QED
      BY <2>1, <2>2
  <1>9. DirsOK'
    BY <1>1, <1>5, <1>6, <1>8 DEF DirsOK, Staging
  <1>10. Accounted'
    <2>1. SUFFICES ASSUME mishaps = 0, NEW k \in DOMAIN dirs
                   PROVE  \E i \in DOMAIN index' : index'[i].stored /\ Key(index'[i]) = k
      BY <1>1 DEF Accounted
    <2>2. \/ \E i \in DOMAIN index : index[i].stored /\ Key(index[i]) = k
          \/ \E q \in Procs : pc[q] = "append" /\ k \in Published(q)
      BY <2>1 DEF Accounted
    <2>3. CASE \E i \in DOMAIN index : index[i].stored /\ Key(index[i]) = k
      <3>1. PICK i \in DOMAIN index : index[i].stored /\ Key(index[i]) = k
        BY <2>3
      <3>2. i \in DOMAIN index' /\ index'[i] = index[i]
        BY <1>5
      <3> QED
        BY <3>1, <3>2
    <2>4. CASE \E q \in Procs : pc[q] = "append" /\ k \in Published(q)
      <3>1. k \in Published(p)
        BY <1>2, <2>4
      <3>2. r.stored /\ Key(r) = k
        BY <1>3, <3>1 DEF Published, Destination, Key
      <3>3. n + 1 \in DOMAIN index'
        BY <1>5
      <3> QED
        BY <1>5, <3>2, <3>3
    <2> QED
      BY <2>2, <2>3, <2>4
  <1> QED
    BY <1>9, <1>10

\* A call that ends early leaves the directories, or takes its own away.
LEMMA EndDirs ==
  ASSUME Base, DirsOK, Accounted, NEW p \in Procs, pc[p] # "idle",
         pc' = [pc EXCEPT ![p] = "idle"], index' = index, mishaps' = 0 => mishaps = 0,
         \/ dirs' = dirs /\ (mishaps' = 0 => pc[p] # "append" \/ Published(p) = {})
         \/ pc[p] = "append" /\ dirs' = [k \in DOMAIN dirs \ Published(p) |-> dirs[k]]
  PROVE  DirsOK' /\ Accounted'
  <1>1. TypeOK
    BY DEF Base
  <1>2. \A q \in Procs : q # p => pc[q] = "idle"
    BY Alone
  <1>3. \A q \in Procs : pc'[q] = "idle"
    BY <1>1, <1>2 DEF TypeOK
  <1>4. ASSUME NEW i \in DOMAIN index PROVE Kept(dirs', index[i])
    <2>1. Kept(dirs, index[i])
      BY DEF DirsOK
    <2>2. CASE dirs' = dirs
      BY <2>1, <2>2
    <2>3. CASE pc[p] = "append" /\ dirs' = [k \in DOMAIN dirs \ Published(p) |-> dirs[k]]
      <3>1. index[i].stored => Key(index[i]) \in DOMAIN dirs \ Published(p)
        BY <2>1, <2>3 DEF DirsOK, Kept
      <3> QED
        BY <2>1, <2>3, <3>1, KeptLater
    <2> QED
      BY <2>2, <2>3
  <1>5. DirsOK'
    BY <1>3, <1>4 DEF DirsOK, Staging
  <1>6. Accounted'
    <2>1. SUFFICES ASSUME mishaps' = 0, NEW k \in DOMAIN dirs'
                   PROVE  \E i \in DOMAIN index : index[i].stored /\ Key(index[i]) = k
      BY DEF Accounted
    <2>2. k \in DOMAIN dirs
      OBVIOUS
    <2>3. \/ \E i \in DOMAIN index : index[i].stored /\ Key(index[i]) = k
          \/ pc[p] = "append" /\ k \in Published(p)
      BY <1>2, <2>1, <2>2 DEF Accounted
    <2>4. ~(pc[p] = "append" /\ k \in Published(p))
      BY <2>1
    <2> QED
      BY <2>3, <2>4
  <1> QED
    BY <1>5, <1>6

LEMMA DamageDirs ==
  ASSUME Base, DirsOK, Accounted, NEW i \in DOMAIN index, Damage(i)
  PROVE  DirsOK' /\ Accounted'
  <1>1. TypeOK /\ UNCHANGED <<src, dirs, holder, pc, draft, job, logs, errors>>
    BY DEF Base, Damage
  <1>2. index' = [index EXCEPT ![i].ok = FALSE]
    BY DEF Damage, Replace
  <1>3. index \in Seq(Rows) /\ DOMAIN index' = DOMAIN index
    BY <1>1, <1>2 DEF TypeOK
  <1>4. ASSUME NEW l \in DOMAIN index PROVE Same(index'[l], index[l])
    <2>1. index[l] \in Rows
      BY <1>3
    <2>2. index'[l] = IF l = i THEN [index[l] EXCEPT !.ok = FALSE] ELSE index[l]
      BY <1>2, <1>3
    <2> QED
      BY <2>1, <2>2 DEF Same, Rows
  <1>5. ASSUME NEW l \in DOMAIN index'
        PROVE  Kept(dirs', index'[l]) /\ Key(index'[l]) = Key(index[l]) /\ index'[l].stored = index[l].stored
    <2>1. Same(index'[l], index[l]) /\ Kept(dirs, index[l])
      BY <1>3, <1>4 DEF DirsOK
    <2>2. Kept(dirs, index'[l]) /\ Key(index'[l]) = Key(index[l])
      BY <2>1, KeptSame
    <2> QED
      BY <1>1, <2>1, <2>2 DEF Same
  <1>6. \A q \in Procs : Staging(q)' => Staged(q)'
    BY <1>1 DEF DirsOK, Staging, Staged
  <1>7. ASSUME NEW q \in Procs, pc'[q] = "append"
        PROVE  /\ Kept(dirs', job'[q].row)
               /\ \A l \in DOMAIN index' : index'[l].stored => Key(index'[l]) \notin Published(q)'
    <2>1. Published(q)' = Published(q)
      BY <1>1 DEF Published, Destination
    <2> QED
      BY <1>1, <1>3, <1>5, <1>7, <2>1 DEF DirsOK
  <1>8. DirsOK'
    BY <1>5, <1>6, <1>7 DEF DirsOK
  <1>9. mishaps' # 0
    BY <1>1 DEF Damage, TypeOK
  <1> QED
    BY <1>8, <1>9 DEF Accounted

LEMMA NextDirs ==
  ASSUME Base, DirsOK, Accounted, [Next]_vars
  PROVE  DirsOK' /\ Accounted'
  <1>0. TypeOK
    BY DEF Base
  <1>1. CASE UNCHANGED vars
    BY <1>1 DEF vars, DirsOK, Accounted, Staging, Staged, Published, Destination
  \* Steps that leave the calls of log() alone.
  <1>2. ASSUME NEW p \in Procs, pc[p] = "idle", NEW d, draft' = [draft EXCEPT ![p] = d],
               UNCHANGED <<src, index, versions, dirs, holder, pc, job, logs, errors, mishaps>>
        PROVE  DirsOK' /\ Accounted'
    <2>1. ASSUME NEW q \in Procs, Staging(q)' PROVE Staged(q)'
      <3>1. Staging(q) /\ q # p
        BY <1>2, <2>1 DEF Staging
      <3>2. draft'[q] = draft[q]
        BY <1>0, <1>2, <3>1 DEF TypeOK
      <3> QED
        BY <1>2, <3>1, <3>2 DEF DirsOK, Staged
    <2>2. \A q \in Procs : Published(q)' = Published(q)
      BY <1>2 DEF Published, Destination
    <2> QED
      BY <1>2, <2>1, <2>2 DEF DirsOK, Accounted
  <1>3. ASSUME NEW p \in Procs, NEW n \in Names, New(p, n) PROVE DirsOK' /\ Accounted'
    <2>1. draft' = [draft EXCEPT ![p] = [draft[p] EXCEPT !.name = n]]
      BY <1>0, <1>3 DEF New, TypeOK
    <2> QED
      BY <1>2, <1>3, <2>1 DEF New
  <1>4. ASSUME NEW p \in Procs, NEW n \in Names, NEW s \in Selectors, Use(p, n, s)
        PROVE  DirsOK' /\ Accounted'
    BY <1>2, <1>4 DEF Use
  <1>5. ASSUME NEW p \in Procs, NEW f \in Sources, AddFile(p, f) PROVE DirsOK' /\ Accounted'
    <2>1. \E d : draft' = [draft EXCEPT ![p] = d]
      BY <1>5 DEF AddFile
    <2> QED
      BY <1>2, <1>5, <2>1 DEF AddFile
  <1>6. ASSUME NEW f \in Sources, NEW c \in Contents, Rewrite(f, c) PROVE DirsOK' /\ Accounted'
    BY <1>6 DEF Rewrite, DirsOK, Accounted, Staging, Staged, Published, Destination
  \* The steps of log().
  <1>7. ASSUME NEW p \in Procs, NEW mode \in Modes, NEW as \in SUBSET Aliases, Enter(p, mode, as)
        PROVE  DirsOK' /\ Accounted'
    BY <1>7, EnterDirs
  <1>8. ASSUME NEW p \in Procs, NEW f \in Sources, NEW linked \in BOOLEAN, StageFile(p, f, linked)
        PROVE  DirsOK' /\ Accounted'
    BY <1>8, StageDirs
  <1>9. ASSUME NEW p \in Procs, Rename(p) PROVE DirsOK' /\ Accounted'
    BY <1>9, RenameDirs
  <1>10. ASSUME NEW p \in Procs, AppendIndex(p) PROVE DirsOK' /\ Accounted'
    BY <1>10, AppendDirs
  <1>11. ASSUME NEW p \in Procs, Return(p) PROVE DirsOK' /\ Accounted'
    BY <1>11, EndDirs DEF Return
  <1>12. ASSUME NEW p \in Procs, NEW f \in Sources, StageChanged(p, f) PROVE DirsOK' /\ Accounted'
    BY <1>12, EndDirs DEF StageChanged, Staging, Fail
  <1>13. ASSUME NEW p \in Procs, Occupied(p) PROVE DirsOK' /\ Accounted'
    BY <1>13, EndDirs DEF Occupied, Staging, Fail
  <1>14. ASSUME NEW p \in Procs, AppendFails(p) PROVE DirsOK' /\ Accounted'
    <2>1. pc[p] = "append" /\ pc[p] # "idle" /\ index' = index /\ mishaps' = mishaps
      BY <1>14 DEF AppendFails
    <2>2. pc' = [pc EXCEPT ![p] = "idle"] /\ dirs' = [k \in DOMAIN dirs \ Published(p) |-> dirs[k]]
      BY <1>14 DEF AppendFails, Fail
    <2> QED
      BY <2>1, <2>2, EndDirs
  <1>15. ASSUME NEW p \in Procs, RemovalFails(p) PROVE DirsOK' /\ Accounted'
    <2>1. mishaps' # 0
      BY <1>0, <1>15 DEF RemovalFails, TypeOK
    <2> QED
      BY <1>15, <2>1, EndDirs DEF RemovalFails, Fail
  <1>16. ASSUME NEW p \in Procs, StageFails(p) PROVE DirsOK' /\ Accounted'
    BY <1>16, EndDirs DEF StageFails, Staging, Fail
  <1>17. ASSUME NEW p \in Procs, Crash(p) PROVE DirsOK' /\ Accounted'
    <2>1. mishaps' # 0
      BY <1>0, <1>17 DEF Crash, TypeOK
    <2> QED
      BY <1>17, <2>1, EndDirs DEF Crash
  <1>18. ASSUME NEW i \in DOMAIN index, Damage(i) PROVE DirsOK' /\ Accounted'
    BY <1>18, DamageDirs
  <1> QED
    BY <1>1, <1>3, <1>4, <1>5, <1>6, <1>7, <1>8, <1>9, <1>10, <1>11, <1>12, <1>13, <1>14, <1>15,
       <1>16, <1>17, <1>18 DEF Next

LEMMA DirsInvariant == Spec => [](Base /\ DirsOK /\ Accounted)
  <1>1. Init => Base /\ DirsOK /\ Accounted
    BY InitBase, InitDirsOK
  <1>2. Base /\ DirsOK /\ Accounted /\ [Next]_vars => (Base /\ DirsOK /\ Accounted)'
    BY NextBase, NextDirs
  <1> QED
    BY <1>1, <1>2, PTL DEF Spec

(***************************************************************************)
(* The state of the store is well typed, log() is under the lock from its  *)
(* decision to its return, and `versions` is what the index reads as.      *)
(***************************************************************************)
THEOREM TypeCorrect == Spec => [](TypeOK /\ LockHeld /\ IndexRead)
  <1>1. Base => TypeOK /\ LockHeld /\ IndexRead
    BY DEF Base
  <1> QED
    BY <1>1, DirsInvariant, PTL

(***************************************************************************)
(* A version stored from an object that knew its sources has all its files *)
(* with the bytes that were hashed, as soon as a reader can find it and    *)
(* for good: the lock, the check of the staged bytes and the rename before *)
(* the record (log in rust/artifacts.rs).                                  *)
(***************************************************************************)
THEOREM StoredWhole == Spec => []VersionsComplete
  <1>1. Base /\ DirsOK => VersionsComplete
    <2> SUFFICES ASSUME Base, DirsOK, NEW k \in DOMAIN versions, versions[k].stored, versions[k].whole
                 PROVE  Complete(versions[k])
      BY DEF VersionsComplete
    <2>1. PICK r : r = versions[k]
      OBVIOUS
    <2>2. /\ Key(r) \in DOMAIN dirs /\ Holds(dirs[Key(r)], r)
      BY <2>1, KeptVersions DEF Kept
    <2>3. PICK d : d = dirs[Key(r)]
      OBVIOUS
    <2>4. \A f \in DOMAIN r.digest : f \in DOMAIN d /\ d[f] \in {r.digest[f], Shared}
      BY <2>2, <2>3 DEF Holds
    <2>5. Download(r) = [f \in DOMAIN d \cap DOMAIN r.digest |-> IF d[f] = Shared THEN src[f] ELSE d[f]]
      BY <2>2, <2>3 DEF Download, Key
    <2>6. DOMAIN d \cap DOMAIN r.digest = DOMAIN r.digest
      BY <2>4
    <2>7. Complete(r)
      BY <2>3, <2>4, <2>5, <2>6 DEF Complete, Key
    <2> QED
      BY <2>1, <2>7
  <1> QED
    BY <1>1, DirsInvariant, PTL

(***************************************************************************)
(* A directory without a record, which blocks its number for good, comes   *)
(* only of a crash, a failed removal or damage: an error that log()        *)
(* reports takes the directory away again (log in rust/artifacts.rs).      *)
(***************************************************************************)
THEOREM NoOrphans == Spec => []OrphansExplained
  <1>1. Base /\ Accounted => OrphansExplained
    <2> SUFFICES ASSUME Base, Accounted, mishaps = 0, NEW key \in DOMAIN dirs
                 PROVE  \/ \E i \in DOMAIN index : /\ <<index[i].name, index[i].version>> = key
                                                   /\ index[i].stored
                        \/ holder # NoOne /\ pc[holder] = "append" /\ Destination(holder) = key
      BY DEF OrphansExplained
    <2>1. CASE \E i \in DOMAIN index : index[i].stored /\ Key(index[i]) = key
      BY <2>1 DEF Key
    <2>2. CASE \E p \in Procs : pc[p] = "append" /\ key \in Published(p)
      <3>1. PICK p \in Procs : pc[p] = "append" /\ key \in Published(p)
        BY <2>2
      <3>2. holder = p
        BY <3>1 DEF Base, LockHeld
      <3>3. key = Destination(p)
        BY <3>1 DEF Published
      <3> QED
        BY <3>1, <3>2, <3>3, ArtifactsAssumption
    <2> QED
      BY <2>1, <2>2 DEF Accounted
  <1> QED
    BY <1>1, DirsInvariant, PTL

-----------------------------------------------------------------------------
(* The table of versions                                                   *)

\* What a line does to the versions: `a` are those after it.
Aliased(vs, row, q) ==
    IF q.name # row.name THEN q.aliases
    ELSE IF q.version = row.version THEN q.aliases \cup row.aliases
    ELSE q.aliases \ row.aliases

Applied(vs, row, a) ==
    /\ a \in Seq(Rows)
    /\ \A k \in 1..Len(vs) : k \in 1..Len(a) /\ Same(a[k], vs[k]) /\ a[k].aliases = Aliased(vs, row, vs[k])
    /\ IF row.reused THEN Len(a) = Len(vs) ELSE Len(a) = Len(vs) + 1 /\ a[Len(vs) + 1] = row

LEMMA OwnOf ==
  ASSUME NEW vs \in Seq(Rows), NEW row \in Rows, Extends(vs, row)
  PROVE  (Own(vs, row) = {}) <=> ~row.reused
  <1>1. CASE row.reused
    <2>1. PICK k \in Of(vs, row.name) : vs[k].version = row.version
      BY <1>1 DEF Extends
    <2>2. k \in Own(vs, row)
      BY <2>1 DEF Own, Of
    <2> QED
      BY <1>1, <2>2
  <1>2. CASE ~row.reused
    <2>1. ASSUME NEW k \in Own(vs, row) PROVE FALSE
      <3>1. k \in Of(vs, row.name) /\ vs[k].version = row.version /\ vs[k] \in Rows
        BY <2>1 DEF Own, Of
      <3>2. vs[k].version < row.version
        BY <1>2, <3>1, Zenon DEF Extends
      <3>3. PICK v \in Nat : v = row.version
        BY Fields
      <3> QED
        BY <3>1, <3>2, <3>3
    <2> QED
      BY <1>2, <2>1
  <1> QED
    BY <1>1, <1>2

LEMMA AbsorbApplies ==
  ASSUME NEW vs \in Seq(Rows), NEW row \in Rows, row.ok, Extends(vs, row)
  PROVE  Applied(vs, row, Absorb(vs, row))
  <1>1. PICK a : a = Absorb(vs, row)
    OBVIOUS
  <1>2. PICK n \in Nat : n = Len(vs)
    OBVIOUS
  <1>3. PICK s \in Seq(Rows) : s = Rest(vs, row)
    BY RestIs
  <1>4. /\ Len(s) = n
        /\ \A k \in 1..n : /\ Same(s[k], vs[k])
                           /\ s[k].aliases = IF vs[k].name = row.name /\ vs[k].version # row.version
                                             THEN vs[k].aliases \ row.aliases ELSE vs[k].aliases
    BY <1>2, <1>3, RestIs, Zenon
  <1>5. \A k \in 1..n : k \in Own(vs, row) <=> vs[k].name = row.name /\ vs[k].version = row.version
    BY <1>2 DEF Own
  <1>6. CASE ~row.reused
    <2>1. Own(vs, row) = {}
      BY <1>6, OwnOf
    <2>2. a = Append(s, row)
      BY <1>1, <1>3, <1>6, <2>1, AbsorbAdds, Zenon
    <2>3. a \in Seq(Rows) /\ Len(a) = n + 1 /\ a[n + 1] = row /\ \A k \in 1..n : a[k] = s[k] /\ k \in 1..(n + 1)
      BY <1>4, <2>2
    <2>4. \A k \in 1..n : Same(a[k], vs[k]) /\ a[k].aliases = Aliased(vs, row, vs[k])
      BY <1>4, <1>5, <2>1, <2>3 DEF Aliased
    <2> QED
      BY <1>1, <1>2, <1>6, <2>3, <2>4, Zenon DEF Applied
  <1>7. CASE row.reused
    <2>1. Own(vs, row) # {}
      BY <1>7, OwnOf
    <2>2. a = [k \in 1..n |-> IF k \in Own(vs, row)
                              THEN [s[k] EXCEPT !.aliases = @ \cup row.aliases] ELSE s[k]]
      <3>1. DOMAIN s = 1..n
        BY <1>4
      <3> QED
        BY <1>1, <1>3, <1>7, <2>1, <3>1, AbsorbMerges
    <2>3. ASSUME NEW k \in 1..n
          PROVE  Same(a[k], vs[k]) /\ a[k].aliases = Aliased(vs, row, vs[k])
      <3>1. PICK q \in Rows : q = s[k]
        BY <1>4
      <3>2. CASE k \in Own(vs, row)
        <4>1. PICK as : as = q.aliases \cup row.aliases
          OBVIOUS
        <4>2. as \in SUBSET Aliases
          BY <4>1, Fields
        <4>3. PICK t : t = [q EXCEPT !.aliases = as]
          OBVIOUS
        <4>4. Same(t, q) /\ t.aliases = as
          BY <4>2, <4>3, Realiased, Zenon
        <4>5. a[k] = t
          BY <2>2, <3>1, <3>2, <4>1, <4>3
        <4>6. Same(q, vs[k])
          BY <1>4, <3>1
        <4>7. Same(t, vs[k])
          BY <4>4, <4>6, SameChain
        <4>8. q.aliases = vs[k].aliases /\ vs[k].name = row.name /\ vs[k].version = row.version
          BY <1>4, <1>5, <3>1, <3>2
        <4>9. t.aliases = Aliased(vs, row, vs[k])
          BY <4>1, <4>4, <4>8 DEF Aliased
        <4> QED
          BY <4>5, <4>7, <4>9
      <3>3. CASE k \notin Own(vs, row)
        <4>1. a[k] = s[k]
          BY <2>2, <3>3
        <4> QED
          BY <1>4, <1>5, <3>3, <4>1 DEF Aliased
      <3> QED
        BY <3>2, <3>3
    <2>4. Len(a) = n /\ a \in Seq(Rows)
      <3>1. a \in Seq(Rows)
        BY <1>1, AbsorbIs
      <3>2. DOMAIN a = 1..n
        BY <2>2
      <3> QED
        BY <3>1, <3>2
    <2> QED
      BY <1>1, <1>2, <1>7, <2>3, <2>4, Zenon DEF Applied
  <1> QED
    BY <1>6, <1>7

\* A line that extends the table keeps it one.
LEMMA TableGrows ==
  ASSUME NEW vs \in Seq(Rows), NEW row \in Rows, Extends(vs, row), Table1(vs),
         NEW a, Applied(vs, row, a)
  PROVE  Table1(a) /\ Found(a, row)
  <1>1. PICK n \in Nat : n = Len(vs)
    OBVIOUS
  <1>2. /\ DOMAIN vs = 1..n /\ a \in Seq(Rows)
        /\ \A k \in 1..n : k \in DOMAIN a /\ Same(a[k], vs[k]) /\ a[k].aliases = Aliased(vs, row, vs[k])
        /\ row.reused => DOMAIN a = 1..n
        /\ ~row.reused => DOMAIN a = 1..(n + 1) /\ a[n + 1] = row
    BY <1>1 DEF Applied
  <1>3. \A k \in DOMAIN a : k \in 1..n \/ (k = n + 1 /\ ~row.reused /\ a[k] = row)
    BY <1>2
  <1>4. \A k \in 1..n : a[k].name = vs[k].name /\ a[k].version = vs[k].version /\ a[k].digest = vs[k].digest
    BY <1>2 DEF Same
  <1>5. ASSUME NEW k \in 1..n, NEW l \in 1..n, vs[k].name = vs[l].name, k # l
        PROVE  /\ a[k].version # a[l].version /\ a[k].digest # a[l].digest
               /\ a[k].aliases \cap a[l].aliases = {}
    <2>1. /\ vs[k].version # vs[l].version /\ vs[k].digest # vs[l].digest
          /\ vs[k].aliases \cap vs[l].aliases = {}
      BY <1>2, <1>5 DEF Table1
    <2>2. a[k].aliases = Aliased(vs, row, vs[k]) /\ a[l].aliases = Aliased(vs, row, vs[l])
      BY <1>2
    <2>3. a[k].aliases \cap a[l].aliases = {}
      BY <1>5, <2>1, <2>2 DEF Aliased
    <2> QED
      BY <1>4, <2>1, <2>3
  <1>6. ASSUME NEW k \in 1..n, ~row.reused, vs[k].name = row.name
        PROVE  /\ a[k].version # row.version /\ a[k].digest # row.digest
               /\ a[k].aliases \cap row.aliases = {}
    <2>1. k \in Of(vs, row.name)
      BY <1>2, <1>6 DEF Of
    <2>2. vs[k].version < row.version /\ vs[k].digest # row.digest
      BY <1>6, <2>1, Zenon DEF Extends
    <2>3. vs[k].version # row.version
      <3>1. vs[k] \in Rows
        BY <1>2
      <3>2. PICK v, w \in Nat : v = vs[k].version /\ w = row.version
        BY <3>1, Fields
      <3> QED
        BY <2>2, <3>2
    <2>4. a[k].aliases = vs[k].aliases \ row.aliases
      BY <1>2, <1>6, <2>3 DEF Aliased
    <2> QED
      BY <1>4, <2>2, <2>3, <2>4
  <1>7. ASSUME NEW k \in DOMAIN a, NEW l \in DOMAIN a, a[k].name = a[l].name, k # l
        PROVE  /\ a[k].version # a[l].version /\ a[k].digest # a[l].digest
               /\ a[k].aliases \cap a[l].aliases = {}
    <2>1. CASE k \in 1..n /\ l \in 1..n
      BY <1>4, <1>5, <1>7, <2>1
    <2>2. CASE k \in 1..n /\ l \notin 1..n
      <3>1. ~row.reused /\ a[l] = row /\ vs[k].name = row.name
        BY <1>3, <1>4, <1>7, <2>2
      <3>2. /\ a[k].version # row.version /\ a[k].digest # row.digest
            /\ a[k].aliases \cap row.aliases = {}
        BY <1>6, <2>2, <3>1
      <3> QED
        BY <3>1, <3>2
    <2>3. CASE k \notin 1..n /\ l \in 1..n
      <3>1. ~row.reused /\ a[k] = row /\ vs[l].name = row.name
        BY <1>3, <1>4, <1>7, <2>3
      <3>2. /\ a[l].version # row.version /\ a[l].digest # row.digest
            /\ a[l].aliases \cap row.aliases = {}
        BY <1>6, <2>3, <3>1
      <3> QED
        BY <3>1, <3>2
    <2>4. CASE k \notin 1..n /\ l \notin 1..n
      BY <1>3, <1>7, <2>4
    <2> QED
      BY <2>1, <2>2, <2>3, <2>4
  <1>8. \A m : \A k \in Of(vs, m) : k \in Of(a, m) /\ a[k].version = vs[k].version
    BY <1>2, <1>4 DEF Of
  <1>9. ASSUME NEW k \in DOMAIN a, NEW v \in 0..a[k].version
        PROVE  \E l \in Of(a, a[k].name) : a[l].version = v
    <2>1. CASE k \in 1..n
      <3>1. k \in DOMAIN vs /\ v \in 0..vs[k].version /\ a[k].name = vs[k].name
        BY <1>2, <1>4, <1>9, <2>1
      <3>2. PICK l \in Of(vs, vs[k].name) : vs[l].version = v
        BY <3>1 DEF Table1
      <3> QED
        BY <1>8, <3>1, <3>2
    <2>2. CASE k \notin 1..n
      <3>1. ~row.reused /\ a[k] = row
        BY <1>3, <2>2
      <3>2. PICK w \in Nat : w = row.version
        BY Fields
      <3>3. CASE v = w
        <4>1. k \in Of(a, a[k].name)
          BY DEF Of
        <4> QED
          BY <3>1, <3>2, <3>3, <4>1
      <3>4. CASE v # w
        <4>1. v \in 0..(w - 1)
          BY <1>9, <3>1, <3>2, <3>4
        <4>2. PICK l \in Of(vs, row.name) : vs[l].version = v
          BY <3>1, <3>2, <4>1 DEF Extends
        <4> QED
          BY <1>8, <3>1, <4>2
      <3> QED
        BY <3>3, <3>4
    <2> QED
      BY <2>1, <2>2
  <1>10. Table1(a)
    BY <1>7, <1>9 DEF Table1
  <1>11. Found(a, row)
    <2>1. CASE row.reused
      <3>1. PICK k \in Of(vs, row.name) : vs[k].version = row.version /\ vs[k].digest = row.digest
        BY <2>1 DEF Extends
      <3>2. k \in 1..n /\ vs[k].name = row.name
        BY <1>2, <3>1 DEF Of
      <3>3. a[k].aliases = vs[k].aliases \cup row.aliases
        BY <1>2, <3>1, <3>2 DEF Aliased
      <3> QED
        BY <1>4, <1>8, <3>1, <3>2, <3>3 DEF Found
    <2>2. CASE ~row.reused
      <3>1. n + 1 \in DOMAIN a /\ a[n + 1] = row
        BY <1>2, <2>2
      <3> QED
        BY <3>1 DEF Found, Of
    <2> QED
      BY <2>1, <2>2
  <1> QED
    BY <1>10, <1>11

\* The record of a call that has the lock extends the table.
LEMMA RecordExtends ==
  ASSUME versions \in Seq(Rows), Table1(versions),
         NEW d \in Drafts, NEW mode, NEW as \in SUBSET Aliases, NEW r, Recorded(r, d, mode, as)
  PROVE  Extends(versions, r)
  <1>1. r \in Rows /\ r.name = d.name /\ r.digest = d.files /\ Versions(d.name) = Of(versions, r.name)
    BY DEF Recorded, Versions, Of
  <1>2. CASE r.reused
    <2>1. PICK k \in Versions(d.name) : Same(r, versions[k]) /\ r.aliases = versions[k].aliases \cup as
      BY <1>2 DEF Recorded, Reuses
    <2>2. /\ k \in Of(versions, r.name) /\ versions[k].version = r.version
          /\ versions[k].digest = r.digest /\ versions[k].aliases \subseteq r.aliases
      BY <1>1, <2>1 DEF Same
    <2> QED
      BY <1>2, <2>2 DEF Extends
  <1>3. CASE ~r.reused
    <2>1. /\ \A k \in Of(versions, r.name) : versions[k].version < r.version /\ versions[k].digest # r.digest
          /\ r.version = 0 \/ \E k \in Of(versions, r.name) : versions[k].version + 1 = r.version
      BY <1>1, <1>3 DEF Recorded, IsFresh
    <2>2. PICK w \in Nat : w = r.version
      BY <1>1, Fields
    <2>3. ASSUME NEW v \in 0..(w - 1) PROVE \E l \in Of(versions, r.name) : versions[l].version = v
      <3>1. w # 0
        BY <2>3
      <3>2. PICK k \in Of(versions, r.name) : versions[k].version + 1 = w
        BY <2>1, <2>2, <3>1
      <3>3. k \in DOMAIN versions /\ versions[k].name = r.name /\ versions[k] \in Rows
        BY <3>2 DEF Of
      <3>4. PICK u \in Nat : u = versions[k].version
        BY <3>3, Fields
      <3>5. v \in 0..u
        BY <3>2, <3>4
      <3> QED
        BY <3>3, <3>4, <3>5 DEF Table1
    <2> QED
      BY <1>3, <2>1, <2>2, <2>3 DEF Extends
  <1> QED
    BY <1>2, <1>3

LEMMA InitTableOK == Init => TableOK
  <1> SUFFICES ASSUME Init PROVE TableOK
    OBVIOUS
  <1>1. DOMAIN versions = {}
    BY DEF Init
  <1>2. Table1(versions)
    BY <1>1 DEF Table1
  <1> QED
    BY <1>2 DEF Init, TableOK

\* The record of the holder is what the index is about to say.
LEMMA AppendTable ==
  ASSUME Base, TableOK, NEW p \in Procs, AppendIndex(p)
  PROVE  /\ TableOK'
         /\ Undamaged' => /\ Undamaged /\ Table1(versions) /\ Extends(versions, job[p].row)
                          /\ job[p].row \in Rows /\ Applied(versions, job[p].row, versions')
  <1>1. TypeOK /\ UNCHANGED <<src, dirs, holder, draft, job, logs, errors, mishaps>> /\ pc[p] = "append"
    BY DEF Base, AppendIndex
  <1>2. \A q \in Procs : q # p => pc[q] = "idle"
    BY <1>1, Alone
  <1>3. PICK r \in Rows : r = job[p].row /\ r.ok
    BY <1>1 DEF Base, LockHeld
  <1>4. PICK vs \in Seq(Rows) : vs = versions
    BY <1>1 DEF TypeOK
  <1>5. PICK s \in Seq(Rows) : s = index
    BY <1>1 DEF TypeOK
  <1>6. index' = Append(s, r) /\ versions' = Absorb(vs, r)
    <2>1. index' = Append(s, r) /\ versions' = Read(Append(s, r))
      BY <1>3, <1>5 DEF AppendIndex, Replace
    <2>2. vs = Read(s)
      BY <1>4, <1>5 DEF Base, IndexRead
    <2>3. Read(Append(s, r)) = Absorb(Read(s), r)
      BY ReadAppend
    <2> QED
      BY <2>1, <2>2, <2>3
  <1>7. \A q \in Procs : pc'[q] = IF q = p THEN "done" ELSE "idle"
    BY <1>1, <1>2 DEF AppendIndex, TypeOK
  <1>8. Undamaged' => Undamaged
    <2>1. PICK n \in Nat : n = Len(s)
      OBVIOUS
    <2>2. PICK t : t = Append(s, r)
      OBVIOUS
    <2>3. DOMAIN s = 1..n /\ DOMAIN t = 1..(n + 1) /\ \A i \in 1..n : i \in 1..(n + 1) /\ t[i] = s[i]
      BY <2>1, <2>2
    <2> QED
      BY <1>5, <1>6, <2>2, <2>3 DEF Undamaged
  <1>9. ASSUME Undamaged'
        PROVE  /\ Table1(vs) /\ Extends(vs, r) /\ Applied(vs, r, versions')
               /\ Table1(versions') /\ Found(versions', r)
    <2>1. Table1(vs) /\ Extends(vs, r)
      BY <1>1, <1>3, <1>4, <1>8, <1>9 DEF TableOK
    <2>2. Applied(vs, r, versions')
      BY <1>3, <1>6, <2>1, AbsorbApplies
    <2>3. PICK a : a = versions'
      OBVIOUS
    <2>4. Table1(a) /\ Found(a, r)
      BY <2>1, <2>2, <2>3, TableGrows, Zenon
    <2> QED
      BY <2>1, <2>2, <2>3, <2>4
  <1>10. TableOK'
    <2>1. SUFFICES ASSUME Undamaged'
                   PROVE  /\ Table1(versions)'
                          /\ \A q \in Procs : /\ pc'[q] \in {"copy", "link", "append"} => Extends(versions, job[q].row)'
                                              /\ pc'[q] = "done" => Found(versions, job[q].row)'
      BY DEF TableOK
    <2>2. Table1(versions)'
      BY <1>9, <2>1
    <2>3. ASSUME NEW q \in Procs
          PROVE  /\ pc'[q] \notin {"copy", "link", "append"}
                 /\ pc'[q] = "done" => Found(versions, job[q].row)'
      <3>1. CASE q = p
        <4>1. job'[q].row = r
          BY <1>1, <1>3, <3>1
        <4> QED
          BY <1>7, <1>9, <2>1, <3>1, <4>1
      <3>2. CASE q # p
        BY <1>7, <3>2
      <3> QED
        BY <3>1, <3>2
    <2> QED
      BY <2>2, <2>3
  <1> QED
    BY <1>3, <1>4, <1>8, <1>9, <1>10

\* No other step changes the table.
LEMMA NextTableOK ==
  ASSUME Base, TableOK, [Next]_vars
  PROVE  TableOK'
  <1>0. TypeOK
    BY DEF Base
  <1>1. ASSUME index' = index, versions' = versions,
               \A p \in Procs : /\ pc'[p] \in {"copy", "link", "append", "done"} => job'[p].row = job[p].row
                                /\ pc'[p] \in {"copy", "link", "append"} => pc[p] \in {"copy", "link", "append"}
                                /\ pc'[p] = "done" => pc[p] = "done"
        PROVE  TableOK'
    BY <1>1 DEF TableOK, Undamaged
  <1>2. CASE UNCHANGED <<index, versions, pc, job>>
    BY <1>1, <1>2
  <1>3. ASSUME NEW p \in Procs, NEW mode \in Modes, NEW as \in SUBSET Aliases, Enter(p, mode, as) PROVE TableOK'
    <2>1. versions \in Seq(Rows) /\ UNCHANGED <<index, versions>>
      BY <1>0, <1>3 DEF Enter, TypeOK
    <2>2. \A q \in Procs : pc[q] = "idle"
      BY <1>3, ArtifactsAssumption DEF Enter, Base, LockHeld
    <2>3. PICK d \in Drafts : d = draft[p]
      BY <1>0 DEF TypeOK
    <2>4. PICK r : r = Record(draft[p], mode, as)
      OBVIOUS
    <2>5. Recorded(r, d, mode, as)
      <3>1. d.name # NoOne
        BY <1>3, <2>3 DEF Enter
      <3> QED
        BY <2>1, <2>3, <2>4, <3>1, RecordIs, Zenon
    <2>6. /\ job'[p].row = r /\ pc'[p] \in {"copy", "link", "append"}
          /\ \A q \in Procs : q # p => pc'[q] = "idle"
      BY <1>0, <1>3, <2>2, <2>4, ArtifactsAssumption DEF Enter, TypeOK
    <2>7. SUFFICES ASSUME Undamaged
                   PROVE  Table1(versions) /\ Extends(versions, r)
      <3>1. ASSUME Undamaged' PROVE Undamaged
        BY <2>1, <3>1 DEF Undamaged
      <3>2. ASSUME Undamaged', NEW q \in Procs, pc'[q] # "idle"
            PROVE  pc'[q] # "done" /\ Extends(versions', job'[q].row)
        <4>1. q = p
          BY <2>6, <3>2
        <4> QED
          BY <2>1, <2>6, <2>7, <3>1, <3>2, <4>1
      <3>3. ASSUME Undamaged' PROVE Table1(versions')
        BY <2>1, <2>7, <3>1, <3>3
      <3> QED
        BY <3>2, <3>3 DEF TableOK
    <2>8. Table1(versions)
      BY <2>7 DEF TableOK
    <2>9. Extends(versions, r)
      BY <2>1, <2>5, <2>8, RecordExtends
    <2> QED
      BY <2>8, <2>9
  <1>4. ASSUME NEW p \in Procs, NEW f \in Sources, NEW linked \in BOOLEAN, StageFile(p, f, linked) PROVE TableOK'
    <2>1. \A q \in Procs : job'[q].row = job[q].row
      BY <1>0, <1>4 DEF StageFile, TypeOK, Jobs
    <2> QED
      BY <1>1, <1>4, <2>1 DEF StageFile
  <1>5. ASSUME NEW p \in Procs, Rename(p) PROVE TableOK'
    <2>1. \A q \in Procs : job'[q].row = job[q].row
      BY <1>0, <1>5 DEF Rename, TypeOK, Jobs
    <2>2. pc[p] \in {"copy", "link"} /\ \A q \in Procs : pc'[q] = IF q = p THEN "append" ELSE pc[q]
      BY <1>0, <1>5 DEF Rename, TypeOK, Staging
    <2> QED
      BY <1>1, <1>5, <2>1, <2>2 DEF Rename
  <1>6. ASSUME NEW p \in Procs, AppendIndex(p) PROVE TableOK'
    BY <1>6, AppendTable
  <1>7. ASSUME NEW p \in Procs, pc' = [pc EXCEPT ![p] = "idle"], job' = [job EXCEPT ![p] = NoJob],
               index' = index, versions' = versions
        PROVE  TableOK'
    <2>1. \A q \in Procs : pc'[q] # "idle" => pc'[q] = pc[q] /\ job'[q] = job[q]
      BY <1>0, <1>7 DEF TypeOK
    <2> QED
      BY <1>1, <1>7, <2>1
  <1>8. ASSUME NEW i \in DOMAIN index, Damage(i) PROVE TableOK'
    <2>1. index[i] \in Rows /\ index' = [index EXCEPT ![i].ok = FALSE] /\ i \in DOMAIN index'
      BY <1>0, <1>8 DEF Damage, Replace, TypeOK
    <2>2. ~index'[i].ok
      BY <2>1 DEF Rows
    <2>3. ~Undamaged'
      BY <2>1, <2>2 DEF Undamaged
    <2> QED
      BY <2>3 DEF TableOK
  <1>9. ASSUME NEW p \in Procs, Fail(p), UNCHANGED <<index, versions>> PROVE TableOK'
    BY <1>7, <1>9 DEF Fail
  <1>10. CASE UNCHANGED vars
    BY <1>2, <1>10 DEF vars
  <1>11. ASSUME NEW p \in Procs, \/ \E n \in Names : New(p, n) \/ \E s \in Selectors : Use(p, n, s)
                                 \/ \E f \in Sources : AddFile(p, f)
         PROVE  TableOK'
    BY <1>2, <1>11 DEF New, Use, AddFile
  <1>12. ASSUME NEW p \in Procs, \/ \E f \in Sources : StageChanged(p, f)
                                 \/ Occupied(p) \/ AppendFails(p) \/ RemovalFails(p) \/ StageFails(p)
         PROVE  TableOK'
    BY <1>9, <1>12 DEF StageChanged, Occupied, AppendFails, RemovalFails, StageFails
  <1>13. ASSUME NEW p \in Procs, Return(p) \/ Crash(p) PROVE TableOK'
    BY <1>7, <1>13 DEF Return, Crash
  <1>14. ASSUME NEW f \in Sources, NEW c \in Contents, Rewrite(f, c) PROVE TableOK'
    BY <1>2, <1>14 DEF Rewrite
  <1> QED
    BY <1>3, <1>4, <1>5, <1>6, <1>8, <1>10, <1>11, <1>12, <1>13, <1>14 DEF Next

LEMMA TableInvariant == Spec => [](Base /\ TableOK)
  <1>1. Init => Base /\ TableOK
    BY InitBase, InitTableOK
  <1>2. Base /\ TableOK /\ [Next]_vars => (Base /\ TableOK)'
    BY NextBase, NextTableOK
  <1> QED
    BY <1>1, <1>2, PTL DEF Spec

\* The one version that is meant is the one that is selected.
LEMMA SelectedIs ==
  ASSUME versions \in Seq(Rows), NEW n, NEW sel, NEW k \in Versions(n),
         \A j \in Versions(n) :
            (sel \in {Latest, versions[j].version} \/ sel \in versions[j].aliases) <=> j = k
  PROVE  Selected(n, sel) = versions[k]
  <1> DEFINE found == {j \in Versions(n) : \/ sel \in {Latest, versions[j].version}
                                          \/ sel \in versions[j].aliases}
  <1>1. found = {k}
    OBVIOUS
  <1>2. k \in 0..Len(versions)
    BY DEF Versions
  <1>3. Selected(n, sel) = IF found = {} THEN NoOne ELSE versions[Max(found)]
    BY Zenon DEF Selected
  <1> HIDE DEF found
  <1>4. Max(found) = k
    <2>1. found \subseteq 0..Len(versions) /\ found # {} /\ Len(versions) \in Nat
      BY <1>1, <1>2
    <2>2. Max(found) \in found
      BY <2>1, MaxIs
    <2> QED
      BY <1>1, <2>2
  <1> QED
    BY <1>1, <1>3, <1>4

(***************************************************************************)
(* What log() is about to return is what a reader then finds, under its    *)
(* number and under each of its aliases, whoever else logs, dies or fails, *)
(* as long as no line of the index is damaged (resolve in                  *)
(* rust/artifacts.rs).                                                     *)
(***************************************************************************)
THEOREM AnswersFound == Spec => []AnswerFound
  <1>1. Base /\ TableOK => AnswerFound
    <2> SUFFICES ASSUME Base, TableOK, NEW p \in Procs, pc[p] = "done", Undamaged
                 PROVE  LET row  == job[p].row
                            here == Selected(row.name, row.version)
                        IN  /\ here # NoOne
                            /\ here.digest = row.digest
                            /\ \A a \in row.aliases : Selected(row.name, a) = here
      BY DEF AnswerFound, Undamaged
    <2>1. PICK r \in Rows : r = job[p].row
      BY DEF Base, LockHeld
    <2>2. versions \in Seq(Rows) /\ Table1(versions) /\ Found(versions, r)
      BY <2>1 DEF Base, TypeOK, TableOK
    <2>3. PICK k \in Versions(r.name) : /\ versions[k].version = r.version /\ versions[k].digest = r.digest
                                        /\ r.aliases \subseteq versions[k].aliases
      BY <2>2 DEF Found, Of, Versions
    <2>4. /\ \A j \in Versions(r.name) : j \in DOMAIN versions /\ versions[j].name = r.name /\ versions[j] \in Rows
      BY <2>2 DEF Versions
    <2>5. \A j \in Versions(r.name) : j # k =>
             versions[j].version # r.version /\ versions[j].aliases \cap versions[k].aliases = {}
      BY <2>2, <2>3, <2>4 DEF Table1
    <2>6. r.version \in Nat /\ r.version # Latest
      BY Fields, ArtifactsAssumption
    <2>7. ASSUME NEW j \in Versions(r.name)
          PROVE  (r.version \in {Latest, versions[j].version} \/ r.version \in versions[j].aliases) <=> j = k
      <3>1. r.version \notin versions[j].aliases
        BY <2>4, <2>6, Fields, ArtifactsAssumption
      <3> QED
        BY <2>3, <2>5, <2>6, <3>1
    <2>8. Selected(r.name, r.version) = versions[k]
      BY <2>2, <2>7, SelectedIs
    <2>9. ASSUME NEW a \in r.aliases PROVE Selected(r.name, a) = versions[k]
      <3>1. a \in Aliases
        BY Fields
      <3>2. a # Latest /\ a \notin Nat
        BY <3>1, ArtifactsAssumption
      <3>3. ASSUME NEW j \in Versions(r.name)
            PROVE  (a \in {Latest, versions[j].version} \/ a \in versions[j].aliases) <=> j = k
        <4>1. versions[j].version \in Nat
          BY <2>4, Fields
        <4>2. a # versions[j].version
          BY <3>2, <4>1
        <4> QED
          BY <2>3, <2>5, <3>2, <4>2
      <3> QED
        BY <2>2, <3>3, SelectedIs
    <2>10. versions[k] # NoOne
      BY <2>4, ArtifactsAssumption
    <2> QED
      BY <2>1, <2>3, <2>8, <2>9, <2>10
  <1> QED
    BY <1>1, TableInvariant, PTL

-----------------------------------------------------------------------------
(* The registry                                                            *)

\* The table of a name among the versions vs, and those of all names.
TableOf(vs, n) ==
    LET found(v) == CHOOSE k \in Of(vs, n) : vs[k].version = v
    IN  [v \in {vs[k].version : k \in Of(vs, n)} |->
            [digest |-> vs[found(v)].digest, aliases |-> vs[found(v)].aliases]]

Tables(vs) == [n \in Names |-> TableOf(vs, n)]

LEMMA TablesAre == [n \in Names |-> Table(n)] = Tables(versions)
  <1>1. ASSUME NEW n \in Names PROVE Table(n) = TableOf(versions, n)
    BY Zenon DEF Table, TableOf, Versions, Of
  <1> QED
    BY <1>1 DEF Tables

\* The table t has the entry of each version of the name, and no other.
Tabled(t, vs, n) ==
    /\ DOMAIN t = {vs[k].version : k \in Of(vs, n)}
    /\ t = [v \in DOMAIN t |-> t[v]]
    /\ \A k \in Of(vs, n) : t[vs[k].version] = [digest |-> vs[k].digest, aliases |-> vs[k].aliases]

LEMMA TableAt ==
  ASSUME NEW vs \in Seq(Rows), Table1(vs), NEW n
  PROVE  Tabled(TableOf(vs, n), vs, n)
  <1> DEFINE found(v) == CHOOSE k \in Of(vs, n) : vs[k].version = v
             dom == {vs[k].version : k \in Of(vs, n)}
             t == [v \in dom |-> [digest |-> vs[found(v)].digest, aliases |-> vs[found(v)].aliases]]
  <1>1. TableOf(vs, n) = t
    BY Zenon DEF TableOf
  <1>2. ASSUME NEW k \in Of(vs, n) PROVE found(vs[k].version) = k
    <2> DEFINE c == found(vs[k].version)
    <2>1. c \in Of(vs, n) /\ vs[c].version = vs[k].version
      BY Zenon
    <2> HIDE DEF c
    <2>2. c = k
      BY <2>1 DEF Table1, Of
    <2> QED
      BY <2>2 DEF c
  <1> HIDE DEF found
  <1>3. ASSUME NEW k \in Of(vs, n) PROVE t[vs[k].version] = [digest |-> vs[k].digest, aliases |-> vs[k].aliases]
    <2>1. vs[k].version \in dom
      OBVIOUS
    <2>2. t[vs[k].version] = [digest |-> vs[found(vs[k].version)].digest,
                              aliases |-> vs[found(vs[k].version)].aliases]
      BY <2>1
    <2> QED
      BY <1>2, <2>2
  <1>4. DOMAIN t = dom /\ t = [v \in DOMAIN t |-> t[v]]
    OBVIOUS
  <1> HIDE DEF t, dom
  <1>5. dom = {vs[k].version : k \in Of(vs, n)}
    BY DEF dom
  <1> QED
    BY <1>1, <1>3, <1>4, <1>5, Zenon DEF Tabled

\* The numbers of a name are the first ones.
LEMMA Numbered ==
  ASSUME NEW vs \in Seq(Rows), Table1(vs), NEW n, NEW w \in Nat,
         \A k \in Of(vs, n) : vs[k].version < w,
         \A v \in 0..(w - 1) : \E k \in Of(vs, n) : vs[k].version = v
  PROVE  /\ {vs[k].version : k \in Of(vs, n)} = 0..(w - 1)
         /\ Cardinality({vs[k].version : k \in Of(vs, n)}) = w
  <1>1. ASSUME NEW k \in Of(vs, n) PROVE vs[k].version \in 0..(w - 1)
    <2>1. vs[k] \in Rows
      BY DEF Of
    <2>2. PICK v \in Nat : v = vs[k].version
      BY <2>1, Fields
    <2>3. v < w
      BY <2>2
    <2>4. v \in 0..(w - 1)
      BY <2>3
    <2> QED
      BY <2>2, <2>4
  <1>2. {vs[k].version : k \in Of(vs, n)} = 0..(w - 1)
    BY <1>1
  <1>3. Cardinality(0..(w - 1)) = w
    <2>1. Cardinality(0..(w - 1)) = IF 0 > w - 1 THEN 0 ELSE (w - 1) - 0 + 1
      BY FS_Interval
    <2> QED
      BY <2>1
  <1> QED
    BY <1>2, <1>3

LEMMA OtherNames ==
  ASSUME NEW vs \in Seq(Rows), NEW row \in Rows, Table1(vs), NEW a, Applied(vs, row, a), Table1(a),
         NEW m, m # row.name
  PROVE  TableOf(a, m) = TableOf(vs, m)
  <1>1. PICK n \in Nat : n = Len(vs)
    OBVIOUS
  <1>2. /\ DOMAIN vs = 1..n /\ a \in Seq(Rows)
        /\ \A k \in 1..n : k \in DOMAIN a /\ Same(a[k], vs[k]) /\ a[k].aliases = Aliased(vs, row, vs[k])
        /\ \A k \in DOMAIN a : k \in 1..n \/ a[k] = row
    BY <1>1 DEF Applied
  <1>3. Of(a, m) = Of(vs, m)
    BY <1>2 DEF Of, Same
  <1>4. \A k \in Of(vs, m) : a[k].version = vs[k].version /\ a[k].digest = vs[k].digest /\ a[k].aliases = vs[k].aliases
    BY <1>2 DEF Of, Same, Aliased
  <1>5. PICK t : t = TableOf(vs, m)
    OBVIOUS
  <1>6. PICK u : u = TableOf(a, m)
    OBVIOUS
  <1>7. /\ DOMAIN t = {vs[k].version : k \in Of(vs, m)} /\ t = [v \in DOMAIN t |-> t[v]]
        /\ \A k \in Of(vs, m) : t[vs[k].version] = [digest |-> vs[k].digest, aliases |-> vs[k].aliases]
    <2>1. Tabled(t, vs, m)
      BY <1>5, TableAt
    <2> QED
      BY <2>1, Zenon DEF Tabled
  <1>8. /\ DOMAIN u = {a[k].version : k \in Of(a, m)} /\ u = [v \in DOMAIN u |-> u[v]]
        /\ \A k \in Of(a, m) : u[a[k].version] = [digest |-> a[k].digest, aliases |-> a[k].aliases]
    <2>1. Tabled(u, a, m)
      BY <1>2, <1>6, TableAt
    <2> QED
      BY <2>1, Zenon DEF Tabled
  <1>9. DOMAIN u = DOMAIN t
    BY <1>3, <1>4, <1>7, <1>8
  <1>10. \A v \in DOMAIN t : u[v] = t[v]
    <2> SUFFICES ASSUME NEW v \in DOMAIN t PROVE u[v] = t[v]
      OBVIOUS
    <2>1. PICK k \in Of(vs, m) : v = vs[k].version
      BY <1>7
    <2>2. t[v] = [digest |-> vs[k].digest, aliases |-> vs[k].aliases]
      BY <1>7, <2>1
    <2>3. u[v] = [digest |-> a[k].digest, aliases |-> a[k].aliases]
      BY <1>3, <1>4, <1>8, <2>1
    <2> QED
      BY <1>4, <2>2, <2>3
  <1>11. u = t
    BY <1>7, <1>8, <1>9, <1>10
  <1> QED
    BY <1>5, <1>6, <1>11

\* The name of the record: its table is the one that the registry makes.
LEMMA ThisName ==
  ASSUME NEW vs \in Seq(Rows), NEW row \in Rows, Table1(vs), Extends(vs, row), NEW a, Applied(vs, row, a), Table1(a)
  PROVE  TableOf(a, row.name) = Registry!Logged(TableOf(vs, row.name), row.digest, row.aliases)
  <1>1. PICK n \in Nat : n = Len(vs)
    OBVIOUS
  <1>m. PICK m : m = row.name
    OBVIOUS
  <1>w. PICK w \in Nat : w = row.version
    BY Fields
  <1>2. /\ DOMAIN vs = 1..n /\ a \in Seq(Rows)
        /\ \A k \in 1..n : k \in DOMAIN a /\ Same(a[k], vs[k]) /\ a[k].aliases = Aliased(vs, row, vs[k])
        /\ row.reused => DOMAIN a = 1..n
        /\ ~row.reused => DOMAIN a = 1..(n + 1) /\ a[n + 1] = row /\ n + 1 \notin 1..n
    BY <1>1 DEF Applied
  <1>3. /\ row.reused => Of(a, m) = Of(vs, m)
        /\ ~row.reused => Of(a, m) = Of(vs, m) \cup {n + 1}
        /\ \A k \in Of(vs, m) : k \in 1..n
    <2>1. \A k \in 1..n : k \in Of(a, m) <=> k \in Of(vs, m)
      BY <1>2 DEF Of, Same
    <2>2. \A k \in Of(vs, m) : k \in 1..n
      BY <1>2 DEF Of
    <2>3. ASSUME row.reused PROVE Of(a, m) = Of(vs, m)
      <3>1. \A k \in Of(a, m) : k \in 1..n
        BY <1>2, <2>3 DEF Of
      <3> QED
        BY <2>1, <2>2, <3>1
    <2>4. ASSUME ~row.reused PROVE Of(a, m) = Of(vs, m) \cup {n + 1}
      <3>1. \A k \in Of(a, m) : k \in 1..n \/ k = n + 1
        BY <1>2, <2>4 DEF Of
      <3>2. n + 1 \in Of(a, m)
        BY <1>2, <1>m, <2>4 DEF Of
      <3> QED
        BY <2>1, <2>2, <3>1, <3>2
    <2> QED
      BY <2>2, <2>3, <2>4
  <1>4. \A k \in Of(vs, m) :
            /\ a[k].version = vs[k].version /\ a[k].digest = vs[k].digest
            /\ a[k].aliases = IF vs[k].version = w THEN vs[k].aliases \cup row.aliases
                              ELSE vs[k].aliases \ row.aliases
    BY <1>2, <1>3, <1>m, <1>w DEF Of, Same, Aliased
  <1>5. PICK t : t = TableOf(vs, m)
    OBVIOUS
  <1>6. PICK u : u = TableOf(a, m)
    OBVIOUS
  <1>7. /\ DOMAIN t = {vs[k].version : k \in Of(vs, m)}
        /\ \A k \in Of(vs, m) : t[vs[k].version] = [digest |-> vs[k].digest, aliases |-> vs[k].aliases]
    <2>1. Tabled(t, vs, m)
      BY <1>5, TableAt
    <2> QED
      BY <2>1, Zenon DEF Tabled
  <1>8. /\ DOMAIN u = {a[k].version : k \in Of(a, m)} /\ u = [v \in DOMAIN u |-> u[v]]
        /\ \A k \in Of(a, m) : u[a[k].version] = [digest |-> a[k].digest, aliases |-> a[k].aliases]
    <2>1. Tabled(u, a, m)
      BY <1>2, <1>6, TableAt
    <2> QED
      BY <2>1, Zenon DEF Tabled
  <1>9. \A k \in Of(vs, m) : /\ vs[k].version \in DOMAIN t
                             /\ t[vs[k].version].digest = vs[k].digest
                             /\ t[vs[k].version].aliases = vs[k].aliases
    <2> SUFFICES ASSUME NEW k \in Of(vs, m)
                 PROVE  /\ vs[k].version \in DOMAIN t
                        /\ t[vs[k].version].digest = vs[k].digest
                        /\ t[vs[k].version].aliases = vs[k].aliases
      OBVIOUS
    <2>1. t[vs[k].version] = [digest |-> vs[k].digest, aliases |-> vs[k].aliases]
      BY <1>7
    <2>2. vs[k].version \in DOMAIN t
      BY <1>7
    <2> QED
      BY <2>1, <2>2
  <1> DEFINE same == {v \in DOMAIN t : t[v].digest = row.digest}
             at   == IF same = {} THEN {Cardinality(DOMAIN t)} ELSE same
             had(v) == IF v \in DOMAIN t THEN t[v].aliases ELSE {}
             new(v) == [digest  |-> IF v \in at THEN row.digest ELSE t[v].digest,
                        aliases |-> IF v \in at THEN had(v) \cup row.aliases ELSE had(v) \ row.aliases]
  <1>10. at = {w} /\ (w \in DOMAIN t <=> row.reused)
    <2>1. CASE row.reused
      <3>1. PICK k \in Of(vs, m) : vs[k].version = w /\ vs[k].digest = row.digest
        BY <1>m, <1>w, <2>1 DEF Extends
      <3>2. w \in same
        BY <1>9, <3>1
      <3>3. ASSUME NEW v \in same PROVE v = w
        <4>1. PICK l \in Of(vs, m) : v = vs[l].version
          BY <1>7
        <4>2. vs[l].digest = vs[k].digest
          BY <1>9, <3>1, <4>1
        <4>3. l = k
          BY <4>2 DEF Table1, Of
        <4> QED
          BY <3>1, <4>1, <4>3
      <3>4. same = {w}
        BY <3>2, <3>3
      <3> QED
        BY <2>1, <3>2, <3>4
    <2>2. CASE ~row.reused
      <3>1. /\ \A k \in Of(vs, m) : vs[k].version < w /\ vs[k].digest # row.digest
            /\ \A v \in 0..(w - 1) : \E k \in Of(vs, m) : vs[k].version = v
        BY <1>m, <1>w, <2>2, Zenon DEF Extends
      <3>3. DOMAIN t = 0..(w - 1) /\ Cardinality(DOMAIN t) = w
        <4>1. /\ {vs[k].version : k \in Of(vs, m)} = 0..(w - 1)
              /\ Cardinality({vs[k].version : k \in Of(vs, m)}) = w
          BY <3>1, Numbered, Zenon
        <4> QED
          BY <1>7, <4>1, Zenon
      <3>4. same = {}
        <4>1. ASSUME NEW v \in same PROVE FALSE
          <5>1. PICK l \in Of(vs, m) : v = vs[l].version
            BY <1>7
          <5> QED
            BY <1>9, <3>1, <4>1, <5>1
        <4> QED
          BY <4>1
      <3>5. w \notin DOMAIN t
        BY <3>3
      <3> QED
        BY <2>2, <3>3, <3>4, <3>5
    <2> QED
      BY <2>1, <2>2
  <1> HIDE DEF at
  <1>11. DOMAIN u = DOMAIN t \cup at
    <2>1. CASE row.reused
      <3>1. DOMAIN u = DOMAIN t
        <4>1. \A k \in Of(vs, m) : a[k].version = vs[k].version
          BY <1>4
        <4>2. DOMAIN u = {a[k].version : k \in Of(vs, m)}
          BY <1>3, <1>8, <2>1
        <4>3. DOMAIN t = {vs[k].version : k \in Of(vs, m)}
          BY <1>7
        <4> QED
          BY <4>1, <4>2, <4>3
      <3> QED
        BY <1>10, <2>1, <3>1
    <2>2. CASE ~row.reused
      <3>1. DOMAIN u = {a[k].version : k \in Of(vs, m)} \cup {a[n + 1].version}
        BY <1>3, <1>8, <2>2
      <3>2. {a[k].version : k \in Of(vs, m)} = DOMAIN t
        <4>1. \A k \in Of(vs, m) : a[k].version = vs[k].version
          BY <1>4
        <4>2. DOMAIN t = {vs[k].version : k \in Of(vs, m)}
          BY <1>7
        <4> QED
          BY <4>1, <4>2
      <3> QED
        BY <1>2, <1>10, <1>w, <2>2, <3>1, <3>2
    <2> QED
      BY <2>1, <2>2
  <1>12. ASSUME NEW v \in DOMAIN u PROVE u[v] = new(v)
    <2>1. CASE v \in DOMAIN t
      <3>1. PICK k \in Of(vs, m) : v = vs[k].version
        BY <1>7, <2>1
      <3>2. k \in Of(a, m) /\ a[k].version = v
        BY <1>3, <1>4, <3>1
      <3>3. u[v] = [digest |-> a[k].digest, aliases |-> a[k].aliases]
        BY <1>8, <3>2
      <3>4. t[v].digest = vs[k].digest /\ t[v].aliases = vs[k].aliases /\ had(v) = vs[k].aliases
        BY <1>9, <2>1, <3>1
      <3>5. CASE v = w
        <4>1. row.reused
          BY <1>10, <2>1, <3>5
        <4>2. PICK l \in Of(vs, m) : vs[l].version = w /\ vs[l].digest = row.digest
          BY <1>m, <1>w, <4>1 DEF Extends
        <4>3. vs[l].version = vs[k].version /\ vs[l].name = vs[k].name /\ {k, l} \subseteq DOMAIN vs
          BY <3>1, <3>5, <4>2 DEF Of
        <4>4. l = k
          BY <4>3 DEF Table1
        <4>5. a[k].digest = row.digest /\ a[k].aliases = had(v) \cup row.aliases
          BY <1>4, <3>1, <3>4, <3>5, <4>2, <4>4
        <4> QED
          BY <1>10, <3>3, <3>5, <4>5
      <3>6. CASE v # w
        <4>1. v \notin at
          BY <1>10, <3>6
        <4>2. a[k].digest = t[v].digest /\ a[k].aliases = had(v) \ row.aliases
          BY <1>4, <3>1, <3>4, <3>6
        <4> QED
          BY <3>3, <4>1, <4>2
      <3> QED
        BY <3>5, <3>6
    <2>2. CASE v \notin DOMAIN t
      <3>1. v = w /\ ~row.reused
        BY <1>10, <1>11, <1>12, <2>2
      <3>2. n + 1 \in Of(a, m) /\ a[n + 1] = row
        BY <1>2, <1>3, <3>1
      <3>3. u[v] = [digest |-> row.digest, aliases |-> row.aliases]
        BY <1>8, <1>w, <3>1, <3>2
      <3>4. had(v) = {} /\ v \in at
        BY <1>10, <2>2, <3>1
      <3>5. had(v) \cup row.aliases = row.aliases
        BY <3>4
      <3> QED
        BY <3>3, <3>4, <3>5
    <2> QED
      BY <2>1, <2>2
  <1>13. u = [v \in DOMAIN t \cup at |-> new(v)]
    <2>1. u = [v \in DOMAIN t \cup at |-> u[v]]
      BY <1>8, <1>11
    <2> QED
      BY <1>11, <1>12, <2>1
  <1>14. Registry!Logged(t, row.digest, row.aliases) = [v \in DOMAIN t \cup at |-> new(v)]
    BY Zenon DEF Registry!Logged, at, Cardinality, Registry!Cardinality
  <1> QED
    BY <1>5, <1>6, <1>13, <1>14, <1>m

\* A line appended is one step of the registry.
LEMMA TablesGrow ==
  ASSUME NEW vs \in Seq(Rows), NEW row \in Rows, Table1(vs), Extends(vs, row), NEW a, Applied(vs, row, a)
  PROVE  Tables(a) = [Tables(vs) EXCEPT ![row.name] =
                        Registry!Logged(Tables(vs)[row.name], row.digest, row.aliases)]
  <1>1. Table1(a)
    BY TableGrows
  <1>2. row.name \in Names
    BY Fields
  <1>3. TableOf(a, row.name) = Registry!Logged(TableOf(vs, row.name), row.digest, row.aliases)
    BY <1>1, ThisName
  <1>4. \A m \in Names : m # row.name => TableOf(a, m) = TableOf(vs, m)
    BY <1>1, OtherNames
  <1>5. PICK T : T = Tables(vs)
    OBVIOUS
  <1>6. PICK x : x = Registry!Logged(TableOf(vs, row.name), row.digest, row.aliases)
    OBVIOUS
  <1>7. DOMAIN T = Names /\ \A m \in Names : T[m] = TableOf(vs, m)
    BY <1>5 DEF Tables
  <1>8. Tables(a) = [T EXCEPT ![row.name] = x]
    BY <1>3, <1>4, <1>5, <1>6, <1>7 DEF Tables
  <1>9. T[row.name] = TableOf(vs, row.name)
    BY <1>2, <1>7
  <1> QED
    BY <1>5, <1>6, <1>8, <1>9, Zenon

LEMMA InitRegistry == Init => Registry!Init
  <1> SUFFICES ASSUME Init PROVE Registry!Init
    OBVIOUS
  <1>1. versions = <<>> /\ index = <<>>
    BY DEF Init
  <1>2. \A n : Of(versions, n) = {}
    BY <1>1 DEF Of
  <1>3. ASSUME NEW n \in Names PROVE TableOf(versions, n) = [v \in {} |-> {}]
    <2>1. {versions[k].version : k \in Of(versions, n)} = {}
      BY <1>2
    <2> QED
      BY <2>1 DEF TableOf
  <1>4. Tables(versions) = [n \in Names |-> [v \in {} |-> {}]]
    BY <1>3 DEF Tables
  <1>5. \A i \in DOMAIN index : index[i].ok
    BY <1>1
  <1> QED
    BY <1>4, <1>5, TablesAre, Zenon DEF Registry!Init


\* The steps of the registry, in terms of the versions that were read.
LEMMA StepsOf ==
  ASSUME \/ index' = index /\ versions' = versions
         \/ ~Undamaged'
         \/ /\ Undamaged /\ Undamaged'
            /\ \E n \in Names, d \in Digests, as \in SUBSET Aliases :
                  Tables(versions') = [Tables(versions) EXCEPT ![n] = Registry!Logged(Tables(versions)[n], d, as)]
  PROVE  [Registry!Next]_<<[n \in Names |-> Table(n)], \A i \in DOMAIN index : index[i].ok>>
  <1>1. [n \in Names |-> Table(n)] = Tables(versions)
    BY TablesAre
  <1>2. [n \in Names |-> Table(n)]' = Tables(versions')
    <2>1. ASSUME NEW n \in Names PROVE Table(n)' = TableOf(versions', n)
      BY Zenon DEF Table, TableOf, Versions, Of
    <2> QED
      BY <2>1 DEF Tables
  <1>3. CASE index' = index /\ versions' = versions
    BY <1>1, <1>2, <1>3
  <1>4. CASE ~Undamaged'
    BY <1>4 DEF Registry!Next, Undamaged
  <1>5. ASSUME Undamaged, Undamaged', NEW n \in Names, NEW d \in Digests, NEW as \in SUBSET Aliases,
               Tables(versions') = [Tables(versions) EXCEPT ![n] = Registry!Logged(Tables(versions)[n], d, as)]
        PROVE  Registry!Next
    <2>1. PICK T : T = Tables(versions)
      OBVIOUS
    <2>2. PICK U : U = Tables(versions')
      OBVIOUS
    <2>3. U = [T EXCEPT ![n] = Registry!Logged(T[n], d, as)]
      BY <1>5, <2>1, <2>2, Zenon
    <2>4. Registry!Log(n, d, as)
      <3>1. [m \in Names |-> Table(m)] = T
        BY <1>1, <2>1, Zenon
      <3>2. [m \in Names |-> Table(m)]' = U
        BY <1>2, <2>2, Zenon
      <3> QED
        BY <2>3, <3>1, <3>2, Zenon DEF Registry!Log
    <2> QED
      BY <1>5, <2>4 DEF Registry!Next, Undamaged
  <1> QED
    BY <1>3, <1>4, <1>5

LEMMA NextRegistry ==
  ASSUME Base, TableOK, [Next]_vars
  PROVE  [Registry!Next]_<<[n \in Names |-> Table(n)], \A i \in DOMAIN index : index[i].ok>>
  <1>0. TypeOK
    BY DEF Base
  <1>1. ASSUME NEW p \in Procs, AppendIndex(p)
        PROVE  \/ ~Undamaged'
               \/ /\ Undamaged /\ Undamaged'
                  /\ \E n \in Names, d \in Digests, as \in SUBSET Aliases :
                        Tables(versions') = [Tables(versions) EXCEPT ![n] = Registry!Logged(Tables(versions)[n], d, as)]
    <2> SUFFICES ASSUME Undamaged'
                 PROVE  /\ Undamaged
                        /\ \E n \in Names, d \in Digests, as \in SUBSET Aliases :
                              Tables(versions') = [Tables(versions) EXCEPT ![n] = Registry!Logged(Tables(versions)[n], d, as)]
      OBVIOUS
    <2>1. /\ Undamaged /\ Table1(versions) /\ Extends(versions, job[p].row)
          /\ job[p].row \in Rows /\ Applied(versions, job[p].row, versions')
      BY <1>1, AppendTable
    <2>2. PICK row \in Rows : row = job[p].row
      BY <2>1
    <2>3. PICK vs \in Seq(Rows) : vs = versions
      BY <1>0 DEF TypeOK
    <2>4. PICK a : a = versions'
      OBVIOUS
    <2>5. Tables(a) = [Tables(vs) EXCEPT ![row.name] = Registry!Logged(Tables(vs)[row.name], row.digest, row.aliases)]
      <3>1. Table1(vs) /\ Extends(vs, row) /\ Applied(vs, row, a)
        BY <2>1, <2>2, <2>3, <2>4, Zenon
      <3> QED
        BY <3>1, TablesGrow
    <2>6. row.name \in Names /\ row.digest \in Digests /\ row.aliases \in SUBSET Aliases
      BY Fields
    <2> QED
      BY <2>1, <2>3, <2>4, <2>5, <2>6, Zenon
  <1>2. ASSUME NEW i \in DOMAIN index, Damage(i) PROVE ~Undamaged'
    <2>1. index[i] \in Rows /\ index' = [index EXCEPT ![i].ok = FALSE] /\ i \in DOMAIN index'
      BY <1>0, <1>2 DEF Damage, Replace, TypeOK
    <2>2. ~index'[i].ok
      BY <2>1 DEF Rows
    <2> QED
      BY <2>1, <2>2 DEF Undamaged
  <1>3. ASSUME NEW p \in Procs,
               \/ \E n \in Names : New(p, n) \/ \E s \in Selectors : Use(p, n, s)
               \/ \E f \in Sources : \/ AddFile(p, f) \/ StageChanged(p, f)
                                     \/ \E linked \in BOOLEAN : StageFile(p, f, linked)
               \/ \E mode \in Modes, as \in SUBSET Aliases : Enter(p, mode, as)
               \/ Rename(p) \/ Occupied(p) \/ Return(p)
               \/ AppendFails(p) \/ RemovalFails(p) \/ StageFails(p) \/ Crash(p)
        PROVE  index' = index /\ versions' = versions
    BY <1>3 DEF New, Use, AddFile, StageChanged, StageFile, Enter, Rename, Occupied, Return,
                AppendFails, RemovalFails, StageFails, Crash
  <1>4. ASSUME NEW f \in Sources, NEW c \in Contents, Rewrite(f, c) PROVE index' = index /\ versions' = versions
    BY <1>4 DEF Rewrite
  <1>5. CASE UNCHANGED vars
    BY <1>5, StepsOf DEF vars
  <1> QED
    BY <1>1, <1>2, <1>3, <1>4, <1>5, StepsOf DEF Next

(***************************************************************************)
(* The versions and aliases that a reader of the index finds are those of  *)
(* the registry: every log() is one step, a content has one version, the   *)
(* versions of a name are numbered from 0 and an alias is at one of them,  *)
(* as long as no line of the index is damaged (log, read_index in          *)
(* rust/artifacts.rs).                                                     *)
(***************************************************************************)
THEOREM Implements == Spec => ImplementsRegistry
  <1>1. Init => Registry!Init
    BY InitRegistry
  <1>2. Base /\ TableOK /\ [Next]_vars =>
            [Registry!Next]_<<[n \in Names |-> Table(n)], \A i \in DOMAIN index : index[i].ok>>
    BY NextRegistry
  <1> QED
    BY <1>1, <1>2, TableInvariant, PTL DEF Spec, ImplementsRegistry, Registry!Spec

=============================================================================

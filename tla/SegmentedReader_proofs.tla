------------------------ MODULE SegmentedReader_proofs ------------------------
(***************************************************************************)
(* What a reader of the segmented log answers, whatever the writer does    *)
(* meanwhile.  The bytes that were acknowledged when it pinned the parts   *)
(* stay where they are, so the lines of the snapshot are records of the    *)
(* history (Viewed), and an index is right for it when it is of the lines  *)
(* it shows.  A query with such an index reads the same rows as one that   *)
(* starts at the first byte, going forwards, backwards or with a cursor    *)
(* (SnapshotExact).  An index that a reader filled stays right as long as  *)
(* the snapshots it serves are of the same size, because records are only  *)
(* ever put behind those it is of (RInv).                                  *)
(***************************************************************************)
EXTENDS SegmentedLog_proofs

-----------------------------------------------------------------------------
(* What a reader sees of the parts it pinned                               *)

\* A pinned part ends at the limit: then a line that has no newline is read too.
Ends(pin, lim) == \E n \in DOMAIN pin : Before(pin, n) < lim /\ Before(pin, n) + pin[n] = lim

\* The lines a snapshot shows, and those of them in the parts before one.
Shown(pin, lim) == IF Ends(pin, lim) THEN (lim + (LineBytes - 1)) \div LineBytes
                   ELSE lim \div LineBytes
Reach(pin, lim, n) == IF Before(pin, n) < lim THEN Before(pin, n) \div LineBytes
                      ELSE Shown(pin, lim)

\* The bytes before the limit are those of records, where they were pinned.
Viewed(pin, lim, rows) ==
    /\ Measured(pin) /\ lim \in Nat /\ lim <= Total(pin)
    /\ rows \in Seq(1..Len(steps)) /\ lim <= LineBytes * Len(rows)
    /\ \A n \in DOMAIN pin : Before(pin, n) < lim =>
         /\ n \in DOMAIN files
         /\ Before(pin, n) % LineBytes = 0
         /\ MinOf(pin[n], lim - Before(pin, n)) <= Len(files[n])
         /\ \A i \in 1..MinOf(pin[n], lim - Before(pin, n)) :
              files[n][i] = ByteOf(rows, Before(pin, n) + i)
         /\ Before(pin, n) + pin[n] < lim => (Before(pin, n) + pin[n]) % LineBytes = 0

\* Some lines are those of the records after the a-th up to the b-th.
Lists(w, rows, lim, a, b) ==
    /\ a \in Nat /\ b \in Nat
    /\ w \in Seq(LineSet(Len(steps))) /\ Len(w) = b - a
    /\ \A i \in 1..(b - a) : w[i] = LineAt(rows, a + i, lim)

LEMMA CutPiece ==
  ASSUME NEW S, NEW s \in Seq(S), NEW f \in Nat, NEW e \in Nat, f < e, e <= Len(s)
  PROVE  /\ SubSeq(s, f + 1, e) \in Seq(S) /\ Len(SubSeq(s, f + 1, e)) = e - f
         /\ \A i \in 1..(e - f) : SubSeq(s, f + 1, e)[i] = s[f + i]
  OBVIOUS

LEMMA Bounds ==
  ASSUME NEW a \in Int, NEW b \in Int
  PROVE  /\ MinOf(a, b) = (IF a <= b THEN a ELSE b) /\ MaxOf(a, b) = (IF a >= b THEN a ELSE b)
         /\ a <= b => MinOf(a, b) = a /\ MaxOf(a, b) = b
         /\ a >= b => MinOf(a, b) = b /\ MaxOf(a, b) = a
         /\ a \in Nat /\ b \in Nat => MinOf(a, b) \in Nat /\ MaxOf(a, b) \in Nat
         /\ b = 0 => MaxOf(a, b) \in Nat
  BY DEF MinOf, MaxOf

LEMMA ListsJoin ==
  ASSUME NEW rows, NEW lim, NEW a, NEW b, NEW c, NEW u, NEW w,
         Lists(u, rows, lim, a, b), Lists(w, rows, lim, b, c)
  PROVE  Lists(u \o w, rows, lim, a, c)
  <1>1. PICK S : S = LineSet(Len(steps))
    OBVIOUS
  <1>2. /\ a \in Nat /\ b \in Nat /\ c \in Nat
        /\ u \in Seq(S) /\ Len(u) = b - a /\ w \in Seq(S) /\ Len(w) = c - b
    BY <1>1 DEF Lists
  <1>3. PICK v : v = u \o w
    OBVIOUS
  <1>4. /\ v \in Seq(S) /\ Len(v) = Len(u) + Len(w)
        /\ \A i \in 1..(Len(u) + Len(w)) : v[i] = IF i <= Len(u) THEN u[i] ELSE w[i - Len(u)]
    BY <1>2, <1>3, ConcatProperties
  <1>5. Len(v) = c - a
    BY <1>2, <1>4
  <1>6. ASSUME NEW i \in 1..(c - a) PROVE v[i] = LineAt(rows, a + i, lim)
    <2>1. CASE i <= b - a
      <3>1. i \in 1..(b - a) /\ v[i] = u[i]
        BY <1>2, <1>4, <2>1
      <3> QED
        BY <3>1 DEF Lists
    <2>2. CASE ~(i <= b - a)
      <3>1. PICK k \in 1..(c - b) : k = i - (b - a) /\ b + k = a + i
        BY <1>2, <2>2
      <3>2. v[i] = w[k]
        BY <1>2, <1>4, <2>2, <3>1
      <3>3. w[k] = LineAt(rows, b + k, lim)
        BY DEF Lists
      <3> QED
        BY <3>1, <3>2, <3>3
    <2> QED
      BY <2>1, <2>2
  <1> QED
    BY <1>1, <1>2, <1>3, <1>4, <1>5, <1>6 DEF Lists

LEMMA ListsNone ==
  ASSUME NEW rows, NEW lim, NEW a \in Nat
  PROVE  Lists(<<>>, rows, lim, a, a)
  <1>1. <<>> \in Seq(LineSet(Len(steps))) /\ Len(<<>>) = 0 /\ a - a = 0
    BY EmptySeq
  <1> QED
    BY <1>1 DEF Lists

\* The one part that crosses the limit decides whether a line may end there.
LEMMA EndsAt ==
  ASSUME NEW pin, Measured(pin), NEW lim \in Nat, NEW n \in DOMAIN pin,
         Before(pin, n) < lim, lim <= Before(pin, n) + pin[n]
  PROVE  Ends(pin, lim) <=> Before(pin, n) + pin[n] = lim
  <1>1. \A m \in DOMAIN pin : /\ m \in Nat /\ pin[m] \in Nat /\ Before(pin, m) \in Nat
                              /\ Before(pin, m + 1) = Before(pin, m) + pin[m]
    BY BeforeIs DEF Measured, LengthIn
  <1>2. ASSUME NEW m \in DOMAIN pin, Before(pin, m) < lim, Before(pin, m) + pin[m] = lim
        PROVE  Before(pin, n) + pin[n] = lim
    <2>1. CASE m = n
      BY <1>2, <2>1
    <2>2. CASE m < n
      <3>1. Before(pin, m + 1) <= Before(pin, n)
        BY <1>1, <2>2, BeforeGap
      <3> QED
        BY <1>1, <1>2, <3>1
    <2>3. CASE n < m
      <3>1. Before(pin, n + 1) <= Before(pin, m)
        BY <1>1, <2>3, BeforeGap
      <3> QED
        BY <1>1, <1>2, <3>1
    <2> QED
      BY <1>1, <2>1, <2>2, <2>3
  <1> QED
    BY <1>2 DEF Ends

\* A line as LinesIn finds it, and where it is in the whole log.
CutAs(line, rows, g, here, lim, base, p) ==
    /\ g \in Nat \ {0} /\ here \in Nat /\ lim \in Nat /\ p \in Nat /\ base \in Nat
    /\ here = lim \/ (3 * g <= here /\ here <= lim)
    /\ base + p = 3 * (g - 1)
    /\ line = Moved(LineAt(rows, g, here), p)
LiesAs(line, rows, g, here, lim, base, p) ==
    /\ Moved(line, base + line.at) = LineAt(rows, g, lim)
    /\ line.whole = (3 * g <= here) /\ line.at = p
    /\ line.step = LineAt(rows, g, lim).step

LEMMA LineMoved ==
  ASSUME NEW line, NEW rows, NEW g, NEW here, NEW lim, NEW base, NEW p,
         CutAs(line, rows, g, here, lim, base, p)
  PROVE  LiesAs(line, rows, g, here, lim, base, p)
  <1>0. /\ g \in Nat \ {0} /\ here \in Nat /\ lim \in Nat /\ p \in Nat /\ base \in Nat
        /\ here = lim \/ (3 * g <= here /\ here <= lim)
        /\ base + p = 3 * (g - 1)
        /\ line = Moved(LineAt(rows, g, here), p)
    BY DEF CutAs
  <1>1. PICK q, r, s, b : q = LineBytes * (g - 1) /\ r = rows[g]
            /\ s = (IF LineBytes * g - 1 <= here THEN steps[rows[g]] ELSE NoStep)
            /\ b = (LineBytes * g <= here)
    OBVIOUS
  <1>2. LineAt(rows, g, here) = Line(q, r, s, b)
    BY <1>1, Zenon DEF LineAt, Line
  <1>3. line = Line(p, r, s, b)
    <2>1. Moved(Line(q, r, s, b), p) = Line(p, r, s, b)
      BY MovedIs
    <2> QED
      BY <1>0, <1>2, <2>1, Zenon
  <1>4. line.at = p /\ line.whole = b /\ line.step = s
    BY <1>3 DEF Line
  <1>5. base + p = q
    BY <1>0, <1>1 DEF LineBytes
  <1>6. Moved(line, base + line.at) = Line(q, r, s, b)
    <2>1. Moved(Line(p, r, s, b), q) = Line(q, r, s, b)
      BY MovedIs
    <2> QED
      BY <1>3, <1>4, <1>5, <2>1, Zenon
  <1>7. LineAt(rows, g, lim) = LineAt(rows, g, here)
    <2>1. CASE here = lim
      BY <2>1
    <2>2. CASE here # lim
      <3>1. 3 * g <= here /\ 3 * g <= lim /\ 3 * g - 1 <= here /\ 3 * g - 1 <= lim
        BY <1>0, <2>2
      <3>2. (LineBytes * g <= here) = TRUE /\ (LineBytes * g <= lim) = TRUE
            /\ LineBytes * g - 1 <= here /\ LineBytes * g - 1 <= lim
        BY <3>1 DEF LineBytes
      <3> QED
        BY <3>2, Zenon DEF LineAt
    <2> QED
      BY <2>1, <2>2
  <1>8. LineAt(rows, g, here).step = s
    BY <1>2 DEF Line
  <1> QED
    BY <1>1, <1>2, <1>4, <1>6, <1>7, <1>8, Zenon DEF LineBytes, LiesAs

\* The lines of a piece of the log.
PieceOf(bytes, rows, a, num, here) ==
    /\ steps \in Seq(Steps) /\ rows \in Seq(1..Len(steps)) /\ a \in Nat /\ num \in Nat
    /\ bytes \in Seq(ByteSet(Len(steps))) /\ a + num <= Len(rows)
    /\ \A i \in 1..Len(bytes) : bytes[i] = ByteOf(rows, LineBytes * a + i)
    /\ Len(bytes) <= LineBytes * num /\ LineBytes * num < Len(bytes) + LineBytes
    /\ here = LineBytes * a + Len(bytes)

PiecedAs(lines, rows, a, num, here) ==
    lines = [k \in 1..num |-> Moved(LineAt(rows, a + k, here), LineBytes * (k - 1))]

LEMMA PieceLines ==
  ASSUME NEW bytes, NEW rows, NEW a, NEW num, NEW here, PieceOf(bytes, rows, a, num, here)
  PROVE  PiecedAs(LinesIn(bytes), rows, a, num, here)
  <1>1. /\ steps \in Seq(Steps) /\ rows \in Seq(1..Len(steps)) /\ a \in Nat /\ num \in Nat
        /\ bytes \in Seq(ByteSet(Len(steps))) /\ a + num <= Len(rows)
        /\ \A i \in 1..Len(bytes) : bytes[i] = ByteOf(rows, LineBytes * a + i)
        /\ Len(bytes) <= LineBytes * num /\ LineBytes * num < Len(bytes) + LineBytes
        /\ here = LineBytes * a + Len(bytes)
    BY DEF PieceOf
  <1>2. LinesIn(bytes) = [k \in 1..num |-> Moved(LineAt(rows, a + k, LineBytes * a + Len(bytes)),
                                                LineBytes * (k - 1))]
    BY <1>1, LinesAre
  <1> QED
    BY <1>1, <1>2, Zenon DEF PiecedAs

\* A viewed part, and its bytes before the limit.
Window(pin, lim, n, base, length, end) ==
    /\ n \in DOMAIN pin /\ base = Before(pin, n) /\ length = pin[n]
    /\ base < lim /\ end = MinOf(length, lim - base)

\* The lines of it from a place in it on: all of them but one that the limit
\* cuts.
CutIs(lines, pin, lim, rows, n, base, length, end, from, a, num, cnt) ==
    /\ lines = LinesIn(SubSeq(files[n], from + 1, MinOf(end, Len(files[n]))))
    /\ lines \in Seq(LineSet(Len(steps))) /\ Len(lines) = num
    /\ cnt \in Nat /\ num \in Nat /\ cnt <= num /\ num <= cnt + 1 /\ num # 0
    /\ a + cnt = Reach(pin, lim, n + 1) /\ 3 * (a + num) < base + end + 3
    /\ \A i \in 1..num : /\ Moved(lines[i], base + from + lines[i].at) = LineAt(rows, a + i, lim)
                         /\ lines[i].whole \/ end = length <=> i <= cnt
                         /\ lines[i].at = LineBytes * (i - 1)
                         /\ lines[i].step = LineAt(rows, a + i, lim).step
    /\ end = length => cnt = num
    /\ cnt = num <=> end = length \/ (base + end) % LineBytes = 0

LEMMA PartCut ==
  ASSUME steps \in Seq(Steps), Parted(files, Len(steps)), NEW pin, NEW lim \in Nat,
         NEW rows \in Seq(1..Len(steps)), Viewed(pin, lim, rows), NEW n \in Nat,
         NEW base \in Nat, NEW length \in Nat, NEW end \in Nat, NEW from \in Nat, NEW a \in Nat,
         Window(pin, lim, n, base, length, end), from < end, base + from = 3 * a
  PROVE  \E lines, num, cnt : CutIs(lines, pin, lim, rows, n, base, length, end, from, a, num, cnt)
  <1>1. Measured(pin) /\ n \in DOMAIN pin /\ base = Before(pin, n) /\ length = pin[n]
    BY DEF Viewed, Window
  <1>5. base < lim
    BY DEF Window
  <1>21. PICK most \in Nat : most = Len(rows) /\ lim <= 3 * most
    BY DEF Viewed, LineBytes
  <1>3. /\ end <= length /\ base + end <= lim
        /\ length <= lim - base => end = length
        /\ length > lim - base => end = lim - base
    BY SMTT(30) DEF MinOf, Window
  <1>2. end = MinOf(length, lim - base)
    BY DEF Window
  <1>4. /\ n \in DOMAIN files /\ end <= Len(files[n])
        /\ \A i \in 1..end : files[n][i] = ByteOf(rows, base + i)
    BY <1>1, <1>2, <1>5 DEF Viewed, LineBytes
  <1>22. base % 3 = 0 /\ (base + length < lim => (base + length) % 3 = 0)
    BY <1>1, <1>5 DEF Viewed, LineBytes
  <1>6. PICK bytes : bytes = SubSeq(files[n], from + 1, end)
    OBVIOUS
  <1>7. /\ bytes \in Seq(ByteSet(Len(steps))) /\ Len(bytes) = end - from
        /\ \A i \in 1..(end - from) : bytes[i] = files[n][from + i]
    <2>1. files[n] \in Seq(ByteSet(Len(steps)))
      BY <1>4 DEF Parted
    <2>2. PICK s \in Seq(ByteSet(Len(steps))) : s = files[n]
      BY <2>1
    <2>3. from < end /\ end <= Len(s)
      BY <1>4, <2>2, Zenon
    <2> QED
      BY <1>6, <2>2, <2>3, CutPiece
  <1>8. \A i \in 1..Len(bytes) : bytes[i] = ByteOf(rows, LineBytes * a + i)
    <2>1. ASSUME NEW i \in 1..Len(bytes) PROVE bytes[i] = ByteOf(rows, LineBytes * a + i)
      <3>1. PICK k \in 1..end : k = from + i /\ base + k = 3 * a + i
        BY <1>3, <1>7
      <3>2. bytes[i] = files[n][k]
        BY <1>7, <3>1
      <3> QED
        BY <1>4, <3>1, <3>2 DEF LineBytes
    <2> QED
      BY <2>1
  <1>9. PICK num \in Nat : end - from <= 3 * num /\ 3 * num < (end - from) + 3
    <2>1. end - from \in Nat
      BY <1>3
    <2> QED
      BY <2>1, LineCount DEF LineBytes
  <1>10. num # 0 /\ a + num <= Len(rows)
    <2>1. num # 0
      BY <1>9
    <2>2. a + num <= most
      BY <1>3, <1>9, <1>21
    <2> QED
      BY <1>21, <2>1, <2>2, Zenon
  <1>11. PICK here \in Nat : here = base + end
    OBVIOUS
  <1>12. /\ 3 * a < here /\ here <= lim /\ here <= 3 * (a + num) /\ 3 * (a + num) < here + 3
         /\ 3 * a + (end - from) = here
    BY <1>3, <1>9, <1>11
  <1>13. here = lim \/ here % 3 = 0
    <2>1. CASE base + length < lim
      <3>1. here = base + length
        BY <1>3, <1>11, <2>1
      <3> QED
        BY <1>22, <2>1, <3>1
    <2>2. CASE ~(base + length < lim)
      <3>1. here = lim
        BY <1>3, <1>5, <1>11, <2>2
      <3> QED
        BY <3>1
    <2> QED
      BY <2>1, <2>2
  <1>14. PICK lines : lines = LinesIn(bytes)
    OBVIOUS
  <1>15. lines = [k \in 1..num |-> Moved(LineAt(rows, a + k, here), LineBytes * (k - 1))]
    <2>1. Len(bytes) <= LineBytes * num /\ LineBytes * num < Len(bytes) + LineBytes
      BY <1>7, <1>9 DEF LineBytes
    <2>2. here = LineBytes * a + Len(bytes)
      BY <1>7, <1>12 DEF LineBytes
    <2>3. PieceOf(bytes, rows, a, num, here)
      BY <1>7, <1>8, <1>10, <2>1, <2>2, Zenon DEF PieceOf
    <2>4. PiecedAs(LinesIn(bytes), rows, a, num, here)
      BY <2>3, PieceLines
    <2> QED
      BY <1>14, <2>4, Zenon DEF PiecedAs
  <1>16. lines \in Seq(LineSet(Len(steps))) /\ Len(lines) = num
    <2>1. lines \in Seq(LineSet(Len(steps)))
      BY <1>7, <1>14, LinesType
    <2>2. DOMAIN lines = 1..num
      BY <1>15
    <2> QED
      BY <2>1, <2>2, LenProperties
  <1>17. ASSUME NEW i \in 1..num
         PROVE  /\ Moved(lines[i], base + from + lines[i].at) = LineAt(rows, a + i, lim)
                /\ lines[i].whole = (3 * (a + i) <= here)
                /\ lines[i].at = 3 * (i - 1)
                /\ lines[i].step = LineAt(rows, a + i, lim).step
    <2>1. PICK g \in Nat \ {0} : g = a + i
      BY <1>9
    <2>2. here = lim \/ (3 * g <= here /\ here <= lim)
      BY <1>12, <1>13, <2>1, SMTT(30)
    <2>3. PICK p, at \in Nat : p = 3 * (i - 1) /\ at = base + from /\ at + p = 3 * (g - 1)
      BY <1>1, <2>1
    <2>4. lines[i] = Moved(LineAt(rows, g, here), p)
      BY <1>15, <2>1, <2>3 DEF LineBytes
    <2>5. CutAs(lines[i], rows, g, here, lim, at, p)
      BY <2>2, <2>3, <2>4, Zenon DEF CutAs
    <2>6. LiesAs(lines[i], rows, g, here, lim, at, p)
      BY <2>5, LineMoved
    <2> QED
      BY <2>1, <2>3, <2>6, Zenon DEF LiesAs
  <1>18. PICK cnt \in Nat : /\ cnt <= num /\ num <= cnt + 1
                            /\ a + cnt = Reach(pin, lim, n + 1)
                            /\ \A i \in 1..num : 3 * (a + i) <= here \/ end = length <=> i <= cnt
                            /\ end = length => cnt = num
                            /\ cnt = num <=> end = length \/ here % 3 = 0
    <2>1. Before(pin, n + 1) = base + length
      BY <1>1, BeforeIs DEF LengthIn
    <2>2. CASE base + length < lim
      <3>1. end = length /\ here = base + length /\ here % 3 = 0 /\ here = 3 * (a + num)
        <4>1. end = length /\ here = base + length
          BY <1>3, <1>11, <2>2
        <4>2. here % 3 = 0
          BY <1>22, <2>2, <4>1
        <4> QED
          BY <1>12, <4>1, <4>2
      <3>2. Reach(pin, lim, n + 1) = here \div 3
        BY <2>1, <2>2, <3>1 DEF Reach, LineBytes
      <3>3. here \div 3 = a + num
        BY <1>12, <3>1
      <3> QED
        BY <1>9, <3>1, <3>2, <3>3
    <2>3. CASE base + length >= lim
      <3>1. Reach(pin, lim, n + 1) = Shown(pin, lim) /\ here = lim
        <4>1. ~(base + length < lim)
          BY <2>3
        <4>2. here = lim
          BY <1>3, <1>5, <1>11, <2>3
        <4> QED
          BY <2>1, <4>1, <4>2, Zenon DEF Reach
      <3>2. Ends(pin, lim) <=> base + length = lim
        BY <1>1, <1>5, <2>3, EndsAt
      <3>3. CASE base + length = lim
        <4>1. end = length /\ Shown(pin, lim) = (lim + 2) \div 3
          BY <1>3, <3>2, <3>3 DEF Shown, LineBytes
        <4>2. (lim + 2) \div 3 = a + num
          BY <1>12, <3>1
        <4> QED
          BY <1>9, <3>1, <4>1, <4>2
      <3>4. CASE base + length # lim
        <4>1. end # length /\ Shown(pin, lim) = lim \div 3
          <5>1. end # length
            BY <1>3, <1>5, <2>3, <3>4
          <5> QED
            BY <3>2, <3>4, <5>1, Zenon DEF Shown, LineBytes
        <4>2. PICK x \in Nat : x = lim \div 3 /\ 3 * x <= lim /\ lim < 3 * x + 3
          BY <1>1
        <4>3. PICK k \in Nat : k = x - a
          BY <1>12, <3>1, <4>2
        <4>4. k <= num /\ num <= k + 1 /\ a + k = Reach(pin, lim, n + 1)
          BY <1>12, <3>1, <4>1, <4>2, <4>3
        <4>5. \A i \in 1..num : 3 * (a + i) <= here <=> i <= k
          BY <3>1, <4>2, <4>3
        <4>6. k = num <=> here % 3 = 0
          BY <1>12, <3>1, <4>2, <4>3
        <4> QED
          BY <4>1, <4>4, <4>5, <4>6
      <3> QED
        BY <3>3, <3>4
    <2> QED
      BY <1>1, <2>2, <2>3
  <1>19. MinOf(end, Len(files[n])) = end
    BY <1>4 DEF MinOf
  <1>20. CutIs(lines, pin, lim, rows, n, base, length, end, from, a, num, cnt)
    <2>1. \A i \in 1..num : (lines[i].whole \/ end = length) <=> i <= cnt
      BY <1>17, <1>18, Zenon
    <2>2. lines = LinesIn(SubSeq(files[n], from + 1, MinOf(end, Len(files[n]))))
      BY <1>6, <1>14, <1>19, Zenon
    <2>4. \A i \in 1..num : /\ Moved(lines[i], base + from + lines[i].at) = LineAt(rows, a + i, lim)
                            /\ lines[i].at = LineBytes * (i - 1)
                            /\ lines[i].step = LineAt(rows, a + i, lim).step
      BY <1>17, Zenon DEF LineBytes
    <2>5. cnt = num <=> end = length \/ (base + end) % LineBytes = 0
      BY <1>11, <1>18, Zenon DEF LineBytes
    <2>6. num # 0 /\ 3 * (a + num) < base + end + 3
      BY <1>10, <1>11, <1>12
    <2> QED
      BY <1>16, <1>18, <2>1, <2>2, <2>4, <2>5, <2>6, Zenon DEF CutIs
  <1> QED
    BY <1>20

\* The lines before a part and up to the end of it.
LEMMA ReachSmall ==
  ASSUME NEW pin, Measured(pin), NEW lim \in Nat, NEW n \in Nat
  PROVE  /\ Before(pin, n) \in Nat /\ Shown(pin, lim) \in Nat /\ Reach(pin, lim, n) \in Nat
         /\ n \notin DOMAIN pin \/ ~(Before(pin, n) < lim) =>
              Reach(pin, lim, n + 1) = Reach(pin, lim, n)
  <1>1. /\ Before(pin, n) \in Nat /\ Before(pin, n + 1) \in Nat
        /\ Before(pin, n) <= Before(pin, n + 1)
        /\ n \notin DOMAIN pin => Before(pin, n + 1) = Before(pin, n)
    <2>1. LengthIn(pin, n) \in Nat /\ (n \notin DOMAIN pin => LengthIn(pin, n) = 0)
      BY LengthInNat DEF LengthIn
    <2>2. Before(pin, n) \in Nat /\ Before(pin, n + 1) = Before(pin, n) + LengthIn(pin, n)
      BY BeforeIs
    <2> QED
      BY <2>1, <2>2
  <1>2. PICK shown, low, high : /\ shown = Shown(pin, lim) /\ low = lim \div LineBytes
                             /\ high = (lim + (LineBytes - 1)) \div LineBytes
    OBVIOUS
  <1>3. low \in Nat /\ high \in Nat
    BY <1>2 DEF LineBytes
  <1>4. shown \in Nat
    BY <1>2, <1>3, Zenon DEF Shown
  <1>5. PICK b : b = Before(pin, n) \div 3
    OBVIOUS
  <1>6. b \in Nat
    BY <1>1, <1>5
  <1>7. Reach(pin, lim, n) \in Nat
    BY <1>2, <1>4, <1>5, <1>6, Zenon DEF Reach, LineBytes
  <1>8. ASSUME ~(Before(pin, n) < lim) PROVE Reach(pin, lim, n + 1) = Reach(pin, lim, n)
    <2>1. ~(Before(pin, n + 1) < lim)
      BY <1>1, <1>8
    <2> QED
      BY <1>8, <2>1, Zenon DEF Reach
  <1>9. ASSUME n \notin DOMAIN pin PROVE Reach(pin, lim, n + 1) = Reach(pin, lim, n)
    BY <1>1, <1>9, Zenon DEF Reach
  <1> QED
    BY <1>1, <1>2, <1>4, <1>7, <1>8, <1>9, Zenon

LEMMA ReachWindow ==
  ASSUME steps \in Seq(Steps), Parted(files, Len(steps)), NEW pin, NEW lim \in Nat,
         NEW rows \in Seq(1..Len(steps)), Viewed(pin, lim, rows), NEW n \in Nat,
         NEW base \in Nat, NEW length \in Nat, NEW end \in Nat,
         Window(pin, lim, n, base, length, end)
  PROVE  /\ base = 3 * Reach(pin, lim, n)
         /\ Reach(pin, lim, n) <= Reach(pin, lim, n + 1)
         /\ 3 * Reach(pin, lim, n + 1) < base + end + 3
         /\ end = 0 => Reach(pin, lim, n + 1) = Reach(pin, lim, n)
  <1>1. Measured(pin) /\ n \in DOMAIN pin /\ base = Before(pin, n) /\ length = pin[n]
    BY DEF Viewed, Window
  <1>2. base < lim
    BY DEF Window
  <1>3. base % 3 = 0
    BY <1>1, <1>2 DEF Viewed, LineBytes
  <1>4. PICK a \in Nat : base = 3 * a
    BY <1>3
  <1>5. PICK x, y \in Nat : x = Reach(pin, lim, n) /\ y = Reach(pin, lim, n + 1)
    <2>1. n + 1 \in Nat
      OBVIOUS
    <2> QED
      BY <1>1, <2>1, ReachSmall
  <1>6. x = a
    <2>1. base \div 3 = a
      BY <1>4
    <2> QED
      BY <1>1, <1>2, <1>5, <2>1, Zenon DEF Reach, LineBytes
  <1>7. CASE end = 0
    <2>1. length = 0
      <3>1. end = MinOf(length, lim - base)
        BY DEF Window
      <3> QED
        BY <1>2, <1>7, <3>1 DEF MinOf
    <2>2. Before(pin, n + 1) = base
      <3>1. LengthIn(pin, n) = 0
        BY <1>1, <2>1 DEF LengthIn
      <3>2. Before(pin, n + 1) = Before(pin, n) + LengthIn(pin, n) /\ Before(pin, n) \in Nat
        BY <1>1, BeforeIs
      <3> QED
        BY <1>1, <3>1, <3>2
    <2>3. y = x
      BY <1>1, <1>5, <2>2, Zenon DEF Reach
    <2>4. x <= y /\ 3 * y < base + end + 3
      BY <1>4, <1>6, <1>7, <2>3
    <2> QED
      BY <1>4, <1>5, <1>6, <2>3, <2>4, Zenon
  <1>8. CASE end # 0
    <2>1. PICK from \in Nat : from = 0
      OBVIOUS
    <2>2. from < end /\ base + from = 3 * a
      BY <1>4, <1>8, <2>1
    <2>3. PICK lines, num, cnt : CutIs(lines, pin, lim, rows, n, base, length, end, from, a, num, cnt)
      BY <2>2, PartCut
    <2>4. /\ cnt \in Nat /\ num \in Nat /\ cnt <= num /\ a + cnt = y /\ 3 * (a + num) < base + end + 3
      BY <1>5, <2>3, Zenon DEF CutIs
    <2>5. x <= y /\ 3 * y < base + end + 3
      BY <1>6, <2>4
    <2> QED
      BY <1>4, <1>5, <1>6, <1>8, <2>5, Zenon
  <1> QED
    BY <1>7, <1>8

\* VisitPart, CursorPart and ReversePart, once their names are taken out.
Cut(n, from, end) == LinesIn(SubSeq(files[n], from + 1, MinOf(end, Len(files[n]))))
Whole(lines, end, length) == Pick(lines, {i \in 1..Len(lines) : Allowed(lines[i], end, length, TRUE)})
Seen(found, base, from) == [i \in 1..Len(found) |-> Moved(found[i], base + from + found[i].at)]

Entered(pin, lim, n, base, length, end, start, from) ==
    Window(pin, lim, n, base, length, end) /\ from = MaxOf(start - base, 0)
Visited(w, lim, n, base, length, end, from) ==
    w = IF base >= lim \/ from >= end THEN <<>>
        ELSE Seen(Whole(Cut(n, from, end), end, length), base, from)

LEMMA VisitPartIs ==
  ASSUME NEW pin, NEW lim, NEW n, NEW base, NEW length, NEW end, NEW start, NEW from,
         Entered(pin, lim, n, base, length, end, start, from)
  PROVE  Visited(VisitPart(files, n, pin, start, lim, TRUE), lim, n, base, length, end, from)
  <1>0. Window(pin, lim, n, base, length, end) /\ from = MaxOf(start - base, 0)
    BY DEF Entered
  <1>1. /\ n \in DOMAIN pin /\ base = Before(pin, n) /\ length = pin[n]
        /\ end = MinOf(length, lim - base)
    BY <1>0 DEF Window
  <1> DEFINE W(c, e, f) ==
        IF n \notin DOMAIN pin \/ c >= lim \/ f >= e THEN <<>>
        ELSE [i \in 1..Len(Whole(Cut(n, f, e), e, pin[n])) |->
                [Whole(Cut(n, f, e), e, pin[n])[i] EXCEPT !.at = c + f + @]]
      E(c) == MinOf(pin[n], lim - c)
      F(c) == MaxOf(start - c, 0)
  <1>2. VisitPart(files, n, pin, start, lim, TRUE)
          = W(Before(pin, n), E(Before(pin, n)), F(Before(pin, n)))
    BY Zenon DEF VisitPart, Whole, Cut
  <1>3. E(base) = end /\ F(base) = from
    BY <1>0, <1>1, Zenon
  <1> HIDE DEF W, E, F
  <1>4. VisitPart(files, n, pin, start, lim, TRUE) = W(base, end, from)
    BY <1>1, <1>2, <1>3, Zenon
  <1> QED
    BY <1>1, <1>4, Zenon DEF W, Seen, Moved, Visited

LEMMA WholeIs ==
  ASSUME NEW lines, NEW pin, NEW lim, NEW rows, NEW n, NEW base, NEW length, NEW end, NEW from,
         NEW a, NEW num, NEW cnt, CutIs(lines, pin, lim, rows, n, base, length, end, from, a, num, cnt)
  PROVE  /\ Whole(lines, end, length) = SubSeq(lines, 1, cnt)
         /\ SubSeq(lines, 1, cnt) \in Seq(LineSet(Len(steps))) /\ Len(SubSeq(lines, 1, cnt)) = cnt
         /\ \A i \in 1..cnt : SubSeq(lines, 1, cnt)[i] = lines[i] /\ i \in 1..num
  <1>1. /\ lines \in Seq(LineSet(Len(steps))) /\ Len(lines) = num
        /\ cnt \in Nat /\ num \in Nat /\ cnt <= num
        /\ \A i \in 1..num : lines[i].whole \/ end = length <=> i <= cnt
    BY Zenon DEF CutIs
  <1>2. PICK P : P = {i \in 1..Len(lines) : Allowed(lines[i], end, length, TRUE)}
    OBVIOUS
  <1>3. P = 1..cnt
    <2>1. \A i \in 1..num : Allowed(lines[i], end, length, TRUE) <=> i <= cnt
      BY <1>1, Zenon DEF Allowed
    <2>2. P = {i \in 1..num : i <= cnt}
      BY <1>1, <1>2, <2>1
    <2> QED
      BY <1>1, <2>2
  <1>4. cnt \in 0..Len(lines)
    BY <1>1
  <1>5. Whole(lines, end, length) = SubSeq(lines, 1, cnt)
    <2>1. Pick(lines, 1..cnt) = SubSeq(lines, 1, cnt)
      BY <1>1, <1>4, PickFirst
    <2> QED
      BY <1>2, <1>3, <2>1, Zenon DEF Whole
  <1>6. /\ SubSeq(lines, 1, cnt) \in Seq(LineSet(Len(steps))) /\ Len(SubSeq(lines, 1, cnt)) = cnt
        /\ \A i \in 1..cnt : SubSeq(lines, 1, cnt)[i] = lines[i]
    BY <1>1, <1>4, CutTo
  <1>7. \A i \in 1..cnt : i \in 1..num
    BY <1>1
  <1> QED
    BY <1>5, <1>6, <1>7, Zenon

\* A part lists the lines from one place on, as far as they are before its end.
LEMMA VisitPartLists ==
  ASSUME steps \in Seq(Steps), Parted(files, Len(steps)), NEW pin, NEW lim \in Nat,
         NEW rows \in Seq(1..Len(steps)), Viewed(pin, lim, rows), NEW n \in Nat, NEW j \in Nat
  PROVE  Lists(VisitPart(files, n, pin, 3 * j, lim, TRUE), rows, lim,
               MaxOf(j, Reach(pin, lim, n)), MaxOf(j, Reach(pin, lim, n + 1)))
  <1>1. Measured(pin)
    BY DEF Viewed
  <1>2. PICK x, y, base \in Nat : /\ x = Reach(pin, lim, n) /\ y = Reach(pin, lim, n + 1)
                                  /\ base = Before(pin, n)
    <2>1. n + 1 \in Nat
      OBVIOUS
    <2> QED
      BY <1>1, <2>1, ReachSmall
  <1>3. PICK w : w = VisitPart(files, n, pin, 3 * j, lim, TRUE)
    OBVIOUS
  <1>4. PICK a, b \in Nat : /\ a = MaxOf(j, x) /\ b = MaxOf(j, y)
                            /\ a = (IF j >= x THEN j ELSE x) /\ b = (IF j >= y THEN j ELSE y)
    BY DEF MaxOf
  <1>5. SUFFICES Lists(w, rows, lim, a, b)
    BY <1>2, <1>3, <1>4, Zenon
  <1>6. ASSUME w = <<>>, a = b PROVE Lists(w, rows, lim, a, b)
    BY <1>6, ListsNone
  <1>7. CASE n \notin DOMAIN pin \/ ~(base < lim)
    <2>1. w = <<>>
      <3>1. n \notin DOMAIN pin \/ base >= lim
        BY <1>7
      <3> QED
        BY <1>2, <1>3, <3>1, Zenon DEF VisitPart
    <2>2. x = y
      <3>1. n \notin DOMAIN pin \/ ~(Before(pin, n) < lim)
        BY <1>2, <1>7, Zenon
      <3>2. Reach(pin, lim, n + 1) = Reach(pin, lim, n)
        BY <1>1, <3>1, ReachSmall
      <3> QED
        BY <1>2, <3>2, Zenon
    <2> QED
      BY <1>4, <1>6, <2>1, <2>2, Zenon
  <1>8. CASE n \in DOMAIN pin /\ base < lim
    <2>1. PICK length \in Nat : length = pin[n]
      BY <1>1, <1>8 DEF Measured
    <2>2. PICK end \in Nat : end = MinOf(length, lim - base)
      <3>1. lim - base \in Nat
        BY <1>8
      <3> QED
        BY <3>1, Bounds
    <2>3. Window(pin, lim, n, base, length, end)
      BY <1>2, <1>8, <2>1, <2>2 DEF Window
    <2>4. PICK from \in Nat : /\ from = MaxOf(3 * j - base, 0)
                              /\ 3 * j >= base => from = 3 * j - base
                              /\ 3 * j < base => from = 0
      <3>1. PICK k : k = 3 * j - base
        OBVIOUS
      <3>2. k \in Int
        BY <3>1
      <3>3. MaxOf(k, 0) \in Nat /\ (k >= 0 => MaxOf(k, 0) = k) /\ (k <= 0 => MaxOf(k, 0) = 0)
        BY <3>2 DEF MaxOf
      <3> QED
        BY <3>1, <3>2, <3>3
    <2>5. base = 3 * x /\ x <= y /\ 3 * y < base + end + 3 /\ (end = 0 => y = x)
      <3>1. /\ base = 3 * Reach(pin, lim, n)
            /\ Reach(pin, lim, n) <= Reach(pin, lim, n + 1)
            /\ 3 * Reach(pin, lim, n + 1) < base + end + 3
            /\ end = 0 => Reach(pin, lim, n + 1) = Reach(pin, lim, n)
        BY <2>3, ReachWindow
      <3> QED
        BY <1>2, <3>1, Zenon
    <2>6. w = IF base >= lim \/ from >= end THEN <<>>
              ELSE Seen(Whole(Cut(n, from, end), end, length), base, from)
      <3>1. PICK start : start = 3 * j
        OBVIOUS
      <3>2. Entered(pin, lim, n, base, length, end, start, from)
        BY <2>3, <2>4, <3>1, Zenon DEF Entered
      <3>3. Visited(VisitPart(files, n, pin, start, lim, TRUE), lim, n, base, length, end, from)
        BY <3>2, VisitPartIs
      <3> QED
        BY <1>3, <3>1, <3>3, Zenon DEF Visited
    <2>7. CASE from >= end
      <3>1. w = <<>>
        BY <2>6, <2>7
      <3>2. a = b
        BY <1>4, <2>4, <2>5, <2>7
      <3> QED
        BY <1>6, <3>1, <3>2
    <2>8. CASE ~(from >= end)
      <3>1. from < end /\ ~(base >= lim) /\ base + from = 3 * a
        BY <1>4, <1>8, <2>4, <2>5, <2>8
      <3>2. PICK lines, num, cnt : CutIs(lines, pin, lim, rows, n, base, length, end, from, a, num, cnt)
        BY <2>3, <3>1, PartCut
      <3>3. /\ lines = Cut(n, from, end) /\ cnt \in Nat /\ num \in Nat /\ a + cnt = y
            /\ \A i \in 1..num : Moved(lines[i], base + from + lines[i].at) = LineAt(rows, a + i, lim)
        BY <1>2, <3>2, Zenon DEF CutIs, Cut
      <3>4. PICK found : found = SubSeq(lines, 1, cnt)
        OBVIOUS
      <3>5. /\ Whole(lines, end, length) = found
            /\ found \in Seq(LineSet(Len(steps))) /\ Len(found) = cnt
            /\ \A i \in 1..cnt : found[i] = lines[i] /\ i \in 1..num
        BY <3>2, <3>4, WholeIs
      <3>6. w = Seen(found, base, from)
        BY <2>6, <2>8, <3>1, <3>3, <3>5, Zenon
      <3>7. b - a = cnt
        <4>1. a <= y /\ j <= a
          BY <1>4, <3>3
        <4> QED
          BY <1>4, <3>3, <4>1
      <3>8. w = [i \in 1..cnt |-> LineAt(rows, a + i, lim)]
        BY <3>3, <3>5, <3>6, ZenonT(40) DEF Seen
      <3>9. w \in Seq(LineSet(Len(steps))) /\ Len(w) = cnt
        <4>1. ASSUME NEW i \in 1..cnt PROVE w[i] \in LineSet(Len(steps))
          <5>1. found[i] \in LineSet(Len(steps)) /\ found[i] = lines[i] /\ i \in 1..num
            BY <3>5
          <5>2. base + from + found[i].at \in Nat
            BY <5>1 DEF LineSet
          <5>3. w[i] = Moved(found[i], base + from + found[i].at)
            BY <3>5, <3>6, Zenon DEF Seen
          <5> QED
            BY <5>1, <5>2, <5>3, MovedType
        <4>2. PICK S : S = LineSet(Len(steps))
          OBVIOUS
        <4>3. DOMAIN w = 1..cnt /\ w = [i \in DOMAIN w |-> w[i]]
          BY <3>8
        <4>4. w \in [1..cnt -> S]
          BY <4>1, <4>2, <4>3
        <4>5. w \in Seq(S)
          BY <3>3, <4>4, IsASeq
        <4>6. Len(w) = cnt
          BY <3>3, <4>3, <4>5, LenProperties
        <4> QED
          BY <4>2, <4>5, <4>6
      <3> QED
        BY <3>7, <3>8, <3>9, Zenon DEF Lists
    <2> QED
      BY <2>7, <2>8
  <1> QED
    BY <1>7, <1>8

-----------------------------------------------------------------------------
(* The lines of a snapshot: forwards, backwards, with a cursor             *)

\* What is joined part by part is a function.
Chained(f, X, part) ==
    /\ f[0] = <<>>
    /\ \A n \in Nat : f[n] \in Seq(X) /\ f[n + 1] = f[n] \o part[n]
    /\ f = [n \in Nat |-> IF n = 0 THEN <<>> ELSE f[n - 1] \o part[n - 1]]
ChainedBack(f, X, part) ==
    /\ f[0] = <<>>
    /\ \A n \in Nat : f[n] \in Seq(X) /\ f[n + 1] = part[n] \o f[n]
    /\ f = [n \in Nat |-> IF n = 0 THEN <<>> ELSE part[n - 1] \o f[n - 1]]

LEMMA Chain ==
  ASSUME NEW X, NEW part \in [Nat -> Seq(X)]
  PROVE  (\E f : Chained(f, X, part)) /\ (\E f : ChainedBack(f, X, part))
  <1>1. PICK S : S = Seq(X)
    OBVIOUS
  <1>2. PICK e \in S : e = <<>>
    BY <1>1, EmptySeq
  <1>3. ASSUME NEW x \in S, NEW y \in S PROVE x \o y \in S
    BY <1>1, ConcatProperties
  <1>4. \E f : Chained(f, X, part)
    <2>1. PICK G : G = [p \in Nat \X S |-> p[2] \o part[p[1]]]
      OBVIOUS
    <2>2. /\ G \in [Nat \X S -> S]
          /\ \A i \in Nat, x \in S : G[<<i, x>>] = x \o part[i]
      <3>1. ASSUME NEW i \in Nat, NEW x \in S
            PROVE  G[<<i, x>>] = x \o part[i] /\ G[<<i, x>>] \in S
        BY <1>1, <1>3, <2>1
      <3> QED
        BY <2>1, <3>1
    <2>3. PICK f : Iterates(f, S, e, G)
      BY <1>2, <2>2, Recursion
    <2>4. \A n \in Nat : f[n] \in S /\ f[n + 1] = f[n] \o part[n]
      BY <2>2, <2>3 DEF Iterates
    <2>5. PICK g : g = [n \in Nat |-> IF n = 0 THEN <<>> ELSE f[n - 1] \o part[n - 1]]
      OBVIOUS
    <2>6. ASSUME NEW n \in Nat PROVE f[n] = g[n]
      <3>1. CASE n = 0
        BY <1>2, <2>3, <2>5, <3>1 DEF Iterates
      <3>2. CASE n # 0
        <4>1. PICK k \in Nat : k = n - 1 /\ n = k + 1
          BY <3>2
        <4>2. g[n] = f[k] \o part[k]
          BY <2>5, <3>2, <4>1, Zenon
        <4> QED
          BY <2>4, <4>1, <4>2
      <3> QED
        BY <3>1, <3>2
    <2>7. f = g
      BY <2>3, <2>5, <2>6 DEF Iterates
    <2>8. f[0] = <<>>
      BY <1>2, <2>3 DEF Iterates
    <2>9. Chained(f, X, part)
      BY <1>1, <2>4, <2>5, <2>7, <2>8, Zenon DEF Chained
    <2> QED
      BY <2>9
  <1>5. \E f : ChainedBack(f, X, part)
    <2>1. PICK G : G = [p \in Nat \X S |-> part[p[1]] \o p[2]]
      OBVIOUS
    <2>2. /\ G \in [Nat \X S -> S]
          /\ \A i \in Nat, x \in S : G[<<i, x>>] = part[i] \o x
      <3>1. ASSUME NEW i \in Nat, NEW x \in S
            PROVE  G[<<i, x>>] = part[i] \o x /\ G[<<i, x>>] \in S
        BY <1>1, <1>3, <2>1
      <3> QED
        BY <2>1, <3>1
    <2>3. PICK f : Iterates(f, S, e, G)
      BY <1>2, <2>2, Recursion
    <2>4. \A n \in Nat : f[n] \in S /\ f[n + 1] = part[n] \o f[n]
      BY <2>2, <2>3 DEF Iterates
    <2>5. PICK g : g = [n \in Nat |-> IF n = 0 THEN <<>> ELSE part[n - 1] \o f[n - 1]]
      OBVIOUS
    <2>6. ASSUME NEW n \in Nat PROVE f[n] = g[n]
      <3>1. CASE n = 0
        BY <1>2, <2>3, <2>5, <3>1 DEF Iterates
      <3>2. CASE n # 0
        <4>1. PICK k \in Nat : k = n - 1 /\ n = k + 1
          BY <3>2
        <4>2. g[n] = part[k] \o f[k]
          BY <2>5, <3>2, <4>1, Zenon
        <4> QED
          BY <2>4, <4>1, <4>2
      <3> QED
        BY <3>1, <3>2
    <2>7. f = g
      BY <2>3, <2>5, <2>6 DEF Iterates
    <2>8. f[0] = <<>>
      BY <1>2, <2>3 DEF Iterates
    <2>9. ChainedBack(f, X, part)
      BY <1>1, <2>4, <2>5, <2>7, <2>8, Zenon DEF ChainedBack
    <2> QED
      BY <2>9
  <1> QED
    BY <1>4, <1>5

\* Only one function satisfies each: the one the definitions choose.
Chain_(part) == CHOOSE f : f = [n \in Nat |-> IF n = 0 THEN <<>> ELSE f[n - 1] \o part[n - 1]]
ChainBack_(part) == CHOOSE f : f = [n \in Nat |-> IF n = 0 THEN <<>> ELSE part[n - 1] \o f[n - 1]]

LEMMA Unchained ==
  ASSUME NEW X, NEW part \in [Nat -> Seq(X)]
  PROVE  Chained(Chain_(part), X, part) /\ ChainedBack(ChainBack_(part), X, part)
  <1>1. PICK S : S = Seq(X)
    OBVIOUS
  <1>2. <<>> \in S /\ \A x, y \in S : x \o y \in S
    <2>1. ASSUME NEW x \in S, NEW y \in S PROVE x \o y \in S
      BY <1>1, ConcatProperties
    <2> QED
      BY <1>1, <2>1, EmptySeq
  <1>3. Chained(Chain_(part), X, part)
    <2>1. PICK v : v = Chain_(part)
      OBVIOUS
    <2>2. v = [n \in Nat |-> IF n = 0 THEN <<>> ELSE v[n - 1] \o part[n - 1]]
      <3>1. \E f : f = [n \in Nat |-> IF n = 0 THEN <<>> ELSE f[n - 1] \o part[n - 1]]
        <4>1. PICK f : Chained(f, X, part)
          BY Chain
        <4> QED
          BY <4>1, Zenon DEF Chained
      <3> QED
        BY <2>1, <3>1, Zenon DEF Chain_
    <2>3. v[0] = <<>>
      BY <2>2, Zenon
    <2>4. ASSUME NEW n \in Nat PROVE v[n + 1] = v[n] \o part[n]
      <3>1. PICK k \in Nat : k = n + 1 /\ k # 0 /\ k - 1 = n
        OBVIOUS
      <3>2. v[k] = v[k - 1] \o part[k - 1]
        BY <2>2, <3>1, Zenon
      <3> QED
        BY <3>1, <3>2, Zenon
    <2>5. \A n \in Nat : v[n] \in S
      <3> DEFINE T == {n \in Nat : v[n] \in S}
      <3>1. 0 \in T
        BY <1>2, <2>3
      <3>2. ASSUME NEW n \in Nat, n \in T PROVE n + 1 \in T
        <4>1. v[n] \in S /\ part[n] \in S
          BY <1>1, <3>2
        <4>2. v[n + 1] \in S
          BY <1>2, <2>4, <4>1
        <4> QED
          BY <4>2
      <3>3. Nat \subseteq T
        <4> HIDE DEF T
        <4> QED
          BY <3>1, <3>2, Inductive
      <3> QED
        BY <3>3
    <2> QED
      BY <1>1, <2>1, <2>2, <2>3, <2>4, <2>5, Zenon DEF Chained
  <1>4. ChainedBack(ChainBack_(part), X, part)
    <2>1. PICK v : v = ChainBack_(part)
      OBVIOUS
    <2>2. v = [n \in Nat |-> IF n = 0 THEN <<>> ELSE part[n - 1] \o v[n - 1]]
      <3>1. \E f : f = [n \in Nat |-> IF n = 0 THEN <<>> ELSE part[n - 1] \o f[n - 1]]
        <4>1. PICK f : ChainedBack(f, X, part)
          BY Chain
        <4> QED
          BY <4>1, Zenon DEF ChainedBack
      <3> QED
        BY <2>1, <3>1, Zenon DEF ChainBack_
    <2>3. v[0] = <<>>
      BY <2>2, Zenon
    <2>4. ASSUME NEW n \in Nat PROVE v[n + 1] = part[n] \o v[n]
      <3>1. PICK k \in Nat : k = n + 1 /\ k # 0 /\ k - 1 = n
        OBVIOUS
      <3>2. v[k] = part[k - 1] \o v[k - 1]
        BY <2>2, <3>1, Zenon
      <3> QED
        BY <3>1, <3>2, Zenon
    <2>5. \A n \in Nat : v[n] \in S
      <3> DEFINE T == {n \in Nat : v[n] \in S}
      <3>1. 0 \in T
        BY <1>2, <2>3
      <3>2. ASSUME NEW n \in Nat, n \in T PROVE n + 1 \in T
        <4>1. v[n] \in S /\ part[n] \in S
          BY <1>1, <3>2
        <4>2. v[n + 1] \in S
          BY <1>2, <2>4, <4>1
        <4> QED
          BY <4>2
      <3>3. Nat \subseteq T
        <4> HIDE DEF T
        <4> QED
          BY <3>1, <3>2, Inductive
      <3> QED
        BY <3>3
    <2> QED
      BY <1>1, <2>1, <2>2, <2>3, <2>4, <2>5, Zenon DEF ChainedBack
  <1> QED
    BY <1>3, <1>4

\* Functions joining the same parts are the same.
VisitParts(pin, start, lim) == [n \in Nat |-> VisitPart(files, n, pin, start, lim, TRUE)]
CursorParts(start) == [n \in Nat |-> CursorPart(n, start)]
ReverseParts == [n \in Nat |-> ReversePart(n)]

LEMMA VisitChain ==
  ASSUME NEW pin, NEW start, NEW lim
  PROVE  Visit(files, pin, start, lim, TRUE)
           = Chain_(VisitParts(pin, start, lim))[LastOf(DOMAIN pin) + 1]
  <1>1. PICK part : part = VisitParts(pin, start, lim)
    OBVIOUS
  <1>2. ASSUME NEW f
        PROVE  [n \in Nat |-> IF n = 0 THEN <<>> ELSE f[n - 1] \o part[n - 1]]
               = [n \in Nat |-> IF n = 0 THEN <<>> ELSE f[n - 1] \o
                    VisitPart(files, n - 1, pin, start, lim, TRUE)]
    <2>1. ASSUME NEW n \in Nat, n # 0
          PROVE  part[n - 1] = VisitPart(files, n - 1, pin, start, lim, TRUE)
      <3>1. PICK k \in Nat : k = n - 1
        BY <2>1
      <3> QED
        BY <1>1, <3>1, Zenon DEF VisitParts
    <2> QED
      BY <2>1, Zenon
  <1> DEFINE V == CHOOSE f : f = [n \in Nat |-> IF n = 0 THEN <<>> ELSE f[n - 1] \o
                    VisitPart(files, n - 1, pin, start, lim, TRUE)]
  <1>3. V = Chain_(part)
    BY <1>2, Zenon DEF Chain_
  <1>4. Visit(files, pin, start, lim, TRUE) = V[LastOf(DOMAIN pin) + 1]
    BY Zenon DEF Visit
  <1> HIDE DEF V
  <1> QED
    BY <1>1, <1>3, <1>4, Zenon

LEMMA CursorChain ==
  ASSUME NEW start
  PROVE  Cursor(start) = Chain_(CursorParts(start))[LastOf(DOMAIN rd.pin) + 1]
  <1>1. PICK part : part = CursorParts(start)
    OBVIOUS
  <1>2. ASSUME NEW f
        PROVE  [n \in Nat |-> IF n = 0 THEN <<>> ELSE f[n - 1] \o part[n - 1]]
               = [n \in Nat |-> IF n = 0 THEN <<>> ELSE f[n - 1] \o CursorPart(n - 1, start)]
    <2>1. ASSUME NEW n \in Nat, n # 0 PROVE part[n - 1] = CursorPart(n - 1, start)
      <3>1. PICK k \in Nat : k = n - 1
        BY <2>1
      <3> QED
        BY <1>1, <3>1, Zenon DEF CursorParts
    <2> QED
      BY <2>1, Zenon
  <1> DEFINE V == CHOOSE f : f = [n \in Nat |-> IF n = 0 THEN <<>> ELSE f[n - 1] \o
                    CursorPart(n - 1, start)]
  <1>3. V = Chain_(part)
    BY <1>2, Zenon DEF Chain_
  <1>4. Cursor(start) = V[LastOf(DOMAIN rd.pin) + 1]
    BY Zenon DEF Cursor
  <1> HIDE DEF V
  <1> QED
    BY <1>1, <1>3, <1>4, Zenon

LEMMA BackwardsChain == Backwards = ChainBack_(ReverseParts)[LastOf(DOMAIN rd.pin) + 1]
  <1>1. PICK part : part = ReverseParts
    OBVIOUS
  <1>2. ASSUME NEW f
        PROVE  [n \in Nat |-> IF n = 0 THEN <<>> ELSE part[n - 1] \o f[n - 1]]
               = [n \in Nat |-> IF n = 0 THEN <<>> ELSE ReversePart(n - 1) \o f[n - 1]]
    <2>1. ASSUME NEW n \in Nat, n # 0 PROVE part[n - 1] = ReversePart(n - 1)
      <3>1. PICK k \in Nat : k = n - 1
        BY <2>1
      <3> QED
        BY <1>1, <3>1, Zenon DEF ReverseParts
    <2> QED
      BY <2>1, Zenon
  <1> DEFINE V == CHOOSE f : f = [n \in Nat |-> IF n = 0 THEN <<>> ELSE ReversePart(n - 1) \o f[n - 1]]
  <1>3. V = ChainBack_(part)
    BY <1>2, Zenon DEF ChainBack_
  <1>4. Backwards = V[LastOf(DOMAIN rd.pin) + 1]
    BY Zenon DEF Backwards
  <1> HIDE DEF V
  <1> QED
    BY <1>1, <1>3, <1>4, Zenon

\* The parts of a pinned log that are seen are a prefix of the lines shown.
LEMMA ReachEnds ==
  ASSUME NEW pin, Measured(pin), NEW lim \in Nat, lim <= Total(pin)
  PROVE  /\ LastOf(DOMAIN pin) \in Nat /\ Reach(pin, lim, 0) = 0
         /\ Reach(pin, lim, LastOf(DOMAIN pin) + 1) = Shown(pin, lim)
  <1>1. PICK top \in Nat : DOMAIN pin \subseteq 0..top
    BY DEF Measured
  <1>2. PICK last \in Nat : last = LastOf(DOMAIN pin) /\ last + 1 \in Nat
    <2>1. LastOf(DOMAIN pin) \in 0..top
      BY <1>1, LastIs
    <2> QED
      BY <2>1
  <1>3. Before(pin, 0) = 0 /\ Before(pin, last + 1) \in Nat
    BY <1>2, BeforeIs
  <1>4. ~(Before(pin, last + 1) < lim)
    <2>1. Before(pin, last + 1) = Total(pin)
      BY <1>2, Zenon DEF Total
    <2> QED
      BY <1>3, <2>1
  <1>5. Reach(pin, lim, last + 1) = Shown(pin, lim)
    BY <1>4, Zenon DEF Reach
  <1>6. Reach(pin, lim, 0) = 0
    <2>1. CASE 0 < lim
      <3>1. Before(pin, 0) < lim /\ 0 \div 3 = 0
        BY <1>3, <2>1
      <3> QED
        BY <1>3, <3>1, Zenon DEF Reach, LineBytes
    <2>2. CASE ~(0 < lim)
      <3>1. lim = 0
        BY <2>2
      <3>2. \A n \in DOMAIN pin : ~(Before(pin, n) < lim)
        <4>1. ASSUME NEW n \in DOMAIN pin PROVE ~(Before(pin, n) < lim)
          <5>1. n \in Nat
            BY DEF Measured
          <5>2. Before(pin, n) \in Nat
            BY <5>1, BeforeIs
          <5> QED
            BY <3>1, <5>2
        <4> QED
          BY <4>1
      <3>3. ~Ends(pin, lim)
        BY <3>2 DEF Ends
      <3>4. Shown(pin, lim) = 0
        <4>1. lim \div 3 = 0
          BY <3>1
        <4> QED
          BY <3>3, <4>1, Zenon DEF Shown, LineBytes
      <3>5. ~(Before(pin, 0) < lim)
        BY <1>3, <3>1
      <3> QED
        BY <3>4, <3>5, Zenon DEF Reach
    <2> QED
      BY <2>1, <2>2
  <1> QED
    BY <1>2, <1>5, <1>6, Zenon

\* From the beginning of a line, a visit lists it and those after it.
LEMMA VisitLists ==
  ASSUME steps \in Seq(Steps), Parted(files, Len(steps)), NEW pin, NEW lim \in Nat,
         NEW rows \in Seq(1..Len(steps)), Viewed(pin, lim, rows), NEW j \in Nat
  PROVE  Lists(Visit(files, pin, 3 * j, lim, TRUE), rows, lim, j, MaxOf(j, Shown(pin, lim)))
  <1>1. Measured(pin) /\ lim <= Total(pin)
    BY DEF Viewed
  <1>2. PICK start : start = 3 * j
    OBVIOUS
  <1>3. PICK part : part = VisitParts(pin, start, lim)
    OBVIOUS
  <1>4. PICK R : R = [n \in Nat |-> MaxOf(j, Reach(pin, lim, n))]
    OBVIOUS
  <1>5. \A n \in Nat : Lists(part[n], rows, lim, R[n], R[n + 1])
    <2>1. ASSUME NEW n \in Nat PROVE Lists(part[n], rows, lim, R[n], R[n + 1])
      <3>1. Lists(VisitPart(files, n, pin, 3 * j, lim, TRUE), rows, lim,
                  MaxOf(j, Reach(pin, lim, n)), MaxOf(j, Reach(pin, lim, n + 1)))
        BY VisitPartLists
      <3>2. part[n] = VisitPart(files, n, pin, 3 * j, lim, TRUE)
        BY <1>2, <1>3, Zenon DEF VisitParts
      <3>3. R[n] = MaxOf(j, Reach(pin, lim, n)) /\ R[n + 1] = MaxOf(j, Reach(pin, lim, n + 1))
        <4>1. n + 1 \in Nat
          OBVIOUS
        <4> QED
          BY <1>4, <4>1, Zenon
      <3> QED
        BY <3>1, <3>2, <3>3, Zenon
    <2> QED
      BY <2>1
  <1>6. part \in [Nat -> Seq(LineSet(Len(steps)))]
    <2>1. \A n \in Nat : part[n] \in Seq(LineSet(Len(steps)))
      BY <1>5, Zenon DEF Lists
    <2>2. part = [n \in Nat |-> part[n]]
      BY <1>3, Zenon DEF VisitParts
    <2> QED
      BY <2>1, <2>2
  <1>7. PICK v : v = Chain_(part) /\ Chained(v, LineSet(Len(steps)), part)
    BY <1>6, Unchained
  <1>8. R[0] = j
    <2>1. Reach(pin, lim, 0) = 0
      BY <1>1, ReachEnds
    <2>2. MaxOf(j, 0) = j
      BY DEF MaxOf
    <2> QED
      BY <1>4, <2>1, <2>2, Zenon
  <1> DEFINE T == {n \in Nat : Lists(v[n], rows, lim, j, R[n])}
  <1>9. 0 \in T
    <2>1. Lists(<<>>, rows, lim, j, j)
      BY ListsNone
    <2> QED
      BY <1>7, <1>8, <2>1, Zenon DEF Chained
  <1>10. ASSUME NEW n \in Nat, n \in T PROVE n + 1 \in T
    <2>1. Lists(v[n], rows, lim, j, R[n]) /\ Lists(part[n], rows, lim, R[n], R[n + 1])
      BY <1>5, <1>10
    <2>2. Lists(v[n] \o part[n], rows, lim, j, R[n + 1])
      BY <2>1, ListsJoin
    <2>3. v[n + 1] = v[n] \o part[n]
      BY <1>7, Zenon DEF Chained
    <2>4. n + 1 \in Nat
      OBVIOUS
    <2> QED
      BY <2>2, <2>3, <2>4, Zenon
  <1>11. Nat \subseteq T
    <2> HIDE DEF T
    <2> QED
      BY <1>9, <1>10, Inductive
  <1>12. PICK k \in Nat : k = LastOf(DOMAIN pin) + 1
    <2>1. LastOf(DOMAIN pin) \in Nat
      BY <1>1, ReachEnds
    <2> QED
      BY <2>1
  <1>13. Lists(v[k], rows, lim, j, R[k])
    BY <1>11
  <1>14. R[k] = MaxOf(j, Shown(pin, lim))
    <2>1. Reach(pin, lim, k) = Shown(pin, lim)
      BY <1>1, <1>12, ReachEnds
    <2> QED
      BY <1>4, <2>1, Zenon
  <1>15. Visit(files, pin, start, lim, TRUE) = v[k]
    BY <1>3, <1>7, <1>12, VisitChain, Zenon
  <1> QED
    BY <1>2, <1>13, <1>14, <1>15, Zenon

\* Nothing is after the limit.
LEMMA VisitNothing ==
  ASSUME NEW pin, Measured(pin), NEW lim \in Nat
  PROVE  Visit(files, pin, lim, lim, TRUE) = <<>>
  <1>1. PICK part : part = VisitParts(pin, lim, lim)
    OBVIOUS
  <1>2. \A n \in Nat : part[n] = <<>>
    <2>1. ASSUME NEW n \in Nat PROVE part[n] = <<>>
      <3>1. part[n] = VisitPart(files, n, pin, lim, lim, TRUE)
        BY <1>1, Zenon DEF VisitParts
      <3>2. CASE n \notin DOMAIN pin
        BY <3>1, <3>2, Zenon DEF VisitPart
      <3>3. CASE n \in DOMAIN pin
        <4>1. PICK base, length \in Nat : base = Before(pin, n) /\ length = pin[n]
          <5>1. pin[n] \in Nat /\ Before(pin, n) \in Nat
            BY <3>3, BeforeIs DEF Measured
          <5> QED
            BY <5>1
        <4>2. CASE base >= lim
          BY <3>1, <4>1, <4>2, Zenon DEF VisitPart
        <4>3. CASE ~(base >= lim)
          <5>1. PICK end, from \in Nat : /\ end = MinOf(length, lim - base)
                                         /\ from = MaxOf(lim - base, 0) /\ from >= end
            BY <4>3 DEF MinOf, MaxOf
          <5>2. MaxOf(lim - Before(pin, n), 0) >= MinOf(pin[n], lim - Before(pin, n))
            BY <4>1, <5>1, Zenon
          <5> QED
            BY <3>1, <5>2, Zenon DEF VisitPart
        <4> QED
          BY <4>2, <4>3
      <3> QED
        BY <3>2, <3>3
    <2> QED
      BY <2>1
  <1>3. PICK X : X = {0}
    OBVIOUS
  <1>4. part \in [Nat -> Seq(X)]
    <2>1. part = [n \in Nat |-> part[n]]
      BY <1>1, Zenon DEF VisitParts
    <2>2. <<>> \in Seq(X)
      BY EmptySeq
    <2> QED
      BY <1>2, <2>1, <2>2
  <1>5. PICK v : v = Chain_(part) /\ Chained(v, X, part)
    BY <1>4, Unchained
  <1> DEFINE T == {n \in Nat : v[n] = <<>>}
  <1>6. 0 \in T
    BY <1>5 DEF Chained
  <1>7. ASSUME NEW n \in Nat, n \in T PROVE n + 1 \in T
    <2>1. v[n + 1] = v[n] \o part[n] /\ v[n] = <<>> /\ part[n] = <<>>
      BY <1>2, <1>5, <1>7 DEF Chained
    <2>2. v[n + 1] = <<>>
      <3>1. <<>> \o <<>> = <<>>
        OBVIOUS
      <3> QED
        BY <2>1, <3>1, Zenon
    <2> QED
      BY <2>2
  <1>8. Nat \subseteq T
    <2> HIDE DEF T
    <2> QED
      BY <1>6, <1>7, Inductive
  <1>9. LastOf(DOMAIN pin) \in Nat
    <2>1. PICK top \in Nat : DOMAIN pin \subseteq 0..top
      BY DEF Measured
    <2>2. LastOf(DOMAIN pin) \in 0..top
      BY <2>1, LastIs
    <2> QED
      BY <2>2
  <1>10. PICK k \in Nat : k = LastOf(DOMAIN pin) + 1
    BY <1>9
  <1>11. v[k] = <<>>
    BY <1>8
  <1> QED
    BY <1>1, <1>5, <1>10, <1>11, VisitChain, Zenon

-----------------------------------------------------------------------------
(* The lines of a snapshot with a cursor, and backwards                    *)

\* CursorPart and ReversePart, once their names are taken out.
Passed(lines, base, length, lim) ==
    Pick(lines, {i \in 1..Len(lines) : lines[i].whole \/ base + length <= lim})
CursorAs(w, lim, n, base, length, end, from) ==
    w = IF base >= lim \/ from >= end THEN <<>> ELSE Passed(Cut(n, from, end), base, length, lim)

LEMMA CursorPartIs ==
  ASSUME NEW n, NEW base, NEW length, NEW end, NEW start, NEW from, NEW pin, NEW lim,
         pin = rd.pin, lim = rd.limit, Entered(pin, lim, n, base, length, end, start, from)
  PROVE  CursorAs(CursorPart(n, start), lim, n, base, length, end, from)
  <1>0. Window(pin, lim, n, base, length, end) /\ from = MaxOf(start - base, 0)
    BY DEF Entered
  <1>1. /\ n \in DOMAIN pin /\ base = Before(pin, n) /\ length = pin[n]
        /\ end = MinOf(length, lim - base)
    BY <1>0 DEF Window
  <1> DEFINE W(c, e, f) ==
        IF n \notin DOMAIN pin \/ c >= lim \/ f >= e THEN <<>>
        ELSE Passed(Cut(n, f, e), c, pin[n], lim)
      E(c) == MinOf(pin[n], lim - c)
      F(c) == MaxOf(start - c, 0)
  <1>2. CursorPart(n, start) = W(Before(pin, n), E(Before(pin, n)), F(Before(pin, n)))
    BY Zenon DEF CursorPart, Passed, Cut
  <1>3. E(base) = end /\ F(base) = from
    BY <1>0, <1>1, Zenon
  <1> HIDE DEF W, E, F
  <1>4. CursorPart(n, start) = W(base, end, from)
    BY <1>1, <1>2, <1>3, Zenon
  <1> QED
    BY <1>1, <1>4, Zenon DEF W, CursorAs

\* As many as a visit lists.
Counts(w, a, b) == a \in Nat /\ b \in Nat /\ w \in Seq(LineSet(Len(steps))) /\ Len(w) = b - a

LEMMA CursorPartCounts ==
  ASSUME steps \in Seq(Steps), Parted(files, Len(steps)), NEW pin, NEW lim \in Nat,
         pin = rd.pin, lim = rd.limit,
         NEW rows \in Seq(1..Len(steps)), Viewed(pin, lim, rows), NEW n \in Nat, NEW j \in Nat
  PROVE  Counts(CursorPart(n, 3 * j), MaxOf(j, Reach(pin, lim, n)), MaxOf(j, Reach(pin, lim, n + 1)))
  <1>1. Measured(pin)
    BY DEF Viewed
  <1>2. PICK x, y, base \in Nat : /\ x = Reach(pin, lim, n) /\ y = Reach(pin, lim, n + 1)
                                  /\ base = Before(pin, n)
    <2>1. n + 1 \in Nat
      OBVIOUS
    <2> QED
      BY <1>1, <2>1, ReachSmall
  <1>3. PICK w : w = CursorPart(n, 3 * j)
    OBVIOUS
  <1>4. PICK a, b \in Nat : /\ a = MaxOf(j, x) /\ b = MaxOf(j, y)
                            /\ a = (IF j >= x THEN j ELSE x) /\ b = (IF j >= y THEN j ELSE y)
    BY DEF MaxOf
  <1>5. SUFFICES Counts(w, a, b)
    BY <1>2, <1>3, <1>4, Zenon
  <1>6. ASSUME w = <<>>, a = b PROVE Counts(w, a, b)
    <2>1. <<>> \in Seq(LineSet(Len(steps))) /\ Len(<<>>) = 0 /\ a - a = 0
      BY EmptySeq
    <2> QED
      BY <1>6, <2>1 DEF Counts
  <1>7. CASE n \notin DOMAIN pin \/ ~(base < lim)
    <2>1. w = <<>>
      <3>1. n \notin DOMAIN pin \/ base >= lim
        BY <1>7
      <3> QED
        BY <1>2, <1>3, <3>1, Zenon DEF CursorPart
    <2>2. x = y
      <3>1. n \notin DOMAIN pin \/ ~(Before(pin, n) < lim)
        BY <1>2, <1>7, Zenon
      <3>2. Reach(pin, lim, n + 1) = Reach(pin, lim, n)
        BY <1>1, <3>1, ReachSmall
      <3> QED
        BY <1>2, <3>2, Zenon
    <2> QED
      BY <1>4, <1>6, <2>1, <2>2, Zenon
  <1>8. CASE n \in DOMAIN pin /\ base < lim
    <2>1. PICK length \in Nat : length = pin[n]
      BY <1>1, <1>8 DEF Measured
    <2>2. PICK end \in Nat : /\ end = MinOf(length, lim - base)
                             /\ end = length <=> base + length <= lim
      <3>1. lim - base \in Nat
        BY <1>8
      <3>2. PICK end : end = MinOf(length, lim - base)
        OBVIOUS
      <3>3. end = (IF length <= lim - base THEN length ELSE lim - base)
        BY <3>2, Zenon DEF MinOf
      <3>4. end \in Nat /\ (end = length <=> base + length <= lim)
        BY <1>8, <3>3
      <3> QED
        BY <3>2, <3>4
    <2>3. Window(pin, lim, n, base, length, end)
      BY <1>2, <1>8, <2>1, <2>2 DEF Window
    <2>4. PICK from \in Nat : /\ from = MaxOf(3 * j - base, 0)
                              /\ 3 * j >= base => from = 3 * j - base
                              /\ 3 * j < base => from = 0
      <3>1. PICK k : k = 3 * j - base
        OBVIOUS
      <3>2. k \in Int
        BY <3>1
      <3>3. MaxOf(k, 0) \in Nat /\ (k >= 0 => MaxOf(k, 0) = k) /\ (k <= 0 => MaxOf(k, 0) = 0)
        BY <3>2 DEF MaxOf
      <3> QED
        BY <3>1, <3>2, <3>3
    <2>5. base = 3 * x /\ x <= y /\ 3 * y < base + end + 3 /\ (end = 0 => y = x)
      <3>1. /\ base = 3 * Reach(pin, lim, n)
            /\ Reach(pin, lim, n) <= Reach(pin, lim, n + 1)
            /\ 3 * Reach(pin, lim, n + 1) < base + end + 3
            /\ end = 0 => Reach(pin, lim, n + 1) = Reach(pin, lim, n)
        BY <2>3, ReachWindow
      <3> QED
        BY <1>2, <3>1, Zenon
    <2>6. w = IF base >= lim \/ from >= end THEN <<>> ELSE Passed(Cut(n, from, end), base, length, lim)
      <3>1. PICK start : start = 3 * j
        OBVIOUS
      <3>2. Entered(pin, lim, n, base, length, end, start, from)
        BY <2>3, <2>4, <3>1, Zenon DEF Entered
      <3>3. CursorAs(CursorPart(n, start), lim, n, base, length, end, from)
        BY <3>2, CursorPartIs
      <3> QED
        BY <1>3, <3>1, <3>3, Zenon DEF CursorAs
    <2>7. CASE from >= end
      <3>1. w = <<>>
        BY <2>6, <2>7
      <3>2. a = b
        BY <1>4, <2>4, <2>5, <2>7
      <3> QED
        BY <1>6, <3>1, <3>2
    <2>8. CASE ~(from >= end)
      <3>1. from < end /\ ~(base >= lim) /\ base + from = 3 * a
        BY <1>4, <1>8, <2>4, <2>5, <2>8
      <3>2. PICK lines, num, cnt : CutIs(lines, pin, lim, rows, n, base, length, end, from, a, num, cnt)
        BY <2>3, <3>1, PartCut
      <3>3. lines = Cut(n, from, end) /\ cnt \in Nat /\ num \in Nat /\ a + cnt = y
        BY <1>2, <3>2, Zenon DEF CutIs, Cut
      <3>4. Passed(lines, base, length, lim) = Whole(lines, end, length)
        <4>1. \A i \in 1..Len(lines) : (lines[i].whole \/ base + length <= lim)
                                        <=> Allowed(lines[i], end, length, TRUE)
          BY <2>2, Zenon DEF Allowed
        <4>2. {i \in 1..Len(lines) : lines[i].whole \/ base + length <= lim}
                = {i \in 1..Len(lines) : Allowed(lines[i], end, length, TRUE)}
          BY <4>1, Zenon
        <4> QED
          BY <4>2, Zenon DEF Passed, Whole
      <3>5. w \in Seq(LineSet(Len(steps))) /\ Len(w) = cnt
        <4>1. /\ Whole(lines, end, length) = SubSeq(lines, 1, cnt)
              /\ SubSeq(lines, 1, cnt) \in Seq(LineSet(Len(steps))) /\ Len(SubSeq(lines, 1, cnt)) = cnt
          BY <3>2, WholeIs
        <4>2. w = SubSeq(lines, 1, cnt)
          BY <2>6, <2>8, <3>1, <3>3, <3>4, <4>1, Zenon
        <4> QED
          BY <4>1, <4>2, Zenon
      <3>6. b - a = cnt
        <4>1. a <= y /\ j <= a
          BY <1>4, <3>3
        <4> QED
          BY <1>4, <3>3, <4>1
      <3> QED
        BY <3>5, <3>6, Zenon DEF Counts
    <2> QED
      BY <2>7, <2>8
  <1> QED
    BY <1>7, <1>8

LEMMA CursorCounts ==
  ASSUME steps \in Seq(Steps), Parted(files, Len(steps)), NEW pin, NEW lim \in Nat,
         pin = rd.pin, lim = rd.limit,
         NEW rows \in Seq(1..Len(steps)), Viewed(pin, lim, rows), NEW j \in Nat
  PROVE  Counts(Cursor(3 * j), j, MaxOf(j, Shown(pin, lim)))
  <1>1. Measured(pin) /\ lim <= Total(pin)
    BY DEF Viewed
  <1>2. PICK start : start = 3 * j
    OBVIOUS
  <1>3. PICK part : part = CursorParts(start)
    OBVIOUS
  <1>4. PICK R : R = [n \in Nat |-> MaxOf(j, Reach(pin, lim, n))]
    OBVIOUS
  <1>5. \A n \in Nat : Counts(part[n], R[n], R[n + 1])
    <2>1. ASSUME NEW n \in Nat PROVE Counts(part[n], R[n], R[n + 1])
      <3>1. Counts(CursorPart(n, 3 * j), MaxOf(j, Reach(pin, lim, n)), MaxOf(j, Reach(pin, lim, n + 1)))
        BY CursorPartCounts
      <3>2. part[n] = CursorPart(n, 3 * j)
        BY <1>2, <1>3, Zenon DEF CursorParts
      <3>3. R[n] = MaxOf(j, Reach(pin, lim, n)) /\ R[n + 1] = MaxOf(j, Reach(pin, lim, n + 1))
        <4>1. n + 1 \in Nat
          OBVIOUS
        <4> QED
          BY <1>4, <4>1, Zenon
      <3> QED
        BY <3>1, <3>2, <3>3, Zenon
    <2> QED
      BY <2>1
  <1>6. part \in [Nat -> Seq(LineSet(Len(steps)))]
    <2>1. \A n \in Nat : part[n] \in Seq(LineSet(Len(steps)))
      BY <1>5, Zenon DEF Counts
    <2>2. part = [n \in Nat |-> part[n]]
      BY <1>3, Zenon DEF CursorParts
    <2> QED
      BY <2>1, <2>2
  <1>7. PICK v : v = Chain_(part) /\ Chained(v, LineSet(Len(steps)), part)
    BY <1>6, Unchained
  <1>8. R[0] = j
    <2>1. Reach(pin, lim, 0) = 0
      BY <1>1, ReachEnds
    <2>2. MaxOf(j, 0) = j
      BY DEF MaxOf
    <2> QED
      BY <1>4, <2>1, <2>2, Zenon
  <1> DEFINE T == {n \in Nat : Counts(v[n], j, R[n])}
  <1>9. 0 \in T
    <2>1. <<>> \in Seq(LineSet(Len(steps))) /\ Len(<<>>) = 0 /\ j - j = 0
      BY EmptySeq
    <2>2. Counts(<<>>, j, j)
      BY <2>1 DEF Counts
    <2> QED
      BY <1>7, <1>8, <2>2, Zenon DEF Chained
  <1>10. ASSUME NEW n \in Nat, n \in T PROVE n + 1 \in T
    <2>1. PICK S, x, y, r, s : /\ S = LineSet(Len(steps)) /\ x = v[n] /\ y = part[n]
                               /\ r = R[n] /\ s = R[n + 1]
      OBVIOUS
    <2>2. /\ r \in Nat /\ s \in Nat /\ x \in Seq(S) /\ Len(x) = r - j
          /\ y \in Seq(S) /\ Len(y) = s - r
      BY <1>5, <1>10, <2>1 DEF Counts
    <2>3. x \o y \in Seq(S) /\ Len(x \o y) = s - j
      <3>1. x \o y \in Seq(S) /\ Len(x \o y) = Len(x) + Len(y)
        BY <2>2, ConcatProperties
      <3> QED
        BY <2>2, <3>1
    <2>4. v[n + 1] = x \o y
      BY <1>7, <2>1, Zenon DEF Chained
    <2>5. Counts(v[n + 1], j, R[n + 1])
      BY <2>1, <2>2, <2>3, <2>4, Zenon DEF Counts
    <2> QED
      BY <2>5
  <1>11. Nat \subseteq T
    <2> HIDE DEF T
    <2> QED
      BY <1>9, <1>10, Inductive
  <1>12. PICK k \in Nat : k = LastOf(DOMAIN pin) + 1
    <2>1. LastOf(DOMAIN pin) \in Nat
      BY <1>1, ReachEnds
    <2> QED
      BY <2>1
  <1>13. Counts(v[k], j, R[k])
    BY <1>11
  <1>14. R[k] = MaxOf(j, Shown(pin, lim))
    <2>1. Reach(pin, lim, k) = Shown(pin, lim)
      BY <1>1, <1>12, ReachEnds
    <2> QED
      BY <1>4, <2>1, Zenon
  <1>15. Cursor(start) = v[k]
    BY <1>3, <1>7, <1>12, CursorChain, Zenon
  <1> QED
    BY <1>2, <1>13, <1>14, <1>15, Zenon

-----------------------------------------------------------------------------
(* Backwards                                                               *)

\* Reverse, of what is typed.
LEMMA ReverseIs ==
  ASSUME NEW X, NEW s \in Seq(X)
  PROVE  /\ Reverse(s) \in Seq(X) /\ Len(Reverse(s)) = Len(s)
         /\ \A i \in 1..Len(s) : Reverse(s)[i] = s[(Len(s) + 1) - i]
  <1>1. PICK n \in Nat : n = Len(s)
    OBVIOUS
  <1>2. PICK r : r = Reverse(s)
    OBVIOUS
  <1>3. r = [i \in 1..n |-> s[(n - i) + 1]]
    BY <1>1, <1>2, Zenon DEF Reverse
  <1>4. \A i \in 1..n : r[i] = s[(n + 1) - i] /\ r[i] \in X
    <2>1. ASSUME NEW i \in 1..n PROVE r[i] = s[(n + 1) - i] /\ r[i] \in X
      <3>1. (n - i) + 1 = (n + 1) - i /\ (n + 1) - i \in 1..n
        OBVIOUS
      <3>2. r[i] = s[(n - i) + 1]
        BY <1>3
      <3> QED
        BY <1>1, <3>1, <3>2
    <2> QED
      BY <2>1
  <1>5. r \in [1..n -> X]
    BY <1>3, <1>4
  <1>6. r \in Seq(X)
    BY <1>5, IsASeq
  <1>7. Len(r) = n
    BY <1>5, <1>6, LenProperties
  <1> QED
    BY <1>1, <1>2, <1>4, <1>6, <1>7

LEMMA ReverseJoin ==
  ASSUME NEW X, NEW s \in Seq(X), NEW t \in Seq(X)
  PROVE  Reverse(s \o t) = Reverse(t) \o Reverse(s)
  <1>1. PICK m, n \in Nat : m = Len(s) /\ n = Len(t)
    OBVIOUS
  <1>2. PICK u, v, a, b, w : /\ u = s \o t /\ v = Reverse(u) /\ a = Reverse(t) /\ b = Reverse(s)
                             /\ w = a \o b
    OBVIOUS
  <1>3. /\ u \in Seq(X) /\ Len(u) = m + n
        /\ \A i \in 1..(m + n) : u[i] = IF i <= m THEN s[i] ELSE t[i - m]
    BY <1>1, <1>2, ConcatProperties
  <1>4. /\ v \in Seq(X) /\ Len(v) = m + n
        /\ \A i \in 1..(m + n) : v[i] = u[((m + n) + 1) - i]
    <2>1. PICK c \in Nat : c = m + n /\ Len(u) = c
      BY <1>3
    <2>2. /\ Reverse(u) \in Seq(X) /\ Len(Reverse(u)) = Len(u)
          /\ \A i \in 1..Len(u) : Reverse(u)[i] = u[(Len(u) + 1) - i]
      BY <1>3, ReverseIs
    <2> QED
      BY <1>2, <2>1, <2>2, Zenon
  <1>5. /\ a \in Seq(X) /\ Len(a) = n /\ \A i \in 1..n : a[i] = t[(n + 1) - i]
        /\ b \in Seq(X) /\ Len(b) = m /\ \A i \in 1..m : b[i] = s[(m + 1) - i]
    BY <1>1, <1>2, ReverseIs
  <1>6. /\ w \in Seq(X) /\ Len(w) = m + n
        /\ \A i \in 1..(m + n) : w[i] = IF i <= n THEN a[i] ELSE b[i - n]
    <2>1. /\ w \in Seq(X) /\ Len(w) = Len(a) + Len(b)
          /\ \A i \in 1..(Len(a) + Len(b)) : w[i] = IF i <= Len(a) THEN a[i] ELSE b[i - Len(a)]
      <3>1. a \in Seq(X) /\ b \in Seq(X)
        BY <1>5
      <3>2. /\ a \o b \in Seq(X) /\ Len(a \o b) = Len(a) + Len(b)
            /\ \A i \in 1..(Len(a) + Len(b)) : (a \o b)[i] = IF i <= Len(a) THEN a[i] ELSE b[i - Len(a)]
        BY <3>1, ConcatProperties
      <3> QED
        BY <1>2, <3>2, Zenon
    <2>2. Len(a) + Len(b) = m + n
      BY <1>5
    <2> QED
      BY <1>5, <2>1, <2>2
  <1>7. ASSUME NEW i \in 1..(m + n) PROVE v[i] = w[i]
    <2>1. PICK k \in 1..(m + n) : k = ((m + n) + 1) - i
      OBVIOUS
    <2>2. v[i] = u[k]
      BY <1>4, <2>1
    <2>3. CASE i <= n
      <3>1. k > m /\ k - m = (n + 1) - i /\ i \in 1..n
        BY <2>1, <2>3
      <3>2. u[k] = t[k - m]
        BY <1>3, <3>1
      <3>3. w[i] = a[i] /\ a[i] = t[(n + 1) - i]
        BY <1>5, <1>6, <2>3, <3>1
      <3> QED
        BY <2>2, <3>1, <3>2, <3>3
    <2>4. CASE ~(i <= n)
      <3>1. PICK l \in 1..m : l = i - n /\ (m + 1) - l = k /\ k <= m
        BY <2>1, <2>4
      <3>2. u[k] = s[k]
        BY <1>3, <3>1
      <3>3. w[i] = b[l] /\ b[l] = s[(m + 1) - l]
        BY <1>5, <1>6, <2>4, <3>1
      <3> QED
        BY <2>2, <3>1, <3>2, <3>3
    <2> QED
      BY <2>3, <2>4
  <1>8. v = w
    BY <1>4, <1>6, <1>7, SeqEqual
  <1> QED
    BY <1>2, <1>8

LEMMA ReverseNone == Reverse(<<>>) = <<>>
  <1>1. PICK X : X = {0}
    OBVIOUS
  <1>2. PICK e \in Seq(X) : e = <<>> /\ Len(e) = 0
    BY EmptySeq
  <1>3. Reverse(e) \in Seq(X) /\ Len(Reverse(e)) = 0
    BY <1>2, ReverseIs
  <1> QED
    BY <1>2, <1>3, SeqEqual

\* ReversePart, once its names are taken out.
BytesTo(n, end) == SubSeq(files[n], 1, MinOf(end, Len(files[n])))
Back(bytes, lim, base, length, end) ==
    IF base >= lim \/ bytes = <<>> THEN <<>>
    ELSE LastFirst(LinesIn(bytes), end = length \/ Newline(Last(bytes)), base)
BackAs(w, lim, n, base, length, end) == w = Back(BytesTo(n, end), lim, base, length, end)

LEMMA ReversePartIs ==
  ASSUME NEW n, NEW base, NEW length, NEW end, NEW pin, NEW lim, pin = rd.pin, lim = rd.limit,
         Window(pin, lim, n, base, length, end)
  PROVE  BackAs(ReversePart(n), lim, n, base, length, end)
  <1>1. /\ n \in DOMAIN pin /\ base = Before(pin, n) /\ length = pin[n]
        /\ end = MinOf(length, lim - base)
    BY DEF Window
  <1> DEFINE W(c, e) ==
        IF n \notin DOMAIN pin \/ c >= lim \/ BytesTo(n, e) = <<>> THEN <<>>
        ELSE LastFirst(LinesIn(BytesTo(n, e)), e = pin[n] \/ Newline(Last(BytesTo(n, e))), c)
      E(c) == MinOf(pin[n], lim - c)
  <1>2. ReversePart(n) = W(Before(pin, n), E(Before(pin, n)))
    BY Zenon DEF ReversePart, BytesTo
  <1>3. E(base) = end
    BY <1>1, Zenon
  <1> HIDE DEF W, E
  <1>4. ReversePart(n) = W(base, end)
    BY <1>1, <1>2, <1>3, Zenon
  <1> QED
    BY <1>1, <1>4, Zenon DEF W, BackAs, Back

\* From the first byte on, there is nothing before.
LEMMA EnteredFirst ==
  ASSUME NEW pin, NEW lim, NEW n, NEW base \in Nat, NEW length, NEW end,
         Window(pin, lim, n, base, length, end)
  PROVE  Entered(pin, lim, n, base, length, end, 0, 0)
  <1>1. MaxOf(0 - base, 0) = 0
    BY DEF MaxOf
  <1> QED
    BY <1>1, Zenon DEF Entered

LEMMA ReversePartLists ==
  ASSUME steps \in Seq(Steps), Parted(files, Len(steps)), NEW pin, NEW lim \in Nat,
         pin = rd.pin, lim = rd.limit,
         NEW rows \in Seq(1..Len(steps)), Viewed(pin, lim, rows), NEW n \in Nat
  PROVE  ReversePart(n) = Reverse(VisitPart(files, n, pin, 0, lim, TRUE))
  <1>1. Measured(pin)
    BY DEF Viewed
  <1>2. PICK base \in Nat : base = Before(pin, n)
    BY <1>1, BeforeIs
  <1>3. PICK w, v : w = ReversePart(n) /\ v = VisitPart(files, n, pin, 0, lim, TRUE)
    OBVIOUS
  <1>4. SUFFICES w = Reverse(v)
    BY <1>3
  <1>5. ASSUME w = <<>>, v = <<>> PROVE w = Reverse(v)
    BY <1>5, ReverseNone
  <1>6. CASE n \notin DOMAIN pin \/ ~(base < lim)
    <2>1. n \notin DOMAIN pin \/ base >= lim
      BY <1>6
    <2>2. v = <<>>
      BY <1>2, <1>3, <2>1, Zenon DEF VisitPart
    <2>3. w = <<>>
      BY <1>2, <1>3, <2>1, Zenon DEF ReversePart
    <2> QED
      BY <1>5, <2>2, <2>3
  <1>7. CASE n \in DOMAIN pin /\ base < lim
    <2>1. PICK length \in Nat : length = pin[n]
      BY <1>1, <1>7 DEF Measured
    <2>2. PICK end \in Nat : end = MinOf(length, lim - base) /\ base + end <= lim /\ end <= length
      <3>1. lim - base \in Nat
        BY <1>7
      <3> QED
        BY <3>1 DEF MinOf
    <2>3. Window(pin, lim, n, base, length, end)
      BY <1>2, <1>7, <2>1, <2>2 DEF Window
    <2>4. PICK from \in Nat : from = 0
      OBVIOUS
    <2>5. v = IF base >= lim \/ from >= end THEN <<>>
              ELSE Seen(Whole(Cut(n, from, end), end, length), base, from)
      <3>1. Entered(pin, lim, n, base, length, end, 0, 0)
        BY <2>3, EnteredFirst
      <3>2. Visited(VisitPart(files, n, pin, 0, lim, TRUE), lim, n, base, length, end, 0)
        BY <3>1, VisitPartIs
      <3> QED
        BY <1>3, <2>4, <3>2, Zenon DEF Visited
    <2>6. PICK bytes : bytes = BytesTo(n, end)
      OBVIOUS
    <2>7. w = Back(bytes, lim, base, length, end)
      <3>1. BackAs(ReversePart(n), lim, n, base, length, end)
        BY <2>3, ReversePartIs
      <3> QED
        BY <1>3, <2>6, <3>1, Zenon DEF BackAs
    <2>8. /\ n \in DOMAIN files /\ end <= Len(files[n]) /\ Len(files[n]) \in Nat
          /\ files[n] \in Seq(ByteSet(Len(steps)))
          /\ \A i \in 1..end : files[n][i] = ByteOf(rows, base + i)
      <3>1. files[n] \in Seq(ByteSet(Len(steps))) /\ n \in DOMAIN files
        BY <1>2, <1>7 DEF Viewed, Parted
      <3> QED
        BY <1>2, <1>7, <2>1, <2>2, <3>1, SMTT(30) DEF Viewed
    <2>9. /\ bytes \in Seq(ByteSet(Len(steps))) /\ Len(bytes) = end
          /\ \A i \in 1..end : bytes[i] = ByteOf(rows, base + i)
      <3>1. MinOf(end, Len(files[n])) = end
        BY <2>8 DEF MinOf
      <3>2. bytes = SubSeq(files[n], 1, end)
        BY <2>6, <3>1, Zenon DEF BytesTo
      <3>3. end \in 0..Len(files[n])
        BY <2>8
      <3> QED
        BY <2>8, <3>2, <3>3, CutTo
    <2>10. CASE end = 0
      <3>1. bytes = <<>>
        BY <2>9, <2>10
      <3>2. w = <<>>
        BY <2>7, <3>1 DEF Back
      <3>3. v = <<>>
        BY <2>4, <2>5, <2>10
      <3> QED
        BY <1>5, <3>2, <3>3
    <2>11. CASE end # 0
      <3>1. base % 3 = 0
        BY <1>2, <1>7 DEF Viewed, LineBytes
      <3>2. PICK a \in Nat : base = 3 * a
        BY <3>1
      <3>3. from < end /\ base + from = 3 * a /\ ~(base >= lim) /\ ~(from >= end)
        BY <1>7, <2>4, <2>11, <3>2
      <3>4. PICK lines, num, cnt : CutIs(lines, pin, lim, rows, n, base, length, end, from, a, num, cnt)
        BY <2>3, <3>3, PartCut
      <3>5. /\ lines = Cut(n, from, end) /\ cnt \in Nat /\ num \in Nat /\ cnt <= num /\ num <= cnt + 1
            /\ lines \in Seq(LineSet(Len(steps))) /\ Len(lines) = num
            /\ cnt = num <=> end = length \/ (base + end) % LineBytes = 0
        BY <3>4, Zenon DEF CutIs, Cut
      <3>6. lines = LinesIn(bytes)
        <4>1. from + 1 = 1
          BY <2>4
        <4> QED
          BY <2>6, <3>5, <4>1, Zenon DEF Cut, BytesTo
      <3>7. PICK found : found = SubSeq(lines, 1, cnt)
        OBVIOUS
      <3>8. /\ Whole(lines, end, length) = found
            /\ found \in Seq(LineSet(Len(steps))) /\ Len(found) = cnt
            /\ \A i \in 1..cnt : found[i] = lines[i] /\ i \in 1..num
        BY <3>4, <3>7, WholeIs
      <3>9. v = [i \in 1..cnt |-> Moved(found[i], base + from + found[i].at)]
        BY <2>5, <3>3, <3>5, <3>8, Zenon DEF Seen
      <3>10. Newline(Last(bytes)) <=> (base + end) % LineBytes = 0
        <4>1. Last(bytes) = ByteOf(rows, base + end)
          <5>1. end \in 1..end
            BY <2>11
          <5>2. bytes[end] = ByteOf(rows, base + end)
            BY <2>9, <5>1
          <5> QED
            BY <2>9, <5>2, Zenon DEF Last
        <4>2. Newline(ByteOf(rows, base + end)) <=> PlaceOf(base + end) = LineBytes
          BY DEF Newline, ByteOf
        <4>3. PlaceOf(base + end) = LineBytes <=> (base + end) % LineBytes = 0
          BY <2>11 DEF PlaceOf, LineBytes
        <4> QED
          BY <4>1, <4>2, <4>3, Zenon
      <3>11. PICK whole \in BOOLEAN : whole = (end = length \/ Newline(Last(bytes)))
        OBVIOUS
      <3>12. (IF whole THEN num ELSE num - 1) = cnt
        <4>1. whole <=> cnt = num
          BY <3>5, <3>10, <3>11, Zenon
        <4> QED
          BY <3>5, <4>1
      <3>13. bytes # <<>>
        BY <2>9, <2>11
      <3>14. w = LastFirst(lines, whole, base)
        BY <2>7, <3>3, <3>6, <3>11, <3>13, Zenon DEF Back
      <3>15. w = [i \in 1..cnt |-> Moved(lines[cnt + 1 - i], base + lines[cnt + 1 - i].at)]
        <4>1. w = [i \in 1..(IF whole THEN num ELSE num - 1) |->
                     [lines[(IF whole THEN num ELSE num - 1) + 1 - i] EXCEPT !.at = base + @]]
          BY <3>5, <3>14, Zenon DEF LastFirst
        <4>2. w = [i \in 1..cnt |-> [lines[cnt + 1 - i] EXCEPT !.at = base + @]]
          BY <3>12, <4>1, Zenon
        <4> QED
          BY <4>2, Zenon DEF Moved
      <3>16. ASSUME NEW i \in 1..cnt PROVE v[i] \in LineSet(Len(steps))
        <4>1. found[i] \in LineSet(Len(steps))
          BY <3>8
        <4>2. base + from + found[i].at \in Nat
          BY <4>1 DEF LineSet
        <4>3. v[i] = Moved(found[i], base + from + found[i].at)
          BY <3>9
        <4> QED
          BY <4>1, <4>2, <4>3, MovedType
      <3>17. v \in Seq(LineSet(Len(steps))) /\ Len(v) = cnt
        <4>1. PICK S : S = LineSet(Len(steps))
          OBVIOUS
        <4>2. v \in [1..cnt -> S]
          BY <3>9, <3>16, <4>1
        <4>3. v \in Seq(S)
          BY <3>5, <4>2, IsASeq
        <4>4. Len(v) = cnt
          BY <3>5, <4>2, <4>3, LenProperties
        <4> QED
          BY <4>1, <4>3, <4>4
      <3>18. Reverse(v) = [i \in 1..cnt |-> v[(cnt - i) + 1]]
        BY <3>17, Zenon DEF Reverse
      <3>19. ASSUME NEW i \in 1..cnt
             PROVE  v[(cnt - i) + 1] = Moved(lines[cnt + 1 - i], base + lines[cnt + 1 - i].at)
        <4>1. PICK k \in 1..cnt : k = (cnt - i) + 1 /\ k = cnt + 1 - i
          BY <3>5
        <4>2. v[k] = Moved(found[k], base + from + found[k].at)
          BY <3>9
        <4>3. base + from = base
          BY <2>4
        <4>4. found[k] = lines[k]
          BY <3>8
        <4> QED
          BY <4>1, <4>2, <4>3, <4>4, Zenon
      <3> QED
        BY <3>15, <3>18, <3>19, Zenon
    <2> QED
      BY <2>10, <2>11
  <1> QED
    BY <1>6, <1>7

LEMMA BackwardsIs ==
  ASSUME steps \in Seq(Steps), Parted(files, Len(steps)), NEW pin, NEW lim \in Nat,
         pin = rd.pin, lim = rd.limit, NEW rows \in Seq(1..Len(steps)), Viewed(pin, lim, rows)
  PROVE  Backwards = Reverse(PinnedLines)
  <1>1. PICK X : X = LineSet(Len(steps))
    OBVIOUS
  <1>2. Measured(pin) /\ lim <= Total(pin)
    BY DEF Viewed
  <1>3. PICK part, back : part = VisitParts(pin, 0, lim) /\ back = ReverseParts
    OBVIOUS
  <1>4. \A n \in Nat : part[n] \in Seq(X) /\ back[n] = Reverse(part[n]) /\ back[n] \in Seq(X)
    <2>1. ASSUME NEW n \in Nat
          PROVE  part[n] \in Seq(X) /\ back[n] = Reverse(part[n]) /\ back[n] \in Seq(X)
      <3>1. part[n] = VisitPart(files, n, pin, 0, lim, TRUE) /\ back[n] = ReversePart(n)
        BY <1>3, Zenon DEF VisitParts, ReverseParts
      <3>2. part[n] \in Seq(X)
        <4>1. PICK j \in Nat : j = 0 /\ 3 * j = 0
          OBVIOUS
        <4>2. Lists(VisitPart(files, n, pin, 3 * j, lim, TRUE), rows, lim,
                    MaxOf(j, Reach(pin, lim, n)), MaxOf(j, Reach(pin, lim, n + 1)))
          BY VisitPartLists
        <4>3. VisitPart(files, n, pin, 3 * j, lim, TRUE) \in Seq(X)
          BY <1>1, <4>2, Zenon DEF Lists
        <4> QED
          BY <3>1, <4>1, <4>3, Zenon
      <3>3. back[n] = Reverse(part[n])
        BY <3>1, ReversePartLists
      <3>4. back[n] \in Seq(X)
        BY <3>2, <3>3, ReverseIs
      <3> QED
        BY <3>2, <3>3, <3>4
    <2> QED
      BY <2>1
  <1>5. part \in [Nat -> Seq(X)] /\ back \in [Nat -> Seq(X)]
    <2>1. part = [n \in Nat |-> part[n]] /\ back = [n \in Nat |-> back[n]]
      BY <1>3, Zenon DEF VisitParts, ReverseParts
    <2> QED
      BY <1>4, <2>1
  <1>6. PICK v, u : /\ v = Chain_(part) /\ Chained(v, X, part)
                    /\ u = ChainBack_(back) /\ ChainedBack(u, X, back)
    BY <1>5, Unchained
  <1> DEFINE T == {n \in Nat : u[n] = Reverse(v[n])}
  <1>7. 0 \in T
    <2>1. u[0] = <<>> /\ v[0] = <<>>
      BY <1>6, Zenon DEF Chained, ChainedBack
    <2> QED
      BY <2>1, ReverseNone
  <1>8. ASSUME NEW n \in Nat, n \in T PROVE n + 1 \in T
    <2>1. /\ u[n + 1] = back[n] \o u[n] /\ v[n + 1] = v[n] \o part[n] /\ v[n] \in Seq(X)
          /\ u[n] = Reverse(v[n])
      BY <1>6, <1>8, Zenon DEF Chained, ChainedBack
    <2>2. Reverse(v[n] \o part[n]) = Reverse(part[n]) \o Reverse(v[n])
      BY <1>4, <2>1, ReverseJoin
    <2>3. u[n + 1] = Reverse(v[n + 1])
      BY <1>4, <2>1, <2>2, Zenon
    <2> QED
      BY <2>3
  <1>9. Nat \subseteq T
    <2> HIDE DEF T
    <2> QED
      BY <1>7, <1>8, Inductive
  <1>10. PICK k \in Nat : k = LastOf(DOMAIN pin) + 1
    <2>1. LastOf(DOMAIN pin) \in Nat
      BY <1>2, ReachEnds
    <2> QED
      BY <2>1
  <1>11. u[k] = Reverse(v[k])
    BY <1>9
  <1>12. PinnedLines = v[k]
    BY <1>3, <1>6, <1>10, VisitChain, Zenon DEF PinnedLines
  <1>13. Backwards = u[k]
    BY <1>3, <1>6, <1>10, BackwardsChain, Zenon
  <1> QED
    BY <1>11, <1>12, <1>13, Zenon

-----------------------------------------------------------------------------
(* Some places of a sequence                                               *)

\* A set of numbers, in order.
Orders(t, S) ==
    /\ t \in Seq(Nat) /\ Rising(t)
    /\ \A i \in 1..Len(t) : t[i] \in S
    /\ \A x \in S : \E i \in 1..Len(t) : x = t[i]

LEMMA AscendingOrders ==
  ASSUME NEW S, NEW top \in Nat, S \subseteq 0..top
  PROVE  Orders(Ascending(S), S)
  <1>1. PICK u : u = Upto(S)
    OBVIOUS
  <1>2. /\ u[0] = <<>>
        /\ \A n \in Nat : u[n] \in Seq(Nat) /\ u[n + 1] = IF n \in S THEN Append(u[n], n) ELSE u[n]
    BY <1>1, UptoIs
  <1> DEFINE Upper(n) == {x \in S : x < n}
             T == {n \in Nat : Orders(u[n], Upper(n))}
  <1>9. \A x \in S : x \in Nat
    OBVIOUS
  <1>3. 0 \in T
    <2>1. Upper(0) = {}
      <3>1. ASSUME NEW x \in S, x < 0 PROVE FALSE
        <4>1. x \in Nat
          BY <1>9
        <4> QED
          BY <3>1, <4>1
      <3> QED
        BY <3>1
    <2>2. <<>> \in Seq(Nat) /\ Len(<<>>) = 0
      BY EmptySeq
    <2>3. Orders(<<>>, {})
      BY <2>2 DEF Orders, Rising
    <2> QED
      BY <1>2, <2>1, <2>3
  <1>4. ASSUME NEW n \in Nat, n \in T PROVE n + 1 \in T
    <2>1. PICK t, l : t = u[n] /\ l = Len(t)
      OBVIOUS
    <2>2. /\ t \in Seq(Nat) /\ l \in Nat /\ Orders(t, Upper(n))
      BY <1>2, <1>4, <2>1
    <2>3. /\ \A i \in 2..l : t[i - 1] < t[i]
          /\ \A i \in 1..l : t[i] \in Nat /\ t[i] \in S /\ t[i] < n
          /\ \A x \in S : x < n => \E i \in 1..l : x = t[i]
      <3>1. \A i \in 1..l : t[i] \in Upper(n)
        BY <2>1, <2>2, Zenon DEF Orders
      <3>2. \A x \in Upper(n) : \E i \in 1..l : x = t[i]
        BY <2>1, <2>2, Zenon DEF Orders
      <3>3. \A i \in 2..l : t[i - 1] < t[i]
        BY <2>1, <2>2, Zenon DEF Orders, Rising
      <3>4. \A i \in 1..l : t[i] \in Nat
        BY <2>1, <2>2
      <3> QED
        BY <3>1, <3>2, <3>3, <3>4
    <2>4. CASE n \notin S
      <3>1. u[n + 1] = t /\ Upper(n + 1) = Upper(n)
        <4>1. Upper(n + 1) = Upper(n)
          <5>1. ASSUME NEW x \in S PROVE x < n + 1 <=> x < n
            <6>1. x \in Nat /\ x # n
              BY <1>9, <2>4
            <6> QED
              BY <6>1
          <5> QED
            BY <5>1
        <4> QED
          BY <1>2, <2>1, <2>4, <4>1
      <3>2. Orders(u[n + 1], Upper(n + 1))
        BY <2>2, <3>1, Zenon
      <3> QED
        BY <3>2
    <2>5. CASE n \in S
      <3>1. PICK w : w = Append(t, n) /\ w = u[n + 1]
        BY <1>2, <2>1, <2>5
      <3>2. /\ w \in Seq(Nat) /\ Len(w) = l + 1 /\ w[l + 1] = n
            /\ \A i \in 1..l : w[i] = t[i]
        <4>1. PICK r \in Seq(Nat) : r = t /\ Len(r) = l
          BY <2>1, <2>2
        <4>2. /\ Append(r, n) \in Seq(Nat) /\ Len(Append(r, n)) = Len(r) + 1
              /\ \A i \in 1..Len(r) : Append(r, n)[i] = r[i]
              /\ Append(r, n)[Len(r) + 1] = n
          BY AppendProperties
        <4> QED
          BY <3>1, <4>1, <4>2, Zenon
      <3>3. Rising(w)
        <4>1. ASSUME NEW i \in 2..(l + 1) PROVE w[i - 1] < w[i]
          <5>1. CASE i <= l
            <6>1. i \in 2..l /\ i - 1 \in 1..l /\ i \in 1..l
              BY <2>2, <5>1
            <6> QED
              BY <2>3, <3>2, <6>1
          <5>2. CASE ~(i <= l)
            <6>1. i = l + 1 /\ i - 1 = l /\ l \in 1..l
              BY <2>2, <5>2
            <6> QED
              BY <2>3, <3>2, <6>1
          <5> QED
            BY <5>1, <5>2
        <4> QED
          BY <3>2, <4>1, Zenon DEF Rising
      <3>4. ASSUME NEW i \in 1..(l + 1) PROVE w[i] \in Upper(n + 1)
        <4>1. i \in 1..l \/ i = l + 1
          BY <2>2
        <4> QED
          BY <2>3, <2>5, <3>2, <4>1
      <3>5. ASSUME NEW x \in Upper(n + 1) PROVE \E i \in 1..(l + 1) : x = w[i]
        <4>1. CASE x = n
          <5>1. l + 1 \in 1..(l + 1)
            BY <2>2
          <5> QED
            BY <3>2, <4>1, <5>1
        <4>2. CASE x # n
          <5>0. x \in Nat
            OBVIOUS
          <5>1. x \in S /\ x < n
            BY <4>2, <5>0
          <5>2. PICK i \in 1..l : x = t[i]
            BY <2>3, <5>1
          <5>3. i \in 1..(l + 1) /\ x = w[i]
            BY <2>2, <3>2, <5>2
          <5> QED
            BY <5>3
        <4> QED
          BY <4>1, <4>2
      <3>6. Orders(w, Upper(n + 1))
        <4> HIDE DEF Upper
        <4> QED
          BY <3>2, <3>3, <3>4, <3>5, Zenon DEF Orders
      <3> QED
        BY <3>1, <3>6
    <2> QED
      BY <2>4, <2>5
  <1>5. Nat \subseteq T
    <2> HIDE DEF T
    <2> QED
      BY <1>3, <1>4, Inductive
  <1>6. PICK l \in Nat : l = LastOf(S) + 1 /\ \A x \in S : x \in Nat /\ x < l
    <2>1. PICK k \in 0..top : k = LastOf(S) /\ \A m \in S : m <= k
      BY LastIs
    <2>2. \A x \in S : x \in Nat /\ x < k + 1
      BY <2>1
    <2> QED
      BY <2>1, <2>2
  <1>7. Orders(u[l], Upper(l))
    BY <1>5
  <1>8. Upper(l) = S
    BY <1>6
  <1> QED
    BY <1>1, <1>6, <1>7, <1>8, AscendingUpto, Zenon

\* What Pick takes, by the places in order.
Picked(p, s, t, X) ==
    p \in Seq(X) /\ Len(p) = Len(t) /\ \A i \in 1..Len(t) : p[i] = s[t[i]] /\ t[i] \in 1..Len(s)

LEMMA PickIs ==
  ASSUME NEW X, NEW s \in Seq(X), NEW P, P \subseteq 1..Len(s), NEW t, Orders(t, P)
  PROVE  Picked(Pick(s, P), s, t, X)
  <1>1. PICK n \in Nat : n = Len(t)
    BY DEF Orders
  <1>2. Ascending(P) = t
    BY AscendingIs DEF Orders
  <1>3. \A i \in 1..n : t[i] \in 1..Len(s)
    BY <1>1 DEF Orders
  <1>4. PICK p : p = Pick(s, P)
    OBVIOUS
  <1>5. p = [i \in 1..n |-> s[t[i]]]
    BY <1>1, <1>2, <1>4, Zenon DEF Pick
  <1>6. \A i \in 1..n : s[t[i]] \in X
    BY <1>3, ElementOfSeq
  <1>7. p \in [1..n -> X]
    BY <1>5, <1>6
  <1>8. p \in Seq(X)
    BY <1>7, IsASeq
  <1>9. Len(p) = n
    BY <1>7, <1>8, LenProperties
  <1>10. \A i \in 1..n : p[i] = s[t[i]]
    BY <1>5
  <1> QED
    BY <1>1, <1>3, <1>4, <1>8, <1>9, <1>10, Zenon DEF Picked

\* The places from one to another are a part.
LEMMA PickSpan ==
  ASSUME NEW X, NEW s \in Seq(X), NEW a \in Nat, NEW b \in Nat, a <= b, b <= Len(s)
  PROVE  /\ Pick(s, (a + 1)..b) \in Seq(X) /\ Len(Pick(s, (a + 1)..b)) = b - a
         /\ \A i \in 1..(b - a) : Pick(s, (a + 1)..b)[i] = s[a + i]
  <1>1. PICK n \in Nat : n = b - a
    OBVIOUS
  <1>2. PICK t : t = [i \in 1..n |-> a + i]
    OBVIOUS
  <1>3. t \in Seq(Nat) /\ Len(t) = n /\ \A i \in 1..n : t[i] = a + i
    BY <1>2
  <1>4. PICK P : P = (a + 1)..b
    OBVIOUS
  <1>5. Orders(t, P)
    <2>1. \A i \in 2..n : t[i - 1] < t[i]
      <3>1. ASSUME NEW i \in 2..n PROVE t[i - 1] < t[i]
        <4>1. i - 1 \in 1..n /\ i \in 1..n
          OBVIOUS
        <4>2. t[i - 1] = a + (i - 1) /\ t[i] = a + i
          BY <1>3, <4>1
        <4> QED
          BY <4>2
      <3> QED
        BY <3>1
    <2>2. \A i \in 1..n : t[i] \in P
      BY <1>1, <1>3, <1>4
    <2>3. ASSUME NEW x \in P PROVE \E i \in 1..n : x = t[i]
      <3>1. x - a \in 1..n /\ a + (x - a) = x
        BY <1>1, <1>4
      <3> QED
        BY <1>3, <3>1
    <2> QED
      BY <1>3, <2>1, <2>2, <2>3, Zenon DEF Orders, Rising
  <1>6. P \subseteq 1..Len(s)
    BY <1>4
  <1>7. Picked(Pick(s, P), s, t, X)
    BY <1>5, <1>6, PickIs
  <1> QED
    BY <1>1, <1>3, <1>4, <1>7, Zenon DEF Picked

\* Places of a last part are places of the whole.
ShiftOf(X, w, s, a, P, Q) ==
    /\ s \in Seq(X) /\ a \in Nat /\ a <= Len(s) /\ w \in Seq(X) /\ Len(w) = Len(s) - a
    /\ \A i \in 1..Len(w) : w[i] = s[a + i]
    /\ P \subseteq 1..Len(w) /\ Q \subseteq 1..Len(s)
    /\ \A i \in 1..Len(s) : i \in Q <=> i > a /\ i - a \in P
PickedAlike(X, w, s, a, P, Q) == Pick(w, P) = Pick(s, Q)

LEMMA PickShift ==
  ASSUME NEW X, NEW w, NEW s, NEW a, NEW P, NEW Q, ShiftOf(X, w, s, a, P, Q)
  PROVE  PickedAlike(X, w, s, a, P, Q)
  <1> SUFFICES ASSUME s \in Seq(X), a \in Nat, a <= Len(s), w \in Seq(X),
                      Len(w) = Len(s) - a, \A i \in 1..Len(w) : w[i] = s[a + i],
                      P \subseteq 1..Len(w), Q \subseteq 1..Len(s),
                      \A i \in 1..Len(s) : i \in Q <=> i > a /\ i - a \in P
               PROVE  Pick(w, P) = Pick(s, Q)
    BY Zenon DEF ShiftOf, PickedAlike
  <1>1. PICK n, m \in Nat : n = Len(s) /\ m = Len(w)
    OBVIOUS
  <1>2. PICK t : t = Ascending(P) /\ Orders(t, P)
    <2>1. P \subseteq 0..m
      BY <1>1
    <2> QED
      BY <2>1, AscendingOrders
  <1>3. PICK l \in Nat : l = Len(t) /\ t \in Seq(Nat)
    BY <1>2 DEF Orders
  <1>4. /\ \A i \in 2..l : t[i - 1] < t[i]
        /\ \A i \in 1..l : t[i] \in Nat /\ t[i] \in P
        /\ \A x \in P : \E i \in 1..l : x = t[i]
    BY <1>2, <1>3 DEF Orders, Rising
  <1>5. PICK u : u = [i \in 1..l |-> a + t[i]]
    OBVIOUS
  <1>6. u \in Seq(Nat) /\ Len(u) = l /\ \A i \in 1..l : u[i] = a + t[i]
    BY <1>4, <1>5
  <1>7. Orders(u, Q)
    <2>1. ASSUME NEW i \in 2..l PROVE u[i - 1] < u[i]
      <3>1. i - 1 \in 1..l /\ i \in 1..l
        OBVIOUS
      <3>2. PICK x, y \in Nat : x = t[i - 1] /\ y = t[i] /\ x < y
        BY <1>4, <3>1
      <3>3. u[i - 1] = a + x /\ u[i] = a + y
        BY <1>6, <3>1, <3>2, Zenon
      <3> QED
        BY <3>2, <3>3
    <2>2. ASSUME NEW i \in 1..l PROVE u[i] \in Q
      <3>1. PICK x \in 1..m : x = t[i] /\ x \in P
        BY <1>1, <1>4
      <3>2. PICK y \in 1..n : y = a + x /\ y > a /\ y - a = x
        BY <1>1, <3>1
      <3>3. y \in Q
        BY <1>1, <3>1, <3>2
      <3> QED
        BY <1>6, <3>1, <3>2, <3>3
    <2>3. ASSUME NEW y \in Q PROVE \E i \in 1..l : y = u[i]
      <3>1. y \in 1..n /\ y > a /\ y - a \in P
        BY <1>1
      <3>2. PICK i \in 1..l : y - a = t[i]
        BY <1>4, <3>1
      <3>3. u[i] = y
        BY <1>6, <3>1, <3>2
      <3> QED
        BY <3>3
    <2> QED
      BY <1>6, <2>1, <2>2, <2>3, Zenon DEF Orders, Rising
  <1>8. Picked(Pick(w, P), w, t, X) /\ Picked(Pick(s, Q), s, u, X)
    <2>1. Picked(Pick(w, P), w, t, X)
      BY <1>2, PickIs
    <2>2. Picked(Pick(s, Q), s, u, X)
      BY <1>7, PickIs
    <2> QED
      BY <2>1, <2>2
  <1>9. PICK p, q : p = Pick(w, P) /\ q = Pick(s, Q)
    OBVIOUS
  <1>10. /\ p \in Seq(X) /\ Len(p) = l /\ \A i \in 1..l : p[i] = w[t[i]] /\ t[i] \in 1..m
         /\ q \in Seq(X) /\ Len(q) = l /\ \A i \in 1..l : q[i] = s[u[i]]
    BY <1>1, <1>3, <1>6, <1>8, <1>9, Zenon DEF Picked
  <1>11. ASSUME NEW i \in 1..l PROVE p[i] = q[i]
    <2>1. PICK x \in 1..m : x = t[i]
      BY <1>10
    <2>2. w[x] = s[a + x]
      BY <1>1
    <2> QED
      BY <1>6, <1>10, <2>1, <2>2
  <1>12. p = q
    BY <1>10, <1>11, SeqEqual
  <1> QED
    BY <1>9, <1>12

-----------------------------------------------------------------------------
(* Queries over rows                                                       *)

\* Rows with steps, and rows whose steps rise.
Stepped(X) == \A x \in X : x.step \in Nat
Strict(r) == \A i \in 2..Len(r) : r[i - 1].step < r[i].step

LEMMA StrictPairs ==
  ASSUME NEW X, Stepped(X), NEW r \in Seq(X), Strict(r)
  PROVE  \A i, j \in 1..Len(r) : /\ r[i].step \in Nat /\ r[j].step \in Nat
                                 /\ i < j => r[i].step < r[j].step
  <1>1. PICK n \in Nat : n = Len(r)
    OBVIOUS
  <1>2. PICK t : t = [i \in 1..n |-> r[i].step]
    OBVIOUS
  <1>3. \A i \in 1..n : r[i] \in X /\ r[i].step \in Nat
    BY <1>1, ElementOfSeq DEF Stepped
  <1>4. t \in Seq(Nat) /\ Len(t) = n /\ \A i \in 1..n : t[i] = r[i].step
    <2>1. t \in [1..n -> Nat]
      BY <1>2, <1>3
    <2>2. t \in Seq(Nat)
      BY <2>1, IsASeq
    <2>3. Len(t) = n
      BY <2>1, <2>2, LenProperties
    <2> QED
      BY <1>2, <2>2, <2>3
  <1>5. Rising(t)
    <2>1. \A i \in 2..n : i \in 1..n /\ i - 1 \in 1..n
      OBVIOUS
    <2> QED
      BY <1>1, <1>4, <2>1, Zenon DEF Rising, Strict
  <1>6. \A i, j \in 1..n : i < j => t[i] < t[j]
    BY <1>4, <1>5, RisingPairs
  <1> QED
    BY <1>1, <1>3, <1>4, <1>6

\* There is a last step.
LEMMA StepsBounded ==
  ASSUME NEW X, Stepped(X), NEW r \in Seq(X)
  PROVE  \E top \in Nat : Steps_(r) \subseteq 0..top
  <1>1. PICK n \in Nat : n = Len(r)
    OBVIOUS
  <1>2. \A i \in 1..n : r[i].step \in Nat
    BY <1>1, ElementOfSeq DEF Stepped
  <1> DEFINE T == {m \in Nat : \E top \in Nat : \A i \in 1..n : i <= m => r[i].step <= top}
  <1>3. 0 \in T
    OBVIOUS
  <1>4. ASSUME NEW m \in Nat, m \in T PROVE m + 1 \in T
    <2>1. PICK top \in Nat : \A i \in 1..n : i <= m => r[i].step <= top
      BY <1>4
    <2>2. CASE m + 1 \in 1..n
      <3>1. PICK s \in Nat : s = r[m + 1].step
        BY <1>2, <2>2
      <3>2. PICK new \in Nat : new >= s /\ new >= top
        <4>1. CASE s >= top
          BY <4>1
        <4>2. CASE ~(s >= top)
          BY <4>2
        <4> QED
          BY <4>1, <4>2
      <3>3. ASSUME NEW i \in 1..n, i <= m + 1 PROVE r[i].step <= new
        <4>1. PICK v \in Nat : v = r[i].step
          BY <1>2
        <4>2. CASE i = m + 1
          BY <3>1, <3>2, <4>2
        <4>3. CASE i # m + 1
          <5>1. i <= m
            BY <3>3, <4>3
          <5>2. v <= top
            BY <2>1, <4>1, <5>1
          <5>3. v <= new
            BY <3>2, <5>2
          <5> QED
            BY <4>1, <5>3
        <4> QED
          BY <4>2, <4>3
      <3> QED
        BY <3>3
    <2>3. CASE m + 1 \notin 1..n
      <3>1. ASSUME NEW i \in 1..n, i <= m + 1 PROVE i <= m
        BY <2>3, <3>1
      <3>2. \A i \in 1..n : i <= m + 1 => r[i].step <= top
        BY <2>1, <3>1
      <3> QED
        BY <3>2
    <2> QED
      BY <2>2, <2>3
  <1>5. Nat \subseteq T
    <2> HIDE DEF T
    <2> QED
      BY <1>3, <1>4, Inductive
  <1>6. PICK top \in Nat : \A i \in 1..n : r[i].step <= top
    <2>1. n \in T
      BY <1>5
    <2>2. \A i \in 1..n : i <= n
      OBVIOUS
    <2> QED
      BY <2>1, <2>2
  <1>7. ASSUME NEW x \in Steps_(r) PROVE x \in 0..top
    <2>1. PICK i \in 1..n : x = r[i].step
      BY <1>1 DEF Steps_
    <2>2. PICK v \in Nat : v = r[i].step /\ v <= top
      BY <1>2, <1>6
    <2> QED
      BY <2>1, <2>2
  <1> QED
    BY <1>7

\* The rows of one step each, merged, are themselves.
LEMMA MergedStrict ==
  ASSUME NEW X, Stepped(X), NEW r \in Seq(X), Strict(r)
  PROVE  Merged(r) = Single(r)
  <1>1. PICK n \in Nat : n = Len(r)
    OBVIOUS
  <1>2. \A i \in 1..n : r[i] \in X /\ r[i].step \in Nat
    BY <1>1, ElementOfSeq DEF Stepped
  <1>3. \A i, j \in 1..n : i < j => r[i].step < r[j].step
    BY <1>1, StrictPairs
  <1>4. PICK t : t = [i \in 1..n |-> r[i].step]
    OBVIOUS
  <1>5. t \in Seq(Nat) /\ Len(t) = n /\ \A i \in 1..n : t[i] = r[i].step
    <2>1. t \in [1..n -> Nat]
      BY <1>2, <1>4
    <2>2. t \in Seq(Nat)
      BY <2>1, IsASeq
    <2>3. Len(t) = n
      BY <2>1, <2>2, LenProperties
    <2> QED
      BY <1>4, <2>2, <2>3
  <1>6. PICK S : S = Steps_(r)
    OBVIOUS
  <1>7. /\ \A i \in 1..n : t[i] \in S
        /\ \A x \in S : \E i \in 1..n : x = t[i]
    BY <1>1, <1>5, <1>6 DEF Steps_
  <1>8. Rising(t)
    <2>1. \A i \in 2..n : i \in 1..n /\ i - 1 \in 1..n /\ i - 1 < i
      OBVIOUS
    <2>2. \A i \in 2..n : t[i - 1] < t[i]
      BY <1>3, <1>5, <2>1
    <2> QED
      BY <1>5, <2>2, Zenon DEF Rising
  <1>9. Ascending(S) = t
    BY <1>5, <1>7, <1>8, AscendingIs
  <1>10. ASSUME NEW i \in 1..n
         PROVE  Pick(r, {j \in 1..Len(r) : r[j].step = t[i]}) = <<r[i]>>
    <2>1. PICK P : P = {j \in 1..Len(r) : r[j].step = t[i]}
      OBVIOUS
    <2>2. P = {i}
      <3>1. ASSUME NEW j \in 1..n, j # i PROVE r[j].step # r[i].step
        <4>1. PICK v, w \in Nat : v = r[j].step /\ w = r[i].step
          BY <1>2
        <4>2. j < i \/ i < j
          BY <3>1
        <4>3. v < w \/ w < v
          BY <1>3, <4>1, <4>2
        <4>4. v # w
          BY <4>3
        <4> QED
          BY <4>1, <4>4
      <3> QED
        BY <1>1, <1>5, <2>1, <3>1
    <2>3. PICK one : one = <<i>>
      OBVIOUS
    <2>4. one \in Seq(Nat) /\ Len(one) = 1 /\ one[1] = i
      BY <2>3
    <2>5. Orders(one, P)
      BY <2>2, <2>4 DEF Orders, Rising
    <2>6. P \subseteq 1..Len(r)
      BY <2>1
    <2>7. Picked(Pick(r, P), r, one, X)
      BY <2>5, <2>6, PickIs
    <2>8. PICK p : p = Pick(r, P)
      OBVIOUS
    <2>9. p \in Seq(X) /\ Len(p) = 1 /\ p[1] = r[i]
      BY <2>4, <2>7, <2>8 DEF Picked
    <2>10. p = <<r[i]>>
      BY <2>9
    <2> QED
      BY <2>1, <2>8, <2>10
  <1>11. Merged(r) = [i \in 1..n |-> Pick(r, {j \in 1..Len(r) : r[j].step = t[i]})]
    BY <1>5, <1>6, <1>9, Zenon DEF Merged
  <1>12. Single(r) = [i \in 1..n |-> <<r[i]>>]
    BY <1>1, Zenon DEF Single
  <1> QED
    BY <1>10, <1>11, <1>12, Zenon

\* The last rows, one by one.
LEMMA TakeLastIs ==
  ASSUME NEW X, NEW s \in Seq(X), NEW n \in Nat
  PROVE  \E a \in 0..Len(s) :
           /\ TakeLast(s, n) = SubSeq(s, a + 1, Len(s))
           /\ n = 0 => a = 0
           /\ n # 0 => a = (IF Len(s) <= n THEN 0 ELSE Len(s) - n)
  <1>1. PICK l \in Nat : l = Len(s)
    OBVIOUS
  <1>2. CASE n = 0
    <2>1. SubSeq(s, 1, Len(s)) = s
      BY SubSeqFull
    <2>2. TakeLast(s, n) = s
      BY <1>2 DEF TakeLast
    <2>3. 0 \in 0..Len(s) /\ 0 + 1 = 1
      BY <1>1
    <2> QED
      BY <1>2, <2>1, <2>2, <2>3
  <1>3. CASE n # 0
    <2>1. PICK a \in 0..l : a = (IF l <= n THEN 0 ELSE l - n) /\ MaxOf(1, l - n + 1) = a + 1
      BY <1>3 DEF MaxOf
    <2>2. TakeLast(s, n) = SubSeq(s, a + 1, Len(s))
      BY <1>1, <1>3, <2>1, Zenon DEF TakeLast
    <2> QED
      BY <1>1, <1>3, <2>1, <2>2
  <1> QED
    BY <1>2, <1>3

LEMMA TakeLastType ==
  ASSUME NEW X, NEW s \in Seq(X), NEW n \in Nat
  PROVE  TakeLast(s, n) \in Seq(X)
  <1>1. PICK a \in 0..Len(s) : TakeLast(s, n) = SubSeq(s, a + 1, Len(s))
    BY TakeLastIs
  <1>2. SubSeq(s, a + 1, Len(s)) \in Seq(X)
    BY CutFrom
  <1> QED
    BY <1>1, <1>2

LEMMA SingleIs ==
  ASSUME NEW X, NEW s \in Seq(X)
  PROVE  /\ Single(s) \in Seq(Seq(X)) /\ Len(Single(s)) = Len(s)
         /\ \A i \in 1..Len(s) : Single(s)[i] = <<s[i]>>
  <1>1. PICK n \in Nat : n = Len(s)
    OBVIOUS
  <1>2. PICK v : v = Single(s)
    OBVIOUS
  <1>3. v = [i \in 1..n |-> <<s[i]>>]
    BY <1>1, <1>2, Zenon DEF Single
  <1>4. \A i \in 1..n : <<s[i]>> \in Seq(X)
    <2>1. ASSUME NEW i \in 1..n PROVE <<s[i]>> \in Seq(X)
      <3>1. PICK x \in X : x = s[i]
        BY <1>1, ElementOfSeq
      <3>2. <<x>> \in Seq(X)
        OBVIOUS
      <3> QED
        BY <3>1, <3>2
    <2> QED
      BY <2>1
  <1>5. PICK Y : Y = Seq(X)
    OBVIOUS
  <1>6. v \in [1..n -> Y]
    BY <1>3, <1>4, <1>5
  <1>7. v \in Seq(Y)
    BY <1>6, IsASeq
  <1>8. Len(v) = n
    BY <1>6, <1>7, LenProperties
  <1> QED
    BY <1>1, <1>2, <1>3, <1>5, <1>7, <1>8

LEMMA TakeLastSingle ==
  ASSUME NEW X, NEW s \in Seq(X), NEW n \in Nat
  PROVE  TakeLast(Single(s), n) = Single(TakeLast(s, n))
  <1>1. PICK l \in Nat : l = Len(s)
    OBVIOUS
  <1>2. PICK Y, v : Y = Seq(X) /\ v = Single(s)
    OBVIOUS
  <1>3. v \in Seq(Y) /\ Len(v) = l /\ \A i \in 1..l : v[i] = <<s[i]>>
    BY <1>1, <1>2, SingleIs
  <1>4. PICK a \in 0..l : /\ TakeLast(s, n) = SubSeq(s, a + 1, l)
                          /\ n = 0 => a = 0
                          /\ n # 0 => a = (IF l <= n THEN 0 ELSE l - n)
    BY <1>1, TakeLastIs
  <1>5. PICK b \in 0..l : /\ TakeLast(v, n) = SubSeq(v, b + 1, l)
                          /\ n = 0 => b = 0
                          /\ n # 0 => b = (IF l <= n THEN 0 ELSE l - n)
    BY <1>3, TakeLastIs
  <1>6. a = b
    BY <1>4, <1>5
  <1>7. PICK x, y, z : x = SubSeq(v, a + 1, l) /\ y = SubSeq(s, a + 1, l) /\ z = Single(y)
    OBVIOUS
  <1>8. x \in Seq(Y) /\ Len(x) = l - a /\ \A i \in 1..(l - a) : x[i] = v[a + i]
    BY <1>3, <1>7, CutFrom
  <1>9. y \in Seq(X) /\ Len(y) = l - a /\ \A i \in 1..(l - a) : y[i] = s[a + i]
    BY <1>1, <1>7, CutFrom
  <1>10. z \in Seq(Y) /\ Len(z) = l - a /\ \A i \in 1..(l - a) : z[i] = <<y[i]>>
    BY <1>2, <1>7, <1>9, SingleIs
  <1>11. ASSUME NEW i \in 1..(l - a) PROVE x[i] = z[i]
    <2>1. PICK k \in 1..l : k = a + i
      BY <1>4
    <2>2. x[i] = v[k] /\ y[i] = s[k] /\ v[k] = <<s[k]>> /\ z[i] = <<y[i]>>
      BY <1>3, <1>8, <1>9, <1>10, <2>1
    <2> QED
      BY <2>2, Zenon
  <1>12. x = z
    BY <1>8, <1>10, <1>11, SeqEqual
  <1> QED
    BY <1>2, <1>4, <1>5, <1>6, <1>7, <1>12, Zenon

-----------------------------------------------------------------------------
(* The newest steps                                                        *)

LEMMA DownClosed ==
  ASSUME NEW l \in Nat, NEW D, D \subseteq 1..l, \A i \in D : \A j \in 1..i : j \in D
  PROVE  Cardinality(D) \in 0..l /\ D = 1..Cardinality(D)
  <1>1. CASE D = {}
    <2>1. Cardinality(D) = 0 /\ 1..0 = {}
      BY <1>1, FS_EmptySet
    <2> QED
      BY <1>1, <2>1
  <1>2. CASE D # {}
    <2>1. PICK m \in D : \A i \in D : i <= m
      <3>1. D \subseteq 0..l
        OBVIOUS
      <3> QED
        BY <1>2, <3>1, Greatest
    <2>2. m \in 1..l /\ D = 1..m
      <3>1. m \in 1..l
        BY <2>1
      <3>2. ASSUME NEW j \in 1..m PROVE j \in D
        BY <2>1
      <3>3. ASSUME NEW j \in D PROVE j \in 1..m
        <4>1. j \in 1..l /\ j <= m
          BY <2>1
        <4> QED
          BY <3>1, <4>1
      <3> QED
        BY <3>1, <3>2, <3>3
    <2>3. Cardinality(1..m) = m
      <3>1. PICK a \in Nat : a = 1
        OBVIOUS
      <3>2. Cardinality(a..m) = IF a > m THEN 0 ELSE m - a + 1
        BY <2>2, FS_Interval
      <3> QED
        BY <2>2, <3>1, <3>2
    <2> QED
      BY <2>2, <2>3
  <1> QED
    BY <1>1, <1>2

\* The steps of some rows are finitely many.
LEMMA ImageFinite ==
  ASSUME NEW r, NEW a \in Nat, NEW b \in Nat
  PROVE  /\ IsFiniteSet({r[k].step : k \in a..b})
         /\ Cardinality({r[k].step : k \in a..b}) \in Nat
  <1>1. IsFiniteSet(a..b)
    BY FS_Interval
  <1>2. PICK f : f = [k \in a..b |-> r[k].step]
    OBVIOUS
  <1>3. PICK S : S = {r[k].step : k \in a..b}
    OBVIOUS
  <1>4. f \in Surjection(a..b, S)
    BY <1>2, <1>3 DEF Surjection
  <1>5. IsFiniteSet(S)
    BY <1>1, <1>4, FS_Surjection
  <1> QED
    BY <1>3, <1>5, FS_CardinalityType

\* The steps of the first rows.
SeenOf(b, i) == Cardinality(Steps_(SubSeq(b, 1, i)))

LEMMA FirstSteps ==
  ASSUME NEW X, NEW s \in Seq(X), NEW i \in 0..Len(s)
  PROVE  Steps_(SubSeq(s, 1, i)) = {s[k].step : k \in 1..i}
  <1>1. PICK w : w = SubSeq(s, 1, i)
    OBVIOUS
  <1>2. Len(w) = i /\ \A k \in 1..i : w[k] = s[k]
    BY <1>1, CutTo
  <1>3. Steps_(w) = {w[k].step : k \in 1..i}
    BY <1>2, Zenon DEF Steps_
  <1> QED
    BY <1>1, <1>2, <1>3, Zenon

LEMMA RecentIs ==
  ASSUME NEW X, NEW b \in Seq(X), NEW n \in Nat
  PROVE  \E c \in 0..Len(b) : /\ Recent(b, n, TRUE) = SubSeq(b, 1, c)
                              /\ \A i \in 1..Len(b) : i <= c <=> SeenOf(b, i - 1) < n
  <1>1. PICK l \in Nat : l = Len(b)
    OBVIOUS
  <1>2. PICK D : D = {i \in 1..l : SeenOf(b, i - 1) < n}
    OBVIOUS
  <1>3. ASSUME NEW i \in 0..l, NEW j \in 0..i
        PROVE  SeenOf(b, j) <= SeenOf(b, i) /\ SeenOf(b, j) \in Nat /\ SeenOf(b, i) \in Nat
    <2>1. PICK S, R : S = {b[k].step : k \in 1..i} /\ R = {b[k].step : k \in 1..j}
      OBVIOUS
    <2>2. IsFiniteSet(S) /\ Cardinality(S) \in Nat /\ Cardinality(R) \in Nat
      <3>1. i \in Nat /\ j \in Nat /\ 1 \in Nat
        OBVIOUS
      <3> QED
        BY <2>1, <3>1, ImageFinite
    <2>3. R \subseteq S
      <3>1. 1..j \subseteq 1..i
        OBVIOUS
      <3> QED
        BY <2>1, <3>1
    <2>4. Cardinality(R) <= Cardinality(S)
      BY <2>2, <2>3, FS_Subset
    <2>5. SeenOf(b, i) = Cardinality(S) /\ SeenOf(b, j) = Cardinality(R)
      <3>1. i \in 0..Len(b) /\ j \in 0..Len(b)
        BY <1>1
      <3>2. Steps_(SubSeq(b, 1, i)) = S /\ Steps_(SubSeq(b, 1, j)) = R
        BY <2>1, <3>1, FirstSteps
      <3> QED
        BY <3>2, Zenon DEF SeenOf
    <2> QED
      BY <2>2, <2>4, <2>5
  <1>4. ASSUME NEW i \in D, NEW j \in 1..i PROVE j \in D
    <2>1. i \in 1..l /\ i - 1 \in 0..l /\ j - 1 \in 0..(i - 1) /\ j \in 1..l
      BY <1>2
    <2>2. PICK x, y \in Nat : x = SeenOf(b, j - 1) /\ y = SeenOf(b, i - 1) /\ x <= y
      BY <1>3, <2>1
    <2>3. y < n
      BY <1>2, <2>2
    <2>4. x < n
      BY <2>2, <2>3
    <2> QED
      BY <1>2, <2>1, <2>2, <2>4
  <1>5. PICK c \in 0..l : c = Cardinality(D) /\ D = 1..c
    <2>1. D \subseteq 1..l
      BY <1>2
    <2> QED
      BY <1>4, <2>1, DownClosed
  <1>6. Recent(b, n, TRUE) = SubSeq(b, 1, Cardinality(D))
    BY <1>1, <1>2, Zenon DEF Recent, SeenOf
  <1>7. ASSUME NEW i \in 1..l PROVE i <= c <=> SeenOf(b, i - 1) < n
    <2>1. i \in D <=> i <= c
      <3>1. i \in 1..c <=> i <= c
        BY <1>5
      <3> QED
        BY <1>5, <3>1, Zenon
    <2>2. i \in D <=> SeenOf(b, i - 1) < n
      BY <1>2
    <2> QED
      BY <2>1, <2>2
  <1> QED
    BY <1>1, <1>5, <1>6, <1>7, Zenon

\* The steps after a row, and those of them that are not its own.
After(r, p) == {r[k].step : k \in (p + 1)..Len(r)}
Later(r, p) == Steps_(SubSeq(r, p, Len(r))) \ {r[p].step}
Newest(r, n) == {r[i].step : i \in {i \in 1..Len(r) : Cardinality(Later(r, i)) < n}}

LEMMA LaterIs ==
  ASSUME NEW X, NEW r \in Seq(X), NEW p \in 1..Len(r)
  PROVE  /\ Later(r, p) = After(r, p) \ {r[p].step}
         /\ IsFiniteSet(After(r, p)) /\ Cardinality(After(r, p)) \in Nat
         /\ Cardinality(Later(r, p)) \in Nat /\ Cardinality(Later(r, p)) <= Cardinality(After(r, p))
  <1>1. PICK l \in Nat : l = Len(r) /\ p \in 1..l
    OBVIOUS
  <1>2. PICK w : w = SubSeq(r, p, l)
    OBVIOUS
  <1>3. Len(w) = l - (p - 1) /\ \A k \in 1..(l - (p - 1)) : w[k] = r[(p - 1) + k]
    <2>1. PICK q \in 0..l : q = p - 1 /\ q + 1 = p
      BY <1>1
    <2>2. w = SubSeq(r, q + 1, Len(r))
      BY <1>1, <1>2, <2>1
    <2>3. Len(w) = Len(r) - q /\ \A k \in 1..(Len(r) - q) : w[k] = r[q + k]
      BY <1>1, <2>2, CutFrom
    <2> QED
      BY <1>1, <2>1, <2>3
  <1>4. Steps_(w) = {w[k].step : k \in 1..(l - (p - 1))}
    BY <1>3, Zenon DEF Steps_
  <1>5. Steps_(w) = {r[k].step : k \in p..l}
    <2>1. ASSUME NEW k \in 1..(l - (p - 1)) PROVE \E j \in p..l : w[k].step = r[j].step
      <3>1. (p - 1) + k \in p..l
        BY <1>1
      <3> QED
        BY <1>3, <3>1
    <2>2. ASSUME NEW j \in p..l PROVE \E k \in 1..(l - (p - 1)) : w[k].step = r[j].step
      <3>1. PICK k \in 1..(l - (p - 1)) : k = j - (p - 1) /\ (p - 1) + k = j
        BY <1>1
      <3>2. w[k] = r[j]
        BY <1>3, <3>1
      <3> QED
        BY <3>2
    <2>3. ASSUME NEW x \in Steps_(w) PROVE x \in {r[k].step : k \in p..l}
      <3>1. PICK k \in 1..(l - (p - 1)) : x = w[k].step
        BY <1>4
      <3> QED
        BY <2>1, <3>1
    <2>4. ASSUME NEW x \in {r[k].step : k \in p..l} PROVE x \in Steps_(w)
      <3>1. PICK j \in p..l : x = r[j].step
        OBVIOUS
      <3> QED
        BY <1>4, <2>2, <3>1
    <2> QED
      BY <2>3, <2>4
  <1>6. Later(r, p) = After(r, p) \ {r[p].step}
    <2>1. ASSUME NEW k \in p..l PROVE k = p \/ k \in (p + 1)..l
      BY <1>1
    <2>2. ASSUME NEW k \in (p + 1)..l PROVE k \in p..l
      BY <1>1
    <2>3. {r[k].step : k \in p..l} \ {r[p].step} = {r[k].step : k \in (p + 1)..l} \ {r[p].step}
      BY <2>1, <2>2, Zenon
    <2> QED
      BY <1>1, <1>2, <1>5, <2>3, Zenon DEF Later, After
  <1>7. PICK A : A = After(r, p)
    OBVIOUS
  <1>8. IsFiniteSet(A) /\ Cardinality(A) \in Nat
    <2>1. p + 1 \in Nat
      BY <1>1
    <2> QED
      BY <1>1, <1>7, <2>1, ImageFinite DEF After
  <1>9. PICK B : B = A \ {r[p].step}
    OBVIOUS
  <1>10. B \subseteq A
    BY <1>9
  <1>11. IsFiniteSet(B) /\ Cardinality(B) <= Cardinality(A)
    BY <1>8, <1>10, FS_Subset
  <1>12. Cardinality(B) \in Nat
    BY <1>11, FS_CardinalityType
  <1> QED
    BY <1>6, <1>7, <1>8, <1>9, <1>11, <1>12, Zenon

\* The newest steps, found backwards, are the newest.
LEMMA RecentNewest ==
  ASSUME NEW X, NEW r \in Seq(X), NEW n \in Nat
  PROVE  Steps_(Recent(Reverse(r), n, TRUE)) = Newest(r, n)
  <1>1. PICK l \in Nat : l = Len(r)
    OBVIOUS
  <1>2. PICK b : b = Reverse(r)
    OBVIOUS
  <1>3. b \in Seq(X) /\ Len(b) = l /\ \A i \in 1..l : b[i] = r[(l + 1) - i]
    BY <1>1, <1>2, ReverseIs
  <1>4. PICK c \in 0..l : /\ Recent(b, n, TRUE) = SubSeq(b, 1, c)
                          /\ \A i \in 1..l : i <= c <=> SeenOf(b, i - 1) < n
    BY <1>3, RecentIs
  <1>5. Steps_(SubSeq(b, 1, c)) = {b[k].step : k \in 1..c}
    BY <1>3, FirstSteps
  <1>6. ASSUME NEW p \in 1..l PROVE SeenOf(b, l - p) = Cardinality(After(r, p))
    <2>1. PICK i \in 0..l : i = l - p
      OBVIOUS
    <2>2. Steps_(SubSeq(b, 1, i)) = {b[k].step : k \in 1..i}
      BY <1>3, FirstSteps
    <2>3. ASSUME NEW k \in 1..i PROVE \E j \in (p + 1)..l : b[k].step = r[j].step
      <3>1. (l + 1) - k \in (p + 1)..l /\ k \in 1..l
        BY <2>1
      <3> QED
        BY <1>3, <3>1
    <2>4. ASSUME NEW j \in (p + 1)..l PROVE \E k \in 1..i : b[k].step = r[j].step
      <3>1. PICK k \in 1..i : k = (l + 1) - j /\ (l + 1) - k = j /\ k \in 1..l
        BY <2>1
      <3>2. b[k] = r[j]
        BY <1>3, <3>1
      <3> QED
        BY <3>2
    <2>5. {b[k].step : k \in 1..i} = After(r, p)
      <3>1. ASSUME NEW x \in {b[k].step : k \in 1..i} PROVE x \in {r[k].step : k \in (p + 1)..l}
        <4>1. PICK k \in 1..i : x = b[k].step
          OBVIOUS
        <4> QED
          BY <2>3, <4>1
      <3>2. ASSUME NEW x \in {r[k].step : k \in (p + 1)..l} PROVE x \in {b[k].step : k \in 1..i}
        <4>1. PICK j \in (p + 1)..l : x = r[j].step
          OBVIOUS
        <4> QED
          BY <2>4, <4>1
      <3>3. {b[k].step : k \in 1..i} = {r[k].step : k \in (p + 1)..l}
        BY <3>1, <3>2
      <3> QED
        BY <1>1, <3>3, Zenon DEF After
    <2> QED
      BY <2>1, <2>2, <2>5, Zenon DEF SeenOf
  <1>7. ASSUME NEW k \in 1..c PROVE b[k].step \in Newest(r, n)
    <2>1. PICK p \in 1..l : p = (l + 1) - k /\ k - 1 = l - p /\ k \in 1..l
      BY <1>4
    <2>2. SeenOf(b, k - 1) < n /\ b[k] = r[p]
      BY <1>3, <1>4, <2>1
    <2>3. PICK x, y \in Nat : x = Cardinality(Later(r, p)) /\ y = Cardinality(After(r, p)) /\ x <= y
      BY <1>1, LaterIs
    <2>4. y < n
      BY <1>6, <2>1, <2>2, <2>3
    <2>5. x < n
      BY <2>3, <2>4
    <2> QED
      BY <1>1, <2>2, <2>3, <2>5 DEF Newest
  <1>8. ASSUME NEW p \in 1..l, Cardinality(Later(r, p)) < n
        PROVE  \E k \in 1..c : r[p].step = b[k].step
    <2>1. PICK D : D = {k \in 1..l : r[k].step = r[p].step}
      OBVIOUS
    <2>2. PICK m \in D : \A k \in D : k <= m
      <3>1. D # {} /\ D \subseteq 0..l
        BY <2>1
      <3> QED
        BY <3>1, Greatest
    <2>3. m \in 1..l /\ p <= m /\ r[m].step = r[p].step
      BY <2>1, <2>2
    <2>4. After(r, m) \subseteq Later(r, p)
      <3>1. ASSUME NEW k \in (m + 1)..l PROVE r[k].step \in After(r, p) \ {r[p].step}
        <4>1. k \in (p + 1)..l /\ k \in 1..l /\ ~(k <= m)
          BY <2>3
        <4>2. k \notin D
          BY <2>2, <4>1
        <4>3. r[k].step # r[p].step
          BY <2>1, <4>1, <4>2
        <4> QED
          BY <1>1, <4>1, <4>3 DEF After
      <3>2. Later(r, p) = After(r, p) \ {r[p].step}
        BY <1>1, LaterIs
      <3> QED
        BY <1>1, <3>1, <3>2, Zenon DEF After
    <2>5. PICK x, y \in Nat : /\ x = Cardinality(After(r, m)) /\ y = Cardinality(Later(r, p))
                              /\ x <= y /\ y < n
      <3>1. IsFiniteSet(Later(r, p))
        <4>1. IsFiniteSet(After(r, p)) /\ Later(r, p) \subseteq After(r, p)
          BY <1>1, LaterIs
        <4> QED
          BY <4>1, FS_Subset
      <3>2. Cardinality(After(r, m)) <= Cardinality(Later(r, p))
        BY <2>4, <3>1, FS_Subset
      <3>3. Cardinality(After(r, m)) \in Nat /\ Cardinality(Later(r, p)) \in Nat
        BY <1>1, <2>3, LaterIs
      <3> QED
        BY <1>8, <3>2, <3>3
    <2>6. PICK k \in 1..l : k = (l + 1) - m /\ k - 1 = l - m /\ (l + 1) - k = m
      BY <2>3
    <2>7. SeenOf(b, k - 1) < n
      <3>1. SeenOf(b, l - m) = x
        BY <1>6, <2>3, <2>5
      <3>2. x < n
        BY <2>5
      <3> QED
        BY <2>6, <3>1, <3>2, Zenon
    <2>8. k \in 1..c
      BY <1>4, <2>7
    <2>9. b[k] = r[m]
      BY <1>3, <2>6
    <2> QED
      BY <2>3, <2>8, <2>9
  <1>9. Newest(r, n) = {b[k].step : k \in 1..c}
    <2>1. ASSUME NEW x \in Newest(r, n) PROVE \E k \in 1..c : x = b[k].step
      <3>1. PICK p \in 1..l : x = r[p].step /\ Cardinality(Later(r, p)) < n
        BY <1>1 DEF Newest
      <3> QED
        BY <1>8, <3>1
    <2> QED
      BY <1>7, <2>1
  <1> QED
    BY <1>2, <1>4, <1>5, <1>9, Zenon

\* Of rising rows, the newest steps are those of the last rows.
LEMMA LaterStrict ==
  ASSUME NEW X, Stepped(X), NEW r \in Seq(X), Strict(r), NEW p \in 1..Len(r)
  PROVE  Cardinality(Later(r, p)) = Len(r) - p
  <1>1. PICK l \in Nat : l = Len(r) /\ p \in 1..l
    OBVIOUS
  <1>2. \A i, j \in 1..l : /\ r[i].step \in Nat /\ r[j].step \in Nat
                           /\ i < j => r[i].step < r[j].step
    BY <1>1, StrictPairs
  <1>3. ASSUME NEW i \in 1..l, NEW j \in 1..l, i # j PROVE r[i].step # r[j].step
    <2>1. PICK v, w \in Nat : v = r[i].step /\ w = r[j].step
      BY <1>2
    <2>2. i < j \/ j < i
      BY <1>3
    <2>3. v < w \/ w < v
      BY <1>2, <2>1, <2>2
    <2>4. v # w
      BY <2>3
    <2> QED
      BY <2>1, <2>4
  <1>4. PICK D : D = (p + 1)..l
    OBVIOUS
  <1>5. IsFiniteSet(D) /\ Cardinality(D) = l - p /\ D \subseteq 1..l /\ p \notin D
    <2>1. PICK a \in Int : a = p + 1
      OBVIOUS
    <2>5. l \in Int
      BY <1>1
    <2>2. IsFiniteSet(a..l) /\ Cardinality(a..l) = (IF a > l THEN 0 ELSE l - a + 1)
      BY <2>1, <2>5, FS_Interval, Zenon
    <2>3. (IF a > l THEN 0 ELSE l - a + 1) = l - p
      BY <1>1, <2>1
    <2>4. D \subseteq 1..l /\ p \notin D
      BY <1>1, <1>4
    <2> QED
      BY <1>4, <2>1, <2>2, <2>3, <2>4, Zenon
  <1>6. PICK f, S : f = [k \in D |-> r[k].step] /\ S = {r[k].step : k \in D}
    OBVIOUS
  <1>7. f \in Surjection(D, S)
    BY <1>6 DEF Surjection
  <1>8. f \in Injection(D, S)
    <2>1. \A i, j \in D : f[i] = f[j] => i = j
      BY <1>3, <1>5, <1>6
    <2>2. f \in [D -> S]
      BY <1>6
    <2> QED
      BY <2>1, <2>2, Zenon DEF Injection, IsInjective
  <1>9. Cardinality(S) = l - p
    BY <1>5, <1>7, <1>8, FS_Surjection
  <1>10. Later(r, p) = S
    <2>1. Later(r, p) = After(r, p) \ {r[p].step}
      BY LaterIs
    <2>2. After(r, p) = S
      BY <1>1, <1>4, <1>6, Zenon DEF After
    <2>3. r[p].step \notin S
      <3>1. ASSUME NEW k \in D PROVE r[k].step # r[p].step
        BY <1>1, <1>3, <1>5
      <3> QED
        BY <1>6, <3>1
    <2> QED
      BY <2>1, <2>2, <2>3
  <1> QED
    BY <1>1, <1>9, <1>10

LEMMA TailStrict ==
  ASSUME NEW X, Stepped(X), NEW r \in Seq(X), Strict(r), NEW q, IsTail(q), q.count \in Nat
  PROVE  Reverse(Recent(Reverse(r), q.count, FALSE))
           = TakeLast(Among(r, q, Newest(r, q.count)), q.count)
  <1>1. PICK l, n \in Nat : l = Len(r) /\ n = q.count /\ n # 0
    BY DEF IsTail
  <1>2. PICK a \in 0..l : a = (IF l <= n THEN 0 ELSE l - n)
    <2>1. CASE l <= n
      <3>1. 0 \in 0..l
        BY <1>1
      <3> QED
        BY <2>1, <3>1, Zenon
    <2>2. CASE ~(l <= n)
      <3>1. l - n \in 0..l
        BY <1>1, <2>2
      <3> QED
        BY <2>2, <3>1, Zenon
    <2> QED
      BY <2>1, <2>2
  <1>3. \A i, j \in 1..l : /\ r[i].step \in Nat /\ r[j].step \in Nat
                           /\ i < j => r[i].step < r[j].step
    BY <1>1, StrictPairs
  <1>4. PICK b : b = Reverse(r)
    OBVIOUS
  <1>5. b \in Seq(X) /\ Len(b) = l /\ \A i \in 1..l : b[i] = r[(l + 1) - i]
    BY <1>1, <1>4, ReverseIs
  <1>6. Recent(b, n, FALSE) = SubSeq(b, 1, l - a)
    <2>1. PICK D : D = {i \in 1..l : i - 1 < n}
      OBVIOUS
    <2>2. D = 1..(l - a)
      <3>1. ASSUME NEW i \in 1..l PROVE i - 1 < n <=> i \in 1..(l - a)
        BY <1>2
      <3>2. 1..(l - a) \subseteq 1..l
        BY <1>2
      <3> QED
        BY <2>1, <3>1, <3>2
    <2>3. Cardinality(D) = l - a
      <3>1. PICK m \in Nat : m = l - a
        BY <1>2
      <3>2. Cardinality(1..m) = IF 1 > m THEN 0 ELSE m - 1 + 1
        BY FS_Interval
      <3> QED
        BY <2>2, <3>1, <3>2
    <2>4. Recent(b, n, FALSE) = SubSeq(b, 1, Cardinality(D))
      BY <1>5, <2>1, Zenon DEF Recent
    <2> QED
      BY <2>3, <2>4
  <1>7. PICK y, z : y = SubSeq(b, 1, l - a) /\ z = Reverse(y)
    OBVIOUS
  <1>8. y \in Seq(X) /\ Len(y) = l - a /\ \A i \in 1..(l - a) : y[i] = b[i]
    <2>1. l - a \in 0..Len(b)
      BY <1>2, <1>5
    <2> QED
      BY <1>5, <1>7, <2>1, CutTo
  <1>9. z \in Seq(X) /\ Len(z) = l - a /\ \A i \in 1..(l - a) : z[i] = r[a + i]
    <2>1. PICK m \in Nat : m = l - a
      BY <1>2
    <2>2. z \in Seq(X) /\ Len(z) = m /\ \A i \in 1..m : z[i] = y[(m + 1) - i]
      <3>1. /\ Reverse(y) \in Seq(X) /\ Len(Reverse(y)) = Len(y)
            /\ \A i \in 1..Len(y) : Reverse(y)[i] = y[(Len(y) + 1) - i]
        BY <1>8, ReverseIs
      <3>2. Len(y) = m
        BY <1>8, <2>1
      <3> QED
        BY <1>7, <3>1, <3>2, Zenon
    <2>3. ASSUME NEW i \in 1..m PROVE z[i] = r[a + i]
      <3>1. PICK k \in 1..m : k = (m + 1) - i /\ k \in 1..l /\ (l + 1) - k = a + i
        BY <1>2, <2>1
      <3>2. z[i] = y[k] /\ y[k] = b[k] /\ b[k] = r[(l + 1) - k]
        BY <1>5, <1>8, <2>1, <2>2, <3>1
      <3> QED
        BY <3>1, <3>2, Zenon
    <2> QED
      BY <2>1, <2>2, <2>3
  <1>10. PICK N : N = Newest(r, n)
    OBVIOUS
  <1>11. ASSUME NEW i \in 1..l PROVE r[i].step \in N <=> i > a
    <2>1. N = {r[k].step : k \in {k \in 1..l : Cardinality(Later(r, k)) < n}}
      BY <1>1, <1>10, Zenon DEF Newest
    <2>2. ASSUME NEW k \in 1..l PROVE Cardinality(Later(r, k)) < n <=> k > a
      <3>1. Cardinality(Later(r, k)) = l - k
        BY <1>1, LaterStrict
      <3> QED
        BY <1>2, <3>1
    <2>3. ASSUME i > a PROVE r[i].step \in N
      BY <2>1, <2>2, <2>3
    <2>4. ASSUME r[i].step \in N PROVE i > a
      <3>1. PICK k \in 1..l : k > a /\ r[k].step = r[i].step
        BY <2>1, <2>2, <2>4
      <3>2. PICK v, w \in Nat : v = r[i].step /\ w = r[k].step /\ v = w
        BY <1>3, <3>1
      <3>3. ~(i < k)
        <4>1. i < k => v < w
          BY <1>3, <3>2
        <4> QED
          BY <3>2, <4>1
      <3> QED
        BY <3>1, <3>3
    <2> QED
      BY <2>3, <2>4
  <1>12. PICK w : w = Among(r, q, N)
    OBVIOUS
  <1>13. w \in Seq(X) /\ Len(w) = l - a /\ \A i \in 1..(l - a) : w[i] = r[a + i]
    <2>1. PICK P : P = {i \in 1..Len(r) : InRange(q, r[i]) /\ (IsTail(q) => r[i].step \in N)}
      OBVIOUS
    <2>2. \A i \in 1..l : InRange(q, r[i])
      <3>1. q.start = 0 /\ q.end = 0
        BY DEF IsTail
      <3>2. \A i \in 1..l : r[i].step >= q.start
        BY <1>3, <3>1
      <3> QED
        BY <3>1, <3>2 DEF InRange
    <2>3. \A i \in 1..l : i \in P <=> i > a
      BY <1>1, <1>11, <2>1, <2>2
    <2>4. P = (a + 1)..l
      <3>1. \A i \in (a + 1)..l : i \in 1..l /\ i > a
        BY <1>2
      <3>2. \A i \in 1..l : i > a => i \in (a + 1)..l
        BY <1>2
      <3>3. P \subseteq 1..l
        BY <1>1, <2>1
      <3> QED
        BY <2>3, <3>1, <3>2, <3>3
    <2>5. w = Pick(r, (a + 1)..l)
      BY <1>12, <2>1, <2>4, Zenon DEF Among
    <2> QED
      <3>1. a \in Nat /\ l \in Nat /\ a <= l /\ l <= Len(r)
        BY <1>1, <1>2
      <3> QED
        <4>1. /\ Pick(r, (a + 1)..l) \in Seq(X) /\ Len(Pick(r, (a + 1)..l)) = l - a
              /\ \A i \in 1..(l - a) : Pick(r, (a + 1)..l)[i] = r[a + i]
          BY <3>1, PickSpan
        <4> QED
          BY <2>5, <4>1, Zenon
  <1>14. w = z
    BY <1>9, <1>13, SeqEqual
  <1>15. TakeLast(w, n) = w
    <2>1. PICK c \in 0..Len(w) : /\ TakeLast(w, n) = SubSeq(w, c + 1, Len(w))
                                 /\ c = (IF Len(w) <= n THEN 0 ELSE Len(w) - n)
      BY <1>1, <1>13, TakeLastIs
    <2>2. c = 0
      BY <1>2, <1>13, <2>1
    <2>3. SubSeq(w, 1, Len(w)) = w
      BY <1>13, SubSeqFull
    <2>4. c + 1 = 1
      BY <2>2
    <2> QED
      BY <2>1, <2>3, <2>4, Zenon
  <1> QED
    BY <1>1, <1>4, <1>6, <1>7, <1>10, <1>12, <1>14, <1>15, Zenon

LEMMA FirstIs ==
  ASSUME NEW S, S \subseteq Nat, S # {}
  PROVE  FirstOf(S) \in S /\ \A m \in S : FirstOf(S) <= m
  <1>1. \E n \in S : \A m \in S : n <= m
    BY Least
  <1> QED
    BY <1>1, Zenon DEF FirstOf

\* A scan of rising rows finds the rows of the range.
LEMMA UntilStrict ==
  ASSUME NEW X, Stepped(X), NEW r \in Seq(X), Strict(r), NEW q, q.start \in Nat, q.end \in Nat
  PROVE  Until(r, q) = Pick(r, {i \in 1..Len(r) : InRange(q, r[i])})
  <1>1. PICK l \in Nat : l = Len(r)
    OBVIOUS
  <1>2. \A i, j \in 1..l : /\ r[i].step \in Nat /\ r[j].step \in Nat
                           /\ i < j => r[i].step < r[j].step
    BY <1>1, StrictPairs
  <1>3. PICK stop : stop = {i \in 1..l : q.end # 0 /\ r[i].step >= q.end}
    OBVIOUS
  <1>4. PICK last : last = IF stop = {} THEN l ELSE FirstOf(stop) - 1
    OBVIOUS
  <1>5. Until(r, q) = Pick(r, {i \in 1..last : r[i].step >= q.start})
    BY <1>1, <1>3, <1>4, Zenon DEF Until
  <1>6. last \in 0..l /\ \A i \in 1..l : i <= last <=> (q.end = 0 \/ r[i].step < q.end)
    <2>1. CASE stop = {}
      <3>1. last = l
        BY <1>4, <2>1
      <3>2. ASSUME NEW i \in 1..l PROVE q.end = 0 \/ r[i].step < q.end
        <4>1. i \notin stop
          BY <2>1
        <4>2. PICK v \in Nat : v = r[i].step
          BY <1>2
        <4>3. q.end = 0 \/ ~(v >= q.end)
          BY <1>3, <4>1, <4>2
        <4>4. q.end = 0 \/ v < q.end
          BY <4>3
        <4> QED
          BY <4>2, <4>4
      <3> QED
        BY <3>1, <3>2
    <2>2. CASE stop # {}
      <3>1. PICK f \in 1..l : /\ f = FirstOf(stop) /\ f \in stop
                              /\ \A m \in stop : f <= m
        <4>1. stop \subseteq Nat /\ stop \subseteq 1..l
          BY <1>3
        <4>2. FirstOf(stop) \in stop /\ \A m \in stop : FirstOf(stop) <= m
          BY <2>2, <4>1, FirstIs
        <4> QED
          BY <4>1, <4>2
      <3>2. last = f - 1 /\ q.end # 0
        BY <1>3, <1>4, <2>2, <3>1
      <3>3. ASSUME NEW i \in 1..l PROVE i <= last <=> r[i].step < q.end
        <4>1. PICK v, w \in Nat : v = r[i].step /\ w = r[f].step /\ w >= q.end
          BY <1>2, <1>3, <3>1
        <4>2. CASE i < f
          <5>1. i \notin stop
            BY <3>1, <4>2
          <5>2. ~(v >= q.end)
            BY <1>3, <3>2, <4>1, <5>1
          <5>3. v < q.end /\ i <= last
            BY <3>2, <4>2, <5>2
          <5> QED
            BY <4>1, <5>3
        <4>3. CASE ~(i < f)
          <5>1. i = f \/ f < i
            BY <4>3
          <5>2. w = v \/ w < v
            BY <1>2, <4>1, <5>1
          <5>3. ~(v < q.end) /\ ~(i <= last)
            BY <3>2, <4>1, <4>3, <5>2
          <5> QED
            BY <4>1, <5>3
        <4> QED
          BY <4>2, <4>3
      <3> QED
        BY <3>2, <3>3
    <2> QED
      BY <2>1, <2>2
  <1>7. {i \in 1..last : r[i].step >= q.start} = {i \in 1..Len(r) : InRange(q, r[i])}
    <2>1. ASSUME NEW i \in 1..last PROVE i \in 1..l /\ i <= last
      BY <1>6
    <2>2. ASSUME NEW i \in 1..l, i <= last PROVE i \in 1..last
      BY <1>6, <2>2
    <2>3. ASSUME NEW i \in 1..l
          PROVE  (i \in 1..last /\ r[i].step >= q.start) <=> InRange(q, r[i])
      BY <1>6, <2>1, <2>2, Zenon DEF InRange
    <2> QED
      BY <1>1, <2>1, <2>3
  <1> QED
    BY <1>5, <1>7, Zenon

\* The rows a scan may pass over are before the range.
ScanOf(X, w, r, j, q) ==
    /\ Stepped(X) /\ r \in Seq(X) /\ Strict(r) /\ q.start \in Nat /\ q.end \in Nat
    /\ w \in Seq(X) /\ j \in 0..Len(r) /\ Len(w) = Len(r) - j
    /\ \A i \in 1..Len(w) : w[i] = r[j + i]
    /\ \A i \in 1..j : r[i].step < q.start

LEMMA ScanStrict ==
  ASSUME NEW X, NEW w, NEW r, NEW j, NEW q, ScanOf(X, w, r, j, q)
  PROVE  Until(w, q) = Pick(r, {i \in 1..Len(r) : InRange(q, r[i])})
  <1> SUFFICES ASSUME Stepped(X), r \in Seq(X), Strict(r), q.start \in Nat, q.end \in Nat,
                      w \in Seq(X), j \in 0..Len(r), Len(w) = Len(r) - j,
                      \A i \in 1..Len(w) : w[i] = r[j + i], \A i \in 1..j : r[i].step < q.start
               PROVE  Until(w, q) = Pick(r, {i \in 1..Len(r) : InRange(q, r[i])})
    BY Zenon DEF ScanOf
  <1>1. PICK l, m \in Nat : l = Len(r) /\ m = Len(w) /\ m = l - j /\ j \in 0..l
    OBVIOUS
  <1>2. \A i, k \in 1..l : /\ r[i].step \in Nat /\ r[k].step \in Nat
                           /\ i < k => r[i].step < r[k].step
    BY <1>1, StrictPairs
  <1>3. Strict(w)
    <2>1. ASSUME NEW i \in 2..m PROVE w[i - 1].step < w[i].step
      <3>1. PICK x, y \in 1..l : x = j + (i - 1) /\ y = j + i /\ x < y
        BY <1>1
      <3>2. i \in 1..m /\ i - 1 \in 1..m
        BY <1>1
      <3>3. w[i - 1] = r[x] /\ w[i] = r[y]
        BY <1>1, <3>1, <3>2
      <3> QED
        BY <1>2, <3>1, <3>3
    <2> QED
      BY <1>1, <2>1, Zenon DEF Strict
  <1>4. PICK P, Q : /\ P = {i \in 1..Len(w) : InRange(q, w[i])}
                    /\ Q = {i \in 1..Len(r) : InRange(q, r[i])}
    OBVIOUS
  <1>5. Until(w, q) = Pick(w, P)
    BY <1>3, <1>4, UntilStrict
  <1>6. ASSUME NEW i \in 1..l PROVE i \in Q <=> i > j /\ i - j \in P
    <2>1. CASE i > j
      <3>1. PICK k \in 1..m : k = i - j /\ j + k = i
        BY <1>1, <2>1
      <3>2. w[k] = r[i]
        BY <1>1, <3>1
      <3> QED
        BY <1>1, <1>4, <2>1, <3>1, <3>2
    <2>2. CASE ~(i > j)
      <3>1. i \in 1..j
        BY <1>1, <2>2
      <3>2. PICK v \in Nat : v = r[i].step /\ v < q.start
        BY <1>2, <3>1
      <3>3. ~(v >= q.start)
        BY <3>2
      <3>4. ~InRange(q, r[i])
        BY <3>2, <3>3 DEF InRange
      <3> QED
        BY <1>4, <2>2, <3>4
    <2> QED
      BY <2>1, <2>2
  <1>7. P \subseteq 1..Len(w) /\ Q \subseteq 1..Len(r)
    BY <1>4
  <1>8. Pick(w, P) = Pick(r, Q)
    <2>1. j \in Nat /\ j <= Len(r)
      BY <1>1
    <2>2. \A i \in 1..Len(r) : i \in Q <=> i > j /\ i - j \in P
      BY <1>1, <1>6
    <2>3. Len(w) = Len(r) - j
      OBVIOUS
    <2>4. P \subseteq 1..Len(w)
      BY <1>7
    <2>5. Q \subseteq 1..Len(r)
      BY <1>7
    <2>6. ShiftOf(X, w, r, j, P, Q)
      BY <2>1, <2>2, <2>3, <2>4, <2>5, Zenon DEF ShiftOf
    <2>7. PickedAlike(X, w, r, j, P, Q)
      BY <2>6, PickShift
    <2> QED
      BY <2>7, Zenon DEF PickedAlike
  <1> QED
    BY <1>4, <1>5, <1>8

-----------------------------------------------------------------------------
(* The rows of a query                                                     *)

LEMMA AmongIs ==
  ASSUME NEW X, Stepped(X), NEW r \in Seq(X), NEW q, NEW N
  PROVE  /\ Among(r, q, N) \in Seq(X)
         /\ Strict(r) => Strict(Among(r, q, N))
         /\ ~IsTail(q) => Among(r, q, N) = Pick(r, {i \in 1..Len(r) : InRange(q, r[i])})
  <1>1. PICK P : P = {i \in 1..Len(r) : InRange(q, r[i]) /\ (IsTail(q) => r[i].step \in N)}
    OBVIOUS
  <1>2. P \subseteq 1..Len(r) /\ P \subseteq 0..Len(r)
    BY <1>1
  <1>3. PICK p : p = Among(r, q, N)
    OBVIOUS
  <1>4. p = Pick(r, P)
    BY <1>1, <1>3, Zenon DEF Among
  <1>5. PICK t : t = Ascending(P)
    OBVIOUS
  <1>6. Orders(t, P)
    <2>1. PICK top \in Nat : top = Len(r)
      OBVIOUS
    <2>2. P \subseteq 0..top
      BY <1>2, <2>1
    <2>3. Orders(Ascending(P), P)
      BY <2>2, AscendingOrders
    <2> QED
      BY <1>5, <2>3
  <1>7. Picked(p, r, t, X)
    <2>1. Picked(Pick(r, P), r, t, X)
      BY <1>2, <1>6, PickIs
    <2> QED
      BY <1>4, <2>1, Zenon
  <1>8. p \in Seq(X)
    BY <1>7 DEF Picked
  <1>9. ASSUME Strict(r) PROVE Strict(p)
    <2>1. PICK l, m \in Nat : l = Len(r) /\ m = Len(t)
      BY <1>6 DEF Orders
    <2>2. \A i, j \in 1..m : i < j => t[i] < t[j]
      BY <1>6, <2>1, RisingPairs DEF Orders
    <2>3. Len(p) = m /\ \A i \in 1..m : p[i] = r[t[i]] /\ t[i] \in 1..l
      BY <1>7, <2>1 DEF Picked
    <2>4. \A i, j \in 1..l : i < j => r[i].step < r[j].step
      BY <1>9, <2>1, StrictPairs
    <2>5. ASSUME NEW i \in 2..m PROVE p[i - 1].step < p[i].step
      <3>1. i - 1 \in 1..m /\ i \in 1..m /\ i - 1 < i
        BY <2>1
      <3>2. PICK x, y \in 1..l : x = t[i - 1] /\ y = t[i] /\ x < y
        BY <2>2, <2>3, <3>1
      <3>3. p[i - 1] = r[x] /\ p[i] = r[y]
        BY <2>3, <3>1, <3>2
      <3> QED
        BY <2>4, <3>2, <3>3
    <2> QED
      BY <2>3, <2>5 DEF Strict
  <1>10. ASSUME ~IsTail(q) PROVE P = {i \in 1..Len(r) : InRange(q, r[i])}
    BY <1>1, <1>10
  <1> QED
    BY <1>3, <1>4, <1>8, <1>9, <1>10, Zenon

LEMMA WantedIs ==
  ASSUME NEW q, NEW r
  PROVE  Wanted(q, r) = IF Strict(r) THEN Single(TakeLast(Among(r, q, Newest(r, q.count)), q.count))
                        ELSE TakeLast(Merged(Among(r, q, Newest(r, q.count))), q.count)
  BY Zenon DEF Wanted, Strict, Newest, Later

\* The rows a query without merging reads, from the offset the index gives it.
From(q) == IF q.start = 0 THEN 0 ELSE OffsetOfStep(q.start)
Found(q) == Readable(Visit(files, rd.pin, From(q), rd.limit, TRUE))

\* A query through an index that is right is the query of the rows.
Indexed(q, r) ==
    ~rd.cache.merge =>
      /\ Strict(r)
      /\ ~IsTail(q) => Until(Found(q), q) = Pick(r, {i \in 1..Len(r) : InRange(q, r[i])})

LEMMA QueryIs ==
  ASSUME NEW X, Stepped(X), NEW r \in Seq(X), NEW q, q.count \in Nat, Indexed(q, r)
  PROVE  Query(q, r, Reverse(r)) = Wanted(q, r)
  <1>1. PICK n : n = q.count /\ n \in Nat
    OBVIOUS
  <1>2. PICK N : N = Newest(r, n)
    OBVIOUS
  <1>3. PICK w : w = Among(r, q, N)
    OBVIOUS
  <1>4. /\ w \in Seq(X)
        /\ Strict(r) => Strict(w)
        /\ ~IsTail(q) => w = Pick(r, {i \in 1..Len(r) : InRange(q, r[i])})
    BY <1>3, AmongIs
  <1>5. Wanted(q, r) = IF Strict(r) THEN Single(TakeLast(w, n)) ELSE TakeLast(Merged(w), n)
    BY <1>1, <1>2, <1>3, WantedIs
  <1>6. CASE rd.cache.merge
    <2>1. Steps_(Recent(Reverse(r), n, TRUE)) = N
      BY <1>1, <1>2, RecentNewest
    <2>2. Query(q, r, Reverse(r)) = TakeLast(MergedOf(r, q, Steps_(Recent(Reverse(r), n, TRUE))), n)
      BY <1>1, <1>6, Zenon DEF Query
    <2>3. Query(q, r, Reverse(r)) = TakeLast(Merged(w), n)
      BY <1>3, <2>1, <2>2, Zenon DEF MergedOf
    <2>4. Strict(r) => TakeLast(Merged(w), n) = Single(TakeLast(w, n))
      <3>1. Strict(r) => Merged(w) = Single(w)
        BY <1>4, MergedStrict
      <3>2. TakeLast(Single(w), n) = Single(TakeLast(w, n))
        BY <1>1, <1>4, TakeLastSingle
      <3> QED
        BY <3>1, <3>2, Zenon
    <2> QED
      BY <1>5, <2>3, <2>4, Zenon
  <1>7. CASE ~rd.cache.merge
    <2>1. Strict(r)
      BY <1>7, Zenon DEF Indexed
    <2>2. CASE IsTail(q)
      <3>1. Query(q, r, Reverse(r)) = Single(Reverse(Recent(Reverse(r), n, FALSE)))
        BY <1>1, <1>7, <2>2, Zenon DEF Query
      <3>2. Reverse(Recent(Reverse(r), n, FALSE)) = TakeLast(w, n)
        BY <1>1, <1>2, <1>3, <2>1, <2>2, TailStrict
      <3> QED
        BY <1>5, <2>1, <3>1, <3>2, Zenon
    <2>3. CASE ~IsTail(q)
      <3>1. Query(q, r, Reverse(r)) = Single(TakeLast(Until(Found(q), q), n))
        BY <1>1, <1>7, <2>3, Zenon DEF Query, Found, From
      <3>2. Until(Found(q), q) = w
        BY <1>4, <1>7, <2>3, Zenon DEF Indexed
      <3> QED
        BY <1>5, <2>1, <3>1, <3>2, Zenon
    <2> QED
      BY <2>2, <2>3
  <1> QED
    BY <1>6, <1>7

-----------------------------------------------------------------------------
(* Queries of a snapshot                                                   *)

\* The lines a snapshot shows that are records.
Known(pin, lim) == IF Ends(pin, lim) THEN (lim + 1) \div LineBytes ELSE lim \div LineBytes

\* The lines shown are of these records, the known ones with their steps.
KnownAs(pin, lim, rows, k, s) ==
    /\ k = Known(pin, lim) /\ s = Shown(pin, lim)
    /\ k \in Nat /\ s \in Nat /\ k <= s /\ s <= Len(rows)
    /\ \A g \in 1..Len(rows) : steps[rows[g]] \in Nat /\ steps[rows[g]] # NoStep
    /\ \A g \in 1..s : /\ LineAt(rows, g, lim).step = (IF g <= k THEN steps[rows[g]] ELSE NoStep)
                       /\ LineAt(rows, g, lim).at = LineBytes * (g - 1)

LEMMA KnownIs ==
  ASSUME LogAssumption, steps \in Seq(Steps), NEW pin, NEW lim \in Nat,
         NEW rows \in Seq(1..Len(steps)), lim <= LineBytes * Len(rows)
  PROVE  \E k, s : KnownAs(pin, lim, rows, k, s)
  <1>1. PICK l \in Nat : l = Len(rows) /\ lim <= 3 * l
    BY DEF LineBytes
  <1>2. PICK k, s : k = Known(pin, lim) /\ s = Shown(pin, lim)
    OBVIOUS
  <1>3. \/ k = (lim + 1) \div 3 /\ s = (lim + 2) \div 3
        \/ k = lim \div 3 /\ s = lim \div 3
    <2>1. CASE Ends(pin, lim)
      <3>1. LineBytes - 1 = 2
        BY DEF LineBytes
      <3>2. k = (lim + 1) \div LineBytes /\ s = (lim + (LineBytes - 1)) \div LineBytes
        BY <1>2, <2>1, Zenon DEF Known, Shown
      <3> QED
        BY <3>1, <3>2 DEF LineBytes
    <2>2. CASE ~Ends(pin, lim)
      BY <1>2, <2>2, Zenon DEF Known, Shown, LineBytes
    <2> QED
      BY <2>1, <2>2
  <1>4. /\ k \in Nat /\ s \in Nat /\ k <= s /\ s <= l
        /\ \A g \in 1..s : g <= k <=> 3 * g - 1 <= lim
    BY <1>1, <1>3
  <1>5. ASSUME NEW g \in 1..Len(rows) PROVE steps[rows[g]] \in Nat /\ steps[rows[g]] # NoStep
    <2>1. rows[g] \in 1..Len(steps)
      OBVIOUS
    <2>2. steps[rows[g]] \in Steps
      BY <2>1
    <2> QED
      BY <2>2 DEF LogAssumption, NoStep
  <1>6. ASSUME NEW g \in 1..s
        PROVE  /\ LineAt(rows, g, lim).step = (IF g <= k THEN steps[rows[g]] ELSE NoStep)
               /\ LineAt(rows, g, lim).at = LineBytes * (g - 1)
    <2>1. /\ LineAt(rows, g, lim).step = (IF LineBytes * g - 1 <= lim THEN steps[rows[g]] ELSE NoStep)
          /\ LineAt(rows, g, lim).at = LineBytes * (g - 1)
      BY DEF LineAt
    <2>2. (LineBytes * g - 1 <= lim) <=> g <= k
      BY <1>4 DEF LineBytes
    <2> QED
      BY <2>1, <2>2, Zenon
  <1> QED
    BY <1>1, <1>2, <1>4, <1>5, <1>6, Zenon DEF KnownAs

\* Of lines listed, those known come first.
LEMMA ReadableIs ==
  ASSUME NEW pin, NEW lim, NEW rows, NEW k, NEW s, KnownAs(pin, lim, rows, k, s),
         NEW w, NEW a, NEW b, Lists(w, rows, lim, a, b), a <= k, k <= b, b <= s
  PROVE  Lists(Readable(w), rows, lim, a, k) /\ \A i \in 1..(k - a) : Readable(w)[i] = w[i]
  <1>1. /\ a \in Nat /\ b \in Nat /\ k \in Nat /\ s \in Nat
        /\ w \in Seq(LineSet(Len(steps))) /\ Len(w) = b - a
        /\ \A i \in 1..(b - a) : w[i] = LineAt(rows, a + i, lim)
    BY DEF Lists, KnownAs
  <1>2. PICK P : P = {i \in 1..Len(w) : w[i].step # NoStep}
    OBVIOUS
  <1>3. ASSUME NEW i \in 1..(b - a) PROVE w[i].step # NoStep <=> i \in 1..(k - a)
    <2>1. PICK g \in 1..s : g = a + i
      BY <1>1
    <2>5. w[i] = LineAt(rows, g, lim)
      BY <1>1, <2>1
    <2>6. LineAt(rows, g, lim).step = (IF g <= k THEN steps[rows[g]] ELSE NoStep)
      BY <2>1, Zenon DEF KnownAs
    <2>7. g \in 1..Len(rows)
      BY <2>1 DEF KnownAs
    <2>2. w[i].step = (IF g <= k THEN steps[rows[g]] ELSE NoStep) /\ g \in 1..Len(rows)
      BY <2>5, <2>6, <2>7, Zenon
    <2>3. steps[rows[g]] # NoStep
      BY <2>2 DEF KnownAs
    <2>4. g <= k <=> i \in 1..(k - a)
      BY <1>1, <2>1
    <2> QED
      BY <2>2, <2>3, <2>4, Zenon
  <1>4. PICK m \in 0..Len(w) : m = k - a
    BY <1>1
  <1>5. P = 1..m
    <2>1. \A i \in 1..m : i \in 1..(b - a)
      BY <1>1, <1>4
    <2> QED
      BY <1>1, <1>2, <1>3, <1>4, <2>1
  <1>6. Readable(w) = Pick(w, 1..m)
    BY <1>2, <1>5, Zenon DEF Readable
  <1>7. Pick(w, 1..m) = SubSeq(w, 1, m)
    BY <1>1, <1>4, PickFirst
  <1>8. /\ SubSeq(w, 1, m) \in Seq(LineSet(Len(steps))) /\ Len(SubSeq(w, 1, m)) = m
        /\ \A i \in 1..m : SubSeq(w, 1, m)[i] = w[i]
    BY <1>1, <1>4, CutTo
  <1>9. PICK v : v = Readable(w)
    OBVIOUS
  <1>10. /\ v \in Seq(LineSet(Len(steps))) /\ Len(v) = k - a
         /\ \A i \in 1..(k - a) : v[i] = w[i]
    BY <1>4, <1>6, <1>7, <1>8, <1>9, Zenon
  <1>11. ASSUME NEW i \in 1..(k - a) PROVE v[i] = LineAt(rows, a + i, lim)
    <2>1. i \in 1..(b - a)
      BY <1>1
    <2> QED
      BY <1>1, <1>10, <2>1
  <1>12. Lists(v, rows, lim, a, k)
    BY <1>1, <1>10, <1>11, Zenon DEF Lists
  <1> QED
    BY <1>9, <1>10, <1>12, Zenon

\* Backwards they are the same.
LEMMA ReadableBack ==
  ASSUME NEW pin, NEW lim, NEW rows, NEW k, NEW s, KnownAs(pin, lim, rows, k, s),
         NEW w, Lists(w, rows, lim, 0, s)
  PROVE  Readable(Reverse(w)) = Reverse(Readable(w))
  <1>1. PICK X : X = LineSet(Len(steps))
    OBVIOUS
  <1>2. /\ k \in Nat /\ s \in Nat /\ k <= s /\ w \in Seq(X) /\ Len(w) = s
    BY <1>1 DEF KnownAs, Lists
  <1>3. PICK r : r = Readable(w)
    OBVIOUS
  <1>4. r \in Seq(X) /\ Len(r) = k /\ \A i \in 1..k : r[i] = w[i]
    <2>1. Lists(Readable(w), rows, lim, 0, k) /\ \A i \in 1..(k - 0) : Readable(w)[i] = w[i]
      BY <1>2, ReadableIs
    <2>2. Lists(r, rows, lim, 0, k) /\ \A i \in 1..k : r[i] = w[i]
      BY <1>2, <1>3, <2>1
    <2> QED
      BY <1>1, <1>2, <2>2 DEF Lists
  <1>5. PICK b : b = Reverse(w)
    OBVIOUS
  <1>6. b \in Seq(X) /\ Len(b) = s /\ \A i \in 1..s : b[i] = w[(s + 1) - i]
    <2>1. /\ Reverse(w) \in Seq(X) /\ Len(Reverse(w)) = Len(w)
          /\ \A i \in 1..Len(w) : Reverse(w)[i] = w[(Len(w) + 1) - i]
      BY <1>2, ReverseIs
    <2> QED
      BY <1>2, <1>5, <2>1, Zenon
  <1>7. PICK c : c = Reverse(r)
    OBVIOUS
  <1>8. c \in Seq(X) /\ Len(c) = k /\ \A i \in 1..k : c[i] = r[(k + 1) - i]
    <2>1. /\ Reverse(r) \in Seq(X) /\ Len(Reverse(r)) = Len(r)
          /\ \A i \in 1..Len(r) : Reverse(r)[i] = r[(Len(r) + 1) - i]
      BY <1>4, ReverseIs
    <2> QED
      BY <1>4, <1>7, <2>1, Zenon
  <1>9. ASSUME NEW i \in 1..s PROVE b[i].step # NoStep <=> i \in ((s - k) + 1)..s
    <2>1. PICK g \in 1..s : g = (s + 1) - i
      BY <1>2
    <2>2. b[i] = w[g] /\ w[g] = LineAt(rows, g, lim)
      <3>1. w[g] = LineAt(rows, 0 + g, lim)
        BY <1>2, <2>1 DEF Lists
      <3> QED
        BY <1>6, <2>1, <3>1
    <2>3. b[i].step = (IF g <= k THEN steps[rows[g]] ELSE NoStep)
      BY <2>2 DEF KnownAs
    <2>4. steps[rows[g]] # NoStep
      BY DEF KnownAs
    <2>5. g <= k <=> i \in ((s - k) + 1)..s
      BY <1>2, <2>1
    <2> QED
      BY <2>3, <2>4, <2>5, Zenon
  <1>10. PICK a \in Nat : a = s - k /\ a <= s
    BY <1>2
  <1>11. {i \in 1..Len(b) : b[i].step # NoStep} = (a + 1)..s
    <2>1. \A i \in (a + 1)..s : i \in 1..s
      BY <1>10
    <2> QED
      BY <1>6, <1>9, <1>10, <2>1
  <1>12. Readable(b) = Pick(b, (a + 1)..s)
    BY <1>11, Zenon DEF Readable
  <1>13. PICK p : p = Pick(b, (a + 1)..s)
    OBVIOUS
  <1>14. p \in Seq(X) /\ Len(p) = k /\ \A i \in 1..k : p[i] = b[a + i]
    <2>1. /\ Pick(b, (a + 1)..s) \in Seq(X) /\ Len(Pick(b, (a + 1)..s)) = s - a
          /\ \A i \in 1..(s - a) : Pick(b, (a + 1)..s)[i] = b[a + i]
      <3>1. s \in Nat /\ s <= Len(b) /\ b \in Seq(X) /\ a <= s
        BY <1>2, <1>6, <1>10
      <3> QED
        BY <3>1, PickSpan
    <2>2. s - a = k
      BY <1>2, <1>10
    <2> QED
      BY <1>13, <2>1, <2>2, Zenon
  <1>15. ASSUME NEW i \in 1..k PROVE p[i] = c[i]
    <2>1. PICK g \in 1..k : g = (k + 1) - i /\ g \in 1..s /\ a + i \in 1..s /\ (s + 1) - (a + i) = g
      BY <1>2, <1>10
    <2>2. p[i] = b[a + i] /\ b[a + i] = w[g]
      BY <1>6, <1>14, <2>1
    <2>3. c[i] = r[g] /\ r[g] = w[g]
      BY <1>4, <1>8, <2>1
    <2> QED
      BY <2>2, <2>3
  <1>16. p = c
    BY <1>8, <1>14, <1>15, SeqEqual
  <1> QED
    BY <1>3, <1>5, <1>7, <1>12, <1>13, <1>16, Zenon

-----------------------------------------------------------------------------
(* An index that is right for a snapshot                                   *)

\* The reader's snapshot shows these records, and its index is right for the
\* first of them.
Shows(pin, lim, rows, k, s) ==
    /\ steps \in Seq(Steps) /\ Parted(files, Len(steps))
    /\ pin = rd.pin /\ lim = rd.limit /\ lim \in Nat
    /\ Viewed(pin, lim, rows) /\ KnownAs(pin, lim, rows, k, s)
Right(c, rows, e) ==
    /\ e \in 0..Len(rows) /\ c.index \in Seq(AnchorSet)
    /\ \A i \in 1..Len(c.index) : /\ c.index[i].line < e
                                  /\ c.index[i].at = LineBytes * c.index[i].line
                                  /\ c.index[i].step = steps[rows[c.index[i].line + 1]]
    /\ ~c.merge => \A i \in 2..e : steps[rows[i - 1]] < steps[rows[i]]

LEMMA ShowsTypes ==
  ASSUME NEW pin, NEW lim, NEW rows, NEW k, NEW s, Shows(pin, lim, rows, k, s)
  PROVE  /\ k \in Nat /\ s \in Nat /\ k <= s /\ s <= Len(rows) /\ lim \in Nat
         /\ rows \in Seq(1..Len(steps)) /\ pin = rd.pin /\ lim = rd.limit /\ Measured(pin)
         /\ \A g \in 1..Len(rows) : steps[rows[g]] \in Nat /\ steps[rows[g]] # NoStep
  BY DEF Shows, KnownAs, Viewed

LEMMA VisitShows ==
  ASSUME NEW pin, NEW lim, NEW rows, NEW k, NEW s, Shows(pin, lim, rows, k, s), NEW j \in Nat
  PROVE  /\ Lists(Visit(files, rd.pin, 3 * j, rd.limit, TRUE), rows, lim, j, MaxOf(j, s))
         /\ Counts(Cursor(3 * j), j, MaxOf(j, s))
  <1>1. /\ steps \in Seq(Steps) /\ Parted(files, Len(steps)) /\ lim \in Nat
        /\ rows \in Seq(1..Len(steps)) /\ Viewed(pin, lim, rows) /\ pin = rd.pin /\ lim = rd.limit
    BY DEF Shows, Viewed
  <1>2. s = Shown(pin, lim)
    BY DEF Shows, KnownAs
  <1>3. Lists(Visit(files, pin, 3 * j, lim, TRUE), rows, lim, j, MaxOf(j, Shown(pin, lim)))
    BY <1>1, VisitLists
  <1>4. Counts(Cursor(3 * j), j, MaxOf(j, Shown(pin, lim)))
    BY <1>1, CursorCounts
  <1> QED
    BY <1>1, <1>2, <1>3, <1>4, Zenon

\* The steps of the records the index is right for rise, if it says so.
LEMMA RightPairs ==
  ASSUME NEW c, NEW rows, NEW e, Right(c, rows, e), ~c.merge,
         \A g \in 1..Len(rows) : steps[rows[g]] \in Nat
  PROVE  \A i, j \in 1..e : i < j => steps[rows[i]] < steps[rows[j]]
  <1>1. PICK n \in Nat : n = e /\ n <= Len(rows) /\ \A i \in 2..n : steps[rows[i - 1]] < steps[rows[i]]
    BY DEF Right
  <1>2. PICK t : t = [i \in 1..n |-> steps[rows[i]]]
    OBVIOUS
  <1>3. t \in [1..n -> Nat] /\ \A i \in 1..n : t[i] = steps[rows[i]]
    BY <1>1, <1>2
  <1>4. t \in Seq(Nat)
    BY <1>3, IsASeq
  <1>5. Len(t) = n
    BY <1>1, <1>2, <1>4, LenProperties
  <1>6. Rising(t)
    <2>1. ASSUME NEW i \in 2..n PROVE t[i - 1] < t[i]
      <3>1. i - 1 \in 1..n /\ i \in 1..n
        BY <1>1
      <3>2. t[i - 1] = steps[rows[i - 1]] /\ t[i] = steps[rows[i]]
        BY <1>3, <3>1
      <3> QED
        BY <1>1, <3>2
    <2> QED
      BY <1>5, <2>1, Zenon DEF Rising
  <1>7. \A i, j \in 1..n : i < j => t[i] < t[j]
    BY <1>4, <1>5, <1>6, RisingPairs
  <1> QED
    BY <1>1, <1>3, <1>7

\* Anchors are places before the end of what the index is right for.
AnchorAs(c, rows, e, A) ==
    /\ A = {} => LastOf(A) = 0
    /\ A # {} => /\ LastOf(A) \in A
                 /\ c.index[LastOf(A)].line \in Nat /\ c.index[LastOf(A)].line < e
                 /\ c.index[LastOf(A)].at = 3 * c.index[LastOf(A)].line
                 /\ c.index[LastOf(A)].step = steps[rows[c.index[LastOf(A)].line + 1]]

LEMMA AnchorIs ==
  ASSUME NEW c, NEW rows, NEW e, Right(c, rows, e), NEW A, A \subseteq 1..Len(c.index)
  PROVE  AnchorAs(c, rows, e, A)
  <1>1. c.index \in Seq(AnchorSet)
    BY DEF Right
  <1>2. PICK top \in Nat : top = Len(c.index)
    BY <1>1
  <1>3. A \subseteq 0..top
    BY <1>2
  <1>4. (A # {} => LastOf(A) \in A) /\ (A = {} => LastOf(A) = 0)
    BY <1>3, LastIs
  <1>5. ASSUME NEW i \in 1..Len(c.index)
        PROVE  /\ c.index[i].line \in Nat /\ c.index[i].line < e
               /\ c.index[i].at = 3 * c.index[i].line
               /\ c.index[i].step = steps[rows[c.index[i].line + 1]]
    <2>1. c.index[i] \in AnchorSet
      BY <1>1
    <2> QED
      BY <2>1 DEF Right, AnchorSet, LineBytes
  <1> QED
    BY <1>4, <1>5 DEF AnchorAs

LEMMA OffsetOfStepIs ==
  ASSUME NEW pin, NEW lim, NEW rows, NEW k, NEW s, Shows(pin, lim, rows, k, s),
         NEW e, Right(rd.cache, rows, e), k <= e, ~rd.cache.merge, NEW st \in Nat \ {0}
  PROVE  \E j \in 0..k :
           /\ \A i \in 1..j : steps[rows[i]] < st
           /\ OffsetOfStep(st) = 3 * j \/ (j = k /\ OffsetOfStep(st) = lim)
  <1>1. /\ k \in Nat /\ s \in Nat /\ k <= s /\ s <= Len(rows) /\ pin = rd.pin /\ lim = rd.limit
        /\ \A g \in 1..Len(rows) : steps[rows[g]] \in Nat /\ steps[rows[g]] # NoStep
    BY ShowsTypes
  <1>2. e \in Nat /\ e <= Len(rows)
    BY DEF Right
  <1>3. \A i, j \in 1..e : i < j => steps[rows[i]] < steps[rows[j]]
    BY <1>1, RightPairs
  <1>4. PICK A : A = {i \in 1..Len(rd.cache.index) : rd.cache.index[i].step <= st}
    OBVIOUS
  <1>5. A \subseteq 1..Len(rd.cache.index)
    BY <1>4
  <1>6. PICK j \in Nat : /\ (IF A = {} THEN 0 ELSE rd.cache.index[LastOf(A)].at) = 3 * j
                         /\ \A i \in 1..j : i <= e => steps[rows[i]] < st
    <2>1. CASE A = {}
      BY <2>1
    <2>2. CASE A # {}
      <3>1. PICK l \in Nat : /\ l = rd.cache.index[LastOf(A)].line /\ l < e /\ LastOf(A) \in A
                             /\ rd.cache.index[LastOf(A)].at = 3 * l
                             /\ rd.cache.index[LastOf(A)].step = steps[rows[l + 1]]
        <4>1. PICK i, x : i = LastOf(A) /\ x = rd.cache.index[i]
          OBVIOUS
        <4>2. /\ LastOf(A) \in A
              /\ rd.cache.index[LastOf(A)].line \in Nat /\ rd.cache.index[LastOf(A)].line < e
              /\ rd.cache.index[LastOf(A)].at = 3 * rd.cache.index[LastOf(A)].line
              /\ rd.cache.index[LastOf(A)].step = steps[rows[rd.cache.index[LastOf(A)].line + 1]]
          <5>1. AnchorAs(rd.cache, rows, e, A)
            BY <1>5, AnchorIs
          <5> QED
            BY <2>2, <5>1, Zenon DEF AnchorAs
        <4>3. /\ i \in A /\ x.line \in Nat /\ x.line < e /\ x.at = 3 * x.line
              /\ x.step = steps[rows[x.line + 1]]
          BY <4>1, <4>2, Zenon
        <4> QED
          BY <4>1, <4>3, Zenon
      <3>2. steps[rows[l + 1]] <= st
        BY <1>4, <3>1
      <3>3. ASSUME NEW i \in 1..l PROVE steps[rows[i]] < st
        <4>1. i \in 1..e /\ l + 1 \in 1..e /\ i < l + 1
          <5>1. l < e
            BY <3>1
          <5> QED
            BY <1>2, <5>1
        <4>2. i \in 1..Len(rows) /\ l + 1 \in 1..Len(rows)
          BY <1>2, <4>1
        <4>3. steps[rows[i]] < steps[rows[l + 1]]
          BY <1>3, <4>1
        <4>4. PICK v, w \in Nat : v = steps[rows[i]] /\ w = steps[rows[l + 1]]
          BY <1>1, <4>2
        <4> QED
          BY <3>2, <4>3, <4>4
      <3> QED
        BY <2>2, <3>1, <3>3
    <2> QED
      BY <2>1, <2>2
  <1>7. PICK w : w = Visit(files, rd.pin, 3 * j, rd.limit, TRUE)
    OBVIOUS
  <1>8. PICK b \in Nat : b = MaxOf(j, s) /\ Lists(w, rows, lim, j, b) /\ j <= b /\ (b <= s \/ b = j)
    <2>1. Lists(w, rows, lim, j, MaxOf(j, s))
      BY <1>7, VisitShows
    <2>2. MaxOf(j, s) \in Nat /\ j <= MaxOf(j, s) /\ (MaxOf(j, s) <= s \/ MaxOf(j, s) = j)
      BY <1>1 DEF MaxOf
    <2> QED
      BY <2>1, <2>2
  <1>9. PICK n \in Nat : n = Len(w) /\ n = b - j
    BY <1>8 DEF Lists
  <1>10. PICK F : F = {i \in 1..n : w[i].step >= st}
    OBVIOUS
  <1>11. OffsetOfStep(st) = IF F = {} THEN lim ELSE w[FirstOf(F)].at
    BY <1>1, <1>4, <1>6, <1>7, <1>9, <1>10, Zenon DEF OffsetOfStep
  <1>12. ASSUME NEW i \in 1..n
         PROVE  /\ j + i \in 1..s /\ w[i].at = 3 * ((j + i) - 1)
                /\ w[i].step = IF j + i <= k THEN steps[rows[j + i]] ELSE NoStep
    <2>1. PICK g \in 1..s : g = j + i
      BY <1>1, <1>8, <1>9
    <2>2. w[i] = LineAt(rows, g, lim)
      BY <1>8, <1>9, <2>1 DEF Lists
    <2>3. KnownAs(pin, lim, rows, k, s)
      BY DEF Shows
    <2>4. /\ LineAt(rows, g, lim).step = (IF g <= k THEN steps[rows[g]] ELSE NoStep)
          /\ LineAt(rows, g, lim).at = 3 * (g - 1)
      BY <2>1, <2>3, Zenon DEF KnownAs, LineBytes
    <2> QED
      BY <2>1, <2>2, <2>4
  \* The first row of the lines listed that is not before the step.
  <1>13. CASE F = {}
    <2>1. ASSUME NEW i \in 1..k PROVE steps[rows[i]] < st
      <3>1. i \in 1..Len(rows) /\ i \in 1..e
        BY <1>1, <1>2
      <3>2. PICK v \in Nat : v = steps[rows[i]]
        BY <1>1, <3>1
      <3>3. CASE i <= j
        BY <1>2, <1>6, <3>1, <3>3
      <3>4. CASE ~(i <= j)
        <4>1. PICK h \in 1..n : j + h = i
          <5>1. i - j \in 1..n
            BY <1>1, <1>8, <1>9, <3>4 DEF MaxOf
          <5> QED
            BY <5>1
        <4>2. w[h].step = v
          BY <1>12, <3>2, <4>1
        <4>3. h \notin F
          BY <1>13
        <4>4. ~(v >= st)
          BY <1>10, <4>2, <4>3
        <4> QED
          BY <3>2, <4>4
      <3> QED
        BY <3>3, <3>4
    <2>2. k \in 0..k /\ OffsetOfStep(st) = lim
      BY <1>1, <1>11, <1>13
    <2> QED
      BY <2>1, <2>2
  <1>14. CASE F # {}
    <2>1. PICK f \in 1..n : f = FirstOf(F) /\ f \in F /\ \A m \in F : f <= m
      <3>1. F \subseteq Nat /\ F \subseteq 1..n
        BY <1>10
      <3>2. FirstOf(F) \in F /\ \A m \in F : FirstOf(F) <= m
        BY <1>14, <3>1, FirstIs
      <3> QED
        BY <3>1, <3>2
    <2>2. j + f <= k
      <3>1. w[f].step >= st
        BY <1>10, <2>1
      <3>2. w[f].step = IF j + f <= k THEN steps[rows[j + f]] ELSE NoStep
        BY <1>12, <2>1
      <3>3. ~(NoStep >= st)
        BY DEF NoStep
      <3> QED
        BY <3>1, <3>2, <3>3, Zenon
    <2>3. PICK h \in 0..k : h = (j + f) - 1
      BY <1>1, <2>2
    <2>4. OffsetOfStep(st) = 3 * h
      BY <1>11, <1>12, <1>14, <2>1, <2>3
    <2>5. ASSUME NEW i \in 1..h PROVE steps[rows[i]] < st
      <3>1. i \in 1..Len(rows) /\ i \in 1..e
        BY <1>1, <1>2
      <3>2. PICK v \in Nat : v = steps[rows[i]]
        BY <1>1, <3>1
      <3>3. CASE i <= j
        BY <1>2, <1>6, <3>1, <3>3
      <3>4. CASE ~(i <= j)
        <4>1. PICK x \in 1..n : j + x = i /\ x < f /\ j + x <= k
          <5>1. i - j \in 1..n /\ i - j < f /\ j + (i - j) <= k
            <6>1. f \in Nat /\ f <= n /\ i \in Nat /\ i <= h /\ h \in Nat /\ h = (j + f) - 1
              BY <1>9, <2>1, <2>3
            <6>2. i - j \in 1..n /\ i - j < f
              BY <1>9, <3>4, <6>1
            <6>3. j + (i - j) <= k
              BY <1>1, <2>2, <3>4, <6>1
            <6> QED
              BY <6>2, <6>3
          <5> QED
            BY <5>1
        <4>2. w[x].step = v
          BY <1>12, <3>2, <4>1
        <4>3. x \notin F
          BY <2>1, <4>1
        <4>4. ~(v >= st)
          BY <1>10, <4>2, <4>3
        <4> QED
          BY <3>2, <4>4
      <3> QED
        BY <3>3, <3>4
    <2> QED
      BY <2>4, <2>5
  <1> QED
    BY <1>13, <1>14

\* A query without merging reads the records from one on, and none before it is
\* in the range.
LEMMA FoundIs ==
  ASSUME NEW pin, NEW lim, NEW rows, NEW k, NEW s, Shows(pin, lim, rows, k, s),
         NEW e, Right(rd.cache, rows, e), k <= e, ~rd.cache.merge, NEW q, q.start \in Nat
  PROVE  \E j \in 0..k : /\ Lists(Found(q), rows, lim, j, k)
                         /\ \A i \in 1..j : steps[rows[i]] < q.start
  <1>1. /\ k \in Nat /\ s \in Nat /\ k <= s /\ s <= Len(rows) /\ pin = rd.pin /\ lim = rd.limit
        /\ Measured(pin) /\ lim \in Nat /\ KnownAs(pin, lim, rows, k, s)
    BY ShowsTypes DEF Shows
  <1>2. ASSUME NEW j \in 0..k, From(q) = 3 * j PROVE Lists(Found(q), rows, lim, j, k)
    <2>1. Lists(Visit(files, rd.pin, 3 * j, rd.limit, TRUE), rows, lim, j, MaxOf(j, s))
      <3>1. j \in Nat
        BY <1>1
      <3> QED
        BY <3>1, VisitShows
    <2>2. MaxOf(j, s) = s
      BY <1>1 DEF MaxOf
    <2>3. PICK w : w = Visit(files, rd.pin, From(q), rd.limit, TRUE)
      OBVIOUS
    <2>4. Lists(w, rows, lim, j, s)
      BY <1>2, <2>1, <2>2, <2>3, Zenon
    <2>5. j <= k /\ s <= s
      BY <1>1
    <2>6. Lists(Readable(w), rows, lim, j, k)
      BY <1>1, <2>4, <2>5, ReadableIs
    <2> QED
      BY <2>3, <2>6, Zenon DEF Found
  <1>3. CASE q.start = 0
    <2>1. From(q) = 3 * 0
      BY <1>3 DEF From
    <2>2. 0 \in 0..k
      BY <1>1
    <2>3. Lists(Found(q), rows, lim, 0, k)
      BY <1>2, <2>1, <2>2
    <2> QED
      BY <2>2, <2>3
  <1>4. CASE q.start # 0
    <2>1. PICK st \in Nat \ {0} : st = q.start
      BY <1>4
    <2>2. PICK j \in 0..k : /\ \A i \in 1..j : steps[rows[i]] < st
                            /\ OffsetOfStep(st) = 3 * j \/ (j = k /\ OffsetOfStep(st) = lim)
      BY OffsetOfStepIs
    <2>3. From(q) = OffsetOfStep(st)
      BY <1>4, <2>1, Zenon DEF From
    <2>4. CASE OffsetOfStep(st) = 3 * j
      <3>1. Lists(Found(q), rows, lim, j, k)
        BY <1>2, <2>3, <2>4
      <3> QED
        BY <2>1, <2>2, <3>1
    <2>5. CASE j = k /\ OffsetOfStep(st) = lim
      <3>1. Visit(files, pin, lim, lim, TRUE) = <<>>
        BY <1>1, VisitNothing
      <3>2. PICK w : w = Visit(files, rd.pin, From(q), rd.limit, TRUE) /\ w = <<>>
        BY <1>1, <2>3, <2>5, <3>1, Zenon
      <3>3. Lists(w, rows, lim, k, k)
        BY <1>1, <3>2, ListsNone
      <3>4. Lists(Readable(w), rows, lim, k, k)
        BY <1>1, <3>3, ReadableIs
      <3>5. Lists(Found(q), rows, lim, j, k)
        BY <2>5, <3>2, <3>4, Zenon DEF Found
      <3> QED
        BY <2>1, <2>2, <3>5
    <2> QED
      BY <2>2, <2>4, <2>5
  <1> QED
    BY <1>3, <1>4

\* What is listed and known, as rows.
LEMMA ListedRows ==
  ASSUME NEW pin, NEW lim, NEW rows, NEW k, NEW s, KnownAs(pin, lim, rows, k, s),
         NEW w, NEW a, Lists(w, rows, lim, a, k)
  PROVE  /\ w \in Seq(LineSet(Len(steps))) /\ Len(w) = k - a /\ a \in Nat /\ k \in Nat
         /\ \A i \in 1..(k - a) : w[i] = LineAt(rows, a + i, lim) /\ w[i].step = steps[rows[a + i]]
  <1>1. /\ a \in Nat /\ k \in Nat /\ s \in Nat /\ k <= s
        /\ w \in Seq(LineSet(Len(steps))) /\ Len(w) = k - a
        /\ \A i \in 1..(k - a) : w[i] = LineAt(rows, a + i, lim)
    BY DEF Lists, KnownAs
  <1>2. ASSUME NEW i \in 1..(k - a) PROVE w[i].step = steps[rows[a + i]]
    <2>1. PICK g \in 1..s : g = a + i /\ g <= k
      BY <1>1
    <2>2. LineAt(rows, g, lim).step = (IF g <= k THEN steps[rows[g]] ELSE NoStep)
      BY <2>1, Zenon DEF KnownAs
    <2>3. w[i] = LineAt(rows, g, lim)
      BY <1>1, <2>1
    <2> QED
      BY <2>1, <2>2, <2>3, Zenon
  <1> QED
    BY <1>1, <1>2

LEMMA LinesStepped ==
  ASSUME LogAssumption
  PROVE  Stepped(LineSet(Len(steps)))
  <1>1. Steps \cup {NoStep} \subseteq Nat
    BY DEF LogAssumption, NoStep
  <1>2. ASSUME NEW x \in LineSet(Len(steps)) PROVE x.step \in Nat
    <2>1. x.step \in Steps \cup {NoStep}
      BY DEF LineSet
    <2> QED
      BY <1>1, <2>1
  <1> QED
    BY <1>2 DEF Stepped

LEMMA IndexedIs ==
  ASSUME LogAssumption, NEW pin, NEW lim, NEW rows, NEW k, NEW s, Shows(pin, lim, rows, k, s),
         NEW e, Right(rd.cache, rows, e), k <= e, NEW r, Lists(r, rows, lim, 0, k),
         NEW q, q.start \in Nat, q.end \in Nat
  PROVE  Indexed(q, r)
  <1> SUFFICES ASSUME ~rd.cache.merge
               PROVE  /\ Strict(r)
                      /\ Until(Found(q), q) = Pick(r, {i \in 1..Len(r) : InRange(q, r[i])})
    BY Zenon DEF Indexed
  <1>1. PICK X : X = LineSet(Len(steps))
    OBVIOUS
  <1>2. Stepped(X)
    BY <1>1, LinesStepped
  <1>3. /\ k \in Nat /\ k <= Len(rows) /\ KnownAs(pin, lim, rows, k, s)
        /\ \A g \in 1..Len(rows) : steps[rows[g]] \in Nat
    BY ShowsTypes DEF Shows
  <1>4. /\ r \in Seq(X) /\ Len(r) = k
        /\ \A i \in 1..k : r[i] = LineAt(rows, i, lim) /\ r[i].step = steps[rows[i]]
    <2>1. /\ r \in Seq(LineSet(Len(steps))) /\ Len(r) = k - 0
          /\ \A i \in 1..(k - 0) : r[i] = LineAt(rows, 0 + i, lim) /\ r[i].step = steps[rows[0 + i]]
      BY <1>3, ListedRows
    <2>2. k - 0 = k /\ \A i \in 1..k : 0 + i = i
      BY <1>3
    <2> QED
      BY <1>1, <2>1, <2>2
  <1>5. e \in Nat /\ \A i, j \in 1..e : i < j => steps[rows[i]] < steps[rows[j]]
    <2>1. e \in Nat
      BY DEF Right
    <2> QED
      BY <1>3, <2>1, RightPairs
  <1>6. Strict(r)
    <2>1. ASSUME NEW i \in 2..k PROVE r[i - 1].step < r[i].step
      <3>1. i - 1 \in 1..k /\ i \in 1..k /\ i - 1 \in 1..e /\ i \in 1..e /\ i - 1 < i
        BY <1>3, <1>5
      <3> QED
        BY <1>4, <1>5, <3>1
    <2> QED
      BY <1>4, <2>1, Zenon DEF Strict
  <1>7. PICK j \in 0..k : /\ Lists(Found(q), rows, lim, j, k)
                          /\ \A i \in 1..j : steps[rows[i]] < q.start
    BY FoundIs
  <1>8. PICK w : w = Found(q)
    OBVIOUS
  <1>9. w \in Seq(X) /\ Len(w) = k - j /\ \A i \in 1..(k - j) : w[i] = LineAt(rows, j + i, lim)
    BY <1>1, <1>7, <1>8 DEF Lists
  <1>10. \A i \in 1..Len(w) : w[i] = r[j + i]
    <2>1. ASSUME NEW i \in 1..(k - j) PROVE w[i] = r[j + i]
      <3>1. j + i \in 1..k
        BY <1>3
      <3> QED
        BY <1>4, <1>9, <3>1
    <2> QED
      BY <1>9, <2>1
  <1>11. \A i \in 1..j : r[i].step < q.start
    <2>1. \A i \in 1..j : i \in 1..k
      BY <1>3
    <2> QED
      BY <1>4, <1>7, <2>1
  <1>12. j \in 0..Len(r) /\ Len(w) = Len(r) - j
    BY <1>4, <1>9
  <1>13. Until(w, q) = Pick(r, {i \in 1..Len(r) : InRange(q, r[i])})
    <2>1. ScanOf(X, w, r, j, q)
      BY <1>2, <1>4, <1>6, <1>9, <1>10, <1>11, <1>12, Zenon DEF ScanOf
    <2> QED
      BY <2>1, ScanStrict
  <1> QED
    BY <1>6, <1>8, <1>13, Zenon

LEMMA OffsetOfLineIs ==
  ASSUME NEW pin, NEW lim, NEW rows, NEW k, NEW s, Shows(pin, lim, rows, k, s),
         NEW e, Right(rd.cache, rows, e), NEW n \in 1..s
  PROVE  OffsetOfLine(n) = IF n < s THEN 3 * n ELSE lim
  <1>1. /\ k \in Nat /\ s \in Nat /\ pin = rd.pin /\ lim = rd.limit /\ KnownAs(pin, lim, rows, k, s)
    BY ShowsTypes DEF Shows
  <1>2. PICK A : A = {i \in 1..Len(rd.cache.index) : rd.cache.index[i].line <= n}
    OBVIOUS
  <1>3. A \subseteq 1..Len(rd.cache.index) /\ 0 \notin A
    BY <1>2
  <1>4. AnchorAs(rd.cache, rows, e, A)
    BY <1>3, AnchorIs
  <1>5. PICK i : i = LastOf(A)
    OBVIOUS
  <1>6. PICK j \in Nat : /\ j <= n
                         /\ (IF i = 0 THEN n ELSE n - rd.cache.index[i].line) = n - j
                         /\ (IF i = 0 THEN 0 ELSE rd.cache.index[i].at) = 3 * j
    <2>1. CASE A = {}
      <3>1. i = 0
        BY <1>4, <1>5, <2>1 DEF AnchorAs
      <3>2. 0 \in Nat /\ 0 <= n /\ n = n - 0 /\ 0 = 3 * 0
        OBVIOUS
      <3> QED
        BY <3>1, <3>2
    <2>2. CASE A # {}
      <3>1. PICK a, l : a = rd.cache.index[i] /\ l = a.line
        OBVIOUS
      <3>2. i \in A /\ l \in Nat /\ a.at = 3 * l
        BY <1>4, <1>5, <2>2, <3>1, Zenon DEF AnchorAs
      <3>3. i # 0 /\ l <= n
        BY <1>2, <1>3, <3>1, <3>2
      <3> QED
        BY <3>1, <3>2, <3>3, Zenon
    <2> QED
      BY <2>1, <2>2
  <1>7. PICK w : w = Visit(files, rd.pin, 3 * j, rd.limit, TRUE)
    OBVIOUS
  <1>8. Lists(w, rows, lim, j, s)
    <2>1. Lists(Visit(files, rd.pin, 3 * j, rd.limit, TRUE), rows, lim, j, MaxOf(j, s))
      BY VisitShows
    <2>2. MaxOf(j, s) = s
      BY <1>1, <1>6 DEF MaxOf
    <2> QED
      BY <1>7, <2>1, <2>2, Zenon
  <1>9. Len(w) = s - j /\ \A x \in 1..(s - j) : w[x] = LineAt(rows, j + x, lim)
    BY <1>8 DEF Lists
  <1>10. OffsetOfLine(n) = IF n = 0 THEN 0
                           ELSE IF n - j < Len(w) THEN w[(n - j) + 1].at ELSE lim
    BY <1>1, <1>2, <1>5, <1>6, <1>7, Zenon DEF OffsetOfLine
  <1>11. n - j < Len(w) <=> n < s
    BY <1>1, <1>6, <1>9
  <1>12. ASSUME n < s PROVE w[(n - j) + 1].at = 3 * n
    <2>1. PICK x \in 1..(s - j) : x = (n - j) + 1 /\ j + x \in 1..s /\ (j + x) - 1 = n
      <3>1. (n - j) + 1 \in 1..(s - j) /\ j + ((n - j) + 1) \in 1..s /\ (j + ((n - j) + 1)) - 1 = n
        BY <1>1, <1>6, <1>12
      <3> QED
        BY <3>1
    <2>2. w[x] = LineAt(rows, j + x, lim)
      BY <1>9
    <2>3. LineAt(rows, j + x, lim).at = 3 * ((j + x) - 1)
      BY <1>1, <2>1, Zenon DEF KnownAs, LineBytes
    <2> QED
      BY <2>1, <2>2, <2>3, Zenon
  <1>13. n # 0
    OBVIOUS
  <1> QED
    BY <1>10, <1>11, <1>12, <1>13, Zenon

\* What ReaderExact asks of a snapshot.
Exact(lines, back) ==
    /\ \A q \in Queries : Query(q, Readable(lines), Readable(back)) = Wanted(q, Readable(lines))
    /\ \A n \in 1..Len(lines) :
         OffsetOfLine(n) = IF n < Len(lines) THEN lines[n + 1].at ELSE rd.limit
    /\ back = Reverse(lines)
    /\ \A n \in 1..Len(lines) : Len(Cursor(lines[n].at)) = Len(lines) - n + 1

LEMMA SnapshotExact ==
  ASSUME LogAssumption, NEW pin, NEW lim, NEW rows, NEW k, NEW s, Shows(pin, lim, rows, k, s),
         NEW e, Right(rd.cache, rows, e), k <= e
  PROVE  Exact(PinnedLines, Backwards)
  <1>1. /\ k \in Nat /\ s \in Nat /\ k <= s /\ pin = rd.pin /\ lim = rd.limit /\ lim \in Nat
        /\ KnownAs(pin, lim, rows, k, s) /\ Stepped(LineSet(Len(steps)))
    BY ShowsTypes, LinesStepped DEF Shows
  <1>2. PICK w, back : w = PinnedLines /\ back = Backwards
    OBVIOUS
  <1>3. Lists(w, rows, lim, 0, s)
    <2>1. Lists(Visit(files, rd.pin, 3 * 0, rd.limit, TRUE), rows, lim, 0, MaxOf(0, s))
      BY VisitShows
    <2>2. MaxOf(0, s) = s /\ 3 * 0 = 0
      BY <1>1 DEF MaxOf
    <2> QED
      BY <1>2, <2>1, <2>2, Zenon DEF PinnedLines
  <1>4. back = Reverse(w)
    <2>1. /\ steps \in Seq(Steps) /\ Parted(files, Len(steps)) /\ rows \in Seq(1..Len(steps))
          /\ Viewed(pin, lim, rows)
      BY DEF Shows, Viewed
    <2>2. Backwards = Reverse(PinnedLines)
      BY <1>1, <2>1, BackwardsIs
    <2> QED
      BY <1>2, <2>2, Zenon
  <1>5. PICK r : r = Readable(w)
    OBVIOUS
  <1>6. Lists(r, rows, lim, 0, k)
    <2>1. 0 <= k /\ s <= s
      BY <1>1
    <2>2. Lists(Readable(w), rows, lim, 0, k)
      BY <1>1, <1>3, <2>1, ReadableIs
    <2> QED
      BY <1>5, <2>2, Zenon
  <1>7. Readable(back) = Reverse(r)
    <2>1. Readable(Reverse(w)) = Reverse(Readable(w))
      BY <1>1, <1>3, ReadableBack
    <2> QED
      BY <1>4, <1>5, <2>1, Zenon
  <1>8. ASSUME NEW q \in Queries PROVE Query(q, r, Reverse(r)) = Wanted(q, r)
    <2>1. q.start \in Nat /\ q.end \in Nat /\ q.count \in Nat
      <3>1. q \in [start : Steps \cup {0}, end : Steps \cup {0}, count : Nat]
        BY DEF LogAssumption
      <3>2. Steps \cup {0} \subseteq Nat
        BY DEF LogAssumption
      <3> QED
        BY <3>1, <3>2
    <2>2. Indexed(q, r)
      BY <1>6, <2>1, IndexedIs
    <2>3. r \in Seq(LineSet(Len(steps)))
      BY <1>6 DEF Lists
    <2> QED
      BY <1>1, <2>1, <2>2, <2>3, QueryIs
  <1>9. Len(w) = s /\ \A n \in 1..s : w[n].at = 3 * (n - 1)
    <2>1. Len(w) = s /\ \A n \in 1..s : w[n] = LineAt(rows, 0 + n, lim)
      BY <1>1, <1>3 DEF Lists
    <2>2. ASSUME NEW n \in 1..s PROVE w[n].at = 3 * (n - 1)
      <3>1. w[n] = LineAt(rows, n, lim)
        BY <2>1
      <3>2. LineAt(rows, n, lim).at = 3 * (n - 1)
        BY <1>1, Zenon DEF KnownAs, LineBytes
      <3> QED
        BY <3>1, <3>2
    <2> QED
      BY <2>1, <2>2
  <1>10. ASSUME NEW n \in 1..Len(w)
         PROVE  /\ OffsetOfLine(n) = IF n < Len(w) THEN w[n + 1].at ELSE rd.limit
                /\ Len(Cursor(w[n].at)) = Len(w) - n + 1
    <2>1. n \in 1..s
      BY <1>9
    <2>2. OffsetOfLine(n) = IF n < s THEN 3 * n ELSE lim
      BY <2>1, OffsetOfLineIs
    <2>3. n < s => w[n + 1].at = 3 * n
      BY <1>1, <1>9, <2>1
    <2>4. PICK j \in Nat : j = n - 1 /\ MaxOf(j, s) = s /\ s - j = s - n + 1
      <3>1. n - 1 \in Nat /\ MaxOf(n - 1, s) = s /\ s - (n - 1) = s - n + 1
        BY <1>1, <2>1 DEF MaxOf
      <3> QED
        BY <3>1
    <2>5. Counts(Cursor(3 * j), j, MaxOf(j, s))
      BY VisitShows
    <2>6. Len(Cursor(3 * j)) = s - j
      BY <2>4, <2>5, Zenon DEF Counts
    <2>7. w[n].at = 3 * j
      BY <1>9, <2>1, <2>4
    <2>8. Len(Cursor(w[n].at)) = s - n + 1
      BY <2>4, <2>6, <2>7, Zenon
    <2> QED
      BY <1>1, <1>9, <2>2, <2>3, <2>8, Zenon
  <1>11. \A q \in Queries : Query(q, Readable(w), Readable(back)) = Wanted(q, Readable(w))
    BY <1>5, <1>7, <1>8, Zenon
  <1> QED
    BY <1>2, <1>4, <1>10, <1>11, Zenon DEF Exact

-----------------------------------------------------------------------------
(* What a reader relies on, and why it stays                               *)

\* The records that stay whatever happens: those committed, or on disk for the
\* next writer to find.
Done == IF pc = "down" THEN RowsOf(files) ELSE committed

\* The first records on disk.
First(done, rows) ==
    /\ Spells(files, rows) /\ rows \in Seq(1..Len(steps))
    /\ done \in Seq(1..Len(steps)) /\ Len(done) <= Len(rows)
    /\ \A i \in 1..Len(done) : done[i] = rows[i]
    /\ LineBytes * Len(done) <= Total(Lengths)

LEMMA DoneIs ==
  ASSUME LogAssumption, IInv, ~slipped
  PROVE  /\ \E rows : First(Done, rows)
         /\ committed \in Seq(1..Len(steps)) /\ Done \in Seq(1..Len(steps))
         /\ IsPrefix(committed, Done)
         /\ Parted(files, Len(steps)) /\ steps \in Seq(Steps)
  <1>1. Typed /\ Sound
    BY DEF IInv
  <1>2. PICK rows : Held(files, committed, Len(steps), rows)
    BY <1>1 DEF Sound
  <1>3. /\ Spells(files, rows) /\ rows \in Seq(1..Len(steps)) /\ Rising(rows)
        /\ IsPrefix(committed, rows)
        /\ LineBytes * Len(committed) <= Total(LengthsOf(files))
    BY <1>2 DEF Held
  <1>4. PICK fs, done, k : fs = files /\ done = committed /\ k = Len(steps)
    OBVIOUS
  <1>5. Parted(fs, k) /\ done \in Seq(1..k) /\ steps \in Seq(Steps) /\ k \in Nat
    BY <1>1, <1>4 DEF Typed
  <1>6. PICK w \in 0..Len(rows) :
          /\ RowsOf(fs) = SubSeq(rows, 1, w)
          /\ LineBytes * w <= Total(LengthsOf(fs)) /\ Total(LengthsOf(fs)) < LineBytes * w + LineBytes
    BY <1>3, <1>4, <1>5, RowsOfSpelled
  <1>7. PICK new : new = SubSeq(rows, 1, w)
    OBVIOUS
  <1>8. /\ new \in Seq(1..k) /\ Len(new) = w /\ Rising(new)
        /\ \A i \in 1..w : new[i] = rows[i]
    BY <1>3, <1>4, <1>5, <1>7, RisingPart
  <1>9. PICK d, x \in Nat : d = Len(done) /\ x = w /\ d <= x
    <2>1. PICK d, x \in Nat : d = Len(done) /\ x = w
      BY <1>3, <1>5, <1>6
    <2>2. Total(LengthsOf(fs)) \in Nat
      BY <1>3, <1>4, <1>5, LinesOfSpelled
    <2>3. LineBytes * d <= Total(LengthsOf(fs)) /\ Total(LengthsOf(fs)) < LineBytes * x + LineBytes
      BY <1>3, <1>4, <1>6, <2>1
    <2>4. d <= x
      BY <2>2, <2>3 DEF LineBytes
    <2> QED
      BY <2>1, <2>4
  <1>10. \A i \in 1..d : i \in 1..x /\ done[i] = rows[i]
    <2>1. \A i \in 1..Len(done) : done[i] = rows[i]
      BY <1>3, <1>4, <1>5, PrefixIs
    <2> QED
      BY <1>9, <2>1
  <1>11. IsPrefix(done, new)
    <2>1. Len(done) <= Len(new) /\ \A i \in 1..Len(done) : done[i] = new[i]
      BY <1>8, <1>9, <1>10
    <2> QED
      BY <1>5, <1>8, <2>1, PrefixIs
  <1>12. IsPrefix(done, done)
    <2>1. Len(done) <= Len(done)
      BY <1>9
    <2> QED
      BY <1>5, <2>1, PrefixIs
  <1>13. Done = new \/ Done = done
    BY <1>4, <1>6, <1>7, Zenon DEF Done
  <1>14. First(new, rows)
    <2>1. Len(new) <= Len(rows) /\ \A i \in 1..Len(new) : new[i] = rows[i]
      BY <1>6, <1>8
    <2>2. LineBytes * Len(new) <= Total(Lengths)
      BY <1>4, <1>6, <1>8, Zenon DEF Lengths
    <2> QED
      BY <1>3, <1>4, <1>8, <2>1, <2>2, Zenon DEF First
  <1>15. First(done, rows)
    <2>1. Len(done) <= Len(rows) /\ \A i \in 1..Len(done) : done[i] = rows[i]
      <3>1. Len(done) <= Len(rows)
        BY <1>6, <1>9
      <3> QED
        BY <1>9, <1>10, <3>1
    <2>2. LineBytes * Len(done) <= Total(Lengths)
      BY <1>3, <1>4, Zenon DEF Lengths
    <2> QED
      BY <1>3, <1>4, <1>5, <2>1, <2>2, Zenon DEF First
  <1> QED
    BY <1>4, <1>5, <1>8, <1>11, <1>12, <1>13, <1>14, <1>15, Zenon

\* The pinned bytes before a limit are still where they were.
Steady(fs, pin, lim) ==
    \A n \in DOMAIN pin : Before(pin, n) < lim =>
      /\ n \in DOMAIN fs /\ Before(LengthsOf(fs), n) = Before(pin, n)
      /\ MinOf(pin[n], lim - Before(pin, n)) <= Len(fs[n])

\* Where a pinned part ends and there is more, another begins.
LEMMA NextPinned ==
  ASSUME NEW pin, Measured(pin), NEW lim \in Nat, lim <= Total(pin), NEW n \in DOMAIN pin,
         Before(pin, n) + pin[n] < lim
  PROVE  \E m \in DOMAIN pin : Before(pin, m) = Before(pin, n) + pin[n]
  <1>1. n \in Nat /\ \A m \in DOMAIN pin : m \in Nat /\ pin[m] \in Nat
    BY DEF Measured
  <1>2. PICK top \in Nat : DOMAIN pin \subseteq 0..top
    BY DEF Measured
  <1>3. PICK z \in Nat : z = LastOf(DOMAIN pin) /\ \A m \in DOMAIN pin : m <= z
    BY <1>2, LastIs
  <1>4. \A m \in Nat : /\ Before(pin, m) \in Nat
                       /\ Before(pin, m + 1) = Before(pin, m) + LengthIn(pin, m)
                       /\ LengthIn(pin, m) \in Nat
    BY BeforeIs, LengthInNat
  <1>5. PICK a \in Nat : a = Before(pin, n + 1) /\ a = Before(pin, n) + pin[n] /\ a < lim
    <2>1. LengthIn(pin, n) = pin[n]
      BY DEF LengthIn
    <2> QED
      BY <1>1, <1>4, <2>1
  <1>6. PICK T : T = {m \in Nat : m > n /\ Before(pin, m + 1) # a}
    OBVIOUS
  <1>7. T # {}
    <2>1. Total(pin) = Before(pin, z + 1)
      BY <1>3, Zenon DEF Total
    <2>2. Before(pin, z + 1) # a
      BY <1>3, <1>4, <1>5, <2>1
    <2>3. z # n /\ n <= z
      BY <1>3, <1>5, <2>2
    <2>4. z > n
      BY <1>1, <1>3, <2>3
    <2> QED
      BY <1>6, <2>2, <2>4
  <1>8. PICK m \in T : \A x \in T : m <= x
    <2>1. T \subseteq Nat
      BY <1>6
    <2> QED
      BY <1>7, <2>1, Least
  <1>9. m \in Nat /\ m > n /\ Before(pin, m + 1) # a
    BY <1>6, <1>8
  <1>10. Before(pin, m) = a
    <2>1. CASE m = n + 1
      BY <1>5, <2>1
    <2>2. CASE m # n + 1
      <3>1. PICK x \in Nat : m = x + 1 /\ x > n /\ ~(m <= x)
        <4>1. m - 1 \in Nat /\ m = (m - 1) + 1 /\ m - 1 > n /\ ~(m <= m - 1)
          BY <1>1, <1>9, <2>2
        <4> QED
          BY <4>1
      <3>2. x \notin T
        BY <1>8, <3>1
      <3> QED
        BY <1>6, <3>1, <3>2
    <2> QED
      BY <2>1, <2>2
  <1>11. m \in DOMAIN pin
    <2>1. LengthIn(pin, m) # 0
      BY <1>4, <1>5, <1>9, <1>10
    <2> QED
      BY <2>1 DEF LengthIn
  <1> QED
    BY <1>5, <1>10, <1>11

\* What stays is what a reader views.
LEMMA SteadyViewed ==
  ASSUME Parted(files, Len(steps)), NEW pin, Measured(pin), NEW lim \in Nat, lim <= Total(pin),
         Steady(files, pin, lim), NEW done, NEW rows, First(done, rows),
         lim <= LineBytes * Len(done)
  PROVE  Viewed(pin, lim, done)
  <1>1. /\ Spells(files, rows) /\ rows \in Seq(1..Len(steps))
        /\ done \in Seq(1..Len(steps)) /\ Len(done) <= Len(rows)
        /\ \A i \in 1..Len(done) : done[i] = rows[i]
    BY DEF First
  <1>2. \A n \in DOMAIN pin : n \in Nat /\ pin[n] \in Nat
    BY DEF Measured
  <1>3. ASSUME NEW n \in DOMAIN pin, Before(pin, n) < lim
        PROVE  \E off \in Nat : Before(pin, n) = LineBytes * off
    <2>1. n \in DOMAIN files /\ Before(LengthsOf(files), n) = Before(pin, n)
      BY <1>3 DEF Steady
    <2>2. n \in Nat /\ n <= LastOf(DOMAIN files)
      BY <2>1, PartFits
    <2>3. \E off \in Nat : Before(LengthsOf(files), n) = LineBytes * off
      BY <1>1, <2>2, WholeBefore
    <2> QED
      BY <2>1, <2>3
  <1>4. ASSUME NEW n \in DOMAIN pin, Before(pin, n) < lim
        PROVE  /\ n \in DOMAIN files
               /\ Before(pin, n) % LineBytes = 0
               /\ MinOf(pin[n], lim - Before(pin, n)) <= Len(files[n])
               /\ \A i \in 1..MinOf(pin[n], lim - Before(pin, n)) :
                    files[n][i] = ByteOf(done, Before(pin, n) + i)
               /\ Before(pin, n) + pin[n] < lim => (Before(pin, n) + pin[n]) % LineBytes = 0
    <2>1. /\ n \in DOMAIN files /\ Before(LengthsOf(files), n) = Before(pin, n)
          /\ MinOf(pin[n], lim - Before(pin, n)) <= Len(files[n])
      BY <1>4 DEF Steady
    <2>2. PICK off \in Nat : Before(pin, n) = LineBytes * off
      BY <1>3, <1>4
    <2>3. Before(pin, n) % LineBytes = 0
      BY <2>2 DEF LineBytes
    <2>4. PICK b, l \in Nat : b = Before(pin, n) /\ l = pin[n] /\ b < lim
      BY <1>2, <1>4, <2>2 DEF LineBytes
    <2>5. PICK e \in Nat : e = MinOf(l, lim - b) /\ b + e <= lim /\ e <= Len(files[n])
      <3>1. MinOf(l, lim - b) \in Nat /\ b + MinOf(l, lim - b) <= lim
        BY <2>4 DEF MinOf
      <3> QED
        BY <2>1, <2>4, <3>1
    <2>6. ASSUME NEW i \in 1..e PROVE files[n][i] = ByteOf(done, b + i)
      <3>1. PICK len \in Nat : len = Len(files[n])
        BY <2>1 DEF Parted
      <3>2. i \in 1..len
        BY <2>5, <3>1
      <3>3. files[n][i] = ByteOf(rows, b + i)
        BY <1>1, <2>1, <2>4, <3>1, <3>2 DEF Spells
      <3>4. PICK c, g \in Nat : c = b + i /\ c # 0 /\ g = Len(done) /\ c <= LineBytes * g
        <4>1. PICK g \in Nat : g = Len(done) /\ lim <= 3 * g
          <5>1. PICK g \in Nat : g = Len(done)
            BY <1>1
          <5>2. lim <= LineBytes * g
            BY <5>1
          <5> QED
            BY <5>1, <5>2 DEF LineBytes
        <4>2. b + i \in Nat /\ b + i # 0 /\ b + i <= 3 * g
          <5>1. b + i \in Nat /\ b + i # 0 /\ b + i <= b + e
            BY <2>4, <2>5, SMTT(30)
          <5>2. b + e <= lim
            BY <2>5
          <5> QED
            BY <2>4, <2>5, <4>1, <5>1, <5>2
        <4> QED
          BY <4>1, <4>2 DEF LineBytes
      <3>5. LineOf(c) \in 1..g
        BY <3>4, LineBounds
      <3>6. done[LineOf(c)] = rows[LineOf(c)]
        BY <1>1, <3>4, <3>5
      <3> QED
        BY <3>3, <3>4, <3>6, Zenon DEF ByteOf
    <2>7. ASSUME b + l < lim PROVE (b + l) % LineBytes = 0
      <3>1. PICK m \in DOMAIN pin : Before(pin, m) = b + l
        BY <2>4, <2>7, NextPinned
      <3>2. PICK end \in Nat : Before(pin, m) = LineBytes * end
        BY <1>3, <2>7, <3>1
      <3> QED
        BY <3>1, <3>2 DEF LineBytes
    <2> QED
      BY <2>1, <2>3, <2>4, <2>5, <2>6, <2>7, Zenon
  <1> QED
    BY <1>1, <1>4, Zenon DEF Viewed

-----------------------------------------------------------------------------
(* The reader's part of the inductive invariant                            *)

\* An index for so many bytes that is right for the first of these records,
\* with these steps.
Cached(c, rows, e, st) ==
    /\ e \in 0..Len(rows) /\ c.index \in Seq(AnchorSet)
    /\ \A i \in 1..Len(c.index) : /\ c.index[i].line < e
                                  /\ c.index[i].at = LineBytes * c.index[i].line
                                  /\ c.index[i].step = st[rows[c.index[i].line + 1]]
    /\ ~c.merge => \A i \in 2..e : st[rows[i - 1]] < st[rows[i]]
    /\ c.size \in Nat /\ c.size <= LineBytes * Len(rows) /\ c.size \div LineBytes <= e

\* The reader's part of the inductive invariant: what was settled when the
\* index was filled stays, whatever the writer does.
Serves(fs, r, e) ==
    r.cache.size = r.limit => Steady(fs, r.pin, r.limit) /\ Known(r.pin, r.limit) <= e
Reads(fs, r, done, st) ==
    r.cache.size \in Nat /\ r.cache.settled =>
      \E e \in Nat : Cached(r.cache, done, e, st) /\ Serves(fs, r, e)
Snapshot(r) ==
    /\ r = [pin |-> r.pin, limit |-> r.limit, cache |-> r.cache, pins |-> r.pins]
    /\ Measured(r.pin) /\ r.limit \in Nat /\ r.limit <= Total(r.pin)
RInv == Snapshot(rd) /\ (~slipped => Reads(files, rd, Done, steps))

Finding ==
    /\ \E rows : First(Done, rows)
    /\ committed \in Seq(1..Len(steps)) /\ Done \in Seq(1..Len(steps))
    /\ IsPrefix(committed, Done)
    /\ Parted(files, Len(steps)) /\ steps \in Seq(Steps)

LEMMA FindingIs == IInv /\ ~slipped => Finding
  <1>1. LogAssumption
    BY LogAssumption
  <1> QED
    BY <1>1, DoneIs, Zenon DEF Finding

LEMMA FindingNext == IInv' /\ ~slipped' => Finding'
  BY FindingIs, PTL

LEMMA CachedGrows ==
  ASSUME NEW st \in Seq(Steps), NEW rows \in Seq(1..Len(st)), NEW new \in Seq(Steps),
         NEW more \in Seq(1..Len(new)), IsPrefix(rows, more),
         \A g \in 1..Len(st) : new[g] = st[g], NEW c, NEW e, Cached(c, rows, e, st)
  PROVE  Cached(c, more, e, new)
  <1>1. PICK k, m \in Nat : k = Len(rows) /\ m = Len(more) /\ k <= m
    <2>1. rows \in Seq(Nat) /\ more \in Seq(Nat)
      <3>1. 1..Len(st) \subseteq Nat /\ 1..Len(new) \subseteq Nat
        OBVIOUS
      <3> QED
        BY <3>1
    <2>2. Len(rows) <= Len(more)
      BY <2>1, PrefixIs
    <2> QED
      BY <2>2
  <1>2. \A i \in 1..k : more[i] = rows[i]
    <2>1. rows \in Seq(Nat) /\ more \in Seq(Nat)
      <3>1. 1..Len(st) \subseteq Nat /\ 1..Len(new) \subseteq Nat
        OBVIOUS
      <3> QED
        BY <3>1
    <2> QED
      BY <1>1, <2>1, PrefixIs
  <1>3. ASSUME NEW i \in 1..k PROVE new[more[i]] = st[rows[i]]
    <2>1. rows[i] \in 1..Len(st)
      BY <1>1
    <2> QED
      BY <1>2, <2>1
  <1>4. /\ e \in 0..k /\ c.index \in Seq(AnchorSet)
        /\ c.size \in Nat /\ c.size <= LineBytes * k /\ c.size \div LineBytes <= e
    BY <1>1 DEF Cached
  <1>5. ASSUME NEW i \in 1..Len(c.index)
        PROVE  /\ c.index[i].line < e /\ c.index[i].at = LineBytes * c.index[i].line
               /\ c.index[i].step = new[more[c.index[i].line + 1]]
    <2>1. PICK l \in Nat : l = c.index[i].line
      <3>1. c.index[i] \in AnchorSet
        BY <1>4
      <3> QED
        BY <3>1 DEF AnchorSet
    <2>2. l < e /\ c.index[i].at = LineBytes * l /\ c.index[i].step = st[rows[l + 1]]
      BY <2>1, Zenon DEF Cached
    <2>3. l + 1 \in 1..k
      BY <1>1, <1>4, <2>2
    <2> QED
      BY <1>3, <2>1, <2>2, <2>3
  <1>6. ASSUME ~c.merge, NEW i \in 2..e PROVE new[more[i - 1]] < new[more[i]]
    <2>1. st[rows[i - 1]] < st[rows[i]]
      BY <1>6, Zenon DEF Cached
    <2>2. i - 1 \in 1..k /\ i \in 1..k
      BY <1>1, <1>4
    <2> QED
      BY <1>3, <2>1, <2>2
  <1>7. e \in 0..m /\ c.size <= LineBytes * m
    <2>1. PICK z \in Nat : z = c.size /\ z <= 3 * k
      BY <1>4 DEF LineBytes
    <2>2. PICK j \in Nat : j = e /\ j <= k
      BY <1>1, <1>4
    <2>3. k <= m
      BY <1>1
    <2>4. j \in 0..m /\ z <= 3 * m
      BY <2>1, <2>2, <2>3
    <2> QED
      BY <2>1, <2>2, <2>4, Zenon DEF LineBytes
  <1> QED
    BY <1>1, <1>4, <1>5, <1>6, <1>7, Zenon DEF Cached

\* What a step of the writer must leave alone.
LEMMA ReadsKept ==
  ASSUME NEW st \in Seq(Steps), NEW done \in Seq(1..Len(st)), NEW new \in Seq(Steps),
         NEW more \in Seq(1..Len(new)), IsPrefix(done, more),
         \A g \in 1..Len(st) : new[g] = st[g],
         NEW fs, NEW gs, NEW r, Snapshot(r), Reads(fs, r, done, st),
         r.limit <= LineBytes * Len(done) /\ Steady(fs, r.pin, r.limit) => Steady(gs, r.pin, r.limit)
  PROVE  Reads(gs, r, more, new)
  <1> SUFFICES ASSUME r.cache.size \in Nat, r.cache.settled
               PROVE  \E e \in Nat : Cached(r.cache, more, e, new) /\ Serves(gs, r, e)
    BY Zenon DEF Reads
  <1>1. PICK e \in Nat : Cached(r.cache, done, e, st) /\ Serves(fs, r, e)
    BY Zenon DEF Reads
  <1>2. Cached(r.cache, more, e, new)
    BY <1>1, CachedGrows
  <1>3. ASSUME r.cache.size = r.limit PROVE Steady(gs, r.pin, r.limit) /\ Known(r.pin, r.limit) <= e
    <2>1. Steady(fs, r.pin, r.limit) /\ Known(r.pin, r.limit) <= e
      BY <1>1, <1>3, Zenon DEF Serves
    <2>2. r.limit <= LineBytes * Len(done)
      BY <1>1, <1>3, Zenon DEF Cached
    <2> QED
      BY <2>1, <2>2
  <1> QED
    BY <1>2, <1>3, Zenon DEF Serves
-----------------------------------------------------------------------------
(* Steps of the writer                                                     *)

\* Bytes are appended to the last part, or to a new one after it.
LEMMA SteadyAppended ==
  ASSUME NEW fs, NEW k, Parted(fs, k), NEW a \in Nat, \A n \in DOMAIN fs : n <= a,
         NEW extra \in Seq(ByteSet(k)), NEW gs, Appended(gs, fs, a, extra),
         NEW pin, Measured(pin), NEW lim \in Nat, Steady(fs, pin, lim)
  PROVE  Steady(gs, pin, lim)
  <1>1. PICK old : old = ContentsIn(fs, a)
    OBVIOUS
  <1>2. Extended(gs, fs, k, a, old, extra)
    BY <1>1, AppendedType
  <1>3. /\ Parted(gs, k) /\ DOMAIN gs = DOMAIN fs \cup {a}
        /\ \A n \in DOMAIN fs : n # a => gs[n] = fs[n]
        /\ old \in Seq(ByteSet(k)) /\ Len(gs[a]) = Len(old) + Len(extra)
    BY <1>2 DEF Extended
  <1>4. PICK L, M : L = LengthsOf(fs) /\ M = LengthsOf(gs)
    OBVIOUS
  <1>5. /\ Measured(L) /\ Measured(M)
        /\ \A p : LengthIn(L, p) = Len(ContentsIn(fs, p))
        /\ \A p : LengthIn(M, p) = Len(ContentsIn(gs, p))
    BY <1>3, <1>4, LengthsAre
  <1>6. ASSUME NEW i \in Nat \ {a} PROVE LengthIn(L, i) = LengthIn(M, i)
    <2>1. ContentsIn(fs, i) = ContentsIn(gs, i)
      BY <1>3, Zenon DEF ContentsIn
    <2> QED
      BY <1>5, <2>1
  <1>7. \A m \in 0..a : Before(M, m) = Before(L, m)
    BY <1>5, <1>6, BeforeShift
  <1>8. ASSUME NEW n \in DOMAIN pin, Before(pin, n) < lim
        PROVE  /\ n \in DOMAIN gs /\ Before(M, n) = Before(pin, n)
               /\ MinOf(pin[n], lim - Before(pin, n)) <= Len(gs[n])
    <2>1. /\ n \in DOMAIN fs /\ Before(L, n) = Before(pin, n)
          /\ MinOf(pin[n], lim - Before(pin, n)) <= Len(fs[n])
      BY <1>4, <1>8 DEF Steady
    <2>2. n \in 0..a
      BY <2>1 DEF Parted
    <2>3. Len(fs[n]) <= Len(gs[n])
      <3>1. CASE n = a
        <4>1. old = fs[n]
          BY <1>1, <2>1, <3>1 DEF ContentsIn
        <4>2. Len(old) <= Len(old) + Len(extra)
          BY <1>3
        <4> QED
          BY <1>3, <3>1, <4>1, <4>2
      <3>2. CASE n # a
        <4>1. gs[n] = fs[n] /\ Len(fs[n]) \in Nat
          BY <1>3, <2>1, <3>2 DEF Parted
        <4> QED
          BY <4>1
      <3> QED
        BY <3>1, <3>2
    <2>4. PICK x, y, z \in Int : /\ x = MinOf(pin[n], lim - Before(pin, n))
                                 /\ y = Len(fs[n]) /\ z = Len(gs[n])
      <3>1. pin[n] \in Nat /\ Before(pin, n) \in Nat /\ n \in DOMAIN gs
        BY <1>3, <2>1, BeforeIs DEF Measured
      <3>2. MinOf(pin[n], lim - Before(pin, n)) \in Int
        BY <3>1 DEF MinOf
      <3>3. Len(fs[n]) \in Nat /\ Len(gs[n]) \in Nat
        BY <1>3, <2>1, <3>1 DEF Parted
      <3> QED
        BY <3>2, <3>3
    <2>5. x <= z
      BY <2>1, <2>3, <2>4
    <2> QED
      BY <1>3, <1>7, <2>1, <2>2, <2>4, <2>5
  <1> QED
    BY <1>4, <1>8, Zenon DEF Steady

\* A part is cut after the limit.
LEMMA SteadyShortened ==
  ASSUME NEW fs, NEW k, Parted(fs, k), NEW p \in DOMAIN fs, NEW keep \in 0..Len(fs[p]),
         NEW gs, Shortened(gs, fs, p, keep),
         NEW pin, Measured(pin), NEW lim \in Nat, Steady(fs, pin, lim),
         lim <= Before(LengthsOf(fs), p) + keep
  PROVE  Steady(gs, pin, lim)
  <1>1. PICK L, M : L = LengthsOf(fs) /\ M = LengthsOf(gs)
    OBVIOUS
  <1>2. /\ Parted(gs, k)
        /\ LengthIn(M, p) = keep /\ \A n \in Nat \ {p} : LengthIn(L, n) = LengthIn(M, n)
        /\ p \in DOMAIN gs => Len(gs[p]) = keep
    BY <1>1, ShortenedType
  <1>3. Measured(L) /\ Measured(M) /\ LengthIn(L, p) = Len(fs[p]) /\ p \in Nat
    <2>1. ContentsIn(fs, p) = fs[p]
      BY DEF ContentsIn
    <2>2. p \in Nat
      BY DEF Parted
    <2> QED
      BY <1>1, <1>2, <2>1, <2>2, LengthsAre
  <1>4. \A m \in 0..p : Before(M, m) = Before(L, m)
    BY <1>2, <1>3, BeforeShift
  <1>5. PICK b, l \in Nat : b = Before(L, p) /\ l = Len(fs[p]) /\ b + l = Before(L, p + 1) /\ keep <= l
    <2>1. Len(fs[p]) \in Nat
      BY DEF Parted
    <2>2. Before(L, p) \in Nat /\ Before(L, p + 1) = Before(L, p) + LengthIn(L, p)
      BY <1>3, BeforeIs
    <2>3. keep <= Len(fs[p])
      BY <2>1
    <2> QED
      BY <1>3, <2>1, <2>2, <2>3, Zenon
  <1>6. ASSUME NEW n \in DOMAIN pin, Before(pin, n) < lim
        PROVE  /\ n \in DOMAIN gs /\ Before(M, n) = Before(pin, n)
               /\ MinOf(pin[n], lim - Before(pin, n)) <= Len(gs[n])
    <2>1. /\ n \in DOMAIN fs /\ Before(L, n) = Before(pin, n)
          /\ MinOf(pin[n], lim - Before(pin, n)) <= Len(fs[n])
      BY <1>1, <1>6 DEF Steady
    <2>2. n \in Nat /\ pin[n] \in Nat
      BY DEF Measured
    <2>3. n <= p
      <3>1. ASSUME p + 1 <= n PROVE FALSE
        <4>1. Before(L, p + 1) <= Before(L, n)
          BY <1>3, <2>2, <3>1, BeforeGap
        <4>2. PICK c \in Nat : c = Before(L, n) /\ c < lim /\ lim <= b + keep
          BY <1>1, <1>3, <1>5, <1>6, <2>1, <2>2, BeforeIs
        <4> QED
          BY <1>5, <4>1, <4>2
      <3> QED
        BY <1>3, <2>2, <3>1
    <2>4. CASE n = p
      <3>1. b < lim /\ lim <= b + keep
        BY <1>1, <1>5, <1>6, <2>1, <2>4
      <3>2. p \in DOMAIN gs
        <4>1. keep # 0
          BY <1>5, <3>1
        <4> QED
          BY <4>1 DEF Shortened
      <3>3. MinOf(pin[n], lim - b) <= keep
        BY <1>5, <2>2, <3>1 DEF MinOf
      <3> QED
        BY <1>2, <1>3, <1>4, <1>5, <2>1, <2>4, <3>2, <3>3
    <2>5. CASE n # p
      <3>1. n \in DOMAIN gs /\ gs[n] = fs[n]
        BY <2>1, <2>5 DEF Shortened
      <3>2. Before(M, n) = Before(L, n)
        BY <1>3, <1>4, <2>2, <2>3
      <3> QED
        BY <2>1, <3>1, <3>2
    <2> QED
      BY <2>4, <2>5
  <1> QED
    BY <1>1, <1>6, Zenon DEF Steady

-----------------------------------------------------------------------------
(* Rollbacks, repairs and writes                                           *)

\* What is cut by NativeWriter::new is a line nobody has.
LEMMA ReopenKeeps ==
  ASSUME LogAssumption, steps \in Seq(Steps), NEW fs, Parted(fs, Len(steps)),
         NEW rows \in Seq(1..Len(steps)), Rising(rows), Spells(fs, rows),
         NEW gs, Reopened(gs, fs)
  PROVE  /\ RowsOf(gs) = RowsOf(fs)
         /\ \A pin : \A lim \in Nat :
              /\ Measured(pin) /\ Steady(fs, pin, lim) /\ lim <= LineBytes * Len(RowsOf(fs))
              => Steady(gs, pin, lim)
  <1>1. PICK c : Kept(gs, fs, rows, c)
    BY KeptIs
  <1>2. /\ c \in 0..Len(rows) /\ RowsOf(gs) = SubSeq(rows, 1, c)
        /\ Total(LengthsOf(gs)) = LineBytes * c
        /\ Total(LengthsOf(fs)) < LineBytes * c + LineBytes
    BY <1>1 DEF Kept
  <1>3. PICK w \in 0..Len(rows) :
          /\ RowsOf(fs) = SubSeq(rows, 1, w)
          /\ LineBytes * w <= Total(LengthsOf(fs)) /\ Total(LengthsOf(fs)) < LineBytes * w + LineBytes
    BY RowsOfSpelled
  <1>4. CASE DOMAIN fs = {}
    <2>1. gs = fs
      BY <1>4, ReopenedEmpty
    <2> QED
      BY <2>1
  <1>5. CASE DOMAIN fs # {}
    <2>1. PICK p \in DOMAIN fs, keep \in Nat :
             p = LastOf(DOMAIN fs) /\ keep \in 0..Len(fs[p]) /\ Shortened(gs, fs, p, keep)
      BY <1>5, ReopenedIs
    <2>2. PICK L, M : L = LengthsOf(fs) /\ M = LengthsOf(gs)
      OBVIOUS
    <2>3. /\ Parted(gs, Len(steps)) /\ LengthIn(M, p) = keep
          /\ \A n \in Nat \ {p} : LengthIn(L, n) = LengthIn(M, n)
      BY <2>1, <2>2, ShortenedType
    <2>4. /\ Measured(L) /\ Measured(M) /\ LengthIn(L, p) = Len(fs[p]) /\ p \in Nat
          /\ Len(fs[p]) \in Nat
      <3>1. ContentsIn(fs, p) = fs[p]
        BY DEF ContentsIn
      <3>2. p \in Nat
        BY DEF Parted
      <3> QED
        BY <2>2, <2>3, <3>1, <3>2, LengthsAre
    <2>5. Total(M) + LengthIn(L, p) = Total(L) + LengthIn(M, p)
      BY <2>3, <2>4, BeforeShift
    <2>6. Before(L, p) \in Nat /\ Before(L, p) + Len(fs[p]) = Total(L) /\ Total(L) \in Nat
      BY <2>1, <2>2, PartFits
    <2>7. PICK b, l, t, d, x \in Nat : /\ b = Before(L, p) /\ l = Len(fs[p]) /\ t = Total(L)
                                       /\ b + l = t /\ d = c /\ x = w
      BY <1>2, <1>3, <2>4, <2>6
    <2>8. 3 * d + l = t + keep /\ keep <= l /\ t < 3 * d + 3 /\ 3 * x <= t /\ t < 3 * x + 3
      <3>1. keep <= l
        BY <2>1, <2>7
      <3> QED
        BY <1>2, <1>3, <2>2, <2>3, <2>4, <2>5, <2>7, <3>1 DEF LineBytes
    <2>9. d = x /\ 3 * d = b + keep
      <3>1. b + l = t
        BY <2>7
      <3>2. /\ 3 * d + l = t + keep /\ keep <= l /\ t < 3 * d + 3 /\ 3 * x <= t
            /\ t < 3 * x + 3 /\ keep \in Nat
        BY <2>8
      <3>3. 3 * d = b + keep
        BY <3>1, <3>2
      <3>4. 3 * d <= t
        BY <3>1, <3>2, <3>3
      <3>5. ~(d < x) /\ ~(x < d)
        BY <3>2, <3>4
      <3> QED
        BY <3>3, <3>5
    <2>10. RowsOf(gs) = RowsOf(fs)
      BY <1>2, <1>3, <2>7, <2>9
    <2>11. Len(RowsOf(fs)) = x
      BY <1>3, <2>7, CutTo
    <2>12. ASSUME NEW pin, NEW lim \in Nat, Measured(pin), Steady(fs, pin, lim),
                  lim <= LineBytes * Len(RowsOf(fs))
           PROVE  Steady(gs, pin, lim)
      <3>1. lim <= Before(LengthsOf(fs), p) + keep
        BY <2>2, <2>7, <2>9, <2>11, <2>12 DEF LineBytes
      <3> QED
        BY <2>1, <2>12, <3>1, SteadyShortened
    <2> QED
      BY <2>10, <2>12
  <1> QED
    BY <1>4, <1>5

\* A rollback takes the bytes from the last committed one on.
LEMMA RollbackKeeps ==
  ASSUME LogAssumption, Typed, Sound, RollbackPart, NEW pin, NEW lim \in Nat, Measured(pin),
         Steady(files, pin, lim), lim <= LineBytes * Len(committed)
  PROVE  Steady(files', pin, lim)
  <1>1. pc = "rollback" /\ undo.parts # {} /\ CutPart(NextPart)
    BY DEF RollbackPart
  <1>2. /\ Parted(files, Len(steps)) /\ undo.left \in Nat /\ undo.parts \subseteq DOMAIN files
        /\ committed \in Seq(1..Len(steps))
    BY DEF Typed
  <1>3. PICK p : p = NextPart
    OBVIOUS
  <1>4. /\ p \in DOMAIN files /\ p \in Nat /\ CutPart(p) /\ p \in undo.parts
        /\ \A m \in undo.parts : p <= m
    BY <1>1, <1>2, <1>3, NextPartIs
  <1>5. PICK keep \in 0..Len(files[p]) :
          /\ Shortened(files', files, p, keep)
          /\ keep = MinOf(undo.left, Len(files[p]))
          /\ undo.left >= Len(files[p]) => UNCHANGED files
    BY <1>2, <1>4, CutPartIs
  <1>6. Undoing(undo.left, undo.parts, files, size) /\ size = LineBytes * Len(committed)
    BY <1>1, AtWork
  <1>7. PICK next \in Nat : /\ undo.parts = {n \in DOMAIN files : n >= next}
                            /\ undo.left + Before(LengthsOf(files), next) = size
    BY <1>6 DEF Undoing
  <1>8. PICK L : L = LengthsOf(files)
    OBVIOUS
  <1>9. Measured(L) /\ DOMAIN L = DOMAIN files /\ Len(files[p]) \in Nat
    BY <1>2, <1>4, <1>8, LengthsAre
  <1>10. Before(L, p) = Before(L, next)
    <2>1. next <= p
      BY <1>4, <1>7
    <2>2. \A n \in next..(p - 1) : n \notin DOMAIN L
      <3>1. SUFFICES ASSUME NEW n \in next..(p - 1), n \in DOMAIN files PROVE FALSE
        BY <1>9
      <3>2. n \in undo.parts
        BY <1>7, <3>1
      <3> QED
        BY <1>4, <3>2
    <2> QED
      BY <1>4, <1>9, <2>1, <2>2, BeforeGap
  <1>11. CASE undo.left >= Len(files[p])
    BY <1>5, <1>11
  <1>12. CASE ~(undo.left >= Len(files[p]))
    <2>1. PICK left, len, b, c \in Nat : /\ left = undo.left /\ len = Len(files[p])
                                         /\ b = Before(L, p) /\ c = Len(committed)
      <3>1. Before(L, p) \in Nat
        BY <1>4, <1>9, BeforeIs
      <3>2. Len(committed) \in Nat
        BY <1>2
      <3> QED
        BY <1>2, <1>9, <3>1, <3>2
    <2>2. keep = left
      BY <1>5, <1>12, <2>1 DEF MinOf
    <2>3. left + b = LineBytes * c
      BY <1>6, <1>7, <1>8, <1>10, <2>1
    <2>4. lim <= Before(LengthsOf(files), p) + keep
      BY <1>8, <2>1, <2>2, <2>3 DEF LineBytes
    <2> QED
      BY <1>2, <1>4, <1>5, <2>4, SteadyShortened
  <1> QED
    BY <1>11, <1>12

\* A write, whole or not, puts its bytes after all the others.
LEMMA WroteKeeps ==
  ASSUME LogAssumption, Typed, Sound, pc = "write",
         files' = Put(active, Contents(active) \o Bytes(Chunk)) \/ PartlyWritten(Bytes(Chunk)),
         NEW pin, NEW lim \in Nat, Measured(pin), Steady(files, pin, lim)
  PROVE  Steady(files', pin, lim)
  <1>1. \A n \in DOMAIN files : n <= active
    BY DEF Sound, Stage
  <1>2. Parted(files, Len(steps)) /\ active \in Nat /\ Len(steps) \in Nat
    BY DEF Typed
  <1>3. Bytes(Chunk) \in Seq(ByteSet(Len(steps)))
    <2>1. /\ batch \in Seq(1..Len(steps)) /\ todo \in Nat \ {0} /\ todo <= Len(batch)
          /\ activeSize \in Nat
      BY DEF Typed
    <2>2. Chunk \in Seq(1..Len(steps))
      BY <1>2, <2>1, ChunkIs
    <2> QED
      BY <1>2, <2>2, BytesAre
  <1>4. PICK b, l : b = Bytes(Chunk) /\ b \in Seq(ByteSet(Len(steps))) /\ l = Len(b) /\ l \in Nat
    BY <1>3
  <1>5. ASSUME NEW extra \in Seq(ByteSet(Len(steps))), files' = Put(active, Contents(active) \o extra)
        PROVE  Steady(files', pin, lim)
    <2>1. PICK gs : gs = files'
      OBVIOUS
    <2>2. Appended(gs, files, active, extra)
      BY <1>5, <2>1, Zenon DEF Put, Contents, Appended
    <2>3. Steady(gs, pin, lim)
      BY <1>1, <1>2, <2>2, SteadyAppended
    <2> QED
      BY <2>1, <2>3
  <1>6. CASE files' = Put(active, Contents(active) \o b)
    BY <1>4, <1>5, <1>6
  <1>7. CASE UNCHANGED files
    BY <1>7
  <1>8. CASE \E n \in 0..(l - 1) : files' = Put(active, Contents(active) \o SubSeq(b, 1, n))
    <2>1. PICK n \in 0..(l - 1) : files' = Put(active, Contents(active) \o SubSeq(b, 1, n))
      BY <1>8
    <2>2. n \in 0..Len(b)
      BY <1>4
    <2>3. SubSeq(b, 1, n) \in Seq(ByteSet(Len(steps)))
      BY <1>4, <2>2, CutTo
    <2> QED
      BY <1>5, <2>1, <2>3
  <1> QED
    BY <1>4, <1>6, <1>7, <1>8, Zenon DEF PartlyWritten

-----------------------------------------------------------------------------
(* What a step of the writer leaves to a reader                            *)

LEMMA PrefixChain ==
  ASSUME NEW n \in Nat, NEW m \in Nat, NEW a \in Seq(1..n), NEW b \in Seq(1..n), NEW c \in Seq(1..m),
         IsPrefix(a, b), IsPrefix(b, c)
  PROVE  IsPrefix(a, c)
  <1>1. a \in Seq(Nat) /\ b \in Seq(Nat) /\ c \in Seq(Nat)
    <2>1. 1..n \subseteq Nat /\ 1..m \subseteq Nat
      OBVIOUS
    <2> QED
      BY <2>1
  <1>2. PICK x, y, z \in Nat : x = Len(a) /\ y = Len(b) /\ z = Len(c)
    BY <1>1
  <1>3. x <= y /\ y <= z /\ (\A i \in 1..x : a[i] = b[i]) /\ (\A i \in 1..y : b[i] = c[i])
    <2>1. Len(a) <= Len(b) /\ \A i \in 1..Len(a) : a[i] = b[i]
      BY <1>1, PrefixIs
    <2>2. Len(b) <= Len(c) /\ \A i \in 1..Len(b) : b[i] = c[i]
      BY <1>1, PrefixIs
    <2> QED
      BY <1>2, <2>1, <2>2
  <1>4. \A i \in 1..x : i \in 1..y
    BY <1>2, <1>3
  <1>5. Len(a) <= Len(c) /\ \A i \in 1..Len(a) : a[i] = c[i]
    BY <1>2, <1>3, <1>4
  <1> QED
    BY <1>1, <1>5, PrefixIs

LEMMA PrefixSame ==
  ASSUME NEW n \in Nat, NEW a \in Seq(1..n)
  PROVE  IsPrefix(a, a)
  <1>1. Len(a) <= Len(a)
    OBVIOUS
  <1> QED
    BY <1>1, PrefixIs

\* A writer that was not running is opened.
LEMMA OnlyOpens ==
  ASSUME WriterStep, pc = "down"
  PROVE  Open
  BY DEF WriterStep, TakeBatch, Rotate, WriteChunk, WriteFails, RollbackPart, RolledBack,
         RollbackFails, Commit, SaveMeta, Close, Crash, Enqueue

LEMMA StillSound ==
  ASSUME LogAssumption, IInv, WriterStep, ~slipped'
  PROVE  ~slipped
  <1>1. CASE Open
    BY <1>1, OpenIs DEF IInv
  <1>2. CASE TakeBatch \/ Rotate \/ WriteChunk \/ WriteFails \/ RollbackPart
    BY <1>2 DEF TakeBatch, Rotate, WriteChunk, WriteFails, RollbackPart, ghostVars
  <1>3. CASE RolledBack \/ RollbackFails \/ Commit \/ SaveMeta \/ Close \/ Crash
    BY <1>3 DEF RolledBack, RollbackFails, Commit, SaveMeta, Close, Crash, ghostVars
  <1>4. CASE \E s \in Steps : Enqueue(s)
    BY <1>4 DEF Enqueue, ghostVars
  <1> QED
    BY <1>1, <1>2, <1>3, <1>4 DEF WriterStep

LEMMA StepsStay ==
  ASSUME IInv, WriterStep
  PROVE  /\ UNCHANGED rd
         /\ \A g \in 1..Len(steps) : steps'[g] = steps[g]
  <1>1. steps \in Seq(Steps)
    BY DEF IInv, Typed
  <1>2. CASE \E s \in Steps : Enqueue(s)
    <2>1. PICK s \in Steps : Enqueue(s)
      BY <1>2
    <2>2. steps' = Append(steps, s) /\ UNCHANGED rd
      BY <2>1 DEF Enqueue
    <2>3. \A g \in 1..Len(steps) : Append(steps, s)[g] = steps[g]
      BY <1>1
    <2> QED
      BY <2>2, <2>3
  <1>3. CASE Open \/ TakeBatch \/ Rotate \/ WriteChunk \/ WriteFails \/ RollbackPart
    <2>1. UNCHANGED <<steps, rd>>
      BY <1>3 DEF Open, TakeBatch, Rotate, WriteChunk, WriteFails, RollbackPart
    <2> QED
      BY <2>1
  <1>4. CASE RolledBack \/ RollbackFails \/ Commit \/ SaveMeta \/ Close \/ Crash
    <2>1. UNCHANGED <<steps, rd>>
      BY <1>4 DEF RolledBack, RollbackFails, Commit, SaveMeta, Close, Crash
    <2> QED
      BY <2>1
  <1> QED
    BY <1>2, <1>3, <1>4 DEF WriterStep

\* No record that stays is lost.
LEMMA OpenKeeps ==
  ASSUME LogAssumption, IInv, ~slipped, ~slipped', Open
  PROVE  /\ Done' = Done
         /\ \A pin : \A lim \in Nat :
              /\ Measured(pin) /\ Steady(files, pin, lim) /\ lim <= LineBytes * Len(Done)
              => Steady(files', pin, lim)
  <1>1. Typed /\ Sound
    BY DEF IInv
  <1>2. PICK gs, fs : gs = files' /\ fs = files
    OBVIOUS
  <1>3. pc = "down" /\ pc' = "idle" /\ Reopened(gs, fs) /\ committed' = RowsOf(gs)
    BY <1>1, <1>2, OpenIs, Zenon
  <1>4. PICK rows : Held(files, committed, Len(steps), rows)
    BY <1>1 DEF Sound
  <1>5. Spells(fs, rows) /\ rows \in Seq(1..Len(steps)) /\ Rising(rows)
    BY <1>2, <1>4 DEF Held
  <1>6. steps \in Seq(Steps) /\ Parted(fs, Len(steps))
    BY <1>1, <1>2 DEF Typed
  <1>7. /\ RowsOf(gs) = RowsOf(fs)
        /\ \A pin : \A lim \in Nat :
             /\ Measured(pin) /\ Steady(fs, pin, lim) /\ lim <= LineBytes * Len(RowsOf(fs))
             => Steady(gs, pin, lim)
    BY <1>3, <1>5, <1>6, ReopenKeeps
  <1>8. Done = RowsOf(fs) /\ Done' = RowsOf(gs)
    <2>1. Done = RowsOf(fs)
      BY <1>2, <1>3 DEF Done
    <2>2. Done' = committed'
      BY <1>3 DEF Done
    <2> QED
      BY <1>3, <2>1, <2>2, Zenon
  <1> QED
    BY <1>2, <1>7, <1>8, Zenon

LEMMA DoneGrows ==
  ASSUME LogAssumption, IInv, IInv', WriterStep, ~slipped, ~slipped'
  PROVE  IsPrefix(Done, Done')
  <1>1. Finding /\ Finding'
    BY FindingIs, FindingNext
  <1>2. PICK n, m \in Nat : n = Len(steps) /\ m = Len(steps')
    <2>1. steps \in Seq(Steps) /\ steps' \in Seq(Steps)
      BY <1>1 DEF Finding
    <2> QED
      BY <2>1
  <1>3. PICK a, b, x, y : a = Done /\ b = Done' /\ x = committed /\ y = committed'
    OBVIOUS
  <1>4. a \in Seq(1..n) /\ b \in Seq(1..m) /\ x \in Seq(1..n) /\ y \in Seq(1..m) /\ IsPrefix(y, b)
    BY <1>1, <1>2, <1>3 DEF Finding
  <1>5. CASE pc = "down"
    <2>1. a = b
      BY <1>3, <1>5, OnlyOpens, OpenKeeps
    <2> QED
      BY <1>2, <1>3, <1>4, <2>1, PrefixSame
  <1>6. CASE pc # "down"
    <2>1. a = x
      BY <1>3, <1>6 DEF Done
    <2>2. IsPrefix(x, y)
      BY <1>3, CommittedGrows DEF Next
    <2>3. n <= m
      <3>1. steps \in Seq(Steps)
        BY <1>1 DEF Finding
      <3>2. steps' = steps \/ \E s \in Steps : steps' = Append(steps, s)
        <4>1. CASE Open \/ TakeBatch \/ Rotate \/ WriteChunk \/ WriteFails \/ RollbackPart
          BY <4>1 DEF Open, TakeBatch, Rotate, WriteChunk, WriteFails, RollbackPart
        <4>2. CASE RolledBack \/ RollbackFails \/ Commit \/ SaveMeta \/ Close \/ Crash
          BY <4>2 DEF RolledBack, RollbackFails, Commit, SaveMeta, Close, Crash
        <4>3. CASE \E s \in Steps : Enqueue(s)
          BY <4>3 DEF Enqueue
        <4> QED
          BY <4>1, <4>2, <4>3 DEF WriterStep
      <3> QED
        BY <1>2, <3>1, <3>2
    <2>4. a \in Seq(1..m) /\ x \in Seq(1..m)
      <3>1. PICK S, T : S = 1..n /\ T = 1..m
        OBVIOUS
      <3>2. S \subseteq T
        BY <1>2, <2>3, <3>1
      <3>3. a \in Seq(S) /\ x \in Seq(S)
        BY <1>4, <2>1, <3>1
      <3>4. a \in Seq(T) /\ x \in Seq(T)
        BY <3>2, <3>3
      <3> QED
        BY <3>1, <3>4
    <2>5. IsPrefix(x, b)
      BY <1>2, <1>4, <2>2, <2>4, PrefixChain
    <2> QED
      BY <1>3, <2>1, <2>5
  <1> QED
    BY <1>5, <1>6

LEMMA FilesStay ==
  ASSUME LogAssumption, IInv, WriterStep, ~slipped, ~slipped', Snapshot(rd),
         rd.limit <= LineBytes * Len(Done), Steady(files, rd.pin, rd.limit)
  PROVE  Steady(files', rd.pin, rd.limit)
  <1>1. Typed /\ Sound
    BY DEF IInv
  <1>2. PICK pin, lim : pin = rd.pin /\ lim = rd.limit /\ Measured(pin) /\ lim \in Nat
    BY DEF Snapshot
  <1>3. Steady(files, pin, lim) /\ lim <= LineBytes * Len(Done)
    BY <1>2
  <1> SUFFICES Steady(files', pin, lim)
    BY <1>2
  <1>4. CASE Open
    BY <1>2, <1>3, <1>4, OpenKeeps
  <1>5. CASE RollbackPart
    <2>1. pc = "rollback"
      BY <1>5 DEF RollbackPart
    <2>2. lim <= LineBytes * Len(committed)
      BY <1>3, <2>1 DEF Done
    <2> QED
      BY <1>1, <1>2, <1>3, <1>5, <2>2, RollbackKeeps
  <1>6. CASE WriteChunk
    <2>1. pc = "write" /\ files' = Put(active, Contents(active) \o Bytes(Chunk))
      BY <1>6 DEF WriteChunk
    <2> QED
      BY <1>1, <1>2, <1>3, <2>1, WroteKeeps
  <1>7. CASE WriteFails
    <2>1. pc = "write" /\ PartlyWritten(Bytes(Chunk))
      BY <1>7 DEF WriteFails
    <2> QED
      BY <1>1, <1>2, <1>3, <2>1, WroteKeeps
  <1>8. CASE Crash
    <2>1. (pc = "write" /\ PartlyWritten(Bytes(Chunk))) \/ UNCHANGED files
      BY <1>8 DEF Crash
    <2>2. CASE UNCHANGED files
      BY <1>3, <2>2
    <2>3. CASE pc = "write" /\ PartlyWritten(Bytes(Chunk))
      BY <1>1, <1>2, <1>3, <2>3, WroteKeeps
    <2> QED
      BY <2>1, <2>2, <2>3
  <1>9. CASE TakeBatch \/ Rotate \/ RolledBack \/ RollbackFails \/ Commit \/ SaveMeta \/ Close
    <2>1. UNCHANGED files
      BY <1>9 DEF TakeBatch, Rotate, RolledBack, RollbackFails, Commit, SaveMeta, Close, diskVars
    <2> QED
      BY <1>3, <2>1
  <1>10. CASE \E s \in Steps : Enqueue(s)
    <2>1. UNCHANGED files
      BY <1>10 DEF Enqueue, diskVars
    <2> QED
      BY <1>3, <2>1
  <1> QED
    BY <1>4, <1>5, <1>6, <1>7, <1>8, <1>9, <1>10 DEF WriterStep

LEMMA WriterKeepsReads ==
  ASSUME LogAssumption, IInv, IInv', RInv, WriterStep
  PROVE  RInv'
  <1>1. Snapshot(rd) /\ Snapshot(rd)' /\ UNCHANGED rd
    BY StepsStay DEF RInv, Snapshot
  <1>2. SUFFICES ASSUME ~slipped' PROVE Reads(files, rd, Done, steps)'
    BY <1>1 DEF RInv
  <1>3. ~slipped
    BY <1>2, StillSound
  <1>4. Finding /\ Finding'
    BY <1>2, <1>3, FindingIs, FindingNext
  <1>5. IsPrefix(Done, Done')
    BY <1>2, <1>3, DoneGrows
  <1>6. \A g \in 1..Len(steps) : steps'[g] = steps[g]
    BY StepsStay
  <1>7. rd.limit <= LineBytes * Len(Done) /\ Steady(files, rd.pin, rd.limit)
          => Steady(files', rd.pin, rd.limit)
    BY <1>1, <1>2, <1>3, FilesStay
  <1>8. PICK st, done, new, more, fs, gs, r :
          /\ st = steps /\ done = Done /\ new = steps' /\ more = Done' /\ fs = files
          /\ gs = files' /\ r = rd
    OBVIOUS
  <1>9. /\ st \in Seq(Steps) /\ done \in Seq(1..Len(st)) /\ new \in Seq(Steps)
        /\ more \in Seq(1..Len(new)) /\ IsPrefix(done, more)
        /\ \A g \in 1..Len(st) : new[g] = st[g]
    BY <1>4, <1>5, <1>6, <1>8 DEF Finding
  <1>10. Snapshot(r) /\ Reads(fs, r, done, st)
    BY <1>1, <1>3, <1>8 DEF RInv
  <1>11. r.limit <= LineBytes * Len(done) /\ Steady(fs, r.pin, r.limit) => Steady(gs, r.pin, r.limit)
    BY <1>7, <1>8, Zenon
  <1>12. Reads(gs, r, more, new)
    BY <1>9, <1>10, <1>11, ReadsKept
  <1>13. Reads(files', rd', Done', steps')
    BY <1>1, <1>8, <1>12, Zenon
  <1> QED
    BY <1>13, Zenon

-----------------------------------------------------------------------------
(* Steps of a reader                                                       *)

\* What is found on disk depends on the disk alone.
FoundAlike ==
    \A rows : Held(files, committed, Len(steps), rows) =>
      RowsOf(files) = SubSeq(rows, 1, Total(LengthsOf(files)) \div LineBytes)

LEMMA FoundAlikeIs == IInv => FoundAlike
  <1> SUFFICES ASSUME IInv, NEW rows, Held(files, committed, Len(steps), rows)
               PROVE  RowsOf(files) = SubSeq(rows, 1, Total(LengthsOf(files)) \div LineBytes)
    BY DEF FoundAlike
  <1>1. Spells(files, rows) /\ rows \in Seq(1..Len(steps))
    BY DEF Held
  <1>2. steps \in Seq(Steps) /\ Parted(files, Len(steps))
    BY DEF IInv, Typed
  <1>3. PICK w \in 0..Len(rows) :
          /\ RowsOf(files) = SubSeq(rows, 1, w)
          /\ LineBytes * w <= Total(LengthsOf(files))
          /\ Total(LengthsOf(files)) < LineBytes * w + LineBytes
    BY <1>1, <1>2, LogAssumption, RowsOfSpelled
  <1>4. PICK t, x \in Nat : t = Total(LengthsOf(files)) /\ x = w
    BY <1>1, <1>2, LinesOfSpelled
  <1>5. x = t \div 3
    BY <1>3, <1>4 DEF LineBytes
  <1> QED
    BY <1>3, <1>4, <1>5 DEF LineBytes

LEMMA FoundAlikeNext == IInv' => FoundAlike'
  BY FoundAlikeIs, PTL

LEMMA DoneSame ==
  ASSUME IInv, IInv', ~slipped, UNCHANGED <<files, pc, steps, committed>>
  PROVE  Done' = Done
  <1>1. PICK rows : Held(files, committed, Len(steps), rows)
    BY DEF IInv, Sound
  <1>2. RowsOf(files) = SubSeq(rows, 1, Total(LengthsOf(files)) \div LineBytes)
    BY <1>1, FoundAlikeIs DEF FoundAlike
  <1>3. FoundAlike'
    BY FoundAlikeNext
  <1>4. \A r : Held(files', committed', Len(steps'), r) =>
          RowsOf(files)' = SubSeq(r, 1, Total(LengthsOf(files')) \div LineBytes)
    BY <1>3 DEF FoundAlike
  <1>5. RowsOf(files)' = SubSeq(rows, 1, Total(LengthsOf(files)) \div LineBytes)
    BY <1>1, <1>4, Zenon
  <1> QED
    BY <1>2, <1>5, Zenon DEF Done

\* Where a record ends with the parts, no more is read than is whole.
LEMMA KnownPinned ==
  ASSUME Parted(files, Len(steps)), NEW done, NEW rows, First(done, rows),
         NEW lim \in Nat, lim <= LineBytes * Len(done)
  PROVE  Known(Lengths, lim) = lim \div LineBytes
  <1>1. CASE ~Ends(Lengths, lim)
    BY <1>1 DEF Known
  <1>2. CASE Ends(Lengths, lim)
    <2>1. /\ Spells(files, rows) /\ rows \in Seq(1..Len(steps)) /\ done \in Seq(1..Len(steps))
          /\ LineBytes * Len(done) <= Total(Lengths)
      BY DEF First
    <2>2. PICK n \in DOMAIN Lengths : Before(Lengths, n) < lim /\ Before(Lengths, n) + Lengths[n] = lim
      BY <1>2 DEF Ends
    <2>3. n \in DOMAIN files /\ Lengths[n] = Len(files[n]) /\ Len(files[n]) \in Nat
      <3>1. DOMAIN Lengths = DOMAIN files
        BY LengthsAre DEF Lengths
      <3> QED
        BY <2>2, <3>1, LengthsAre DEF Lengths
    <2>4. /\ n \in Nat /\ n <= LastOf(DOMAIN files) /\ Total(Lengths) \in Nat
          /\ n = LastOf(DOMAIN files) => Before(Lengths, n) + Len(files[n]) = Total(Lengths)
      BY <2>3, PartFits DEF Lengths
    <2>5. PICK off \in Nat : Before(Lengths, n) = LineBytes * off
      BY <2>1, <2>4, WholeBefore DEF Lengths
    <2>6. n = LastOf(DOMAIN files) \/ Len(files[n]) % LineBytes = 0
      BY <2>1, <2>3 DEF Spells
    <2>7. PICK l, t, d \in Nat : l = Len(files[n]) /\ t = Total(Lengths) /\ d = Len(done)
      BY <2>1, <2>3, <2>4
    <2>8. /\ 3 * off + l = lim /\ lim <= 3 * d /\ 3 * d <= t
          /\ lim = t \/ l % 3 = 0
      BY <2>1, <2>2, <2>3, <2>4, <2>5, <2>6, <2>7 DEF LineBytes
    <2>9. lim % 3 = 0
      <3>1. CASE lim = t
        <4>1. lim = 3 * d
          BY <2>8, <3>1
        <4> QED
          BY <4>1
      <3>2. CASE l % 3 = 0
        <4>1. PICK x \in Nat : l = 3 * x
          BY <3>2
        <4> QED
          BY <2>8, <4>1
      <3> QED
        BY <2>8, <3>1, <3>2
    <2>10. (lim + 1) \div 3 = lim \div 3
      BY <2>9
    <2> QED
      BY <1>2, <2>10 DEF Known, LineBytes
  <1> QED
    BY <1>1, <1>2

\* What is pinned now is where it is.
LEMMA SteadyNow ==
  ASSUME NEW k, Parted(files, k), NEW lim \in Nat
  PROVE  Steady(files, Lengths, lim) /\ Measured(Lengths)
  <1>1. /\ Measured(Lengths) /\ DOMAIN Lengths = DOMAIN files
        /\ \A p \in DOMAIN files : Lengths[p] = Len(files[p]) /\ Len(files[p]) \in Nat
    BY LengthsAre DEF Lengths
  <1>2. ASSUME NEW n \in DOMAIN Lengths, Before(Lengths, n) < lim
        PROVE  MinOf(Lengths[n], lim - Before(Lengths, n)) <= Len(files[n])
    <2>1. Lengths[n] = Len(files[n]) /\ Len(files[n]) \in Nat /\ Before(Lengths, n) \in Nat
      BY <1>1, BeforeIs DEF Measured
    <2> QED
      BY <2>1 DEF MinOf
  <1> QED
    BY <1>1, <1>2, Zenon DEF Steady, Lengths

LEMMA TotalInNat ==
  ASSUME NEW L, Measured(L)
  PROVE  Total(L) \in Nat
  <1>1. PICK top \in Nat : DOMAIN L \subseteq 0..top
    BY DEF Measured
  <1>2. \A n \in DOMAIN L : n < top + 1
    BY <1>1
  <1> QED
    BY <1>2, TotalIs

LEMMA PinReads ==
  ASSUME IInv, RInv, Pin
  PROVE  Snapshot(rd') /\ (~slipped => Reads(files, rd', Done, steps))
  <1>1. Snapshot(rd) /\ (~slipped => Reads(files, rd, Done, steps))
    BY DEF RInv
  <1>2. PICK limit \in IF rd.pins = 0 THEN {Total(Lengths), MaxOf(0, Total(Lengths) - 1)}
                       ELSE {rd.cache.size} \cap 0..Total(Lengths) :
           rd' = [rd EXCEPT !.pin = Lengths, !.limit = limit, !.pins = @ + 1]
    BY DEF Pin
  <1>3. Parted(files, Len(steps))
    BY DEF IInv, Typed
  <1>4. Measured(Lengths) /\ Total(Lengths) \in Nat
    BY <1>3, LengthsAre, TotalInNat DEF Lengths
  <1>5. limit \in Nat /\ limit <= Total(Lengths)
    BY <1>2, <1>4 DEF MaxOf
  <1>6. rd = [pin |-> rd.pin, limit |-> rd.limit, cache |-> rd.cache, pins |-> rd.pins]
    BY <1>1 DEF Snapshot
  <1>7. rd' = [pin |-> Lengths, limit |-> limit, cache |-> rd.cache, pins |-> rd.pins + 1]
    BY <1>2, <1>6
  <1>8. PICK r : r = rd'
    OBVIOUS
  <1>9. /\ r.pin = Lengths /\ r.limit = limit /\ r.cache = rd.cache
        /\ r = [pin |-> r.pin, limit |-> r.limit, cache |-> r.cache, pins |-> r.pins]
    BY <1>7, <1>8
  <1>10. Snapshot(r)
    BY <1>4, <1>5, <1>9, Zenon DEF Snapshot
  <1>11. ASSUME ~slipped, rd.cache.size \in Nat, rd.cache.settled
         PROVE  \E e \in Nat : Cached(rd.cache, Done, e, steps) /\ Serves(files, r, e)
    <2>1. PICK e \in Nat : Cached(rd.cache, Done, e, steps)
      BY <1>1, <1>11 DEF Reads
    <2>2. ASSUME rd.cache.size = limit PROVE Steady(files, Lengths, limit) /\ Known(Lengths, limit) <= e
      <3>1. PICK rows : First(Done, rows)
        BY <1>11, FindingIs DEF Finding
      <3>2. limit <= LineBytes * Len(Done) /\ limit \div LineBytes <= e
        BY <2>1, <2>2 DEF Cached
      <3>3. Known(Lengths, limit) = limit \div LineBytes
        BY <1>3, <1>5, <3>1, <3>2, KnownPinned
      <3> QED
        BY <1>3, <1>5, <3>2, <3>3, SteadyNow
    <2>3. Serves(files, r, e)
      BY <1>9, <2>2, Zenon DEF Serves
    <2> QED
      BY <2>1, <2>3
  <1>12. ~slipped => Reads(files, r, Done, steps)
    BY <1>9, <1>11, Zenon DEF Reads
  <1> QED
    BY <1>8, <1>10, <1>12

\* The anchors the writer or its metadata has for some first records, and its
\* word for their order, make an index that is right for them.
LEMMA DescribedCached ==
  ASSUME LogAssumption, NEW st \in Seq(Steps), NEW rows \in Seq(1..Len(st)),
         NEW new \in Seq(1..Len(st)), Len(new) <= Len(rows), \A i \in 1..Len(new) : new[i] = rows[i],
         NEW m, Describes(m, Values(new, st)),
         NEW c, c.index \in Seq(AnchorSet), c.merge <=> m.dups \/ ~m.sorted,
         \A i \in 1..Len(c.index) : \E j \in 1..Len(m.index) : c.index[i] = m.index[j],
         c.size \in Nat, c.size <= LineBytes * Len(rows), c.size \div LineBytes <= Len(new)
  PROVE  Cached(c, rows, Len(new), st)
  <1>1. PICK k, l \in Nat : k = Len(new) /\ l = Len(rows) /\ k <= l
    OBVIOUS
  <1>2. PICK v : v = Values(new, st)
    OBVIOUS
  <1>3. /\ Len(v) = k
        /\ \A i \in 1..k : v[i] = st[rows[i]] /\ st[rows[i]] \in Nat
    <2>1. /\ Len(v) = k
          /\ \A i \in 1..k : v[i] = st[new[i]] /\ st[new[i]] \in Steps
      BY <1>1, <1>2, ValuesAre
    <2>2. Steps \subseteq Nat
      BY LogAssumption
    <2> QED
      BY <1>1, <2>1, <2>2
  <1>4. /\ m.sorted = (\A i \in 2..k : v[i - 1] <= v[i])
        /\ m.dups = (\E i \in 2..k : v[i - 1] = v[i])
        /\ \A j \in 1..Len(m.index) :
             /\ m.index[j].line \in 0..(k - 1)
             /\ m.index[j].at = LineBytes * m.index[j].line
             /\ m.index[j].step = v[m.index[j].line + 1]
    BY <1>2, <1>3, Zenon DEF Describes
  <1>5. ASSUME ~c.merge, NEW i \in 2..k PROVE st[rows[i - 1]] < st[rows[i]]
    <2>1. v[i - 1] <= v[i] /\ v[i - 1] # v[i]
      BY <1>4, <1>5
    <2>2. i - 1 \in 1..k /\ i \in 1..k
      BY <1>1
    <2>3. PICK a, b \in Nat : a = v[i - 1] /\ b = v[i] /\ a = st[rows[i - 1]] /\ b = st[rows[i]]
      BY <1>3, <2>2
    <2> QED
      BY <2>1, <2>3
  <1>6. ASSUME NEW i \in 1..Len(c.index)
        PROVE  /\ c.index[i].line < k /\ c.index[i].at = LineBytes * c.index[i].line
               /\ c.index[i].step = st[rows[c.index[i].line + 1]]
    <2>1. PICK j \in 1..Len(m.index) : c.index[i] = m.index[j]
      OBVIOUS
    <2>2. PICK g \in 0..(k - 1) : g = m.index[j].line
      BY <1>4
    <2>3. g < k /\ g + 1 \in 1..k
      BY <1>1
    <2>4. v[g + 1] = st[rows[g + 1]]
      BY <1>3, <2>3
    <2>5. m.index[j].at = LineBytes * m.index[j].line /\ m.index[j].step = v[m.index[j].line + 1]
      BY <1>4
    <2> QED
      BY <2>1, <2>2, <2>3, <2>4, <2>5
  <1>7. /\ k \in 0..l /\ c.size \in Nat /\ c.size <= LineBytes * l /\ c.size \div LineBytes <= k
    BY <1>1
  <1> QED
    BY <1>1, <1>5, <1>6, <1>7, Zenon DEF Cached

LEMMA PinOwnReads ==
  ASSUME LogAssumption, IInv, RInv, PinOwn
  PROVE  Snapshot(rd') /\ (~slipped => Reads(files, rd', Done, steps))
  <1>1. Typed
    BY DEF IInv
  <1>2. /\ Parted(files, Len(steps)) /\ steps \in Seq(Steps) /\ committed \in Seq(1..Len(steps))
        /\ log \in LogSet /\ size \in Nat
    BY <1>1 DEF Typed
  <1>3. Measured(Lengths) /\ Total(Lengths) \in Nat
    BY <1>2, LengthsAre, TotalInNat DEF Lengths
  <1>4. PICK lim \in Nat : lim = MinOf(size, Total(Lengths)) /\ lim <= Total(Lengths) /\ lim <= size
    <2>1. /\ MinOf(size, Total(Lengths)) \in Nat
          /\ MinOf(size, Total(Lengths)) <= Total(Lengths) /\ MinOf(size, Total(Lengths)) <= size
      BY <1>2, <1>3 DEF MinOf
    <2> QED
      BY <2>1
  <1>5. PICK r, c, P : /\ P = {i \in 1..Len(log.index) : log.index[i].at < lim}
                       /\ c = [size |-> lim, settled |-> TRUE, index |-> Pick(log.index, P),
                               merge |-> log.dups \/ ~log.sorted]
                       /\ r = [pin |-> Lengths, limit |-> lim, pins |-> MaxPins, cache |-> c]
    OBVIOUS
  <1>6. rd' = r /\ pc # "down"
    BY <1>4, <1>5, Zenon DEF PinOwn
  <1>7. /\ r.pin = Lengths /\ r.limit = lim /\ r.cache = c
        /\ r = [pin |-> r.pin, limit |-> r.limit, cache |-> r.cache, pins |-> r.pins]
    BY <1>5
  <1>8. /\ c.size = lim /\ c.settled /\ c.index = Pick(log.index, P)
        /\ c.merge = (log.dups \/ ~log.sorted)
    BY <1>5
  <1>9. Snapshot(r)
    BY <1>3, <1>4, <1>7, Zenon DEF Snapshot
  <1>10. ASSUME ~slipped PROVE \E e \in Nat : Cached(c, Done, e, steps) /\ Serves(files, r, e)
    <2>1. Sound
      BY <1>10 DEF IInv
    <2>2. size = LineBytes * Len(committed) /\ Describes(log, Values(committed, steps))
      BY <1>1, <1>6, <2>1, AtWork
    <2>3. Done = committed
      BY <1>6 DEF Done
    <2>4. log.index \in Seq(AnchorSet)
      BY <1>2 DEF LogSet
    <2>5. PICK n \in Nat : n = Len(log.index)
      BY <2>4
    <2>6. P \subseteq 1..n /\ P \subseteq 0..n
      BY <1>5, <2>5
    <2>7. c.index \in Seq(AnchorSet)
      BY <1>8, <2>4, <2>5, <2>6, PickType
    <2>8. ASSUME NEW i \in 1..Len(c.index) PROVE \E j \in 1..Len(log.index) : c.index[i] = log.index[j]
      <3>1. PICK t : Orders(t, P)
        BY <2>5, <2>6, AscendingOrders
      <3>2. Picked(c.index, log.index, t, AnchorSet)
        BY <1>8, <2>4, <2>5, <2>6, <3>1, PickIs, ZenonT(30)
      <3>3. Len(t) = Len(c.index) /\ c.index[i] = log.index[t[i]]
        BY <3>2 DEF Picked
      <3>4. t[i] \in P
        BY <3>1, <3>3 DEF Orders
      <3> QED
        BY <2>5, <2>6, <3>3, <3>4
    <2>9. PICK l \in Nat : l = Len(committed)
      BY <1>2
    <2>10. lim <= 3 * l
      BY <1>4, <2>2, <2>9 DEF LineBytes
    <2>11. lim \div 3 <= l
      BY <2>10
    <2>12. Cached(c, committed, Len(committed), steps)
      <3>1. /\ \A i \in 1..Len(committed) : committed[i] = committed[i]
            /\ Len(committed) <= Len(committed)
            /\ c.size \in Nat /\ c.size <= LineBytes * Len(committed)
            /\ c.size \div LineBytes <= Len(committed)
        BY <1>8, <2>9, <2>10, <2>11 DEF LineBytes
      <3>2. c.merge <=> log.dups \/ ~log.sorted
        BY <1>8, Zenon
      <3> QED
        BY <1>2, <2>2, <2>7, <2>8, <3>1, <3>2, DescribedCached
    <2>13. PICK rows : First(Done, rows)
      BY <1>10, FindingIs DEF Finding
    <2>14. Known(Lengths, lim) = lim \div LineBytes
      BY <1>2, <2>3, <2>9, <2>10, <2>13, KnownPinned DEF LineBytes
    <2>15. Steady(files, Lengths, lim)
      BY <1>2, SteadyNow
    <2>16. Known(Lengths, lim) <= l
      BY <2>11, <2>14 DEF LineBytes
    <2>17. Serves(files, r, l)
      BY <1>7, <2>15, <2>16, Zenon DEF Serves
    <2> QED
      BY <2>3, <2>9, <2>12, <2>17, Zenon
  <1>11. ~slipped => Reads(files, r, Done, steps)
    BY <1>7, <1>10, Zenon DEF Reads
  <1> QED
    BY <1>6, <1>9, <1>11, Zenon

-----------------------------------------------------------------------------
(* An index from the lines themselves                                      *)

ScanSet == [line : Nat, next : Nat, prev : Nat, merge : BOOLEAN, index : Seq(AnchorSet)]

LEMMA ScanType ==
  ASSUME LogAssumption, NEW x \in ScanSet, NEW l, l.step \in Nat, l.at \in Nat
  PROVE  Scan(x, l) \in ScanSet
  <1>1. /\ x.line \in Nat /\ x.next \in Nat /\ x.prev \in Nat /\ x.merge \in BOOLEAN
        /\ x.index \in Seq(AnchorSet) /\ Every \in Nat
    BY LogAssumption DEF ScanSet
  <1>2. PICK a : a = [step |-> l.step, line |-> x.line, at |-> l.at]
    OBVIOUS
  <1>3. a \in AnchorSet
    BY <1>1, <1>2 DEF AnchorSet
  <1>4. Append(x.index, a) \in Seq(AnchorSet)
    BY <1>1, <1>3
  <1>5. PICK known, due : known = (l.step # NoStep) /\ due = (known /\ x.line >= x.next)
    OBVIOUS
  <1>6. PICK y : y = Scan(x, l)
    OBVIOUS
  <1>7. y = [line  |-> x.line + 1,
             next  |-> IF due THEN x.line + Every ELSE x.next,
             prev  |-> IF known THEN l.step ELSE x.prev,
             merge |-> x.merge \/ (known /\ l.step <= x.prev),
             index |-> IF due THEN Append(x.index, a) ELSE x.index]
    BY <1>2, <1>5, <1>6, Zenon DEF Scan
  <1>8. PICK f, g, h, i, j : /\ f = x.line + 1 /\ g = (IF due THEN x.line + Every ELSE x.next)
                             /\ h = (IF known THEN l.step ELSE x.prev)
                             /\ i = (x.merge \/ (known /\ l.step <= x.prev))
                             /\ j = (IF due THEN Append(x.index, a) ELSE x.index)
    OBVIOUS
  <1>9. f \in Nat /\ g \in Nat
    BY <1>1, <1>8
  <1>10. h \in Nat /\ j \in Seq(AnchorSet)
    BY <1>1, <1>4, <1>8, Zenon
  <1>11. i \in BOOLEAN
    BY <1>8, Zenon
  <1>12. y = [line |-> f, next |-> g, prev |-> h, merge |-> i, index |-> j]
    BY <1>7, <1>8, Zenon
  <1> QED
    BY <1>6, <1>9, <1>10, <1>11, <1>12 DEF ScanSet

\* Lines that were scanned.
Scans(f, lines) ==
    /\ \A i \in 0..Len(lines) : f[i] \in ScanSet
    /\ f[0] = Unread /\ ScanAll(lines) = f[Len(lines)]
    /\ \A i \in 1..Len(lines) : f[i] = Scan(f[i - 1], lines[i])

LEMMA UnreadType == Unread \in ScanSet
  <1>1. <<>> \in Seq(AnchorSet)
    OBVIOUS
  <1> QED
    BY <1>1 DEF Unread, ScanSet, NoStep

LEMMA ScanAllIs ==
  ASSUME LogAssumption, NEW lines, Len(lines) \in Nat,
         \A i \in 1..Len(lines) : lines[i].step \in Nat /\ lines[i].at \in Nat
  PROVE  \E f : Scans(f, lines)
  <1>1. PICK n \in Nat : n = Len(lines)
    OBVIOUS
  <1>2. PICK m : m = Unread /\ m \in ScanSet
    BY UnreadType
  <1>3. PICK G : G = [p \in Nat \X ScanSet |-> IF p[1] + 1 \in 1..n THEN Scan(p[2], lines[p[1] + 1])
                                               ELSE p[2]]
    OBVIOUS
  <1>4. /\ G \in [Nat \X ScanSet -> ScanSet]
        /\ \A i \in Nat, x \in ScanSet : i + 1 \in 1..n => G[<<i, x>>] = Scan(x, lines[i + 1])
    <2>1. ASSUME NEW i \in Nat, NEW x \in ScanSet
          PROVE  /\ G[<<i, x>>] \in ScanSet
                 /\ i + 1 \in 1..n => G[<<i, x>>] = Scan(x, lines[i + 1])
      <3>1. PICK k \in Nat : k = i + 1
        OBVIOUS
      <3>2. G[<<i, x>>] = IF k \in 1..n THEN Scan(x, lines[k]) ELSE x
        BY <1>3, <3>1
      <3>3. k \in 1..n => Scan(x, lines[k]) \in ScanSet
        BY <1>1, ScanType
      <3> QED
        BY <3>1, <3>2, <3>3, Zenon
    <2> QED
      BY <1>3, <2>1
  <1>5. PICK h : Iterates(h, ScanSet, m, G)
    BY <1>2, <1>4, Recursion
  <1>6. h[0] = m /\ \A i \in Nat : h[i] \in ScanSet /\ h[i + 1] = G[<<i, h[i]>>]
    BY <1>5 DEF Iterates
  <1>7. ASSUME NEW i \in 1..n PROVE h[i] = Scan(h[i - 1], lines[i])
    <2>1. PICK k \in Nat : k = i - 1 /\ k + 1 = i
      OBVIOUS
    <2>2. h[k + 1] = G[<<k, h[k]>>] /\ h[k] \in ScanSet
      BY <1>6
    <2>3. G[<<k, h[k]>>] = Scan(h[k], lines[k + 1])
      BY <1>4, <2>1, <2>2
    <2> QED
      BY <2>1, <2>2, <2>3, Zenon
  <1>8. PICK f : f = [i \in 0..n |-> h[i]]
    OBVIOUS
  <1>9. f = [i \in 0..Len(lines) |-> IF i = 0 THEN Unread ELSE Scan(f[i - 1], lines[i])]
    <2>1. ASSUME NEW i \in 0..n PROVE f[i] = IF i = 0 THEN m ELSE Scan(f[i - 1], lines[i])
      <3>1. CASE i = 0
        BY <1>6, <1>8, <3>1
      <3>2. CASE i # 0
        <4>1. i \in 1..n /\ i - 1 \in 0..n
          BY <3>2
        <4>2. f[i] = h[i] /\ f[i - 1] = h[i - 1]
          BY <1>8, <4>1
        <4> QED
          BY <1>7, <3>2, <4>1, <4>2, Zenon
      <3> QED
        BY <3>1, <3>2
    <2> QED
      BY <1>1, <1>2, <1>8, <2>1, Zenon
  <1>10. PICK g : g = CHOOSE s : s = [i \in 0..Len(lines) |->
                            IF i = 0 THEN Unread ELSE Scan(s[i - 1], lines[i])]
    OBVIOUS
  <1>11. g = [i \in 0..n |-> IF i = 0 THEN m ELSE Scan(g[i - 1], lines[i])]
    BY <1>1, <1>2, <1>9, <1>10, Zenon
  <1>12. ScanAll(lines) = g[n]
    BY <1>1, <1>10, Zenon DEF ScanAll
  <1>13. g[0] = m
    BY <1>11
  <1>14. ASSUME NEW i \in 1..n PROVE g[i] = Scan(g[i - 1], lines[i])
    <2>1. i \in 0..n /\ i # 0
      OBVIOUS
    <2> QED
      BY <1>11, <2>1, Zenon
  <1> DEFINE T == {i \in Nat : i <= n => g[i] \in ScanSet}
  <1>15. 0 \in T
    BY <1>2, <1>13
  <1>16. ASSUME NEW i \in Nat, i \in T PROVE i + 1 \in T
    <2>1. SUFFICES ASSUME i + 1 <= n PROVE g[i + 1] \in ScanSet
      OBVIOUS
    <2>2. PICK k \in 1..n : k = i + 1 /\ k - 1 = i
      BY <2>1
    <2>3. g[i] \in ScanSet
      BY <1>16, <2>1
    <2>4. Scan(g[i], lines[k]) \in ScanSet
      BY <1>1, <2>3, ScanType
    <2> QED
      BY <1>14, <2>2, <2>4, Zenon
  <1>17. Nat \subseteq T
    <2> HIDE DEF T
    <2> QED
      BY <1>15, <1>16, Inductive
  <1>18. \A i \in 0..n : g[i] \in ScanSet
    BY <1>17
  <1>19. Scans(g, lines)
    BY <1>1, <1>2, <1>12, <1>13, <1>14, <1>18, Zenon DEF Scans
  <1> QED
    BY <1>19

\* What was scanned is right for some first records.
Skimmed(x, rows, m) ==
    /\ \A j \in 1..Len(x.index) : /\ x.index[j].line < m
                                  /\ x.index[j].at = LineBytes * x.index[j].line
                                  /\ x.index[j].step = steps[rows[x.index[j].line + 1]]
    /\ m # 0 => x.prev = steps[rows[m]]
    /\ ~x.merge => \A i \in 2..m : steps[rows[i - 1]] < steps[rows[i]]

LEMMA ScanKnown ==
  ASSUME NEW rows, \A g \in 1..Len(rows) : steps[rows[g]] \in Nat /\ steps[rows[g]] # NoStep,
         NEW m \in Nat, m + 1 \in 1..Len(rows), NEW x \in ScanSet, x.line = m, Skimmed(x, rows, m),
         NEW l, l.step = steps[rows[m + 1]], l.at = LineBytes * m
  PROVE  Skimmed(Scan(x, l), rows, m + 1) /\ Scan(x, l).line = m + 1
  <1>1. /\ x.line \in Nat /\ x.prev \in Nat /\ x.index \in Seq(AnchorSet)
    BY DEF ScanSet
  <1>2. PICK due : due = (l.step # NoStep /\ x.line >= x.next)
    OBVIOUS
  <1>3. PICK a : a = [step |-> l.step, line |-> x.line, at |-> l.at]
    OBVIOUS
  <1>4. l.step \in Nat /\ l.step # NoStep
    OBVIOUS
  <1>5. PICK y : y = Scan(x, l)
    OBVIOUS
  <1>6. /\ y.line = m + 1 /\ y.prev = l.step
        /\ y.index = (IF due THEN Append(x.index, a) ELSE x.index)
        /\ ~y.merge => ~x.merge /\ ~(l.step <= x.prev)
    BY <1>2, <1>3, <1>4, <1>5 DEF Scan
  <1>7. a \in AnchorSet /\ a.step = steps[rows[m + 1]] /\ a.line = m /\ a.at = LineBytes * m
    BY <1>3, <1>4 DEF AnchorSet, LineBytes
  <1>8. PICK n \in Nat : n = Len(x.index)
    BY <1>1
  <1>9. ASSUME NEW j \in 1..n
        PROVE  /\ x.index[j].line < m + 1 /\ x.index[j].at = LineBytes * x.index[j].line
               /\ x.index[j].step = steps[rows[x.index[j].line + 1]]
    <2>1. PICK g \in Nat : g = x.index[j].line
      <3>1. x.index[j] \in AnchorSet
        BY <1>1, <1>8
      <3> QED
        BY <3>1 DEF AnchorSet
    <2>2. /\ g < m /\ x.index[j].at = LineBytes * g /\ x.index[j].step = steps[rows[g + 1]]
      BY <1>8, <2>1, Zenon DEF Skimmed
    <2>3. g < m + 1
      BY <2>2
    <2> QED
      BY <2>1, <2>2, <2>3, Zenon
  <1>10. ASSUME NEW j \in 1..Len(y.index)
         PROVE  /\ y.index[j].line < m + 1 /\ y.index[j].at = LineBytes * y.index[j].line
                /\ y.index[j].step = steps[rows[y.index[j].line + 1]]
    <2>1. CASE ~due
      BY <1>6, <1>8, <1>9, <2>1, Zenon
    <2>2. CASE due
      <3>1. y.index = Append(x.index, a)
        BY <1>6, <2>2, Zenon
      <3>2. j \in 1..(n + 1) /\ (j \in 1..n => y.index[j] = x.index[j]) /\ y.index[n + 1] = a
        BY <1>1, <1>7, <1>8, <3>1
      <3>3. CASE j \in 1..n
        BY <1>9, <3>2, <3>3, Zenon
      <3>4. CASE j = n + 1
        <4>1. m < m + 1
          OBVIOUS
        <4> QED
          BY <1>7, <3>2, <3>4, <4>1, Zenon
      <3>5. j \in 1..n \/ j = n + 1
        BY <3>2
      <3> QED
        BY <3>3, <3>4, <3>5
    <2> QED
      BY <2>1, <2>2
  <1>11. ASSUME ~y.merge, NEW i \in 2..(m + 1) PROVE steps[rows[i - 1]] < steps[rows[i]]
    <2>1. CASE i \in 2..m
      BY <1>6, <1>11, <2>1, Zenon DEF Skimmed
    <2>2. CASE i = m + 1
      <3>1. m # 0 /\ i - 1 = m
        BY <2>2
      <3>2. x.prev = steps[rows[m]]
        BY <3>1, Zenon DEF Skimmed
      <3>3. x.prev < l.step
        BY <1>1, <1>4, <1>6, <1>11
      <3> QED
        BY <2>2, <3>1, <3>2, <3>3, Zenon
    <2> QED
      BY <2>1, <2>2
  <1>12. Skimmed(y, rows, m + 1)
    BY <1>6, <1>10, <1>11, Zenon DEF Skimmed
  <1> QED
    BY <1>5, <1>6, <1>12, Zenon

LEMMA ScanUnknown ==
  ASSUME NEW rows, NEW m, NEW x \in ScanSet, Skimmed(x, rows, m), NEW l, l.step = NoStep
  PROVE  Skimmed(Scan(x, l), rows, m) /\ Scan(x, l).line = x.line + 1
  <1>1. PICK y : y = Scan(x, l)
    OBVIOUS
  <1>2. y.line = x.line + 1 /\ y.prev = x.prev /\ y.index = x.index /\ (~y.merge => ~x.merge)
    BY <1>1 DEF Scan
  <1>3. Skimmed(y, rows, m)
    BY <1>2, Zenon DEF Skimmed
  <1> QED
    BY <1>1, <1>2, <1>3, Zenon

LEMMA ScanAllSkims ==
  ASSUME LogAssumption, NEW pin, NEW lim, NEW rows, NEW k, NEW s, KnownAs(pin, lim, rows, k, s),
         NEW w, Lists(w, rows, lim, 0, s), steps \in Seq(Steps)
  PROVE  ScanAll(w) \in ScanSet /\ Skimmed(ScanAll(w), rows, k)
  <1>1. /\ k \in Nat /\ s \in Nat /\ k <= s /\ s <= Len(rows) /\ Len(w) = s
        /\ \A g \in 1..Len(rows) : steps[rows[g]] \in Nat /\ steps[rows[g]] # NoStep
    BY DEF KnownAs, Lists
  <1>2. ASSUME NEW i \in 1..s
        PROVE  /\ w[i].step = (IF i <= k THEN steps[rows[i]] ELSE NoStep)
               /\ w[i].at = LineBytes * (i - 1)
    <2>1. s - 0 = s /\ 0 + i = i
      BY <1>1
    <2>2. w[i] = LineAt(rows, i, lim)
      BY <2>1, Zenon DEF Lists
    <2> QED
      BY <2>2, Zenon DEF KnownAs
  <1>3. ASSUME NEW i \in 1..s PROVE w[i].step \in Nat /\ w[i].at \in Nat
    <2>1. LineBytes * (i - 1) \in Nat
      BY <1>1 DEF LineBytes
    <2>2. CASE i <= k
      <3>1. i \in 1..Len(rows)
        BY <1>1, <2>2
      <3> QED
        BY <1>1, <1>2, <2>1, <2>2, <3>1
    <2>3. CASE ~(i <= k)
      BY <1>2, <2>1, <2>3 DEF NoStep
    <2> QED
      BY <2>2, <2>3
  <1>4. PICK f : Scans(f, w)
    BY <1>1, <1>3, ScanAllIs
  <1>5. /\ \A i \in 0..s : f[i] \in ScanSet
        /\ f[0] = Unread /\ ScanAll(w) = f[s]
        /\ \A i \in 1..s : f[i] = Scan(f[i - 1], w[i])
    BY <1>1, <1>4, Zenon DEF Scans
  <1> DEFINE T == {i \in Nat : i <= s => f[i].line = i /\ Skimmed(f[i], rows, MinOf(i, k))}
  <1>6. 0 \in T
    <2>1. MinOf(0, k) = 0
      BY <1>1 DEF MinOf
    <2>2. f[0].line = 0 /\ Skimmed(f[0], rows, 0)
      BY <1>5 DEF Unread, Skimmed
    <2> QED
      BY <2>1, <2>2
  <1>7. ASSUME NEW i \in Nat, i \in T PROVE i + 1 \in T
    <2>1. SUFFICES ASSUME i + 1 <= s PROVE f[i + 1].line = i + 1 /\ Skimmed(f[i + 1], rows, MinOf(i + 1, k))
      OBVIOUS
    <2>2. f[i].line = i /\ Skimmed(f[i], rows, MinOf(i, k))
      BY <1>1, <1>7, <2>1
    <2>3. i + 1 \in 1..s /\ i \in 0..s /\ (i + 1) - 1 = i
      BY <1>1, <2>1
    <2>4. PICK x, l : x = f[i] /\ l = w[i + 1]
      OBVIOUS
    <2>5. f[i + 1] = Scan(x, l) /\ x \in ScanSet
      BY <1>5, <2>3, <2>4
    <2>6. l.step = (IF i + 1 <= k THEN steps[rows[i + 1]] ELSE NoStep) /\ l.at = LineBytes * i
      BY <1>2, <2>3, <2>4
    <2>7. CASE i + 1 <= k
      <3>1. MinOf(i, k) = i /\ MinOf(i + 1, k) = i + 1
        BY <1>1, <2>7 DEF MinOf
      <3>2. l.step = steps[rows[i + 1]] /\ Skimmed(x, rows, i) /\ x.line = i
        BY <2>2, <2>4, <2>6, <2>7, <3>1
      <3>3. i + 1 \in 1..Len(rows)
        BY <1>1, <2>3
      <3>4. Skimmed(Scan(x, l), rows, i + 1) /\ Scan(x, l).line = i + 1
        BY <1>1, <2>5, <2>6, <3>2, <3>3, ScanKnown, SMTT(30)
      <3> QED
        BY <2>5, <3>1, <3>4
    <2>8. CASE ~(i + 1 <= k)
      <3>1. MinOf(i, k) = k /\ MinOf(i + 1, k) = k
        BY <1>1, <2>8 DEF MinOf
      <3>2. l.step = NoStep /\ Skimmed(x, rows, k) /\ x.line = i
        BY <2>2, <2>4, <2>6, <2>8, <3>1
      <3>3. Skimmed(Scan(x, l), rows, k) /\ Scan(x, l).line = x.line + 1
        BY <2>5, <3>2, ScanUnknown
      <3> QED
        BY <2>5, <3>1, <3>2, <3>3
    <2> QED
      BY <2>7, <2>8
  <1>8. Nat \subseteq T
    <2> HIDE DEF T
    <2> QED
      BY <1>6, <1>7, Inductive
  <1>9. Skimmed(f[s], rows, MinOf(s, k)) /\ MinOf(s, k) = k
    <2>1. s \in T /\ s <= s
      BY <1>1, <1>8
    <2>2. MinOf(s, k) = k
      BY <1>1 DEF MinOf
    <2> QED
      BY <2>1, <2>2
  <1>10. s \in 0..s
    BY <1>1
  <1> QED
    BY <1>5, <1>9, <1>10

-----------------------------------------------------------------------------
(* A cache that is filled                                                  *)

\* Longer parts make a longer log.
LEMMA TotalGrows ==
  ASSUME NEW P, Measured(P), NEW L, Measured(L),
         \A n \in DOMAIN P : P[n] <= LengthIn(L, n)
  PROVE  Total(P) <= Total(L)
  <1>1. PICK x, y \in Nat : DOMAIN P \subseteq 0..x /\ DOMAIN L \subseteq 0..y
    BY DEF Measured
  <1>2. PICK t \in Nat : t > x /\ t > y
    <2>1. x + y + 1 \in Nat /\ x + y + 1 > x /\ x + y + 1 > y
      OBVIOUS
    <2> QED
      BY <2>1
  <1>3. (\A n \in DOMAIN P : n < t) /\ (\A n \in DOMAIN L : n < t)
    BY <1>1, <1>2
  <1>4. Total(P) = Before(P, t) /\ Total(L) = Before(L, t)
    BY <1>3, TotalIs
  <1>5. ASSUME NEW n \in Nat PROVE LengthIn(P, n) <= LengthIn(L, n)
    <2>1. LengthIn(L, n) \in Nat
      BY LengthInNat
    <2>2. CASE n \in DOMAIN P
      BY <2>2 DEF LengthIn
    <2>3. CASE n \notin DOMAIN P
      <3>1. LengthIn(P, n) = 0
        BY <2>3 DEF LengthIn
      <3> QED
        BY <2>1, <3>1
    <2> QED
      BY <2>2, <2>3
  <1> DEFINE T == {n \in Nat : Before(P, n) <= Before(L, n)}
  <1>6. 0 \in T
    <2>1. Before(P, 0) = 0 /\ Before(L, 0) = 0
      BY BeforeIs
    <2> QED
      BY <2>1
  <1>7. ASSUME NEW n \in Nat, n \in T PROVE n + 1 \in T
    <2>1. PICK a, b \in Nat : a = Before(P, n) /\ b = Before(L, n)
      BY BeforeIs
    <2>2. PICK c, d \in Nat : c = LengthIn(P, n) /\ d = LengthIn(L, n)
      BY LengthInNat
    <2>3. a <= b /\ c <= d
      BY <1>5, <1>7, <2>1, <2>2
    <2>4. Before(P, n + 1) = a + c /\ Before(L, n + 1) = b + d
      BY <2>1, <2>2, BeforeIs
    <2>5. a + c <= b + d
      BY <2>3
    <2> QED
      BY <2>4, <2>5
  <1>8. Nat \subseteq T
    <2> HIDE DEF T
    <2> QED
      BY <1>6, <1>7, Inductive
  <1> QED
    BY <1>4, <1>8

\* Where every part is repaired, the next writer has nothing to cut.
LEMMA NothingTorn ==
  ASSUME NEW fs, \A n \in DOMAIN fs : Repaired(fs[n]) = fs[n]
  PROVE  Reopened(fs, fs)
  <1>1. PICK n, c : n = LastOf(DOMAIN fs) /\ c = ContentsIn(fs, n)
    OBVIOUS
  <1>2. CASE n \in DOMAIN fs
    BY <1>1, <1>2, Zenon DEF Reopened, ContentsIn
  <1>3. CASE n \notin DOMAIN fs
    <2>1. c = <<>>
      BY <1>1, <1>3, Zenon DEF ContentsIn
    <2>2. c \in Seq(ByteSet(1)) /\ Len(c) = 0
      BY <2>1, EmptySeq
    <2>3. PICK keep \in 0..Len(c) : Repaired(c) = SubSeq(c, 1, keep)
      BY <2>2, RepairedIs
    <2>4. keep = 0
      BY <2>2, <2>3
    <2>5. Repaired(c) \in Seq(ByteSet(1)) /\ Len(Repaired(c)) = 0
      BY <2>2, <2>3, <2>4, CutTo
    <2>6. Repaired(c) = c
      BY <2>1, <2>5, EmptySeq
    <2> QED
      BY <1>1, <2>6, Zenon DEF Reopened
  <1> QED
    BY <1>2, <1>3

\* What is settled is steady, and of records that stay.
LEMMA SettledSteady ==
  ASSUME LogAssumption, IInv, ~slipped, Snapshot(rd), PinHolds, Settled
  PROVE  Steady(files, rd.pin, rd.limit) /\ rd.limit <= LineBytes * Len(Done)
  <1>1. Typed /\ Sound
    BY DEF IInv
  <1>2. steps \in Seq(Steps) /\ Parted(files, Len(steps)) /\ committed \in Seq(1..Len(steps))
    BY <1>1 DEF Typed
  <1>3. PICK pin, lim : /\ pin = rd.pin /\ lim = rd.limit
                        /\ Measured(pin) /\ lim \in Nat /\ lim <= Total(pin)
    BY DEF Snapshot
  <1>4. /\ \A n \in DOMAIN pin : /\ n \in DOMAIN files /\ pin[n] <= Len(Contents(n))
                                 /\ Before(pin, n) < lim => Before(pin, n) = Before(Lengths, n)
        /\ pc # "down" => lim <= size
        /\ pc = "down" => \A n \in DOMAIN files : Repaired(files[n]) = files[n]
    BY <1>3, Zenon DEF Settled, PinHolds
  <1>5. ASSUME NEW n \in DOMAIN pin PROVE pin[n] <= Len(files[n]) /\ Len(files[n]) \in Nat
    <2>1. n \in DOMAIN files /\ pin[n] <= Len(Contents(n))
      BY <1>4
    <2>2. Contents(n) = files[n]
      BY <2>1, Zenon DEF Contents, ContentsIn
    <2> QED
      BY <1>2, <2>1, <2>2 DEF Parted
  <1>6. ASSUME NEW n \in DOMAIN pin, Before(pin, n) < lim
        PROVE  MinOf(pin[n], lim - Before(pin, n)) <= Len(files[n])
    <2>1. PICK a, b, c \in Nat : a = pin[n] /\ b = Before(pin, n) /\ c = Len(files[n]) /\ a <= c
      <3>1. pin[n] \in Nat /\ Before(pin, n) \in Nat
        BY <1>3, BeforeIs DEF Measured
      <3> QED
        BY <1>5, <3>1
    <2>2. MinOf(a, lim - b) <= c
      BY <1>3, <2>1 DEF MinOf
    <2> QED
      BY <2>1, <2>2
  <1>7. Steady(files, pin, lim)
    BY <1>4, <1>6, Zenon DEF Steady, Lengths
  <1>8. lim <= LineBytes * Len(Done)
    <2>1. CASE pc # "down"
      <3>1. size = LineBytes * Len(committed) /\ Done = committed
        BY <1>1, <2>1, AtWork DEF Done
      <3> QED
        BY <1>4, <2>1, <3>1
    <2>2. CASE pc = "down"
      <3>1. PICK rows : Held(files, committed, Len(steps), rows)
        BY <1>1 DEF Sound
      <3>2. /\ Spells(files, rows) /\ rows \in Seq(1..Len(steps)) /\ Rising(rows)
        BY <3>1 DEF Held
      <3>3. Reopened(files, files)
        BY <1>4, <2>2, NothingTorn
      <3>4. PICK c : Kept(files, files, rows, c)
        BY <1>2, <3>2, <3>3, KeptIs
      <3>5. /\ c \in 0..Len(rows) /\ RowsOf(files) = SubSeq(rows, 1, c)
            /\ Total(LengthsOf(files)) = LineBytes * c
        BY <3>4, Zenon DEF Kept
      <3>6. Len(Done) = c
        <4>1. Len(steps) \in Nat
          BY <1>2
        <4> QED
          BY <2>2, <3>2, <3>5, <4>1, RisingPart DEF Done
      <3>7. Total(pin) <= Total(LengthsOf(files))
        <4>1. Measured(LengthsOf(files))
          BY <1>2, LengthsAre
        <4>2. ASSUME NEW n \in DOMAIN pin PROVE pin[n] <= LengthIn(LengthsOf(files), n)
          <5>1. n \in DOMAIN files
            BY <1>4
          <5>2. LengthIn(LengthsOf(files), n) = Len(files[n])
            BY <1>2, <5>1, LengthsAre, Zenon DEF LengthIn
          <5> QED
            BY <1>5, <5>2
        <4> QED
          BY <1>3, <4>1, <4>2, TotalGrows
      <3>8. PICK t, u \in Nat : t = Total(pin) /\ u = Total(LengthsOf(files))
        BY <1>2, <1>3, LengthsAre, TotalInNat
      <3>9. lim <= u
        BY <1>3, <3>7, <3>8
      <3> QED
        BY <3>5, <3>6, <3>8, <3>9
    <2> QED
      BY <2>1, <2>2
  <1> QED
    BY <1>3, <1>7, <1>8

LEMMA KnownBounds ==
  ASSUME NEW pin, NEW lim \in Nat
  PROVE  /\ lim \div LineBytes <= Known(pin, lim)
         /\ \A k \in Nat : lim = LineBytes * k => Known(pin, lim) = k /\ lim \div LineBytes = k
  <1>1. \/ Known(pin, lim) = (lim + 1) \div 3
        \/ Known(pin, lim) = lim \div 3
    BY Zenon DEF Known, LineBytes
  <1>2. PICK x \in Int : x = Known(pin, lim)
    BY <1>1
  <1>3. x = (lim + 1) \div 3 \/ x = lim \div 3
    BY <1>1, <1>2
  <1>4. lim \div 3 <= x
    BY <1>3
  <1>5. ASSUME NEW k \in Nat, lim = 3 * k PROVE x = k /\ lim \div 3 = k
    BY <1>3, <1>5
  <1> QED
    BY <1>2, <1>4, <1>5 DEF LineBytes

\* The metadata of so many bytes makes an index for them.
LEMMA UsableCached ==
  ASSUME LogAssumption, IInv, ~slipped, NEW lim \in Nat, meta.size = lim, NEW pin, NEW c,
         c.size = lim, c.index = meta.index, c.merge <=> meta.dups \/ ~meta.sorted
  PROVE  \E e \in Nat : Cached(c, Done, e, steps) /\ Known(pin, lim) <= e
  <1>1. Typed /\ Sound
    BY DEF IInv
  <1>2. /\ steps \in Seq(Steps) /\ committed \in Seq(1..Len(steps)) /\ meta \in MetaSet \cup {NoMeta}
    BY <1>1 DEF Typed
  <1>3. meta # NoMeta
    <2>1. NoMeta.size = -1
      BY DEF NoMeta
    <2>2. -1 \notin Nat
      OBVIOUS
    <2> QED
      BY <2>1, <2>2
  <1>4. meta.index \in Seq(AnchorSet)
    BY <1>2, <1>3 DEF MetaSet
  <1>5. MetaOf(meta, committed, steps)
    BY <1>1 DEF Sound
  <1>6. PICK k \in 0..Len(committed) :
          meta.size = LineBytes * k /\ Describes(meta, Values(SubSeq(committed, 1, k), steps))
    BY <1>3, <1>5, Zenon DEF MetaOf
  <1>7. PICK new : new = SubSeq(committed, 1, k)
    OBVIOUS
  <1>8. new \in Seq(1..Len(steps)) /\ Len(new) = k /\ \A i \in 1..k : new[i] = committed[i]
    BY <1>2, <1>7, CutTo
  <1>9. Finding
    BY FindingIs
  <1>10. PICK done : done = Done /\ done \in Seq(1..Len(steps)) /\ IsPrefix(committed, done)
    BY <1>9 DEF Finding
  <1>11. PICK a, b, n \in Nat : a = Len(committed) /\ b = Len(done) /\ n = k /\ n <= a
    BY <1>2, <1>6, <1>10
  <1>12. a <= b /\ \A i \in 1..a : committed[i] = done[i]
    <2>1. committed \in Seq(Nat) /\ done \in Seq(Nat)
      <3>1. 1..Len(steps) \subseteq Nat
        OBVIOUS
      <3> QED
        BY <1>2, <1>10, <3>1
    <2>2. Len(committed) <= Len(done) /\ \A i \in 1..Len(committed) : committed[i] = done[i]
      BY <1>10, <2>1, PrefixIs
    <2> QED
      BY <1>11, <2>2
  <1>13. Len(new) <= Len(done) /\ \A i \in 1..Len(new) : new[i] = done[i]
    <2>1. n <= b /\ \A i \in 1..n : i \in 1..a
      BY <1>11, <1>12
    <2> QED
      BY <1>8, <1>11, <1>12, <2>1
  <1>14. lim = LineBytes * n
    BY <1>6, <1>11
  <1>15. Known(pin, lim) = n /\ lim \div LineBytes = n
    BY <1>11, <1>14, KnownBounds
  <1>16. c.size \in Nat /\ c.size <= LineBytes * Len(done) /\ c.size \div LineBytes <= Len(new)
    <2>1. LineBytes * n <= LineBytes * b
      BY <1>11, <1>12 DEF LineBytes
    <2>2. n <= n
      OBVIOUS
    <2> QED
      BY <1>8, <1>11, <1>14, <1>15, <2>1, <2>2
  <1>17. Describes(meta, Values(new, steps))
    BY <1>6, <1>7, Zenon
  <1>18. \A i \in 1..Len(c.index) : \E j \in 1..Len(meta.index) : c.index[i] = meta.index[j]
    BY Zenon
  <1>19. c.index \in Seq(AnchorSet)
    BY <1>4
  <1>20. Cached(c, done, Len(new), steps)
    BY <1>2, <1>8, <1>10, <1>13, <1>16, <1>17, <1>18, <1>19, DescribedCached
  <1> QED
    BY <1>8, <1>10, <1>11, <1>15, <1>20

\* So do the pinned lines themselves.
LEMMA ScannedCached ==
  ASSUME LogAssumption, IInv, ~slipped, Snapshot(rd), Steady(files, rd.pin, rd.limit),
         rd.limit <= LineBytes * Len(Done), NEW c,
         c.size = rd.limit, c.index = Scanned.index, c.merge = Scanned.merge
  PROVE  \E e \in Nat : Cached(c, Done, e, steps) /\ Known(rd.pin, rd.limit) <= e
  <1>1. PICK pin, lim : /\ pin = rd.pin /\ lim = rd.limit
                        /\ Measured(pin) /\ lim \in Nat /\ lim <= Total(pin)
    BY DEF Snapshot
  <1>2. PICK done : done = Done
    OBVIOUS
  <1>3. Finding
    BY FindingIs
  <1>4. PICK rows : First(done, rows)
    BY <1>2, <1>3 DEF Finding
  <1>5. Parted(files, Len(steps)) /\ steps \in Seq(Steps) /\ done \in Seq(1..Len(steps))
    BY <1>2, <1>3 DEF Finding
  <1>6. Steady(files, pin, lim) /\ lim <= LineBytes * Len(done)
    BY <1>1, <1>2
  <1>7. Viewed(pin, lim, done)
    BY <1>1, <1>4, <1>5, <1>6, SteadyViewed
  <1>8. PICK k, s : KnownAs(pin, lim, done, k, s)
    BY <1>1, <1>5, <1>6, KnownIs
  <1>9. k = Known(pin, lim) /\ s = Shown(pin, lim) /\ k \in Nat /\ s \in Nat /\ k <= s /\ s <= Len(done)
    BY <1>8 DEF KnownAs
  <1>10. Lists(PinnedLines, done, lim, 0, s)
    <2>1. Lists(Visit(files, pin, 3 * 0, lim, TRUE), done, lim, 0, MaxOf(0, Shown(pin, lim)))
      BY <1>1, <1>5, <1>7, VisitLists
    <2>2. MaxOf(0, s) = s /\ 3 * 0 = 0
      BY <1>9 DEF MaxOf
    <2> QED
      BY <1>1, <1>9, <2>1, <2>2, Zenon DEF PinnedLines
  <1>11. PICK x : x = Scanned
    OBVIOUS
  <1>12. x \in ScanSet /\ Skimmed(x, done, k)
    BY <1>5, <1>8, <1>10, <1>11, ScanAllSkims DEF Scanned
  <1>13. x.index \in Seq(AnchorSet)
    BY <1>12 DEF ScanSet
  <1>14. k \in 0..Len(done)
    <2>1. Len(done) \in Nat
      BY <1>5
    <2> QED
      BY <1>9, <2>1
  <1>15. lim \div LineBytes <= k
    BY <1>1, <1>9, KnownBounds
  <1>16. c.size \in Nat /\ c.size <= LineBytes * Len(done) /\ c.size \div LineBytes <= k
    BY <1>1, <1>6, <1>15
  <1>17. c.index = x.index /\ c.merge = x.merge
    BY <1>11
  <1>18. Cached(c, done, k, steps)
    BY <1>12, <1>13, <1>14, <1>16, <1>17, Zenon DEF Skimmed, Cached
  <1>19. k <= k
    BY <1>9
  <1> QED
    BY <1>1, <1>2, <1>9, <1>18, <1>19

LEMMA PrepareReads ==
  ASSUME LogAssumption, IInv, RInv, Prepare
  PROVE  Snapshot(rd') /\ (~slipped => Reads(files, rd', Done, steps))
  <1>1. Snapshot(rd)
    BY DEF RInv
  <1>2. PICK pin, lim : pin = rd.pin /\ lim = rd.limit /\ lim \in Nat
    BY <1>1 DEF Snapshot
  <1>3. PICK a, b, c : /\ a = [size |-> lim, index |-> meta.index,
                               merge |-> meta.dups \/ ~meta.sorted, settled |-> Settled]
                       /\ b = [size |-> lim, index |-> Scanned.index, merge |-> Scanned.merge,
                               settled |-> Settled]
                       /\ c = (IF Usable(meta, lim) THEN a ELSE b)
    OBVIOUS
  <1>4. rd' = [rd EXCEPT !.cache = c] /\ PinHolds
    BY <1>2, <1>3, Zenon DEF Prepare
  <1>5. rd = [pin |-> rd.pin, limit |-> rd.limit, cache |-> rd.cache, pins |-> rd.pins]
    BY <1>1 DEF Snapshot
  <1>6. PICK r : r = rd'
    OBVIOUS
  <1>7. r = [pin |-> rd.pin, limit |-> rd.limit, cache |-> c, pins |-> rd.pins]
    BY <1>4, <1>5, <1>6
  <1>8. /\ r.pin = rd.pin /\ r.limit = rd.limit /\ r.cache = c
        /\ r = [pin |-> r.pin, limit |-> r.limit, cache |-> r.cache, pins |-> r.pins]
    BY <1>7
  <1>9. Snapshot(r)
    BY <1>1, <1>8, Zenon DEF Snapshot
  <1>10. /\ a.size = lim /\ a.index = meta.index /\ a.settled = Settled
         /\ a.merge = (meta.dups \/ ~meta.sorted)
         /\ b.size = lim /\ b.index = Scanned.index /\ b.settled = Settled
         /\ b.merge = Scanned.merge
    BY <1>3
  <1>11. ASSUME ~slipped, c.settled PROVE \E e \in Nat : Cached(c, Done, e, steps) /\ Serves(files, r, e)
    <2>1. Settled
      BY <1>3, <1>10, <1>11, Zenon
    <2>2. Steady(files, rd.pin, rd.limit) /\ rd.limit <= LineBytes * Len(Done)
      BY <1>1, <1>4, <1>11, <2>1, SettledSteady
    <2>3. \E e \in Nat : Cached(c, Done, e, steps) /\ Known(rd.pin, rd.limit) <= e
      <3>1. CASE Usable(meta, lim)
        <4>1. meta.size = lim /\ c = a
          BY <1>3, <3>1, Zenon DEF Usable
        <4>2. /\ c.size = lim /\ c.index = meta.index
              /\ c.merge <=> meta.dups \/ ~meta.sorted
          BY <1>10, <4>1, Zenon
        <4>3. \E e \in Nat : Cached(c, Done, e, steps) /\ Known(pin, lim) <= e
          BY <1>2, <1>11, <4>1, <4>2, UsableCached
        <4> QED
          BY <1>2, <4>3, Zenon
      <3>2. CASE ~Usable(meta, lim)
        <4>1. c = b
          BY <1>3, <3>2, Zenon
        <4>2. c.size = rd.limit /\ c.index = Scanned.index /\ c.merge = Scanned.merge
          BY <1>2, <1>10, <4>1, Zenon
        <4> QED
          BY <1>1, <1>11, <2>2, <4>2, ScannedCached
      <3> QED
        BY <3>1, <3>2
    <2> QED
      BY <1>8, <2>2, <2>3, Zenon DEF Serves
  <1>12. ~slipped => Reads(files, r, Done, steps)
    BY <1>8, <1>11, Zenon DEF Reads
  <1> QED
    BY <1>6, <1>9, <1>12, Zenon

-----------------------------------------------------------------------------
(* What a reader finds                                                     *)

LEMMA ReaderKeepsReads ==
  ASSUME LogAssumption, IInv, IInv', RInv, ReaderStep \/ UNCHANGED vars
  PROVE  RInv'
  <1>1. UNCHANGED <<files, meta, pc, steps, queue, batch, todo, undo, retry, active,
                    activeSize, size, log, slipped, committed, mishaps>>
    BY ReaderSteps
  <1>2. Snapshot(rd') /\ (~slipped => Reads(files, rd', Done, steps))
    <2>1. CASE Pin
      BY <2>1, PinReads
    <2>2. CASE PinOwn
      BY <2>2, PinOwnReads
    <2>3. CASE Prepare
      BY <2>3, PrepareReads
    <2>4. CASE UNCHANGED vars
      <3>1. rd' = rd
        BY <2>4 DEF vars
      <3> QED
        BY <3>1, Zenon DEF RInv
    <2> QED
      BY <2>1, <2>2, <2>3, <2>4 DEF ReaderStep
  <1>3. ~slipped => Done' = Done
    BY <1>1, DoneSame
  <1> QED
    BY <1>1, <1>2, <1>3, Zenon DEF RInv

LEMMA InitReads ==
  ASSUME Init
  PROVE  RInv
  <1>1. PICK r : r = rd
    OBVIOUS
  <1>2. r = [pin |-> <<>>, limit |-> 0, cache |-> NoCache, pins |-> 0]
    BY <1>1 DEF Init
  <1>3. /\ r.pin = <<>> /\ r.limit = 0 /\ r.cache = NoCache
        /\ r = [pin |-> r.pin, limit |-> r.limit, cache |-> r.cache, pins |-> r.pins]
    BY <1>2
  <1>4. Measured(<<>>)
    <2>1. DOMAIN <<>> = {}
      OBVIOUS
    <2>2. DOMAIN <<>> \subseteq 0..0 /\ 0 \in Nat
      BY <2>1
    <2> QED
      BY <2>1, <2>2, Zenon DEF Measured
  <1>5. 0 <= Total(<<>>) /\ 0 \in Nat
    BY <1>4, TotalInNat
  <1>6. Snapshot(r)
    BY <1>3, <1>4, <1>5, Zenon DEF Snapshot
  <1>7. ~(r.cache.size \in Nat)
    <2>1. NoCache.size = -1
      BY DEF NoCache
    <2>2. -1 \notin Nat
      OBVIOUS
    <2> QED
      BY <1>3, <2>1, <2>2
  <1> QED
    BY <1>1, <1>6, <1>7, Zenon DEF RInv, Reads

(* While nothing slipped, an index that was filled when the pinned bytes   *)
(* were settled stays right for the records it is of, and those bytes stay *)
(* where they were: whatever NativeWriter does after a NativeReader's      *)
(* snapshot, a rollback and another writer's repair cut only behind it.    *)
THEOREM Reading == Spec => []RInv
  <1>1. LogAssumption
    BY LogAssumption
  <1>2. Init => RInv
    BY InitReads
  <1>3. IInv /\ IInv' /\ RInv /\ [Next]_vars => RInv'
    <2>1. CASE WriterStep
      BY <1>1, <2>1, WriterKeepsReads
    <2>2. CASE ReaderStep \/ UNCHANGED vars
      BY <1>1, <2>2, ReaderKeepsReads
    <2> QED
      BY <2>1, <2>2 DEF Next
  <1> QED
    BY <1>2, <1>3, Invariance, PTL DEF Spec

(* A query through a cached, saved or writer's own index, by a step or by  *)
(* a line, finds what reading the pinned bytes from their beginning finds, *)
(* and so do the ways backwards and with a cursor: query, query_encoded,   *)
(* offset_step, offset_line, reverse and RawCursor over the files of a     *)
(* writer that goes on, crashes, rolls back and is opened again.           *)
THEOREM Answers == Spec => []ReaderExact
  <1>1. LogAssumption
    BY LogAssumption
  <1>2. ASSUME IInv, RInv, ~slipped, rd.cache.size = rd.limit, rd.cache.settled
        PROVE  Exact(PinnedLines, Backwards)
    <2>1. Snapshot(rd) /\ Reads(files, rd, Done, steps)
      BY <1>2 DEF RInv
    <2>2. PICK pin, lim : /\ pin = rd.pin /\ lim = rd.limit
                          /\ Measured(pin) /\ lim \in Nat /\ lim <= Total(pin)
      BY <2>1 DEF Snapshot
    <2>3. PICK e \in Nat : Cached(rd.cache, Done, e, steps) /\ Serves(files, rd, e)
      BY <1>2, <2>1, <2>2 DEF Reads
    <2>4. Steady(files, pin, lim) /\ Known(pin, lim) <= e
      BY <1>2, <2>2, <2>3, Zenon DEF Serves
    <2>5. PICK done : done = Done
      OBVIOUS
    <2>6. Finding
      BY <1>2, FindingIs
    <2>7. PICK rows : First(done, rows)
      BY <2>5, <2>6 DEF Finding
    <2>8. Parted(files, Len(steps)) /\ steps \in Seq(Steps) /\ done \in Seq(1..Len(steps))
      BY <2>5, <2>6 DEF Finding
    <2>9. lim <= LineBytes * Len(done)
      BY <1>2, <2>2, <2>3, <2>5, Zenon DEF Cached
    <2>10. Viewed(pin, lim, done)
      BY <2>2, <2>4, <2>7, <2>8, <2>9, SteadyViewed
    <2>11. PICK k, s : KnownAs(pin, lim, done, k, s)
      BY <1>1, <2>2, <2>8, <2>9, KnownIs
    <2>12. Shows(pin, lim, done, k, s)
      BY <2>2, <2>8, <2>10, <2>11, Zenon DEF Shows
    <2>13. Right(rd.cache, done, e)
      BY <2>3, <2>5, Zenon DEF Cached, Right
    <2>14. k <= e
      BY <2>4, <2>11, Zenon DEF KnownAs
    <2> QED
      BY <1>1, <2>12, <2>13, <2>14, SnapshotExact
  <1>3. IInv /\ RInv => ReaderExact
    <2>1. ASSUME Exact(PinnedLines, Backwards)
          PROVE  \E lines \in {PinnedLines}, back \in {Backwards} :
                   /\ \A q \in Queries :
                        Query(q, Readable(lines), Readable(back)) = Wanted(q, Readable(lines))
                   /\ \A n \in 1..Len(lines) :
                        OffsetOfLine(n) = IF n < Len(lines) THEN lines[n + 1].at ELSE rd.limit
                   /\ back = Reverse(lines)
                   /\ \A n \in 1..Len(lines) : Len(Cursor(lines[n].at)) = Len(lines) - n + 1
      <3>1. PinnedLines \in {PinnedLines} /\ Backwards \in {Backwards}
        OBVIOUS
      <3> QED
        BY <2>1, <3>1, Zenon DEF Exact
    <2> QED
      BY <1>2, <2>1, Zenon DEF ReaderExact
  <1> QED
    BY <1>3, Invariance, Reading, PTL
=============================================================================

---------------------------- MODULE SegmentedLog ----------------------------
(***************************************************************************)
(* metrics.jsonl, its numbered parts and its metadata file: what a batch   *)
(* puts there, what a failed write, a rollback or a killed process leaves, *)
(* what the next writer makes of it (rust/history/writer.rs, NativeWriter:: *)
(* new), and what a reader sees meanwhile (rust/history/reader.rs).        *)
(*                                                                         *)
(* The files are bytes here, three to a line: the first two are the record *)
(* and the third is the newline, so a line can be cut inside the record or *)
(* just before its end, and a line appended to a cut one is unreadable.    *)
(* A byte is <<row, k>>, byte k of the row-th record ever appended.        *)
(* JsonlWriter models the threads around the batch that is written here.   *)
(***************************************************************************)
EXTENDS Integers, Sequences, FiniteSets, SequencesExt, Functions

CONSTANTS
    Steps,          \* steps a record can have
    MaxFile,        \* max_file_bytes
    Every,          \* index_every
    MaxAnchors,     \* the 4096 entries above which the index is thinned
    MaxRows,        \* bound: records appended in a behaviour
    MaxMishaps,     \* bound: failing system calls and killed writers
    MaxPins,        \* bound: snapshots a reader takes
    Queries         \* the queries asked: [start, end, count], 0 for none

ASSUME LogAssumption ==
    /\ Steps \subseteq Nat \ {0}
    /\ MaxFile \in Nat /\ Every \in Nat \ {0} /\ MaxAnchors \in Nat \ {0}
    /\ MaxRows \in Nat /\ MaxMishaps \in Nat /\ MaxPins \in Nat
    /\ Queries \subseteq [start : Steps \cup {0}, end : Steps \cup {0}, count : Nat]

VARIABLES
    files,          \* part number (0: metrics.jsonl) -> its bytes
    meta,           \* metrics.meta.json, or NoMeta
    pc,             \* what the writer is doing; "down" when there is none
    steps,          \* the step of every record ever appended
    queue, batch,   \* queued records and the ones being written
    todo,           \* the first record of the batch not written yet
    undo,           \* a rollback under way: bytes to keep, parts to visit
    retry,          \* the last flush failed
    active, activeSize,
    size,           \* bytes committed
    log,            \* what the writer knows of the lines (see Empty)
    slipped,        \* a rollback or a repair failed, and was reported
    committed,      \* records acknowledged or found on opening
    mishaps,
    rd              \* a reader: pinned lengths, its limit, its cache

diskVars   == <<files, meta>>
batchVars  == <<queue, batch, todo, undo, retry>>
activeVars == <<active, activeSize>>
ghostVars  == <<slipped, committed>>
writerVars == <<pc, steps, batchVars, activeVars, size, log, ghostVars, mishaps>>
vars       == <<diskVars, writerVars, rd>>

NoMeta  == [size |-> -1]
NoCache == [size |-> -1]
NoStep == 0

MinOf(a, b) == IF a <= b THEN a ELSE b
MaxOf(a, b) == IF a >= b THEN a ELSE b
Mishap == mishaps < MaxMishaps /\ mishaps' = mishaps + 1

------------------------------------------------------------------------------
(* Bytes, lines, parts                                                     *)

LineBytes == 3

\* The line a byte of a log of whole lines is in, and its place there.
LineOf(i)  == (i - 1) \div LineBytes + 1
PlaceOf(i) == 1 + ((i - 1) % LineBytes)

\* The lines of some records, one after the other.
Bytes(rs) == [i \in 1..(LineBytes * Len(rs)) |-> <<rs[LineOf(i)], PlaceOf(i)>>]

Newline(byte) == byte[2] = LineBytes

\* parse_row: a record that is all there, with or without its newline.
StepOf(line) == IF /\ Len(line) \in {LineBytes - 1, LineBytes}
                   /\ \A k \in 1..Len(line) : line[k] = <<line[1][1], k>>
                THEN steps[line[1][1]] ELSE NoStep

LastOf(numbers) == CHOOSE n \in numbers \cup {0} : \A m \in numbers : m <= n
FirstOf(numbers) == CHOOSE n \in numbers : \A m \in numbers : n <= m

\* Some numbers, in order; the elements of a sequence at these places.
Ascending(numbers) ==
    LET upto[n \in Nat] ==
          IF n = 0 THEN <<>>
          ELSE IF n - 1 \in numbers THEN Append(upto[n - 1], n - 1) ELSE upto[n - 1]
    IN  upto[LastOf(numbers) + 1]
Pick(s, places) == LET at == Ascending(places) IN [i \in 1..Len(at) |-> s[at[i]]]

\* The lines of some bytes, in order, with their offsets.
LinesIn(bytes) ==
    LET at == Ascending({i \in 1..Len(bytes) : i = 1 \/ Newline(bytes[i - 1])})
        end(n) == IF n = Len(at) THEN Len(bytes) ELSE at[n + 1] - 1
    IN  [n \in 1..Len(at) |->
           [at |-> at[n] - 1, row |-> bytes[at[n]][1],
            step |-> StepOf(SubSeq(bytes, at[n], end(n))),
            whole |-> Newline(bytes[end(n)])]]

\* segment_paths, with the length of each part.
LengthsOf(fs) == [n \in DOMAIN fs |-> Len(fs[n])]
Lengths == LengthsOf(files)
LengthIn(lengths, n) == IF n \in DOMAIN lengths THEN lengths[n] ELSE 0

\* The bytes of the parts before one, and of all of them.
Before(lengths, part) ==
    LET sum[n \in Nat] == IF n = 0 THEN 0 ELSE sum[n - 1] + LengthIn(lengths, n - 1)
    IN  sum[part]
Total(lengths) == Before(lengths, LastOf(DOMAIN lengths) + 1)

Put(n, bytes) == [m \in DOMAIN files \cup {n} |-> IF m = n THEN bytes ELSE files[m]]
ContentsIn(fs, n) == IF n \in DOMAIN fs THEN fs[n] ELSE <<>>
Contents(n) == ContentsIn(files, n)

Allowed(line, end, length, unterminated) ==
    line.whole \/ (unterminated /\ end = length)

\* visit_until, of the parts there are, one by one: no line spans two of them.
VisitPart(fs, n, lengths, start, limit, unterminated) ==
    LET base  == Before(lengths, n)
        end   == MinOf(lengths[n], limit - base)
        from  == MaxOf(start - base, 0)
        lines == LinesIn(SubSeq(fs[n], from + 1, MinOf(end, Len(fs[n]))))
        found == Pick(lines, {i \in 1..Len(lines) :
                                Allowed(lines[i], end, lengths[n], unterminated)})
    IN  IF n \notin DOMAIN lengths \/ base >= limit \/ from >= end THEN <<>>
        ELSE [i \in 1..Len(found) |-> [found[i] EXCEPT !.at = base + from + @]]

Visit(fs, lengths, start, limit, unterminated) ==
    LET upto[n \in Nat] ==
          IF n = 0 THEN <<>>
          ELSE upto[n - 1] \o VisitPart(fs, n - 1, lengths, start, limit, unterminated)
    IN  upto[LastOf(DOMAIN lengths) + 1]

LinesOf(fs) == Visit(fs, LengthsOf(fs), 0, Total(LengthsOf(fs)), TRUE)
AllLines == LinesOf(files)

\* The records on disk that reopening keeps.
RowsOf(fs) ==
    LET lines == LinesOf(fs)
        kept  == Pick(lines, {i \in 1..Len(lines) : lines[i].whole /\ lines[i].step # NoStep})
    IN  [i \in 1..Len(kept) |-> kept[i].row]

------------------------------------------------------------------------------
(* What the writer knows of the lines: Writer::track, metadata, restore    *)

Empty == [lines |-> 0, sorted |-> TRUE, dups |-> FALSE, last |-> NoStep,
          max |-> NoStep, index |-> <<>>, every |-> Every, next |-> 0]

\* A new anchor; an index that grew too long loses every other one.
Anchored(m, step, at) ==
    LET index == Append(m.index, [step |-> step, line |-> m.lines, at |-> at])
        kept  == [i \in 1..((Len(index) + 1) \div 2) |-> index[2 * i - 1]]
    IN  IF Len(index) <= MaxAnchors
        THEN [m EXCEPT !.index = index, !.next = m.lines + m.every]
        ELSE [m EXCEPT !.index = kept, !.every = 2 * @,
                       !.next = Last(kept).line + 2 * m.every]

\* Mutant: the line number of an anchor is the one after it.
Track_Ahead(m, step, at) ==
    LET n == IF m.lines >= m.next
             THEN Anchored([m EXCEPT !.lines = @ + 1], step, at)
             ELSE [m EXCEPT !.lines = @ + 1]
    IN  [n EXCEPT !.last = step, !.max = MaxOf(@, step)]

Track(m, step, at) ==
    IF step = NoStep THEN [m EXCEPT !.lines = @ + 1]
    ELSE [IF m.lines >= m.next THEN Anchored(m, step, at) ELSE m
          EXCEPT !.sorted = @ /\ step >= m.last,
                 !.dups = @ \/ step = m.last,
                 !.max = MaxOf(@, step), !.last = step, !.lines = @ + 1]

TrackAll(m, lines) ==
    LET tracked[i \in 0..Len(lines)] ==
          IF i = 0 THEN m ELSE Track(tracked[i - 1], lines[i].step, lines[i].at)
    IN  tracked[Len(lines)]

\* Writer::metadata: what save_meta writes.
Metadata == [size |-> size, lines |-> log.lines, sorted |-> log.sorted, dups |-> log.dups,
             last |-> log.last, max |-> log.max, index |-> log.index]

AnchorsOk(m, limit) ==
    \A i \in 1..Len(m.index) :
      /\ m.index[i].at < limit
      /\ i > 1 => LET p == m.index[i - 1]
                      q == m.index[i]
                  IN  /\ p.line < q.line /\ p.at < q.at
                      /\ m.sorted => p.step < q.step \/ (m.dups /\ p.step = q.step)

Restorable(m, total) ==
    /\ m.size = total /\ AnchorsOk(m, total)
    /\ \A i \in 1..Len(m.index) : m.index[i].line < m.lines

Restored(m) == [lines |-> m.lines, sorted |-> m.sorted, dups |-> m.dups, last |-> m.last,
                max |-> m.max, index |-> m.index, every |-> Every,
                next |-> IF m.index = <<>> THEN 0 ELSE Last(m.index).line + Every]

------------------------------------------------------------------------------
(* The writer                                                              *)

Init ==
    /\ files = <<>> /\ meta = NoMeta
    /\ pc = "down" /\ steps = <<>>
    /\ queue = <<>> /\ batch = <<>> /\ todo = 1 /\ retry = FALSE
    /\ undo = [left |-> 0, parts |-> {}]
    /\ active = 0 /\ activeSize = 0 /\ size = 0 /\ log = Empty
    /\ slipped = FALSE /\ committed = <<>>
    /\ mishaps = 0
    /\ rd = [pin |-> <<>>, limit |-> 0, cache |-> NoCache, pins |-> 0]

\* Everything in memory is gone.
Forget ==
    /\ pc' = "down"
    /\ queue' = <<>> /\ batch' = <<>> /\ todo' = 1 /\ retry' = FALSE
    /\ undo' = [left |-> 0, parts |-> {}]
    /\ active' = 0 /\ activeSize' = 0 /\ size' = 0 /\ log' = Empty

\* Mutant: the newline before the torn line goes too.
Repaired_TooFar(bytes) ==
    LET ends == {i \in 1..Len(bytes) : Newline(bytes[i])}
    IN  IF bytes = <<>> \/ Newline(Last(bytes)) THEN bytes
        ELSE SubSeq(bytes, 1, LastOf(ends) - 1)

\* The last part without the line a killed writer did not finish.
Repaired(bytes) == SubSeq(bytes, 1, LastOf({i \in 1..Len(bytes) : Newline(bytes[i])}))

\* NativeWriter::new on whatever is on disk.  A torn tail that cannot be cut
\* is reported, and left.
Open ==
    /\ pc = "down"
    /\ LET n    == LastOf(DOMAIN files)
           torn == Repaired(Contents(n)) # Contents(n)
       IN  \/ /\ files' = IF torn THEN Put(n, Repaired(Contents(n))) ELSE files
              /\ UNCHANGED <<slipped, mishaps>>
           \/ /\ torn /\ Mishap
              /\ slipped' = TRUE /\ UNCHANGED files
    /\ \E fs \in {files'} :
         LET total == Total(LengthsOf(fs))
         IN  /\ active' = LastOf(DOMAIN fs)
             /\ activeSize' = Len(ContentsIn(fs, LastOf(DOMAIN fs)))
             /\ size' = total
             /\ log' = IF Restorable(meta, total) THEN Restored(meta)
                       ELSE TrackAll(Empty, LinesOf(fs))
             /\ committed' = RowsOf(fs)
    /\ pc' = "idle"
    /\ UNCHANGED <<meta, steps, batchVars, rd>>

\* A record is queued, whatever the flush is doing.
Enqueue(step) ==
    /\ pc # "down" /\ Len(steps) < MaxRows
    /\ steps' = Append(steps, step)
    /\ queue' = Append(queue, Len(steps'))
    /\ UNCHANGED <<diskVars, pc, batch, todo, undo, retry, activeVars, size, log,
                   ghostVars, mishaps, rd>>

TakeBatch ==
    /\ pc = "idle" /\ queue # <<>>
    /\ batch' = queue /\ queue' = <<>> /\ todo' = 1
    /\ pc' = "write"
    /\ UNCHANGED <<diskVars, steps, undo, retry, activeVars, size, log, ghostVars,
                   mishaps, rd>>

\* Mutant: the room in a part is not looked at.
Room_Unchecked(n) == TRUE

\* write_records, write_data: the active part takes n more records.
Room(n) == \/ activeSize + n * LineBytes <= MaxFile
           \/ activeSize = 0 /\ n = 1

Chunk ==
    LET n == LastOf({k \in 1..(Len(batch) - todo + 1) : Room(k)})
    IN  SubSeq(batch, todo, todo + n - 1)

Rotate ==
    /\ pc = "write" /\ Chunk = <<>>
    /\ active' = active + 1 /\ activeSize' = 0
    /\ UNCHANGED <<diskVars, pc, steps, batchVars, size, log, ghostVars, mishaps, rd>>

WriteChunk ==
    /\ pc = "write" /\ Chunk # <<>>
    /\ files' = Put(active, Contents(active) \o Bytes(Chunk))
    /\ activeSize' = activeSize + Len(Bytes(Chunk))
    /\ todo' = todo + Len(Chunk)
    /\ pc' = IF todo' > Len(batch) THEN "commit" ELSE "write"
    /\ UNCHANGED <<meta, steps, queue, batch, undo, retry, active, size, log, ghostVars,
                   mishaps, rd>>

\* What an append that stops short leaves: some first bytes, or no file yet.
PartlyWritten(bytes) ==
    \/ UNCHANGED files
    \/ \E n \in 0..(Len(bytes) - 1) :
         files' = Put(active, Contents(active) \o SubSeq(bytes, 1, n))

\* The write fails; rollback_data lists the parts there are.
WriteFails ==
    /\ pc = "write" /\ Chunk # <<>>
    /\ Mishap
    /\ PartlyWritten(Bytes(Chunk))
    /\ undo' = [left |-> size, parts |-> DOMAIN files']
    /\ pc' = "rollback"
    /\ UNCHANGED <<meta, steps, queue, batch, todo, retry, activeVars, size, log,
                   ghostVars, rd>>

\* Mutants: the bytes to keep are not used up by the part that is cut; the cut
\* keeps one byte too few.
CutPart_Kept(n) ==
    LET length == Len(files[n])
    IN  /\ undo' = [left |-> IF undo.left >= length THEN undo.left - length ELSE undo.left,
                    parts |-> undo.parts \ {n}]
        /\ files' = IF undo.left >= length THEN files ELSE Put(n, SubSeq(files[n], 1, undo.left))
CutPart_Short(n) ==
    LET length == Len(files[n])
    IN  /\ undo' = [left |-> IF undo.left > length THEN undo.left - length ELSE 0,
                    parts |-> undo.parts \ {n}]
        /\ files' = IF undo.left > length THEN files ELSE Put(n, SubSeq(files[n], 1, undo.left - 1))

\* One part of the rollback: kept, cut, or removed.
CutPart(n) ==
    LET length == Len(files[n])
    IN  \/ /\ undo.left >= length
           /\ undo' = [left |-> undo.left - length, parts |-> undo.parts \ {n}]
           /\ UNCHANGED files
        \/ /\ undo.left < length /\ (undo.left > 0 \/ n = 0)
           /\ files' = Put(n, SubSeq(files[n], 1, undo.left))
           /\ undo' = [left |-> 0, parts |-> undo.parts \ {n}]
        \/ /\ undo.left < length /\ undo.left = 0 /\ n # 0
           /\ files' = Restrict(files, DOMAIN files \ {n})
           /\ undo' = [left |-> 0, parts |-> undo.parts \ {n}]

NextPart == CHOOSE n \in undo.parts : \A m \in undo.parts : n <= m

RollbackPart ==
    /\ pc = "rollback" /\ undo.parts # {}
    /\ CutPart(NextPart)
    /\ UNCHANGED <<meta, pc, steps, queue, batch, todo, retry, activeVars, size, log,
                   ghostVars, mishaps, rd>>

\* The batch goes back in front of the queue, to be written again.
Requeue ==
    /\ queue' = batch \o queue /\ batch' = <<>> /\ todo' = 1 /\ retry' = TRUE
    /\ undo' = [left |-> 0, parts |-> {}]
    /\ pc' = "idle"

RolledBack ==
    /\ pc = "rollback" /\ undo.parts = {}
    /\ active' = LastOf(DOMAIN files)
    /\ activeSize' = Len(Contents(LastOf(DOMAIN files)))
    /\ Requeue
    /\ UNCHANGED <<diskVars, steps, size, log, ghostVars, mishaps, rd>>

\* It stops short too: the steps on disk may repeat from now on.
RollbackFails ==
    /\ pc = "rollback" /\ undo.parts # {}
    /\ undo.left < Len(files[NextPart])
    /\ Mishap
    /\ slipped' = TRUE
    /\ log' = [log EXCEPT !.dups = TRUE]
    /\ Requeue
    /\ UNCHANGED <<diskVars, steps, activeVars, size, committed, rd>>

\* Every record of the batch is tracked at its offset in the whole log.
BatchLines == [i \in 1..Len(batch) |-> [step |-> steps[batch[i]],
                                        at |-> size + (i - 1) * LineBytes]]

Commit ==
    /\ pc = "commit"
    /\ log' = TrackAll(log, BatchLines)
    /\ size' = size + Len(Bytes(batch))
    /\ committed' = committed \o batch
    /\ batch' = <<>> /\ todo' = 1 /\ retry' = FALSE
    /\ pc' = "save"
    /\ UNCHANGED <<diskVars, steps, queue, undo, activeVars, slipped, mishaps, rd>>

\* save_meta: a temporary file renamed over the old one; skipped within two
\* seconds of the last, and only reported when it fails.
SaveMeta ==
    /\ pc = "save"
    /\ meta' \in {meta, Metadata}
    /\ pc' = "idle"
    /\ UNCHANGED <<files, steps, batchVars, activeVars, size, log, ghostVars, mishaps, rd>>

\* close: after a last flush, which may have failed, the metadata is saved.
Close ==
    /\ pc = "idle" /\ (queue = <<>> \/ retry)
    /\ meta' \in {meta, Metadata}
    /\ Forget
    /\ UNCHANGED <<files, steps, ghostVars, mishaps, rd>>

\* The process is killed, perhaps in the middle of a write.
Crash ==
    /\ pc # "down" /\ Mishap
    /\ IF pc = "write" /\ Chunk # <<>> THEN PartlyWritten(Bytes(Chunk)) ELSE UNCHANGED files
    /\ Forget
    /\ UNCHANGED <<meta, steps, ghostVars, rd>>

WriterStep ==
    \/ Open \/ TakeBatch \/ Rotate \/ WriteChunk \/ WriteFails \/ RollbackPart
    \/ RolledBack \/ RollbackFails \/ Commit \/ SaveMeta \/ Close \/ Crash
    \/ \E s \in Steps : Enqueue(s)

------------------------------------------------------------------------------
(* A reader of the files, in any process (rust/history/reader.rs)          *)

\* SegmentedReader::open for a reader in any process, limited to all there is
\* or to an offset it was given: here any but the last byte, or, in a second
\* snapshot, the limit the reader has an index for.
Pin ==
    /\ rd.pins < MaxPins
    /\ \E limit \in IF rd.pins = 0 THEN {Total(Lengths), MaxOf(0, Total(Lengths) - 1)}
                     ELSE {rd.cache.size} \cap 0..Total(Lengths) :
         rd' = [rd EXCEPT !.pin = Lengths, !.limit = limit, !.pins = @ + 1]
    /\ UNCHANGED <<diskVars, writerVars>>

\* The writer's own process reads what is committed, with the writer's index
\* and not the cache of a NativeReader.
PinOwn ==
    /\ rd.pins = 0 /\ pc # "down"
    /\ LET limit == MinOf(size, Total(Lengths))
           before == {i \in 1..Len(log.index) : log.index[i].at < limit}
       IN  rd' = [pin |-> Lengths, limit |-> limit, pins |-> MaxPins,
                  cache |-> [size |-> limit, settled |-> TRUE,
                             index |-> Pick(log.index, before),
                             merge |-> log.dups \/ ~log.sorted]]
    /\ UNCHANGED <<diskVars, writerVars>>

PinnedLines == Visit(files, rd.pin, 0, rd.limit, TRUE)

\* The anchors and the need to merge, from the lines themselves.
Unread == [line |-> 0, next |-> 0, prev |-> NoStep, merge |-> FALSE, index |-> <<>>]

Scan(m, l) ==
    LET known == l.step # NoStep
        due   == known /\ m.line >= m.next
    IN  [line  |-> m.line + 1,
         next  |-> IF due THEN m.line + Every ELSE m.next,
         prev  |-> IF known THEN l.step ELSE m.prev,
         merge |-> m.merge \/ (known /\ l.step <= m.prev),
         index |-> IF due THEN Append(m.index, [step |-> l.step, line |-> m.line, at |-> l.at])
                          ELSE m.index]

ScanAll(lines) ==
    LET scanned[i \in 0..Len(lines)] ==
          IF i = 0 THEN Unread ELSE Scan(scanned[i - 1], lines[i])
    IN  scanned[Len(lines)]

Scanned == ScanAll(PinnedLines)

\* Mutant: the metadata of a shorter log serves a longer one.
Usable_Any(m, limit) == m # NoMeta /\ AnchorsOk(m, limit)

Usable(m, limit) == m.size = limit /\ AnchorsOk(m, limit)

\* The pinned parts are where they were and nobody takes the bytes before the
\* limit back: they are committed, or the next writer will keep them.
Settled ==
    /\ \A n \in DOMAIN rd.pin :
         /\ rd.pin[n] <= Len(Contents(n))
         /\ Before(rd.pin, n) < rd.limit => Before(rd.pin, n) = Before(Lengths, n)
    /\ pc # "down" => rd.limit <= size
    /\ pc = "down" => \A n \in DOMAIN files : Repaired(files[n]) = files[n]

PinHolds == DOMAIN rd.pin \subseteq DOMAIN files

\* NativeReader::prepared: the cache serves a limit it was filled for.
Prepare ==
    /\ rd.cache.size # rd.limit /\ PinHolds
    /\ rd' = [rd EXCEPT !.cache =
                IF Usable(meta, rd.limit)
                THEN [size |-> rd.limit, index |-> meta.index, merge |-> meta.dups \/ ~meta.sorted,
                      settled |-> Settled]
                ELSE [size |-> rd.limit, index |-> Scanned.index, merge |-> Scanned.merge,
                      settled |-> Settled]]
    /\ UNCHANGED <<diskVars, writerVars>>

Readable(lines) == Pick(lines, {i \in 1..Len(lines) : lines[i].step # NoStep})
Steps_(lines)   == {lines[i].step : i \in 1..Len(lines)}
TakeLast(lines, n) == IF n = 0 THEN lines ELSE SubSeq(lines, MaxOf(1, Len(lines) - n + 1), Len(lines))
InRange(q, l) == l.step >= q.start /\ (q.end = 0 \/ l.step < q.end)

\* offset_step: from the last anchor not after the step.
OffsetOfStep(step) ==
    LET anchors == {i \in 1..Len(rd.cache.index) : rd.cache.index[i].step <= step}
        from    == IF anchors = {} THEN 0 ELSE rd.cache.index[LastOf(anchors)].at
        lines   == Visit(files, rd.pin, from, rd.limit, TRUE)
        found   == {i \in 1..Len(lines) : lines[i].step >= step}
    IN  IF found = {} THEN rd.limit ELSE lines[FirstOf(found)].at

\* offset_line: from the last anchor not after the line.
OffsetOfLine(line) ==
    LET anchors == {i \in 1..Len(rd.cache.index) : rd.cache.index[i].line <= line}
        i       == LastOf(anchors)
        skip    == IF i = 0 THEN line ELSE line - rd.cache.index[i].line
        from    == IF i = 0 THEN 0 ELSE rd.cache.index[i].at
        found   == Visit(files, rd.pin, from, rd.limit, TRUE)
    IN  IF line = 0 THEN 0
        ELSE IF skip < Len(found) THEN found[skip + 1].at ELSE rd.limit

\* The rows of a step, merged, in the order of the steps.
Merged(lines) ==
    LET order == Ascending(Steps_(lines))
    IN  [i \in 1..Len(order) |-> Pick(lines, {j \in 1..Len(lines) : lines[j].step = order[i]})]

LastFirst(lines, whole, base) ==
    LET count == IF whole THEN Len(lines) ELSE Len(lines) - 1
    IN  [i \in 1..count |-> [lines[count + 1 - i] EXCEPT !.at = base + @]]

\* SegmentedReader::reverse: from the last line of each part back, but not a
\* line the limit cuts.
ReversePart(n) ==
    LET base  == Before(rd.pin, n)
        end   == MinOf(rd.pin[n], rd.limit - base)
        bytes == SubSeq(files[n], 1, MinOf(end, Len(files[n])))
        whole == end = rd.pin[n] \/ Newline(Last(bytes))
    IN  IF n \notin DOMAIN rd.pin \/ base >= rd.limit \/ bytes = <<>> THEN <<>>
        ELSE LastFirst(LinesIn(bytes), whole, base)

Backwards ==
    LET back[n \in Nat] == IF n = 0 THEN <<>> ELSE ReversePart(n - 1) \o back[n - 1]
    IN  back[LastOf(DOMAIN rd.pin) + 1]

\* Of lines read backwards, the rows until n of them (n different steps) were
\* seen.
Recent(lines, n, distinct) ==
    LET seen(i) == IF distinct THEN Cardinality(Steps_(SubSeq(lines, 1, i))) ELSE i
    IN  SubSeq(lines, 1, Cardinality({i \in 1..Len(lines) : seen(i - 1) < n}))

\* RawCursor::next, to its end: part by part, but not a line the limit cuts.
CursorPart(n, start) ==
    LET base  == Before(rd.pin, n)
        end   == MinOf(rd.pin[n], rd.limit - base)
        from  == MaxOf(start - base, 0)
        lines == LinesIn(SubSeq(files[n], from + 1, MinOf(end, Len(files[n]))))
        shown == {i \in 1..Len(lines) : lines[i].whole \/ base + rd.pin[n] <= rd.limit}
    IN  IF n \notin DOMAIN rd.pin \/ base >= rd.limit \/ from >= end THEN <<>>
        ELSE Pick(lines, shown)

Cursor(start) ==
    LET upto[n \in Nat] == IF n = 0 THEN <<>> ELSE upto[n - 1] \o CursorPart(n - 1, start)
    IN  upto[LastOf(DOMAIN rd.pin) + 1]

IsTail(q) == q.start = 0 /\ q.end = 0 /\ q.count > 0
Single(rows) == [i \in 1..Len(rows) |-> <<rows[i]>>]

\* A scan stops at the first row that is not before the end.
Until(rows, q) ==
    LET stop == {i \in 1..Len(rows) : q.end # 0 /\ rows[i].step >= q.end}
        last == IF stop = {} THEN Len(rows) ELSE FirstOf(stop) - 1
    IN  Pick(rows, {i \in 1..last : rows[i].step >= q.start})

\* Repeated steps: all rows are read and merged, of a tail those whose step
\* is among the newest.
Among(rows, q, newest) ==
    Pick(rows, {i \in 1..Len(rows) :
                  InRange(q, rows[i]) /\ (IsTail(q) => rows[i].step \in newest)})
MergedOf(rows, q, newest) == Merged(Among(rows, q, newest))

\* query, query_encoded: q = [start, end, count], 0 where there is none; of
\* the rows of the snapshot, read forwards and backwards.
Query(q, rows, back) ==
    LET from == IF q.start = 0 THEN 0 ELSE OffsetOfStep(q.start)
    IN  IF rd.cache.merge
        THEN TakeLast(MergedOf(rows, q, Steps_(Recent(back, q.count, TRUE))), q.count)
        ELSE IF IsTail(q) THEN Single(Reverse(Recent(back, q.count, FALSE)))
        ELSE Single(TakeLast(Until(Readable(Visit(files, rd.pin, from, rd.limit, TRUE)), q),
                             q.count))

ReaderStep == Pin \/ PinOwn \/ Prepare

Next == WriterStep \/ ReaderStep

Spec == Init /\ [][Next]_vars

------------------------------------------------------------------------------
(* Every variable has its type; a byte belongs to a record ever appended.  *)
TypeOK ==
    /\ \A n \in DOMAIN files :
         /\ n \in Nat
         /\ files[n] \in Seq((1..MaxRows) \X (1..LineBytes))
    /\ pc \in {"down", "idle", "write", "rollback", "commit", "save"}
    /\ steps \in Seq(Steps) /\ Len(steps) <= MaxRows
    /\ {queue, batch, committed} \subseteq Seq(1..MaxRows)
    /\ todo \in Nat \ {0} /\ {active, activeSize, size} \subseteq Nat
    /\ retry \in BOOLEAN /\ slipped \in BOOLEAN
    /\ mishaps \in 0..MaxMishaps

(* Whatever fails and whenever the writer is killed, the records it acknow- *)
(* ledged are the first ones on disk, in order and once each; what follows *)
(* them is the batch, also in order and once each, perhaps with holes.     *)
(* Only a rollback or repair that failed, and said so, may break this.     *)
Durable ==
    ~slipped =>
      LET rows == RowsOf(files)
      IN  /\ IsPrefix(committed, rows)
          /\ \A i \in 2..Len(rows) : rows[i - 1] < rows[i]

(* A restart takes nothing back: cutting a torn last line, restoring from  *)
(* the metadata or rescanning never loses a record that was acknowledged.  *)
NeverForgets == [][~slipped' => IsPrefix(committed, committed')]_vars

(* Reopening from the metadata is reopening by reading everything: when    *)
(* the sizes agree, however old the metadata is, the counts, the order     *)
(* flags and the steps are those of the lines and every anchor is the      *)
(* start of the line it names.                                             *)
RestoreIsRescan ==
    ~slipped /\ Restorable(meta, Total(Lengths)) =>
      LET lines == AllLines
          scan == TrackAll(Empty, lines)
          same == {"lines", "sorted", "dups", "last", "max"}
      IN  /\ \A f \in same : meta[f] = scan[f]
          /\ \A i \in 1..Len(meta.index) :
               LET a == meta.index[i]
                   l == lines[a.line + 1]
               IN  l.at = a.at /\ l.step = a.step

(* Between two flushes the writer's books are the disk's: the bytes, the   *)
(* lines, and the part and the room in it the next batch starts from.      *)
BooksMatch ==
    ~slipped /\ pc = "idle" =>
      /\ size = Total(Lengths) /\ log.lines = Len(AllLines)
      /\ active = LastOf(DOMAIN files) /\ activeSize = Len(Contents(active))

(* Every variable has its type; a part is never longer than max_file_bytes *)
(* but for a record that is, and no line is cut where one part ends and the *)
(* next begins.                                                            *)
LayoutOK ==
    /\ TypeOK
    /\ ~slipped =>
         \A n \in DOMAIN files :
           /\ Len(files[n]) <= MaxOf(MaxFile, LineBytes)
           /\ n # LastOf(DOMAIN files) => Repaired(files[n]) = files[n]

\* What a query means, from the rows alone.
Wanted(q, rows) ==
    LET strict == \A i \in 2..Len(rows) : rows[i - 1].step < rows[i].step
        later(i) == Steps_(SubSeq(rows, i, Len(rows))) \ {rows[i].step}
        recent == {rows[i].step : i \in {i \in 1..Len(rows) : Cardinality(later(i)) < q.count}}
        all    == Among(rows, q, recent)
    IN  IF strict THEN Single(TakeLast(all, q.count))
        ELSE TakeLast(Merged(all), q.count)

(* A query through the cached, saved or writer's own index finds what      *)
(* reading the pinned bytes from their beginning finds, whatever the writer *)
(* does meanwhile to the bytes after them; so does a line number, and so do *)
(* the two other ways through the lines, backwards and with a cursor.      *)
ReaderExact ==
    /\ ~slipped /\ PinHolds
    /\ rd.cache.size = rd.limit /\ rd.cache.settled
    => \E lines \in {PinnedLines}, back \in {Backwards} :
         /\ \A q \in Queries :
              Query(q, Readable(lines), Readable(back)) = Wanted(q, Readable(lines))
         /\ \A n \in 1..Len(lines) :
              OffsetOfLine(n) = IF n < Len(lines) THEN lines[n + 1].at ELSE rd.limit
         /\ back = Reverse(lines)
         /\ \A n \in 1..Len(lines) : Len(Cursor(lines[n].at)) = Len(lines) - n + 1

=============================================================================

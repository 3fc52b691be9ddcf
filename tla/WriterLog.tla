------------------------------ MODULE WriterLog ------------------------------
(***************************************************************************)
(* What a caller may rely on of the buffered writer, whatever its threads  *)
(* do (src/expr_tracker/history/writer.py, rust/history/writer.rs).        *)
(*                                                                         *)
(* Admitted records are numbered; they become durable oldest first, in     *)
(* batches; a record is given up only while writes are failing; nothing is *)
(* admitted once the writer closes and nothing changes once it has closed. *)
(***************************************************************************)
EXTENDS Naturals, Sequences

VARIABLES
    pending,    \* admitted, not yet durable
    stored,     \* durable, in file order
    lost,       \* given up
    next,       \* number of the next record
    failing,    \* the last write failed
    phase       \* "open", "closing" or "closed"

logVars == <<pending, stored, lost, next, failing, phase>>

Init ==
    /\ pending = <<>> /\ stored = <<>> /\ lost = {}
    /\ next = 1 /\ failing = FALSE /\ phase = "open"

\* Give up n consecutive pending records from position i on.
GiveUp(i, n) ==
    /\ n > 0 => failing
    /\ lost' = lost \cup {pending[j] : j \in i..(i + n - 1)}

Without(i, n) == SubSeq(pending, 1, i - 1) \o SubSeq(pending, i + n, Len(pending))

Admit ==
    /\ phase = "open"
    /\ \E i \in 1..(Len(pending) + 1) : \E n \in 0..(Len(pending) + 1 - i) :
         /\ GiveUp(i, n)
         /\ pending' = Append(Without(i, n), next)
    /\ next' = next + 1
    /\ UNCHANGED <<stored, failing, phase>>

Discard ==
    /\ phase = "open"
    /\ \E i \in 1..Len(pending) : \E n \in 1..(Len(pending) + 1 - i) :
         /\ GiveUp(i, n)
         /\ pending' = Without(i, n)
    /\ UNCHANGED <<stored, next, failing, phase>>

Persist ==
    /\ phase # "closed"
    /\ \E n \in 1..Len(pending) :
         /\ stored' = stored \o SubSeq(pending, 1, n)
         /\ pending' = SubSeq(pending, n + 1, Len(pending))
    /\ failing' = FALSE
    /\ UNCHANGED <<lost, next, phase>>

Fail ==
    /\ phase # "closed" /\ pending # <<>>
    /\ failing' = TRUE
    /\ UNCHANGED <<pending, stored, lost, next, phase>>

Shut ==
    /\ \/ phase = "open" /\ phase' = "closing"
       \/ phase = "closing" /\ phase' = "closed" /\ (pending # <<>> => failing)
    /\ UNCHANGED <<pending, stored, lost, next, failing>>

Next == Admit \/ Discard \/ Persist \/ Fail \/ Shut

Spec == Init /\ [][Next]_logVars
=============================================================================

-------------------------- MODULE ArtifactRegistry --------------------------
(***************************************************************************)
(* What an artifact store promises, whatever its directories, its lock and *)
(* its publishers do: a table of versions per name.  Logging a content     *)
(* either finds its version or takes the next number, in one step, and the *)
(* aliases asked for move to that version.  The promise ends when a line   *)
(* of the index is damaged from outside.                                   *)
(***************************************************************************)
EXTENDS Naturals, FiniteSets

CONSTANTS Names, Digests, Aliases

VARIABLES table,   \* per name: its versions, numbered from 0
          sound    \* no line of the index was damaged

Init == table = [n \in Names |-> [v \in {} |-> {}]] /\ sound = TRUE

\* The versions `old` of a name after content d is logged with aliases `as`:
\* `at` is the number of the version with this content.
Logged(old, d, as) ==
    LET same == {v \in DOMAIN old : old[v].digest = d}
        at   == IF same = {} THEN {Cardinality(DOMAIN old)} ELSE same
        had(v) == IF v \in DOMAIN old THEN old[v].aliases ELSE {}
    IN  [v \in DOMAIN old \cup at |->
            [digest  |-> IF v \in at THEN d ELSE old[v].digest,
             aliases |-> IF v \in at THEN had(v) \cup as ELSE had(v) \ as]]

Log(n, d, as) == table' = [table EXCEPT ![n] = Logged(@, d, as)]

Next == \/ /\ sound /\ sound'
           /\ \E n \in Names, d \in Digests, as \in SUBSET Aliases : Log(n, d, as)
        \/ ~sound'

Spec == Init /\ [][Next]_<<table, sound>>

=============================================================================

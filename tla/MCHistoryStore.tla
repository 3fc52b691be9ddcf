---------------------------- MODULE MCHistoryStore ----------------------------
(* The history store on small instances.                                   *)
EXTENDS HistoryStore, TLC

CONSTANTS k1, k2

\* Rows may be patched or reordered and the disk may fail, or neither.
MCSettings == {[allow |-> TRUE, outages |-> TRUE], [allow |-> FALSE, outages |-> FALSE]}

\* Metrics differ in nothing but their names.
Symmetric == Permutations(Keys)
=============================================================================

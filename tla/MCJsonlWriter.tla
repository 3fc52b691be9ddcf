---------------------------- MODULE MCJsonlWriter ----------------------------
(* The writer on small instances.                                          *)
EXTENDS JsonlWriter, TLC

CONSTANTS t1, t2

\* Client threads differ in nothing but their names.
Symmetric == Permutations(Threads)
=============================================================================

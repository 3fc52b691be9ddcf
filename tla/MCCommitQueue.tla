---------------------------- MODULE MCCommitQueue ----------------------------
(* The commit queue on small instances.                                    *)
EXTENDS CommitQueue, TLC

CONSTANTS t1, t2, t3

\* Threads differ in nothing but their names.
Symmetric == Permutations(Threads)
=============================================================================

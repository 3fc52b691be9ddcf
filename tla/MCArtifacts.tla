---------------------------- MODULE MCArtifacts ----------------------------
(* Instances of Artifacts for TLC: publishers and contents are alike. *)
EXTENDS Artifacts, TLC

Symmetry == Permutations(Procs) \cup Permutations(Contents)

=============================================================================

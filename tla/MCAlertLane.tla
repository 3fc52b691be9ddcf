----------------------------- MODULE MCAlertLane -----------------------------
(* The alert lane on small instances.                                      *)
EXTENDS AlertLane, TLC

CONSTANTS t1, t2, t3, k1, k2

=============================================================================

----------------------------- MODULE MCAlertRules -----------------------------
(* One alert rule on small instances.                                      *)
EXTENDS AlertRules, TLC

CONSTANTS t1, dog

Option(edge, steps, cooldown, fires, timed) ==
    [edge |-> edge, for_steps |-> steps, cooldown |-> cooldown, max_fires |-> fires,
     notify_recovery |-> edge, time_based |-> timed]

\* An edge and a level rule that the watchdog looks at, and a level rule it
\* does not.
SomeRules == {Option(TRUE, 1, 0, 2, TRUE), Option(FALSE, 1, 1, 2, TRUE),
              Option(FALSE, 2, 0, 1, FALSE)}
=============================================================================

---------------------------- MODULE MCSegmentedLog ---------------------------
(* The log's files on small instances.                                     *)
EXTENDS SegmentedLog

Q(start, end, count) == [start |-> start, end |-> end, count |-> count]

\* Everything, the last ones, from a step, before a step, and both.
MCQueries == {Q(0, 0, 0), Q(0, 0, 1), Q(0, 0, 2), Q(2, 0, 0), Q(2, 0, 1), Q(0, 2, 0), Q(1, 2, 1)}

\* After a repair or a rollback that failed nothing is promised any more.
Promised == ~slipped
=============================================================================

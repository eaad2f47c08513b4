------------------------------- MODULE MCViewer -------------------------------
(***************************************************************************)
(* Viewer on small instances for TLC.                                      *)
(***************************************************************************)
EXTENDS Viewer

CONSTANTS u1, u2    \* two users

\* Different intervals, so that the interval of a group changes with its members.
TwoIntervals == [u \in Users |-> IF u = u1 THEN 1 ELSE 2]

\* A clock that is behind.
Behind == -1

Symmetric == Permutations(Slots) \cup Permutations(TimerIds)
==============================================================================

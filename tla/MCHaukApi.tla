------------------------------ MODULE MCHaukApi ------------------------------
(***************************************************************************)
(* HaukApi on small instances for TLC.                                     *)
(***************************************************************************)
EXTENDS HaukSequential

\* No reserved links, which is what config.Load leaves the server with.
NoReservedLinks == [l \in {} |-> {}]

\* Lengths of a share, one of them not allowed.
AnyDuration == {-1, 1, 2}

Symmetric == Permutations(Reqs) \cup Permutations(Nicks) \cup Permutations(Links)
               \cup Permutations(Sids) \cup Permutations(Pins)
==============================================================================

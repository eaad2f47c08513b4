----------------------------- MODULE MCHaukFetch -----------------------------
(***************************************************************************)
(* HaukFetch on small instances for TLC.                                   *)
(***************************************************************************)
EXTENDS HaukFetch

NoReservedLinks == [l \in {} |-> {}]

Symmetric == Permutations(Reqs) \cup Permutations(Nicks) \cup Permutations(Links) \cup Permutations(Sids)
==============================================================================

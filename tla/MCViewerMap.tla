----------------------------- MODULE MCViewerMap -----------------------------
(***************************************************************************)
(* ViewerMap on small instances for TLC.                                   *)
(***************************************************************************)
EXTENDS ViewerMap

At(t, s) == [time |-> t, state |-> s]

\* No location, one of either kind and either age, and one after the other.
FewLists ==
  {<<>>} \cup {<<At(t, s)>> : t \in {1, 2}, s \in States}
         \cup {<<At(1, "live"), At(2, "rough")>>}

Symmetric == Permutations(Users)
==============================================================================

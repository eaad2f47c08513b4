----------------------------- MODULE MCRateLimit -----------------------------
(***************************************************************************)
(* RateLimit on a table smaller than the number of clients, for TLC.       *)
(***************************************************************************)
EXTENDS RateLimit, TLC

Symmetric == Permutations(Clients)
==============================================================================

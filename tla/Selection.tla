------------------------------- MODULE Selection -------------------------------
(***************************************************************************)
(* The loops of the program that walk a list and keep some of its entries. *)
(* SelectSeq selects by a test, an operator, which the provers at hand     *)
(* cannot reason about; here the places to keep are a set.                 *)
(***************************************************************************)
EXTENDS Integers, Sequences

\* The entries of s at the places in places, in their order.
Selected(s, places) ==
  LET kept[n \in 0..Len(s)] ==
        IF n = 0 THEN <<>>
        ELSE IF n \in places THEN Append(kept[n - 1], s[n]) ELSE kept[n - 1]
  IN  kept[Len(s)]
==============================================================================

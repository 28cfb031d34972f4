--------------------------- MODULE MCLocalOrders ---------------------------
(* Instances of LocalOrders for TLC. *)
EXTENDS LocalOrders, TLC

Symmetry == Permutations(Workers) \cup Permutations(Books)
=============================================================================

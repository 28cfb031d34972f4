--------------------------- MODULE MCSplitOrders ---------------------------
(* Instances of SplitOrders for TLC. *)
EXTENDS SplitOrders, TLC

MCIds == (Users \cup {Gateway}) \X (1 .. MaxIds)

Symmetry == Permutations(Workers) \cup Permutations(Books)
=============================================================================

----------------------- MODULE MCInventoryRepository -----------------------
(* Instances of InventoryRepository for TLC. *)
EXTENDS InventoryRepository, TLC

Symmetry == Permutations(Sessions) \cup Permutations(Books) \cup Permutations(Ids)
=============================================================================

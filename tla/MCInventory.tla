---------------------------- MODULE MCInventory ----------------------------
(* Values for the small instances of Inventory. *)
EXTENDS Inventory, TLC

MCOne         == {1}
MCAllRequests == RequestKinds \union {"form"}
MCSymmetry    ==
  Permutations(Workers) \union Permutations(Items) \union Permutations(Reservations)
=============================================================================

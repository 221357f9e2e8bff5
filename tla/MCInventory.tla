---------------------------- MODULE MCInventory ----------------------------
(* TLC instance of Inventory. *)
EXTENDS Inventory, TLC

ContentsSymmetry == Permutations(Contents)
=============================================================================

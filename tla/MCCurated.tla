----------------------------- MODULE MCCurated ------------------------------
(* TLC instance of Curated. *)
EXTENDS Curated

MCSymmetry == Permutations(Contents) \cup Permutations(Builders)
=============================================================================

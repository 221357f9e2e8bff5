-------------------------- MODULE MCFileLifecycle --------------------------
(* TLC instance of FileLifecycle. *)
EXTENDS FileLifecycle, TLC

MCSymmetry == Permutations(Contents) \cup Permutations(Scanners)

\* The later path has the better name, so that 003 prefers it wherever the
\* duplicate flags do not decide.
BetterNamesLast == [x \in Paths |-> NPaths - x]
=============================================================================

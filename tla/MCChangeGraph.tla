--------------------------- MODULE MCChangeGraph ---------------------------
(* Changes and commits are compared for equality only.                     *)
EXTENDS ChangeGraph, TLC

Symmetry == Permutations(Changes) \cup Permutations(Commits)
=============================================================================

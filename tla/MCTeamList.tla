----------------------------- MODULE MCTeamList -----------------------------
(* TeamList on a small heap.                                               *)
EXTENDS TeamList, TLC
Symmetry == Permutations(Nodes)
=============================================================================

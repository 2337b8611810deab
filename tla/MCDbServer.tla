----------------------------- MODULE MCDbServer -----------------------------
(* A small instance of DbServer for TLC. *)
EXTENDS DbServer, TLC

Symmetry == Permutations(Users) \cup Permutations(Dirs) \cup Permutations(Names)
=============================================================================

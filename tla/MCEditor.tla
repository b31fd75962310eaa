------------------------------ MODULE MCEditor ------------------------------
(* A small instance of Editor for TLC. *)
EXTENDS Editor, TLC

Symmetry == Permutations(Chars)
=============================================================================

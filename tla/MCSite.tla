------------------------------- MODULE MCSite -------------------------------
(* A small instance of Site for TLC. *)
EXTENDS Site, TLC

Symmetry == Permutations(Chars) \cup Permutations(Conns)
=============================================================================

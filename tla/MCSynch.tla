------------------------------ MODULE MCSynch ------------------------------
(* Small instances of Synch for TLC. *)
EXTENDS Synch, TLC

Symmetry == Permutations(Clients) \cup Permutations(Conns)
=============================================================================

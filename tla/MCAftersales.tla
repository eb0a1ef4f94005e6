---------------------------- MODULE MCAftersales ----------------------------
(* Aftersales for TLC. *)
EXTENDS Aftersales, TLC

CONSTANTS p1, p2, p3

Symmetry == Permutations(Procs)
=============================================================================

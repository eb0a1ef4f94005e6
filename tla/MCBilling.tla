------------------------------ MODULE MCBilling ------------------------------
(* Billing for TLC. *)
EXTENDS Billing, TLC

CONSTANTS p1, p2

Symmetry == Permutations(Procs)
=============================================================================

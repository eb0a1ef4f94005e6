----------------------------- MODULE MCAuditChain -----------------------------
(* Instances of AuditChain for TLC. *)
EXTENDS AuditChain, TLC

CONSTANTS k1, k2, k3, p1, p2

MCThreeKeys == {k1, k2, k3}
MCTwoProcs == {p1, p2}

MCSymmetry == Permutations(Keys) \cup Permutations(Procs)
=============================================================================

---------------------------- MODULE MCWalletCharge ----------------------------
(* Instances of WalletCharge for TLC. *)
EXTENDS WalletCharge, TLC

CONSTANTS y1, y2, p1, p2

MCPayments == {y1, y2}
MCOnePayment == {y1}
MCProcs == {p1, p2}

MCSymmetry == Permutations(MCProcs) \cup Permutations(MCPayments)
=============================================================================

-------------------------- MODULE MCSlotReservation --------------------------
(* Instances of SlotReservation for TLC: two customers, two overlapping calls. *)
EXTENDS SlotReservation, TLC

CONSTANTS u1, u2, p1, p2, r1, r2, r3

MCUsers == {u1, u2}
MCProcs == {p1, p2}
MCRows == {r1, r2, r3}
MCTwoRows == {r1, r2}
MCOneTwo == {1, 2}
MCOne == {1}

MCSymmetry ==
    Permutations(MCUsers) \cup Permutations(MCProcs) \cup Permutations(MCRows)
=============================================================================

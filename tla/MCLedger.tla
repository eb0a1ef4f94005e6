------------------------------- MODULE MCLedger -------------------------------
(* Ledger for TLC: a sale of 3 paise credited to a vendor and the platform,  *)
(* a sale its caller fails to balance, and two refunds of the first.         *)
EXTENDS Ledger, TLC

CONSTANTS s1, s2, r1, r2, p1, p2, clearing, vendor, commission

MCSaleKeys == {s1, s2}
MCReversalKeys == {r1, r2}
MCProcs == {p1, p2}

Entry(account, dr, cr) == [account |-> account, dr |-> dr, cr |-> cr]

\* Shares of two thirds and one third: no two remainders are equal.
MCSaleLines ==
    s1 :> <<Entry(clearing, 3, 0), Entry(vendor, 0, 2), Entry(commission, 0, 1)>>
    @@ s2 :> <<Entry(clearing, 3, 0), Entry(vendor, 0, 2)>>

MCReversalOf == [k \in MCReversalKeys |-> s1]
MCTwos == [k \in MCReversalKeys |-> 2]

MCRepairers == {p1}
=============================================================================

----------------------------- MODULE MCSaleBooks -----------------------------
(* SaleBooks for TLC. *)
EXTENDS SaleBooks, TLC

CONSTANTS p1, p2

Symmetry == Permutations(Writers)

Line(seller, price, qty, bps, category) ==
    [seller |-> seller, price |-> price, qty |-> qty, bps |-> bps, category |-> category]

\* A vendor beside the store, a vendor alone, and a line with cess; units that do
\* not divide their discount, and totals on both sides of the rupee's middle.
MCBaskets == {
    <<Line("v1", 149, 3, 1800, "gifts"), Line("store", 99, 1, 500, "flowers")>>,
    <<Line("v1", 333, 1, 1200, "plants")>>,
    <<Line("store", 260, 1, 2800, "soda")>>}

\* The rates that were charged, and a table whose dated rows differ from them.
Rate(bps, cess) == [bps |-> bps, cess |-> cess]
Charged == [gifts |-> Rate(1800, 0), flowers |-> Rate(500, 0), plants |-> Rate(1200, 0),
            soda |-> Rate(2800, 1200)]
MCTables == {Charged, [Charged EXCEPT !.plants = Rate(500, 0), !.soda = Rate(4000, 0)]}

\* The reversals and the documents of a sale are explored apart: neither reads what the
\* other writes, and no property relates the two.
Apart ==
    \/ docs = <<>> /\ Busy = {} /\ stops = 0
    \/ \A r \in DOMAIN refunds : refunds[r].state = "moved"
=============================================================================

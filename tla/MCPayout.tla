------------------------------ MODULE MCPayout ------------------------------
(* Payout for TLC: one vendor, up to three cycles and two people in the back office. *)
EXTENDS Payout, TLC

CONSTANTS l1, l2, a1, u1, u2, p1, p2

Symmetry == Permutations(Lines) \cup Permutations(Approvers) \cup Permutations(Procs)

\* A state constraint: what lies behind a known detour is not explored, but for the
\* return of a refunded line, and that without adjustments; the third cycle is without
\* the adjustment or without a line; between calls one sale line at most is held, to be
\* refunded or released before the next.
Straight ==
    LET held == {i \in Items : line[i].state = "held"} IN
    /\ detours \subseteq {"revived"}
    /\ (\E a \in Adjustments : adjusted[a].added) =>
          /\ "revived" \notin detours
          /\ (\E l \in Lines : line[<<l, 1>>].state = "none") \/ batch[3].state = "none"
    /\ Cardinality(held) <= 1 /\ held \subseteq Lines \X {1}
    /\ held # {} => \A p \in Procs : call[p].at \in {"idle", "refund"}
=============================================================================

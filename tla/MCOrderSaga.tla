----------------------------- MODULE MCOrderSaga -----------------------------
(* Instances of OrderSaga for TLC. *)
EXTENDS OrderSaga, TLC

CONSTANTS o1, o2, o3, l1, l2, p1, p2, captured, authorized

MCOneOrder == {o1}
MCThreeOrders == {o1, o2, o3}
MCListings == {l1, l2}
MCOneListing == {l1}
MCProcs == {p1, p2}
MCEvents == {captured, authorized}
MCCaptured == {captured}

\* o1 and o3 take both listings, in any order, and o2 the first.
MCBaskets == (o1 :> {l1, l2}) @@ (o2 :> {l1}) @@ (o3 :> {l1, l2})
MCOneBasket == o1 :> {l1}

MCPrepaidAndCash == (o1 :> "prepaid") @@ (o2 :> "cod") @@ (o3 :> "prepaid")
MCAsync == o1 :> "async"

MCSymmetry == Permutations(MCProcs)
=============================================================================

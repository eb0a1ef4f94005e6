------------------------------ MODULE Aftersales ------------------------------
(***************************************************************************)
(* One order from the packing table to its end: delivery with its retries, *)
(* cash collected at the door, cancellation, return and refund.  From      *)
(* services/order.service.js (dispatch, riderFlow, deliver, deliveryFailed,*)
(* cancelOrder), fulfillment.service.js (the assignment), the cash part of *)
(* payment.service.js, returns.service.js and refund.service.js.           *)
(*                                                                         *)
(* The order has Units units worth one each, all of one item.  A handler   *)
(* reads the order once and saves fields of its copy later, over whatever  *)
(* the order has become; only the payment is claimed by compare-and-set.   *)
(***************************************************************************)
EXTENDS Integers, Sequences, FiniteSets, Functions

CONSTANTS
    Methods,       \* how the order may have been paid: "cash", "prepaid"
    Units,         \* units of the order
    MaxRetries,    \* MAX_DELIVERY_RETRIES
    Procs,         \* requests in flight
    MaxFails,      \* bound on failed deliveries
    MaxRefusals,   \* bound on refunds the gateway refuses
    MaxOverlaps,   \* bound on the calls started while another is running
    MaxCrashes     \* bound on the calls that die half way

ASSUME AftersalesAssumption ==
    /\ Methods \subseteq {"cash", "prepaid"}
    /\ {Units, MaxRetries} \subseteq Nat \ {0}
    /\ {MaxFails, MaxRefusals, MaxOverlaps, MaxCrashes} \subseteq Nat

VARIABLES
    order,     \* orders: status, retries, and the copy of the payment's state
    asg,       \* deliveryassignments: status
    payment,   \* payments: status, collected, deposited, refunded amount
    books,     \* the journals posted for the cash: collected, waived, deposited
    rets,      \* returnrequests
    returned,  \* orderitems.returnedQty
    rows,      \* refundtransactions, and whether the money went back
    call,      \* per process: the next step, its copy of the order, what it does
    calm,      \* ghost: no two calls have overlapped and none has died
    bounds     \* refusals, overlaps and crashes, for the bounds

vars == <<order, asg, payment, books, rets, returned, rows, call, calm, bounds>>

\* utils/orderStateMachine.js, from packing on: a state leads to itself, too.
Leads(from, to) ==
    \/ from = to
    \/ <<from, to>> \in {<<"packed", "out">>, <<"packed", "cancelled">>,
                         <<"out", "delivered">>, <<"out", "failed">>,
                         <<"failed", "out">>, <<"failed", "cancelled">>}
Cancellable == {"packed", "failed"}

Idle == [at |-> "idle", does |-> "none", order |-> [status |-> "packed", summary |-> "none",
         retries |-> 0, refunded |-> 0], n |-> 0, amount |-> 0, row |-> 0]

\* A packed order: prepaid, or cash the rider is to collect.
Init ==
    /\ \E m \in Methods :
         LET status == IF m = "cash" THEN "awaiting" ELSE "success" IN
         /\ order = [status |-> "packed", summary |-> status, retries |-> 0, refunded |-> 0]
         /\ payment = [method |-> m, status |-> status, collected |-> FALSE,
                       deposited |-> FALSE, refunded |-> 0]
    /\ asg = "none" /\ books = {} /\ rets = <<>> /\ returned = 0 /\ rows = <<>>
    /\ call = [p \in Procs |-> Idle]
    /\ calm = TRUE
    /\ bounds = [refusals |-> 0, overlaps |-> 0, crashes |-> 0]

Running == {p \in Procs : call[p].at # "idle"}
At(p, step) == call[p].at = step
Does(p, handlers) == call[p].does \in handlers

\* A call begins with the order it read; it may concern a return and an amount.
BeginOn(p, step, does, n, amount) ==
    /\ At(p, "idle")
    /\ Running # {} => bounds.overlaps < MaxOverlaps
    /\ bounds' = IF Running = {} THEN bounds ELSE [bounds EXCEPT !.overlaps = @ + 1]
    /\ calm' = (calm /\ Running = {})
    /\ call' = [call EXCEPT ![p] = [at |-> step, does |-> does, order |-> order,
                                    n |-> n, amount |-> amount, row |-> 0]]
Begin(p, step, does) == BeginOn(p, step, does, 0, 0)

Continue(p, step) == call' = [call EXCEPT ![p].at = step]
Return(p) == call' = [call EXCEPT ![p] = Idle]
Quietly == UNCHANGED <<calm, bounds>>
AfterDelivery == <<rets, returned, rows>>
Cash == <<payment, books>>

\* Mutant: the transition is not checked.
TransitionUnchecked(p, to, step) ==
    /\ order' = [order EXCEPT !.status = to]
    /\ IF step = "idle" THEN Return(p) ELSE Continue(p, step)

\* transition: checked on the copy, saved over the status of now.
Transition(p, to, step) ==
    IF Leads(call[p].order.status, to)
    THEN /\ order' = [order EXCEPT !.status = to]
         /\ IF step = "idle" THEN Return(p) ELSE Continue(p, step)
    ELSE Return(p) /\ UNCHANGED order

-----------------------------------------------------------------------------
(* Dispatch and the rider's legs *)

\* dispatch and retryDelivery; an order that is out may be dispatched again.
Dispatch(p) ==
    /\ Leads(order.status, "out")
    /\ Begin(p, "assign", "dispatch")
    /\ UNCHANGED <<order, asg, Cash, AfterDelivery>>

\* assignRider writes the assignment anew, whatever state it was in.
Assign(p) ==
    /\ At(p, "assign")
    /\ asg' = "offered"
    /\ IF Does(p, {"dispatch"}) THEN Continue(p, "leave") ELSE Return(p)
    /\ Quietly /\ UNCHANGED <<order, Cash, AfterDelivery>>

\* The order goes out at dispatch, and again when the rider departs.
Leave(p) ==
    /\ At(p, "leave")
    /\ Transition(p, "out", "idle")
    /\ Quietly /\ UNCHANGED <<asg, Cash, AfterDelivery>>

NextLeg == [offered |-> "accepted", accepted |-> "hub", hub |-> "transit", transit |-> "arrived"]

\* acceptAssignment, markAtHub, departHub, markArrived.
LegFind(p) ==
    /\ asg \in DOMAIN NextLeg
    /\ Begin(p, "leg", asg)
    /\ UNCHANGED <<order, asg, Cash, AfterDelivery>>
LegSave(p) ==
    /\ At(p, "leg")
    /\ asg' = NextLeg[call[p].does]
    /\ IF asg' = "transit" THEN Continue(p, "leave") ELSE Return(p)
    /\ Quietly /\ UNCHANGED <<order, Cash, AfterDelivery>>

-----------------------------------------------------------------------------
(* Cash at the door *)

\* The rider records the cash on its own; complete (the rider's) and deliver
\* (operations') record it first if the order still awaits it.
Collect(p) ==
    /\ payment.method = "cash" /\ payment.status \in {"awaiting", "success"}
    /\ Begin(p, "read", "collect")
    /\ UNCHANGED <<order, asg, Cash, AfterDelivery>>

\* Mutant: the cash gate is asked only of the rider.
DeliverUnpaid(p) ==
    /\ Leads(order.status, "delivered")
    /\ Begin(p, "force", "deliver")
    /\ UNCHANGED <<order, asg, Cash, AfterDelivery>>

Gate(otherwise) == IF order.summary = "awaiting" THEN "read" ELSE otherwise
Complete(p) ==
    /\ order.summary = "awaiting" \/ asg = "arrived"
    /\ Begin(p, Gate("pod"), "complete")
    /\ UNCHANGED <<order, asg, Cash, AfterDelivery>>
Deliver(p) ==
    /\ Leads(order.status, "delivered")
    /\ Begin(p, Gate("force"), "deliver")
    /\ UNCHANGED <<order, asg, Cash, AfterDelivery>>

\* collectCashOnDelivery: what is neither collected nor awaited is refused.
ReadPayment(p) ==
    /\ At(p, "read")
    /\ CASE payment.status = "success"  -> Continue(p, "sync")
         [] payment.status = "awaiting" -> Continue(p, "claim")
         [] OTHER                       -> Return(p)
    /\ Quietly /\ UNCHANGED <<order, asg, Cash, AfterDelivery>>

\* The compare-and-set; who loses it takes the cash for collected.
Claim(p) ==
    /\ At(p, "claim")
    /\ IF payment.status = "awaiting"
       THEN /\ payment' = [payment EXCEPT !.status = "success", !.collected = TRUE]
            /\ Continue(p, "journal")
       ELSE Continue(p, "sync") /\ UNCHANGED payment
    /\ Quietly /\ UNCHANGED <<order, asg, books, AfterDelivery>>

PostCollected(p) ==
    /\ At(p, "journal")
    /\ books' = books \cup {"collected"}
    /\ Continue(p, "summary")
    /\ Quietly /\ UNCHANGED <<order, asg, payment, AfterDelivery>>

Summarize(p) ==
    /\ At(p, "summary")
    /\ order' = IF order.summary = "awaiting" THEN [order EXCEPT !.summary = "success"] ELSE order
    /\ Continue(p, "sync")
    /\ Quietly /\ UNCHANGED <<asg, Cash, AfterDelivery>>

\* syncPaymentSummary and the save of what differs from the copy.
Sync(p) ==
    /\ At(p, "sync") \/ At(p, "syncAgain")
    /\ order' = IF call[p].order.summary = payment.status THEN order
                ELSE [order EXCEPT !.summary = payment.status]
    /\ CASE At(p, "syncAgain")     -> Continue(p, "deliver")
         [] Does(p, {"complete"})  -> Continue(p, "pod")
         [] Does(p, {"deliver"})   -> Continue(p, "force")
         [] OTHER                  -> Return(p)
    /\ Quietly /\ UNCHANGED <<asg, Cash, AfterDelivery>>

\* forceArrived, for operations: past a failed or finished assignment it refuses.
ForceArrived(p) ==
    /\ At(p, "force")
    /\ IF asg \in {"none", "failed", "delivered"}
       THEN Return(p) /\ UNCHANGED asg
       ELSE Continue(p, "pod") /\ asg' = "arrived"
    /\ Quietly /\ UNCHANGED <<order, Cash, AfterDelivery>>

\* completeDelivery reads the assignment, then saves it.
Pod(p) ==
    /\ At(p, "pod")
    /\ IF asg = "arrived" THEN Continue(p, "podSave") ELSE Return(p)
    /\ Quietly /\ UNCHANGED <<order, asg, Cash, AfterDelivery>>
PodSave(p) ==
    /\ At(p, "podSave")
    /\ asg' = "delivered"
    /\ Continue(p, IF Does(p, {"deliver"}) THEN "syncAgain" ELSE "deliver")
    /\ Quietly /\ UNCHANGED <<order, Cash, AfterDelivery>>
DeliverSave(p) ==
    /\ At(p, "deliver")
    /\ Transition(p, "delivered", "idle")
    /\ Quietly /\ UNCHANGED <<asg, Cash, AfterDelivery>>

\* depositCodCash: claimed by compare-and-set, then posted.
Deposit(p) ==
    /\ payment.collected /\ ~payment.deposited
    /\ Begin(p, "deposit", "deposit")
    /\ UNCHANGED <<order, asg, Cash, AfterDelivery>>
DepositClaim(p) ==
    /\ At(p, "deposit")
    /\ payment' = [payment EXCEPT !.deposited = TRUE]
    /\ IF payment.deposited THEN Return(p) ELSE Continue(p, "depositPost")
    /\ Quietly /\ UNCHANGED <<order, asg, books, AfterDelivery>>
DepositPost(p) ==
    /\ At(p, "depositPost")
    /\ books' = books \cup {"deposited"}
    /\ Return(p)
    /\ Quietly /\ UNCHANGED <<order, asg, payment, AfterDelivery>>

-----------------------------------------------------------------------------
(* A failed delivery, and cancellation *)

\* riderFlow fail, and deliveryFailed for operations, which checks the order
\* first.
Fail(p, does) ==
    /\ asg \in {"transit", "arrived"} /\ order.retries < MaxFails
    /\ does = "opsFail" => Leads(order.status, "failed")
    /\ Begin(p, "failAsg", does)
    /\ UNCHANGED <<order, asg, Cash, AfterDelivery>>
FailAsg(p) ==
    /\ At(p, "failAsg")
    /\ asg' = "failed"
    /\ Continue(p, "retries")
    /\ Quietly /\ UNCHANGED <<order, Cash, AfterDelivery>>

\* The count is the copy's; at the limit the order is to be cancelled.
CountRetry(p) ==
    /\ At(p, "retries")
    /\ LET retries == call[p].order.retries + 1 IN
       /\ order' = [order EXCEPT !.retries = retries]
       /\ Continue(p, IF retries >= MaxRetries THEN "cancelRead" ELSE "failOrder")
    /\ Quietly /\ UNCHANGED <<asg, Cash, AfterDelivery>>

\* A rider's failure offers the order to the next rider at once.
FailOrder(p) ==
    /\ At(p, "failOrder")
    /\ Transition(p, "failed", IF Does(p, {"riderFail"}) THEN "assign" ELSE "idle")
    /\ Quietly /\ UNCHANGED <<asg, Cash, AfterDelivery>>

\* Mutant: what was collected is not given back.
AfterReadUnpaid(copy) == IF copy.summary = "awaiting" THEN "waive" ELSE "cancel"

\* cancelOrder reads the order again: while it is out it refuses.
AfterRead(copy) ==
    IF copy.summary = "awaiting" THEN "waive"
    ELSE IF copy.summary \in {"success", "partial", "refunded"} /\ copy.refunded < Units
    THEN "row" ELSE "cancel"
Cancel(p) ==
    /\ order.status \in Cancellable
    /\ BeginOn(p, AfterRead(order), "cancel", 0, Units - order.refunded)
    /\ UNCHANGED <<order, asg, Cash, AfterDelivery>>
CancelRead(p) ==
    /\ At(p, "cancelRead")
    /\ IF order.status \in Cancellable
       THEN call' = [call EXCEPT ![p] = [@ EXCEPT !.at = AfterRead(order), !.does = "cancel",
                                                  !.order = order, !.amount = Units - order.refunded]]
       ELSE Return(p)
    /\ Quietly /\ UNCHANGED <<order, asg, Cash, AfterDelivery>>

\* Cash nobody collected: the payment fails, if it still awaits collection.
Waive(p) ==
    /\ At(p, "waive")
    /\ payment' = IF payment.status = "awaiting" THEN [payment EXCEPT !.status = "failed"] ELSE payment
    /\ Continue(p, "waivePost")
    /\ Quietly /\ UNCHANGED <<order, asg, books, AfterDelivery>>

\* The receivable is waived whether it did or not.
PostWaived(p) ==
    /\ At(p, "waivePost")
    /\ books' = books \cup {"waived"}
    /\ call' = [call EXCEPT ![p].order.summary = "failed", ![p].at = "cancel"]
    /\ Quietly /\ UNCHANGED <<order, asg, payment, AfterDelivery>>

CancelSave(p) ==
    /\ At(p, "cancel")
    /\ order' = [order EXCEPT !.status = "cancelled",
                              !.summary = IF call[p].order.summary = "failed" THEN "failed" ELSE @]
    /\ Return(p)
    /\ Quietly /\ UNCHANGED <<asg, Cash, AfterDelivery>>

-----------------------------------------------------------------------------
(* refund.service.js: initiate *)

Refunded == SumFunction([n \in DOMAIN rows |->
                           IF rows[n].status = "success" THEN rows[n].amount ELSE 0])

CreateRow(p) ==
    /\ At(p, "row")
    /\ rows' = Append(rows, [status |-> "pending", amount |-> call[p].amount, moved |-> FALSE])
    /\ call' = [call EXCEPT ![p].row = Len(rows) + 1, ![p].at = "move"]
    /\ Quietly /\ UNCHANGED <<order, asg, Cash, rets, returned>>

\* The wallet or the gateway pays, or refuses: then the row and the caller fail.
Move(p) ==
    /\ At(p, "move")
    /\ \/ /\ rows' = [rows EXCEPT ![call[p].row].moved = TRUE]
          /\ Continue(p, "rowSave")
          /\ UNCHANGED bounds
       \/ /\ bounds.refusals < MaxRefusals
          /\ bounds' = [bounds EXCEPT !.refusals = @ + 1]
          /\ rows' = [rows EXCEPT ![call[p].row].status = "failed"]
          /\ Return(p)
    /\ UNCHANGED <<order, asg, Cash, rets, returned, calm>>

SaveRow(p) ==
    /\ At(p, "rowSave")
    /\ rows' = [rows EXCEPT ![call[p].row].status = "success"]
    /\ Continue(p, "syncPayment")
    /\ Quietly /\ UNCHANGED <<order, asg, Cash, rets, returned>>

\* syncPaymentRefundState: the sum of the rows, onto the payment ...
SyncPayment(p) ==
    /\ At(p, "syncPayment")
    /\ payment' = [payment EXCEPT !.refunded = Refunded,
                                  !.status = IF Refunded >= Units THEN "refunded" ELSE "partial"]
    /\ call' = [call EXCEPT ![p].order.refunded = Refunded, ![p].at = "syncOrder"]
    /\ Quietly /\ UNCHANGED <<order, asg, books, AfterDelivery>>

\* ... and onto the order; the journals of the refund are in Ledger and Payout.
SyncOrder(p) ==
    /\ At(p, "syncOrder")
    /\ LET refunded == call[p].order.refunded IN
       order' = [order EXCEPT !.refunded = refunded,
                              !.summary = IF refunded >= Units \/ order.summary = "refunded"
                                           THEN "refunded" ELSE "partial"]
    /\ Continue(p, IF Does(p, {"cancel"}) THEN "cancel" ELSE "retSave")
    /\ Quietly /\ UNCHANGED <<asg, Cash, AfterDelivery>>

-----------------------------------------------------------------------------
(* returns.service.js *)

\* create: delivered, within the window, and no more than was not returned.
\* An instant claim is refunded at once; a pickup waits for quality control.
CreateReturn(p, kind, qty) ==
    /\ order.status = "delivered" /\ qty <= Units - returned
    /\ BeginOn(p, "retCreate", kind, 0, qty)
    /\ UNCHANGED <<order, asg, Cash, AfterDelivery>>
InsertReturn(p) ==
    /\ At(p, "retCreate")
    /\ rets' = Append(rets, [status |-> "approved", qty |-> call[p].amount])
    /\ call' = [call EXCEPT ![p].n = Len(rets) + 1, ![p].at = "mirror"]
    /\ Quietly /\ UNCHANGED <<order, asg, Cash, returned, rows>>

\* markPickedUp, for any approved return.
PickUp(p, n) ==
    /\ rets[n].status = "approved"
    /\ BeginOn(p, "retSave", "pickup", n, rets[n].qty)
    /\ UNCHANGED <<order, asg, Cash, AfterDelivery>>

\* qcDecision
Qc(p, n, does) ==
    /\ rets[n].status = "picked"
    /\ BeginOn(p, "retSave", does, n, rets[n].qty)
    /\ UNCHANGED <<order, asg, Cash, AfterDelivery>>

\* The return is saved in its next state; syncOrderStatus mirrors it.
NextReturn(p) ==
    CASE Does(p, {"pickup"})               -> "picked"
      [] Does(p, {"reject"})               -> "rejected"
      [] Does(p, {"pass"}) /\ call[p].row = 0 -> "passed"
      [] OTHER                             -> "refunded"
SaveReturn(p) ==
    /\ At(p, "retSave")
    /\ rets' = [rets EXCEPT ![call[p].n].status = NextReturn(p)]
    /\ Continue(p, "mirror")
    /\ Quietly /\ UNCHANGED <<order, asg, Cash, returned, rows>>
Mirror(p) ==
    /\ At(p, "mirror")
    /\ LET done == call[p].row # 0 IN
       /\ order' = [order EXCEPT !.status =
                       IF Does(p, {"pickup", "pass", "reject"}) \/ done THEN NextReturn(p)
                       ELSE "approved"]
       /\ CASE done                                    -> Continue(p, "returned")
            [] ~done /\ Does(p, {"instant", "pass"})   -> Continue(p, "row")
            [] OTHER                                   -> Return(p)
    /\ Quietly /\ UNCHANGED <<asg, Cash, AfterDelivery>>

\* Mutant: the item that is returned counts once, whatever its quantity.
MarkOneReturned(p) ==
    /\ At(p, "returned")
    /\ returned' = returned + 1
    /\ Return(p)
    /\ Quietly /\ UNCHANGED <<order, asg, Cash, rets, rows>>

\* markItemsReturned, last of all.
MarkReturned(p) ==
    /\ At(p, "returned")
    /\ returned' = returned + call[p].amount
    /\ Return(p)
    /\ Quietly /\ UNCHANGED <<order, asg, Cash, rets, rows>>

Crash(p) ==
    /\ ~At(p, "idle") /\ bounds.crashes < MaxCrashes
    /\ Return(p)
    /\ calm' = FALSE
    /\ bounds' = [bounds EXCEPT !.crashes = @ + 1]
    /\ UNCHANGED <<order, asg, Cash, AfterDelivery>>

-----------------------------------------------------------------------------

Ask(p) ==
    \/ Dispatch(p) \/ LegFind(p)
    \/ Collect(p) \/ Complete(p) \/ Deliver(p) \/ Deposit(p)
    \/ \E does \in {"riderFail", "opsFail"} : Fail(p, does)
    \/ Cancel(p)
    \/ \E kind \in {"instant", "ask"}, qty \in 1..Units : CreateReturn(p, kind, qty)
    \/ \E n \in DOMAIN rets : PickUp(p, n) \/ \E does \in {"pass", "reject"} : Qc(p, n, does)

Advance(p) ==
    \/ Assign(p) \/ Leave(p) \/ LegSave(p)
    \/ ReadPayment(p) \/ Claim(p) \/ PostCollected(p) \/ Summarize(p) \/ Sync(p)
    \/ ForceArrived(p) \/ Pod(p) \/ PodSave(p) \/ DeliverSave(p) \/ DepositClaim(p) \/ DepositPost(p)
    \/ FailAsg(p) \/ CountRetry(p) \/ FailOrder(p)
    \/ CancelRead(p) \/ Waive(p) \/ PostWaived(p) \/ CancelSave(p)
    \/ CreateRow(p) \/ Move(p) \/ SaveRow(p) \/ SyncPayment(p) \/ SyncOrder(p)
    \/ InsertReturn(p) \/ SaveReturn(p) \/ Mirror(p) \/ MarkReturned(p)

Next == \E p \in Procs : Ask(p) \/ Advance(p) \/ Crash(p)

Spec == Init /\ [][Next]_vars

-----------------------------------------------------------------------------
(* Properties *)

TypeOK ==
    /\ order.status \in {"packed", "out", "failed", "delivered", "cancelled", "approved",
                         "picked", "passed", "rejected", "refunded"}
    /\ order.summary \in {"awaiting", "success", "failed", "partial", "refunded"}
    /\ payment.status \in {"awaiting", "success", "failed", "partial", "refunded"}
    /\ asg \in {"none", "offered", "accepted", "hub", "transit", "arrived", "failed", "delivered"}
    /\ returned \in Nat /\ order.retries \in 0..MaxFails

WasDelivered == order.status \notin {"packed", "out", "failed", "cancelled"}
MovedBack == SumFunction([n \in DOMAIN rows |-> IF rows[n].moved THEN rows[n].amount ELSE 0])

\* "A COD order cannot be marked DELIVERED until the money is in the rider's
\* hand" (order.service.js, complete): it does not hold when a cancellation
\* waives the cash between the read and the claim of the collection.
DeliveredIsCollected ==
    payment.method = "cash" /\ WasDelivered => payment.collected

\* Whoever overlaps with whom, a delivered cash order was collected or its cash
\* was waived by a cancellation (the cash gates of complete and deliver).
DeliveredIsSettled ==
    payment.method = "cash" /\ WasDelivered => payment.status # "awaiting"

\* One call at a time, the receivable of a cash order is cleared exactly once:
\* by the cash that was collected or by the waiver of a cancelled order.
ReceivableCleared ==
    calm /\ Running = {} =>
        /\ "collected" \in books <=> payment.collected
        /\ "waived" \in books => order.status = "cancelled" /\ ~payment.collected

\* "no double refunds" (refund.service.js, on the idempotency key).  It does not
\* hold: no caller passes a key, and initiate makes one up for every call, so
\* two cancellations, or two decisions on one return, refund the order twice.
NoDoubleRefund == MovedBack <= Units

\* One call at a time, who paid and had the order cancelled has it all back,
\* and nobody gets more back than was paid (cancelOrder, initiate, qcDecision).
CancelledIsReturned ==
    calm /\ Running = {} =>
        /\ order.status = "cancelled" /\ (payment.method = "prepaid" \/ payment.collected)
               => MovedBack = Units
        /\ MovedBack <= IF payment.method = "prepaid" \/ payment.collected THEN Units ELSE 0

\* One call at a time, the units returned are the units paid back for returns,
\* and payment, order and refund rows agree on the amount, whatever refunds the
\* gateway refused on the way (markItemsReturned, syncPaymentRefundState).
RefundsAgree ==
    calm /\ Running = {} =>
        /\ payment.refunded = Refunded /\ order.refunded = Refunded /\ MovedBack = Refunded
        /\ order.status # "cancelled" => returned = Refunded

\* "Delivery failure: retry or cancel after max retries" (order.service.js,
\* deliveryFailed).  It does not hold: cancelOrder refuses an order that is out.
CancelledAfterMaxRetries ==
    calm /\ Running = {} /\ order.retries >= MaxRetries => order.status = "cancelled"
=============================================================================

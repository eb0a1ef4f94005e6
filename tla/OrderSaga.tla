------------------------------ MODULE OrderSaga ------------------------------
(***************************************************************************)
(* The order saga: checkout, payment capture, compensation, cancellation   *)
(* and reconciliation (services/order.service.js, payment.service.js,      *)
(* refund.service.js, the commit and restore of inventory.service.js).     *)
(*                                                                         *)
(* Every handler is a sequence of awaits; call[p] holds the next one and   *)
(* what the handler has read so far.  A handler works on the order         *)
(* document it read at the start, and save() writes the modified paths by  *)
(* _id, whatever the stored document has become.                           *)
(*                                                                         *)
(* An order takes one unit of each listing of its basket and its total is  *)
(* one unit of money.  The slot calls are single steps here; what happens  *)
(* inside them is module SlotReservation.  The wallet debit is one step.   *)
(***************************************************************************)
EXTENDS Integers, FiniteSets

CONSTANTS
    Orders, Listings,
    Basket,         \* per order: the listings it takes
    Method,         \* per order: "prepaid" (charged in the request), "cod"
                    \* or "async" (the gateway confirms by webhook)
    InitialStock,   \* qtyOnHand of every listing
    CaptureEvents,  \* ids of the capture events the gateway sends per order
    FailEvent,      \* id of its payment.failed event
    NoOrder, NoEvent,
    Procs,          \* requests, webhooks and jobs in flight
    MaxFaults,      \* bound on crashes and failed gateway refunds together
    HoldsExpire,    \* TRUE: a slot hold may lapse before it is confirmed
    OnePerOrder     \* TRUE: no two handlers of one order overlap

ASSUME SagaAssumption ==
    /\ Basket \in [Orders -> (SUBSET Listings) \ {{}}]
    /\ Method \in [Orders -> {"prepaid", "cod", "async"}]
    /\ {InitialStock, MaxFaults} \subseteq Nat
    /\ FailEvent \notin CaptureEvents
    /\ NoOrder \notin Orders /\ NoEvent \notin CaptureEvents \cup {FailEvent}
    /\ {HoldsExpire, OnePerOrder} \subseteq BOOLEAN

Events == CaptureEvents \cup {FailEvent}

OrderStatus == {"none", "created", "payment_pending", "confirmed", "cancelled"}
PaymentStatus ==
    {"none", "pending", "awaiting_collection", "success", "failed", "refunded"}
HoldStatus == {"held", "lapsed", "confirmed", "released", "expired", "gone"}

VARIABLES
    order,    \* orders: status, and paid = paymentSummary.status
    payment,  \* payments: status
    gateway,  \* external: what the gateway has of the order's payment
    event,    \* paymentwebhookevents: status per order and event id
    stock,    \* inventories: qtyOnHand per listing
    hold,     \* slotreservations: the order's hold ("lapsed": HELD, past expiresAt)
    task,     \* fulfillmenttasks: the order has one (unique orderId)
    refunds,  \* refundtransactions with status success, per order
    tally,    \* ghost: units committed per listing, times moved to CONFIRMED
    call,     \* per process: the handler in flight
    faults    \* crashes and failed refunds so far

vars == <<order, payment, gateway, event, stock, hold, task, refunds, tally, call, faults>>

Steps == {"idle", "pending", "pay", "charge", "summary", "commit", "slotConfirm",
          "createTask", "confirmOrder", "readPayment", "saveSuccess", "readOrder",
          "fetch", "markFailed", "saveFailed", "readCancel", "restore", "release",
          "waive", "refund", "syncRefund", "markCancelled", "finish"}

\* path: which sequence of compensations the handler is in; refund: its flag.
Calls == [at : Steps, o : Orders \cup {NoOrder}, event : Events \cup {NoEvent},
          path : {"none", "finalize", "decline", "cancel"}, refund : BOOLEAN,
          paid : PaymentStatus, todo : SUBSET Listings, done : SUBSET Listings]

Idle == [at |-> "idle", o |-> NoOrder, event |-> NoEvent, path |-> "none",
         refund |-> FALSE, paid |-> "none", todo |-> {}, done |-> {}]

Init ==
    /\ order = [o \in Orders |-> [status |-> "none", paid |-> "none"]]
    /\ payment = [o \in Orders |-> "none"]
    /\ gateway = [o \in Orders |-> [captured |-> FALSE, attemptFailed |-> FALSE]]
    /\ event = [o \in Orders |-> [e \in Events |-> "none"]]
    /\ stock = [l \in Listings |-> InitialStock]
    /\ hold = [o \in Orders |-> "held"]
    /\ task = [o \in Orders |-> FALSE]
    /\ refunds = [o \in Orders |-> 0]
    /\ tally = [o \in Orders |-> [units |-> [l \in Listings |-> 0], confirmed |-> 0]]
    /\ call = [p \in Procs |-> Idle]
    /\ faults = 0

-----------------------------------------------------------------------------
(* Control *)

At(p, step) == call[p].at = step

\* No handler of order o is in flight.
Quiet(o) == \A p \in Procs : call[p].o # o

MayStart(p, o) == At(p, "idle") /\ (OnePerOrder => Quiet(o))

Checkout == {"pending", "pay", "charge", "summary"}
CheckoutRunning(o) == \E p \in Procs : call[p].o = o /\ call[p].at \in Checkout

Continue(p, step) == call' = [call EXCEPT ![p].at = step]

\* The handler returns or throws.  A webhook handler has caught what the saga
\* threw and goes on to write its disposition.
Return(p) ==
    call' = [call EXCEPT ![p] =
                IF @.event = NoEvent THEN Idle ELSE [@ EXCEPT !.at = "finish"]]

Cancellable == {"created", "payment_pending", "confirmed"}

\* Mutant: the refund flag is read the wrong way round.
RefundDueInverted(c) == ~c.refund /\ c.paid = "success"

\* cancelOrder: the summary it read says the money is there.
RefundDue(c) == c.refund /\ c.paid = "success"

\* The step after the slot is given back: cancelOrder settles the money then,
\* the failed finalization has done it and the declined charge has none.
AfterRelease(c) ==
    IF c.path # "cancel" THEN "markCancelled"
    ELSE IF c.paid = "awaiting_collection" THEN "waive"
    ELSE IF RefundDue(c) THEN "refund"
    ELSE "markCancelled"

AfterRestore(c) == IF c.path = "cancel" THEN "release" ELSE "refund"

-----------------------------------------------------------------------------
(* checkout *)

CheckoutStart(p, o) ==
    /\ MayStart(p, o)
    /\ order[o].status = "none" /\ hold[o] = "held"
    /\ order' = [order EXCEPT ![o].status = "created"]
    /\ call' = [call EXCEPT ![p] = [Idle EXCEPT !.at = "pending", !.o = o]]
    /\ UNCHANGED <<payment, gateway, event, stock, hold, task, refunds, tally, faults>>

CheckoutPending(p) ==
    /\ At(p, "pending")
    /\ order' = [order EXCEPT ![call[p].o].status = "payment_pending"]
    /\ Continue(p, "pay")
    /\ UNCHANGED <<payment, gateway, event, stock, hold, task, refunds, tally, faults>>

\* charge() creates the payment; cash is success without a gateway.
ChargeCreate(p) ==
    /\ At(p, "pay")
    /\ LET cod == Method[call[p].o] = "cod"
           status == IF cod THEN "awaiting_collection" ELSE "pending"
       IN  /\ payment' = [payment EXCEPT ![call[p].o] = status]
           /\ call' = [call EXCEPT ![p].paid = status,
                                   ![p].at = IF cod THEN "summary" ELSE "charge"]
    /\ UNCHANGED <<order, gateway, event, stock, hold, task, refunds, tally, faults>>

\* The provider's answer: an asynchronous gateway leaves the payment PENDING.
ChargeAnswer(p) ==
    /\ At(p, "charge")
    /\ \E answer \in IF Method[call[p].o] = "async" THEN {"pending"} ELSE {"success", "failed"} :
          /\ payment' = [payment EXCEPT ![call[p].o] = answer]
          /\ gateway' = [gateway EXCEPT ![call[p].o].captured = (answer = "success")]
          /\ call' = [call EXCEPT ![p].paid = answer, ![p].at = "summary"]
    /\ UNCHANGED <<order, event, stock, hold, task, refunds, tally, faults>>

StartCommit(c) == [c EXCEPT !.at = "commit", !.path = "finalize",
                            !.todo = Basket[c.o], !.done = {}]

\* Mutant: the pending answer is taken for success.
CheckoutSummaryPendingIsSuccess(p) ==
    /\ At(p, "summary")
    /\ order' = [order EXCEPT ![call[p].o].paid = call[p].paid]
    /\ call' = [call EXCEPT ![p] =
                   IF @.paid = "failed" THEN [@ EXCEPT !.at = "release", !.path = "decline"]
                   ELSE StartCommit(@)]
    /\ UNCHANGED <<payment, gateway, event, stock, hold, task, refunds, tally, faults>>

\* Mutant: a declined charge is reported without its compensation.
CheckoutSummaryNoCompensation(p) ==
    /\ At(p, "summary")
    /\ order' = [order EXCEPT ![call[p].o].paid = call[p].paid]
    /\ call' = [call EXCEPT ![p] =
                   IF @.paid \in {"pending", "failed"} THEN Idle ELSE StartCommit(@)]
    /\ UNCHANGED <<payment, gateway, event, stock, hold, task, refunds, tally, faults>>

CheckoutSummary(p) ==
    /\ At(p, "summary")
    /\ order' = [order EXCEPT ![call[p].o].paid = call[p].paid]
    /\ call' = [call EXCEPT ![p] =
                   CASE @.paid = "pending" -> Idle
                     [] @.paid = "failed" -> [@ EXCEPT !.at = "release", !.path = "decline"]
                     [] OTHER -> StartCommit(@)]
    /\ UNCHANGED <<payment, gateway, event, stock, hold, task, refunds, tally, faults>>

-----------------------------------------------------------------------------
(* finalizeOrderAfterPayment *)

\* commitForOrder: a conditional decrement per listing; a listing out of stock
\* is noted and the loop goes on.
CommitItem(p) ==
    /\ At(p, "commit")
    /\ \E l \in call[p].todo :
          IF stock[l] >= 1
          THEN /\ stock' = [stock EXCEPT ![l] = @ - 1]
               /\ tally' = [tally EXCEPT ![call[p].o].units[l] = @ + 1]
               /\ call' = [call EXCEPT ![p].todo = @ \ {l}, ![p].done = @ \cup {l}]
          ELSE /\ call' = [call EXCEPT ![p].todo = @ \ {l}]
               /\ UNCHANGED <<stock, tally>>
    /\ UNCHANGED <<order, payment, gateway, event, hold, task, refunds, faults>>

\* Mutant: compensation B restores the whole basket, not what was committed.
CommitDoneRestoreAll(p) ==
    /\ At(p, "commit") /\ call[p].todo = {}
    /\ call' = [call EXCEPT ![p] =
                   IF @.done = Basket[@.o] THEN [@ EXCEPT !.at = "slotConfirm"]
                   ELSE [@ EXCEPT !.at = "restore", !.todo = Basket[call[p].o]]]
    /\ UNCHANGED <<order, payment, gateway, event, stock, hold, task, refunds, tally, faults>>

\* All committed: confirm the slot.  Otherwise compensation B.
CommitDone(p) ==
    /\ At(p, "commit") /\ call[p].todo = {}
    /\ call' = [call EXCEPT ![p] =
                   IF @.done = Basket[@.o] THEN [@ EXCEPT !.at = "slotConfirm"]
                   ELSE [@ EXCEPT !.at = "restore", !.todo = call[p].done]]
    /\ UNCHANGED <<order, payment, gateway, event, stock, hold, task, refunds, tally, faults>>

\* slotService.confirm throws unless the hold is live or confirmed already;
\* nothing catches it before the handler returns.
SlotConfirm(p) ==
    /\ At(p, "slotConfirm")
    /\ IF hold[call[p].o] \in {"held", "confirmed"}
       THEN hold' = [hold EXCEPT ![call[p].o] = "confirmed"] /\ Continue(p, "createTask")
       ELSE Return(p) /\ UNCHANGED hold
    /\ UNCHANGED <<order, payment, gateway, event, stock, task, refunds, tally, faults>>

\* Mutant: fulfillmenttasks without the unique index on orderId.
CreateTaskNoUniqueIndex(p) ==
    /\ At(p, "createTask")
    /\ task' = [task EXCEPT ![call[p].o] = TRUE]
    /\ Continue(p, "confirmOrder")
    /\ UNCHANGED <<order, payment, gateway, event, stock, hold, refunds, tally, faults>>

\* The unique index on orderId makes the second createTask throw.
CreateTask(p) ==
    /\ At(p, "createTask")
    /\ task' = [task EXCEPT ![call[p].o] = TRUE]
    /\ IF task[call[p].o] THEN Return(p) ELSE Continue(p, "confirmOrder")
    /\ UNCHANGED <<order, payment, gateway, event, stock, hold, refunds, tally, faults>>

\* transition() checks the status the handler read, PAYMENT_PENDING, and saves.
ConfirmOrder(p) ==
    /\ At(p, "confirmOrder")
    /\ order' = [order EXCEPT ![call[p].o].status = "confirmed"]
    /\ tally' = [tally EXCEPT ![call[p].o].confirmed = @ + 1]
    /\ Return(p)
    /\ UNCHANGED <<payment, gateway, event, stock, hold, task, refunds, faults>>

-----------------------------------------------------------------------------
(* Compensations, shared by the declined charge, the failed finalization and *)
(* cancelOrder.                                                              *)

RestoreItem(p) ==
    /\ At(p, "restore")
    /\ \E l \in call[p].todo :
          /\ stock' = [stock EXCEPT ![l] = @ + 1]
          /\ call' = [call EXCEPT ![p].todo = @ \ {l}]
    /\ UNCHANGED <<order, payment, gateway, event, hold, task, refunds, tally, faults>>

RestoreDone(p) ==
    /\ At(p, "restore") /\ call[p].todo = {}
    /\ Continue(p, AfterRestore(call[p]))
    /\ UNCHANGED <<order, payment, gateway, event, stock, hold, task, refunds, tally, faults>>

\* The hold may be gone: the declined charge and cancelOrder catch that, the
\* failed finalization does not.
Release(p) ==
    /\ At(p, "release")
    /\ hold' = [hold EXCEPT ![call[p].o] =
                   IF @ \in {"held", "lapsed", "confirmed"} THEN "released" ELSE @]
    /\ IF hold[call[p].o] = "gone" /\ call[p].path = "finalize"
       THEN Return(p)
       ELSE Continue(p, AfterRelease(call[p]))
    /\ UNCHANGED <<order, payment, gateway, event, stock, task, refunds, tally, faults>>

\* cancelOrder of a cash order: the receivable is waived.
WaiveCash(p) ==
    /\ At(p, "waive")
    /\ payment' = [payment EXCEPT ![call[p].o] =
                      IF @ = "awaiting_collection" THEN "failed" ELSE @]
    /\ call' = [call EXCEPT ![p].paid = "failed", ![p].at = "markCancelled"]
    /\ UNCHANGED <<order, gateway, event, stock, hold, task, refunds, tally, faults>>

\* refundService.initiate under a fresh key: the money goes back, or the
\* gateway refuses and initiate throws.
RefundInitiate(p) ==
    /\ At(p, "refund")
    /\ \/ /\ refunds' = [refunds EXCEPT ![call[p].o] = @ + 1]
          /\ Continue(p, "syncRefund")
          /\ UNCHANGED faults
       \/ /\ faults < MaxFaults /\ faults' = faults + 1
          /\ Return(p)
          /\ UNCHANGED refunds
    /\ UNCHANGED <<order, payment, gateway, event, stock, hold, task, tally>>

\* syncPaymentRefundState: the whole amount is back.
SyncRefund(p) ==
    /\ At(p, "syncRefund")
    /\ payment' = [payment EXCEPT ![call[p].o] = "refunded"]
    /\ order' = [order EXCEPT ![call[p].o].paid = "refunded"]
    /\ Continue(p, IF call[p].path = "cancel" THEN "markCancelled" ELSE "release")
    /\ UNCHANGED <<gateway, event, stock, hold, task, refunds, tally, faults>>

\* markCancelled looks at no status; a waived summary is saved with it.
MarkCancelled(p) ==
    /\ At(p, "markCancelled")
    /\ order' = [order EXCEPT ![call[p].o] =
                    [status |-> "cancelled",
                     paid |-> IF call[p].path = "cancel" /\ call[p].paid = "failed"
                              THEN "failed" ELSE @.paid]]
    /\ Return(p)
    /\ UNCHANGED <<payment, gateway, event, stock, hold, task, refunds, tally, faults>>

-----------------------------------------------------------------------------
(* cancelOrder *)

\* The customer cancels: refund = TRUE.
CancelRequest(p, o) ==
    /\ MayStart(p, o)
    /\ order[o].status # "none"
    /\ call' = [call EXCEPT ![p] =
                   [Idle EXCEPT !.at = "readCancel", !.o = o, !.refund = TRUE]]
    /\ UNCHANGED <<order, payment, gateway, event, stock, hold, task, refunds, tally, faults>>

\* The order is read once; what follows restores the whole basket, whatever
\* was committed, and settles the money by the summary read here.
ReadCancel(p) ==
    /\ At(p, "readCancel")
    /\ LET o == call[p].o IN
       IF order[o].status \in Cancellable
       THEN call' = [call EXCEPT ![p].at = "restore", ![p].path = "cancel",
                                 ![p].paid = order[o].paid, ![p].todo = Basket[o]]
       ELSE Return(p)
    /\ UNCHANGED <<order, payment, gateway, event, stock, hold, task, refunds, tally, faults>>

-----------------------------------------------------------------------------
(* Payment confirmation: webhook and reconciliation *)

\* applyWebhookEvent up to its dedupe: an event still "received" is taken for
\* a first arrival.
WebhookArrives(p, o, e) ==
    /\ MayStart(p, o)
    /\ IF e = FailEvent THEN gateway[o].attemptFailed ELSE gateway[o].captured
    /\ Method[o] = "async" /\ event[o][e] # "processed"
    /\ event' = [event EXCEPT ![o][e] = "received"]
    /\ call' = [call EXCEPT ![p] =
                   [Idle EXCEPT !.o = o, !.event = e,
                       !.at = IF e = FailEvent THEN "markFailed" ELSE "readPayment"]]
    /\ UNCHANGED <<order, payment, gateway, stock, hold, task, refunds, tally, faults>>

\* confirmSuccess: a payment that is SUCCESS is left alone, any other is saved.
ConfirmSuccessRead(p) ==
    /\ At(p, "readPayment")
    /\ Continue(p, IF payment[call[p].o] = "success" THEN "readOrder" ELSE "saveSuccess")
    /\ UNCHANGED <<order, payment, gateway, event, stock, hold, task, refunds, tally, faults>>

ConfirmSuccessSave(p) ==
    /\ At(p, "saveSuccess")
    /\ payment' = [payment EXCEPT ![call[p].o] = "success"]
    /\ Continue(p, "readOrder")
    /\ UNCHANGED <<order, gateway, event, stock, hold, task, refunds, tally, faults>>

\* confirmPayment: only an order read as PAYMENT_PENDING is finalized.
ConfirmPayment(p) ==
    /\ At(p, "readOrder")
    /\ LET o == call[p].o IN
       IF order[o].status = "payment_pending"
       THEN call' = [call EXCEPT ![p] = [StartCommit(@) EXCEPT !.paid = order[o].paid]]
       ELSE Return(p)
    /\ UNCHANGED <<order, payment, gateway, event, stock, hold, task, refunds, tally, faults>>

\* markFailed: only a payment read as PENDING is saved, and the order is
\* cancelled without refund in either case.
MarkFailed(p) ==
    /\ At(p, "markFailed")
    /\ Continue(p, IF payment[call[p].o] = "pending" THEN "saveFailed" ELSE "readCancel")
    /\ UNCHANGED <<order, payment, gateway, event, stock, hold, task, refunds, tally, faults>>

SaveFailed(p) ==
    /\ At(p, "saveFailed")
    /\ payment' = [payment EXCEPT ![call[p].o] = "failed"]
    /\ Continue(p, "readCancel")
    /\ UNCHANGED <<order, gateway, event, stock, hold, task, refunds, tally, faults>>

\* reconcilePending reads the payments PENDING for 15 minutes: their checkout
\* request has ended.
ReconcileFind(p, o) ==
    /\ MayStart(p, o)
    /\ payment[o] = "pending" /\ ~CheckoutRunning(o)
    /\ call' = [call EXCEPT ![p] = [Idle EXCEPT !.at = "fetch", !.o = o]]
    /\ UNCHANGED <<order, payment, gateway, event, stock, hold, task, refunds, tally, faults>>

\* It asks the gateway: captured, not captured, or no answer this time.
ReconcileFetch(p) ==
    /\ At(p, "fetch")
    /\ \/ Continue(p, IF gateway[call[p].o].captured THEN "readPayment" ELSE "saveFailed")
       \/ Return(p)
    /\ UNCHANGED <<order, payment, gateway, event, stock, hold, task, refunds, tally, faults>>

\* The disposition of the event, guarded on RECEIVED.
FinishEvent(p) ==
    /\ At(p, "finish")
    /\ event' = [event EXCEPT ![call[p].o][call[p].event] = "processed"]
    /\ call' = [call EXCEPT ![p] = Idle]
    /\ UNCHANGED <<order, payment, gateway, stock, hold, task, refunds, tally, faults>>

-----------------------------------------------------------------------------
(* Environment *)

\* The customer pays at the gateway, once checkout has answered; an attempt
\* may fail before one succeeds.  The gateway is told of no cancellation.
CustomerPays(o) ==
    /\ Method[o] = "async" /\ order[o].paid # "none" /\ ~gateway[o].captured
    /\ gateway' = [gateway EXCEPT ![o].captured = TRUE]
    /\ UNCHANGED <<order, payment, event, stock, hold, task, refunds, tally, call, faults>>

AttemptFails(o) ==
    /\ Method[o] = "async" /\ order[o].paid # "none"
    /\ ~gateway[o].captured /\ ~gateway[o].attemptFailed
    /\ gateway' = [gateway EXCEPT ![o].attemptFailed = TRUE]
    /\ UNCHANGED <<order, payment, event, stock, hold, task, refunds, tally, call, faults>>

HoldLapses(o) ==
    /\ HoldsExpire /\ hold[o] = "held"
    /\ hold' = [hold EXCEPT ![o] = "lapsed"]
    /\ UNCHANGED <<order, payment, gateway, event, stock, task, refunds, tally, call, faults>>

\* The sweep marks a lapsed hold EXPIRED; the TTL index deletes it.
HoldSwept(o) ==
    /\ hold[o] = "lapsed"
    /\ \E fate \in {"expired", "gone"} : hold' = [hold EXCEPT ![o] = fate]
    /\ UNCHANGED <<order, payment, gateway, event, stock, task, refunds, tally, call, faults>>

\* A process dies between two awaits.
Crash(p) ==
    /\ ~At(p, "idle") /\ faults < MaxFaults
    /\ faults' = faults + 1
    /\ call' = [call EXCEPT ![p] = Idle]
    /\ UNCHANGED <<order, payment, gateway, event, stock, hold, task, refunds, tally>>

Step(p) ==
    \/ CheckoutPending(p) \/ ChargeCreate(p) \/ ChargeAnswer(p) \/ CheckoutSummary(p)
    \/ CommitItem(p) \/ CommitDone(p) \/ SlotConfirm(p) \/ CreateTask(p) \/ ConfirmOrder(p)
    \/ RestoreItem(p) \/ RestoreDone(p) \/ Release(p) \/ WaiveCash(p)
    \/ RefundInitiate(p) \/ SyncRefund(p) \/ MarkCancelled(p) \/ ReadCancel(p)
    \/ ConfirmSuccessRead(p) \/ ConfirmSuccessSave(p) \/ ConfirmPayment(p)
    \/ MarkFailed(p) \/ SaveFailed(p) \/ ReconcileFetch(p) \/ FinishEvent(p)

Start(p, o) ==
    \/ CheckoutStart(p, o) \/ CancelRequest(p, o) \/ ReconcileFind(p, o)
    \/ \E e \in Events : WebhookArrives(p, o, e)

Environment(o) ==
    \/ CustomerPays(o) \/ AttemptFails(o) \/ HoldLapses(o) \/ HoldSwept(o)

Next ==
    \/ \E p \in Procs : Step(p) \/ Crash(p) \/ \E o \in Orders : Start(p, o)
    \/ \E o \in Orders : Environment(o)

Spec == Init /\ [][Next]_vars

\* A handler that is running reaches its next await.
FairSpec == Spec /\ \A p \in Procs : WF_vars(Step(p))

-----------------------------------------------------------------------------
(* Properties *)

TypeOK ==
    /\ order \in [Orders -> [status : OrderStatus, paid : PaymentStatus]]
    /\ payment \in [Orders -> PaymentStatus]
    /\ gateway \in [Orders -> [captured : BOOLEAN, attemptFailed : BOOLEAN]]
    /\ event \in [Orders -> [Events -> {"none", "received", "processed"}]]
    /\ stock \in [Listings -> Nat]
    /\ hold \in [Orders -> HoldStatus]
    /\ task \in [Orders -> BOOLEAN]
    /\ refunds \in [Orders -> Nat]
    /\ tally \in [Orders -> [units : [Listings -> Nat], confirmed : Nat]]
    /\ call \in [Procs -> Calls]
    /\ faults \in 0 .. MaxFaults

\* A CONFIRMED order has its picking task, has taken its stock, and unless it
\* is a cash order its money has been captured, and no listing is sold below
\* zero: however handlers overlap, crash or repeat, the last write to CONFIRMED
\* comes after all of these.
ConfirmedIsBacked ==
    /\ \A l \in Listings : stock[l] >= 0
    /\ \A o \in Orders : order[o].status = "confirmed" =>
          /\ task[o]
          /\ \A l \in Basket[o] : tally[o].units[l] >= 1
          /\ Method[o] # "cod" => gateway[o].captured

\* An order is confirmed at most once in its life, so its sale is journalled
\* and its vendors credited by one finalization: duplicated webhooks and the
\* reconciliation sweep race on the unique picking task.
ConfirmedOnce == \A o \in Orders : tally[o].confirmed <= 1

\* Once nothing is in flight, stock is what the confirmed orders left of it.
\* restoreForOrder promises to restore "items that were committed".
StockConserved ==
    (\A o \in Orders : Quiet(o)) =>
        \A l \in Listings :
            stock[l] + Cardinality({o \in Orders : order[o].status = "confirmed" /\ l \in Basket[o]})
                = InitialStock

\* Once nothing is in flight for a cancelled order, money captured for it has
\* been given back exactly once, and no order is refunded twice at any time
\* ("no double refunds").
CancelledIsRefunded ==
    \A o \in Orders :
        /\ refunds[o] <= 1
        /\ Quiet(o) /\ order[o].status = "cancelled" /\ gateway[o].captured => refunds[o] = 1

\* A checkout that charges in the request ends CONFIRMED or CANCELLED.
CheckoutSettles ==
    \A o \in Orders : order[o].status = "created" ~> order[o].status \in {"confirmed", "cancelled"}
=============================================================================

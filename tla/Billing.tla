-------------------------------- MODULE Billing --------------------------------
(***************************************************************************)
(* What one store owes the platform: its subscription, an invoice for each *)
(* period, payment through a gateway, and the standing that blocks its     *)
(* checkout while a debt is overdue.  From services/billing.service.js,    *)
(* with invoice_paid of services/ledgerPosting.service.js.                 *)
(*                                                                         *)
(* Periods are numbered by their end.  A price is the plan's own number    *)
(* and no tax is charged: what is told apart is whether a total is zero,   *)
(* and which plan's rate and which adjustment an invoice was given.        *)
(***************************************************************************)
EXTENDS Integers, Sequences, FiniteSets, FiniteSetsExt

CONSTANTS
    Plans,        \* the plans: a plan is its monthly price, and stands for its rate
    Periods,      \* bound on the periods that come to their end
    Procs,        \* requests and jobs in flight
    MaxChanges,   \* bound on changes of the plan
    MaxOrders,    \* bound on gateway orders
    MaxTroubles   \* bound on calls started while another is running, and on
                  \* calls that die half way

ASSUME BillingAssumption ==
    /\ Plans \subseteq Nat /\ Plans # {}
    /\ {Periods, MaxChanges, MaxOrders, MaxTroubles} \subseteq Nat

VARIABLES
    sub,       \* the store's tenantsubscription
    invoices,  \* invoices by period
    orders,    \* external: the orders the gateway made, and whether it took the money
    books,     \* the periods whose invoice_paid journal is posted
    ended,     \* periods that are over
    gateway,   \* billingProvider: orders to be completed, or money at once
    call,      \* per process: the next step and what the handler has read
    calm,      \* ghost: no two calls have overlapped and none has died
    history    \* ghost: what plan changes pro-rated, and counts for the bounds

vars == <<sub, invoices, orders, books, ended, gateway, call, calm, history>>

NoPlan == -1
NoOrder == 0
Paid == -1     \* a payment reference that is no longer a gateway order

Unbilled == [status |-> "none", total |-> 0, due |-> FALSE, ref |-> NoOrder, adjustment |-> 0]
Payable == {"open", "overdue"}

Idle == [at |-> "idle", after |-> "idle", sub |-> <<>>, i |-> 0, ref |-> NoOrder, order |-> NoOrder,
         status |-> "none", todo |-> {}, debt |-> FALSE]

\* ensureSubscription: active, or on a trial that ends within the first period
\* or with it.
Init ==
    /\ \E plan \in Plans, status \in {"trial", "active"}, trialEnds \in {0, 1} :
         /\ status = "active" => trialEnds = 0
         /\ sub = [status |-> status, plan |-> plan, rate |-> plan, nextRate |-> NoPlan,
                   period |-> 1, adjustment |-> 0, trialEnds |-> trialEnds]
    /\ invoices = [i \in 1..Periods |-> Unbilled]
    /\ orders = <<>> /\ books = {} /\ ended = 0
    /\ gateway \in {"orders", "direct"}
    /\ call = [p \in Procs |-> Idle]
    /\ calm = TRUE
    /\ history = [prorated |-> 0, changes |-> 0, troubles |-> 0]

At(p, step) == call[p].at = step
Running == {p \in Procs : ~At(p, "idle")}

Begin(p, record) ==
    /\ At(p, "idle")
    /\ Running # {} => history.troubles < MaxTroubles
    /\ history' = IF Running = {} THEN history ELSE [history EXCEPT !.troubles = @ + 1]
    /\ calm' = (calm /\ Running = {})
    /\ call' = [call EXCEPT ![p] = record]
BeginOn(p, i, step) ==
    Begin(p, [Idle EXCEPT !.at = step, !.i = i, !.status = invoices[i].status, !.ref = invoices[i].ref])

Continue(p, step) == call' = [call EXCEPT ![p].at = step]
Return(p) == call' = [call EXCEPT ![p] = Idle]
Quietly == UNCHANGED <<calm, history>>
Money == <<orders, books>>

-----------------------------------------------------------------------------
(* The calendar *)

PeriodEnds ==
    /\ ended < Periods
    /\ ended' = ended + 1
    /\ UNCHANGED <<sub, invoices, Money, gateway, call, calm, history>>

BecomesDue(i) ==
    /\ invoices[i].status = "open" /\ ~invoices[i].due
    /\ invoices' = [invoices EXCEPT ![i].due = TRUE]
    /\ UNCHANGED <<sub, Money, ended, gateway, call, calm, history>>

\* isInvoiceDelinquent, and the filter of delinquentInvoices.
Delinquent(invoice) ==
    invoice.status = "overdue" \/ (invoice.status = "open" /\ invoice.due)

-----------------------------------------------------------------------------
(* Plan changes *)

ChangeRead(p) ==
    /\ history.changes < MaxChanges
    /\ Begin(p, [Idle EXCEPT !.at = "change", !.sub = sub])
    /\ UNCHANGED <<sub, invoices, Money, ended, gateway>>

\* The new price at once, the new rate with the next period, and the
\* difference for what is left of this one: all of it, nothing, or in between.
\* Only what changes in the copy is saved.
ChangeSave(p) ==
    LET read == call[p].sub IN
    /\ At(p, "change")
    /\ \E plan \in Plans \ {read.plan} :
       \E left \in {0} \cup (IF ended < read.period THEN {1} ELSE {}) :
         LET prorated == (plan - read.plan) * left IN
         /\ sub' = [sub EXCEPT
                !.plan = plan,
                !.nextRate = IF plan # read.rate THEN plan ELSE @,
                !.adjustment = IF prorated # 0 THEN read.adjustment + prorated ELSE @]
         /\ history' = [history EXCEPT !.prorated = @ + prorated, !.changes = @ + 1]
    /\ Return(p)
    /\ UNCHANGED <<invoices, Money, ended, gateway, calm>>

-----------------------------------------------------------------------------
(* The billing cycle *)

CycleRead(p) ==
    /\ sub.period <= ended
    /\ Begin(p, [Idle EXCEPT !.at = "bill", !.sub = sub, !.i = sub.period])
    /\ UNCHANGED <<sub, invoices, Money, ended, gateway>>

Fee(read) == IF read.status = "trial" /\ read.period <= read.trialEnds THEN 0 ELSE read.plan

\* computeInvoiceTotals: a credit beyond the fee is cut off.
TotalOf(read) == Max({0, Fee(read) + read.adjustment})

\* generateInvoice: the unique index lets one insert through, whoever looked
\* first; a total of zero is paid at birth.
CycleBill(p) ==
    LET read == call[p].sub
        i == call[p].i
        total == TotalOf(read)
    IN
    /\ At(p, "bill")
    /\ IF invoices[i].status # "none"
       THEN Continue(p, "advance") /\ UNCHANGED invoices
       ELSE /\ invoices' = [invoices EXCEPT ![i] =
                 [status |-> IF total = 0 THEN "paid" ELSE "open", total |-> total, due |-> FALSE,
                  ref |-> IF total = 0 THEN Paid ELSE NoOrder, adjustment |-> read.adjustment]]
            /\ Continue(p, IF read.adjustment # 0 THEN "clear" ELSE "advance")
    /\ Quietly /\ UNCHANGED <<sub, Money, ended, gateway>>

\* Mutant: the adjustment stays after it was billed.
CycleClearNothing(p) ==
    /\ At(p, "clear")
    /\ Continue(p, "advance")
    /\ Quietly /\ UNCHANGED <<sub, invoices, Money, ended, gateway>>

CycleClear(p) ==
    /\ At(p, "clear")
    /\ sub' = [sub EXCEPT !.adjustment = 0]
    /\ Continue(p, "advance")
    /\ Quietly /\ UNCHANGED <<invoices, Money, ended, gateway>>

\* The period after the one that was read, its rate, and the end of the trial.
CycleAdvance(p) ==
    LET read == call[p].sub IN
    /\ At(p, "advance")
    /\ sub' = [sub EXCEPT
           !.period = read.period + 1,
           !.rate = IF read.nextRate # NoPlan THEN read.nextRate ELSE @,
           !.nextRate = IF read.nextRate # NoPlan THEN NoPlan ELSE @,
           !.status = IF read.status = "trial" /\ read.trialEnds <= ended THEN "active" ELSE @]
    /\ Return(p)
    /\ Quietly /\ UNCHANGED <<invoices, Money, ended, gateway>>

-----------------------------------------------------------------------------
(* Standing *)

\* refreshStanding: the debts, the subscription, and its status if that changes.
FindDebts(p) ==
    /\ At(p, "debts")
    /\ call' = [call EXCEPT ![p].at = "standing",
                            ![p].debt = \E i \in DOMAIN invoices : Delinquent(invoices[i])]
    /\ Quietly /\ UNCHANGED <<sub, invoices, Money, ended, gateway>>

StandingFor(status, debt) ==
    IF debt THEN "pastDue" ELSE IF status = "pastDue" THEN "active" ELSE status

\* What follows when the standing is settled: the journal, the rest of the
\* sweep, or nothing.
Proceed(p) ==
    IF call[p].after = "idle" THEN Return(p) ELSE Continue(p, call[p].after)

FindStanding(p) ==
    /\ At(p, "standing")
    /\ IF StandingFor(sub.status, call[p].debt) = sub.status
       THEN Proceed(p)
       ELSE call' = [call EXCEPT ![p].at = "save", ![p].status = sub.status]
    /\ Quietly /\ UNCHANGED <<sub, invoices, Money, ended, gateway>>

SaveStanding(p) ==
    /\ At(p, "save")
    /\ sub' = [sub EXCEPT !.status = StandingFor(call[p].status, call[p].debt)]
    /\ Proceed(p)
    /\ Quietly /\ UNCHANGED <<invoices, Money, ended, gateway>>

-----------------------------------------------------------------------------
(* The overdue sweep *)

SweepFind(p) ==
    LET found == {i \in DOMAIN invoices : invoices[i].status = "open" /\ invoices[i].due} IN
    /\ Begin(p, [Idle EXCEPT !.at = IF found = {} THEN "heal" ELSE "flag", !.todo = found,
                             !.after = "heal"])
    /\ UNCHANGED <<sub, invoices, Money, ended, gateway>>

\* The filter takes open invoices only; standing is refreshed if one was flagged.
SweepFlag(p) ==
    /\ At(p, "flag")
    /\ \E i \in call[p].todo :
         LET flagged == invoices[i].status = "open" IN
         /\ invoices' = IF flagged THEN [invoices EXCEPT ![i].status = "overdue"] ELSE invoices
         /\ call' = [call EXCEPT ![p].todo = @ \ {i}, ![p].debt = @ \/ flagged,
                ![p].at = CASE call[p].todo # {i} -> "flag"
                            [] call[p].debt \/ flagged -> "debts"
                            [] OTHER -> "heal"]
    /\ Quietly /\ UNCHANGED <<sub, Money, ended, gateway>>

\* The second pass: who holds an overdue invoice, then a status for all of them.
HealFind(p) ==
    /\ At(p, "heal")
    /\ IF \E i \in DOMAIN invoices : invoices[i].status = "overdue"
       THEN Continue(p, "mark") ELSE Return(p)
    /\ Quietly /\ UNCHANGED <<sub, invoices, Money, ended, gateway>>

HealMark(p) ==
    /\ At(p, "mark")
    /\ sub' = [sub EXCEPT !.status = "pastDue"]
    /\ Return(p)
    /\ Quietly /\ UNCHANGED <<invoices, Money, ended, gateway>>

-----------------------------------------------------------------------------
(* Payment *)

PayRead(p, i) ==
    /\ invoices[i].status \in Payable
    /\ Len(orders) + Cardinality({q \in Procs : At(q, "charge")}) < MaxOrders
    /\ BeginOn(p, i, "charge")
    /\ UNCHANGED <<sub, invoices, Money, ended, gateway>>

Order(i, taken) == [invoice |-> i, given |-> taken, taken |-> taken, acked |-> FALSE]

\* charge: Razorpay makes a new order for every request, which takes no money
\* yet; the other providers take it at once or decline.
PayCharge(p) ==
    /\ At(p, "charge")
    /\ \/ /\ gateway = "orders"
          /\ orders' = Append(orders, Order(call[p].i, FALSE))
          /\ call' = [call EXCEPT ![p].at = "park", ![p].order = Len(orders')]
       \/ /\ gateway = "direct"
          /\ orders' = Append(orders, Order(call[p].i, TRUE))
          /\ call' = [call EXCEPT ![p].at = "confirm", ![p].after = "post"]
       \/ gateway = "direct" /\ Return(p) /\ UNCHANGED orders
    /\ Quietly /\ UNCHANGED <<sub, invoices, books, ended, gateway>>

\* The first order is parked on the invoice, and it is the one the owner is given.
PayPark(p) ==
    LET given == IF call[p].ref = NoOrder THEN call[p].order ELSE call[p].ref IN
    /\ At(p, "park")
    /\ invoices' = IF call[p].ref = NoOrder
                   THEN [invoices EXCEPT ![call[p].i].ref = given] ELSE invoices
    /\ orders' = [orders EXCEPT ![given].given = TRUE]
    /\ Return(p)
    /\ Quietly /\ UNCHANGED <<sub, books, ended, gateway>>

\* External: the owner completes the order he was given.
Capture(o) ==
    /\ orders[o].given /\ ~orders[o].taken
    /\ orders' = [orders EXCEPT ![o].taken = TRUE]
    /\ UNCHANGED <<sub, invoices, books, ended, gateway, call, calm, history>>

\* What a delivery of the capture does: it is dealt with when no payable invoice
\* bears the order.  The gateway repeats it until then.
Deliver(p, o, found) ==
    /\ gateway = "orders" /\ orders[o].taken /\ ~orders[o].acked
    /\ IF found = {}
       THEN /\ At(p, "idle")
            /\ orders' = [orders EXCEPT ![o].acked = TRUE]
            /\ UNCHANGED <<call, calm, history>>
       ELSE /\ \E i \in found :
                 Begin(p, [Idle EXCEPT !.at = "confirm", !.i = i, !.order = o, !.after = "post"])
            /\ UNCHANGED orders
    /\ UNCHANGED <<sub, invoices, books, ended, gateway>>

\* Mutant: an overdue invoice is not found.
HookOpenOnly(p, o) ==
    Deliver(p, o, {i \in DOMAIN invoices : invoices[i].ref = o /\ invoices[i].status = "open"})

\* applyBillingWebhook, with the filter that confirmInvoicePayment starts with.
Hook(p, o) ==
    Deliver(p, o, {i \in DOMAIN invoices : invoices[i].ref = o /\ invoices[i].status \in Payable})

\* confirmInvoicePayment: one guarded update wins; who finds the invoice paid
\* refreshes the standing, who finds it void gives up.
Confirm(p) ==
    LET i == call[p].i
        won == invoices[i].status \in Payable
    IN
    /\ At(p, "confirm")
    /\ invoices' = IF won THEN [invoices EXCEPT ![i].status = "paid", ![i].ref = Paid] ELSE invoices
    /\ IF won \/ invoices[i].status = "paid"
       THEN call' = [call EXCEPT ![p].at = "debts", ![p].after = IF won THEN "post" ELSE "idle"]
       ELSE Return(p)
    /\ Quietly /\ UNCHANGED <<sub, Money, ended, gateway>>

\* postInvoicePaid, idempotent on the invoice.
Post(p) ==
    /\ At(p, "post")
    /\ books' = books \cup {call[p].i}
    /\ Return(p)
    /\ Quietly /\ UNCHANGED <<sub, invoices, orders, ended, gateway>>

\* backfillInvoicePayments, of the nightly maintenance.
Backfill(i) ==
    /\ invoices[i].status = "paid" /\ invoices[i].total > 0 /\ i \notin books
    /\ books' = books \cup {i}
    /\ UNCHANGED <<sub, invoices, orders, ended, gateway, call, calm, history>>

VoidRead(p, i) ==
    /\ invoices[i].status \in Payable \cup {"void"}
    /\ BeginOn(p, i, "void")
    /\ UNCHANGED <<sub, invoices, Money, ended, gateway>>

\* Mutant: voided without a look at the standing.
VoidSaveOnly(p) ==
    /\ At(p, "void")
    /\ invoices' = [invoices EXCEPT ![call[p].i].status = "void"]
    /\ Return(p)
    /\ Quietly /\ UNCHANGED <<sub, Money, ended, gateway>>

\* Saved over whatever the invoice has become.
VoidSave(p) ==
    /\ At(p, "void")
    /\ invoices' = IF call[p].status = "void" THEN invoices
                   ELSE [invoices EXCEPT ![call[p].i].status = "void"]
    /\ Continue(p, "debts")
    /\ Quietly /\ UNCHANGED <<sub, Money, ended, gateway>>

-----------------------------------------------------------------------------
Crash(p) ==
    /\ ~At(p, "idle") /\ history.troubles < MaxTroubles
    /\ Return(p)
    /\ calm' = FALSE
    /\ history' = [history EXCEPT !.troubles = @ + 1]
    /\ UNCHANGED <<sub, invoices, Money, ended, gateway>>

Ask(p) ==
    \/ ChangeRead(p) \/ CycleRead(p) \/ SweepFind(p)
    \/ \E i \in DOMAIN invoices : PayRead(p, i) \/ VoidRead(p, i)
    \/ \E o \in DOMAIN orders : Hook(p, o)

Advance(p) ==
    \/ ChangeSave(p) \/ CycleBill(p) \/ CycleClear(p) \/ CycleAdvance(p)
    \/ FindDebts(p) \/ FindStanding(p) \/ SaveStanding(p)
    \/ SweepFlag(p) \/ HealFind(p) \/ HealMark(p)
    \/ PayCharge(p) \/ PayPark(p) \/ Confirm(p) \/ Post(p) \/ VoidSave(p)

Next ==
    \/ PeriodEnds
    \/ \E i \in DOMAIN invoices : BecomesDue(i) \/ Backfill(i)
    \/ \E o \in DOMAIN orders : Capture(o)
    \/ \E p \in Procs : Ask(p) \/ Advance(p) \/ Crash(p)

Spec == Init /\ [][Next]_vars

-----------------------------------------------------------------------------
SubType ==
    [status : {"trial", "active", "pastDue"}, plan : Plans, rate : Plans,
     nextRate : Plans \cup {NoPlan}, period : 1..Periods + 1, adjustment : Int, trialEnds : {0, 1}]
Refs == {Paid} \cup 0..Len(orders)
InvoiceType ==
    [status : {"none", "open", "overdue", "paid", "void"}, total : Nat, due : BOOLEAN,
     ref : Refs, adjustment : Int]
OrderType == [invoice : 1..Periods, given : BOOLEAN, taken : BOOLEAN, acked : BOOLEAN]

Cycling == {"bill", "clear", "advance"}
OnSub == {"change"} \cup Cycling
OnInvoice == Cycling \cup {"charge", "park", "confirm", "post", "void"}
Steps == OnSub \cup OnInvoice \cup {"idle", "debts", "standing", "save", "flag", "heal", "mark"}
CallType ==
    [at : Steps, after : {"idle", "post", "heal"}, sub : SubType \cup {<<>>}, i : 0..Periods,
     ref : Refs, order : 0..Len(orders),
     status : {"none", "open", "overdue", "paid", "void", "trial", "active", "pastDue"},
     todo : SUBSET (1..Periods), debt : BOOLEAN]

TypeOK ==
    /\ sub \in SubType
    /\ invoices \in [1..Periods -> InvoiceType]
    /\ orders \in Seq(OrderType)
    /\ books \subseteq 1..Periods /\ ended \in 0..Periods
    /\ gateway \in {"orders", "direct"}
    /\ call \in [Procs -> CallType]
    /\ \A p \in Procs :
          /\ call[p].at \in OnSub => call[p].sub \in SubType
          /\ call[p].at \in Cycling => call[p].sub.period = call[p].i
          /\ call[p].at \in OnInvoice \/ call[p].after = "post" => call[p].i \in 1..Periods
          /\ call[p].at = "save" => call[p].status \in {"trial", "active", "pastDue"}
    /\ calm \in BOOLEAN
    /\ history \in [prorated : Int, changes : Nat, troubles : Nat]

\* What a change of plan pro-rates is on one invoice or still to be billed.
Adjusted == SumFunction([i \in 1..Periods |-> invoices[i].adjustment])
BilledOnce == calm /\ Running = {} => history.prorated = sub.adjustment + Adjusted

\* Between calls the store is blocked exactly for the debts it has: an overdue
\* invoice has made it past due, and past due it owes something.
StandingMatchesDebt ==
    calm /\ Running = {} =>
        /\ (\E i \in 1..Periods : invoices[i].status = "overdue") => sub.status = "pastDue"
        /\ sub.status = "pastDue" => \E i \in 1..Periods : Delinquent(invoices[i])

\* "the block lifts if and only if ZERO delinquent invoices remain".
BlockLiftsAtZero ==
    Running = {} /\ sub.status = "pastDue" => \E i \in 1..Periods : Delinquent(invoices[i])

\* "last change in a period wins": the rate to come is that of the plan.
LastChangeWins ==
    Running = {} => sub.plan = IF sub.nextRate = NoPlan THEN sub.rate ELSE sub.nextRate

\* The gateway is told that its event is dealt with only when the money it took
\* is on the invoice, or the invoice is void: whatever overlapped or died, as
\* long as the owner was given one order for it.
Sole(o) == \A other \in DOMAIN orders :
    orders[other].given /\ orders[other].invoice = orders[o].invoice => other = o
CapturedIsCredited ==
    \A o \in DOMAIN orders :
        orders[o].acked /\ Sole(o) => invoices[orders[o].invoice].status \in {"paid", "void"}

=============================================================================

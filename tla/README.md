# TLA+ models of the Flower Market backend

Flower Market is a multi-tenant marketplace for flowers: an Express API
(`backend/src`), a background worker of the same code base, and MongoDB. Routes
call controllers, controllers call services, services read and write Mongoose
models. The rules about money, stock and delivery capacity live in the services,
and several of them hold only because of the order of a handful of database
calls. The models here are about those calls.

Contents: the inventory of the system, the plan, the modules and how they
correspond to the code, the checks with their bounds and fairness, the proofs,
where the code and its comments disagree, and what is not modelled.
`PROJECT.json` has the same facts for tools: runs, mutants, the line of code
behind each definition, and the hazards with the properties aimed at them.

## 1. How the code runs, and what an atomic step is

Node executes one handler until it awaits, then another. Each `await` on MongoDB
is one atomic operation on one document (or an `updateMany`), and anything may
happen between two of them: another request, the worker, MongoDB's TTL monitor,
a crash. So every model is written in the same form:

* one variable per collection the component owns, holding the fields its
  decisions read;
* `call` (`charge` in `WalletCharge`), one record per process: the next database call (`at`), and what the
  handler has read so far. A process is a request, a webhook delivery or a job;
* one action per database call. The guard is the call's filter and the checks
  the code makes before it; the primed variables are what it writes;
* Mongoose's `doc.save()` writes the modified paths by `_id`, whatever the stored
  document has become. No schema turns on optimistic concurrency, so a `save()`
  of a scalar after a stale read overwrites. A `save()` that sets a whole array
  compares and increments the version `__v`, `$push` increments it without
  comparing. Those, filters of `updateOne`/`findOneAndUpdate` and unique indexes
  are the only compare-and-sets;
* a crash, where the code can meet one, resets the process and leaves the
  collections as they are.

The unique indexes the models rely on: `LedgerJournal.idempotencyKey`,
`AccountBalance.accountCode`, `DomainEvent.idempotencyKey` and `(tenantId, seq)`,
`AuditChain.tenantId`, `FulfillmentTask.orderId`,
`PaymentWebhookEvent(provider, eventId)`, `Payment.idempotencyKey`,
`Invoice(tenantId, period)`, the tax invoice of `(order, seller)`.
`WalletTransaction` has none, and that matters below.

Where a module is about the order of handlers and not of single calls
(`Aftersales`, `Payout`, `Billing`), a read that nothing can act upon before the
write that follows is merged with that write; every other `await` is a step.

Ghost variables record history the code does not keep: `peak`, `overlap`, `tally`,
`ledger` of `WalletCharge`, `sent`, `detours`, `calm`, `history`, `uneven`, `alone`. No guard reads
them, but for the bounds they count. Two uses matter:

* several services are correct only while no two calls in flight are about the same
  row, order, sale or fact. The models never forbid the overlap. They note that it
  happened (`overlap`, `calm`), and a property is stated as "until then" (names
  ending in `Alone`). One run covers both the races, for the properties that
  survive them, and the undisturbed executions, crashes included, for the rest;
* `Payout` names what it knows to break the books (`detours`, section 6) and checks
  them without it; `SaleBooks` names the refunds (`uneven`) whose notes need not add up,
  and notes on each refund whether its check of what remains met no other reversal under
  way (`alone`).

## 2. Inventory

| Component | State it keeps | Operations | What is hard | What makes it correct |
|---|---|---|---|---|
| Delivery slots (`slot.service`, `adminSlots.service`) | `DeliverySlot.reservedCapacity`, capacities, status; `SlotReservation` rows | reserve, confirm, release, expiry sweep, capacity generation, admin override | counter and rows are written separately; TTL index deletes rows by itself | counter never beyond the capacity; every held row counted; confirmed rows durable |
| Ledger (`ledger.service`, `period.service`) | journals, flattened entries, balance view, fiscal periods | post, reverseProportional, verifyBalances, close/reopen | three writes without a transaction on a standalone mongod; retries; stale repair | posted once; Dr = Cr; no reversal beyond the sale; the view converges |
| Money (`utils/money`) | none | allocatePaise, applyBps | doubles inside integer arithmetic | exact split; largest remainder |
| Order saga (`order`, `payment`, `refund`, `inventory` services) | order status and payment summary, payment, webhook events, stock, task, refunds | checkout, finalize, confirm by webhook or reconciliation, compensate, cancel | handlers of one order overlap on stale documents; duplicated events; hold expiry | confirmed at most once, and backed; stock and money conserved; checkout settles |
| Wallet payment (`wallet`, `payment` services) | versioned balance, transaction rows, claim token on the payment | debit, credit, claim, retry | two writes per debit; claim expires by age | no lost update; one debit per payment |
| Audit log (`domainEvent.service`) | anchor (tail seq and hash), events | append, repairChain, verifyChain | slot reserved before the insert; rollback; retry limit | no fork; chain verifies; nothing lost |
| Delivery (`order.service` riderFlow, `fulfillment.service`) | order status and retries, assignment, rider availability | dispatch, assign, legs, deliver, fail, accept/reject, sweep | two orders take one rider; a failure races a cancellation | delivered only when the cash is settled; one live assignment per order |
| Returns (`returns.service`, `refundCalculator`) | return rows, refunds, returned units | request, pickup, quality control, refund | duplicate QC; a refund the gateway refuses | returned = refunded; rows, payment and order agree |
| Cash on delivery (`payment.service`) | collection and deposit of cash | collect, deposit, waive | collection against cancellation | the receivable is cleared exactly once |
| Vendor payouts (`payout.service`) | line items, adjustments, batches, journals; the provider's state | accrue, make eligible, hold, refund, compute, approve, submit, webhooks, reconcile, cancel, reverse, carry | lost answers, late webhooks, carries over cycles, stale copies of the batch | two approvals; one instruction; books = lines; nothing ambiguous for ever |
| The books of a sale (`pricingPolicy`, `ledgerPosting`, `payout`, `taxDocument`, `refundCalculator`, `gst`) | charge, journal lines, payout lines, invoices, credit notes | compute, post, invoice, credit, refund | five places round the same rupees; documents issued by overlapping requests | each sum adds up again |
| Tenant billing (`billing.service`, `billingProvider`) | subscription, invoices | plan change, billing cycle, standing, sweep, pay, webhook, void | webhook against sweep and void; standing from a stale count | a pro-rata billed once; blocked exactly while in debt; money taken is credited |
| Catalog events, queue, dead letters | outbox rows, attempts | claim, retry, dead-letter, replay | crash after the effect | delivered at least once, applied once |
| Worker scheduler (`workers/scheduler`) | `ScheduledJob.nextRunAt` | tick, claim by compare-and-set, run | two workers; a job longer than its interval | a due job is claimed once |
| Inventory counters | `qtyOnHand`, `qtyReserved`, listing stock | commit, restore, adjust, denormalise | copy in a separate write | available = on hand - reserved |
| Cart, catalog, search, stores, auth, middleware, analytics, notifications, exports, frontend | mostly data | CRUD, reads | little contention | outside the money and stock invariants |

Interaction: `checkout` takes a slot hold made earlier, creates the order, calls
`charge`, then finalizes: commit stock, confirm the slot, create the picking task,
set CONFIRMED, journal the sale and accrue a payout line per vendor item. A payment
that is not final in the request is confirmed by a gateway event or by the
reconciliation job (every five minutes, payments pending for more than fifteen).
A packed order is dispatched, delivered or failed; cash is collected on the way;
delivery starts the return window and, later, payout eligibility. A refund reverses
slices of the sale journal, cancels or offsets the payout line and is credited by
tax notes. Payouts drain what the sales credited to the vendor. The platform bills
each store per period, and a store past due cannot check out. Each money event posts
a journal and appends a domain event under a deterministic key; the nightly
maintenance repairs the balance view and the audit chain, and sweeps ambiguous
payouts and missing invoice journals.

## 3. Modules

Definitions carry the names of the code where TLA+ allows it, and `PROJECT.json`
`map` gives the lines of each one. Each `MC<Module>` extends its module and gives
the constants of its `.cfg` files.

| Module | Models | Runs |
|---|---|---|
| `SlotReservation` | one slot: reserve, confirm, release, sweep, TTL deletion, forecast and admin capacity changes | `slot_race` |
| `Money` | `allocatePaise` and `applyBps`, with the doubles the sort compares; `FairlySplit` is what they promise | in `sale_books` |
| `Ledger` (extends `Money`) | post, reverseProportional, verifyBalances with repair, fiscal period | `ledger` |
| `OrderSaga` | checkout to CONFIRMED or CANCELLED, webhooks, reconciliation, refunds | `saga_race`, `saga_checkout` |
| `WalletCharge` | the versioned wallet, the claimed and retried charge | `wallet_race` |
| `AuditChain` | append, slot reservation, rollback, repairChain | `audit` |
| `HashChain` | what the audit log promises, implemented by `AuditChain` | `audit` |
| `Payout` | one vendor: eligibility, holds, refunds, cycles with carries, approval, submission, webhooks, reconciliation, reversal | `payout_books`, `payout_race` |
| `Aftersales` | one order from packed to its end: delivery, cash, cancellation, return, refund | `aftersales` |
| `SaleBooks` (extends `Money`) | the rupees of one order in charge, journal, payout lines, invoices, refunds, credit notes | `sale_books`, `sale_books_inclusive` |
| `Billing` | one store's subscription, invoices, standing and payments | `billing` |
| `SlotReservationProofs`, `LedgerProofs`, `OrderSagaProofs`, `AuditChainProofs`, `PayoutProofs`, `AftersalesProofs`, `PaymentProofs` | the theorems of section 5, each about the module it is named after; `LedgerProofs` also about `Money` and `SaleBooks`, `PaymentProofs` about `Billing` and `WalletCharge` | |
| `SumProofs` | lemmas about sums of integers over finite sets, which four of them (`Ledger`, `Aftersales`, `Payout`, `Payment`) use | |

The modules are components of one system cut where a call crosses from one service
to another: the slot calls and the wallet charge of `OrderSaga` are one step each,
because their interior is `SlotReservation` and `WalletCharge`; the journals of
`Aftersales`, `Payout` and `Billing` are idempotent facts, because `Ledger` checks
that a key is posted once; `Aftersales` starts where `OrderSaga` ends; the refund
rows of `Aftersales` are refunds with amounts in `SaleBooks`.

**SlotReservation.** `slot` is the document, `resv` the rows; a row is `held`,
`confirmed`, `released`, `expired`, `none` (never created) or `gone` (deleted by
TTL), and `late` says that it is past `expiresAt`. `reserve` is
`ReserveFindHold`, `ReserveExpireHold`, `ReserveFreeHold`, `ReserveGate` (the
guarded `$inc`) and `ReserveCreate`; the others follow their service functions
in the same way. The sweep reads its rows once and saves them one at a time.
`Touch` marks the rows a call has read and records an overlap with another call.

**Ledger.** Posting to a replica set is one step, to a standalone mongod three
(`PostCreate`, `PostInsertEntries`, `PostApplyBalances`); `replicaSet` is chosen
initially, as the code probes it once. A reversal reads what remains of its sale
(`ReverseFind`), allocates over the sale's credits with `AllocatePaise`, posts and
finally increments `reversedPaise` (`PostReturn`). Lines are kept by position, 0 for the
one of the counter account. A repair aggregates, compares and
rewrites in separate calls. A retry does not continue an unfinished post: the code
finds the journal and returns, and so does `PostFind`.

**Money.** `AllocatePaise` is the code's algorithm: floors, then leftover paise by
descending fraction, where the fraction is a difference of doubles. `Fraction`
computes the binary digits those doubles have, by long division and round-half-even.
`FairlySplit` is the reference, the largest-remainder method. It leaves open who wins
among equal remainders, because the code does: rounding may order them either way.

**OrderSaga.** An order takes one unit of each listing in its basket and costs one
unit of money. `path` says which sequence of compensations a handler is in:
`decline` (charge refused), `finalize` (stock short, compensation B) or `cancel`
(`cancelOrder`). The gateway is external: it captures once, may report a failed
attempt before, and delivers each event any number of times until it is processed.
An `authorized` and a `captured` event are distinct events that the code treats alike.

**WalletCharge.** One wallet, several payments, credits beside them. `ledger` is the
ghost count of balance writes. A claim becomes old at any moment, since five seconds
of wall clock bound nothing; the two-second wait ends at any moment. A crash may hit
between any two calls, the one between the balance and its row included.

**AuditChain and HashChain.** A hash is modelled by the sequence of what it covers,
which is what a collision-free hash gives. Event keys are facts; seq 0 is `null`. The
sparse compound unique index has an entry for a null seq, because `tenantId` is
always present. That is in `SeqTaken`. An anchor may or may not exist initially,
and without one the upsert matches the tenant whatever its tail. `HashChain` keeps
only the set of links; `Chain == INSTANCE HashChain WITH links <- Linked` maps the
anchored events to it, and `Chain!Spec` is a property of `audit`.

**Payout.** Lines and adjustments are worth one unit, so carries, openings and
clawbacks are small integers. Every handler works on its `Copy` of a batch and saves
what it changed; `SubmitIds` is the save of the whole array of journal ids, which
compares the version and decides who instructs the provider. The provider moves the
money, fails or bounces it in its own time; its answer may be lost, and webhooks come
in any number and order. `Owed` and `Payable` are the two sides that
`reconcileVendor` compares. `HoldLine` takes a line in any state, as `holdLines` given ids
does, and `ReleaseLine` makes whatever is held eligible. Two of those holds are detours: `hold`
of a line that is batched or paid, and `revived` of one that a refund had reversed.

**Aftersales.** `rider` functions keep their copy of the order from the first read to
the last save. The assignment is created, goes through its legs or is forced to
arrive; a cash payment is claimed by compare-and-set; a refund creates its row, moves
the money, saves the row and then updates payment and order (`SyncPayment`,
`SyncOrder`). Read and save are merged in `Sync` and `ForceArrived`, which nothing in
between can affect but the field they write.

**SaleBooks.** `SaleInit` computes the order the way the checkout does, under both
meanings of a price. The journal credits, the payout lines, the invoices with their
round-off and fee line, the refund per unit or by amount, the proportional reversal
and the credit notes are then the code's own roundings of those numbers. Where the
code multiplies rupee floats, a product that falls on half a paisa may round either
way. A refund moves its money first; its reversal is three calls, the check against
`reversedPaise` (`RefundFind`), the journal (`RefundPost`) and the `$inc` (`RefundCount`),
and since any of them may never come, refunds overlap and die between them. Requests that
write documents (`task`) overlap and may be cut short between documents too. The checkout charges
the rate of the active policy. An invoice keeps that tax, but the rate and the cess it states
are those of the policy dated at the supply: `IssueFind` takes them from any of `Tables`,
since `upsertPolicy` can put a row at any date.
`LedgerProofs` extends both `Ledger` and `SaleBooks`, so the names here are its own:
`SaleNext`, `NoTask`, `Reversals` and so on.

**Billing.** Periods are numbers, a plan is its price and stands for its commission
rate. `ChangeSave` saves over the copy read before; the cycle is four steps
(`CycleRead`, `CycleBill`, `CycleClear`, `CycleAdvance`); the standing three
(`FindDebts`, `FindStanding`, `SaveStanding`), followed by what the caller has left
to do (`Proceed`). The gateway either makes orders that the owner completes later,
with an event repeated until a delivery has nothing to confirm, or takes the money
at once. GST and the commission on sales would only scale a total: what matters is
whether it is zero, and which adjustment it includes.

## 4. Checks

| Run | Properties | Bounds |
|---|---|---|
| `slot_race` | `ReservedWithinPeak`, `NoOversellAlone`, `UnitsCovered`, `ConfirmedDurable` | 2 customers, 2 calls in flight, 3 rows, capacities 1 and 2 |
| `ledger` | `PostedOnce`, `TrialBalance`, `NeverOverReversedAlone`, `ViewConverges` | a balanced and an unbalanced sale, 2 reversals of 2 of 3 paise, 2 calls of which one may be the repair, 1 crash, a closing period, both deployments |
| `saga_race` | `ConfirmedIsBacked`, `ConfirmedOnce` | one asynchronous order, 2 handlers, 2 capture events and a failure event, 1 fault, holds expire |
| `saga_checkout` | `StockConserved`, `CancelledIsRefunded`, `CheckoutSettles` | two prepaid orders of both listings and a cash order of one, one unit of each, 2 handlers, never two of one order, no fault, no hold expiry |
| `wallet_race` | `NoLostUpdate`, `SuccessWasDebited`, `DebitedOnceAlone` | 2 payments, 2 processes, 3 calls per payment, 1 credit, 1 crash, balance 1 |
| `audit` | `ChainVerifies`, `ImplementsHashChain`, `UnanchoredFolded` | 3 facts, 2 processes, 1 compare-and-set attempt, 1 overlap of one fact or crash, with and without an anchor |
| `payout_books` | `BooksMatchLines`, `NeverOverpaidAlone` | 2 lines and their offsets, 1 adjustment, 3 cycles, 1 process, minimum payout 2 (a single unit is carried, two are paid, and the bank may reverse them), 1 failure |
| `payout_race` | `DualApproval`, `InstructedOnce`, `StateMatchesProvider`, `AmbiguousResolved` | one batch of one adjustment above the dual threshold, 2 approvers, 2 processes, 2 overlaps, 1 crash, 2 failures |
| `aftersales` | `DeliveredIsSettled`, `ReceivableCleared`, `CancelledIsReturned`, `RefundsAgree` | cash or prepaid, 2 units, 2 retries, 2 failed deliveries, 2 processes, 1 overlap, 1 crash, 1 refused refund |
| `sale_books` | `SplitsAreFair`, `SaleBalances`, `LinesMatchCreditsExclusive`, `ReversedInProportion`, `ReturnsWithinRounding`, `InvoicesCoverSale`, `NotesMatchRefunds`, `TaxTakenBack` | 3 baskets (a vendor beside the store, a vendor alone, a line with cess), coupon 20, fee 30, both meanings of a price, commission 15%, refunds of units or of 150, 2 refunds, 2 requests, 1 cut short, invoices at the rates charged or with two of them changed |
| `sale_books_inclusive` | counterexample to `LinesMatchCredits` | as `sale_books` |
| `billing` | `BilledOnce`, `StandingMatchesDebt`, `CapturedIsCredited` | 2 periods, 2 plans, 1 change, 2 gateway orders, 2 processes, 1 overlap or crash |

What they show, in a sentence each, is in `PROJECT.json`.

Why the bounds are enough to meet the hard cases: every race the code can lose
takes two calls, so two processes; a third row, fact or cycle lets a third party
build on what the loser left behind (a slot reserved after a unit was given back
twice; an event chained to a seq about to be rolled back; a carry that was carried
again). Two paise of three make two reversals exceed a sale. One compare-and-set
attempt makes contention reach the limit at once. In `sale_books` prices do not
divide their discount, tax or commission, and totals lie on both sides of the middle
of a rupee; amounts near 2^26 paise, where the doubles could put two unequal
remainders in the wrong order, are not reached. All caps on counters are the
constants named `Max...`, `CasAttempts`, `Periods` and `Cycles`; between them the
runs fire every action.

`payout_books` has one process: the books are compared between calls only, and
overlapping calls are `payout_race`. Its properties speak of executions without a detour
(`BooksMatchLines`) or with none but `revived` (`NeverOverpaidAlone`), and the constraint
`Straight` explores no state behind another one. It cuts more than that: `revived` comes
without adjustments, a third cycle has either a line or the adjustment missing, and one sale line at a time is held, to be refunded or released before
anything else happens to the vendor. Longer holds are left to the proofs, which have no such
constraint. `sale_books` has the constraint `Apart`: reversals and documents of
a sale are explored one or the other, as neither reads what the other writes and no
property relates them; the proofs are about any mixture. `saga_checkout` excludes overlapping handlers of one order (`OnePerOrder`),
lapsing holds and faults; section 6 lists what happens to its properties without that.
Deadlock is not checked: bounded numbers of calls, rows and crashes make each
instance come to rest, as the service does when no request arrives. Symmetry is used
in runs without liveness only, over sets whose members no constant tells apart.

Fairness. `WF` of a process's own steps (`Step`, `Proceed`, `Advance` of `Payout`):
once a handler is running, Node resumes it when its database call returns, and
neither a queue nor a lock of the application can hold it. New requests are under no
fairness: nobody has to call. The nightly repairs (`RepairAggregate`, `RepairFind`)
have strong fairness: the scheduler starts them again and again on a process that is
idle now and then; `SF` and not `WF` because in the models a job shares its process
with requests. The payout sweep is a step of the worker's maintenance of its own and
needs `WF` only.

Every property of a passing run has a mutant in the module, a definition such as
`ReserveExpireHoldUnsaved` just before the one it replaces: a plausible slip in the
code (a dropped filter, an off-by-one, a missing unique index) that breaks the
property in the same run. Each module but `SaleBooks` also defines its `TypeOK`, and section
5 proves it; the state of `SaleBooks` is typed by its inductive invariant, which is there.

## 5. Proofs

The theorems hold for every value of the constants that the module's `ASSUME` admits: any
number of customers, payments, orders, lines, facts, processes, retries and failures. The
assumptions are that sets of rows, payments, keys, lines, adjustments and cycles are
finite, as collections are; that bounds and amounts are natural numbers; that a
reversal refers to a sale; and that a basket has a line, each line a unit, and a
commission is no more than the price.

| Module | Theorem | Property |
|---|---|---|
| `SlotReservationProofs` | `SlotGateSafe`, `SlotUnitsCovered`, `SlotNeverOversold`, `SlotConfirmedDurable` | `ReservedWithinPeak`, `UnitsCovered`, `NoOversellAlone`, `ConfirmedDurable` (an action property) |
| `LedgerProofs` | `LedgerPostedOnce`, `LedgerTrialBalance`, `LedgerNeverOverReversed` | `PostedOnce`, `TrialBalance`, `NeverOverReversedAlone` |
| `LedgerProofs` | `AllocateFair`: `AllocatePaise` is a `FairlySplit` | |
| `LedgerProofs` | `SaleSplitsAreFair`, `SaleJournalBalances`, `SaleLinesMatchCredits`, `SaleReversedInProportion`, `SaleReturnsWithinRounding`, `SaleInvoicesCoverSale`, `SaleNotesMatchRefunds`, `SaleTaxTakenBack` | `SplitsAreFair`, `SaleBalances`, `LinesMatchCreditsExclusive`, `ReversedInProportion`, `ReturnsWithinRounding`, `InvoicesCoverSale`, `NotesMatchRefunds`, `TaxTakenBack` |
| `OrderSagaProofs` | `SagaConfirmedIsBacked`, `SagaConfirmedOnce`; under `Undisturbed`: `SagaStockConserved`, `SagaCancelledIsRefunded` | `ConfirmedIsBacked`, `ConfirmedOnce`; `StockConserved`, `CancelledIsRefunded` |
| `PaymentProofs` | `BillingBilledOnce`, `BillingStandingMatchesDebt`, `BillingCapturedIsCredited` | `BilledOnce`, `StandingMatchesDebt`, `CapturedIsCredited` |
| `PaymentProofs` | `WalletNoLostUpdate`, `WalletSuccessWasDebited`, `WalletDebitedOnce` | `NoLostUpdate`, `SuccessWasDebited`, `DebitedOnceAlone` |
| `AuditChainProofs` | `AuditImplementsHashChain`, `AuditChainVerifies` | `ImplementsHashChain` (the refinement), `ChainVerifies` |
| `PayoutProofs` | `PayoutDualApproval`, `PayoutInstructedOnce`, `PayoutStateMatchesProvider` | `DualApproval`, `InstructedOnce`, `StateMatchesProvider` |
| `PayoutProofs` | `PayoutBooksMatchLines`, `PayoutNeverOverpaid` | `BooksMatchLines`, `NeverOverpaidAlone` |
| `AftersalesProofs` | `AftersalesDeliveredIsSettled`, `AftersalesReceivableCleared`, `AftersalesCancelledIsReturned`, `AftersalesRefundsAgree` | the property of the same name |

The types are proved too: in the theorems `...TypeSafe`, in `BillingTypeOK`, for the
wallet as part of `BalanceInv`, and for the books of a sale in `SaleBooksInvariant`. All proofs have one shape: an
inductive invariant, a lemma that `Init` gives it, one lemma or step per action that
`Next` keeps it, and theorems that read properties off it. A property about calls that do
not overlap is proved by an invariant of the form "unless an overlap was noted, ...": an
action that notes one has nothing more to show, and no action takes the note back.

**Slots.** `IInv` is `TypeOK`, `ReservedWithinPeak` and `Effective(slot) <= peak`; the last
conjunct is needed because the gate compares with the capacity in force while the property
is about the largest one there ever was. It is inductive whatever overlaps. `UnitsCovered`
is not: that the counter covers what is owed depends on the call that will give a unit back
being the only one about its row, and on the row still having the status that the call
read. `RowsInv` says that, `UnitsInv` counts, and both hold until an overlap:
`XInv == IInv /\ (~overlap => RowsInv /\ UnitsInv)`. That nothing is oversold follows, as
the rows are covered by the counter and the counter is within the peak.

**Ledger.** `LedgerInv` says what a call knows at each step (`CallOk`: the journal it is
writing exists, its lines balance, a reversal's sale is posted), that a journal balances
and has its lines at most once (`JournalOk`), and that no two calls insert the lines of one
journal (`Inserters`): only the call whose insert of the journal succeeded goes on to
insert entries, the others find it and return. `TrialBalance` adds up by account, balanced
journals by journal; exchanging the two sums is `SumSwap`. Until an overlap or a crash,
`Alone` says that `reversedPaise` of a sale is what was given back, but for the reversal
under way.

**Order saga.** `SagaInv` holds whatever overlaps, repeats or dies. `FreshInv` says that until
the charge is answered nobody else can have acted on a capture, only a cancellation that
saw no money; `EvidenceInv` what a handler relies on at each step, its `done` units and the
capture being facts that no step takes back (`Grows`); `OnceInv` that the picking task is
the lock: one handler creates it, and nobody confirms without having created it.
`StockConserved` and `CancelledIsRefunded` are proved under `Undisturbed`: checkouts charge
in the request, no faults, no lapsing holds, one handler per order at a time, finitely many
orders. Those are the conditions of `saga_checkout`; without the first four the
code breaks the properties in the ways section 6 lists. Neither is inductive. `CalmInv` says for
each step of the only handler of an order what it has left behind (`Stage`), what is true
of an order without a handler (`Settled`), and that a listing's stock and the orders that
have a unit of it at the moment, handlers half way through included (`Taken`), add up to the
initial stock.

**Wallet.** `BalanceInv`: whoever read the version that the wallet still has, read its balance,
so the compare-and-set applies a delta to the balance it meant. `AloneInv`: a payment whose
calls never overlapped has one call at most, which knows by its step whether it has debited
(`KnowsDebit`). `PaymentProofs` extends both `Billing` and `WalletCharge`, so the names in
`WalletCharge` are its own: `charge` for `call`, `WalletSpec` for `Spec`, and so on.

**Billing.** Three things that the types do not say are needed for them: what may name a
gateway order grows with their number; a call that works on an invoice has a period that
exists; one that will save a subscription has a whole copy of it (`Fit`). `BillingInv` says,
as long as calls come one at a time and none dies, what the one in flight knows (`Knows`): the
adjustments of all invoices and the one on the subscription add up to what plan changes
prorated, except between the save of the invoice and the reset, where the invoices alone do
(`Balanced`); and the standing fits the debts except between a change of the debts and the
save that follows it (`Unsettled`). `CapturedIsCredited` holds whatever overlaps or dies.
`CreditInv` explains why: an invoice still to be paid bears no order or one its owner was
given for it, and so does the copy of a request to pay; the one order an owner was ever
given (`Sole`) stays parked on its invoice until that is paid or void, from which no step
comes back. So a capture that finds the invoice bearing another order is of an order that
was not the only one.

**Audit log.** `LinkInv` gives the refinement, step by step: every step of `AuditChain` is a
step of `HashChain` or leaves the links alone. Two events with one predecessor would be at
one depth, and the unique index on `(tenantId, seq)` refuses that, so there is no fork
however slots are reserved, rolled back and lost. `TailInv` adds, for executions without
overlaps of one fact and without crashes, that every position up to the tail is owned by an
event or by the call about to insert it; `ChainVerifies` needs that ownership between calls.

**Payouts.** `PayoutInv` says what a handler's copy of the batch has in common with the stored
one at each step, that an approver still pushing has not approved before and that a batch
past the approval stage has its approvals, and what a handler was told of the money. Unless
a belated approval reopened a batch, `Counted` bounds instructions, sent and about to be
sent, by the failures recorded: of all submissions under way only those whose copy has the
current version of the journal ids can still win.

`BooksInv` is about calls that come one at a time and take none of the `detours` but
`revived`. It has two layers. `OrderAt` says what each batch looks like (`CycleOk`: its face, its lines, its
journal) and what the only call in flight knows at each step (`StepOk`). `BooksAt` counts:
`Gap` is what left the lines less what entered balances and journals, and `GapOf` says for
each step of a handler by how much they differ there, which is nothing when no call runs.
The gap is a sum of one `Share` per batch, so a step is examined at the batch it writes,
and at the two it writes when a carry is absorbed. A refunded line that comes back moves no
gap: it left neither a batch nor a journal. But the books gave its sale back, and the lines
offer it again, so `BooksMatchLines` is claimed, and `OwedIsPayable` shows it, only where no
line came back; there the refunded lines are those whose state says so. That a vendor is never paid too much
does not follow from the books alone: a batch with a clawback pays less, and the
balance below zero may be carried into the next. `Borrowings <= Cardinality(Backing) + Slack`
says that what the balances carried owe is backed by negative lines that went into them,
each counted once, and with it `Outgoing <= Granted` is inductive, returned lines included:
each line is still paid once. Outgoing money
includes what the provider has not moved yet, as a failure is known only afterwards.

**Delivery, cash and returns.** `SettledOk` holds whatever overlaps: no step that follows the
cash finds it still awaited. `CalmOk` holds while calls come one at a time: between calls
the order is `Open`, `Gone` (cancelled) or `Back` (returned), each with what payment, refund
rows, books and order then agree upon, and `Stage` says for each step of the running call
how far they are from agreeing.

**allocatePaise.** `AllocatePaise` gives a paisa to the slots that fewer than `left`
others come before. If `Before` orders the slots strictly, the ranks number them
(`RanksNumber`), so exactly `left` slots get one, and the parts add up; and a slot is
given one only after those with larger remainders. That `Before` is a strict order rests
on `Fraction` being typed (`RemaindersTyped`, `DivisionExists`: long division is a
recursive function, whose values are fixed by a smallest counterexample) and on digits
being compared lexicographically (`ExceedsOrders`). Which of two equal remainders goes
first plays no part in it. The theorem is about all integers, and the model lets the
doubles order unequal remainders rightly; the code's do while amount times weight is below
2^52.

**The books of a sale.** `SaleBooksInv` says what everything is made of: the order is one the
checkout computes, its journal is empty or what the order credits, a refund's debits are
absent or the journal's shares of it, a document is an invoice of its seller or a note of its
invoice, and a request has sellers or shares of invoices left to write. It holds whatever
overlaps, and `SplitsAreFair`, `SaleBalances`, `LinesMatchCreditsExclusive` and
`TaxTakenBack` follow from it by arithmetic that no step disturbs:
the rounding credit is zero because both meanings of a price leave the total to the other
credits (`TotalIsWorth`); the tax of a note is within half a paisa of its part, so the notes
of an invoice are within half a paisa each, if the invoice's own tax is what its rate takes
out of its price. That is a condition of `TaxTakenBack` and no lemma: whether it is so
depends on the policies (section 6).
`ReversedInProportion` has a part of the invariant to itself, `SlicesMade`. One more slice
moves each account by less than a paisa from its part (`ReversalArith`), whoever else is
reversing. That slices whose check met no other stay within the sale (`SoloTotal`, posted or
not yet) is argued at the check: if no refund is between its check and its `$inc`, every
refund that passed the check was counted, those that were `alone` among them, so
`reversedPaise` bounds `SoloTotal` and the check leaves room for the new one. A refund that
died between the two is under way for good, and none is `alone` after it. The others need more. `ReturnsMade` says that
the goods refunded so far are the returned units at prices within the rounding of one
each. `IssuesMade` says that the sellers invoiced are the first `m`, once each, and that of
the requests under way only one goes on from there: the others still have the first seller
before them, whose invoice the unique index refuses. That the invoices add up to the sale is
then `InvoicesSum`, a sum over sellers of sums over their lines, exchanged by `SumSwap`.
`CreditsMade` says of a refund that one request credits: what its notes are for and what the
request has left are the refund (`CreditedBy`), and no part exceeds its invoice, since a
fair split of no more than there is takes no more than each has (`AllocateWithin`).

**Sums.** The library's induction theorems take an operator as a parameter and cannot be
used, so `SumProofs` proves its lemmas by a smallest counterexample: a subset of a finite
set for which the lemma fails and no smaller one does.

Proving changed three statements. `StateMatchesProvider` said unconditionally that
a failed batch has no money moving; with three processes and overlaps TLC refutes that (a
belated approval reopens a batch that is sent again while the failure of its first
submission is still to be recorded), hence its condition. `RefundsAgree` had an exception
that was not needed. `NotesMatchRefunds` excepted refunds beyond the invoices there are once
the notes are written. That is not enough: with three sellers a refund divided over the two
invoices there were, and beyond them, loses the note that its invoice refuses, and no longer
exceeds the invoices when the third is written. `uneven` compares with the invoices
that the request found.

Only model-checked: liveness (`ViewConverges`, `CheckoutSettles`, `UnanchoredFolded`,
`AmbiguousResolved`), which is beyond TLAPS. Beside liveness and the violation of
section 6, no property of a run is left without a theorem.

## 6. Where the code and its comments disagree

One has a run with a counterexample, since it concerns the default configuration:

* `sale_books_inclusive`: `payout.service.js:1485` says the ledger view of a payout line
  is exactly what the sale journal credited to the vendor for it. With
  `config.tax.pricesInclusive` (the default) `computeLineFinancials` takes the shelf
  price for a price without tax and adds the tax again, while the journal took it out.
  The two agree where prices exclude tax (`LinesMatchCreditsExclusive`).

Definitions without a run, which TLC finds violated in the instance of the module:

* `NoOversell` (`slot.service.js:13`, "can never oversell"): a lapsed hold read by two
  calls (its customer's next reserve, a release, the sweep) gives its unit back twice,
  and the gate admits one customer too many.
* `CrashWindowClosed` (`ledger.service.js:39`): the repair rebuilds balances from entries.
  A journal whose entries were never inserted stays without them, since a retry finds
  the journal and returns.
* `DebitedOnce` (`payment.service.js:413`): a retry that looked for the debit's row before
  it was written and for the claim after it was cleared takes the claim and debits again.
* `CancelledAfterMaxRetries` (`order.service.js:682`): at the last attempt
  `cancelOrder` is asked to cancel an order whose status it refuses.
* `DeliveredIsCollected` (`order.service.js:443`): a cancellation that waives the cash
  between the read and the claim of the collection lets the delivery complete unpaid.
* `NoDoubleRefund` (`refund.service.js:31`): no caller passes an idempotency key, and a
  fresh one is made up per call.
* `AccountNeverOverdrawn` (`ledger.service.js:380`): two partial reversals round up the same
  account.
* `NeverOverReversed`, of `Ledger` and of `SaleBooks` (`ledger.service.js:396`): two reversals
  that overlap, or one that died before its `$inc` (`:449`) and one after it, give back more
  than the sale, hence `NeverOverReversedAlone` and the `alone` of `ReversedInProportion`.
* `BlockLiftsAtZero` (`docs/billing-money-flows.md:193`, the block lifts if and only if no
  delinquent invoice remains): a call that dies after voiding or paying and before the
  standing, or the self-heal of the sweep after a payment, leaves a store blocked that
  owes nothing, and no job looks for it. The self-heal also writes the status without
  `refreshStanding`, said to be the only writer (`billing.service.js:532`).
* `LastChangeWins` (`billing.service.js:254`): changing to another plan and back leaves the
  other plan's rate pending, since the change back finds its rate already in force.
* `RefundedStaysOut` (`payout.service.js:361`, a line refunded before it was paid flips to
  REVERSED and never enters a batch): `holdLines` given line ids (`:433`) has no filter on
  their state and `releaseLines` (`:446`) makes every held line ELIGIBLE, so such a line comes
  back, is put into the next batch and paid, though its sale was reversed. One line and one
  cycle are enough to see it.
* `TaxReversedInProportion` (`taxDocument.service.js:517`, the tax reversed is a proportional
  slice of the original invoice's lines): the checkout charges by the active policy
  (`pricingPolicy.service.js:66`); the invoice keeps that tax and states the rate of the
  policy dated at the supply (`taxDocument.service.js:259`, `:333`), and the note takes its
  tax out of the share at the stated rate (`:579`). A policy saved for a future date
  (`tax.service.js:113`) is active at once and dated later, so the two differ. Where they
  agree, prices contain the tax and the line has no cess, the slice is proportional
  (`TaxTakenBack`).

Met while modelling, in the behaviours of the models or beside them:

Slots, ledger, orders, wallet, audit log
* The sweep saves EXPIRED by `_id` on a row confirmed after it was read
  (`slot.service.js:290`). A hold deleted by the TTL index is never subtracted from the
  counter (`slotReservation.model.js:47`): capacity is lost, never oversold. An override
  or a lower forecast may put the capacity below what is reserved; hence `peak`.
* `allocatePaise` (`money.js:124`) may give the paisa of two equal remainders to the later
  line, although ties are said to go by index: `allocatePaise(6, [4, 4, 1])`.
* A repair that aggregated before a posting rewrites newer balances with older totals
  until the next repair. The fiscal period can close between its check and the insert.
* Cancelling a PAYMENT_PENDING order restores stock that was not committed yet
  (`order.service.js:723`); two capture events can commit stock twice before either
  reaches the unique task; a confirmation overlapping a cancellation saves CONFIRMED over
  CANCELLED; two cancellations refund twice under fresh keys (`refund.service.js:48`).
* The order's payment summary stays `pending` after an asynchronous capture
  (`order.service.js:256`), so a later cancellation refunds nothing. Compensation B
  refunds a cash order that paid nothing (`order.service.js:165`). A hold that lapses
  during the charge makes `slotService.confirm` throw after stock was committed.
* A wallet process that dies between balance and row leaves a claim that is taken over
  after five seconds and debited again (`payment.service.js:279`). The retry of a FAILED
  wallet payment never returns (`payment.service.js:361`).
* A duplicate append cannot roll back a slot others have built on, and two first appends of
  a tenant set the tail back (`domainEvent.service.js:93`, `:141`). A second unanchored row
  is refused by the index and reported as a duplicate (`domainEvent.model.js:86`).

Payouts (the `detours` of `Payout`, and others)
* `reconcileVendor` counts the adjustments of a carry batch again once it is absorbed, and
  so the opening of a carry batch that was itself absorbed.
* A second approval saved late sets a PROCESSING batch back to APPROVED, and it can be
  instructed again; two approvers at once each count one approval and it stays pending.
* `holdLines` by ids takes lines that are batched or paid too; released, they are paid twice.
  A resubmission after FAILED pays a batch whose lines were set free, without a journal.
* A cancelled carry batch re-pends adjustments that are also in its carry; a reversed one
  leaves them applied; a REJECTED one strands its lines.
* A crash between the save of PROCESSING and `submittedAt` leaves a batch that the
  reconciliation never scans. Lines released with an old `eligibleAt` fall outside later
  windows. A partial refund cancels the whole unpaid line, a second refund of a REVERSED
  line books a negative one.

Delivery, returns, documents
* `reconcileRefunds` looks for PENDING rows with a gateway reference, and no row is ever
  both (`refund.service.js:220`).
* An invoice rounded down to the rupee makes the credit note of a full refund refused; an
  `issueForOrder` that was cut short never invoices the other sellers; two overlapping
  requests both issue a credit note; a note issued while invoicing credits the first
  invoice only; a cancelled invoice cannot be issued again; numbers are burnt by failures.
* Cess is never charged but invoiced, and a note takes it out as part of the price. With
  prices excluding tax and a discount the tax of a note is not in proportion. A coupon above
  the subtotal is accepted under exclusive prices (`gst.js:203` throws under inclusive ones
  only), and the journal of such a sale is then refused. The refund policy `always` refunds the fee with every
  return. Rounding per unit can make a full return exceed the charge, and its reversal is
  then refused. `reverseForRefund` spreads a whole refund over vendor lines only.

Billing
* A crash between the invoice and the reset of the adjustment bills it again next period;
  a credit larger than the fee is cut off and lost; the closed period's fee is the new
  plan's price plus the pro-rata, though the price difference is said to apply from the
  next period (`billing.service.js:211`).
* `voidInvoice` saves VOID over an invoice paid meanwhile. Two overlapping payments make
  two gateway orders, and the capture of the first is then ignored, though re-paying is
  said to return the same order (`billing.service.js:709`); hence `Sole`.
  `splitInvoicePaise` (`ledgerPosting`) fails when the total is less than its tax. No code sets
  `cancelAtPeriodEnd`.

## 7. Not modelled, and the plan

Abstractions inside the modelled parts: one slot, one tenant, one wallet, one vendor, one
order after packing, one store; unit amounts except in `Ledger` and `SaleBooks`; two
checkouts with the same hold or idempotency key; failures of single database calls other
than a crash of the whole handler. Picking, riders and their availability, short cash,
the return window, KYC, PSP settlements, the repairs of `reconcileVendor` and
`reconcileGst`, document numbering, the split of GST into its heads, e-invoices, coupons
above the subtotal, dunning notices, customer subscriptions, and replay of missing
journals are left out. Left out for good: search and catalog ranking, authentication,
analytics, notifications, exports and the frontend, which hold no state that several
actors contend for, or only read.

Next, in this order:

1. `Outbox`: drain by lease, failure with backoff, reaping, dead letters and their replay
   (`dlq.service` resets `retryCount`, which the outbox does not read), and the
   scheduler's claim of a due job.
2. `Riders`: availability, rejection and the acceptance sweep over several orders.
3. Inventory's denormalised copy; document numbering.
4. Abstract specifications: a counter of units (implemented by `SlotReservation` until an
   overlap), an exactly-once journal (`Ledger`), a register with atomic debit
   (`WalletCharge`), each as a refinement.
5. Proofs of those refinements, and of what TLC alone checks of `Outbox` and `Riders`.

To run a check: `tlc -config SlotRace.cfg MCSlotReservation`. To check the proofs:
`tlapm M.tla` for each M of `SumProofs`, `SlotReservationProofs`, `LedgerProofs`,
`OrderSagaProofs`, `AuditChainProofs`, `PayoutProofs`, `AftersalesProofs`, `PaymentProofs`.

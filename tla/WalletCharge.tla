----------------------------- MODULE WalletCharge -----------------------------
(***************************************************************************)
(* Paying an order from the customer's wallet: the versioned balance of    *)
(* services/wallet.service.js and the claimed, retried charge of           *)
(* services/payment.service.js (_walletCharge, _walletChargeExisting).     *)
(*                                                                         *)
(* The debit is two writes: the balance, under a version compare-and-set,  *)
(* then the WalletTransaction row that retries look for.  The claim token  *)
(* on the Payment keeps retries out while a debit is under way.  A token   *)
(* is the claiming process.  Every charge and credit is one unit.          *)
(***************************************************************************)
EXTENDS Integers, FiniteSets, Functions

CONSTANTS
    Payments,        \* wallet payments of one customer
    NoPayment, NoToken,
    Requests,           \* requests and reconciliation runs in flight
    InitialBalance,
    MaxCredits,      \* bound on the credits (refunds, top-ups)
    MaxCrashes,      \* bound on the processes that die half way
    MaxAttempts      \* bound on overlapping retries: calls started per payment

ASSUME WalletAssumption ==
    /\ {InitialBalance, MaxCredits, MaxCrashes, MaxAttempts} \subseteq Nat
    /\ NoPayment \notin Payments /\ NoToken \notin Requests
    /\ IsFiniteSet(Payments)

VARIABLES
    wallet,    \* wallets: balance and version
    payment,   \* payments: status, claim token, and whether the claim is old
    txns,      \* wallettransactions: debit rows per payment
    ledger,    \* ghost: balance writes made, by debits per payment and credits
    charge,      \* per process: the next step, its payment and what it has read
    overlap,   \* ghost: payments with two calls at once, or a call that died inside its debit
    bounds     \* calls started per payment and crashes, for the bounds

walletVars == <<wallet, payment, txns, ledger, charge, overlap, bounds>>

WalletSteps == {"idle", "claim", "takeClaim", "debitRead", "debitCas", "debitRow",
          "clear", "save", "findRow", "findClaim", "wait", "findAgain",
          "creditRead", "creditCas"}

Calls == [at : WalletSteps, pay : Payments \cup {NoPayment}, balance : Nat, version : Nat,
          debited : BOOLEAN]

NoCharge == [at |-> "idle", pay |-> NoPayment, balance |-> 0, version |-> 0, debited |-> FALSE]

PaymentType ==
    [status : {"none", "pending", "success", "failed"}, claim : Requests \cup {NoToken}, old : BOOLEAN]

NewPayment == [status |-> "none", claim |-> NoToken, old |-> FALSE]

WalletInit ==
    /\ wallet = [balance |-> InitialBalance, version |-> 0]
    /\ payment = [y \in Payments |-> NewPayment]
    /\ txns = [y \in Payments |-> 0]
    /\ ledger = [debits |-> [y \in Payments |-> 0], credits |-> 0]
    /\ charge = [p \in Requests |-> NoCharge]
    /\ overlap = {}
    /\ bounds = [calls |-> [y \in Payments |-> 0], crashes |-> 0]

Doing(p, step) == charge[p].at = step
Pay(p) == charge[p].pay
GoOn(p, step) == charge' = [charge EXCEPT ![p].at = step]

-----------------------------------------------------------------------------
(* charge *)

\* The first request creates the payment; a repeat of its idempotency key, or
\* the reconciliation of a PENDING payment, takes the row it finds.
ChargeStart(p, y) ==
    /\ Doing(p, "idle") /\ payment[y].status # "success"
    /\ bounds.calls[y] < MaxAttempts
    /\ bounds' = [bounds EXCEPT !.calls[y] = @ + 1]
    /\ overlap' = IF \E q \in Requests : Pay(q) = y THEN overlap \cup {y} ELSE overlap
    /\ payment' = [payment EXCEPT ![y].status = IF @ = "none" THEN "pending" ELSE @]
    /\ charge' = [charge EXCEPT ![p] =
                   [NoCharge EXCEPT !.pay = y,
                       !.at = IF payment[y].status = "none" THEN "claim" ELSE "findRow"]]
    /\ UNCHANGED <<wallet, txns, ledger>>

\* _claimWalletCharge: an old claim is dropped first.
DropOldClaim(p) ==
    /\ Doing(p, "claim")
    /\ payment' = [payment EXCEPT ![Pay(p)] =
                      IF @.claim # NoToken /\ @.old
                      THEN [@ EXCEPT !.claim = NoToken, !.old = FALSE] ELSE @]
    /\ GoOn(p, "takeClaim")
    /\ UNCHANGED <<wallet, txns, ledger, overlap, bounds>>

\* Then the token is taken if the payment is PENDING and unclaimed; whoever
\* loses goes through _walletChargeExisting (again).
TakeClaim(p) ==
    /\ Doing(p, "takeClaim")
    /\ LET y == Pay(p) IN
       IF payment[y].status = "pending" /\ payment[y].claim = NoToken
       THEN /\ payment' = [payment EXCEPT ![y].claim = p, ![y].old = FALSE]
            /\ GoOn(p, "debitRead")
       ELSE GoOn(p, "findRow") /\ UNCHANGED payment
    /\ UNCHANGED <<wallet, txns, ledger, overlap, bounds>>

\* walletService.debit: too little in the wallet is a failed charge.
DebitRead(p) ==
    /\ Doing(p, "debitRead")
    /\ charge' = [charge EXCEPT ![p].balance = wallet.balance, ![p].version = wallet.version,
                            ![p].debited = FALSE,
                            ![p].at = IF wallet.balance >= 1 THEN "debitCas" ELSE "clear"]
    /\ UNCHANGED <<wallet, payment, txns, ledger, overlap, bounds>>

\* Mutant: the balance is set without comparing the version.
DebitCasBlind(p) ==
    /\ Doing(p, "debitCas")
    /\ wallet' = [balance |-> charge[p].balance - 1, version |-> charge[p].version + 1]
    /\ ledger' = [ledger EXCEPT !.debits[Pay(p)] = @ + 1]
    /\ GoOn(p, "debitRow")
    /\ UNCHANGED <<payment, txns, overlap, bounds>>

\* The compare-and-set; a lost one starts the debit again.
DebitCas(p) ==
    /\ Doing(p, "debitCas")
    /\ IF wallet.version = charge[p].version
       THEN /\ wallet' = [balance |-> charge[p].balance - 1, version |-> charge[p].version + 1]
            /\ ledger' = [ledger EXCEPT !.debits[Pay(p)] = @ + 1]
            /\ GoOn(p, "debitRow")
       ELSE GoOn(p, "debitRead") /\ UNCHANGED <<wallet, ledger>>
    /\ UNCHANGED <<payment, txns, overlap, bounds>>

DebitRow(p) ==
    /\ Doing(p, "debitRow")
    /\ txns' = [txns EXCEPT ![Pay(p)] = @ + 1]
    /\ charge' = [charge EXCEPT ![p].debited = TRUE, ![p].at = "clear"]
    /\ UNCHANGED <<wallet, payment, ledger, overlap, bounds>>

\* Whatever happened, the claim is given back, before the status is saved.
ClearClaim(p) ==
    /\ Doing(p, "clear")
    /\ payment' = [payment EXCEPT ![Pay(p)] =
                      IF @.claim = p THEN [@ EXCEPT !.claim = NoToken, !.old = FALSE] ELSE @]
    /\ GoOn(p, "save")
    /\ UNCHANGED <<wallet, txns, ledger, overlap, bounds>>

\* Mutant: the outcome of the debit is not looked at.
SaveOutcomeAlwaysSuccess(p) ==
    /\ Doing(p, "save")
    /\ payment' = [payment EXCEPT ![Pay(p)].status = "success"]
    /\ charge' = [charge EXCEPT ![p] = NoCharge]
    /\ UNCHANGED <<wallet, txns, ledger, overlap, bounds>>

SaveOutcome(p) ==
    /\ Doing(p, "save")
    /\ payment' = [payment EXCEPT ![Pay(p)].status =
                      IF charge[p].debited THEN "success" ELSE "failed"]
    /\ charge' = [charge EXCEPT ![p] = NoCharge]
    /\ UNCHANGED <<wallet, txns, ledger, overlap, bounds>>

-----------------------------------------------------------------------------
(* _walletChargeExisting *)

\* Mutant: the payment's status is asked, not the wallet transaction.
FindRowByStatus(p) ==
    /\ Doing(p, "findRow")
    /\ charge' = [charge EXCEPT ![p].debited = (payment[Pay(p)].status = "success"),
                            ![p].at = "findClaim"]
    /\ UNCHANGED <<wallet, payment, txns, ledger, overlap, bounds>>

\* It looks for the debit's row first ...
FindRow(p) ==
    /\ Doing(p, "findRow")
    /\ charge' = [charge EXCEPT ![p].debited = txns[Pay(p)] > 0, ![p].at = "findClaim"]
    /\ UNCHANGED <<wallet, payment, txns, ledger, overlap, bounds>>

\* ... then for a claim; without a row it waits for a live one.
FindClaim(p) ==
    /\ Doing(p, "findClaim")
    /\ LET y == Pay(p) IN
       GoOn(p, IF charge[p].debited THEN "save"
                   ELSE IF payment[y].claim # NoToken /\ ~payment[y].old THEN "wait"
                   ELSE "claim")
    /\ UNCHANGED <<wallet, payment, txns, ledger, overlap, bounds>>

\* The wait ends when the row is there, the claim is gone or two seconds are over.
WaitEnds(p) ==
    /\ Doing(p, "wait")
    /\ GoOn(p, "findAgain")
    /\ UNCHANGED <<wallet, payment, txns, ledger, overlap, bounds>>

FindRowAgain(p) ==
    /\ Doing(p, "findAgain")
    /\ LET found == txns[Pay(p)] > 0 IN
       charge' = [charge EXCEPT ![p].debited = found, ![p].at = IF found THEN "save" ELSE "claim"]
    /\ UNCHANGED <<wallet, payment, txns, ledger, overlap, bounds>>

-----------------------------------------------------------------------------
(* Credits, time, crashes *)

CreditRead(p) ==
    /\ \/ Doing(p, "idle") /\ ledger.credits < MaxCredits
       \/ Doing(p, "creditRead")
    /\ charge' = [charge EXCEPT ![p] = [NoCharge EXCEPT !.at = "creditCas",
                                       !.balance = wallet.balance, !.version = wallet.version]]
    /\ UNCHANGED <<wallet, payment, txns, ledger, overlap, bounds>>

CreditCas(p) ==
    /\ Doing(p, "creditCas")
    /\ IF wallet.version = charge[p].version
       THEN /\ wallet' = [balance |-> charge[p].balance + 1, version |-> charge[p].version + 1]
            /\ ledger' = [ledger EXCEPT !.credits = @ + 1]
            /\ charge' = [charge EXCEPT ![p] = NoCharge]
       ELSE GoOn(p, "creditRead") /\ UNCHANGED <<wallet, ledger>>
    /\ UNCHANGED <<payment, txns, overlap, bounds>>

ClaimAges(y) ==
    /\ payment[y].claim # NoToken /\ ~payment[y].old
    /\ payment' = [payment EXCEPT ![y].old = TRUE]
    /\ UNCHANGED <<wallet, txns, ledger, charge, overlap, bounds>>

ChargeDies(p) ==
    /\ ~Doing(p, "idle") /\ bounds.crashes < MaxCrashes
    /\ overlap' = IF Doing(p, "debitRow") THEN overlap \cup {Pay(p)} ELSE overlap
    /\ bounds' = [bounds EXCEPT !.crashes = @ + 1]
    /\ charge' = [charge EXCEPT ![p] = NoCharge]
    /\ UNCHANGED <<wallet, payment, txns, ledger>>

Step(p) ==
    \/ DropOldClaim(p) \/ TakeClaim(p) \/ DebitRead(p) \/ DebitCas(p) \/ DebitRow(p)
    \/ ClearClaim(p) \/ SaveOutcome(p)
    \/ FindRow(p) \/ FindClaim(p) \/ WaitEnds(p) \/ FindRowAgain(p)

WalletNext ==
    \/ \E p \in Requests : Step(p) \/ CreditRead(p) \/ CreditCas(p) \/ ChargeDies(p)
    \/ \E p \in Requests, y \in Payments : ChargeStart(p, y)
    \/ \E y \in Payments : ClaimAges(y)

WalletSpec == WalletInit /\ [][WalletNext]_walletVars

-----------------------------------------------------------------------------
(* Properties *)

WalletTypeOK ==
    /\ wallet \in [balance : Nat, version : Nat]
    /\ payment \in [Payments -> PaymentType]
    /\ txns \in [Payments -> Nat]
    /\ ledger \in [debits : [Payments -> Nat], credits : Nat]
    /\ charge \in [Requests -> Calls]
    /\ overlap \subseteq Payments
    /\ bounds \in [calls : [Payments -> 0 .. MaxAttempts], crashes : 0 .. MaxCrashes]

\* No debit or credit is lost: the balance is the initial one with every
\* balance write applied, and never negative, however debits and credits overlap.
NoLostUpdate ==
    /\ wallet.balance = InitialBalance + ledger.credits - SumFunction(ledger.debits)
    /\ wallet.balance >= 0

\* A payment is SUCCESS only if its debit has a row.
SuccessWasDebited == \A y \in Payments : payment[y].status = "success" => txns[y] > 0

\* The wallet is debited once per payment, however often it is retried.
DebitedOnce == \A y \in Payments : ledger.debits[y] <= 1

\* It is, and not at all if the payment is FAILED, so the order saga may
\* compensate it without a refund: through crashes, ageing claims and retries of
\* both outcomes, if its calls never ran at once and none died between the two
\* writes of the debit.
DebitedOnceAlone ==
    \A y \in Payments \ overlap :
        ledger.debits[y] <= (IF payment[y].status = "failed" THEN 0 ELSE 1)
=============================================================================

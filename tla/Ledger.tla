-------------------------------- MODULE Ledger --------------------------------
(***************************************************************************)
(* The double-entry ledger: services/ledger.service.js with the fiscal     *)
(* period guard of services/period.service.js.                             *)
(*                                                                         *)
(* A journal is the truth of one money event; ledgerentries are its lines, *)
(* flattened, and accountbalances a view kept by $inc.  On a replica set   *)
(* the three are written in one transaction; on a standalone mongod they   *)
(* are three separate writes.                                              *)
(***************************************************************************)
EXTENDS Integers, FiniteSets, Sequences, Money

CONSTANTS
    SaleKeys,      \* idempotency keys of sale journals
    ReversalKeys,  \* idempotency keys of reversals (refunds, COD waivers)
    SaleLines,     \* per sale: the [account, dr, cr] lines its caller posts
    ReversalOf,    \* per reversal: the sale it gives back,
    ReversalAmount,\*   and how much of it
    Source,        \* the counter account of a reversal
    NoKey,         \* "no journal": the fields of a call that has none
    Procs,         \* requests and jobs in flight
    MaxCrashes,    \* bound on the number of calls that die half way
    Repairers      \* those among them that may be verifyBalances({repair: true})

Keys == SaleKeys \cup ReversalKeys

Accounts == {Source} \cup
    UNION {{SaleLines[k][i].account : i \in DOMAIN SaleLines[k]} : k \in SaleKeys}

\* A caller may well post lines that do not balance, or a negative amount.
ASSUME LedgerAssumption ==
    /\ IsFiniteSet(SaleKeys) /\ IsFiniteSet(ReversalKeys)
    /\ SaleKeys \cap ReversalKeys = {}
    /\ NoKey \notin SaleKeys \cup ReversalKeys
    /\ SaleLines \in [SaleKeys -> Seq([account : Accounts, dr : Int, cr : Int])]
    /\ ReversalOf \in [ReversalKeys -> SaleKeys]
    /\ ReversalAmount \in [ReversalKeys -> Nat \ {0}]
    /\ MaxCrashes \in Nat
    /\ Repairers \subseteq Procs

VARIABLES
    journal,   \* ledgerjournals: per key the lines, meta.originalKey
               \* and reversedPaise
    entries,   \* ledgerentries: how many times a key's lines were inserted
    balance,   \* accountbalances: debit and credit totals per account
    period,    \* the fiscal period the postings fall in: "open" or "closed"
    call,      \* per process: the next database call and what it has read
    replicaSet,\* deployment, probed once: transactions are available
    crashes,   \* calls that have died so far
    overlap    \* ghost: two reversals of one sale have been in flight

vars == <<journal, entries, balance, period, call, crashes, overlap, replicaSet>>

NoJournal == [lines |-> <<>>, of |-> NoKey, reversed |-> 0]

Posted(k) == journal[k].lines # <<>>

-----------------------------------------------------------------------------
(* Journal arithmetic *)

\* The lines of a journal, by their position.
Debits(lines) == SumFunction([i \in DOMAIN lines |-> lines[i].dr])
Credits(lines) == SumFunction([i \in DOMAIN lines |-> lines[i].cr])

\* Mutant: post() without its balance check.
AcceptableUnbalanced(lines) == \E i \in DOMAIN lines : lines[i].dr + lines[i].cr > 0

\* What post() accepts: some non-zero line, one side per line, Dr = Cr.
Acceptable(lines) ==
    /\ \E i \in DOMAIN lines : lines[i].dr + lines[i].cr > 0
    /\ \A i \in DOMAIN lines : lines[i].dr \in Nat /\ lines[i].cr \in Nat
                               /\ ~(lines[i].dr > 0 /\ lines[i].cr > 0)
    /\ Debits(lines) = Credits(lines)

Total(k) == Debits(journal[k].lines)

\* What reverseProportional posts: the credit side of the original, scaled to
\* the amount, against the counter account (position 0).
Reversal(original, amount) ==
    LET credits == {i \in DOMAIN original : original[i].cr > 0}
        shares  == AllocatePaise(amount, [i \in credits |-> original[i].cr])
    IN  [i \in {0} \cup {j \in credits : shares[j] > 0} |->
            IF i = 0 THEN [account |-> Source, dr |-> 0, cr |-> amount]
            ELSE [account |-> original[i].account, dr |-> shares[i], cr |-> 0]]

\* One side of an account over the lines.
DebitOf(lines, a) ==
    SumFunction([i \in DOMAIN lines |-> IF lines[i].account = a THEN lines[i].dr ELSE 0])
CreditOf(lines, a) ==
    SumFunction([i \in DOMAIN lines |-> IF lines[i].account = a THEN lines[i].cr ELSE 0])

\* applyToBalances: one $inc per account, whatever the stored totals are.
Applied(bal, lines) ==
    [a \in Accounts |-> [dr |-> bal[a].dr + DebitOf(lines, a),
                         cr |-> bal[a].cr + CreditOf(lines, a)]]

\* The aggregate of ledgerentries by account.
EntryTotals ==
    [a \in Accounts |->
        [dr |-> SumFunction([k \in Keys |-> entries[k] * DebitOf(journal[k].lines, a)]),
         cr |-> SumFunction([k \in Keys |-> entries[k] * CreditOf(journal[k].lines, a)])]]

ZeroBalance == [a \in Accounts |-> [dr |-> 0, cr |-> 0]]

Idle == [at |-> "idle", key |-> NoKey, lines |-> <<>>, totals |-> ZeroBalance, drift |-> {}]

Init ==
    /\ journal = [k \in Keys |-> NoJournal]
    /\ entries = [k \in Keys |-> 0]
    /\ balance = ZeroBalance
    /\ period = "open"
    /\ call = [p \in Procs |-> Idle]
    /\ crashes = 0
    /\ overlap = FALSE
    /\ replicaSet \in BOOLEAN

-----------------------------------------------------------------------------
(* Callers *)

Goto(p, step) == call' = [call EXCEPT ![p].at = step]
Return(p) == call' = [call EXCEPT ![p] = Idle]

\* A business event posts its journal; retries and replays use the same key.
PostSale(p, k) ==
    /\ call[p].at = "idle"
    /\ Acceptable(SaleLines[k])
    /\ call' = [call EXCEPT ![p] =
          [Idle EXCEPT !.at = "find", !.key = k, !.lines = SaleLines[k]]]
    /\ UNCHANGED <<journal, entries, balance, period, crashes, overlap, replicaSet>>

OriginalOf(k) == IF k \in ReversalKeys THEN ReversalOf[k] ELSE NoKey

\* Mutant: the reversal without its check of what remains.
ReverseFindUnchecked(p, k) ==
    /\ call[p].at = "idle"
    /\ Posted(ReversalOf[k])
    /\ overlap' = (overlap \/ \E q \in Procs : OriginalOf(call[q].key) = ReversalOf[k])
    /\ LET lines == Reversal(journal[ReversalOf[k]].lines, ReversalAmount[k]) IN
          call' = [call EXCEPT ![p] = [Idle EXCEPT !.at = "find", !.key = k, !.lines = lines]]
    /\ UNCHANGED <<journal, entries, balance, period, crashes, replicaSet>>

\* reverseProportional reads the original and checks what remains of it.
ReverseFind(p, k) ==
    LET of == ReversalOf[k] IN
    /\ call[p].at = "idle"
    /\ Posted(of)
    /\ ReversalAmount[k] <= Total(of) - journal[of].reversed
    /\ overlap' = (overlap \/ \E q \in Procs : OriginalOf(call[q].key) = of)
    /\ LET lines == Reversal(journal[of].lines, ReversalAmount[k]) IN
          /\ Acceptable(lines)
          /\ call' = [call EXCEPT ![p] = [Idle EXCEPT !.at = "find", !.key = k, !.lines = lines]]
    /\ UNCHANGED <<journal, entries, balance, period, crashes, replicaSet>>

-----------------------------------------------------------------------------
(* post *)

\* The idempotency lookup, then the closed-period lookup.  A journal inserted
\* between the two is met again at the unique index.
PostFind(p) ==
    /\ call[p].at = "find"
    /\ IF Posted(call[p].key) \/ period = "closed" THEN Return(p) ELSE Goto(p, "create")
    /\ UNCHANGED <<journal, entries, balance, period, crashes, overlap, replicaSet>>

\* Mutant: no unique index on idempotencyKey.
PostCreateNoUniqueIndex(p) ==
    LET c == call[p]
    IN  /\ c.at = "create"
        /\ journal' = [journal EXCEPT ![c.key] =
              [lines |-> c.lines, of |-> OriginalOf(c.key), reversed |-> 0]]
        /\ Goto(p, "insert")
        /\ UNCHANGED <<entries, balance, period, crashes, overlap, replicaSet>>

\* LedgerJournal.create; the unique idempotencyKey turns a lost race into
\* "already posted".  In a transaction the entries and balances commit with it.
PostCreate(p) ==
    LET c == call[p]
    IN  /\ c.at = "create"
        /\ IF Posted(c.key)
           THEN /\ Return(p)
                /\ UNCHANGED <<journal, entries, balance>>
           ELSE /\ journal' = [journal EXCEPT ![c.key] =
                      [lines |-> c.lines, of |-> OriginalOf(c.key), reversed |-> 0]]
                /\ IF replicaSet
                   THEN /\ entries' = [entries EXCEPT ![c.key] = @ + 1]
                        /\ balance' = Applied(balance, c.lines)
                        /\ Goto(p, "posted")
                   ELSE /\ Goto(p, "insert")
                        /\ UNCHANGED <<entries, balance>>
        /\ UNCHANGED <<period, crashes, overlap, replicaSet>>

PostInsertEntries(p) ==
    /\ call[p].at = "insert"
    /\ entries' = [entries EXCEPT ![call[p].key] = @ + 1]
    /\ Goto(p, "apply")
    /\ UNCHANGED <<journal, balance, period, crashes, overlap, replicaSet>>

PostApplyBalances(p) ==
    /\ call[p].at = "apply"
    /\ balance' = Applied(balance, call[p].lines)
    /\ Goto(p, "posted")
    /\ UNCHANGED <<journal, entries, period, crashes, overlap, replicaSet>>

\* Only a reversal has more to do: the $inc of the original's reversedPaise.
PostReturn(p) ==
    /\ call[p].at = "posted"
    /\ LET k == call[p].key
       IN  IF k \in ReversalKeys
           THEN journal' = [journal EXCEPT ![ReversalOf[k]].reversed = @ + ReversalAmount[k]]
           ELSE UNCHANGED journal
    /\ Return(p)
    /\ UNCHANGED <<entries, balance, period, crashes, overlap, replicaSet>>

-----------------------------------------------------------------------------
(* verifyBalances with repair *)

RepairAggregate(p) ==
    /\ p \in Repairers
    /\ call[p].at = "idle"
    /\ call' = [call EXCEPT ![p] = [Idle EXCEPT !.at = "compare", !.totals = EntryTotals]]
    /\ UNCHANGED <<journal, entries, balance, period, crashes, overlap, replicaSet>>

\* Mutant: only the debit side is compared.
RepairCompareDebits(p) ==
    /\ call[p].at = "compare"
    /\ call' = [call EXCEPT ![p].at = "rewrite",
                            ![p].drift = {a \in Accounts : balance[a].dr # call[p].totals[a].dr}]
    /\ UNCHANGED <<journal, entries, balance, period, crashes, overlap, replicaSet>>

\* AccountBalance.find is a second read: what was posted in between looks like drift.
RepairCompare(p) ==
    /\ call[p].at = "compare"
    /\ call' = [call EXCEPT ![p].at = "rewrite",
                            ![p].drift = {a \in Accounts : balance[a] # call[p].totals[a]}]
    /\ UNCHANGED <<journal, entries, balance, period, crashes, overlap, replicaSet>>

RepairRewrite(p) ==
    /\ call[p].at = "rewrite"
    /\ \/ /\ call[p].drift = {}
          /\ Return(p)
          /\ UNCHANGED balance
       \/ \E a \in call[p].drift :
             /\ balance' = [balance EXCEPT ![a] = call[p].totals[a]]
             /\ call' = [call EXCEPT ![p].drift = @ \ {a}]
    /\ UNCHANGED <<journal, entries, period, crashes, overlap, replicaSet>>

-----------------------------------------------------------------------------
(* Environment *)

ClosePeriod ==
    /\ period = "open"
    /\ period' = "closed"
    /\ UNCHANGED <<journal, entries, balance, call, crashes, overlap, replicaSet>>

ReopenPeriod ==
    /\ period = "closed"
    /\ period' = "open"
    /\ UNCHANGED <<journal, entries, balance, call, crashes, overlap, replicaSet>>

\* The process dies, or a database call fails; a transaction leaves no trace.
Crash(p) ==
    /\ call[p].at # "idle" /\ crashes < MaxCrashes
    /\ crashes' = crashes + 1
    /\ Return(p)
    /\ UNCHANGED <<journal, entries, balance, period, overlap, replicaSet>>

\* The steps a call takes on its own once started.
Proceed(p) ==
    \/ PostFind(p) \/ PostCreate(p) \/ PostInsertEntries(p)
    \/ PostApplyBalances(p) \/ PostReturn(p)
    \/ RepairCompare(p) \/ RepairRewrite(p)

Next ==
    \/ \E p \in Procs :
          \/ \E k \in SaleKeys : PostSale(p, k)
          \/ \E k \in ReversalKeys : ReverseFind(p, k)
          \/ Proceed(p)
          \/ RepairAggregate(p)
          \/ Crash(p)
    \/ ClosePeriod
    \/ ReopenPeriod

Spec == Init /\ [][Next]_vars

\* Node runs every started call to its end, and the nightly job keeps coming
\* however busy the service is.
FairSpec ==
    /\ Spec
    /\ \A p \in Procs : WF_vars(Proceed(p))
    /\ SF_vars(\E p \in Procs : RepairAggregate(p))

-----------------------------------------------------------------------------
(* Properties *)

Steps == {"idle", "find", "create", "insert", "apply", "posted", "compare", "rewrite"}

Totals == [Accounts -> [dr : Nat, cr : Nat]]

\* Lines of a journal: finitely many, of known accounts and whole paise.
LinesOk(lines) ==
    /\ DOMAIN lines \subseteq Nat /\ IsFiniteSet(DOMAIN lines)
    /\ \A i \in DOMAIN lines : lines[i] \in [account : Accounts, dr : Nat, cr : Nat]

\* Types of the collections and of the calls in flight.
TypeOK ==
    /\ \A k \in Keys :
          /\ LinesOk(journal[k].lines)
          /\ journal[k].of \in SaleKeys \cup {NoKey}
          /\ journal[k].reversed \in Nat
    /\ entries \in [Keys -> Nat]
    /\ balance \in Totals
    /\ period \in {"open", "closed"}
    /\ \A p \in Procs :
          /\ call[p].at \in Steps /\ call[p].key \in Keys \cup {NoKey}
          /\ LinesOk(call[p].lines)
          /\ call[p].totals \in Totals /\ call[p].drift \subseteq Accounts
    /\ crashes \in 0..MaxCrashes /\ {overlap, replicaSet} \subseteq BOOLEAN

\* However often an event is retried and however the retries overlap, its
\* lines reach ledgerentries at most once ("replaying a webhook, retrying a
\* saga step or re-running a backfill posts nothing new", ledger.service.js:30).
PostedOnce == \A k \in Keys : entries[k] <= (IF Posted(k) THEN 1 ELSE 0)

\* Sum of debits = sum of credits over everything ever inserted, refunds
\* and their rounding included (ledger.service.js:604 trialBalance).
TrialBalance ==
    SumFunction([a \in Accounts |-> EntryTotals[a].dr])
      = SumFunction([a \in Accounts |-> EntryTotals[a].cr])

\* The materialized view and the entries agree.
BalancesMatch == balance = EntryTotals

\* Once the events are posted, the nightly repair makes the view agree with the
\* entries for good, whatever crashes and stale repairs came before (rule 4,
\* ledger.service.js:34).
ViewConverges == <>[]BalancesMatch

GivenBack(s) ==
    SumFunction([k \in ReversalKeys |-> IF Posted(k) /\ journal[k].of = s THEN Total(k) ELSE 0])

\* What refunds and waivers have given back of a sale never exceeds the sale
\* ("we can never reverse more than was posted", ledger.service.js:378), as
\* long as no two reversals of one sale are in flight and none dies between
\* its journal and its $inc of reversedPaise.
NeverOverReversedAlone ==
    ~overlap /\ crashes = 0 => \A s \in SaleKeys : GivenBack(s) <= Total(s)

\* When no call is in flight every journal has its entries: "the nightly
\* verifyBalances({repair:true}) closes any crash window" (ledger.service.js:39).
CrashWindowClosed ==
    (\A p \in Procs : call[p].at = "idle") => \A k \in Keys : Posted(k) => entries[k] = 1
=============================================================================

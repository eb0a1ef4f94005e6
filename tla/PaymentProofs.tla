---------------------------- MODULE PaymentProofs ----------------------------
(***************************************************************************)
(* Proofs about Billing, what a store pays the platform, and WalletCharge, *)
(* what a customer pays from the wallet: for any number of periods, plans, *)
(* changes, gateway orders, payments, requests, retries and crashes.       *)
(***************************************************************************)
EXTENDS Billing, WalletCharge, SumProofs

-----------------------------------------------------------------------------
(* Part 1: types.  What may name a gateway order grows with their number n. *)

RefsOf(n) == {Paid} \cup 0..n
InvoiceOf(n) ==
    [status : {"none", "open", "overdue", "paid", "void"}, total : Nat, due : BOOLEAN,
     ref : RefsOf(n), adjustment : Int]
CallOf(n) ==
    [at : Steps, after : {"idle", "post", "heal"}, sub : SubType \cup {<<>>}, i : 0..Periods,
     ref : RefsOf(n), order : 0..n,
     status : {"none", "open", "overdue", "paid", "void", "trial", "active", "pastDue"},
     todo : SUBSET (1..Periods), debt : BOOLEAN]
HistoryType == [prorated : Int, changes : Nat, troubles : Nat]

\* A handler's record that fits its step.
Fit(n, c) ==
    /\ c \in CallOf(n)
    /\ c.at \in OnSub => c.sub \in SubType
    /\ c.at \in Cycling => c.sub.period = c.i
    /\ c.at \in OnInvoice \/ c.after = "post" => c.i \in 1..Periods
    /\ c.at = "save" => c.status \in {"trial", "active", "pastDue"}

LEMMA TypeForm ==
    TypeOK <=>
        /\ sub \in SubType
        /\ invoices \in [1..Periods -> InvoiceOf(Len(orders))]
        /\ orders \in Seq(OrderType)
        /\ books \subseteq 1..Periods /\ ended \in 0..Periods
        /\ gateway \in {"orders", "direct"}
        /\ call \in [Procs -> CallOf(Len(orders))]
        /\ \A p \in Procs : Fit(Len(orders), call[p])
        /\ calm \in BOOLEAN
        /\ history \in HistoryType
  <1>1. InvoiceType = InvoiceOf(Len(orders)) /\ CallType = CallOf(Len(orders))
    BY DEF InvoiceType, InvoiceOf, CallType, CallOf, Refs, RefsOf
  <1> QED BY <1>1 DEF TypeOK, Fit, HistoryType

LEMMA TypeFormNext ==
    ASSUME sub' \in SubType,
           invoices' \in [1..Periods -> InvoiceOf(Len(orders'))],
           orders' \in Seq(OrderType),
           books' \subseteq 1..Periods, ended' \in 0..Periods,
           gateway' \in {"orders", "direct"},
           call' \in [Procs -> CallOf(Len(orders'))],
           \A p \in Procs : Fit(Len(orders'), call'[p]),
           calm' \in BOOLEAN,
           history' \in HistoryType
    PROVE  TypeOK'
  <1>1. InvoiceType' = InvoiceOf(Len(orders')) /\ CallType' = CallOf(Len(orders'))
    BY DEF InvoiceType, InvoiceOf, CallType, CallOf, Refs, RefsOf
  <1> QED BY <1>1 DEF TypeOK, Fit, HistoryType

LEMMA Grows ==
    ASSUME NEW n \in Nat, NEW m \in Nat, n <= m
    PROVE  /\ InvoiceOf(n) \subseteq InvoiceOf(m)
           /\ \A c : Fit(n, c) => Fit(m, c)
  <1>1. RefsOf(n) \subseteq RefsOf(m) /\ 0..n \subseteq 0..m
    BY DEF RefsOf
  <1>2. InvoiceOf(n) \subseteq InvoiceOf(m)
    BY <1>1 DEF InvoiceOf
  <1>3. CallOf(n) \subseteq CallOf(m)
    BY <1>1 DEF CallOf
  <1> QED BY <1>2, <1>3 DEF Fit

\* A step in which at most one handler's record changes.
LEMMA StepTyped ==
    ASSUME TypeOK, NEW p \in Procs, NEW c, Fit(Len(orders'), c),
           call' = [call EXCEPT ![p] = c],
           Len(orders) <= Len(orders'), orders' \in Seq(OrderType),
           sub' \in SubType, books' \subseteq 1..Periods,
           invoices' \in [1..Periods -> InvoiceOf(Len(orders'))],
           gateway' = gateway, ended' = ended,
           calm' \in BOOLEAN, history' \in HistoryType
    PROVE  TypeOK'
  <1> DEFINE n == Len(orders)
             m == Len(orders')
  <1>t. /\ orders \in Seq(OrderType) /\ ended \in 0..Periods /\ gateway \in {"orders", "direct"}
        /\ call \in [Procs -> CallOf(n)] /\ \A q \in Procs : Fit(n, call[q])
    BY TypeForm
  <1>1. n \in Nat /\ m \in Nat
    BY <1>t
  <1> HIDE DEF n, m
  <1>2. \A d : Fit(n, d) => Fit(m, d)
    BY <1>1, Grows DEF n, m
  <1>3. \A q \in Procs : Fit(m, call'[q])
    BY <1>t, <1>2 DEF m
  <1>4. call' \in [Procs -> CallOf(m)]
    BY <1>t, <1>3 DEF Fit
  <1> QED BY <1>t, <1>3, <1>4, TypeFormNext DEF m

LEMMA IdleFits == ASSUME NEW n \in Nat PROVE Fit(n, Idle)
  <1>0. 0..Periods # {} /\ 0 \in 0..Periods
    BY BillingAssumption
  <1>1. Idle \in CallOf(n)
    BY <1>0 DEF Idle, CallOf, Steps, OnSub, Cycling, OnInvoice, RefsOf, NoOrder
  <1> QED BY <1>1 DEF Fit, Idle, OnSub, Cycling, OnInvoice

\* The edits of a record the handlers make.
LEMMA FitMoves ==
    ASSUME NEW n \in Nat, NEW c, Fit(n, c), NEW st \in Steps,
           st \in OnSub => c.at \in OnSub, st \in Cycling => c.at \in Cycling,
           st \in OnInvoice => c.i \in 1..Periods
    PROVE  /\ st # "save" => Fit(n, [c EXCEPT !.at = st])
           /\ st # "save" => \A b \in BOOLEAN : Fit(n, [c EXCEPT !.at = st, !.debt = b])
           /\ \A s \in {"trial", "active", "pastDue"} : Fit(n, [c EXCEPT !.at = st, !.status = s])
           /\ st # "save" => \A o \in 0..n : Fit(n, [c EXCEPT !.at = st, !.order = o])
           /\ st # "save" /\ c.i \in 1..Periods =>
                 \A a \in {"idle", "post"} : Fit(n, [c EXCEPT !.at = st, !.after = a])
           /\ st # "save" => \A T \in SUBSET (1..Periods), b \in BOOLEAN :
                 Fit(n, [c EXCEPT !.todo = T, !.debt = b, !.at = st])
  <1>1. ASSUME st # "save" PROVE Fit(n, [c EXCEPT !.at = st])
    BY <1>1 DEF Fit, CallOf
  <1>2. ASSUME st # "save", NEW b \in BOOLEAN PROVE Fit(n, [c EXCEPT !.at = st, !.debt = b])
    BY <1>2 DEF Fit, CallOf
  <1>3. ASSUME NEW s \in {"trial", "active", "pastDue"}
        PROVE  Fit(n, [c EXCEPT !.at = st, !.status = s])
    BY <1>3 DEF Fit, CallOf
  <1>4. ASSUME st # "save", NEW o \in 0..n PROVE Fit(n, [c EXCEPT !.at = st, !.order = o])
    BY <1>4 DEF Fit, CallOf
  <1>5. ASSUME st # "save", c.i \in 1..Periods, NEW a \in {"idle", "post"}
        PROVE  Fit(n, [c EXCEPT !.at = st, !.after = a])
    BY <1>5 DEF Fit, CallOf
  <1>6. ASSUME st # "save", NEW T \in SUBSET (1..Periods), NEW b \in BOOLEAN
        PROVE  Fit(n, [c EXCEPT !.todo = T, !.debt = b, !.at = st])
    BY <1>6 DEF Fit, CallOf
  <1> QED BY <1>1, <1>2, <1>3, <1>4, <1>5, <1>6

\* A call begins with a record that fits: it reads, and changes nothing yet.
LEMMA BeginTyped ==
    ASSUME TypeOK, NEW p \in Procs, NEW c, Fit(Len(orders), c), Begin(p, c),
           UNCHANGED <<sub, invoices, Money, ended, gateway>>
    PROVE  TypeOK'
  <1>1. calm' \in BOOLEAN /\ history' \in HistoryType
    BY TypeForm DEF Begin, HistoryType
  <1>2. orders \in Seq(OrderType) /\ Len(orders) <= Len(orders)
    BY TypeForm
  <1> QED BY <1>1, <1>2, StepTyped, TypeForm DEF Begin, Money

\* A step that moves on one call and writes the subscription or the invoices.
LEMMA AdvanceTyped ==
    ASSUME TypeOK, NEW p \in Procs, NEW c, Fit(Len(orders), c), call' = [call EXCEPT ![p] = c],
           sub' \in SubType, invoices' \in [1..Periods -> InvoiceOf(Len(orders))],
           UNCHANGED <<Money, ended, gateway, calm, history>>
    PROVE  TypeOK'
  <1>2. orders \in Seq(OrderType) /\ Len(orders) <= Len(orders)
    BY TypeForm
  <1> QED BY <1>2, StepTyped, TypeForm DEF Money

LEMMA TotalTyped ==
    ASSUME NEW r \in SubType
    PROVE  TotalOf(r) \in Nat /\ Fee(r) \in Nat /\ r.adjustment \in Int
  <1>1. Fee(r) \in Nat /\ r.adjustment \in Int
    BY BillingAssumption DEF Fee, SubType
  <1> DEFINE x == Fee(r) + r.adjustment
             z == IF x > 0 THEN x ELSE 0
  <1>2. x \in Int /\ z \in Nat /\ z \in {0, x} /\ \A y \in {0, x} : z >= y
    BY <1>1
  <1>3. TotalOf(r) = Max({0, x})
    BY DEF TotalOf
  <1> HIDE DEF x, z
  <1>4. Max({0, x}) \in {0, x} /\ \A y \in {0, x} : Max({0, x}) >= y
    BY <1>2 DEF Max
  <1> QED BY <1>1, <1>2, <1>3, <1>4

LEMMA InitTyped == Init => TypeOK
  <1> SUFFICES ASSUME Init PROVE TypeOK
    OBVIOUS
  <1>1. orders = <<>> /\ orders \in Seq(OrderType) /\ Len(orders) = 0
    BY DEF Init
  <1>2. sub \in SubType
    BY BillingAssumption DEF Init, SubType, NoPlan
  <1>3. Unbilled \in InvoiceOf(0)
    BY DEF Unbilled, InvoiceOf, RefsOf, NoOrder
  <1>4. Fit(0, Idle)
    BY IdleFits
  <1>5. history \in HistoryType
    BY DEF Init, HistoryType
  <1> QED BY <1>1, <1>2, <1>3, <1>4, <1>5, TypeForm, BillingAssumption DEF Init, Fit

\* What a step may find, whoever takes it.
LEMMA TypeFacts ==
    ASSUME TypeOK
    PROVE  /\ sub \in SubType /\ invoices \in [1..Periods -> InvoiceOf(Len(orders))]
           /\ DOMAIN invoices = 1..Periods
           /\ orders \in Seq(OrderType) /\ Len(orders) \in Nat
           /\ DOMAIN orders = 1..Len(orders)
           /\ ended \in 0..Periods /\ Periods \in Nat
           /\ gateway \in {"orders", "direct"} /\ calm \in BOOLEAN /\ history \in HistoryType
           /\ call \in [Procs -> CallOf(Len(orders))] /\ books \subseteq 1..Periods
           /\ \A p \in Procs : Fit(Len(orders), call[p])
  BY TypeForm, BillingAssumption

LEMMA ReturnTyped ==
    ASSUME TypeOK, NEW p \in Procs, Return(p),
           sub' \in SubType, invoices' \in [1..Periods -> InvoiceOf(Len(orders))],
           UNCHANGED <<Money, ended, gateway, calm, history>>
    PROVE  TypeOK'
  BY TypeFacts, IdleFits, AdvanceTyped DEF Return

LEMMA ContinueTyped ==
    ASSUME TypeOK, NEW p \in Procs, NEW st \in Steps \ {"save"}, Continue(p, st),
           st \in OnSub => call[p].at \in OnSub, st \in Cycling => call[p].at \in Cycling,
           st \in OnInvoice => call[p].i \in 1..Periods,
           sub' \in SubType, invoices' \in [1..Periods -> InvoiceOf(Len(orders))],
           UNCHANGED <<Money, ended, gateway, calm, history>>
    PROVE  TypeOK'
  <1>t. Fit(Len(orders), call[p]) /\ Len(orders) \in Nat /\ call \in [Procs -> CallOf(Len(orders))]
    BY TypeFacts
  <1>1. Fit(Len(orders), [call[p] EXCEPT !.at = st])
    BY <1>t, FitMoves
  <1>2. call' = [call EXCEPT ![p] = [call[p] EXCEPT !.at = st]]
    BY <1>t DEF Continue
  <1> QED BY <1>1, <1>2, AdvanceTyped

LEMMA ProceedTyped ==
    ASSUME TypeOK, NEW p \in Procs, Proceed(p),
           sub' \in SubType, invoices' \in [1..Periods -> InvoiceOf(Len(orders))],
           UNCHANGED <<Money, ended, gateway, calm, history>>
    PROVE  TypeOK'
  <1>t. Fit(Len(orders), call[p])
    BY TypeFacts
  <1>1. call[p].after \in {"idle", "post", "heal"}
    BY <1>t DEF Fit, CallOf
  <1>2. CASE call[p].after = "idle"
    BY <1>2, ReturnTyped DEF Proceed
  <1>3. CASE call[p].after # "idle"
    <2>1. Continue(p, call[p].after) /\ call[p].after \in Steps \ {"save"}
            /\ call[p].after \notin OnSub
      BY <1>1, <1>3 DEF Proceed, Steps, OnInvoice, OnSub, Cycling
    <2>2. call[p].after \notin Cycling /\ (call[p].after \in OnInvoice => call[p].i \in 1..Periods)
      BY <1>t, <1>1 DEF Fit, OnInvoice, Cycling
    <2> QED BY <2>1, <2>2, ContinueTyped
  <1> QED BY <1>2, <1>3

\* A process at a step about an invoice, or at one about the subscription.
LEMMA AtFacts ==
    ASSUME TypeOK, NEW p \in Procs
    PROVE  /\ call[p].at \in OnInvoice => call[p].i \in 1..Periods
           /\ call[p].at \in OnSub => call[p].sub \in SubType
           /\ call[p].at \in Cycling => call[p].sub.period = call[p].i
           /\ call[p].debt \in BOOLEAN /\ call[p].todo \in SUBSET (1..Periods)
           /\ call[p].i \in 0..Periods
           /\ call[p].ref \in RefsOf(Len(orders)) /\ call[p].order \in 0..Len(orders)
           /\ call[p].after \in {"idle", "post", "heal"}
           /\ call[p].at \in Steps
           /\ call[p].at = "save" => call[p].status \in {"trial", "active", "pastDue"}
  <1>1. Fit(Len(orders), call[p])
    BY TypeFacts
  <1> QED BY <1>1 DEF Fit, CallOf

LEMMA SubEdited ==
    ASSUME NEW s \in SubType, NEW t \in {"trial", "active", "pastDue"}
    PROVE  /\ [s EXCEPT !.status = t] \in SubType
           /\ [s EXCEPT !.adjustment = 0] \in SubType
  BY DEF SubType

-----------------------------------------------------------------------------
LEMMA ChangeTyped ==
    ASSUME TypeOK, NEW p \in Procs, ChangeRead(p) \/ ChangeSave(p)
    PROVE  TypeOK'
  <1>t. /\ sub \in SubType /\ Len(orders) \in Nat /\ history \in HistoryType
        /\ orders \in Seq(OrderType) /\ invoices \in [1..Periods -> InvoiceOf(Len(orders))]
        /\ calm \in BOOLEAN /\ books \subseteq 1..Periods
    BY TypeFacts
  <1>1. CASE ChangeRead(p)
    <2>1. [Idle EXCEPT !.at = "change", !.sub = sub] \in CallOf(Len(orders))
      BY <1>t, IdleFits DEF Fit, CallOf, Steps, OnSub
    <2>2. Fit(Len(orders), [Idle EXCEPT !.at = "change", !.sub = sub])
      BY <1>t, <2>1 DEF Fit, Idle, OnInvoice, Cycling
    <2> QED BY <1>1, <2>2, BeginTyped DEF ChangeRead
  <1>2. CASE ChangeSave(p)
    <2>1. call[p].sub \in SubType
      BY <1>2, AtFacts DEF ChangeSave, At, OnSub
    <2>2. PICK plan \in Plans \ {call[p].sub.plan},
               left \in {0} \cup (IF ended < call[p].sub.period THEN {1} ELSE {}) :
            LET prorated == (plan - call[p].sub.plan) * left IN
            /\ sub' = [sub EXCEPT
                   !.plan = plan,
                   !.nextRate = IF plan # call[p].sub.rate THEN plan ELSE @,
                   !.adjustment = IF prorated # 0 THEN call[p].sub.adjustment + prorated ELSE @]
            /\ history' = [history EXCEPT !.prorated = @ + prorated, !.changes = @ + 1]
      BY <1>2 DEF ChangeSave
    <2>3. PICK amount : amount = (plan - call[p].sub.plan) * left
      OBVIOUS
    <2>4. amount \in Int /\ call[p].sub.adjustment \in Int
      BY <2>1, <2>3, BillingAssumption DEF SubType
    <2>5. history' \in HistoryType
      <3>1. history' = [history EXCEPT !.prorated = @ + amount, !.changes = @ + 1]
        BY <2>2, <2>3
      <3>2. history.prorated \in Int /\ history.changes \in Nat
        BY <1>t DEF HistoryType
      <3>3. history.prorated + amount \in Int /\ history.changes + 1 \in Nat
        BY <2>4, <3>2
      <3> QED BY <1>t, <3>1, <3>3 DEF HistoryType
    <2>6. sub' \in SubType
      <3>1. PICK next \in Plans \cup {NoPlan}, adjustment \in Int :
               sub' = [sub EXCEPT !.plan = plan, !.nextRate = next, !.adjustment = adjustment]
        <4>1. PICK next : next = IF plan # call[p].sub.rate THEN plan ELSE sub.nextRate
          OBVIOUS
        <4>2. PICK adjustment : adjustment = IF amount # 0 THEN call[p].sub.adjustment + amount
                                             ELSE sub.adjustment
          OBVIOUS
        <4>3. next \in Plans \cup {NoPlan} /\ adjustment \in Int
          BY <1>t, <2>4, <4>1, <4>2 DEF SubType
        <4>4. sub' = [sub EXCEPT !.plan = plan, !.nextRate = next, !.adjustment = adjustment]
          BY <2>2, <2>3, <4>1, <4>2
        <4> QED BY <4>3, <4>4
      <3> QED BY <1>t, <3>1 DEF SubType
    <2>7. call' = [call EXCEPT ![p] = Idle]
            /\ UNCHANGED <<invoices, orders, books, ended, gateway, calm>>
      BY <1>2 DEF ChangeSave, Return, Money
    <2>8. Fit(Len(orders), Idle) /\ Len(orders) <= Len(orders)
      BY <1>t, IdleFits
    <2> QED BY <1>t, <2>5, <2>6, <2>7, <2>8, StepTyped
  <1> QED BY <1>1, <1>2

LEMMA CycleTyped ==
    ASSUME TypeOK, NEW p \in Procs,
           CycleRead(p) \/ CycleBill(p) \/ CycleClear(p) \/ CycleAdvance(p)
    PROVE  TypeOK'
  <1>t. /\ sub \in SubType /\ Len(orders) \in Nat /\ Periods \in Nat
        /\ invoices \in [1..Periods -> InvoiceOf(Len(orders))] /\ ended \in 0..Periods
    BY TypeFacts
  <1>1. CASE CycleRead(p)
    <2>1. sub.period \in 1..Periods
      BY <1>1, <1>t DEF CycleRead, SubType
    <2>2. [Idle EXCEPT !.at = "bill", !.sub = sub, !.i = sub.period] \in CallOf(Len(orders))
      <3>1. Idle \in CallOf(Len(orders)) /\ "bill" \in Steps /\ sub.period \in 0..Periods
        BY <1>t, <2>1, IdleFits DEF Fit, Steps, OnSub, Cycling
      <3> QED BY <1>t, <3>1 DEF CallOf
    <2>3. Fit(Len(orders), [Idle EXCEPT !.at = "bill", !.sub = sub, !.i = sub.period])
      BY <1>t, <2>1, <2>2 DEF Fit, Idle
    <2> QED BY <1>1, <2>3, BeginTyped DEF CycleRead
  <1>2. CASE CycleBill(p)
    <2>1. call[p].sub \in SubType /\ call[p].i \in 1..Periods /\ call[p].at = "bill"
      BY <1>2, AtFacts DEF CycleBill, At, OnSub, Cycling, OnInvoice
    <2>2. PICK total : total = TotalOf(call[p].sub)
      OBVIOUS
    <2>3. PICK bill : bill = [status |-> IF total = 0 THEN "paid" ELSE "open", total |-> total,
                  due |-> FALSE, ref |-> IF total = 0 THEN Paid ELSE NoOrder,
                  adjustment |-> call[p].sub.adjustment]
      OBVIOUS
    <2>4. bill \in InvoiceOf(Len(orders))
      BY <1>t, <2>1, <2>2, <2>3, TotalTyped DEF InvoiceOf, RefsOf, NoOrder
    <2>5. invoices' = invoices \/ invoices' = [invoices EXCEPT ![call[p].i] = bill]
      BY <1>2, <2>2, <2>3 DEF CycleBill
    <2>6. invoices' \in [1..Periods -> InvoiceOf(Len(orders))]
      BY <1>t, <2>1, <2>4, <2>5
    <2>7. PICK st \in {"clear", "advance"} : Continue(p, st)
      BY <1>2 DEF CycleBill
    <2>8. st \in Steps \ {"save"} /\ call[p].at \in OnSub /\ call[p].at \in Cycling
      BY <2>1 DEF Steps, OnSub, Cycling, OnInvoice
    <2>9. UNCHANGED <<sub, Money, ended, gateway, calm, history>>
      BY <1>2 DEF CycleBill, Quietly
    <2> QED BY <1>t, <2>1, <2>6, <2>7, <2>8, <2>9, ContinueTyped
  <1>3. CASE CycleClear(p)
    <2>1. call[p].at \in Cycling /\ call[p].at \in OnSub /\ "advance" \in Steps \ {"save"}
          /\ call[p].i \in 1..Periods
      BY <1>3, AtFacts DEF CycleClear, At, OnSub, Steps, Cycling, OnInvoice
    <2>2. sub' \in SubType
      BY <1>3, <1>t, SubEdited DEF CycleClear
    <2> QED BY <1>3, <1>t, <2>1, <2>2, ContinueTyped DEF CycleClear, Quietly
  <1>4. CASE CycleAdvance(p)
    <2>1. call[p].sub \in SubType /\ call[p].sub.period + 1 \in 1..Periods + 1
      BY <1>4, <1>t, AtFacts DEF CycleAdvance, At, OnSub, Cycling, OnInvoice
    <2>2. sub' \in SubType
      BY <1>4, <1>t, <2>1 DEF CycleAdvance, SubType
    <2> QED BY <1>4, <1>t, <2>2, ReturnTyped DEF CycleAdvance, Quietly
  <1> QED BY <1>1, <1>2, <1>3, <1>4

LEMMA StandingTyped ==
    ASSUME TypeOK, NEW p \in Procs, FindDebts(p) \/ FindStanding(p) \/ SaveStanding(p)
    PROVE  TypeOK'
  <1>t. /\ sub \in SubType /\ Len(orders) \in Nat /\ Fit(Len(orders), call[p])
        /\ invoices \in [1..Periods -> InvoiceOf(Len(orders))]
        /\ call \in [Procs -> CallOf(Len(orders))]
    BY TypeFacts
  <1>s. /\ {"standing", "save"} \subseteq Steps /\ {"standing", "save"} \cap OnSub = {}
        /\ {"standing", "save"} \cap OnInvoice = {}
    BY DEF Steps, OnSub, OnInvoice, Cycling
  <1>1. CASE FindDebts(p)
    <2>1. PICK b : b = (\E i \in DOMAIN invoices : Delinquent(invoices[i])) /\ b \in BOOLEAN
      OBVIOUS
    <2>2. call' = [call EXCEPT ![p] = [call[p] EXCEPT !.at = "standing", !.debt = b]]
      BY <1>1, <1>t, <2>1 DEF FindDebts
    <2>3. Fit(Len(orders), [call[p] EXCEPT !.at = "standing", !.debt = b])
      BY <1>t, <1>s, <2>1, FitMoves DEF OnSub
    <2> QED BY <1>1, <1>t, <2>2, <2>3, AdvanceTyped DEF FindDebts, Quietly
  <1>2. CASE FindStanding(p)
    <2>1. CASE Proceed(p)
      BY <1>2, <1>t, <2>1, ProceedTyped DEF FindStanding, Quietly
    <2>2. CASE ~Proceed(p)
      <3>1. call' = [call EXCEPT ![p] = [call[p] EXCEPT !.at = "save", !.status = sub.status]]
        BY <1>2, <1>t, <2>2 DEF FindStanding
      <3>2. Fit(Len(orders), [call[p] EXCEPT !.at = "save", !.status = sub.status])
        BY <1>t, <1>s, FitMoves DEF OnSub, SubType
      <3> QED BY <1>2, <1>t, <3>1, <3>2, AdvanceTyped DEF FindStanding, Quietly
    <2> QED BY <2>1, <2>2
  <1>3. CASE SaveStanding(p)
    <2>1. StandingFor(call[p].status, call[p].debt) \in {"trial", "active", "pastDue"}
      BY <1>3, AtFacts DEF StandingFor, SaveStanding, At
    <2> QED BY <1>3, <1>t, <2>1, SubEdited, ProceedTyped DEF SaveStanding, Quietly
  <1> QED BY <1>1, <1>2, <1>3

LEMMA SweepTyped ==
    ASSUME TypeOK, NEW p \in Procs, SweepFind(p) \/ SweepFlag(p) \/ HealFind(p) \/ HealMark(p)
    PROVE  TypeOK'
  <1>t. /\ sub \in SubType /\ Len(orders) \in Nat /\ Fit(Len(orders), call[p])
        /\ invoices \in [1..Periods -> InvoiceOf(Len(orders))] /\ DOMAIN invoices = 1..Periods
        /\ call \in [Procs -> CallOf(Len(orders))]
    BY TypeFacts
  <1>s. /\ {"flag", "debts", "heal", "mark"} \subseteq Steps \ {"save"}
        /\ {"flag", "debts", "heal", "mark"} \cap OnSub = {}
        /\ {"flag", "debts", "heal", "mark"} \cap OnInvoice = {}
        /\ {"flag", "debts", "heal", "mark"} \cap Cycling = {}
    BY DEF Steps, OnSub, OnInvoice, Cycling
  <1>1. CASE SweepFind(p)
    <2>1. PICK found \in SUBSET (1..Periods), st \in {"heal", "flag"} :
              Begin(p, [Idle EXCEPT !.at = st, !.todo = found, !.after = "heal"])
      BY <1>1, <1>t DEF SweepFind
    <2>2. Fit(Len(orders), Idle) /\ Idle.after = "idle"
      BY <1>t, IdleFits DEF Idle
    <2>3. [Idle EXCEPT !.at = st, !.todo = found, !.after = "heal"] \in CallOf(Len(orders))
      BY <1>s, <2>2 DEF Fit, CallOf
    <2>4. Fit(Len(orders), [Idle EXCEPT !.at = st, !.todo = found, !.after = "heal"])
      BY <1>s, <2>3 DEF Fit, Idle
    <2> QED BY <1>1, <2>1, <2>4, BeginTyped DEF SweepFind
  <1>2. CASE SweepFlag(p)
    <2>0. call[p].debt \in BOOLEAN /\ call[p].todo \in SUBSET (1..Periods)
      BY AtFacts
    <2>1. PICK i \in call[p].todo, b \in BOOLEAN, st \in {"flag", "debts", "heal"} :
            /\ invoices' = invoices \/ invoices' = [invoices EXCEPT ![i].status = "overdue"]
            /\ call' = [call EXCEPT ![p].todo = call[p].todo \ {i}, ![p].debt = b, ![p].at = st]
      <3>1. PICK i \in call[p].todo :
         LET flagged == invoices[i].status = "open" IN
         /\ invoices' = IF flagged THEN [invoices EXCEPT ![i].status = "overdue"] ELSE invoices
         /\ call' = [call EXCEPT ![p].todo = @ \ {i}, ![p].debt = @ \/ flagged,
                ![p].at = CASE call[p].todo # {i} -> "flag"
                            [] call[p].debt \/ flagged -> "debts"
                            [] OTHER -> "heal"]
        BY <1>2 DEF SweepFlag
      <3>2. PICK b \in BOOLEAN : b = (call[p].debt \/ invoices[i].status = "open")
        OBVIOUS
      <3>3. PICK st : st = CASE call[p].todo # {i} -> "flag"
                            [] call[p].debt \/ invoices[i].status = "open" -> "debts"
                            [] OTHER -> "heal"
        OBVIOUS
      <3>4. st \in {"flag", "debts", "heal"}
        BY <3>3
      <3>5. call' = [call EXCEPT ![p].todo = call[p].todo \ {i}, ![p].debt = b, ![p].at = st]
        BY <3>1, <3>2, <3>3, <1>t
      <3> QED BY <3>1, <3>4, <3>5
    <2>2. i \in 1..Periods /\ call[p].todo \ {i} \in SUBSET (1..Periods)
      BY <2>0
    <2>3. invoices' \in [1..Periods -> InvoiceOf(Len(orders))]
      <3>1. [invoices EXCEPT ![i].status = "overdue"] \in [1..Periods -> InvoiceOf(Len(orders))]
        BY <1>t, <2>2 DEF InvoiceOf
      <3> QED BY <1>t, <2>1, <3>1
    <2>4. Fit(Len(orders), [call[p] EXCEPT !.todo = call[p].todo \ {i}, !.debt = b, !.at = st])
      BY <1>t, <1>s, <2>2, FitMoves
    <2>5. call' = [call EXCEPT ![p] = [call[p] EXCEPT !.todo = call[p].todo \ {i}, !.debt = b,
                                                      !.at = st]]
      BY <1>t, <2>1
    <2>6. UNCHANGED <<sub, Money, ended, gateway, calm, history>>
      BY <1>2 DEF SweepFlag, Quietly
    <2> QED BY <1>t, <2>3, <2>4, <2>5, <2>6, AdvanceTyped
  <1>3. CASE HealFind(p)
    BY <1>3, <1>t, <1>s, ContinueTyped, ReturnTyped DEF HealFind, Quietly
  <1>4. CASE HealMark(p)
    BY <1>4, <1>t, SubEdited, ReturnTyped DEF HealMark, Quietly
  <1> QED BY <1>1, <1>2, <1>3, <1>4

LEMMA BeginOnTyped ==
    ASSUME TypeOK, NEW p \in Procs, NEW i \in 1..Periods, NEW st \in {"charge", "void"},
           BeginOn(p, i, st), UNCHANGED <<sub, invoices, Money, ended, gateway>>
    PROVE  TypeOK'
  <1>t. Len(orders) \in Nat /\ invoices \in [1..Periods -> InvoiceOf(Len(orders))]
    BY TypeFacts
  <1>1. PICK c : c = [Idle EXCEPT !.at = st, !.i = i, !.status = invoices[i].status,
                                  !.ref = invoices[i].ref]
    OBVIOUS
  <1>2. /\ invoices[i].status \in {"none", "open", "overdue", "paid", "void"}
        /\ invoices[i].ref \in RefsOf(Len(orders))
        /\ st \in Steps /\ i \in 0..Periods
    BY <1>t DEF InvoiceOf, Steps, OnInvoice
  <1>3. Fit(Len(orders), Idle)
    BY <1>t, IdleFits
  <1>4. c \in CallOf(Len(orders))
    BY <1>1, <1>2, <1>3 DEF Fit, CallOf
  <1>5. Fit(Len(orders), c)
    BY <1>1, <1>4 DEF Fit, Idle, OnSub, Cycling
  <1> QED BY <1>1, <1>5, BeginTyped DEF BeginOn

\* The edits of a gateway order.
LEMMA OrderEdited ==
    ASSUME NEW s \in Seq(OrderType), NEW k
    PROVE  /\ [s EXCEPT ![k].given = TRUE] \in Seq(OrderType)
           /\ [s EXCEPT ![k].taken = TRUE] \in Seq(OrderType)
           /\ [s EXCEPT ![k].acked = TRUE] \in Seq(OrderType)
           /\ Len([s EXCEPT ![k].given = TRUE]) = Len(s)
           /\ Len([s EXCEPT ![k].taken = TRUE]) = Len(s)
           /\ Len([s EXCEPT ![k].acked = TRUE]) = Len(s)
  <1>1. s \in [1..Len(s) -> OrderType] /\ Len(s) \in Nat
    OBVIOUS
  <1>2. \A f \in [1..Len(s) -> OrderType] : f \in Seq(OrderType) /\ Len(f) = Len(s)
    BY <1>1
  <1>3. /\ [s EXCEPT ![k].given = TRUE] \in [1..Len(s) -> OrderType]
        /\ [s EXCEPT ![k].taken = TRUE] \in [1..Len(s) -> OrderType]
        /\ [s EXCEPT ![k].acked = TRUE] \in [1..Len(s) -> OrderType]
    BY <1>1 DEF OrderType
  <1> QED BY <1>2, <1>3

LEMMA PayTyped ==
    ASSUME TypeOK, NEW p \in Procs,
           PayCharge(p) \/ PayPark(p) \/ \E i \in DOMAIN invoices : PayRead(p, i)
    PROVE  TypeOK'
  <1> DEFINE n == Len(orders)
  <1>t. /\ sub \in SubType /\ n \in Nat /\ Fit(n, call[p])
        /\ invoices \in [1..Periods -> InvoiceOf(n)] /\ DOMAIN invoices = 1..Periods
        /\ call \in [Procs -> CallOf(n)] /\ orders \in Seq(OrderType)
        /\ books \subseteq 1..Periods /\ calm \in BOOLEAN /\ history \in HistoryType
    BY TypeFacts
  <1>1. CASE \E i \in DOMAIN invoices : PayRead(p, i)
    BY <1>1, <1>t, BeginOnTyped DEF PayRead
  <1>2. ASSUME PayCharge(p), NEW taken \in BOOLEAN, orders' = Append(orders, Order(call[p].i, taken)),
               NEW c, Fit(n + 1, c), call' = [call EXCEPT ![p] = c]
        PROVE  TypeOK'
    <2>1. call[p].i \in 1..Periods
      BY <1>2, AtFacts DEF PayCharge, At, OnInvoice
    <2>2. Order(call[p].i, taken) \in OrderType
      BY <2>1 DEF Order, OrderType
    <2>3. orders' \in Seq(OrderType) /\ Len(orders') = n + 1
      BY <1>t, <1>2, <2>2
    <2>4. invoices \in [1..Periods -> InvoiceOf(n + 1)]
      BY <1>t, Grows
    <2>5. Fit(Len(orders'), c) /\ invoices' \in [1..Periods -> InvoiceOf(Len(orders'))]
          /\ Len(orders) <= Len(orders')
      BY <1>t, <1>2, <2>3, <2>4 DEF PayCharge
    <2>6. UNCHANGED <<sub, books, ended, gateway, calm, history>>
      BY <1>2 DEF PayCharge, Quietly
    <2> HIDE DEF n
    <2> QED BY <1>t, <1>2, <2>3, <2>5, <2>6, StepTyped
  <1>3. CASE PayCharge(p)
    <2>1. call[p].i \in 1..Periods
      BY <1>3, AtFacts DEF PayCharge, At, OnInvoice
    <2>2. Fit(n + 1, call[p]) /\ n + 1 \in Nat /\ n + 1 \in 0..n + 1
      BY <1>t, Grows
    <2>3. {"park", "confirm"} \subseteq Steps /\ {"park", "confirm"} \cap (OnSub \cup Cycling) = {}
      BY DEF Steps, OnSub, OnInvoice, Cycling
    <2>4. CASE /\ gateway = "orders"
               /\ orders' = Append(orders, Order(call[p].i, FALSE))
               /\ call' = [call EXCEPT ![p].at = "park", ![p].order = Len(orders')]
      <3>1. Len(orders') = n + 1
        BY <1>t, <2>4
      <3>2. call' = [call EXCEPT ![p] = [call[p] EXCEPT !.at = "park", !.order = n + 1]]
        BY <1>t, <2>4, <3>1
      <3>3. Fit(n + 1, [call[p] EXCEPT !.at = "park", !.order = n + 1])
        BY <2>1, <2>2, <2>3, FitMoves
      <3> QED BY <1>2, <1>3, <2>4, <3>2, <3>3
    <2>5. CASE /\ gateway = "direct"
               /\ orders' = Append(orders, Order(call[p].i, TRUE))
               /\ call' = [call EXCEPT ![p].at = "confirm", ![p].after = "post"]
      <3>1. call' = [call EXCEPT ![p] = [call[p] EXCEPT !.at = "confirm", !.after = "post"]]
        BY <1>t, <2>5
      <3>2. Fit(n + 1, [call[p] EXCEPT !.at = "confirm", !.after = "post"])
        BY <2>1, <2>2, <2>3, FitMoves
      <3> QED BY <1>2, <1>3, <2>5, <3>1, <3>2
    <2>6. CASE Return(p) /\ UNCHANGED orders
      BY <1>3, <1>t, <2>6, ReturnTyped DEF PayCharge, Quietly, Money
    <2> QED BY <1>3, <2>4, <2>5, <2>6 DEF PayCharge
  <1>4. CASE PayPark(p)
    <2> DEFINE given == IF call[p].ref = NoOrder THEN call[p].order ELSE call[p].ref
    <2>1. call[p].i \in 1..Periods /\ call[p].ref \in RefsOf(n) /\ call[p].order \in 0..n
      BY <1>4, AtFacts DEF PayPark, At, OnInvoice
    <2>2. given \in RefsOf(n)
      BY <1>t, <2>1 DEF RefsOf
    <2>3. invoices' \in [1..Periods -> InvoiceOf(n)]
      <3>1. invoices' = invoices \/ invoices' = [invoices EXCEPT ![call[p].i].ref = given]
        BY <1>4 DEF PayPark
      <3>2. [invoices EXCEPT ![call[p].i].ref = given] \in [1..Periods -> InvoiceOf(n)]
        <4> HIDE DEF given, n
        <4> QED BY <1>t, <2>1, <2>2 DEF InvoiceOf
      <3> QED BY <1>t, <3>1, <3>2
    <2>4. orders' = [orders EXCEPT ![given].given = TRUE]
      BY <1>4 DEF PayPark
    <2>5. orders' \in Seq(OrderType) /\ Len(orders') = n
      <3> HIDE DEF given
      <3> QED BY <1>t, <2>4, OrderEdited
    <2>6. call' = [call EXCEPT ![p] = Idle] /\ Fit(n, Idle)
          /\ UNCHANGED <<sub, books, ended, gateway, calm, history>>
      BY <1>4, <1>t, IdleFits DEF PayPark, Return, Quietly
    <2>7. Fit(Len(orders'), Idle) /\ invoices' \in [1..Periods -> InvoiceOf(Len(orders'))]
          /\ Len(orders) <= Len(orders')
      BY <1>t, <2>3, <2>5, <2>6
    <2> HIDE DEF n
    <2> QED BY <1>t, <2>5, <2>6, <2>7, StepTyped
  <1> QED BY <1>1, <1>3, <1>4

LEMMA ConfirmTyped ==
    ASSUME TypeOK, NEW p \in Procs,
           \/ Confirm(p) \/ Post(p) \/ VoidSave(p)
           \/ \E i \in DOMAIN invoices : VoidRead(p, i)
           \/ \E o \in DOMAIN orders : Hook(p, o)
    PROVE  TypeOK'
  <1> DEFINE n == Len(orders)
  <1>t. /\ sub \in SubType /\ n \in Nat /\ Fit(n, call[p])
        /\ invoices \in [1..Periods -> InvoiceOf(n)] /\ DOMAIN invoices = 1..Periods
        /\ call \in [Procs -> CallOf(n)] /\ orders \in Seq(OrderType) /\ DOMAIN orders = 1..n
        /\ books \subseteq 1..Periods /\ calm \in BOOLEAN /\ history \in HistoryType
    BY TypeFacts
  <1>s. /\ {"debts", "confirm"} \subseteq Steps \ {"save"}
        /\ {"debts", "confirm"} \cap OnSub = {} /\ {"debts", "confirm"} \cap Cycling = {}
        /\ "debts" \notin OnInvoice
    BY DEF Steps, OnSub, OnInvoice, Cycling
  <1>1. CASE Confirm(p)
    <2>1. call[p].i \in 1..Periods
      BY <1>1, AtFacts DEF Confirm, At, OnInvoice
    <2>2. invoices' \in [1..Periods -> InvoiceOf(n)]
      <3>1. invoices' = invoices
            \/ invoices' = [invoices EXCEPT ![call[p].i].status = "paid", ![call[p].i].ref = Paid]
        BY <1>1 DEF Confirm
      <3>2. Paid \in RefsOf(n)
        BY DEF RefsOf
      <3>3. [invoices EXCEPT ![call[p].i].status = "paid", ![call[p].i].ref = Paid]
                \in [1..Periods -> InvoiceOf(n)]
        <4> HIDE DEF n
        <4>1. invoices[call[p].i] \in InvoiceOf(n)
          BY <1>t, <2>1
        <4>2. [invoices[call[p].i] EXCEPT !.status = "paid", !.ref = Paid] \in InvoiceOf(n)
          BY <3>2, <4>1 DEF InvoiceOf
        <4>3. [invoices EXCEPT ![call[p].i].status = "paid", ![call[p].i].ref = Paid]
                = [invoices EXCEPT ![call[p].i] =
                      [invoices[call[p].i] EXCEPT !.status = "paid", !.ref = Paid]]
          BY <1>t, <2>1
        <4> QED BY <1>t, <2>1, <4>2, <4>3
      <3> QED BY <1>t, <3>1, <3>3
    <2>3. CASE Return(p)
      BY <1>1, <1>t, <2>2, <2>3, ReturnTyped DEF Confirm, Quietly
    <2>4. CASE ~Return(p)
      <3>1. PICK a \in {"idle", "post"} : call' = [call EXCEPT ![p].at = "debts", ![p].after = a]
        BY <1>1, <2>4 DEF Confirm
      <3>2. Fit(n, [call[p] EXCEPT !.at = "debts", !.after = a])
        BY <1>t, <1>s, <2>1, FitMoves
      <3>3. call' = [call EXCEPT ![p] = [call[p] EXCEPT !.at = "debts", !.after = a]]
        BY <1>t, <3>1
      <3> QED BY <1>1, <1>t, <2>2, <3>2, <3>3, AdvanceTyped DEF Confirm, Quietly
    <2> QED BY <2>3, <2>4
  <1>2. CASE Post(p)
    <2>1. call[p].i \in 1..Periods /\ Fit(n, Idle)
      BY <1>2, <1>t, AtFacts, IdleFits DEF Post, At, OnInvoice
    <2>2. call' = [call EXCEPT ![p] = Idle] /\ books' = books \cup {call[p].i}
          /\ UNCHANGED <<sub, invoices, orders, ended, gateway, calm, history>>
      BY <1>2 DEF Post, Return, Quietly
    <2>3. books' \subseteq 1..Periods
      <3>1. books \subseteq 1..Periods /\ {call[p].i} \subseteq 1..Periods
        BY <1>t, <2>1
      <3> HIDE DEF n
      <3> QED BY <2>2, <3>1
    <2>4. n <= n
      BY <1>t
    <2> QED BY <1>t, <2>1, <2>2, <2>3, <2>4, StepTyped
  <1>3. CASE VoidSave(p)
    <2>1. call[p].i \in 1..Periods
      BY <1>3, AtFacts DEF VoidSave, At, OnInvoice
    <2>2. [invoices EXCEPT ![call[p].i].status = "void"] \in [1..Periods -> InvoiceOf(n)]
      <3> HIDE DEF n
      <3> QED BY <1>t, <2>1 DEF InvoiceOf
    <2>3. invoices' \in [1..Periods -> InvoiceOf(n)]
      BY <1>3, <1>t, <2>2 DEF VoidSave
    <2> QED BY <1>3, <1>t, <1>s, <2>3, ContinueTyped DEF VoidSave, Quietly
  <1>4. CASE \E i \in DOMAIN invoices : VoidRead(p, i)
    BY <1>4, <1>t, BeginOnTyped DEF VoidRead
  <1>5. ASSUME NEW o \in DOMAIN orders, Hook(p, o) PROVE TypeOK'
    <2>1. PICK found \in SUBSET (1..Periods) : Deliver(p, o, found)
      BY <1>5, <1>t DEF Hook
    <2>2. CASE found = {}
      <3>1. /\ orders' = [orders EXCEPT ![o].acked = TRUE]
            /\ UNCHANGED <<sub, invoices, books, ended, gateway, call, calm, history>>
        BY <2>1, <2>2 DEF Deliver
      <3>2. orders' \in Seq(OrderType) /\ Len(orders') = n
        BY <1>t, <3>1, OrderEdited
      <3>3. Fit(n, call[p]) /\ call' = [call EXCEPT ![p] = call[p]] /\ n <= n
        BY <1>t, <3>1
      <3> HIDE DEF n
      <3> QED BY <1>t, <3>1, <3>2, <3>3, StepTyped DEF n
    <2>3. CASE found # {}
      <3>1. PICK i \in found :
              Begin(p, [Idle EXCEPT !.at = "confirm", !.i = i, !.order = o, !.after = "post"])
        BY <2>1, <2>3 DEF Deliver
      <3>2. Fit(n, Idle) /\ i \in 1..Periods /\ i \in 0..Periods /\ o \in 0..n
        BY <1>t, IdleFits
      <3>3. [Idle EXCEPT !.at = "confirm", !.i = i, !.order = o, !.after = "post"] \in CallOf(n)
        BY <1>s, <3>2 DEF Fit, CallOf
      <3>4. Fit(n, [Idle EXCEPT !.at = "confirm", !.i = i, !.order = o, !.after = "post"])
        BY <1>s, <3>2, <3>3 DEF Fit, Idle
      <3>5. UNCHANGED <<sub, invoices, Money, ended, gateway>>
        BY <2>1, <2>3 DEF Deliver, Money
      <3> QED BY <3>1, <3>4, <3>5, BeginTyped
    <2> QED BY <2>2, <2>3
  <1> QED BY <1>1, <1>2, <1>3, <1>4, <1>5

\* The steps of the calendar, of the gateway and of the maintenance.
LEMMA OutsideTyped ==
    ASSUME TypeOK,
           \/ PeriodEnds
           \/ \E i \in DOMAIN invoices : BecomesDue(i) \/ Backfill(i)
           \/ \E o \in DOMAIN orders : Capture(o)
    PROVE  TypeOK'
  <1> DEFINE n == Len(orders)
  <1>t. /\ sub \in SubType /\ n \in Nat /\ \A p \in Procs : Fit(n, call[p])
        /\ invoices \in [1..Periods -> InvoiceOf(n)] /\ DOMAIN invoices = 1..Periods
        /\ call \in [Procs -> CallOf(n)] /\ orders \in Seq(OrderType) /\ DOMAIN orders = 1..n
        /\ books \subseteq 1..Periods /\ calm \in BOOLEAN /\ history \in HistoryType
        /\ ended \in 0..Periods /\ Periods \in Nat /\ gateway \in {"orders", "direct"}
    BY TypeFacts
  <1>1. CASE PeriodEnds
    <2>1. ended' \in 0..Periods
      BY <1>1, <1>t DEF PeriodEnds
    <2>2. UNCHANGED <<sub, invoices, orders, books, gateway, call, calm, history>>
      BY <1>1 DEF PeriodEnds, Money
    <2> QED BY <1>t, <2>1, <2>2, TypeFormNext
  <1>2. ASSUME NEW i \in DOMAIN invoices, BecomesDue(i) PROVE TypeOK'
    <2>1. invoices' \in [1..Periods -> InvoiceOf(n)]
      <3> HIDE DEF n
      <3> QED BY <1>2, <1>t DEF BecomesDue, InvoiceOf
    <2>2. UNCHANGED <<sub, orders, books, ended, gateway, call, calm, history>>
      BY <1>2 DEF BecomesDue, Money
    <2> QED BY <1>t, <2>1, <2>2, TypeFormNext
  <1>3. ASSUME NEW i \in DOMAIN invoices, Backfill(i) PROVE TypeOK'
    <2>1. books' \subseteq 1..Periods
          /\ UNCHANGED <<sub, invoices, orders, ended, gateway, call, calm, history>>
      BY <1>3, <1>t DEF Backfill
    <2> QED BY <1>t, <2>1, TypeFormNext
  <1>4. ASSUME NEW o \in DOMAIN orders, Capture(o) PROVE TypeOK'
    <2>1. /\ orders' = [orders EXCEPT ![o].taken = TRUE]
          /\ UNCHANGED <<sub, invoices, books, ended, gateway, call, calm, history>>
      BY <1>4 DEF Capture
    <2>2. orders' \in Seq(OrderType) /\ Len(orders') = n
      BY <1>t, <2>1, OrderEdited
    <2> QED BY <1>t, <2>1, <2>2, TypeFormNext
  <1> QED BY <1>1, <1>2, <1>3, <1>4

LEMMA CrashTyped ==
    ASSUME TypeOK, NEW p \in Procs, Crash(p)
    PROVE  TypeOK'
  <1> DEFINE n == Len(orders)
  <1>t. /\ sub \in SubType /\ n \in Nat /\ Fit(n, Idle)
        /\ invoices \in [1..Periods -> InvoiceOf(n)] /\ orders \in Seq(OrderType)
        /\ books \subseteq 1..Periods /\ history \in HistoryType
    BY TypeFacts, IdleFits
  <1>1. calm' \in BOOLEAN /\ history' \in HistoryType
    <2>1. history.troubles + 1 \in Nat
      BY <1>t DEF HistoryType
    <2> QED BY <1>t, <2>1 DEF Crash, HistoryType
  <1>2. /\ call' = [call EXCEPT ![p] = Idle] /\ n <= n
        /\ UNCHANGED <<sub, invoices, orders, books, ended, gateway>>
    BY <1>t DEF Crash, Return, Money
  <1> QED BY <1>t, <1>1, <1>2, StepTyped

LEMMA NextTyped == TypeOK /\ [Next]_vars => TypeOK'
  <1> SUFFICES ASSUME TypeOK, [Next]_vars PROVE TypeOK'
    OBVIOUS
  <1>1. CASE UNCHANGED vars
    BY <1>1, TypeForm, TypeFormNext DEF vars
  <1>2. ASSUME NEW p \in Procs, Ask(p) PROVE TypeOK'
    BY <1>2, ChangeTyped, CycleTyped, SweepTyped, PayTyped, ConfirmTyped DEF Ask
  <1>3. ASSUME NEW p \in Procs, Advance(p) PROVE TypeOK'
    BY <1>3, ChangeTyped, CycleTyped, StandingTyped, SweepTyped, PayTyped, ConfirmTyped DEF Advance
  <1> QED BY <1>1, <1>2, <1>3, OutsideTyped, CrashTyped DEF Next

\* Every document and every record of a call in flight keeps its type, and a
\* call at a step has read what that step uses.
THEOREM BillingTypeOK == Spec => []TypeOK
  BY InitTyped, NextTyped, PTL DEF Spec

-----------------------------------------------------------------------------
(* Part 2: money and debts between calls. *)

\* An invoice that was not written yet carries nothing.
UnbilledBlank == \A i \in 1..Periods : invoices[i].status = "none" => invoices[i].adjustment = 0

\* Nobody is in the middle of billing an adjustment: it is not on the invoice
\* and on the subscription at once.
Balanced == history.prorated = sub.adjustment + Adjusted

Overdue == \E i \in 1..Periods : invoices[i].status = "overdue"
Debt == \E i \in 1..Periods : Delinquent(invoices[i])
StandingFits == (Overdue => sub.status = "pastDue") /\ (sub.status = "pastDue" => Debt)

\* The steps between a change of the debts and the standing that follows.
Unsettled == {"flag", "debts", "standing", "save"}

\* What the one call in flight knows of the subscription and of the debts.
Knows(p) ==
    /\ call[p].at \in {"change", "bill"} => call[p].sub = sub
    /\ call[p].at \in {"clear", "advance"} => call[p].sub.status = sub.status
    /\ At(p, "clear") => history.prorated = Adjusted
    /\ ~At(p, "clear") => Balanced
    /\ call[p].at \notin Unsettled => StandingFits
    /\ At(p, "flag") => (sub.status = "pastDue" => Debt) /\ (~call[p].debt => StandingFits)
    /\ call[p].at \in {"standing", "save"} => IF call[p].debt THEN Debt ELSE ~Overdue
    /\ At(p, "save") => call[p].status = sub.status
    /\ At(p, "mark") => Overdue

\* As long as calls come one at a time and none dies.
SoloInv ==
    calm => /\ \A p, q \in Running : p = q
            /\ Running = {} => Balanced /\ StandingFits
            /\ \A p \in Running : Knows(p)


BillingInv == TypeOK /\ UnbilledBlank /\ SoloInv

LEMMA SameAdjusted ==
    ASSUME \A i \in 1..Periods : invoices'[i].adjustment = invoices[i].adjustment
    PROVE  Adjusted' = Adjusted
  <1>1. [i \in 1..Periods |-> invoices'[i].adjustment] = [i \in 1..Periods |-> invoices[i].adjustment]
    OBVIOUS
  <1> QED BY <1>1 DEF Adjusted

LEMMA AdjustedWrite ==
    ASSUME TypeOK, NEW k \in 1..Periods, NEW v \in Int,
           \A i \in 1..Periods :
              invoices'[i].adjustment = IF i = k THEN v ELSE invoices[i].adjustment
    PROVE  Adjusted' = Adjusted - invoices[k].adjustment + v
  <1> DEFINE f == [i \in 1..Periods |-> invoices[i].adjustment]
             e == [i \in 1..Periods |-> invoices'[i].adjustment]
  <1>0. Periods \in Int
    BY BillingAssumption
  <1>1. IsFiniteSet(1..Periods)
    BY <1>0, FS_Interval
  <1>2. f \in [1..Periods -> Int] /\ f[k] = invoices[k].adjustment
    BY TypeFacts DEF InvoiceOf
  <1>3. e = [f EXCEPT ![k] = v]
    OBVIOUS
  <1> HIDE DEF e, f
  <1>5. SumFunction([f EXCEPT ![k] = v]) = SumFunction(f) - f[k] + v
    BY <1>1, <1>2, SumWrite
  <1>4. SumFunction(e) = SumFunction(f) - invoices[k].adjustment + v
    BY <1>2, <1>3, <1>5
  <1> QED BY <1>4 DEF Adjusted, e, f

LEMMA AdjustedInt == ASSUME TypeOK PROVE Adjusted \in Int
  <1> DEFINE f == [i \in 1..Periods |-> invoices[i].adjustment]
  <1>1. IsFiniteSet(1..Periods)
    BY FS_Interval, BillingAssumption
  <1>2. DOMAIN f = 1..Periods /\ \A i \in 1..Periods : f[i] \in Int
    BY TypeFacts DEF InvoiceOf
  <1> HIDE DEF f
  <1>3. SumFunction(f) \in Int
    BY <1>1, <1>2, SumInt DEF SumFunction
  <1> QED BY <1>3 DEF Adjusted, f

\* A step that leaves every invoice its status, its date and its adjustment.
LEMMA SameDebts ==
    ASSUME \A i \in 1..Periods : /\ invoices'[i].status = invoices[i].status
                                 /\ invoices'[i].due = invoices[i].due
                                 /\ invoices'[i].adjustment = invoices[i].adjustment
    PROVE  /\ Adjusted' = Adjusted /\ Overdue' = Overdue /\ Debt' = Debt
           /\ UnbilledBlank => UnbilledBlank'
  BY SameAdjusted DEF Overdue, Debt, Delinquent, UnbilledBlank

\* A call that starts with nobody else in flight.
LEMMA SoloBegin ==
    ASSUME TypeOK, SoloInv, NEW p \in Procs, NEW c, c.at # "idle", Begin(p, c),
           calm /\ Running = {} /\ Balanced /\ StandingFits => Knows(p)'
    PROVE  SoloInv'
  <1> SUFFICES ASSUME calm' PROVE SoloInv'
    BY DEF SoloInv
  <1>1. calm /\ Running = {} /\ Balanced /\ StandingFits
    BY DEF Begin, SoloInv
  <1>2. call' = [call EXCEPT ![p] = c] /\ call \in [Procs -> CallOf(Len(orders))]
    BY TypeFacts DEF Begin
  <1>3. Running' = {p}
    BY <1>1, <1>2 DEF Running, At
  <1> QED BY <1>1, <1>3 DEF SoloInv

\* A step of the one call in flight.
LEMMA SoloAdvance ==
    ASSUME TypeOK, SoloInv, NEW p \in Procs, ~At(p, "idle"), NEW c,
           call' = [call EXCEPT ![p] = c], calm' = calm,
           calm /\ Knows(p) /\ c.at = "idle" => Balanced' /\ StandingFits',
           calm /\ Knows(p) /\ c.at # "idle" => Knows(p)'
    PROVE  SoloInv'
  <1> SUFFICES ASSUME calm' PROVE SoloInv'
    BY DEF SoloInv
  <1>1. call \in [Procs -> CallOf(Len(orders))]
    BY TypeFacts
  <1>2. Running = {p} /\ Knows(p)
    BY DEF SoloInv, Running
  <1>3. CASE c.at = "idle"
    <2>1. Running' = {}
      BY <1>1, <1>2, <1>3 DEF Running, At
    <2> QED BY <1>2, <1>3, <2>1 DEF SoloInv
  <1>4. CASE c.at # "idle"
    <2>1. Running' = {p}
      BY <1>1, <1>2, <1>4 DEF Running, At
    <2> QED BY <1>2, <1>4, <2>1 DEF SoloInv
  <1> QED BY <1>3, <1>4

\* A step of nobody's that keeps what a call knows.
LEMMA SoloOutside ==
    ASSUME SoloInv, call' = call, calm' = calm,
           Balanced => Balanced', StandingFits => StandingFits',
           \A p \in Procs : Knows(p) => Knows(p)'
    PROVE  SoloInv'
  <1>1. Running' = Running
    BY DEF Running, At
  <1> QED BY <1>1 DEF SoloInv, Running

-----------------------------------------------------------------------------
LEMMA InitBillingInv == Init => BillingInv
  <1> SUFFICES ASSUME Init PROVE BillingInv
    OBVIOUS
  <1>1. TypeOK
    BY InitTyped
  <1>2. \A i \in 1..Periods : invoices[i] = Unbilled
    BY DEF Init
  <1>3. UnbilledBlank
    BY <1>2 DEF UnbilledBlank, Unbilled
  <1>4. Running = {}
    BY DEF Init, Running, At, Idle
  <1>5. Balanced
    <2>1. IsFiniteSet(1..Periods)
      BY FS_Interval, BillingAssumption
    <2> DEFINE f == [i \in 1..Periods |-> invoices[i].adjustment]
    <2>2. \A i \in 1..Periods : f[i] = 0
      BY <1>2 DEF Unbilled
    <2>3. DOMAIN f = 1..Periods
      OBVIOUS
    <2> HIDE DEF f
    <2>4. SumFunction(f) = 0
      BY <2>1, <2>2, <2>3, SumZero DEF SumFunction
    <2>5. Adjusted = 0
      BY <2>4 DEF Adjusted, f
    <2> QED BY <2>5 DEF Balanced, Init
  <1>6. StandingFits
    BY <1>2 DEF StandingFits, Overdue, Unbilled, Init
  <1> QED BY <1>1, <1>3, <1>4, <1>5, <1>6 DEF BillingInv, SoloInv

LEMMA OutsideBilled ==
    ASSUME BillingInv,
           \/ PeriodEnds
           \/ \E i \in DOMAIN invoices : BecomesDue(i) \/ Backfill(i)
           \/ \E o \in DOMAIN orders : Capture(o)
    PROVE  UnbilledBlank' /\ SoloInv'
  <1>t. invoices \in [1..Periods -> InvoiceOf(Len(orders))] /\ DOMAIN invoices = 1..Periods
    BY TypeFacts DEF BillingInv
  <1>1. ASSUME NEW i \in DOMAIN invoices, BecomesDue(i) PROVE UnbilledBlank' /\ SoloInv'
    <2>1. /\ \A j \in 1..Periods : /\ invoices'[j].status = invoices[j].status
                                   /\ invoices'[j].adjustment = invoices[j].adjustment
                                   /\ invoices[j].due => invoices'[j].due
      BY <1>1, <1>t DEF BecomesDue, InvoiceOf
    <2>2. UNCHANGED <<sub, call, calm, history>>
      BY <1>1 DEF BecomesDue
    <2>3. Adjusted' = Adjusted /\ Overdue' = Overdue /\ (Debt => Debt')
      BY <2>1, SameAdjusted DEF Overdue, Debt, Delinquent
    <2>4. (Balanced => Balanced') /\ (StandingFits => StandingFits')
      BY <2>2, <2>3 DEF Balanced, StandingFits
    <2>5. \A p \in Procs : Knows(p) => Knows(p)'
      BY <2>2, <2>3, <2>4 DEF Knows, At
    <2>6. UnbilledBlank'
      BY <2>1 DEF BillingInv, UnbilledBlank
    <2> QED BY <2>2, <2>4, <2>5, <2>6, SoloOutside DEF BillingInv
  <1>2. ASSUME UNCHANGED <<sub, invoices, call, calm, history>> PROVE UnbilledBlank' /\ SoloInv'
    <2>1. Adjusted' = Adjusted /\ Overdue' = Overdue /\ Debt' = Debt
      BY <1>2 DEF Adjusted, Overdue, Debt, Delinquent
    <2>2. (Balanced => Balanced') /\ (StandingFits => StandingFits')
      BY <1>2, <2>1 DEF Balanced, StandingFits
    <2>3. \A p \in Procs : Knows(p) => Knows(p)'
      BY <1>2, <2>1, <2>2 DEF Knows, At
    <2> QED BY <1>2, <2>2, <2>3, SoloOutside DEF BillingInv, UnbilledBlank
  <1> QED BY <1>1, <1>2 DEF PeriodEnds, Backfill, Capture

\* A crash ends the calm.
LEMMA CrashBilled == ASSUME BillingInv, NEW p \in Procs, Crash(p) PROVE UnbilledBlank' /\ SoloInv'
  BY DEF BillingInv, UnbilledBlank, SoloInv, Crash

\* A call begins: a change of plan and a billing cycle with the subscription as
\* it is, a sweep with no debt found yet.
LEMMA BeginBilled ==
    ASSUME BillingInv, NEW p \in Procs, NEW c, Begin(p, c), UNCHANGED <<sub, invoices>>,
           c.at \in {"change", "bill", "flag", "heal", "charge", "confirm", "void"},
           c.at \in {"change", "bill"} => c.sub = sub
    PROVE  UnbilledBlank' /\ SoloInv'
  <1>1. UnbilledBlank' /\ Adjusted' = Adjusted /\ Overdue' = Overdue /\ Debt' = Debt
    BY SameDebts DEF BillingInv
  <1>2. call'[p] = c
    BY TypeFacts DEF Begin, BillingInv
  <1>3. ASSUME calm, Running = {}, Balanced, StandingFits PROVE Knows(p)'
    <2>1. history' = history
      BY <1>3 DEF Begin
    <2>2. Balanced' /\ StandingFits'
      BY <1>1, <1>3, <2>1 DEF Balanced, StandingFits
    <2> QED BY <1>2, <2>2 DEF Knows, At, StandingFits
  <1> QED BY <1>1, <1>3, SoloBegin DEF BillingInv

LEMMA ChangeBilled ==
    ASSUME BillingInv, NEW p \in Procs, ChangeRead(p) \/ ChangeSave(p)
    PROVE  UnbilledBlank' /\ SoloInv'
  <1>t. /\ call \in [Procs -> CallOf(Len(orders))] /\ sub \in SubType /\ history \in HistoryType
        /\ Adjusted \in Int
    BY TypeFacts, AdjustedInt DEF BillingInv
  <1>1. CASE ChangeRead(p)
    <2> DEFINE c == [Idle EXCEPT !.at = "change", !.sub = sub]
    <2>1. c.at = "change" /\ c.sub = sub
      BY DEF Idle
    <2>2. Begin(p, c) /\ UNCHANGED <<sub, invoices>>
      BY <1>1 DEF ChangeRead
    <2> HIDE DEF c
    <2> QED BY <2>1, <2>2, BeginBilled
  <1>2. CASE ChangeSave(p)
    <2>0. UnbilledBlank' /\ Adjusted' = Adjusted /\ Overdue' = Overdue /\ Debt' = Debt
      BY <1>2, SameDebts DEF BillingInv, ChangeSave
    <2>1. call[p].at = "change" /\ call[p].sub \in SubType
      BY <1>2, AtFacts DEF ChangeSave, At, OnSub, BillingInv
    <2>2. PICK plan \in Plans \ {call[p].sub.plan},
               left \in {0} \cup (IF ended < call[p].sub.period THEN {1} ELSE {}) :
            LET prorated == (plan - call[p].sub.plan) * left IN
            /\ sub' = [sub EXCEPT
                   !.plan = plan,
                   !.nextRate = IF plan # call[p].sub.rate THEN plan ELSE @,
                   !.adjustment = IF prorated # 0 THEN call[p].sub.adjustment + prorated ELSE @]
            /\ history' = [history EXCEPT !.prorated = @ + prorated, !.changes = @ + 1]
      BY <1>2 DEF ChangeSave
    <2>3. PICK amount : amount = (plan - call[p].sub.plan) * left
      OBVIOUS
    <2>a. amount \in Int
      BY <2>1, <2>3, BillingAssumption DEF SubType
    <2>4. /\ sub'.status = sub.status
          /\ sub'.adjustment = IF amount # 0 THEN call[p].sub.adjustment + amount
                  ELSE sub.adjustment
      BY <1>t, <2>2, <2>3 DEF SubType
    <2>5. history'.prorated = history.prorated + amount
      BY <1>t, <2>2, <2>3 DEF HistoryType
    <2>6. call' = [call EXCEPT ![p] = Idle] /\ calm' = calm /\ Idle.at = "idle"
      BY <1>2 DEF ChangeSave, Return, Idle
    <2>7. ASSUME Knows(p) PROVE Balanced' /\ StandingFits'
      <3>1. call[p].sub = sub /\ Balanced /\ StandingFits
        BY <2>1, <2>7 DEF Knows, At, Unsettled
      <3>2. sub.adjustment \in Int /\ history.prorated \in Int
        BY <1>t DEF SubType, HistoryType
      <3>3. history.prorated = sub.adjustment + Adjusted
        BY <3>1 DEF Balanced
      <3>4. sub'.adjustment = sub.adjustment + amount
        BY <2>4, <2>a, <3>1, <3>2
      <3>5. history'.prorated = sub'.adjustment + Adjusted'
        BY <1>t, <2>0, <2>a, <2>5, <3>2, <3>3, <3>4
      <3> QED BY <2>0, <2>4, <3>1, <3>5 DEF Balanced, StandingFits
    <2> QED BY <2>0, <2>1, <2>6, <2>7, SoloAdvance DEF BillingInv, At
  <1> QED BY <1>1, <1>2

LEMMA CycleBilled ==
    ASSUME BillingInv, NEW p \in Procs,
           CycleRead(p) \/ CycleBill(p) \/ CycleClear(p) \/ CycleAdvance(p)
    PROVE  UnbilledBlank' /\ SoloInv'
  <1>t. /\ call \in [Procs -> CallOf(Len(orders))] /\ sub \in SubType /\ history \in HistoryType
        /\ Adjusted \in Int /\ invoices \in [1..Periods -> InvoiceOf(Len(orders))]
    BY TypeFacts, AdjustedInt DEF BillingInv
  <1>1. CASE CycleRead(p)
    <2> DEFINE c == [Idle EXCEPT !.at = "bill", !.sub = sub, !.i = sub.period]
    <2>1. c.at = "bill" /\ c.sub = sub
      BY DEF Idle
    <2>2. Begin(p, c) /\ UNCHANGED <<sub, invoices>>
      BY <1>1 DEF CycleRead
    <2> HIDE DEF c
    <2> QED BY <2>1, <2>2, BeginBilled
  <1>2. CASE CycleBill(p)
    <2>0. /\ call[p].at = "bill" /\ call[p].sub \in SubType /\ call[p].i \in 1..Periods
          /\ UNCHANGED <<sub, calm, history>>
      BY <1>2, AtFacts DEF CycleBill, At, OnSub, Cycling, OnInvoice, BillingInv, Quietly
    <2>1. CASE invoices[call[p].i].status # "none"
      <3> DEFINE c == [call[p] EXCEPT !.at = "advance"]
      <3>1. invoices' = invoices /\ call' = [call EXCEPT ![p] = c]
        BY <1>2, <1>t, <2>1 DEF CycleBill, Continue
      <3>2. c.at = "advance" /\ c.sub = call[p].sub
        BY <1>t DEF CallOf
      <3>3. call'[p] = c
        BY <1>t, <3>1
      <3> HIDE DEF c
      <3>4. UnbilledBlank' /\ Adjusted' = Adjusted /\ Overdue' = Overdue /\ Debt' = Debt
        BY <3>1, SameDebts DEF BillingInv
      <3>5. ASSUME Knows(p) PROVE Knows(p)'
        <4>1. call[p].sub = sub /\ Balanced /\ StandingFits
          BY <2>0, <3>5 DEF Knows, At, Unsettled
        <4>2. Balanced' /\ StandingFits'
          BY <2>0, <3>4, <4>1 DEF Balanced, StandingFits
        <4> QED BY <2>0, <3>2, <3>3, <4>1, <4>2 DEF Knows, At
      <3> QED BY <2>0, <3>1, <3>2, <3>4, <3>5, SoloAdvance DEF BillingInv, At
    <2>2. CASE invoices[call[p].i].status = "none"
      <3> DEFINE i == call[p].i
                 amount == call[p].sub.adjustment
      <3>1. PICK total : total = TotalOf(call[p].sub)
        OBVIOUS
      <3>2. PICK bill : bill = [status |-> IF total = 0 THEN "paid" ELSE "open", total |-> total,
                    due |-> FALSE, ref |-> IF total = 0 THEN Paid ELSE NoOrder,
                    adjustment |-> amount]
        OBVIOUS
      <3>3. invoices' = [invoices EXCEPT ![i] = bill]
        BY <1>2, <2>2, <3>1, <3>2 DEF CycleBill
      <3>4. PICK st \in {"clear", "advance"} :
              Continue(p, st) /\ st = IF amount # 0 THEN "clear" ELSE "advance"
        BY <1>2, <2>2 DEF CycleBill
      <3> DEFINE c == [call[p] EXCEPT !.at = st]
      <3>5. call' = [call EXCEPT ![p] = c] /\ c.at = st /\ c.sub = call[p].sub
        BY <1>t, <3>4 DEF Continue, CallOf
      <3>6. call'[p] = c
        BY <1>t, <3>5
      <3> HIDE DEF c
      <3>7. amount \in Int /\ i \in 1..Periods /\ invoices[i].adjustment = 0
        BY <2>0, <2>2 DEF SubType, BillingInv, UnbilledBlank
      <3> HIDE DEF i, amount
      <3>8. /\ bill.status \in {"paid", "open"} /\ bill.adjustment = amount
            /\ invoices'[i] = bill /\ \A j \in 1..Periods : j # i => invoices'[j] = invoices[j]
        BY <1>t, <3>2, <3>3, <3>7
      <3>9. Adjusted' = Adjusted + amount
        <4>1. Adjusted' = Adjusted - invoices[i].adjustment + amount
          BY <3>7, <3>8, AdjustedWrite DEF BillingInv
        <4> QED BY <1>t, <3>7, <4>1
      <3>10. Overdue' = Overdue /\ (Debt => Debt') /\ UnbilledBlank'
        BY <2>2, <3>7, <3>8 DEF Overdue, Debt, Delinquent, UnbilledBlank, BillingInv, i
      <3>11. ASSUME Knows(p) PROVE Knows(p)'
        <4>1. call[p].sub = sub /\ Balanced /\ StandingFits /\ amount = sub.adjustment
          BY <2>0, <3>11 DEF Knows, At, Unsettled, amount
        <4>2. StandingFits'
          BY <2>0, <3>10, <4>1 DEF StandingFits
        <4>3. history.prorated = Adjusted'
          BY <1>t, <3>7, <3>9, <4>1 DEF Balanced
        <4>4. amount = 0 => Balanced'
          BY <1>t, <2>0, <3>7, <3>9, <4>1 DEF Balanced
        <4> QED BY <2>0, <3>4, <3>5, <3>6, <4>1, <4>2, <4>3, <4>4 DEF Knows, At
      <3> QED BY <2>0, <3>4, <3>5, <3>10, <3>11, SoloAdvance DEF BillingInv, At
    <2> QED BY <2>1, <2>2
  <1>3. CASE CycleClear(p)
    <2> DEFINE c == [call[p] EXCEPT !.at = "advance"]
    <2>0. /\ call[p].at = "clear" /\ UNCHANGED <<invoices, calm, history>>
          /\ call' = [call EXCEPT ![p] = c] /\ sub'.adjustment = 0 /\ sub'.status = sub.status
      BY <1>3, <1>t DEF CycleClear, At, Quietly, Continue, SubType
    <2>1. c.at = "advance" /\ c.sub = call[p].sub /\ call'[p] = c
      BY <1>t, <2>0 DEF CallOf
    <2> HIDE DEF c
    <2>2. UnbilledBlank' /\ Adjusted' = Adjusted /\ Overdue' = Overdue /\ Debt' = Debt
      BY <2>0, SameDebts DEF BillingInv
    <2>3. ASSUME Knows(p) PROVE Knows(p)'
      <3>1. call[p].sub.status = sub.status /\ history.prorated = Adjusted /\ StandingFits
        BY <2>0, <2>3 DEF Knows, At, Unsettled
      <3>2. Balanced' /\ StandingFits'
        BY <1>t, <2>0, <2>2, <3>1 DEF Balanced, StandingFits
      <3> QED BY <2>0, <2>1, <3>1, <3>2 DEF Knows, At
    <2> QED BY <2>0, <2>1, <2>2, <2>3, SoloAdvance DEF BillingInv, At
  <1>4. CASE CycleAdvance(p)
    <2>0. /\ call[p].at = "advance" /\ UNCHANGED <<invoices, calm, history>>
          /\ call' = [call EXCEPT ![p] = Idle] /\ Idle.at = "idle"
      BY <1>4 DEF CycleAdvance, At, Quietly, Return, Idle
    <2>1. /\ sub'.adjustment = sub.adjustment
          /\ \/ sub'.status = sub.status
             \/ call[p].sub.status = "trial" /\ sub'.status = "active"
      BY <1>4, <1>t DEF CycleAdvance, SubType
    <2>2. UnbilledBlank' /\ Adjusted' = Adjusted /\ Overdue' = Overdue /\ Debt' = Debt
      BY <2>0, SameDebts DEF BillingInv
    <2>3. ASSUME Knows(p) PROVE Balanced' /\ StandingFits'
      <3>1. call[p].sub.status = sub.status /\ Balanced /\ StandingFits
        BY <2>0, <2>3 DEF Knows, At, Unsettled
      <3> QED BY <2>0, <2>1, <2>2, <3>1 DEF Balanced, StandingFits
    <2> QED BY <2>0, <2>2, <2>3, SoloAdvance DEF BillingInv, At
  <1> QED BY <1>1, <1>2, <1>3, <1>4

\* The end of a call's standing: the rest of the call, which knows no more than
\* that money and standing fit.
LEMMA ProceedBilled ==
    ASSUME BillingInv, NEW p \in Procs, ~At(p, "idle"), Proceed(p), calm' = calm,
           Knows(p) => Balanced' /\ StandingFits'
    PROVE  SoloInv'
  <1>t. call \in [Procs -> CallOf(Len(orders))] /\ call[p].after \in {"idle", "post", "heal"}
    BY TypeFacts, AtFacts DEF BillingInv
  <1>1. CASE call[p].after = "idle"
    <2>1. call' = [call EXCEPT ![p] = Idle] /\ Idle.at = "idle"
      BY <1>1 DEF Proceed, Return, Idle
    <2> QED BY <2>1, SoloAdvance DEF BillingInv
  <1>2. CASE call[p].after # "idle"
    <2> DEFINE c == [call[p] EXCEPT !.at = call[p].after]
    <2>1. call' = [call EXCEPT ![p] = c] /\ c.at \in {"post", "heal"} /\ call'[p] = c
      BY <1>2, <1>t DEF Proceed, Continue, CallOf
    <2> HIDE DEF c
    <2>2. ASSUME Knows(p) PROVE Knows(p)'
      BY <2>1, <2>2 DEF Knows, At
    <2> QED BY <2>1, <2>2, SoloAdvance DEF BillingInv
  <1> QED BY <1>1, <1>2

LEMMA OverdueIsDebt == Overdue => Debt
  BY DEF Overdue, Debt, Delinquent

LEMMA StandingBilled ==
    ASSUME BillingInv, NEW p \in Procs, FindDebts(p) \/ FindStanding(p) \/ SaveStanding(p)
    PROVE  UnbilledBlank' /\ SoloInv'
  <1>t. /\ call \in [Procs -> CallOf(Len(orders))] /\ sub \in SubType
        /\ invoices \in [1..Periods -> InvoiceOf(Len(orders))]
    BY TypeFacts DEF BillingInv
  <1>0. UNCHANGED <<invoices, calm, history>>
    BY DEF FindDebts, FindStanding, SaveStanding, Quietly
  <1>s. UnbilledBlank' /\ Adjusted' = Adjusted /\ Overdue' = Overdue /\ Debt' = Debt
    BY <1>0, SameDebts DEF BillingInv
  <1>1. CASE FindDebts(p)
    <2>0. PICK b \in BOOLEAN : b = (\E i \in DOMAIN invoices : Delinquent(invoices[i]))
      OBVIOUS
    <2>1. b = Debt
      BY <1>t, <2>0 DEF Debt
    <2> DEFINE c == [call[p] EXCEPT !.at = "standing", !.debt = b]
    <2>2. call' = [call EXCEPT ![p] = c] /\ c.at = "standing" /\ c.debt = b /\ call'[p] = c
      BY <1>1, <1>t, <2>0 DEF FindDebts, CallOf
    <2> HIDE DEF c
    <2>3. call[p].at = "debts" /\ sub' = sub
      BY <1>1 DEF FindDebts, At
    <2>4. ASSUME Knows(p) PROVE Knows(p)'
      <3>1. Balanced'
        BY <1>0, <1>s, <2>3, <2>4 DEF Knows, At, Balanced
      <3>2. IF b THEN Debt' ELSE ~Overdue'
        BY <1>s, <2>1, OverdueIsDebt
      <3> QED BY <2>2, <3>1, <3>2 DEF Knows, At, Unsettled
    <2> QED BY <1>0, <1>s, <2>2, <2>3, <2>4, SoloAdvance DEF BillingInv, At
  <1>2. CASE FindStanding(p)
    <2>1. call[p].at = "standing" /\ sub' = sub
      BY <1>2 DEF FindStanding, At
    <2>2. CASE StandingFor(sub.status, call[p].debt) = sub.status
      <3>1. Proceed(p)
        BY <1>2, <2>2 DEF FindStanding
      <3>2. ASSUME Knows(p) PROVE Balanced' /\ StandingFits'
        <4>1. Balanced /\ IF call[p].debt THEN Debt ELSE ~Overdue
          BY <2>1, <3>2 DEF Knows, At
        <4>2. StandingFits
          BY <2>2, <4>1 DEF StandingFits, StandingFor
        <4> QED BY <1>0, <1>s, <2>1, <4>1, <4>2 DEF Balanced, StandingFits
      <3> QED BY <1>0, <1>s, <2>1, <3>1, <3>2, ProceedBilled DEF At
    <2>3. CASE StandingFor(sub.status, call[p].debt) # sub.status
      <3> DEFINE c == [call[p] EXCEPT !.at = "save", !.status = sub.status]
      <3>0. call' = [call EXCEPT ![p] = c]
        BY <1>2, <1>t, <2>3 DEF FindStanding
      <3>1. /\ call' = [call EXCEPT ![p] = c] /\ call'[p] = c
            /\ c.at = "save" /\ c.status = sub.status /\ c.debt = call[p].debt
        BY <1>t, <3>0 DEF CallOf
      <3> HIDE DEF c
      <3>2. ASSUME Knows(p) PROVE Knows(p)'
        <4>1. Balanced /\ IF call[p].debt THEN Debt ELSE ~Overdue
          BY <2>1, <3>2 DEF Knows, At
        <4> QED BY <1>0, <1>s, <2>1, <3>1, <4>1 DEF Knows, At, Unsettled, Balanced
      <3> QED BY <1>0, <1>s, <2>1, <3>1, <3>2, SoloAdvance DEF BillingInv, At
    <2> QED BY <2>2, <2>3
  <1>3. CASE SaveStanding(p)
    <2>1. /\ call[p].at = "save" /\ Proceed(p) /\ sub'.adjustment = sub.adjustment
          /\ sub'.status = StandingFor(call[p].status, call[p].debt)
      BY <1>3, <1>t DEF SaveStanding, At, SubType
    <2>2. ASSUME Knows(p) PROVE Balanced' /\ StandingFits'
      <3>1. Balanced /\ call[p].status = sub.status /\ IF call[p].debt THEN Debt ELSE ~Overdue
        BY <2>1, <2>2 DEF Knows, At
      <3>2. StandingFits'
        BY <1>s, <2>1, <3>1 DEF StandingFits, StandingFor
      <3> QED BY <1>0, <1>s, <2>1, <3>1, <3>2 DEF Balanced
    <2> QED BY <1>0, <1>s, <2>1, <2>2, ProceedBilled DEF At
  <1> QED BY <1>1, <1>2, <1>3

LEMMA SweepBilled ==
    ASSUME BillingInv, NEW p \in Procs, SweepFind(p) \/ SweepFlag(p) \/ HealFind(p) \/ HealMark(p)
    PROVE  UnbilledBlank' /\ SoloInv'
  <1>t. /\ call \in [Procs -> CallOf(Len(orders))] /\ sub \in SubType
        /\ invoices \in [1..Periods -> InvoiceOf(Len(orders))] /\ DOMAIN invoices = 1..Periods
        /\ call[p].debt \in BOOLEAN /\ call[p].todo \in SUBSET (1..Periods)
    BY TypeFacts, AtFacts DEF BillingInv
  <1>1. CASE SweepFind(p)
    <2>1. PICK found \in SUBSET (1..Periods), st \in {"heal", "flag"} :
              Begin(p, [Idle EXCEPT !.at = st, !.todo = found, !.after = "heal"])
      BY <1>1, <1>t DEF SweepFind
    <2> DEFINE c == [Idle EXCEPT !.at = st, !.todo = found, !.after = "heal"]
    <2>2. Begin(p, c) /\ c.at = st /\ UNCHANGED <<sub, invoices>>
      BY <1>1, <2>1 DEF SweepFind, Idle
    <2> HIDE DEF c
    <2> QED BY <2>2, BeginBilled
  <1>2. CASE SweepFlag(p)
    <2>1. PICK i \in call[p].todo :
         LET flagged == invoices[i].status = "open" IN
         /\ invoices' = IF flagged THEN [invoices EXCEPT ![i].status = "overdue"] ELSE invoices
         /\ call' = [call EXCEPT ![p].todo = @ \ {i}, ![p].debt = @ \/ flagged,
                ![p].at = CASE call[p].todo # {i} -> "flag"
                            [] call[p].debt \/ flagged -> "debts"
                            [] OTHER -> "heal"]
      BY <1>2 DEF SweepFlag
    <2>2. i \in 1..Periods /\ call[p].at = "flag" /\ UNCHANGED <<sub, calm, history>>
      BY <1>2, <1>t DEF SweepFlag, At, Quietly
    <2>3. PICK flagged \in BOOLEAN : flagged = (invoices[i].status = "open")
      OBVIOUS
    <2>4. PICK b \in BOOLEAN : b = (call[p].debt \/ invoices[i].status = "open")
      OBVIOUS
    <2>5. PICK st : st = CASE call[p].todo # {i} -> "flag"
                           [] call[p].debt \/ invoices[i].status = "open" -> "debts"
                           [] OTHER -> "heal"
      OBVIOUS
    <2> DEFINE c == [call[p] EXCEPT !.todo = call[p].todo \ {i}, !.debt = b, !.at = st]
    <2>6. call' = [call EXCEPT ![p] = c]
      <3>1. call' = [call EXCEPT ![p].todo = call[p].todo \ {i}, ![p].debt = b, ![p].at = st]
        BY <1>t, <2>1, <2>4, <2>5
      <3> QED BY <1>t, <3>1
    <2>7. c.at = st /\ c.debt = b /\ call'[p] = c
      BY <1>t, <2>6 DEF CallOf
    <2> HIDE DEF c
    <2>8. st \in {"flag", "debts", "heal"} /\ (b => st # "heal")
      BY <2>4, <2>5
    <2>9. /\ \A j \in 1..Periods : /\ invoices'[j].adjustment = invoices[j].adjustment
                                   /\ invoices'[j].due = invoices[j].due
                                   /\ j # i => invoices'[j] = invoices[j]
          /\ invoices'[i].status = IF flagged THEN "overdue" ELSE invoices[i].status
      BY <1>t, <2>1, <2>2, <2>3 DEF InvoiceOf
    <2>10. Adjusted' = Adjusted /\ (Debt => Debt') /\ UnbilledBlank'
      <3>1. Debt => Debt'
        BY <2>2, <2>9 DEF Debt, Delinquent
      <3>2. UnbilledBlank'
        BY <2>2, <2>3, <2>9 DEF UnbilledBlank, BillingInv
      <3> QED BY <2>9, <3>1, <3>2, SameAdjusted
    <2>11. ~flagged => Overdue' = Overdue
      <3> SUFFICES ASSUME ~flagged PROVE Overdue' = Overdue
        OBVIOUS
      <3>1. \A j \in 1..Periods : invoices'[j].status = invoices[j].status
        BY <2>9
      <3> QED BY <3>1 DEF Overdue
    <2>12. ASSUME Knows(p) PROVE Knows(p)'
      <3>1. Balanced /\ (sub.status = "pastDue" => Debt) /\ (~call[p].debt => StandingFits)
        BY <2>2, <2>12 DEF Knows, At
      <3>2. Balanced' /\ (sub'.status = "pastDue" => Debt')
        BY <2>2, <2>10, <3>1 DEF Balanced
      <3>3. ~b => StandingFits'
        BY <2>2, <2>3, <2>4, <2>10, <2>11, <3>1 DEF StandingFits
      <3> QED BY <2>7, <2>8, <3>2, <3>3 DEF Knows, At, Unsettled
    <2> QED BY <2>2, <2>6, <2>7, <2>8, <2>10, <2>12, SoloAdvance DEF BillingInv, At
  <1>3. CASE HealFind(p)
    <2>0. call[p].at = "heal" /\ UNCHANGED <<sub, invoices, calm, history>>
      BY <1>3 DEF HealFind, At, Quietly
    <2>1. UnbilledBlank' /\ Adjusted' = Adjusted /\ Overdue' = Overdue /\ Debt' = Debt
      BY <2>0, SameDebts DEF BillingInv
    <2>2. ASSUME Knows(p) PROVE Balanced' /\ StandingFits'
      <3>1. Balanced /\ StandingFits
        BY <2>0, <2>2 DEF Knows, At, Unsettled
      <3> QED BY <2>0, <2>1, <3>1 DEF Balanced, StandingFits
    <2>3. CASE ~Overdue
      <3>1. Return(p)
        BY <1>3, <1>t, <2>3 DEF HealFind, Overdue
      <3>2. call' = [call EXCEPT ![p] = Idle] /\ Idle.at = "idle"
        BY <3>1 DEF Return, Idle
      <3> QED BY <2>0, <2>1, <2>2, <3>2, SoloAdvance DEF BillingInv, At
    <2>4. CASE Overdue
      <3> DEFINE c == [call[p] EXCEPT !.at = "mark"]
      <3>1. call' = [call EXCEPT ![p] = c] /\ c.at = "mark" /\ call'[p] = c
        BY <1>3, <1>t, <2>4 DEF HealFind, Overdue, Continue, CallOf
      <3> HIDE DEF c
      <3>2. ASSUME Knows(p) PROVE Knows(p)'
        BY <2>1, <2>2, <2>4, <3>1, <3>2 DEF Knows, At
      <3> QED BY <2>0, <2>1, <3>1, <3>2, SoloAdvance DEF BillingInv, At
    <2> QED BY <2>3, <2>4
  <1>4. CASE HealMark(p)
    <2>0. /\ call[p].at = "mark" /\ UNCHANGED <<invoices, calm, history>>
          /\ call' = [call EXCEPT ![p] = Idle] /\ Idle.at = "idle"
          /\ sub'.status = "pastDue" /\ sub'.adjustment = sub.adjustment
      BY <1>4, <1>t DEF HealMark, At, Quietly, Return, Idle, SubType
    <2>1. UnbilledBlank' /\ Adjusted' = Adjusted /\ Overdue' = Overdue /\ Debt' = Debt
      BY <2>0, SameDebts DEF BillingInv
    <2>2. ASSUME Knows(p) PROVE Balanced' /\ StandingFits'
      <3>1. Balanced /\ Overdue
        BY <2>0, <2>2 DEF Knows, At
      <3> QED BY <2>0, <2>1, <3>1, OverdueIsDebt DEF Balanced, StandingFits
    <2> QED BY <2>0, <2>1, <2>2, SoloAdvance DEF BillingInv, At
  <1> QED BY <1>1, <1>2, <1>3, <1>4

\* A call that moves on to a step that needs no more than that money fits, and
\* standing unless it is about to be refreshed.
LEMMA MoveBilled ==
    ASSUME BillingInv, NEW p \in Procs, NEW c, call' = [call EXCEPT ![p] = c], calm' = calm,
           history' = history, sub' = sub, Adjusted' = Adjusted, UnbilledBlank',
           call[p].at \in {"charge", "park", "confirm", "post", "void"},
           \/ c.at = "debts"
           \/ /\ c.at \in {"idle", "park", "confirm"}
              /\ Overdue' = Overdue /\ Debt' = Debt
    PROVE  UnbilledBlank' /\ SoloInv'
  <1>1. call'[p] = c
    BY TypeFacts DEF BillingInv
  <1>2. ASSUME Knows(p), c.at # "debts" PROVE Balanced' /\ StandingFits'
    <2>1. Balanced /\ StandingFits
      BY <1>2 DEF Knows, At, Unsettled
    <2> QED BY <1>2, <2>1 DEF Balanced, StandingFits
  <1>3. ASSUME Knows(p), c.at # "idle" PROVE Knows(p)'
    <2>1. Balanced'
      BY <1>3 DEF Knows, At, Balanced
    <2> QED BY <1>1, <1>2, <1>3, <2>1 DEF Knows, At, Unsettled
  <1> QED BY <1>2, <1>3, SoloAdvance DEF BillingInv, At

\* The edits of an invoice that payment makes keep what it adjusts.
LEMMA RefEdited ==
    ASSUME NEW n \in Nat, NEW f \in [1..Periods -> InvoiceOf(n)], NEW k, NEW v,
           NEW g, g = [f EXCEPT ![k].ref = v]
    PROVE  \A j \in 1..Periods : /\ g[j].adjustment = f[j].adjustment /\ g[j].due = f[j].due
                                 /\ g[j].status = f[j].status
  <1>1. g = [f EXCEPT ![k] = [f[k] EXCEPT !.ref = v]]
    OBVIOUS
  <1> QED BY <1>1 DEF InvoiceOf

LEMMA StatusEdited ==
    ASSUME NEW n \in Nat, NEW f \in [1..Periods -> InvoiceOf(n)], NEW k, NEW v, NEW w,
           NEW g, \/ g = [f EXCEPT ![k].status = v]
                  \/ g = [f EXCEPT ![k].status = v, ![k].ref = w]
    PROVE  \A j \in 1..Periods : /\ g[j].adjustment = f[j].adjustment
                                 /\ g[j].status = IF j = k THEN v ELSE f[j].status
  <1>1. CASE g = [f EXCEPT ![k].status = v]
    <2>1. g = [f EXCEPT ![k] = [f[k] EXCEPT !.status = v]]
      BY <1>1
    <2> QED BY <2>1 DEF InvoiceOf
  <1>2. CASE g = [f EXCEPT ![k].status = v, ![k].ref = w]
    <2>1. g = [f EXCEPT ![k] = [f[k] EXCEPT !.status = v, !.ref = w]]
      BY <1>2
    <2> QED BY <2>1 DEF InvoiceOf
  <1> QED BY <1>1, <1>2

LEMMA PayBilled ==
    ASSUME BillingInv, NEW p \in Procs,
           PayCharge(p) \/ PayPark(p) \/ \E i \in DOMAIN invoices : PayRead(p, i)
    PROVE  UnbilledBlank' /\ SoloInv'
  <1>t. /\ call \in [Procs -> CallOf(Len(orders))] /\ Len(orders) \in Nat
        /\ invoices \in [1..Periods -> InvoiceOf(Len(orders))]
    BY TypeFacts DEF BillingInv
  <1>1. ASSUME NEW i, PayRead(p, i) PROVE UnbilledBlank' /\ SoloInv'
    <2>1. PICK c : c = [Idle EXCEPT !.at = "charge", !.i = i, !.status = invoices[i].status,
                                    !.ref = invoices[i].ref]
      OBVIOUS
    <2>2. Begin(p, c) /\ c.at = "charge" /\ UNCHANGED <<sub, invoices>>
      BY <1>1, <2>1 DEF PayRead, BeginOn, Idle
    <2> QED BY <2>2, BeginBilled
  <1>2. CASE PayCharge(p)
    <2>1. call[p].at = "charge" /\ UNCHANGED <<sub, invoices, calm, history>>
      BY <1>2 DEF PayCharge, At, Quietly
    <2>2. UnbilledBlank' /\ Adjusted' = Adjusted /\ Overdue' = Overdue /\ Debt' = Debt
      BY <2>1, SameDebts DEF BillingInv
    <2>3. PICK c : call' = [call EXCEPT ![p] = c] /\ c.at \in {"idle", "park", "confirm"}
      <3>1. CASE Return(p)
        <4>1. call' = [call EXCEPT ![p] = Idle] /\ Idle.at = "idle"
          BY <3>1 DEF Return, Idle
        <4> QED BY <4>1
      <3>2. CASE call' = [call EXCEPT ![p].at = "park", ![p].order = Len(orders')]
        <4> DEFINE c == [call[p] EXCEPT !.at = "park", !.order = Len(orders')]
        <4>1. call' = [call EXCEPT ![p] = c]
          BY <1>t, <3>2
        <4>2. c.at = "park"
          BY <1>t DEF CallOf
        <4> QED BY <4>1, <4>2
      <3>3. CASE call' = [call EXCEPT ![p].at = "confirm", ![p].after = "post"]
        <4> DEFINE c == [call[p] EXCEPT !.at = "confirm", !.after = "post"]
        <4>1. call' = [call EXCEPT ![p] = c]
          BY <1>t, <3>3
        <4>2. c.at = "confirm"
          BY <1>t DEF CallOf
        <4> QED BY <4>1, <4>2
      <3> QED BY <1>2, <3>1, <3>2, <3>3 DEF PayCharge
    <2> QED BY <2>1, <2>2, <2>3, MoveBilled
  <1>3. CASE PayPark(p)
    <2>1. /\ call[p].at = "park" /\ UNCHANGED <<sub, calm, history>>
          /\ call' = [call EXCEPT ![p] = Idle] /\ Idle.at = "idle"
      BY <1>3 DEF PayPark, At, Quietly, Return, Idle
    <2>2. UnbilledBlank' /\ Adjusted' = Adjusted /\ Overdue' = Overdue /\ Debt' = Debt
      <3>1. PICK given : invoices' = invoices
              \/ invoices' = [invoices EXCEPT ![call[p].i].ref = given]
        BY <1>3 DEF PayPark
      <3>2. \A j \in 1..Periods : /\ invoices'[j].status = invoices[j].status
                                  /\ invoices'[j].due = invoices[j].due
                                  /\ invoices'[j].adjustment = invoices[j].adjustment
        <4>1. CASE invoices' = invoices
          BY <4>1
        <4>2. CASE invoices' = [invoices EXCEPT ![call[p].i].ref = given]
          <5>1. PICK k : k = call[p].i
            OBVIOUS
          <5>2. invoices' = [invoices EXCEPT ![k].ref = given]
            BY <4>2, <5>1
          <5> QED BY <1>t, <5>2, RefEdited
        <4> QED BY <3>1, <4>1, <4>2
      <3> QED BY <3>2, SameDebts DEF BillingInv
    <2> QED BY <2>1, <2>2, MoveBilled
  <1> QED BY <1>1, <1>2, <1>3

LEMMA ConfirmBilled ==
    ASSUME BillingInv, NEW p \in Procs,
           \/ Confirm(p) \/ Post(p) \/ VoidSave(p)
           \/ \E i \in DOMAIN invoices : VoidRead(p, i)
           \/ \E o \in DOMAIN orders : Hook(p, o)
    PROVE  UnbilledBlank' /\ SoloInv'
  <1>t. /\ call \in [Procs -> CallOf(Len(orders))] /\ Len(orders) \in Nat
        /\ invoices \in [1..Periods -> InvoiceOf(Len(orders))]
    BY TypeFacts DEF BillingInv
  <1>a. ASSUME \A j \in 1..Periods : /\ invoices'[j].adjustment = invoices[j].adjustment
                                     /\ invoices'[j].status = "none" => invoices[j].status = "none"
        PROVE  UnbilledBlank' /\ Adjusted' = Adjusted
    BY <1>a, SameAdjusted DEF UnbilledBlank, BillingInv
  <1>1. CASE Confirm(p)
    <2> DEFINE i == call[p].i
    <2>1. call[p].at = "confirm" /\ UNCHANGED <<sub, calm, history>>
      BY <1>1 DEF Confirm, At, Quietly
    <2>2. CASE invoices[i].status \in Payable \/ invoices[i].status = "paid"
      <3>1. PICK a : call' = [call EXCEPT ![p].at = "debts", ![p].after = a]
        BY <1>1, <2>2 DEF Confirm
      <3> DEFINE c == [call[p] EXCEPT !.at = "debts", !.after = a]
      <3>2. call' = [call EXCEPT ![p] = c] /\ c.at = "debts"
        BY <1>t, <3>1 DEF CallOf
      <3> HIDE DEF c
      <3>3. \/ invoices' = invoices
            \/ invoices' = [invoices EXCEPT ![i].status = "paid", ![i].ref = Paid]
        BY <1>1 DEF Confirm
      <3>4. \A j \in 1..Periods : /\ invoices'[j].adjustment = invoices[j].adjustment
                                  /\ invoices'[j].status = "none" => invoices[j].status = "none"
        <4> HIDE DEF i
        <4>1. CASE invoices' = invoices
          BY <4>1
        <4>2. CASE invoices' = [invoices EXCEPT ![i].status = "paid", ![i].ref = Paid]
          <5>1. \A j \in 1..Periods :
                  /\ invoices'[j].adjustment = invoices[j].adjustment
                  /\ invoices'[j].status = IF j = i THEN "paid" ELSE invoices[j].status
            BY <1>t, <4>2, StatusEdited
          <5> QED BY <5>1
        <4> QED BY <3>3, <4>1, <4>2
      <3> QED BY <1>a, <2>1, <3>2, <3>4, MoveBilled
    <2>3. CASE ~(invoices[i].status \in Payable \/ invoices[i].status = "paid")
      <3>1. /\ invoices' = invoices /\ call' = [call EXCEPT ![p] = Idle] /\ Idle.at = "idle"
        BY <1>1, <2>3 DEF Confirm, Return, Idle
      <3>2. UnbilledBlank' /\ Adjusted' = Adjusted /\ Overdue' = Overdue /\ Debt' = Debt
        BY <3>1, SameDebts DEF BillingInv
      <3> QED BY <2>1, <3>1, <3>2, MoveBilled
    <2> QED BY <2>2, <2>3
  <1>2. CASE Post(p)
    <2>1. /\ call[p].at = "post" /\ UNCHANGED <<sub, invoices, calm, history>>
          /\ call' = [call EXCEPT ![p] = Idle] /\ Idle.at = "idle"
      BY <1>2 DEF Post, At, Quietly, Return, Idle
    <2>2. UnbilledBlank' /\ Adjusted' = Adjusted /\ Overdue' = Overdue /\ Debt' = Debt
      BY <2>1, SameDebts DEF BillingInv
    <2> QED BY <2>1, <2>2, MoveBilled
  <1>3. CASE VoidSave(p)
    <2> DEFINE c == [call[p] EXCEPT !.at = "debts"]
    <2>1. /\ call[p].at = "void" /\ UNCHANGED <<sub, calm, history>>
          /\ call' = [call EXCEPT ![p] = c]
      BY <1>3, <1>t DEF VoidSave, At, Quietly, Continue
    <2>2. c.at = "debts"
      BY <1>t DEF CallOf
    <2> HIDE DEF c
    <2>3. invoices' = invoices \/ invoices' = [invoices EXCEPT ![call[p].i].status = "void"]
      BY <1>3 DEF VoidSave
    <2>4. \A j \in 1..Periods : /\ invoices'[j].adjustment = invoices[j].adjustment
                                /\ invoices'[j].status = "none" => invoices[j].status = "none"
      <3>1. CASE invoices' = invoices
        BY <3>1
      <3>2. CASE invoices' = [invoices EXCEPT ![call[p].i].status = "void"]
        <4>1. PICK k : k = call[p].i
          OBVIOUS
        <4>2. invoices' = [invoices EXCEPT ![k].status = "void"]
          BY <3>2, <4>1
        <4>3. \A j \in 1..Periods :
                /\ invoices'[j].adjustment = invoices[j].adjustment
                /\ invoices'[j].status = IF j = k THEN "void" ELSE invoices[j].status
          BY <1>t, <4>2, StatusEdited
        <4> QED BY <4>3
      <3> QED BY <2>3, <3>1, <3>2
    <2> QED BY <1>a, <2>1, <2>2, <2>4, MoveBilled
  <1>4. ASSUME NEW i, VoidRead(p, i) PROVE UnbilledBlank' /\ SoloInv'
    <2>1. PICK c : c = [Idle EXCEPT !.at = "void", !.i = i, !.status = invoices[i].status,
                                    !.ref = invoices[i].ref]
      OBVIOUS
    <2>2. Begin(p, c) /\ c.at = "void" /\ UNCHANGED <<sub, invoices>>
      BY <1>4, <2>1 DEF VoidRead, BeginOn, Idle
    <2> QED BY <2>2, BeginBilled
  <1>5. ASSUME NEW o \in DOMAIN orders, Hook(p, o) PROVE UnbilledBlank' /\ SoloInv'
    <2>1. PICK found : Deliver(p, o, found)
      BY <1>5 DEF Hook
    <2>2. UNCHANGED <<sub, invoices>>
      BY <2>1 DEF Deliver
    <2>3. UnbilledBlank' /\ Adjusted' = Adjusted /\ Overdue' = Overdue /\ Debt' = Debt
      BY <2>2, SameDebts DEF BillingInv
    <2>4. CASE found = {}
      <3>1. UNCHANGED <<call, calm, history>>
        BY <2>1, <2>4 DEF Deliver
      <3>2. (Balanced => Balanced') /\ (StandingFits => StandingFits')
        BY <2>2, <2>3, <3>1 DEF Balanced, StandingFits
      <3>3. \A q \in Procs : Knows(q) => Knows(q)'
        BY <2>2, <2>3, <3>1, <3>2 DEF Knows, At
      <3> QED BY <2>3, <3>1, <3>2, <3>3, SoloOutside DEF BillingInv
    <2>5. CASE found # {}
      <3>1. PICK i \in found :
              Begin(p, [Idle EXCEPT !.at = "confirm", !.i = i, !.order = o, !.after = "post"])
        BY <2>1, <2>5 DEF Deliver
      <3>2. PICK c : c = [Idle EXCEPT !.at = "confirm", !.i = i, !.order = o, !.after = "post"]
        OBVIOUS
      <3>3. Begin(p, c) /\ c.at = "confirm"
        BY <3>1, <3>2 DEF Idle
      <3> QED BY <2>2, <3>3, BeginBilled
    <2> QED BY <2>4, <2>5
  <1> QED BY <1>1, <1>2, <1>3, <1>4, <1>5

LEMMA NextBillingInv == BillingInv /\ [Next]_vars => BillingInv'
  <1> SUFFICES ASSUME BillingInv, [Next]_vars PROVE BillingInv'
    OBVIOUS
  <1>t. TypeOK'
    BY NextTyped DEF BillingInv
  <1>1. CASE UNCHANGED vars
    <2>1. UNCHANGED <<sub, invoices, call, calm, history>>
      BY <1>1 DEF vars
    <2>2. UnbilledBlank' /\ Adjusted' = Adjusted /\ Overdue' = Overdue /\ Debt' = Debt
      BY <2>1, SameDebts DEF BillingInv
    <2>3. (Balanced => Balanced') /\ (StandingFits => StandingFits')
      BY <2>1, <2>2 DEF Balanced, StandingFits
    <2>4. \A q \in Procs : Knows(q) => Knows(q)'
      BY <2>1, <2>2, <2>3 DEF Knows, At
    <2> QED BY <1>t, <2>1, <2>2, <2>3, <2>4, SoloOutside DEF BillingInv
  <1>2. ASSUME NEW p \in Procs, Ask(p) PROVE UnbilledBlank' /\ SoloInv'
    BY <1>2, ChangeBilled, CycleBilled, SweepBilled, PayBilled, ConfirmBilled DEF Ask
  <1>3. ASSUME NEW p \in Procs, Advance(p) PROVE UnbilledBlank' /\ SoloInv'
    BY <1>3, ChangeBilled, CycleBilled, StandingBilled, SweepBilled, PayBilled, ConfirmBilled
       DEF Advance
  <1> QED BY <1>t, <1>1, <1>2, <1>3, OutsideBilled, CrashBilled DEF Next, BillingInv

LEMMA BillingInvHolds == Spec => []BillingInv
  BY InitBillingInv, NextBillingInv, PTL DEF Spec

\* What the changes of the plan pro-rated is, between calls that did not overlap
\* and did not die, on the invoices and on the subscription, each amount once.
THEOREM BillingBilledOnce == Spec => []BilledOnce
  <1>1. BillingInv => BilledOnce
    BY DEF BillingInv, SoloInv, Balanced, BilledOnce
  <1> QED BY <1>1, BillingInvHolds, PTL

\* Between such calls an overdue invoice blocks the store, and a blocked store
\* owes something: no order of pays, sweeps, voids, cycles and deliveries of
\* captures leaves the standing behind the debts.
THEOREM BillingStandingMatchesDebt == Spec => []StandingMatchesDebt
  <1>1. BillingInv => StandingMatchesDebt
    BY DEF BillingInv, SoloInv, StandingFits, Overdue, Debt, StandingMatchesDebt
  <1> QED BY <1>1, BillingInvHolds, PTL
-----------------------------------------------------------------------------
(* Part 3: captured money, whatever overlaps or dies. *)

Closed == {"paid", "void"}

\* The order was given to the owner for this invoice.
GivenFor(o, i) == o \in DOMAIN orders /\ orders[o].invoice = i /\ orders[o].given

\* An invoice to be paid bears no order or one the owner was given for it.
ParkedGiven ==
    \A i \in 1..Periods : invoices[i].status \in Payable =>
        invoices[i].ref = NoOrder \/ GivenFor(invoices[i].ref, i)

\* So does the copy of a request to pay; what it ordered is for the same invoice.
PayersFit ==
    \A p \in Procs :
        /\ call[p].at \in {"charge", "park"} =>
              /\ invoices[call[p].i].status # "none"
              /\ call[p].ref = NoOrder \/ GivenFor(call[p].ref, call[p].i)
        /\ At(p, "park") =>
              call[p].order \in DOMAIN orders /\ orders[call[p].order].invoice = call[p].i

\* Until its invoice is closed, the one order an owner was given is parked on it.
SoleIsParked ==
    gateway = "orders" =>
        \A o \in DOMAIN orders : orders[o].given =>
            /\ invoices[orders[o].invoice].status # "none"
            /\ Sole(o) => invoices[orders[o].invoice].ref = o
                          \/ invoices[orders[o].invoice].status \in Closed

OrdersInOrder ==
    \A o \in DOMAIN orders :
        (orders[o].taken => orders[o].given) /\ (orders[o].acked => orders[o].taken)

CreditInv ==
    /\ TypeOK
    /\ ParkedGiven
    /\ PayersFit
    /\ SoleIsParked
    /\ OrdersInOrder
    /\ CapturedIsCredited


\* The steps at which a request to pay holds an order, or is about to get one.
Paying == {"charge", "park"}

\* Of the calls that are paying, this step touches none.
OthersPay == \A q \in Procs : call'[q].at \in Paying => call'[q] = call[q]

LEMMA OthersStay ==
    ASSUME TypeOK, NEW p \in Procs, NEW c, c.at \notin Paying, call' = [call EXCEPT ![p] = c]
    PROVE  OthersPay
  BY TypeFacts DEF OthersPay

LEMMA StaysPaying ==
    ASSUME TypeOK, NEW p \in Procs
    PROVE  /\ Return(p) => OthersPay
           /\ \A st \in Steps \ Paying : Continue(p, st) => OthersPay
           /\ Proceed(p) => OthersPay
           /\ \A c : c.at \notin Paying /\ Begin(p, c) => OthersPay
  <1>t. call \in [Procs -> CallOf(Len(orders))] /\ call[p].after \in {"idle", "post", "heal"}
    BY TypeFacts, AtFacts
  <1>1. ASSUME Return(p) PROVE OthersPay
    <2>1. call' = [call EXCEPT ![p] = Idle] /\ Idle.at \notin Paying
      BY <1>1 DEF Return, Idle, Paying
    <2> QED BY <2>1, OthersStay
  <1>2. ASSUME NEW st \in Steps \ Paying, Continue(p, st) PROVE OthersPay
    <2> DEFINE c == [call[p] EXCEPT !.at = st]
    <2>1. call' = [call EXCEPT ![p] = c] /\ c.at = st
      BY <1>2, <1>t DEF Continue, CallOf
    <2> HIDE DEF c
    <2> QED BY <1>2, <2>1, OthersStay
  <1>3. ASSUME Proceed(p) PROVE OthersPay
    BY <1>1, <1>2, <1>3, <1>t DEF Proceed, Steps, OnInvoice, Paying
  <1>4. ASSUME NEW c, c.at \notin Paying, Begin(p, c) PROVE OthersPay
    BY <1>4, OthersStay DEF Begin
  <1> QED BY <1>1, <1>2, <1>3, <1>4

\* A step that makes no order and gives none: invoices are written, sent,
\* flagged or closed, and a request to pay reads one.
LEMMA InvoicesMoved ==
    ASSUME CreditInv, TypeOK', orders' = orders, gateway' = gateway,
           \A i \in 1..Periods :
              \/ /\ invoices'[i].ref = invoices[i].ref
                 /\ \/ invoices'[i].status = invoices[i].status
                    \/ {invoices[i].status, invoices'[i].status} \subseteq Payable
              \/ invoices'[i].status \in Closed
              \/ /\ invoices[i].status = "none" /\ invoices'[i].status = "open"
                 /\ invoices'[i].ref = NoOrder,
           \A q \in Procs : call'[q].at \in Paying =>
              \/ call'[q] = call[q]
              \/ /\ call'[q].at = "charge" /\ call'[q].i \in 1..Periods
                 /\ invoices[call'[q].i].status \in Payable
                 /\ call'[q].ref = invoices[call'[q].i].ref
    PROVE  CreditInv'
  <1>t. /\ \A q \in Procs : call[q].at \in Paying => call[q].i \in 1..Periods
        /\ \A o \in DOMAIN orders : orders[o].invoice \in 1..Periods
        /\ \A q \in Procs : call'[q].at \in Paying => call'[q].i \in 1..Periods
    <2>1. \A q \in Procs : call[q].at \in Paying => call[q].i \in 1..Periods
      BY AtFacts DEF CreditInv, Paying, OnInvoice
    <2>2. \A o \in DOMAIN orders : orders[o].invoice \in 1..Periods
      <3>1. orders \in Seq(OrderType)
        BY TypeFacts DEF CreditInv
      <3>2. \A o \in DOMAIN orders : orders[o] \in OrderType
        BY <3>1
      <3> QED BY <3>2 DEF OrderType
    <2> QED BY <2>1, <2>2
  <1>n. /\ Payable = {"open", "overdue"} /\ Closed = {"paid", "void"} /\ Paying = {"charge", "park"}
    BY DEF Payable, Closed, Paying
  <1>1. \A i \in 1..Periods : invoices[i].status # "none" => invoices'[i].status # "none"
    BY <1>n
  <1>2. \A i \in 1..Periods : invoices[i].status \in Closed => invoices'[i].status \in Closed
    BY <1>n
  <1>3. ParkedGiven'
    BY <1>n DEF CreditInv, ParkedGiven, GivenFor
  <1>4. PayersFit'
    <2> SUFFICES ASSUME NEW q \in Procs, call'[q].at \in Paying
                 PROVE  /\ invoices'[call'[q].i].status # "none"
                        /\ call'[q].ref = NoOrder \/ GivenFor(call'[q].ref, call'[q].i)
                        /\ call'[q].at = "park" =>
                              /\ call'[q].order \in DOMAIN orders
                              /\ orders[call'[q].order].invoice = call'[q].i
      BY DEF PayersFit, GivenFor, At, Paying
    <2>1. CASE call'[q] = call[q]
      BY <1>1, <1>t, <2>1 DEF CreditInv, PayersFit, At, Paying
    <2>2. CASE call'[q] # call[q]
      BY <1>1, <1>n, <1>t, <2>2 DEF CreditInv, ParkedGiven
    <2> QED BY <2>1, <2>2
  <1>5. SoleIsParked'
    <2> SUFFICES ASSUME gateway = "orders", NEW o \in DOMAIN orders, orders[o].given
                 PROVE  /\ invoices'[orders[o].invoice].status # "none"
                        /\ Sole(o) => invoices'[orders[o].invoice].ref = o
                                      \/ invoices'[orders[o].invoice].status \in Closed
      BY DEF SoleIsParked, Sole
    <2> DEFINE i == orders[o].invoice
    <2>1. i \in 1..Periods /\ invoices[i].status # "none"
          /\ (Sole(o) => invoices[i].ref = o \/ invoices[i].status \in Closed)
      BY <1>t DEF CreditInv, SoleIsParked
    <2> HIDE DEF i
    <2>2. invoices'[i].ref = invoices[i].ref \/ invoices'[i].status \in Closed
      BY <2>1
    <2>3. invoices'[i].status # "none" /\ (invoices[i].status \in Closed
            => invoices'[i].status \in Closed)
      BY <1>1, <1>2, <2>1
    <2> QED BY <2>1, <2>2, <2>3 DEF i
  <1>6. OrdersInOrder' /\ CapturedIsCredited'
    BY <1>2, <1>n, <1>t DEF CreditInv, OrdersInOrder, CapturedIsCredited, Sole
  <1> QED BY <1>3, <1>4, <1>5, <1>6 DEF CreditInv

LEMMA InitCreditInv == Init => CreditInv
  <1> SUFFICES ASSUME Init PROVE CreditInv
    OBVIOUS
  <1>1. TypeOK /\ DOMAIN orders = {}
    BY InitTyped DEF Init
  <1>2. (\A i \in 1..Periods : invoices[i].status = "none") /\ \A p \in Procs : call[p].at = "idle"
    BY DEF Init, Unbilled, Idle
  <1> QED BY <1>1, <1>2 DEF CreditInv, ParkedGiven, PayersFit, SoleIsParked, OrdersInOrder,
                            CapturedIsCredited, Payable, At

\* Invoices and orders stay as they are, and nobody pays who did not.
LEMMA NothingMoved ==
    ASSUME CreditInv, TypeOK', UNCHANGED <<orders, invoices, gateway>>, OthersPay
    PROVE  CreditInv'
  BY InvoicesMoved DEF OthersPay

LEMMA CycleCredited ==
    ASSUME CreditInv, TypeOK', NEW p \in Procs,
           \/ ChangeRead(p) \/ ChangeSave(p)
           \/ CycleRead(p) \/ CycleBill(p) \/ CycleClear(p) \/ CycleAdvance(p)
    PROVE  CreditInv'
  <1>t. /\ TypeOK /\ invoices \in [1..Periods -> InvoiceOf(Len(orders))]
        /\ orders' = orders /\ gateway' = gateway
    BY TypeFacts DEF CreditInv, ChangeRead, ChangeSave, CycleRead, CycleBill, CycleClear,
                     CycleAdvance, Money
  <1>s. {"clear", "advance"} \subseteq Steps \ Paying
    BY DEF Steps, OnSub, Cycling, Paying
  <1>1. CASE ChangeRead(p) \/ CycleRead(p)
    <2>1. PICK c : c.at \notin Paying /\ Begin(p, c)
      <3>1. CASE ChangeRead(p)
        <4> DEFINE c == [Idle EXCEPT !.at = "change", !.sub = sub]
        <4>1. c.at \notin Paying /\ Begin(p, c)
          BY <3>1 DEF ChangeRead, Idle, Paying
        <4> QED BY <4>1
      <3>2. CASE CycleRead(p)
        <4> DEFINE c == [Idle EXCEPT !.at = "bill", !.sub = sub, !.i = sub.period]
        <4>1. c.at \notin Paying /\ Begin(p, c)
          BY <3>2 DEF CycleRead, Idle, Paying
        <4> QED BY <4>1
      <3> QED BY <1>1, <3>1, <3>2
    <2>2. OthersPay
      BY <1>t, <2>1, StaysPaying
    <2> QED BY <1>1, <1>t, <2>2, NothingMoved DEF ChangeRead, CycleRead
  <1>2. CASE ChangeSave(p) \/ CycleAdvance(p)
    <2>1. OthersPay /\ invoices' = invoices
      BY <1>2, <1>t, StaysPaying DEF ChangeSave, CycleAdvance
    <2> QED BY <1>t, <2>1, NothingMoved
  <1>3. CASE CycleClear(p)
    <2>1. OthersPay /\ invoices' = invoices
      BY <1>3, <1>t, <1>s, StaysPaying DEF CycleClear
    <2> QED BY <1>t, <2>1, NothingMoved
  <1>4. CASE CycleBill(p)
    <2>1. OthersPay
      BY <1>4, <1>t, <1>s, StaysPaying DEF CycleBill
    <2>2. CASE invoices' = invoices
      BY <1>t, <2>1, <2>2, NothingMoved
    <2>3. CASE invoices' # invoices
      <3>1. PICK total : total = TotalOf(call[p].sub)
        OBVIOUS
      <3>2. PICK bill : bill = [status |-> IF total = 0 THEN "paid" ELSE "open", total |-> total,
                    due |-> FALSE, ref |-> IF total = 0 THEN Paid ELSE NoOrder,
                    adjustment |-> call[p].sub.adjustment]
        OBVIOUS
      <3>3. invoices' = [invoices EXCEPT ![call[p].i] = bill] /\ invoices[call[p].i].status = "none"
        BY <1>4, <2>3, <3>1, <3>2 DEF CycleBill
      <3>4. bill.status = "paid" \/ (bill.status = "open" /\ bill.ref = NoOrder)
        <4>1. CASE total = 0
          BY <3>2, <4>1
        <4>2. CASE total # 0
          BY <3>2, <4>2
        <4> QED BY <4>1, <4>2
      <3>5. \A i \in 1..Periods :
              \/ invoices'[i] = invoices[i]
              \/ invoices[i].status = "none" /\ invoices'[i] = bill
        BY <1>t, <3>3
      <3> QED BY <1>t, <2>1, <3>4, <3>5, InvoicesMoved DEF OthersPay, Closed
    <2> QED BY <2>2, <2>3
  <1> QED BY <1>1, <1>2, <1>3, <1>4

LEMMA SweepCredited ==
    ASSUME CreditInv, TypeOK', NEW p \in Procs,
           \/ FindDebts(p) \/ FindStanding(p) \/ SaveStanding(p)
           \/ SweepFind(p) \/ SweepFlag(p) \/ HealFind(p) \/ HealMark(p)
    PROVE  CreditInv'
  <1>t. /\ TypeOK /\ invoices \in [1..Periods -> InvoiceOf(Len(orders))]
        /\ call \in [Procs -> CallOf(Len(orders))]
        /\ orders' = orders /\ gateway' = gateway
    BY TypeFacts DEF CreditInv, FindDebts, FindStanding, SaveStanding, SweepFind, SweepFlag,
                     HealFind, HealMark, Money
  <1>1. CASE FindDebts(p)
    <2>1. call' = [call EXCEPT ![p] = [call[p] EXCEPT !.at = "standing",
                      !.debt = \E i \in DOMAIN invoices : Delinquent(invoices[i])]]
      BY <1>1, <1>t DEF FindDebts
    <2>2. [call[p] EXCEPT !.at = "standing",
              !.debt = \E i \in DOMAIN invoices : Delinquent(invoices[i])].at \notin Paying
      BY <1>t DEF CallOf, Paying
    <2>3. OthersPay
      BY <1>t, <2>1, <2>2, OthersStay
    <2> QED BY <1>1, <1>t, <2>3, NothingMoved DEF FindDebts
  <1>2. CASE FindStanding(p)
    <2>1. CASE Proceed(p)
      BY <1>2, <1>t, <2>1, StaysPaying, NothingMoved DEF FindStanding
    <2>2. CASE ~Proceed(p)
      <3>1. call' = [call EXCEPT ![p] = [call[p] EXCEPT !.at = "save", !.status = sub.status]]
        BY <1>2, <1>t, <2>2 DEF FindStanding
      <3>2. [call[p] EXCEPT !.at = "save", !.status = sub.status].at \notin Paying
        BY <1>t DEF CallOf, Paying
      <3>3. OthersPay
        BY <1>t, <3>1, <3>2, OthersStay
      <3> QED BY <1>2, <1>t, <3>3, NothingMoved DEF FindStanding
    <2> QED BY <2>1, <2>2
  <1>3. CASE SaveStanding(p)
    BY <1>3, <1>t, StaysPaying, NothingMoved DEF SaveStanding
  <1>4. CASE SweepFind(p)
    <2>1. PICK found \in SUBSET (1..Periods), st \in {"heal", "flag"} :
              Begin(p, [Idle EXCEPT !.at = st, !.todo = found, !.after = "heal"])
      BY <1>4, <1>t DEF SweepFind
    <2> DEFINE c == [Idle EXCEPT !.at = st, !.todo = found, !.after = "heal"]
    <2>2. Begin(p, c) /\ c.at \notin Paying
      BY <2>1 DEF Idle, Paying
    <2> HIDE DEF c
    <2>3. OthersPay
      BY <1>t, <2>2, StaysPaying
    <2> QED BY <1>4, <1>t, <2>3, NothingMoved DEF SweepFind
  <1>5. CASE SweepFlag(p)
    <2>1. PICK i \in call[p].todo, b \in BOOLEAN, st \in {"flag", "debts", "heal"} :
            /\ invoices' = IF invoices[i].status = "open"
                           THEN [invoices EXCEPT ![i].status = "overdue"] ELSE invoices
            /\ call' = [call EXCEPT ![p].todo = call[p].todo \ {i}, ![p].debt = b, ![p].at = st]
      <3>1. PICK i \in call[p].todo :
         LET flagged == invoices[i].status = "open" IN
         /\ invoices' = IF flagged THEN [invoices EXCEPT ![i].status = "overdue"] ELSE invoices
         /\ call' = [call EXCEPT ![p].todo = @ \ {i}, ![p].debt = @ \/ flagged,
                ![p].at = CASE call[p].todo # {i} -> "flag"
                            [] call[p].debt \/ flagged -> "debts"
                            [] OTHER -> "heal"]
        BY <1>5 DEF SweepFlag
      <3>2. PICK b \in BOOLEAN : b = (call[p].debt \/ invoices[i].status = "open")
        OBVIOUS
      <3>3. PICK st : st = CASE call[p].todo # {i} -> "flag"
                            [] call[p].debt \/ invoices[i].status = "open" -> "debts"
                            [] OTHER -> "heal"
        OBVIOUS
      <3>4. st \in {"flag", "debts", "heal"}
        BY <3>3
      <3>5. call' = [call EXCEPT ![p].todo = call[p].todo \ {i}, ![p].debt = b, ![p].at = st]
        BY <3>1, <3>2, <3>3, <1>t
      <3>6. invoices' = IF invoices[i].status = "open"
                        THEN [invoices EXCEPT ![i].status = "overdue"] ELSE invoices
        BY <3>1
      <3>7. i \in call[p].todo
        BY <3>1
      <3> QED BY <3>4, <3>5, <3>6, <3>7
    <2> DEFINE c == [call[p] EXCEPT !.todo = call[p].todo \ {i}, !.debt = b, !.at = st]
    <2>2. call' = [call EXCEPT ![p] = c]
      BY <1>t, <2>1
    <2>3. c.at \notin Paying
      BY <1>t DEF CallOf, Paying
    <2> HIDE DEF c
    <2>4. OthersPay
      BY <1>t, <2>2, <2>3, OthersStay
    <2>5. CASE invoices[i].status # "open"
      BY <1>t, <2>1, <2>4, <2>5, NothingMoved
    <2>6. CASE invoices[i].status = "open"
      <3>1. invoices' = [invoices EXCEPT ![i] = [invoices[i] EXCEPT !.status = "overdue"]]
        BY <2>1, <2>6
      <3>2. i \in 1..Periods
        BY <1>t, <2>1, AtFacts
      <3>3. \A j \in 1..Periods : /\ invoices'[j].ref = invoices[j].ref
                                  /\ \/ invoices'[j].status = invoices[j].status
                                     \/ {invoices[j].status, invoices'[j].status} \subseteq Payable
        BY <1>t, <2>6, <3>1, <3>2 DEF InvoiceOf, Payable
      <3> QED BY <1>t, <2>4, <3>3, InvoicesMoved DEF OthersPay
    <2> QED BY <2>5, <2>6
  <1>6. CASE HealFind(p)
    <2>1. "mark" \in Steps \ Paying
      BY DEF Steps, Paying
    <2> QED BY <1>6, <1>t, <2>1, StaysPaying, NothingMoved DEF HealFind
  <1>7. CASE HealMark(p)
    BY <1>7, <1>t, StaysPaying, NothingMoved DEF HealMark
  <1> QED BY <1>1, <1>2, <1>3, <1>4, <1>5, <1>6, <1>7

LEMMA SoleShrinks ==
    ASSUME NEW o \in DOMAIN orders, DOMAIN orders \subseteq DOMAIN orders', Sole(o)',
           \A k \in DOMAIN orders : /\ orders'[k].invoice = orders[k].invoice
                                    /\ orders[k].given => orders'[k].given
    PROVE  Sole(o)
  BY DEF Sole

\* What stays true of the orders an owner was given as more are made and given.
LEMMA GivenGrows ==
    ASSUME NEW o, NEW i, GivenFor(o, i), DOMAIN orders \subseteq DOMAIN orders',
           \A k \in DOMAIN orders : /\ orders'[k].invoice = orders[k].invoice
                                    /\ orders[k].given => orders'[k].given
    PROVE  GivenFor(o, i)'
  BY DEF GivenFor

LEMMA OrdersTyped ==
    ASSUME TypeOK
    PROVE  /\ \A o \in DOMAIN orders : orders[o] \in OrderType /\ orders[o].invoice \in 1..Periods
           /\ DOMAIN orders = 1..Len(orders) /\ Len(orders) \in Nat
  <1>1. orders \in Seq(OrderType)
    BY TypeFacts
  <1>2. \A o \in DOMAIN orders : orders[o] \in OrderType
    BY <1>1
  <1> QED BY <1>1, <1>2 DEF OrderType

\* The gateway takes the money of an order, or is told that it was dealt with.
LEMMA CaptureCredited ==
    ASSUME CreditInv, TypeOK', NEW o \in DOMAIN orders,
           UNCHANGED <<invoices, gateway, call>>,
           \/ orders[o].given /\ orders' = [orders EXCEPT ![o].taken = TRUE]
           \/ /\ orders[o].taken /\ orders' = [orders EXCEPT ![o].acked = TRUE]
              /\ Sole(o) => invoices[orders[o].invoice].status \in Closed
    PROVE  CreditInv'
  <1>t. \A k \in DOMAIN orders : orders[k] \in OrderType /\ orders[k].invoice \in 1..Periods
    BY OrdersTyped DEF CreditInv
  <1>1. DOMAIN orders' = DOMAIN orders
    OBVIOUS
  <1>2. \A k \in DOMAIN orders : orders'[k].invoice = orders[k].invoice
                                 /\ orders'[k].given = orders[k].given
    BY <1>t DEF OrderType
  <1>3. \A k \in DOMAIN orders : Sole(k)' <=> Sole(k)
    BY <1>1, <1>2 DEF Sole
  <1>4. ParkedGiven' /\ PayersFit' /\ SoleIsParked'
    BY <1>1, <1>2, <1>3 DEF CreditInv, ParkedGiven, PayersFit, SoleIsParked, GivenFor, At
  <1>5. OrdersInOrder'
    BY <1>t, <1>1, <1>2 DEF CreditInv, OrdersInOrder, OrderType
  <1>6. CapturedIsCredited'
    <2> SUFFICES ASSUME NEW k \in DOMAIN orders, orders'[k].acked, Sole(k)
                 PROVE  invoices[orders[k].invoice].status \in Closed
      BY <1>1, <1>2, <1>3 DEF CapturedIsCredited, Closed
    <2>1. CASE orders[k].acked
      BY <2>1 DEF CreditInv, CapturedIsCredited, Closed
    <2>2. CASE ~orders[k].acked
      <3>1. k = o /\ orders' = [orders EXCEPT ![o].acked = TRUE]
        BY <1>t, <2>2 DEF OrderType
      <3>2. orders' # [orders EXCEPT ![o].taken = TRUE]
        BY <1>t, <2>2, <3>1 DEF OrderType
      <3> QED BY <3>1, <3>2
    <2> QED BY <2>1, <2>2
  <1> QED BY <1>4, <1>5, <1>6 DEF CreditInv

LEMMA HookCredited ==
    ASSUME CreditInv, TypeOK', NEW p \in Procs, NEW o \in DOMAIN orders, Hook(p, o)
    PROVE  CreditInv'
  <1>t. TypeOK /\ DOMAIN invoices = 1..Periods
        /\ invoices \in [1..Periods -> InvoiceOf(Len(orders))]
    BY TypeFacts DEF CreditInv
  <1> DEFINE found == {i \in DOMAIN invoices : invoices[i].ref = o
          /\ invoices[i].status \in Payable}
  <1>1. Deliver(p, o, found)
    BY DEF Hook
  <1>2. CASE found = {}
    <2>1. /\ gateway = "orders" /\ orders[o].taken /\ orders' = [orders EXCEPT ![o].acked = TRUE]
          /\ UNCHANGED <<invoices, gateway, call>>
      BY <1>1, <1>2 DEF Deliver
    <2>2. orders[o].given /\ orders[o].invoice \in 1..Periods
      BY <1>t, <2>1, OrdersTyped DEF CreditInv, OrdersInOrder
    <2>3. ASSUME Sole(o) PROVE invoices[orders[o].invoice].status \in Closed
      <3> DEFINE i == orders[o].invoice
      <3>1. invoices[i].status # "none" /\ (invoices[i].ref = o \/ invoices[i].status \in Closed)
        BY <2>1, <2>2, <2>3 DEF CreditInv, SoleIsParked
      <3>2. invoices[i].ref = o => invoices[i].status \notin Payable
        BY <1>2, <1>t, <2>2
      <3>3. invoices[i].status \in {"none", "open", "overdue", "paid", "void"}
        BY <1>t, <2>2 DEF InvoiceOf
      <3> QED BY <3>1, <3>2, <3>3 DEF Closed, Payable
    <2> QED BY <2>1, <2>3, CaptureCredited
  <1>3. CASE found # {}
    <2>1. PICK i \in found :
            Begin(p, [Idle EXCEPT !.at = "confirm", !.i = i, !.order = o, !.after = "post"])
      BY <1>1, <1>3 DEF Deliver
    <2>2. PICK c : c = [Idle EXCEPT !.at = "confirm", !.i = i, !.order = o, !.after = "post"]
      OBVIOUS
    <2>3. Begin(p, c) /\ c.at \notin Paying /\ UNCHANGED <<orders, invoices, gateway>>
      BY <1>1, <1>3, <2>1, <2>2 DEF Deliver, Idle, Paying
    <2>4. OthersPay
      BY <1>t, <2>3, StaysPaying
    <2> QED BY <2>3, <2>4, NothingMoved
  <1> QED BY <1>2, <1>3

LEMMA ConfirmCredited ==
    ASSUME CreditInv, TypeOK', NEW p \in Procs,
           \/ Confirm(p) \/ Post(p) \/ VoidSave(p)
           \/ \E i \in DOMAIN invoices : VoidRead(p, i) \/ PayRead(p, i)
    PROVE  CreditInv'
  <1>t. /\ TypeOK /\ invoices \in [1..Periods -> InvoiceOf(Len(orders))]
        /\ DOMAIN invoices = 1..Periods
        /\ call \in [Procs -> CallOf(Len(orders))]
        /\ orders' = orders /\ gateway' = gateway
    BY TypeFacts DEF CreditInv, Confirm, Post, VoidSave, VoidRead, PayRead, Money
  <1>1. CASE Confirm(p)
    <2>1. OthersPay
      <3>1. CASE Return(p)
        BY <1>t, <3>1, StaysPaying
      <3>2. CASE ~Return(p)
        <4>1. PICK a : call' = [call EXCEPT ![p].at = "debts", ![p].after = a]
          BY <1>1, <3>2 DEF Confirm
        <4> DEFINE c == [call[p] EXCEPT !.at = "debts", !.after = a]
        <4>2. call' = [call EXCEPT ![p] = c] /\ c.at \notin Paying
          BY <1>t, <4>1 DEF CallOf, Paying
        <4> HIDE DEF c
        <4> QED BY <1>t, <4>2, OthersStay
      <3> QED BY <3>1, <3>2
    <2>2. \A j \in 1..Periods : invoices'[j] = invoices[j] \/ invoices'[j].status \in Closed
      <3>1. CASE invoices' = invoices
        BY <3>1
      <3>2. CASE invoices' # invoices
        <4>1. PICK k : k = call[p].i
          OBVIOUS
        <4>2. invoices' = [invoices EXCEPT ![k].status = "paid", ![k].ref = Paid]
          BY <1>1, <3>2, <4>1 DEF Confirm
        <4>3. invoices' = [invoices EXCEPT ![k] = [invoices[k] EXCEPT !.status = "paid", !.ref = Paid]]
          BY <4>2
        <4> QED BY <1>t, <4>3 DEF InvoiceOf, Closed
      <3> QED BY <3>1, <3>2
    <2> QED BY <1>t, <2>1, <2>2, InvoicesMoved DEF OthersPay
  <1>2. CASE Post(p)
    BY <1>2, <1>t, StaysPaying, NothingMoved DEF Post
  <1>3. CASE VoidSave(p)
    <2>1. "debts" \in Steps \ Paying
      BY DEF Steps, Paying
    <2>2. OthersPay
      BY <1>3, <1>t, <2>1, StaysPaying DEF VoidSave
    <2>3. \A j \in 1..Periods : invoices'[j] = invoices[j] \/ invoices'[j].status \in Closed
      <3>1. PICK k : k = call[p].i
        OBVIOUS
      <3>2. invoices' = invoices \/ invoices' = [invoices EXCEPT ![k].status = "void"]
        BY <1>3, <3>1 DEF VoidSave
      <3>3. CASE invoices' = invoices
        BY <3>3
      <3>4. CASE invoices' = [invoices EXCEPT ![k].status = "void"]
        <4>1. invoices' = [invoices EXCEPT ![k] = [invoices[k] EXCEPT !.status = "void"]]
          BY <3>4
        <4> QED BY <1>t, <4>1 DEF InvoiceOf, Closed
      <3> QED BY <3>2, <3>3, <3>4
    <2> QED BY <1>t, <2>2, <2>3, InvoicesMoved DEF OthersPay
  <1>4. ASSUME NEW i \in DOMAIN invoices, VoidRead(p, i) PROVE CreditInv'
    <2>1. PICK c : c = [Idle EXCEPT !.at = "void", !.i = i, !.status = invoices[i].status,
                                    !.ref = invoices[i].ref]
      OBVIOUS
    <2>2. Begin(p, c) /\ c.at \notin Paying /\ invoices' = invoices
      BY <1>4, <2>1 DEF VoidRead, BeginOn, Idle, Paying
    <2>3. OthersPay
      BY <1>t, <2>2, StaysPaying
    <2> QED BY <1>t, <2>2, <2>3, NothingMoved
  <1>5. ASSUME NEW i \in DOMAIN invoices, PayRead(p, i) PROVE CreditInv'
    <2>1. PICK c : c = [Idle EXCEPT !.at = "charge", !.i = i, !.status = invoices[i].status,
                                    !.ref = invoices[i].ref]
      OBVIOUS
    <2>2. /\ call' = [call EXCEPT ![p] = c] /\ c.at = "charge" /\ c.i = i /\ c.ref = invoices[i].ref
          /\ invoices' = invoices /\ i \in 1..Periods /\ invoices[i].status \in Payable
      BY <1>5, <1>t, <2>1 DEF PayRead, BeginOn, Begin, Idle
    <2>3. \A q \in Procs : call'[q].at \in Paying =>
              \/ call'[q] = call[q]
              \/ /\ call'[q].at = "charge" /\ call'[q].i \in 1..Periods
                 /\ invoices[call'[q].i].status \in Payable
                 /\ call'[q].ref = invoices[call'[q].i].ref
      BY <1>t, <2>2
    <2> QED BY <1>t, <2>2, <2>3, InvoicesMoved
  <1> QED BY <1>1, <1>2, <1>3, <1>4, <1>5

\* What the two invariants about GivenFor say of the next state.
LEMMA FitNext ==
    /\ (\A q \in Procs : \A r, i, o :
           /\ call'[q].at \in Paying
           /\ r = call'[q].ref /\ i = call'[q].i /\ o = call'[q].order
           => /\ invoices'[i].status # "none"
              /\ r = NoOrder \/ GivenFor(r, i)'
              /\ call'[q].at = "park" => o \in DOMAIN orders' /\ orders'[o].invoice = i)
       => PayersFit'
    /\ (\A i \in 1..Periods : \A r : r = invoices'[i].ref /\ invoices'[i].status \in Payable
           => r = NoOrder \/ GivenFor(r, i)')
       => ParkedGiven'
  BY DEF PayersFit, ParkedGiven, GivenFor, Payable, At, Paying

LEMMA ChargeCredited ==
    ASSUME CreditInv, TypeOK', NEW p \in Procs, PayCharge(p)
    PROVE  CreditInv'
  <1> DEFINE n == Len(orders)
  <1>t. /\ TypeOK /\ call \in [Procs -> CallOf(n)] /\ n \in Nat /\ DOMAIN orders = 1..n
        /\ orders \in Seq(OrderType)
        /\ \A o \in DOMAIN orders : orders[o] \in OrderType /\ orders[o].invoice \in 1..Periods
    BY TypeFacts, OrdersTyped DEF CreditInv
  <1>0. /\ UNCHANGED <<invoices, gateway>> /\ call[p].at = "charge"
        /\ call[p].i \in 1..Periods
    BY <1>t, AtFacts DEF PayCharge, At, OnInvoice
  <1>1. CASE Return(p) /\ orders' = orders
    BY <1>0, <1>1, <1>t, StaysPaying, NothingMoved
  <1>2. ASSUME NEW taken \in BOOLEAN, orders' = Append(orders, Order(call[p].i, taken)),
               taken => gateway # "orders",
               \A q \in Procs : call'[q].at \in Paying =>
                  \/ call'[q] = call[q]
                  \/ /\ q = p /\ call'[p].at = "park" /\ call'[p].order = n + 1
                     /\ call'[p].ref = call[p].ref /\ call'[p].i = call[p].i
        PROVE  CreditInv'
    <2>1. /\ DOMAIN orders' = 1..(n + 1) /\ n + 1 \notin DOMAIN orders
          /\ \A k \in DOMAIN orders : orders'[k] = orders[k]
          /\ orders'[n + 1] = Order(call[p].i, taken)
      BY <1>2, <1>t
    <2>2. /\ orders'[n + 1].invoice = call[p].i /\ orders'[n + 1].given = taken
          /\ orders'[n + 1].taken = taken /\ orders'[n + 1].acked = FALSE
      BY <2>1 DEF Order
    <2>3. \A k \in DOMAIN orders' : k \in DOMAIN orders \/ k = n + 1
      BY <1>t, <2>1
    <2> HIDE DEF n
    <2>4. DOMAIN orders \subseteq DOMAIN orders' /\ n + 1 \in DOMAIN orders'
      BY <1>t, <2>1 DEF n
    <2>5. \A o, i : GivenFor(o, i) => GivenFor(o, i)'
      BY <2>1, <2>4, GivenGrows
    <2>6. \A o \in DOMAIN orders : Sole(o)' => Sole(o)
      BY <2>1, <2>4, SoleShrinks
    <2>7. ParkedGiven'
      BY <1>0, <2>5 DEF CreditInv, ParkedGiven
    <2>8. PayersFit'
      <3> SUFFICES ASSUME NEW q \in Procs, NEW r, NEW i, NEW o, call'[q].at \in Paying,
                          r = call'[q].ref, i = call'[q].i, o = call'[q].order
                   PROVE  /\ invoices[i].status # "none"
                          /\ r = NoOrder \/ GivenFor(r, i)'
                          /\ call'[q].at = "park" => o \in DOMAIN orders' /\ orders'[o].invoice = i
        BY <1>0, FitNext
      <3>1. CASE call'[q] = call[q]
        BY <2>1, <2>4, <2>5, <3>1 DEF CreditInv, PayersFit, At, Paying
      <3>2. CASE call'[q] # call[q]
        <4>1. /\ q = p /\ call'[p].at = "park" /\ call'[p].order = n + 1
              /\ call'[p].ref = call[p].ref /\ call'[p].i = call[p].i
          BY <1>2, <3>2
        <4>2. /\ invoices[call[p].i].status # "none"
              /\ call[p].ref = NoOrder \/ GivenFor(call[p].ref, call[p].i)
          BY <1>0 DEF CreditInv, PayersFit
        <4> QED BY <2>2, <2>4, <2>5, <4>1, <4>2
      <3> QED BY <3>1, <3>2
    <2>9. SoleIsParked'
      <3> SUFFICES ASSUME gateway = "orders", NEW o \in DOMAIN orders', orders'[o].given
                   PROVE  /\ invoices[orders'[o].invoice].status # "none"
                          /\ Sole(o)' => invoices[orders'[o].invoice].ref = o
                                \/ invoices[orders'[o].invoice].status \in Closed
        BY <1>0 DEF SoleIsParked
      <3>1. o \in DOMAIN orders
        BY <1>2, <2>2, <2>3
      <3> QED BY <2>1, <2>6, <3>1 DEF CreditInv, SoleIsParked
    <2>10. OrdersInOrder'
      BY <2>1, <2>2, <2>3 DEF CreditInv, OrdersInOrder
    <2>11. CapturedIsCredited'
      <3> SUFFICES ASSUME NEW o \in DOMAIN orders', orders'[o].acked, Sole(o)'
                   PROVE  invoices[orders'[o].invoice].status \in Closed
        BY <1>0 DEF CapturedIsCredited, Closed
      <3>1. o \in DOMAIN orders
        BY <2>2, <2>3
      <3> QED BY <2>1, <2>6, <3>1 DEF CreditInv, CapturedIsCredited, Closed
    <2> QED BY <2>7, <2>8, <2>9, <2>10, <2>11 DEF CreditInv
  <1>3. CASE /\ gateway = "orders"
             /\ orders' = Append(orders, Order(call[p].i, FALSE))
             /\ call' = [call EXCEPT ![p].at = "park", ![p].order = Len(orders')]
    <2>1. Len(orders') = n + 1
      BY <1>t, <1>3
    <2> DEFINE c == [call[p] EXCEPT !.at = "park", !.order = n + 1]
    <2>2. call' = [call EXCEPT ![p] = c]
      BY <1>t, <1>3, <2>1
    <2>3. c.at = "park" /\ c.order = n + 1 /\ c.ref = call[p].ref /\ c.i = call[p].i
      BY <1>t DEF CallOf
    <2> HIDE DEF c
    <2>4. call'[p] = c /\ \A q \in Procs : q # p => call'[q] = call[q]
      BY <1>t, <2>2
    <2>5. \A q \in Procs : call'[q].at \in Paying =>
                  \/ call'[q] = call[q]
                  \/ /\ q = p /\ call'[p].at = "park" /\ call'[p].order = n + 1
                     /\ call'[p].ref = call[p].ref /\ call'[p].i = call[p].i
      BY <2>3, <2>4
    <2> QED BY <1>2, <1>3, <2>5
  <1>4. CASE /\ gateway = "direct"
             /\ orders' = Append(orders, Order(call[p].i, TRUE))
             /\ call' = [call EXCEPT ![p].at = "confirm", ![p].after = "post"]
    <2> DEFINE c == [call[p] EXCEPT !.at = "confirm", !.after = "post"]
    <2>1. call' = [call EXCEPT ![p] = c] /\ c.at \notin Paying
      BY <1>t, <1>4 DEF CallOf, Paying
    <2> HIDE DEF c
    <2>2. OthersPay
      BY <1>t, <2>1, OthersStay
    <2> QED BY <1>2, <1>4, <2>2 DEF OthersPay
  <1> QED BY <1>1, <1>3, <1>4 DEF PayCharge

\* Parking an order gives it to the owner: from then on no other order of the
\* invoice is the sole one he was given.
LEMMA ParkCredited ==
    ASSUME CreditInv, TypeOK', NEW p \in Procs, PayPark(p)
    PROVE  CreditInv'
  <1>i. PICK i : i = call[p].i
    OBVIOUS
  <1>g. PICK given : given = IF call[p].ref = NoOrder THEN call[p].order ELSE call[p].ref
    OBVIOUS
  <1>t. /\ TypeOK /\ invoices \in [1..Periods -> InvoiceOf(Len(orders))]
        /\ \A o \in DOMAIN orders : orders[o] \in OrderType /\ orders[o].invoice \in 1..Periods
    BY TypeFacts, OrdersTyped DEF CreditInv
  <1>0. /\ gateway' = gateway /\ call[p].at = "park" /\ i \in 1..Periods
        /\ orders' = [orders EXCEPT ![given].given = TRUE]
        /\ invoices' = IF call[p].ref = NoOrder
                       THEN [invoices EXCEPT ![i].ref = given] ELSE invoices
    BY <1>t, <1>i, <1>g, AtFacts DEF PayPark, At, OnInvoice
  <1>1. OthersPay
    BY <1>t, StaysPaying DEF PayPark
  <1>2. /\ given \in DOMAIN orders /\ orders[given].invoice = i /\ invoices[i].status # "none"
        /\ call[p].ref # NoOrder => orders[given].given
    BY <1>0, <1>i, <1>g DEF CreditInv, PayersFit, At, GivenFor
  <1>3. /\ \A j \in 1..Periods : invoices'[j].status = invoices[j].status
        /\ \A j \in 1..Periods : j # i => invoices'[j] = invoices[j]
        /\ IF call[p].ref = NoOrder THEN invoices'[i].ref = given ELSE invoices' = invoices
    <2>1. CASE call[p].ref # NoOrder
      BY <1>0, <2>1
    <2>2. CASE call[p].ref = NoOrder
      <3>1. invoices' = [invoices EXCEPT ![i] = [invoices[i] EXCEPT !.ref = given]]
        BY <1>0, <2>2
      <3> QED BY <1>t, <1>0, <2>2, <3>1 DEF InvoiceOf
    <2> QED BY <2>1, <2>2
  <1>4. /\ DOMAIN orders' = DOMAIN orders /\ orders'[given].given
        /\ \A k \in DOMAIN orders : /\ orders'[k].invoice = orders[k].invoice
                                    /\ orders'[k].taken = orders[k].taken
                                    /\ orders'[k].acked = orders[k].acked
                                    /\ k # given => orders'[k].given = orders[k].given
    <2>1. orders' = [orders EXCEPT ![given] = [orders[given] EXCEPT !.given = TRUE]]
      BY <1>0
    <2> QED BY <1>t, <1>2, <2>1 DEF OrderType
  <1>4a. \A k \in DOMAIN orders : orders[k].given => orders'[k].given
    BY <1>4
  <1>5. \A o, j : GivenFor(o, j) => GivenFor(o, j)'
    BY <1>4, <1>4a, GivenGrows
  <1>6. \A o \in DOMAIN orders : Sole(o)' => Sole(o)
    BY <1>4, <1>4a, SoleShrinks
  <1>7. ParkedGiven'
    <2> SUFFICES ASSUME NEW j \in 1..Periods, NEW r, r = invoices'[j].ref,
                        invoices'[j].status \in Payable
                 PROVE  r = NoOrder \/ GivenFor(r, j)'
      BY FitNext
    <2>1. CASE invoices'[j].ref = invoices[j].ref
      BY <1>3, <1>5, <2>1 DEF CreditInv, ParkedGiven
    <2>2. CASE invoices'[j].ref # invoices[j].ref
      <3>1. j = i /\ r = given
        BY <1>3, <2>2
      <3>2. GivenFor(given, i)'
        BY <1>0, <1>2, <1>4 DEF GivenFor
      <3> QED BY <3>1, <3>2
    <2> QED BY <2>1, <2>2
  <1>8. PayersFit'
    <2> SUFFICES ASSUME NEW q \in Procs, NEW r, NEW j, NEW o, call'[q].at \in Paying,
                        r = call'[q].ref, j = call'[q].i, o = call'[q].order
                 PROVE  /\ invoices'[j].status # "none"
                        /\ r = NoOrder \/ GivenFor(r, j)'
                        /\ call'[q].at = "park" => o \in DOMAIN orders' /\ orders'[o].invoice = j
      BY FitNext
    <2>1. call'[q] = call[q] /\ call[q].i \in 1..Periods
      BY <1>1, <1>t, AtFacts DEF OthersPay, Paying, OnInvoice
    <2> QED BY <1>3, <1>4, <1>5, <2>1 DEF CreditInv, PayersFit, At, Paying
  <1>9. SoleIsParked'
    <2> SUFFICES ASSUME gateway = "orders", NEW o \in DOMAIN orders, orders'[o].given
                 PROVE  /\ invoices'[orders[o].invoice].status # "none"
                        /\ Sole(o)' => invoices'[orders[o].invoice].ref = o
                              \/ invoices'[orders[o].invoice].status \in Closed
      BY <1>0, <1>4 DEF SoleIsParked
    <2>0. orders[o].invoice \in 1..Periods
      BY <1>t
    <2>1. CASE o = given
      <3>1. CASE call[p].ref = NoOrder
        BY <1>2, <1>3, <2>0, <2>1, <3>1
      <3>2. CASE call[p].ref # NoOrder
        BY <1>2, <1>3, <1>6, <2>0, <2>1, <3>2 DEF CreditInv, SoleIsParked
      <3> QED BY <3>1, <3>2
    <2>2. CASE o # given
      <3>1. orders[o].given
        BY <1>4, <2>2
      <3>2. invoices[orders[o].invoice].status # "none"
            /\ (Sole(o) => invoices[orders[o].invoice].ref = o
                           \/ invoices[orders[o].invoice].status \in Closed)
        BY <3>1 DEF CreditInv, SoleIsParked
      <3>3. orders[o].invoice = i => ~Sole(o)'
        BY <1>2, <1>4, <2>2 DEF Sole
      <3> QED BY <1>3, <1>6, <2>0, <3>2, <3>3
    <2> QED BY <2>1, <2>2
  <1>10. OrdersInOrder'
    BY <1>4, <1>4a DEF CreditInv, OrdersInOrder
  <1>11. CapturedIsCredited'
    BY <1>3, <1>4, <1>6, <1>t DEF CreditInv, CapturedIsCredited
  <1> QED BY <1>7, <1>8, <1>9, <1>10, <1>11 DEF CreditInv

LEMMA NextCreditInv == CreditInv /\ [Next]_vars => CreditInv'
  <1> SUFFICES ASSUME CreditInv, [Next]_vars PROVE CreditInv'
    OBVIOUS
  <1>t. TypeOK /\ TypeOK' /\ DOMAIN invoices = 1..Periods
        /\ invoices \in [1..Periods -> InvoiceOf(Len(orders))]
    BY NextTyped, TypeFacts DEF CreditInv
  <1>1. CASE UNCHANGED <<invoices, orders, gateway, call>>
    BY <1>1, <1>t, NothingMoved DEF OthersPay
  <1>2. ASSUME NEW p \in Procs, Ask(p) PROVE CreditInv'
    BY <1>2, <1>t, CycleCredited, SweepCredited, ConfirmCredited, HookCredited DEF Ask
  <1>3. ASSUME NEW p \in Procs, Advance(p) PROVE CreditInv'
    BY <1>3, <1>t, CycleCredited, SweepCredited, ChargeCredited, ParkCredited, ConfirmCredited
       DEF Advance
  <1>4. ASSUME NEW p \in Procs, Crash(p) PROVE CreditInv'
    BY <1>4, <1>t, StaysPaying, NothingMoved DEF Crash, Money
  <1>5. ASSUME NEW i \in DOMAIN invoices, BecomesDue(i) PROVE CreditInv'
    <2>1. invoices' = [invoices EXCEPT ![i] = [invoices[i] EXCEPT !.due = TRUE]]
          /\ UNCHANGED <<orders, gateway, call>>
      BY <1>5 DEF BecomesDue, Money
    <2>2. \A j \in 1..Periods : /\ invoices'[j].ref = invoices[j].ref
                                /\ invoices'[j].status = invoices[j].status
      BY <1>t, <2>1 DEF InvoiceOf
    <2> QED BY <1>t, <2>1, <2>2, InvoicesMoved
  <1>6. ASSUME NEW o \in DOMAIN orders, Capture(o) PROVE CreditInv'
    BY <1>6, <1>t, CaptureCredited DEF Capture
  <1>7. CASE PeriodEnds \/ \E i \in DOMAIN invoices : Backfill(i)
    BY <1>1, <1>7 DEF PeriodEnds, Backfill, Money
  <1> QED BY <1>1, <1>2, <1>3, <1>4, <1>5, <1>6, <1>7 DEF Next, vars

\* The gateway hears that its event is dealt with only when the money of the one
\* order the owner was given has closed the invoice, whatever overlapped or died.
THEOREM BillingCapturedIsCredited == Spec => []CapturedIsCredited
  <1>1. CreditInv => CapturedIsCredited
    BY DEF CreditInv
  <1> QED BY <1>1, InitCreditInv, NextCreditInv, PTL DEF Spec
-----------------------------------------------------------------------------
(* The wallet. *)

\* A process that is neither idle nor crediting works on a payment, and nobody
\* else carries one.
PaySteps == WalletSteps \ {"idle", "creditRead", "creditCas"}

CallsPay ==
    \A p \in Requests : IF charge[p].at \in PaySteps THEN Pay(p) \in Payments
            ELSE Pay(p) = NoPayment

\* Whoever read the wallet at the version it still has, read its balance.
ReadsCurrent ==
    \A p \in Requests : Doing(p, "debitCas") \/ Doing(p, "creditCas") =>
        /\ charge[p].version = wallet.version => charge[p].balance = wallet.balance
        /\ charge[p].version <= wallet.version
        /\ Doing(p, "debitCas") => charge[p].balance >= 1

\* A call that remembers a debit has seen or written its row.
DebitedHasRow ==
    \A p \in Requests : charge[p].debited => Pay(p) \in Payments /\ txns[Pay(p)] > 0

\* The inductive invariant of the balance and of the rows.
BalanceInv ==
    /\ WalletTypeOK
    /\ CallsPay
    /\ ReadsCurrent
    /\ DebitedHasRow
    /\ NoLostUpdate
    /\ SuccessWasDebited

\* The steps at which a call that has y to itself has not debited it.
Before == {"claim", "takeClaim", "debitRead", "debitCas", "wait", "findAgain"}

\* What a call that has y to itself knows of the debit.
KnowsDebit(p, y) ==
    /\ charge[p].at \in Before => ledger.debits[y] = 0
    /\ Doing(p, "findClaim") => (charge[p].debited \/ ledger.debits[y] = 0)
    /\ Doing(p, "debitRow") => ledger.debits[y] = 1 /\ txns[y] = 0
    /\ charge[p].at \in {"clear", "save"} => ledger.debits[y] = IF charge[p].debited THEN 1 ELSE 0
    /\ charge[p].at \in {"debitRead", "debitCas", "debitRow", "clear"} =>
           payment[y].status = "pending"

\* A payment whose calls never overlapped has one call at most, its debits are
\* its rows but for the one under way, and a FAILED one has none.
DebitedAlone(y) ==
    /\ \A p, q \in Requests : Pay(p) = y /\ Pay(q) = y => p = q
    /\ \A p \in Requests : Pay(p) = y => KnowsDebit(p, y)
    /\ (\A p \in Requests : ~(Doing(p, "debitRow") /\ Pay(p) = y))
            => ledger.debits[y] = txns[y]
    /\ ledger.debits[y] <= 1
    /\ payment[y].status \in {"none", "failed"} => ledger.debits[y] = 0

AloneInv == \A y \in Payments \ overlap : DebitedAlone(y)

WalletInv == BalanceInv /\ AloneInv
-----------------------------------------------------------------------------
(* Part 4: the wallet's balance and its rows. *)

\* The sum that WalletCharge takes is the one the lemmas of SumProofs are about.
LEMMA WalletSums == \A f : SumFunction(f) = SumFunction(f)
  BY Zenon
  DEF SumFunction, SumFunctionOnSet, FoldFunction,
      FoldFunctionOnSet, MapThenFoldSet,
      SumFunction, SumFunctionOnSet, FoldFunction, FoldFunctionOnSet, MapThenFoldSet

LEMMA WalletBalance ==
    /\ NoLostUpdate <=>
          /\ wallet.balance = InitialBalance + ledger.credits - SumFunction(ledger.debits)
          /\ wallet.balance >= 0
    /\ NoLostUpdate' <=>
          /\ wallet'.balance = InitialBalance + ledger'.credits - SumFunction(ledger'.debits)
          /\ wallet'.balance >= 0
  BY WalletSums DEF NoLostUpdate

LEMMA InitBalanceInv ==
    WalletInit => BalanceInv
  <1> SUFFICES ASSUME WalletInit PROVE BalanceInv
    OBVIOUS
  <1>1. NoCharge \in Calls /\ NewPayment \in PaymentType
          /\ InitialBalance \in Nat
        /\ 0 \in 0 .. MaxAttempts /\ 0 \in 0 .. MaxCrashes
    BY WalletAssumption DEF NoCharge, Calls, WalletSteps, NewPayment,
            PaymentType
  <1>2. WalletTypeOK
    BY <1>1 DEF WalletInit, WalletTypeOK
  <1>3. SumFunction([y \in Payments |-> 0]) = 0
    BY SumZero, WalletAssumption DEF SumFunction
  <1>4. NoLostUpdate
    BY <1>1, <1>3, WalletBalance DEF WalletInit
  <1> QED
    BY <1>2, <1>4
    DEF WalletInit, BalanceInv, CallsPay, ReadsCurrent, DebitedHasRow, SuccessWasDebited,
        NoCharge, NewPayment, PaySteps, Doing, Pay

\* A step that moves one call, and neither the wallet nor the ghost that counts
\* its balance writes.  Rows are only added, and a payment that became SUCCESS
\* has one.
LEMMA CallMoved ==
    ASSUME BalanceInv, NEW p \in Requests, NEW c \in Calls,
           charge' = [charge EXCEPT ![p] = c],
           UNCHANGED <<wallet, ledger>>,
           payment' \in [Payments -> PaymentType], txns' \in [Payments -> Nat],
           overlap' \subseteq Payments,
           bounds' \in [calls : [Payments -> 0 .. MaxAttempts], crashes : 0 .. MaxCrashes],
           \A y \in Payments : txns'[y] >= txns[y],
           \A y \in Payments : payment'[y].status = "success" =>
               payment[y].status = "success" \/ txns'[y] > 0,
           IF c.at \in PaySteps THEN c.pay \in Payments ELSE c.pay = NoPayment,
           c.at \in {"debitCas", "creditCas"} =>
               c.version = wallet.version /\ c.balance = wallet.balance,
           c.at = "debitCas" => c.balance >= 1,
           c.debited => c.pay \in Payments /\ txns'[c.pay] > 0
    PROVE  BalanceInv'
  <1>t. WalletTypeOK /\ WalletTypeOK'
    BY DEF BalanceInv, WalletTypeOK
  <1>1. charge'[p] = c /\ \A q \in Requests : q # p => charge'[q] = charge[q]
    BY <1>t DEF WalletTypeOK
  <1>2. CallsPay'
    BY <1>1 DEF BalanceInv, CallsPay, Pay
  <1>3. ReadsCurrent'
    BY <1>1, <1>t DEF BalanceInv, ReadsCurrent, Doing, WalletTypeOK
  <1>4. DebitedHasRow'
    <2> SUFFICES ASSUME NEW q \in Requests, charge'[q].debited
                 PROVE  charge'[q].pay \in Payments /\ txns'[charge'[q].pay] > 0
      BY DEF DebitedHasRow, Pay
    <2>1. CASE q = p
      BY <1>1, <2>1
    <2>2. CASE q # p
      <3>1. charge'[q] = charge[q] /\ charge[q].pay \in Payments /\ txns[charge[q].pay] > 0
        BY <1>1, <2>2 DEF BalanceInv, DebitedHasRow, Pay
      <3>2. txns'[charge[q].pay] >= txns[charge[q].pay] /\ txns[charge[q].pay] \in Nat
            /\ txns'[charge[q].pay] \in Nat
        BY <1>t, <3>1 DEF WalletTypeOK
      <3> QED BY <3>1, <3>2
    <2> QED BY <2>1, <2>2
  <1>5. NoLostUpdate'
    BY DEF BalanceInv, NoLostUpdate
  <1>6. SuccessWasDebited'
    <2> SUFFICES ASSUME NEW y \in Payments, payment'[y].status = "success" PROVE txns'[y] > 0
      BY DEF SuccessWasDebited
    <2>1. txns'[y] >= txns[y] /\ txns[y] \in Nat /\ txns'[y] \in Nat
      BY <1>t DEF WalletTypeOK
    <2> QED BY <2>1 DEF BalanceInv, SuccessWasDebited
  <1> QED BY <1>t, <1>2, <1>3, <1>4, <1>5, <1>6 DEF BalanceInv

\* A balance write that won its compare-and-set: d is a debit's or a credit's
\* ghost entry, n the new balance.
LEMMA BalanceWritten ==
    ASSUME BalanceInv, NEW p \in Requests, NEW c \in Calls, NEW n \in Nat,
           wallet' = [balance |-> n, version |-> wallet.version + 1],
           charge' = [charge EXCEPT ![p] = c],
           UNCHANGED <<payment, txns, overlap, bounds>>,
           ledger' \in [debits : [Payments -> Nat], credits : Nat],
           IF c.at \in PaySteps THEN c.pay \in Payments ELSE c.pay = NoPayment,
           c.at \notin {"debitCas", "creditCas"},
           c.debited => c.pay \in Payments /\ txns[c.pay] > 0,
           NoLostUpdate'
    PROVE  BalanceInv'
  <1>t. WalletTypeOK
    BY DEF BalanceInv
  <1>u. WalletTypeOK'
    BY <1>t DEF WalletTypeOK
  <1>1. charge'[p] = c /\ \A q \in Requests : q # p => charge'[q] = charge[q]
    BY <1>t DEF WalletTypeOK
  <1>2. CallsPay'
    BY <1>1 DEF BalanceInv, CallsPay, Pay
  <1>3. ReadsCurrent'
    <2>1. wallet.version \in Nat /\ wallet'.version = wallet.version + 1
      BY <1>t DEF WalletTypeOK
    <2>2. \A q \in Requests : charge[q].version \in Nat
      BY <1>t DEF WalletTypeOK, Calls
    <2> QED BY <1>1, <2>1, <2>2 DEF BalanceInv, ReadsCurrent, Doing
  <1>4. DebitedHasRow' /\ SuccessWasDebited'
    BY <1>1 DEF BalanceInv, DebitedHasRow, SuccessWasDebited, Pay
  <1> QED BY <1>u, <1>2, <1>3, <1>4 DEF BalanceInv

LEMMA NextBalanceInv ==
    BalanceInv /\ [WalletNext]_walletVars => BalanceInv'
  <1> SUFFICES ASSUME BalanceInv, [WalletNext]_walletVars PROVE BalanceInv'
    OBVIOUS
  <1>t. /\ wallet \in [balance : Nat, version : Nat]
        /\ payment \in [Payments -> PaymentType] /\ txns \in [Payments -> Nat]
        /\ ledger \in [debits : [Payments -> Nat], credits : Nat]
        /\ charge \in [Requests -> Calls] /\ overlap \subseteq Payments
        /\ bounds \in [calls : [Payments -> 0 .. MaxAttempts], crashes : 0 .. MaxCrashes]
        /\ CallsPay /\ DebitedHasRow
    BY DEF BalanceInv, WalletTypeOK
  <1>z. \A y \in Payments : txns[y] >= txns[y]
    BY <1>t
  <1>i. NoCharge \in Calls /\ NoCharge.at = "idle" /\ NoCharge.pay = NoPayment
          /\ ~NoCharge.debited
        /\ NoCharge.at \notin PaySteps
    BY DEF NoCharge, Calls, WalletSteps, PaySteps
  \* One payment is saved as v, its status as before.
  <1>p. ASSUME NEW y \in Payments, NEW v \in PaymentType,
               payment' = [payment EXCEPT ![y] = v], v.status = payment[y].status
        PROVE  payment' \in [Payments -> PaymentType]
               /\ \A x \in Payments : payment'[x].status = payment[x].status
    BY <1>p, <1>t
  \* A call on a payment goes on to step st, and remembers the debit as d.
  <1>m. ASSUME NEW p \in Requests, charge[p].at \in PaySteps,
               NEW st \in PaySteps \ {"debitCas"}, NEW d \in BOOLEAN,
               charge' = [charge EXCEPT ![p].debited = d, ![p].at = st],
               UNCHANGED <<wallet, ledger, overlap, bounds>>,
               payment' \in [Payments -> PaymentType], txns' \in [Payments -> Nat],
               \A y \in Payments : txns'[y] >= txns[y],
               \A y \in Payments : payment'[y].status = "success" =>
                   payment[y].status = "success" \/ txns'[y] > 0,
               d => txns'[Pay(p)] > 0
        PROVE  BalanceInv'
    <2> DEFINE c == [charge[p] EXCEPT !.debited = d, !.at = st]
    <2>2. st \in PaySteps /\ st \in WalletSteps /\ st \notin {"debitCas", "creditCas"}
      BY DEF PaySteps
    <2>3. charge' = [charge EXCEPT ![p] = c] /\ charge[p] \in Calls
      BY <1>m, <1>t DEF Calls
    <2>1. c \in Calls /\ c.at = st /\ c.debited = d /\ c.pay = Pay(p)
            /\ Pay(p) \in Payments
      BY <1>m, <1>t, <2>2, <2>3 DEF Calls, Pay, CallsPay
    <2>4. c.debited => c.pay \in Payments /\ txns'[c.pay] > 0
      BY <1>m, <2>1
    <2>5. UNCHANGED <<wallet, ledger>> /\ overlap' \subseteq Payments
          /\ bounds' \in [calls : [Payments -> 0 .. MaxAttempts], crashes : 0 .. MaxCrashes]
      BY <1>m, <1>t
    <2>6. c.at \in PaySteps /\ c.at \notin {"debitCas", "creditCas"} /\ c.pay \in Payments
      BY <2>1, <2>2
    <2> HIDE DEF c
    <2> QED BY <1>m, <2>1, <2>3, <2>4, <2>5, <2>6, CallMoved
  \* The same, and it keeps what it remembers.
  <1>k. ASSUME NEW p \in Requests, charge[p].at \in PaySteps,
               NEW st \in PaySteps \ {"debitCas"}, GoOn(p, st),
               UNCHANGED <<wallet, txns, ledger, overlap, bounds>>,
               payment' \in [Payments -> PaymentType],
               \A y \in Payments : payment'[y].status = payment[y].status
        PROVE  BalanceInv'
    <2> DEFINE d == charge[p].debited
    <2>1. d \in BOOLEAN /\ charge' = [charge EXCEPT ![p].debited = d, ![p].at = st]
      BY <1>k, <1>t DEF GoOn, Calls
    <2>2. d => txns'[Pay(p)] > 0
      BY <1>k, <1>t DEF DebitedHasRow
    <2> HIDE DEF d
    <2> QED BY <1>k, <1>t, <1>z, <2>1, <2>2, <1>m
  \* A call ends.
  <1>e. ASSUME NEW p \in Requests, charge' = [charge EXCEPT ![p] = NoCharge],
               UNCHANGED <<wallet, txns, ledger>>,
               payment' \in [Payments -> PaymentType], overlap' \subseteq Payments,
               bounds' \in [calls : [Payments -> 0 .. MaxAttempts], crashes : 0 .. MaxCrashes],
               \A y \in Payments : payment'[y].status = "success" =>
                   payment[y].status = "success" \/ txns[y] > 0
        PROVE  BalanceInv'
    <2>1. NoCharge.at \notin {"debitCas", "creditCas"}
      BY <1>i
    <2> QED BY <1>e, <1>t, <1>z, <1>i, <2>1, CallMoved
  <1>1. ASSUME NEW p \in Requests, NEW y \in Payments, ChargeStart(p, y) PROVE BalanceInv'
    <2> DEFINE st == IF payment[y].status = "none" THEN "claim" ELSE "findRow"
               c == [NoCharge EXCEPT !.pay = y, !.at = st]
    <2>1. charge' = [charge EXCEPT ![p] = c] /\ UNCHANGED <<wallet, txns, ledger>>
      BY <1>1 DEF ChargeStart
    <2>2. c \in Calls /\ c.at = st /\ c.pay = y /\ ~c.debited
      BY DEF NoCharge, Calls, WalletSteps
    <2>3. st \in PaySteps /\ st \notin {"debitCas", "creditCas"}
      BY DEF PaySteps, WalletSteps
    <2>4. payment' \in [Payments -> PaymentType]
          /\ \A x \in Payments : payment'[x].status = "success" => payment[x].status = "success"
      <3> DEFINE s == IF payment[y].status = "none" THEN "pending" ELSE payment[y].status
      <3>1. payment' = [payment EXCEPT ![y].status = s]
        BY <1>1 DEF ChargeStart
      <3>2. s \in {"none", "pending", "success", "failed"}
            /\ (s = "success" => payment[y].status = "success")
        BY <1>t DEF PaymentType
      <3> HIDE DEF s
      <3> QED BY <1>t, <3>1, <3>2 DEF PaymentType
    <2>5. overlap' \subseteq Payments
      BY <1>1, <1>t DEF ChargeStart
    <2>6. bounds' \in [calls : [Payments -> 0 .. MaxAttempts], crashes : 0 .. MaxCrashes]
      <3>1. bounds.calls[y] + 1 \in 0 .. MaxAttempts
        BY <1>1, <1>t, WalletAssumption DEF ChargeStart
      <3> QED BY <1>1, <1>t, <3>1 DEF ChargeStart
    <2> HIDE DEF c, st
    <2> QED BY <1>t, <1>z, <2>1, <2>2, <2>3, <2>4, <2>5, <2>6, CallMoved
  <1>2. ASSUME NEW p \in Requests, DropOldClaim(p) PROVE BalanceInv'
    <2>1. payment' \in [Payments -> PaymentType]
          /\ \A y \in Payments : payment'[y].status = payment[y].status
      <3> DEFINE y == Pay(p)
                 v == IF payment[y].claim # NoToken /\ payment[y].old
                      THEN [payment[y] EXCEPT !.claim = NoToken, !.old = FALSE] ELSE payment[y]
      <3>1. payment' = [payment EXCEPT ![y] = v] /\ y \in Payments
        BY <1>2, <1>t DEF DropOldClaim, Doing, CallsPay, PaySteps, WalletSteps
      <3>2. payment[y] \in PaymentType
        BY <1>t, <3>1
      <3>3. v \in PaymentType /\ v.status = payment[y].status
        BY <3>2 DEF PaymentType
      <3> HIDE DEF v, y
      <3> QED BY <1>p, <3>1, <3>3
    <2> QED BY <1>2, <1>k, <2>1 DEF DropOldClaim, Doing, PaySteps, WalletSteps
  <1>3. ASSUME NEW p \in Requests, TakeClaim(p) PROVE BalanceInv'
    <2>1. payment' \in [Payments -> PaymentType]
          /\ \A y \in Payments : payment'[y].status = payment[y].status
      <3>1. PICK y : y = Pay(p)
        OBVIOUS
      <3>2. y \in Payments
        BY <1>3, <1>t, <3>1 DEF TakeClaim, Doing, CallsPay, PaySteps, WalletSteps
      <3>3. CASE payment' = payment
        BY <1>t, <3>3
      <3>4. CASE payment' = [payment EXCEPT ![y].claim = p, ![y].old = FALSE]
        <4>1. payment' = [payment EXCEPT ![y] = [payment[y] EXCEPT !.claim = p, !.old = FALSE]]
          BY <3>4
        <4>2. PICK v : v = [payment[y] EXCEPT !.claim = p, !.old = FALSE]
          OBVIOUS
        <4>3. payment[y] \in PaymentType
          BY <1>t, <3>2
        <4>4. v \in PaymentType /\ v.status = payment[y].status
          BY <4>2, <4>3 DEF PaymentType
        <4>5. payment' = [payment EXCEPT ![y] = v]
          BY <4>1, <4>2
        <4> QED BY <1>t, <3>2, <4>4, <4>5
      <3> QED BY <1>3, <3>1, <3>3, <3>4 DEF TakeClaim
    <2>2. charge[p].at \in PaySteps /\ UNCHANGED <<wallet, txns, ledger, overlap, bounds>>
          /\ (GoOn(p, "debitRead") \/ GoOn(p, "findRow"))
      BY <1>3 DEF TakeClaim, Doing, PaySteps, WalletSteps
    <2>3. {"debitRead", "findRow"} \subseteq PaySteps \ {"debitCas"}
      BY DEF PaySteps, WalletSteps
    <2> QED BY <1>k, <2>1, <2>2, <2>3
  <1>4. ASSUME NEW p \in Requests, DebitRead(p) PROVE BalanceInv'
    <2> DEFINE st == IF wallet.balance >= 1 THEN "debitCas" ELSE "clear"
               c == [charge[p] EXCEPT !.balance = wallet.balance, !.version = wallet.version,
                                    !.debited = FALSE, !.at = st]
    <2>1. UNCHANGED <<wallet, payment, txns, ledger, overlap, bounds>> /\ charge[p].at = "debitRead"
      BY <1>4 DEF DebitRead, Doing
    <2>2. charge' = [charge EXCEPT ![p] = c]
      BY <1>4, <1>t DEF DebitRead, Calls
    <2>3. st \in PaySteps /\ st \in WalletSteps /\ (st = "debitCas" => wallet.balance >= 1)
          /\ wallet.balance \in Nat /\ wallet.version \in Nat
      BY <1>t DEF PaySteps, WalletSteps
    <2> HIDE DEF st
    <2>4. c \in Calls /\ c.at = st /\ c.pay = Pay(p) /\ ~c.debited
          /\ c.balance = wallet.balance /\ c.version = wallet.version
      <3> DEFINE b == wallet.balance
                 w == wallet.version
                 k == [charge[p] EXCEPT !.balance = b, !.version = w, !.debited = FALSE, !.at = st]
      <3>1. b \in Nat /\ w \in Nat /\ st \in WalletSteps /\ charge[p] \in Calls
        BY <1>t, <2>3
      <3> HIDE DEF b, w
      <3>2. k \in Calls /\ k.at = st /\ k.pay = charge[p].pay /\ ~k.debited
            /\ k.balance = b /\ k.version = w
        BY <3>1 DEF Calls
      <3> QED BY <3>2 DEF b, w, Pay
    <2>5. Pay(p) \in Payments
      BY <1>t, <2>1 DEF CallsPay, PaySteps, WalletSteps
    <2> HIDE DEF c
    <2> QED BY <1>t, <1>z, <2>1, <2>2, <2>3, <2>4, <2>5, CallMoved
  <1>5. ASSUME NEW p \in Requests, DebitCas(p) PROVE BalanceInv'
    <2>0. charge[p].at = "debitCas" /\ UNCHANGED <<payment, txns, overlap, bounds>>
          /\ Pay(p) \in Payments
      BY <1>5, <1>t DEF DebitCas, Doing, CallsPay, PaySteps, WalletSteps
    <2>1. CASE wallet.version = charge[p].version
      <3> DEFINE y == Pay(p)
                 c == [charge[p] EXCEPT !.at = "debitRow"]
      <3>1. /\ wallet' = [balance |-> charge[p].balance - 1, version |-> charge[p].version + 1]
            /\ ledger' = [ledger EXCEPT !.debits[y] = @ + 1]
            /\ charge' = [charge EXCEPT ![p] = c]
        BY <1>5, <1>t, <2>1 DEF DebitCas, GoOn, Calls
      <3>2. charge[p].balance = wallet.balance /\ wallet.balance >= 1 /\ wallet.balance \in Nat
        BY <1>t, <2>0, <2>1 DEF BalanceInv, ReadsCurrent, Doing
      <3>3. c \in Calls /\ c.at = "debitRow" /\ c.pay = y /\ c.debited = charge[p].debited
        BY <1>t DEF Calls, WalletSteps, Pay
      <3>4. ledger' \in [debits : [Payments -> Nat], credits : Nat]
            /\ ledger'.debits = [ledger.debits EXCEPT ![y] = ledger.debits[y] + 1]
            /\ ledger'.credits = ledger.credits
        BY <1>t, <2>0, <3>1
      <3>5. NoLostUpdate'
        <4>1. ledger.debits \in [Payments -> Int] /\ y \in Payments
              /\ ledger.debits[y] \in Nat /\ ledger.debits[y] + 1 \in Int /\ ledger.credits \in Nat
          BY <1>t, <2>0
        <4>2. /\ SumFunction(ledger'.debits) = SumFunction(ledger.debits) - ledger.debits[y]
                                                + (ledger.debits[y] + 1)
              /\ SumFunction(ledger.debits) \in Int
          BY <3>4, <4>1, SumWrite, WalletAssumption
        <4>3. wallet'.balance = wallet.balance - 1
          BY <3>1, <3>2
        <4>4. wallet.balance = InitialBalance + ledger.credits - SumFunction(ledger.debits)
          BY WalletBalance DEF BalanceInv
        <4> HIDE DEF y
        <4>5. wallet'.balance = InitialBalance + ledger'.credits - SumFunction(ledger'.debits)
          BY <3>4, <4>1, <4>2, <4>3, <4>4, <3>2, WalletAssumption
        <4> QED BY <3>2, <4>3, <4>5, WalletBalance
      <3>6. c.debited => txns[c.pay] > 0
        BY <1>t, <3>3 DEF DebitedHasRow
      <3>7. wallet' = [balance |-> charge[p].balance - 1, version |-> wallet.version + 1]
            /\ charge[p].balance - 1 \in Nat
        BY <2>1, <3>1, <3>2
      <3>8. c.at \in PaySteps /\ c.at \notin {"debitCas", "creditCas"} /\ c.pay \in Payments
        BY <2>0, <3>3 DEF PaySteps, WalletSteps
      <3> HIDE DEF c, y
      <3> QED BY <2>0, <3>1, <3>3, <3>4, <3>5, <3>6, <3>7, <3>8, BalanceWritten
    <2>2. CASE wallet.version # charge[p].version
      <3>1. GoOn(p, "debitRead") /\ UNCHANGED <<wallet, ledger>>
        BY <1>5, <2>2 DEF DebitCas
      <3>2. charge[p].at \in PaySteps /\ "debitRead" \in PaySteps \ {"debitCas"}
        BY <2>0 DEF PaySteps, WalletSteps
      <3> QED BY <1>k, <1>t, <2>0, <3>1, <3>2
    <2> QED BY <2>1, <2>2
  <1>6. ASSUME NEW p \in Requests, DebitRow(p) PROVE BalanceInv'
    <2>0. charge[p].at = "debitRow" /\ UNCHANGED <<wallet, payment, ledger, overlap, bounds>>
          /\ Pay(p) \in Payments
      BY <1>6, <1>t DEF DebitRow, Doing, CallsPay, PaySteps, WalletSteps
    <2>1. /\ charge' = [charge EXCEPT ![p].debited = TRUE, ![p].at = "clear"]
          /\ txns' = [txns EXCEPT ![Pay(p)] = txns[Pay(p)] + 1]
      BY <1>6 DEF DebitRow
    <2>2. txns' \in [Payments -> Nat] /\ txns'[Pay(p)] > 0
          /\ \A y \in Payments : txns'[y] >= txns[y]
      BY <1>t, <2>0, <2>1
    <2>3. charge[p].at \in PaySteps /\ "clear" \in PaySteps \ {"debitCas"}
      BY <2>0 DEF PaySteps, WalletSteps
    <2> QED BY <1>m, <1>t, <2>0, <2>1, <2>2, <2>3
  <1>7. ASSUME NEW p \in Requests, ClearClaim(p) PROVE BalanceInv'
    <2>1. payment' \in [Payments -> PaymentType]
          /\ \A y \in Payments : payment'[y].status = payment[y].status
      <3> DEFINE y == Pay(p)
                 v == IF payment[y].claim = p
                      THEN [payment[y] EXCEPT !.claim = NoToken, !.old = FALSE] ELSE payment[y]
      <3>1. payment' = [payment EXCEPT ![y] = v] /\ y \in Payments
        BY <1>7, <1>t DEF ClearClaim, Doing, CallsPay, PaySteps, WalletSteps
      <3>2. payment[y] \in PaymentType
        BY <1>t, <3>1
      <3>3. v \in PaymentType /\ v.status = payment[y].status
        BY <3>2 DEF PaymentType
      <3> HIDE DEF v, y
      <3> QED BY <1>p, <3>1, <3>3
    <2> QED BY <1>7, <1>k, <2>1 DEF ClearClaim, Doing, PaySteps, WalletSteps
  <1>8. ASSUME NEW p \in Requests, SaveOutcome(p) PROVE BalanceInv'
    <2>1. Pay(p) \in Payments
      BY <1>8, <1>t DEF SaveOutcome, Doing, CallsPay, PaySteps, WalletSteps
    <2>2. payment' \in [Payments -> PaymentType]
      <3> DEFINE st == IF charge[p].debited THEN "success" ELSE "failed"
      <3>1. payment' = [payment EXCEPT ![Pay(p)].status = st]
        BY <1>8 DEF SaveOutcome
      <3>2. st \in {"none", "pending", "success", "failed"}
        OBVIOUS
      <3> HIDE DEF st
      <3>3. PICK y : y = Pay(p)
        OBVIOUS
      <3>4. payment' = [payment EXCEPT ![y] = [payment[y] EXCEPT !.status = st]]
        BY <3>1, <3>3
      <3>5. payment[y] \in PaymentType
        BY <1>t, <2>1, <3>3
      <3>6. [payment[y] EXCEPT !.status = st] \in PaymentType
        BY <3>2, <3>5 DEF PaymentType
      <3> QED BY <1>t, <3>4, <3>6
    <2>3. \A y \in Payments : payment'[y].status = "success" =>
              payment[y].status = "success" \/ txns[y] > 0
      BY <1>8, <1>t, <2>1 DEF SaveOutcome, PaymentType, DebitedHasRow
    <2> QED BY <1>8, <1>t, <1>e, <2>2, <2>3 DEF SaveOutcome
  <1>9. ASSUME NEW p \in Requests, FindRow(p) \/ FindRowAgain(p) PROVE BalanceInv'
    <2> DEFINE d == txns[Pay(p)] > 0
    <2>1. /\ charge[p].at \in PaySteps /\ UNCHANGED <<wallet, payment, txns, ledger, overlap, bounds>>
          /\ \E st \in {"findClaim", "save", "claim"} :
                charge' = [charge EXCEPT ![p].debited = d, ![p].at = st]
      BY <1>9 DEF FindRow, FindRowAgain, Doing, PaySteps, WalletSteps
    <2>2. {"findClaim", "save", "claim"} \subseteq PaySteps \ {"debitCas"} /\ d \in BOOLEAN
      BY DEF PaySteps, WalletSteps
    <2>3. d => txns'[Pay(p)] > 0
      BY <2>1
    <2> HIDE DEF d
    <2> QED BY <1>m, <1>t, <1>z, <2>1, <2>2, <2>3
  <1>10. ASSUME NEW p \in Requests, FindClaim(p) \/ WaitEnds(p) PROVE BalanceInv'
    <2>1. /\ charge[p].at \in PaySteps /\ UNCHANGED <<wallet, payment, txns, ledger, overlap, bounds>>
          /\ \E st \in {"save", "wait", "claim", "findAgain"} : GoOn(p, st)
      BY <1>10 DEF FindClaim, WaitEnds, Doing, PaySteps, WalletSteps
    <2>2. {"save", "wait", "claim", "findAgain"} \subseteq PaySteps \ {"debitCas"}
      BY DEF PaySteps, WalletSteps
    <2> QED BY <1>k, <1>t, <2>1, <2>2
  <1>11. ASSUME NEW p \in Requests, CreditRead(p) PROVE BalanceInv'
    <2> DEFINE c == [NoCharge EXCEPT !.at = "creditCas", !.balance = wallet.balance,
                                 !.version = wallet.version]
    <2>1. UNCHANGED <<wallet, payment, txns, ledger, overlap, bounds>>
          /\ charge' = [charge EXCEPT ![p] = c]
      BY <1>11 DEF CreditRead
    <2>2. c \in Calls /\ c.at = "creditCas" /\ c.pay = NoPayment /\ ~c.debited
          /\ c.balance = wallet.balance /\ c.version = wallet.version
      BY <1>t DEF NoCharge, Calls, WalletSteps
    <2>3. c.at \notin PaySteps /\ c.at # "debitCas"
      BY <2>2 DEF PaySteps
    <2> HIDE DEF c
    <2> QED BY <1>t, <1>z, <2>1, <2>2, <2>3, CallMoved
  <1>12. ASSUME NEW p \in Requests, CreditCas(p) PROVE BalanceInv'
    <2>0. charge[p].at = "creditCas" /\ UNCHANGED <<payment, txns, overlap, bounds>>
          /\ Pay(p) = NoPayment
      BY <1>12, <1>t DEF CreditCas, Doing, CallsPay, PaySteps, WalletSteps
    <2>1. CASE wallet.version = charge[p].version
      <3>1. /\ wallet' = [balance |-> charge[p].balance + 1, version |-> wallet.version + 1]
            /\ ledger' = [ledger EXCEPT !.credits = @ + 1]
            /\ charge' = [charge EXCEPT ![p] = NoCharge]
        BY <1>12, <2>1 DEF CreditCas
      <3>2. charge[p].balance = wallet.balance /\ wallet.balance \in Nat
            /\ charge[p].balance + 1 \in Nat /\ wallet'.balance = wallet.balance + 1
        BY <1>t, <2>0, <2>1, <3>1 DEF BalanceInv, ReadsCurrent, Doing
      <3>3. ledger' \in [debits : [Payments -> Nat], credits : Nat]
            /\ ledger'.debits = ledger.debits /\ ledger'.credits = ledger.credits + 1
        BY <1>t, <3>1
      <3>4. SumFunction(ledger.debits) \in Int
        <4>1. DOMAIN ledger.debits = Payments /\ \A y \in Payments : ledger.debits[y] \in Int
          BY <1>t
        <4> QED BY <4>1, SumInt, WalletAssumption DEF SumFunction
      <3>5. NoLostUpdate'
        <4>1. wallet.balance = InitialBalance + ledger.credits - SumFunction(ledger.debits)
          BY WalletBalance DEF BalanceInv
        <4>2. ledger.credits \in Nat
          BY <1>t
        <4>3. wallet'.balance = InitialBalance + ledger'.credits - SumFunction(ledger'.debits)
          BY <3>2, <3>3, <3>4, <4>1, <4>2, WalletAssumption
        <4> QED BY <3>2, <4>3, WalletBalance
      <3>6. NoCharge.at \notin {"debitCas", "creditCas"}
        BY <1>i
      <3> QED BY <1>i, <2>0, <3>1, <3>2, <3>3, <3>5, <3>6, BalanceWritten
    <2>2. CASE wallet.version # charge[p].version
      <3> DEFINE c == [charge[p] EXCEPT !.at = "creditRead"]
      <3>1. charge' = [charge EXCEPT ![p] = c] /\ UNCHANGED <<wallet, ledger>>
        BY <1>12, <1>t, <2>2 DEF CreditCas, GoOn, Calls
      <3>2. c \in Calls /\ c.at = "creditRead" /\ c.pay = NoPayment
              /\ c.debited = charge[p].debited
        BY <1>t, <2>0 DEF Calls, WalletSteps, Pay
      <3>3. ~c.debited
        BY <1>t, <2>0, <3>2, WalletAssumption DEF DebitedHasRow
      <3>4. c.at \notin PaySteps /\ c.at \notin {"debitCas", "creditCas"}
        BY <3>2 DEF PaySteps
      <3> HIDE DEF c
      <3> QED BY <1>t, <1>z, <2>0, <3>1, <3>2, <3>3, <3>4, CallMoved
    <2> QED BY <2>1, <2>2
  <1>13. ASSUME NEW y \in Payments, ClaimAges(y) PROVE BalanceInv'
    <2>1. payment' \in [Payments -> PaymentType]
          /\ \A x \in Payments : payment'[x].status = payment[x].status
          /\ UNCHANGED <<wallet, txns, ledger, charge, overlap, bounds>>
      <3> DEFINE v == [payment[y] EXCEPT !.old = TRUE]
      <3>1. payment' = [payment EXCEPT ![y] = v]
            /\ UNCHANGED <<wallet, txns, ledger, charge, overlap, bounds>>
        BY <1>13, <1>t DEF ClaimAges, PaymentType
      <3>2. v \in PaymentType /\ v.status = payment[y].status
        <4>1. payment[y] \in PaymentType
          BY <1>t
        <4> QED BY <4>1 DEF PaymentType
      <3> HIDE DEF v
      <3> QED BY <1>p, <3>1, <3>2
    <2> QED BY <2>1
            DEF BalanceInv, WalletTypeOK, CallsPay, Pay, ReadsCurrent, Doing,
                    DebitedHasRow,
                NoLostUpdate, SuccessWasDebited
  <1>14. ASSUME NEW p \in Requests, ChargeDies(p) PROVE BalanceInv'
    <2>1. overlap' \subseteq Payments
      BY <1>14, <1>t DEF ChargeDies, Doing, CallsPay, PaySteps, WalletSteps
    <2>2. bounds' \in [calls : [Payments -> 0 .. MaxAttempts], crashes : 0 .. MaxCrashes]
      <3>1. bounds.crashes + 1 \in 0 .. MaxCrashes
        BY <1>14, <1>t, WalletAssumption DEF ChargeDies
      <3> QED BY <1>14, <1>t, <3>1 DEF ChargeDies
    <2> QED BY <1>14, <1>t, <1>e, <2>1, <2>2 DEF ChargeDies
  <1>15. CASE UNCHANGED walletVars
    BY <1>15
    DEF walletVars, BalanceInv, WalletTypeOK, CallsPay, Pay, ReadsCurrent, Doing,
            DebitedHasRow,
        NoLostUpdate, SuccessWasDebited
  <1> QED
    BY <1>1, <1>2, <1>3, <1>4, <1>5, <1>6, <1>7, <1>8, <1>9, <1>10, <1>11, <1>12,
       <1>13, <1>14, <1>15 DEF WalletNext, Step

\* No debit or credit is lost however many calls race: the balance is what the
\* balance writes say, and never negative.
THEOREM WalletNoLostUpdate ==
    WalletSpec => []NoLostUpdate
  <1>1. BalanceInv => NoLostUpdate
    BY DEF BalanceInv
  <1>2. WalletInit => BalanceInv
    BY InitBalanceInv
  <1>3. BalanceInv /\ [WalletNext]_walletVars => BalanceInv'
    BY NextBalanceInv
  <1> QED BY <1>1, <1>2, <1>3, PTL DEF WalletSpec

\* A payment is SUCCESS only if the wallet transaction of its debit is stored,
\* whatever overlaps, ages, is retried or crashes.
THEOREM WalletSuccessWasDebited ==
    WalletSpec => []SuccessWasDebited
  <1>1. BalanceInv => SuccessWasDebited
    BY DEF BalanceInv
  <1>2. WalletInit => BalanceInv
    BY InitBalanceInv
  <1>3. BalanceInv /\ [WalletNext]_walletVars => BalanceInv'
    BY NextBalanceInv
  <1> QED BY <1>1, <1>2, <1>3, PTL DEF WalletSpec

-----------------------------------------------------------------------------
(* Part 5: one debit per payment, if its calls never overlap. *)

\* A step of a call that is not about y leaves y as it was.
LEMMA OthersKept ==
    ASSUME NEW y \in Payments, DebitedAlone(y), NEW p \in Requests,
           Pay(p) # y, charge'[p].pay # y, \A q \in Requests \ {p} : charge'[q] = charge[q],
           ledger'.debits[y] = ledger.debits[y], txns'[y] = txns[y],
           payment'[y].status = payment[y].status
    PROVE  DebitedAlone(y)'
  <1>1. \A q \in Requests : charge'[q].pay = y => q # p /\ charge'[q] = charge[q]
    OBVIOUS
  <1>2. \A q \in Requests : Pay(q) = y => charge'[q] = charge[q]
    OBVIOUS
  <1> QED BY <1>1, <1>2 DEF DebitedAlone, KnowsDebit, Pay, Doing

\* A step of the only call that is about y.
LEMMA SoleMoved ==
    ASSUME NEW y \in Payments, NEW p \in Requests, \A q \in Requests \ {p} : Pay(q) # y,
           \A q \in Requests \ {p} : charge'[q] = charge[q],
           charge'[p].pay = y => KnowsDebit(p, y)',
           IF charge'[p].pay = y /\ charge'[p].at = "debitRow" THEN TRUE
           ELSE ledger'.debits[y] = txns'[y],
           ledger'.debits[y] <= 1,
           payment'[y].status \in {"none", "failed"} => ledger'.debits[y] = 0
    PROVE  DebitedAlone(y)'
  <1>1. \A q \in Requests : charge'[q].pay = y => q = p
    BY DEF Pay
  <1>2. (\A q \in Requests : ~(charge'[q].at = "debitRow" /\ charge'[q].pay = y)) =>
            ledger'.debits[y] = txns'[y]
    OBVIOUS
  <1> QED BY <1>1, <1>2 DEF DebitedAlone, Pay, Doing

LEMMA InitAloneInv ==
    WalletInit => AloneInv
  <1> SUFFICES ASSUME WalletInit, NEW y \in Payments PROVE DebitedAlone(y)
    BY DEF AloneInv
  <1>1. \A p \in Requests : Pay(p) # y /\ charge[p].at = "idle"
    BY WalletAssumption DEF WalletInit, NoCharge, Pay
  <1>2. ledger.debits[y] = 0 /\ txns[y] = 0
    BY DEF WalletInit
  <1> QED BY <1>1, <1>2 DEF DebitedAlone, Doing

LEMMA NextAloneInv ==
    BalanceInv /\ BalanceInv' /\ AloneInv /\ [WalletNext]_walletVars => AloneInv'
  <1> SUFFICES ASSUME BalanceInv, BalanceInv', AloneInv, [WalletNext]_walletVars PROVE AloneInv'
    OBVIOUS
  <1>t. /\ payment \in [Payments -> PaymentType] /\ txns \in [Payments -> Nat]
        /\ ledger \in [debits : [Payments -> Nat], credits : Nat]
        /\ charge \in [Requests -> Calls] /\ CallsPay
        /\ NoCharge.pay = NoPayment /\ NoPayment \notin Payments
    BY WalletAssumption DEF BalanceInv, WalletTypeOK, NoCharge
  \* The calls that write neither the debits nor the rows nor a status.
  <1>m. ASSUME NEW p \in Requests, NEW y \in Payments, Pay(p) = y, NEW c \in Calls,
               charge' = [charge EXCEPT ![p] = c], UNCHANGED <<txns, ledger, overlap>>,
               c.pay = y \/ c = NoCharge, charge[p].at # "debitRow",
               \A x \in Payments \ {y} : payment'[x].status = payment[x].status,
               y \notin overlap =>
                   /\ c # NoCharge => KnowsDebit(p, y)' /\ c.at # "debitRow"
                   /\ payment'[y].status \in {"none", "failed"} =>
                          ledger.debits[y] = 0
        PROVE  AloneInv'
    <2>1. charge'[p] = c /\ \A q \in Requests \ {p} : charge'[q] = charge[q]
      BY <1>m, <1>t
    <2>2. c.pay = y \/ c.pay = NoPayment
      BY <1>m, <1>t
    <2>3. ASSUME NEW x \in Payments \ overlap, x # y PROVE DebitedAlone(x)'
      <3>1. DebitedAlone(x) /\ c.pay # x
        BY <1>t, <2>2, <2>3 DEF AloneInv
      <3> QED BY <1>m, <2>1, <2>3, <3>1, OthersKept
    <2>4. ASSUME y \notin overlap PROVE DebitedAlone(y)'
      <3>1. DebitedAlone(y)
        BY <1>m, <2>4 DEF AloneInv
      <3>2. \A q \in Requests \ {p} : Pay(q) # y
        BY <1>m, <3>1 DEF DebitedAlone
      <3>3. ledger.debits[y] = txns[y] /\ ledger.debits[y] <= 1
        BY <1>m, <3>1, <3>2 DEF DebitedAlone, Doing
      <3>4. c.pay = y => c # NoCharge
        BY <1>t, <1>m
      <3>5. ledger'.debits[y] = txns'[y] /\ ledger'.debits[y] <= 1
        BY <1>m, <3>3
      <3>6. /\ charge'[p].pay = y => KnowsDebit(p, y)'
            /\ payment'[y].status \in {"none", "failed"} => ledger'.debits[y] = 0
        BY <1>m, <2>1, <2>4, <3>4
      <3> QED BY <1>m, <2>1, <3>2, <3>5, <3>6, SoleMoved
    <2>5. \A x \in Payments \ overlap : DebitedAlone(x)'
      BY <2>3, <2>4
    <2> QED BY <1>m, <2>5 DEF AloneInv
  \* What the call of p knows, if it has its payment to itself.
  <1>k. ASSUME NEW p \in Requests, NEW y \in Payments, Pay(p) = y, y \notin overlap
        PROVE  /\ KnowsDebit(p, y)
               /\ payment[y].status \in {"none", "failed"} => ledger.debits[y] = 0
               /\ ledger.debits[y] <= 1 /\ ledger.debits[y] \in Nat
               /\ charge[p].at # "debitRow" => ledger.debits[y] = txns[y]
    BY <1>k, <1>t DEF AloneInv, DebitedAlone, Doing
  <1>1. ASSUME NEW p \in Requests, NEW y \in Payments, ChargeStart(p, y) PROVE AloneInv'
    <2> DEFINE c == [NoCharge EXCEPT !.pay = y,
                       !.at = IF payment[y].status = "none" THEN "claim" ELSE "findRow"]
    <2>1. /\ charge' = [charge EXCEPT ![p] = c] /\ UNCHANGED <<txns, ledger>>
          /\ overlap \subseteq overlap' /\ charge[p].at = "idle"
          /\ payment[y].status # "success"
          /\ \A x \in Payments \ {y} : payment'[x] = payment[x]
      BY <1>1, <1>t DEF ChargeStart, Doing
    <2>2. charge'[p] = c /\ c.pay = y /\ Pay(p) = NoPayment
          /\ \A q \in Requests \ {p} : charge'[q] = charge[q]
      BY <1>t, <2>1 DEF CallsPay, NoCharge, PaySteps
    <2>3. ASSUME NEW x \in Payments \ overlap', x # y PROVE DebitedAlone(x)'
      <3>1. DebitedAlone(x) /\ Pay(p) # x /\ charge'[p].pay # x
        BY <1>t, <2>1, <2>2, <2>3 DEF AloneInv
      <3> QED BY <2>1, <2>2, <2>3, <3>1, OthersKept
    <2>4. ASSUME y \notin overlap' PROVE DebitedAlone(y)'
      <3>1. (\A q \in Requests : Pay(q) # y) /\ y \notin overlap
        BY <1>1, <2>4 DEF ChargeStart
      <3>2. DebitedAlone(y)
        BY <3>1 DEF AloneInv
      <3>3. ledger.debits[y] = txns[y] /\ ledger.debits[y] <= 1
        BY <3>1, <3>2 DEF DebitedAlone
      <3>4. payment[y].status = "none" => payment'[y].status = "pending"
        BY <1>1, <1>t DEF ChargeStart, PaymentType
      <3>5. payment[y].status # "none" => payment'[y].status = payment[y].status
        BY <1>1, <1>t DEF ChargeStart, PaymentType
      <3>6. payment[y].status \in {"none", "failed"} => ledger.debits[y] = 0
        BY <3>2 DEF DebitedAlone
      <3>7. c.at = "claim" => ledger.debits[y] = 0
        BY <3>6 DEF NoCharge
      <3>8. c.at \in {"claim", "findRow"}
        BY DEF NoCharge
      <3> HIDE DEF c
      <3>9. KnowsDebit(p, y)'
        BY <2>1, <2>2, <3>7, <3>8 DEF KnowsDebit, Doing, Before
      <3>10. payment'[y].status \in {"none", "failed"} => ledger'.debits[y] = 0
        BY <2>1, <3>4, <3>5, <3>6
      <3> QED BY <2>1, <2>2, <3>1, <3>3, <3>9, <3>10, SoleMoved
    <2> QED BY <2>3, <2>4 DEF AloneInv
  <1>2. ASSUME NEW p \in Requests,
               \/ DropOldClaim(p) \/ TakeClaim(p) \/ DebitRead(p)
                       \/ ClearClaim(p)
               \/ FindRow(p) \/ FindClaim(p) \/ WaitEnds(p)
                       \/ FindRowAgain(p)
        PROVE  AloneInv'
    <2> DEFINE c == charge'[p]
    <2>0. Pay(p) \in Payments
      BY <1>2, <1>t
      DEF DropOldClaim, TakeClaim, DebitRead, ClearClaim,
              FindRow, FindClaim, WaitEnds,
          FindRowAgain, Doing, CallsPay, PaySteps, WalletSteps
    <2>y. PICK y \in Payments : y = Pay(p)
      BY <2>0
    <2>1. /\ Pay(p) \in Payments /\ UNCHANGED <<txns, ledger, overlap>>
          /\ charge[p].at # "debitRow"
          /\ c.pay = Pay(p) /\ c \in Calls
          /\ \A q \in Requests \ {p} : charge'[q] = charge[q]
      <3>1. Pay(p) \in Payments /\ UNCHANGED <<txns, ledger, overlap>>
              /\ charge[p].at # "debitRow"
        BY <1>2, <1>t
        DEF DropOldClaim, TakeClaim, DebitRead, ClearClaim,
                FindRow, FindClaim, WaitEnds,
            FindRowAgain, Doing, CallsPay, PaySteps, WalletSteps
      <3>2. c.pay = Pay(p) /\ \A q \in Requests \ {p} : charge'[q] = charge[q]
        BY <1>2, <1>t
        DEF DropOldClaim, TakeClaim, DebitRead, ClearClaim,
                FindRow, FindClaim, WaitEnds,
            FindRowAgain, GoOn, Calls, Pay
      <3>3. c \in Calls
        BY DEF BalanceInv, WalletTypeOK
      <3> QED BY <3>1, <3>2, <3>3
    <2>2. charge' = [charge EXCEPT ![p] = c]
      <3>1. charge' \in [Requests -> Calls]
        BY DEF BalanceInv, WalletTypeOK
      <3> QED BY <1>t, <2>1, <3>1
    <2>3. \A x \in Payments : payment'[x].status = payment[x].status
      <3>1. CASE DropOldClaim(p)
        <4> DEFINE v == IF payment[y].claim # NoToken /\ payment[y].old
                        THEN [payment[y] EXCEPT !.claim = NoToken, !.old = FALSE]
                        ELSE payment[y]
        <4>1. payment' = [payment EXCEPT ![y] = v]
          BY <3>1, <2>y DEF DropOldClaim
        <4>2. v.status = payment[y].status
          BY <1>t DEF PaymentType
        <4> HIDE DEF v
        <4> QED BY <1>t, <4>1, <4>2
      <3>2. CASE TakeClaim(p)
        <4> DEFINE v == [payment[y] EXCEPT !.claim = p, !.old = FALSE]
        <4>1. payment' = [payment EXCEPT ![y] = v] \/ UNCHANGED payment
          BY <3>2, <1>t, <2>y DEF TakeClaim, PaymentType
        <4>2. v.status = payment[y].status
          BY <1>t DEF PaymentType
        <4> HIDE DEF v
        <4> QED BY <1>t, <4>1, <4>2
      <3>3. CASE ClearClaim(p)
        <4> DEFINE v == IF payment[y].claim = p
                        THEN [payment[y] EXCEPT !.claim = NoToken, !.old = FALSE]
                        ELSE payment[y]
        <4>1. payment' = [payment EXCEPT ![y] = v]
          BY <3>3, <2>y DEF ClearClaim
        <4>2. v.status = payment[y].status
          BY <1>t DEF PaymentType
        <4> HIDE DEF v
        <4> QED BY <1>t, <4>1, <4>2
      <3>4. CASE \/ DebitRead(p) \/ FindRow(p) \/ FindClaim(p)
              \/ WaitEnds(p)
                 \/ FindRowAgain(p)
        BY <3>4 DEF DebitRead, FindRow, FindClaim, WaitEnds,
                FindRowAgain
      <3> QED BY <1>2, <3>1, <3>2, <3>3, <3>4
    <2>4. ASSUME y \notin overlap
          PROVE  KnowsDebit(p, y)' /\ c.at # "debitRow"
      <3> DEFINE d == ledger.debits[y]
      <3>1. /\ KnowsDebit(p, y) /\ (payment[y].status \in {"none", "failed"} => d = 0)
            /\ d <= 1 /\ d \in Nat /\ d = txns[y]
        BY <1>k, <2>y, <2>1, <2>4
      <3>2. ledger'.debits[y] = d /\ txns'[y] = txns[y] /\ payment'[y].status = payment[y].status
        BY <2>1, <2>3
      <3>3. CASE DropOldClaim(p)
        <4>1. charge[p].at = "claim" /\ c.at = "takeClaim"
          BY <3>3, <1>t, <2>y DEF DropOldClaim, Doing, GoOn, Calls
        <4> QED BY <3>1, <3>2, <4>1 DEF KnowsDebit, Doing, Before
      <3>4. CASE TakeClaim(p)
        <4>1. /\ charge[p].at = "takeClaim" /\ c.at \in {"debitRead", "findRow"}
              /\ c.at = "debitRead" => payment[y].status = "pending"
          BY <3>4, <1>t, <2>y DEF TakeClaim, Doing, GoOn, Calls
        <4> QED BY <3>1, <3>2, <4>1 DEF KnowsDebit, Doing, Before
      <3>5. CASE DebitRead(p)
        <4>1. charge[p].at = "debitRead" /\ c.at \in {"debitCas", "clear"} /\ ~c.debited
          BY <3>5, <1>t, <2>y DEF DebitRead, Doing, Calls
        <4> QED BY <3>1, <3>2, <4>1 DEF KnowsDebit, Doing, Before
      <3>6. CASE ClearClaim(p)
        <4>1. charge[p].at = "clear" /\ c.at = "save" /\ c.debited = charge[p].debited
          BY <3>6, <1>t, <2>y DEF ClearClaim, Doing, GoOn, Calls
        <4> QED BY <3>1, <3>2, <4>1 DEF KnowsDebit, Doing, Before
      <3>7. CASE FindRow(p)
        <4>1. c.at = "findClaim" /\ (txns[y] > 0 => c.debited)
          BY <3>7, <1>t, <2>y DEF FindRow, Doing, Calls
        <4> QED BY <3>1, <3>2, <4>1 DEF KnowsDebit, Doing, Before
      <3>8. CASE FindClaim(p)
        <4>1. /\ charge[p].at = "findClaim" /\ c.at \in {"save", "wait", "claim"}
              /\ c.debited = charge[p].debited /\ ((c.at = "save") <=> c.debited)
          BY <3>8, <1>t, <2>y DEF FindClaim, Doing, GoOn, Calls
        <4>2. c.debited => txns[y] > 0
          BY <2>1, <2>y, <4>1 DEF BalanceInv, DebitedHasRow, Pay
        <4> QED BY <3>1, <3>2, <4>1, <4>2 DEF KnowsDebit, Doing, Before
      <3>9. CASE WaitEnds(p)
        <4>1. charge[p].at = "wait" /\ c.at = "findAgain"
          BY <3>9, <1>t, <2>y DEF WaitEnds, Doing, GoOn, Calls
        <4> QED BY <3>1, <3>2, <4>1 DEF KnowsDebit, Doing, Before
      <3>10. CASE FindRowAgain(p)
        <4>1. charge[p].at = "findAgain" /\ c.at \in {"save", "claim"}
              /\ (c.debited = (txns[y] > 0)) /\ (c.at = "save" <=> txns[y] > 0)
          BY <3>10, <1>t, <2>y DEF FindRowAgain, Doing, Calls
        <4> QED BY <3>1, <3>2, <4>1 DEF KnowsDebit, Doing, Before
      <3> QED BY <1>2, <3>3, <3>4, <3>5, <3>6, <3>7, <3>8, <3>9, <3>10
    <2>5. y \notin overlap => (payment'[y].status \in {"none", "failed"} =>
              ledger.debits[y] = 0)
      BY <1>k, <2>y, <2>1, <2>3
    <2> HIDE DEF c
    <2> QED BY <1>m, <2>y, <2>1, <2>2, <2>3, <2>4, <2>5
  <1>3. ASSUME NEW p \in Requests, DebitCas(p) PROVE AloneInv'
    <2>0. charge[p].at = "debitCas" /\ UNCHANGED <<payment, txns, overlap>>
          /\ Pay(p) \in Payments
      BY <1>3, <1>t DEF DebitCas, Doing, CallsPay, PaySteps, WalletSteps
    <2>y. PICK y \in Payments : y = Pay(p)
      BY <2>0
    <2>1. CASE wallet.version = charge[p].version
      <3>1. /\ ledger'.debits = [ledger.debits EXCEPT ![y] = ledger.debits[y] + 1]
            /\ charge'[p].at = "debitRow" /\ charge'[p].pay = y
            /\ \A q \in Requests \ {p} : charge'[q] = charge[q]
        BY <1>3, <1>t, <2>y, <2>1 DEF DebitCas, GoOn, Calls, Pay
      <3>2. ASSUME NEW x \in Payments \ overlap, x # y PROVE DebitedAlone(x)'
        <4>1. DebitedAlone(x) /\ ledger'.debits[x] = ledger.debits[x]
          BY <1>t, <3>1, <3>2 DEF AloneInv
        <4> QED BY <2>0, <2>y, <3>1, <3>2, <4>1, OthersKept
      <3>3. ASSUME y \notin overlap PROVE DebitedAlone(y)'
        <4>1. ledger.debits[y] = 0 /\ txns[y] = 0 /\ payment[y].status = "pending"
          BY <1>k, <2>y, <2>0, <3>3 DEF KnowsDebit, Before
        <4>2. \A q \in Requests \ {p} : Pay(q) # y
          BY <2>0, <2>y, <3>3 DEF AloneInv, DebitedAlone
        <4>3. ledger'.debits[y] = 1
          BY <1>t, <2>0, <3>1, <4>1
        <4>4. KnowsDebit(p, y)'
          BY <2>0, <3>1, <4>1, <4>3 DEF KnowsDebit, Doing, Before
        <4>5. payment'[y].status \notin {"none", "failed"}
          BY <2>0, <4>1
        <4> QED BY <2>0, <3>1, <4>2, <4>3, <4>4, <4>5, SoleMoved
      <3> QED BY <2>0, <3>2, <3>3 DEF AloneInv
    <2>2. CASE wallet.version # charge[p].version
      <3> DEFINE c == [charge[p] EXCEPT !.at = "debitRead"]
      <3>1. charge' = [charge EXCEPT ![p] = c] /\ UNCHANGED ledger
        BY <1>3, <1>t, <2>2 DEF DebitCas, GoOn, Calls
      <3>2. c \in Calls /\ c.at = "debitRead" /\ c.pay = y
        BY <1>t, <2>y DEF Calls, WalletSteps, Pay
      <3> HIDE DEF c
      <3>3. y \notin overlap => KnowsDebit(p, y)' /\ c.at # "debitRow"
        <4>1. charge'[p] = c
          BY <1>t, <3>1
        <4> QED BY <1>k, <2>y, <2>0, <3>1, <3>2, <4>1 DEF KnowsDebit, Doing, Before
      <3>4. y \notin overlap => (payment'[y].status \in {"none", "failed"} =>
              ledger.debits[y] = 0)
        BY <1>k, <2>y, <2>0
      <3> QED BY <1>m, <2>y, <2>0, <3>1, <3>2, <3>3, <3>4
    <2> QED BY <2>1, <2>2
  <1>4. ASSUME NEW p \in Requests, DebitRow(p) PROVE AloneInv'
    <2>0. charge[p].at = "debitRow" /\ UNCHANGED <<payment, ledger, overlap>>
          /\ Pay(p) \in Payments
      BY <1>4, <1>t DEF DebitRow, Doing, CallsPay, PaySteps, WalletSteps
    <2>y. PICK y \in Payments : y = Pay(p)
      BY <2>0
    <2>1. /\ txns' = [txns EXCEPT ![y] = txns[y] + 1]
          /\ charge'[p].at = "clear" /\ charge'[p].pay = y /\ charge'[p].debited
          /\ \A q \in Requests \ {p} : charge'[q] = charge[q]
      BY <1>4, <1>t, <2>y DEF DebitRow, Calls, Pay
    <2>2. ASSUME NEW x \in Payments \ overlap, x # y PROVE DebitedAlone(x)'
      <3>1. DebitedAlone(x) /\ txns'[x] = txns[x]
        BY <1>t, <2>1, <2>2 DEF AloneInv
      <3> QED BY <2>0, <2>y, <2>1, <2>2, <3>1, OthersKept
    <2>3. ASSUME y \notin overlap PROVE DebitedAlone(y)'
      <3>1. ledger.debits[y] = 1 /\ txns[y] = 0 /\ payment[y].status = "pending"
        BY <1>k, <2>y, <2>0, <2>3 DEF KnowsDebit, Doing
      <3>2. \A q \in Requests \ {p} : Pay(q) # y
        BY <2>0, <2>y, <2>3 DEF AloneInv, DebitedAlone
      <3>3. txns'[y] = 1 /\ ledger'.debits[y] = 1
        BY <1>t, <2>0, <2>1, <3>1
      <3>4. KnowsDebit(p, y)'
        BY <2>0, <2>1, <3>1, <3>3 DEF KnowsDebit, Doing, Before
      <3>5. payment'[y].status \notin {"none", "failed"}
        BY <2>0, <3>1
      <3> QED BY <2>0, <2>1, <3>2, <3>3, <3>4, <3>5, SoleMoved
    <2> QED BY <2>0, <2>2, <2>3 DEF AloneInv
  <1>5. ASSUME NEW p \in Requests, SaveOutcome(p) PROVE AloneInv'
    <2>0. charge[p].at = "save" /\ UNCHANGED <<txns, ledger, overlap>> /\ Pay(p) \in Payments
          /\ charge' = [charge EXCEPT ![p] = NoCharge]
      BY <1>5, <1>t DEF SaveOutcome, Doing, CallsPay, PaySteps, WalletSteps
    <2>y. PICK y \in Payments : y = Pay(p)
      BY <2>0
    <2>1. /\ payment'[y].status = (IF charge[p].debited THEN "success" ELSE "failed")
          /\ \A x \in Payments \ {y} : payment'[x].status = payment[x].status
      BY <1>5, <1>t, <2>y, <2>0 DEF SaveOutcome, PaymentType
    <2>2. y \notin overlap => (payment'[y].status \in {"none", "failed"} =>
              ledger.debits[y] = 0)
      BY <1>k, <2>y, <2>0, <2>1 DEF KnowsDebit
    <2>3. NoCharge \in Calls
      BY DEF NoCharge, Calls, WalletSteps
    <2> QED BY <1>m, <2>y, <2>0, <2>1, <2>2, <2>3
  \* A credit is about no payment.
  <1>6. ASSUME NEW p \in Requests, CreditRead(p) \/ CreditCas(p) PROVE AloneInv'
    <2>1. /\ Pay(p) = NoPayment /\ charge'[p].pay = NoPayment
          /\ (\A q \in Requests \ {p} : charge'[q] = charge[q])
          /\ UNCHANGED <<payment, txns, overlap>> /\ ledger'.debits = ledger.debits
      <3>1. Pay(p) = NoPayment /\ UNCHANGED <<payment, txns, overlap>>
        BY <1>6, <1>t DEF CreditRead, CreditCas, Doing, CallsPay, PaySteps
      <3>2. ledger'.debits = ledger.debits
        BY <1>6, <1>t DEF CreditRead, CreditCas
      <3>3. charge'[p].pay = NoPayment /\ \A q \in Requests \ {p} : charge'[q] = charge[q]
        <4>1. CASE CreditRead(p)
          <5> DEFINE c == [NoCharge EXCEPT !.at = "creditCas", !.balance = wallet.balance,
                                       !.version = wallet.version]
          <5>1. charge' = [charge EXCEPT ![p] = c] /\ c.pay = NoPayment
            BY <4>1 DEF CreditRead, NoCharge
          <5> HIDE DEF c
          <5> QED BY <1>t, <5>1
        <4>2. CASE CreditCas(p)
          <5>1. charge' = [charge EXCEPT ![p] = NoCharge] \/ GoOn(p, "creditRead")
            BY <4>2 DEF CreditCas
          <5> QED BY <1>t, <3>1, <5>1 DEF GoOn, Pay, Calls
        <4> QED BY <1>6, <4>1, <4>2
      <3> QED BY <3>1, <3>2, <3>3
    <2>2. ASSUME NEW x \in Payments \ overlap PROVE DebitedAlone(x)'
      <3>1. DebitedAlone(x) /\ Pay(p) # x /\ charge'[p].pay # x
        BY <1>t, <2>1 DEF AloneInv
      <3> QED BY <2>1, <3>1, OthersKept
    <2> QED BY <2>1, <2>2 DEF AloneInv
  <1>7. ASSUME NEW y \in Payments, ClaimAges(y) PROVE AloneInv'
    <2>1. UNCHANGED <<txns, ledger, charge, overlap>>
          /\ \A x \in Payments : payment'[x].status = payment[x].status
      BY <1>7, <1>t DEF ClaimAges, PaymentType
    <2> QED BY <2>1 DEF AloneInv, DebitedAlone, KnowsDebit, Pay, Doing
  <1>8. ASSUME NEW p \in Requests, ChargeDies(p) PROVE AloneInv'
    <2>1. /\ charge' = [charge EXCEPT ![p] = NoCharge] /\ UNCHANGED <<payment, txns, ledger>>
          /\ overlap \subseteq overlap'
          /\ charge[p].at = "debitRow" => Pay(p) \in overlap'
      BY <1>8 DEF ChargeDies, Doing
    <2>2. charge'[p].pay = NoPayment /\ \A q \in Requests \ {p} : charge'[q] = charge[q]
      BY <1>t, <2>1
    <2>3. ASSUME NEW x \in Payments \ overlap', Pay(p) # x PROVE DebitedAlone(x)'
      <3>1. DebitedAlone(x) /\ charge'[p].pay # x
        BY <1>t, <2>1, <2>2 DEF AloneInv
      <3> QED BY <2>1, <2>2, <2>3, <3>1, OthersKept
    <2>4. ASSUME NEW x \in Payments \ overlap', Pay(p) = x PROVE DebitedAlone(x)'
      <3>1. DebitedAlone(x) /\ charge[p].at # "debitRow"
        BY <2>1, <2>4 DEF AloneInv
      <3>2. \A q \in Requests \ {p} : Pay(q) # x
        BY <2>4, <3>1 DEF DebitedAlone
      <3>3. /\ ledger'.debits[x] = txns'[x] /\ ledger'.debits[x] <= 1
            /\ payment'[x].status \in {"none", "failed"} => ledger'.debits[x] = 0
        BY <2>1, <2>4, <3>1, <3>2 DEF DebitedAlone, Doing
      <3>4. charge'[p].pay # x
        BY <1>t, <2>2
      <3> QED BY <2>2, <3>2, <3>3, <3>4, SoleMoved
    <2> QED BY <2>3, <2>4 DEF AloneInv
  <1>9. CASE UNCHANGED walletVars
    BY <1>9 DEF walletVars, AloneInv, DebitedAlone, KnowsDebit, Pay, Doing
  <1> QED
    BY <1>1, <1>2, <1>3, <1>4, <1>5, <1>6, <1>7, <1>8, <1>9 DEF WalletNext, Step

LEMMA WalletInvHolds ==
    WalletSpec => []WalletInv
  <1>1. WalletInit => WalletInv
    BY InitBalanceInv, InitAloneInv DEF WalletInv
  <1>2. WalletInv /\ [WalletNext]_walletVars => WalletInv'
    BY NextBalanceInv, NextAloneInv DEF WalletInv
  <1> QED BY <1>1, <1>2, PTL DEF WalletSpec

\* Through claims that age, retries of both outcomes and crashes, a payment
\* whose calls never ran at once and never died between the two writes of the
\* debit is debited once at most, and not at all if it is FAILED.
THEOREM WalletDebitedOnce ==
    WalletSpec => []DebitedOnceAlone
  <1>1. WalletInv => DebitedOnceAlone
    <2> SUFFICES ASSUME WalletInv, NEW y \in Payments \ overlap
                 PROVE  ledger.debits[y] <= (IF payment[y].status = "failed" THEN 0 ELSE 1)
      BY DEF DebitedOnceAlone
    <2>1. DebitedAlone(y)
      BY DEF WalletInv, AloneInv
    <2> QED BY <2>1 DEF DebitedAlone
  <1>2. WalletSpec => []WalletInv
    BY WalletInvHolds
  <1> QED BY <1>1, <1>2, PTL
=============================================================================

--------------------------- MODULE OrderSagaProofs ---------------------------
(***************************************************************************)
(* Proofs about OrderSaga, for any orders, baskets, payment methods and    *)
(* number of handlers, however they overlap, repeat and crash; and, at the *)
(* end, about handlers that are not disturbed.                             *)
(***************************************************************************)
EXTENDS OrderSaga, FiniteSetTheorems, TLAPS

\* The steps of a checkout that has not heard of the money yet.
Opening == {"pending", "pay", "charge"}

Opened(o) ==
    /\ order[o].paid = "none" /\ order[o].status \notin {"none", "confirmed"}
    /\ ~gateway[o].captured /\ ~gateway[o].attemptFailed

\* What a handler of an order whose checkout is opening can be: a cancellation
\* that has read a summary without money.
CancelOnly(c) ==
    /\ c.at \in {"readCancel", "restore", "release", "markCancelled"}
    /\ c.event = NoEvent /\ c.paid = "none"
    /\ c.at # "readCancel" => c.path = "cancel"

Untouched(o) ==
    /\ payment[o] = "none" /\ order[o].paid = "none"
    /\ ~gateway[o].captured /\ ~gateway[o].attemptFailed

\* The answer of the provider is the first word on the order's money: no other
\* handler has acted on a capture before it.
FreshInv ==
    /\ \A o \in Orders : order[o].status = "none" => Quiet(o) /\ Untouched(o)
    /\ \A p \in Procs : call[p].at \in Opening =>
          /\ Opened(call[p].o)
          /\ \A q \in Procs \ {p} : call[q].o = call[p].o => CancelOnly(call[q])

\* What a handler may rely on at each of its steps.
Evidence(c) ==
    /\ IF c.at = "idle" THEN c.o = NoOrder ELSE c.o \in Orders
    /\ c.at = "summary" /\ Method[c.o] # "cod" /\ c.paid \notin {"pending", "failed"} =>
           gateway[c.o].captured
    /\ c.at \in {"readPayment", "saveSuccess", "readOrder"} => gateway[c.o].captured
    /\ c.at \in {"commit", "slotConfirm", "createTask", "confirmOrder"} =>
           (Method[c.o] # "cod" => gateway[c.o].captured)
    /\ c.at = "commit" => \A l \in c.done : tally[c.o].units[l] >= 1
    /\ c.at \in {"slotConfirm", "createTask", "confirmOrder"} =>
           \A l \in Basket[c.o] : tally[c.o].units[l] >= 1
    /\ c.at = "confirmOrder" => task[c.o]

EvidenceInv == \A p \in Procs : Evidence(call[p])

\* The picking task is the lock: whoever created it is the only one to confirm.
Once(o) ==
    /\ tally[o].confirmed <= 1
    /\ ~task[o] => tally[o].confirmed = 0
    /\ \A p \in Procs : call[p].o = o /\ At(p, "confirmOrder") => tally[o].confirmed = 0
    /\ \A p, q \in Procs : /\ call[p].o = o /\ At(p, "confirmOrder")
                           /\ call[q].o = o /\ At(q, "confirmOrder")
                           => p = q

OnceInv == \A o \in Orders : Once(o)

\* The order's part of ConfirmedIsBacked.
Backed(o) ==
    order[o].status = "confirmed" =>
        /\ task[o]
        /\ \A l \in Basket[o] : tally[o].units[l] >= 1
        /\ Method[o] # "cod" => gateway[o].captured

SagaInv ==
    /\ TypeOK
    /\ FreshInv
    /\ EvidenceInv
    /\ OnceInv
    /\ \A o \in Orders : Backed(o)

\* Nobody but p is opening a checkout of o.
Alone(p, o) == \A q \in Procs \ {p} : ~(call[q].o = o /\ call[q].at \in Opening)

\* What a step never takes back.
Grows ==
    \A o \in Orders :
        /\ gateway[o].captured => gateway'[o].captured
        /\ task[o] => task'[o]
        /\ \A l \in Listings : tally'[o].units[l] >= tally[o].units[l]

-----------------------------------------------------------------------------

LEMMA AloneUnlessCancel ==
    ASSUME SagaInv, NEW p \in Procs, NEW o \in Orders, call[p].o = o, ~CancelOnly(call[p])
    PROVE  Alone(p, o)
  BY DEF SagaInv, FreshInv, Alone

\* What a handler relies on stays true while things only grow.
LEMMA EvidenceKept ==
    ASSUME TypeOK, TypeOK', Grows, NEW c \in Calls, Evidence(c)
    PROVE  Evidence(c)'
  <1>1. \A o \in Orders, l \in Listings :
            tally[o].units[l] \in Int /\ tally'[o].units[l] \in Int
    BY DEF TypeOK
  <1>2. \A o \in Orders : Basket[o] \subseteq Listings
    BY SagaAssumption
  <1>3. c.done \subseteq Listings
    BY DEF Calls
  <1>4. ASSUME NEW l \in Listings, c.o \in Orders, tally[c.o].units[l] >= 1
        PROVE  tally'[c.o].units[l] >= 1
    BY <1>1, <1>4 DEF Grows
  <1>5. CASE c.at = "idle"
    BY <1>5 DEF Evidence
  <1>6. CASE c.at # "idle"
    <2>1. c.o \in Orders
      BY <1>6 DEF Evidence
    <2> QED BY <1>2, <1>3, <1>4, <1>6, <2>1 DEF Evidence, Grows
  <1> QED BY <1>5, <1>6

\* A step of handler p, for order o, that neither creates the picking task nor
\* confirms, and hears nothing from the gateway.
LEMMA Progress ==
    ASSUME SagaInv, TypeOK', NEW p \in Procs, NEW o \in Orders, NEW d \in Calls,
           call[p].o = o \/ (call[p].at = "idle" /\ (d.at \in Opening => Quiet(o))),
           call' = [call EXCEPT ![p] = d], d.o = o \/ d = Idle,
           UNCHANGED <<gateway, task>>, Grows,
           \A x \in Orders : tally'[x].confirmed = tally[x].confirmed,
           \A x \in Orders \ {o} : order'[x] = order[x] /\ payment'[x] = payment[x],
           order'[o].status # "none",
           order'[o].status = "confirmed" => order[o].status = "confirmed",
           d.at # "confirmOrder", Evidence(d)',
           d.at \in Opening => Opened(o)' /\ (call[p].at \in Opening \/ Quiet(o)),
           Alone(p, o) \/ ((CancelOnly(d) \/ d = Idle) /\ order'[o].paid = order[o].paid)
    PROVE  SagaInv'
  <1>t. /\ call \in [Procs -> Calls] /\ call' \in [Procs -> Calls]
        /\ call'[p] = d /\ \A q \in Procs \ {p} : call'[q] = call[q]
        /\ Idle.at = "idle" /\ Idle.o = NoOrder /\ NoOrder \notin Orders
    BY SagaAssumption DEF SagaInv, TypeOK, Idle
  <1>1. EvidenceInv'
    <2>1. ASSUME NEW q \in Procs, q # p PROVE Evidence(call[q])'
      <3>1. PICK c \in Calls : c = call[q]
        BY <1>t
      <3>2. Evidence(c) /\ c = call'[q]
        BY <1>t, <2>1, <3>1 DEF SagaInv, EvidenceInv
      <3>3. Evidence(c)'
        BY <3>2, EvidenceKept DEF SagaInv
      <3> QED BY <3>2, <3>3 DEF Evidence
    <2>2. Evidence(call[p])'
      BY <1>t DEF Evidence
    <2> QED BY <2>1, <2>2 DEF EvidenceInv, Evidence
  <1>2. OnceInv'
    BY <1>t DEF SagaInv, OnceInv, Once, At
  <1>3. ASSUME NEW x \in Orders PROVE Backed(x)'
    <2>1. \A l \in Basket[x] : l \in Listings
      BY SagaAssumption
    <2>2. \A l \in Listings : tally[x].units[l] \in Int /\ tally'[x].units[l] \in Int
      BY DEF SagaInv, TypeOK
    <2>3. order'[x].status = "confirmed" => order[x].status = "confirmed"
      OBVIOUS
    <2> QED BY <2>1, <2>2, <2>3 DEF SagaInv, Backed, Grows
  <1>4. FreshInv'
    <2>1. ASSUME NEW x \in Orders, order'[x].status = "none" PROVE Quiet(x)' /\ Untouched(x)'
      <3>1. x # o /\ order[x].status = "none"
        BY <2>1
      <3>2. Quiet(x) /\ Untouched(x)
        BY <3>1 DEF SagaInv, FreshInv
      <3> QED BY <1>t, <3>1, <3>2 DEF Quiet, Untouched
    <2>2. ASSUME NEW q \in Procs, call'[q].at \in Opening, q # p
          PROVE  /\ Opened(call[q].o)'
                 /\ \A r \in Procs \ {q} : call'[r].o = call'[q].o => CancelOnly(call'[r])
      <3>1. PICK x \in Orders : x = call[q].o /\ x = call'[q].o
        BY <1>t, <2>2 DEF SagaInv, EvidenceInv, Evidence, Opening
      <3>2. Opened(x) /\ \A r \in Procs \ {q} : call[r].o = x => CancelOnly(call[r])
        BY <1>t, <2>2, <3>1 DEF SagaInv, FreshInv
      <3>3. CASE x # o
        <4>1. d.o # x
          BY <1>t, <3>3
        <4> QED BY <1>t, <2>2, <3>1, <3>2, <3>3, <4>1 DEF Opened
      <3>4. CASE x = o
        <4>1. (CancelOnly(d) \/ d = Idle) /\ order'[o].paid = order[o].paid
          BY <1>t, <2>2, <3>1, <3>4 DEF Alone
        <4>2. Opened(x)'
          BY <3>2, <3>4, <4>1 DEF Opened
        <4> QED BY <1>t, <2>2, <3>1, <3>2, <3>4, <4>1, <4>2 DEF Opened
      <3> QED BY <3>3, <3>4
    <2>3. ASSUME call'[p].at \in Opening
          PROVE  /\ Opened(call[p].o)'
                 /\ \A r \in Procs \ {p} : call'[r].o = call'[p].o => CancelOnly(call'[r])
      <3>1. d.o = o /\ Opened(o)' /\ (call[p].at \in Opening \/ Quiet(o))
        BY <1>t, <2>3 DEF Opening
      <3>2. \A r \in Procs \ {p} : call[r].o = o => CancelOnly(call[r])
        BY <3>1, <1>t DEF SagaInv, FreshInv, Quiet, Opening
      <3> QED BY <1>t, <3>1, <3>2 DEF Opened
    <2> QED BY <2>1, <2>2, <2>3 DEF FreshInv, Opened
  <1> QED BY <1>1, <1>2, <1>3, <1>4 DEF SagaInv

-----------------------------------------------------------------------------
(* Types. *)

LEMMA IdleTyped == Idle \in Calls
  BY DEF Idle, Calls, Steps, PaymentStatus

\* The edits the handlers make of their own record.
LEMMA AtEdited ==
    ASSUME NEW c \in Calls, NEW st \in Steps
    PROVE  [c EXCEPT !.at = st] \in Calls
  BY DEF Calls

LEMMA PaidEdited ==
    ASSUME NEW c \in Calls, NEW pd \in PaymentStatus
    PROVE  /\ [c EXCEPT !.paid = pd] \in Calls
           /\ \A st \in Steps : [c EXCEPT !.paid = pd, !.at = st] \in Calls
  BY DEF Calls

LEMMA TodoEdited ==
    ASSUME NEW c \in Calls, NEW T \in SUBSET Listings
    PROVE  /\ [c EXCEPT !.todo = T] \in Calls
           /\ \A st \in Steps : [c EXCEPT !.at = st, !.todo = T] \in Calls
           /\ \A D \in SUBSET Listings : [c EXCEPT !.todo = T, !.done = D] \in Calls
  <1>1. [c EXCEPT !.todo = T] \in Calls
    BY DEF Calls
  <1>2. ASSUME NEW st \in Steps PROVE [c EXCEPT !.at = st, !.todo = T] \in Calls
    BY DEF Calls
  <1>3. ASSUME NEW D \in SUBSET Listings PROVE [c EXCEPT !.todo = T, !.done = D] \in Calls
    BY DEF Calls
  <1> QED BY <1>1, <1>2, <1>3

LEMMA PathEdited ==
    ASSUME NEW c \in Calls, NEW st \in Steps,
           NEW pt \in {"none", "finalize", "decline", "cancel"}
    PROVE  /\ [c EXCEPT !.at = st, !.path = pt] \in Calls
           /\ \A T \in SUBSET Listings, D \in SUBSET Listings :
                  [c EXCEPT !.at = st, !.path = pt, !.todo = T, !.done = D] \in Calls
           /\ \A T \in SUBSET Listings, pd \in PaymentStatus :
                  [c EXCEPT !.at = st, !.path = pt, !.paid = pd, !.todo = T] \in Calls
  <1>1. [c EXCEPT !.at = st, !.path = pt] \in Calls
    BY DEF Calls
  <1>2. ASSUME NEW T \in SUBSET Listings, NEW D \in SUBSET Listings
        PROVE  [c EXCEPT !.at = st, !.path = pt, !.todo = T, !.done = D] \in Calls
    BY DEF Calls
  <1>3. ASSUME NEW T \in SUBSET Listings, NEW pd \in PaymentStatus
        PROVE  [c EXCEPT !.at = st, !.path = pt, !.paid = pd, !.todo = T] \in Calls
    BY DEF Calls
  <1> QED BY <1>1, <1>2, <1>3

LEMMA OrderEdited ==
    ASSUME order \in [Orders -> [status : OrderStatus, paid : PaymentStatus]],
           NEW o \in Orders, NEW s \in OrderStatus, NEW pd \in PaymentStatus
    PROVE  /\ [order EXCEPT ![o].status = s]
                  \in [Orders -> [status : OrderStatus, paid : PaymentStatus]]
           /\ [order EXCEPT ![o].paid = pd]
                  \in [Orders -> [status : OrderStatus, paid : PaymentStatus]]
  OBVIOUS

\* The parts of a handler's record.
LEMMA CallParts ==
    ASSUME NEW c \in Calls
    PROVE  /\ c.at \in Steps /\ c.paid \in PaymentStatus
           /\ c.path \in {"none", "finalize", "decline", "cancel"}
           /\ c.todo \in SUBSET Listings /\ c.done \in SUBSET Listings
           /\ "none" \in PaymentStatus
  BY DEF Calls, PaymentStatus

LEMMA StartCommitTyped ==
    ASSUME NEW c \in Calls, c.o \in Orders
    PROVE  StartCommit(c) \in Calls
  <1>1. "commit" \in Steps /\ Basket[c.o] \in SUBSET Listings /\ {} \in SUBSET Listings
    BY SagaAssumption DEF Steps
  <1> QED BY <1>1, PathEdited DEF StartCommit

LEMMA CallMoved ==
    ASSUME call \in [Procs -> Calls], NEW p \in Procs, NEW d \in Calls,
           call' = [call EXCEPT ![p] = d]
    PROVE  call' \in [Procs -> Calls]
  OBVIOUS

LEMMA ReturnTyped ==
    ASSUME TypeOK, NEW p \in Procs, Return(p)
    PROVE  /\ \E d \in Calls : /\ call' = [call EXCEPT ![p] = d]
                               /\ d = Idle \/ (d.at = "finish" /\ d.o = call[p].o)
                               /\ call[p].event = NoEvent => d = Idle
           /\ call' \in [Procs -> Calls]
  <1>1. call[p] \in Calls /\ call \in [Procs -> Calls]
    BY DEF TypeOK
  <1>2. Idle \in Calls
    BY IdleTyped
  <1>3. PICK d : d = IF call[p].event = NoEvent THEN Idle ELSE [call[p] EXCEPT !.at = "finish"]
    OBVIOUS
  <1>4. d \in Calls /\ (d = Idle \/ (d.at = "finish" /\ d.o = call[p].o))
        /\ (call[p].event = NoEvent => d = Idle)
    <2>1. CASE call[p].event = NoEvent
      BY <1>2, <1>3, <2>1
    <2>2. CASE call[p].event # NoEvent
      <3>1. d = [call[p] EXCEPT !.at = "finish"] /\ "finish" \in Steps
        BY <1>3, <2>2 DEF Steps
      <3>2. d \in Calls
        BY <1>1, <3>1, AtEdited
      <3> QED BY <1>1, <2>2, <3>1, <3>2 DEF Calls
    <2> QED BY <2>1, <2>2
  <1>5. call' = [call EXCEPT ![p] = d]
    BY <1>3 DEF Return
  <1> QED BY <1>1, <1>4, <1>5

LEMMA ContinueTyped ==
    ASSUME TypeOK, NEW p \in Procs, NEW st \in Steps, Continue(p, st)
    PROVE  /\ \E d \in Calls : /\ call' = [call EXCEPT ![p] = d]
                               /\ d = [call[p] EXCEPT !.at = st]
                               /\ d.at = st /\ d.o = call[p].o
                               /\ d.path = call[p].path /\ d.paid = call[p].paid
                               /\ d.event = call[p].event /\ d.done = call[p].done
                               /\ d.todo = call[p].todo
           /\ call' \in [Procs -> Calls]
  <1>1. call[p] \in Calls /\ call \in [Procs -> Calls]
    BY DEF TypeOK
  <1>2. PICK d : d = [call[p] EXCEPT !.at = st]
    OBVIOUS
  <1>3. d \in Calls /\ d.at = st /\ d.o = call[p].o /\ d.path = call[p].path
        /\ d.paid = call[p].paid /\ d.event = call[p].event /\ d.done = call[p].done
        /\ d.todo = call[p].todo
    BY <1>1, <1>2 DEF Calls
  <1>4. call' = [call EXCEPT ![p] = d]
    BY <1>2 DEF Continue
  <1> QED BY <1>1, <1>2, <1>3, <1>4

LEMMA InitSagaInv == Init => SagaInv
  <1> SUFFICES ASSUME Init PROVE SagaInv
    OBVIOUS
  <1>1. Idle \in Calls /\ Idle.at = "idle" /\ Idle.o = NoOrder
    BY IdleTyped DEF Idle
  <1>2. TypeOK
    <2>1. order \in [Orders -> [status : OrderStatus, paid : PaymentStatus]]
      BY DEF Init, OrderStatus, PaymentStatus
    <2>2. tally \in [Orders -> [units : [Listings -> Nat], confirmed : Nat]]
      BY DEF Init
    <2>3. event \in [Orders -> [Events -> {"none", "received", "processed"}]]
      BY DEF Init
    <2>4. hold \in [Orders -> HoldStatus] /\ payment \in [Orders -> PaymentStatus]
      BY DEF Init, HoldStatus, PaymentStatus
    <2> QED BY <1>1, <2>1, <2>2, <2>3, <2>4, SagaAssumption DEF Init, TypeOK
  <1>3. \A p \in Procs : call[p].at = "idle" /\ call[p].o = NoOrder
    BY <1>1 DEF Init
  <1>4. EvidenceInv
    BY <1>3 DEF EvidenceInv, Evidence
  <1>5. FreshInv
    BY <1>3, SagaAssumption DEF Init, FreshInv, Quiet, Untouched, Opening
  <1>6. OnceInv
    <2>1. \A o \in Orders : tally[o].confirmed = 0
      BY DEF Init
    <2> QED BY <1>3, <2>1 DEF OnceInv, Once, At
  <1>7. \A o \in Orders : Backed(o)
    BY DEF Init, Backed
  <1> QED BY <1>2, <1>4, <1>5, <1>6, <1>7 DEF SagaInv

LEMMA NextTypeOK == TypeOK /\ EvidenceInv /\ [Next]_vars => TypeOK'
  <1> SUFFICES ASSUME TypeOK, EvidenceInv, [Next]_vars PROVE TypeOK'
    OBVIOUS
  <1>t. /\ call \in [Procs -> Calls] /\ stock \in [Listings -> Nat]
        /\ order \in [Orders -> [status : OrderStatus, paid : PaymentStatus]]
        /\ payment \in [Orders -> PaymentStatus]
        /\ gateway \in [Orders -> [captured : BOOLEAN, attemptFailed : BOOLEAN]]
        /\ event \in [Orders -> [Events -> {"none", "received", "processed"}]]
        /\ tally \in [Orders -> [units : [Listings -> Nat], confirmed : Nat]]
        /\ hold \in [Orders -> HoldStatus] /\ task \in [Orders -> BOOLEAN]
        /\ refunds \in [Orders -> Nat] /\ faults \in 0 .. MaxFaults
        /\ MaxFaults \in Nat
    BY SagaAssumption DEF TypeOK
  <1>i. Idle \in Calls
    BY IdleTyped
  <1>b. \A o \in Orders : Basket[o] \subseteq Listings
    BY SagaAssumption
  <1>o. \A p \in Procs : call[p].at # "idle" => call[p].o \in Orders
    BY DEF EvidenceInv, Evidence
  <1>1. ASSUME NEW p \in Procs, NEW o \in Orders, CheckoutStart(p, o) PROVE TypeOK'
    <2>1. order' \in [Orders -> [status : OrderStatus, paid : PaymentStatus]]
      BY <1>1, <1>t DEF CheckoutStart, OrderStatus
    <2>2. call' \in [Procs -> Calls]
      <3>1. [Idle EXCEPT !.at = "pending", !.o = o] \in Calls
        BY <1>i DEF Calls, Steps
      <3> QED BY <1>1, <1>t, <3>1 DEF CheckoutStart
    <2> QED BY <1>1, <1>t, <2>1, <2>2 DEF CheckoutStart, TypeOK
  <1>2. ASSUME NEW p \in Procs, CheckoutPending(p) PROVE TypeOK'
    <2>o. call[p].o \in Orders
      BY <1>2, <1>o DEF CheckoutPending, At
    <2>1. order' \in [Orders -> [status : OrderStatus, paid : PaymentStatus]]
      <3>1. "payment_pending" \in OrderStatus /\ order[call[p].o].paid \in PaymentStatus
        BY <1>t, <2>o DEF OrderStatus
      <3> QED BY <1>2, <1>t, <2>o, <3>1, OrderEdited DEF CheckoutPending
    <2>2. call' \in [Procs -> Calls]
      BY <1>2, ContinueTyped DEF CheckoutPending, Steps
    <2> QED BY <1>2, <1>t, <2>1, <2>2 DEF CheckoutPending, TypeOK
  <1>3. ASSUME NEW p \in Procs, ChargeCreate(p) PROVE TypeOK'
    <2>1. payment' \in [Orders -> PaymentStatus]
      BY <1>3, <1>t DEF ChargeCreate, PaymentStatus
    <2>2. call' \in [Procs -> Calls]
      <3>1. \A st \in {"summary", "charge"}, pd \in {"awaiting_collection", "pending"} :
                [call[p] EXCEPT !.paid = pd, !.at = st] \in Calls
        BY <1>t, PaidEdited DEF Steps, PaymentStatus
      <3> QED BY <1>3, <1>t, <3>1 DEF ChargeCreate
    <2> QED BY <1>3, <1>t, <2>1, <2>2 DEF ChargeCreate, TypeOK
  <1>4. ASSUME NEW p \in Procs, ChargeAnswer(p) PROVE TypeOK'
    <2>1. PICK answer \in {"pending", "success", "failed"} :
              /\ payment' = [payment EXCEPT ![call[p].o] = answer]
              /\ gateway' = [gateway EXCEPT ![call[p].o].captured = (answer = "success")]
              /\ call' = [call EXCEPT ![p] = [call[p] EXCEPT !.paid = answer, !.at = "summary"]]
      BY <1>4, <1>t DEF ChargeAnswer, Calls
    <2>2. payment' \in [Orders -> PaymentStatus]
      BY <1>t, <2>1 DEF PaymentStatus
    <2>3. gateway' \in [Orders -> [captured : BOOLEAN, attemptFailed : BOOLEAN]]
      BY <1>t, <2>1
    <2>4. call' \in [Procs -> Calls]
      <3>1. [call[p] EXCEPT !.paid = answer, !.at = "summary"] \in Calls
        <4>1. answer \in PaymentStatus /\ "summary" \in Steps
          BY DEF PaymentStatus, Steps
        <4> QED BY <1>t, <4>1, PaidEdited
      <3> QED BY <1>t, <2>1, <3>1
    <2> QED BY <1>4, <1>t, <2>2, <2>3, <2>4 DEF ChargeAnswer, TypeOK
  <1>5. ASSUME NEW p \in Procs, CheckoutSummary(p) PROVE TypeOK'
    <2>o. call[p].o \in Orders
      BY <1>5, <1>o DEF CheckoutSummary, At
    <2>1. order' \in [Orders -> [status : OrderStatus, paid : PaymentStatus]]
      BY <1>5, <1>t DEF CheckoutSummary, Calls
    <2>2. [call[p] EXCEPT !.at = "release", !.path = "decline"] \in Calls
      <3>1. "release" \in Steps
        BY DEF Steps
      <3> QED BY <1>t, <3>1, PathEdited
    <2>3. StartCommit(call[p]) \in Calls
      BY <1>t, <2>o, StartCommitTyped
    <2>4. call' \in [Procs -> Calls]
      BY <1>5, <1>t, <1>i, <2>2, <2>3 DEF CheckoutSummary
    <2> QED BY <1>5, <1>t, <2>1, <2>4 DEF CheckoutSummary, TypeOK
  <1>6. ASSUME NEW p \in Procs, CommitItem(p) PROVE TypeOK'
    <2>o. call[p].o \in Orders
      BY <1>6, <1>o DEF CommitItem, At
    <2>1. PICK l \in call[p].todo : 
              IF stock[l] >= 1
              THEN /\ stock' = [stock EXCEPT ![l] = @ - 1]
                   /\ tally' = [tally EXCEPT ![call[p].o].units[l] = @ + 1]
                   /\ call' = [call EXCEPT ![p].todo = @ \ {l}, ![p].done = @ \cup {l}]
              ELSE /\ call' = [call EXCEPT ![p].todo = @ \ {l}]
                   /\ UNCHANGED <<stock, tally>>
      BY <1>6 DEF CommitItem
    <2>2. call[p].todo \subseteq Listings /\ l \in Listings
      BY <1>t DEF Calls
    <2>3. stock' \in [Listings -> Nat]
      <3>1. stock[l] >= 1 => stock[l] - 1 \in Nat
        BY <1>t, <2>2
      <3> QED BY <1>t, <2>1, <2>2, <3>1
    <2>4. tally' \in [Orders -> [units : [Listings -> Nat], confirmed : Nat]]
      <3>1. tally[call[p].o].units[l] + 1 \in Nat
        BY <1>t, <2>o, <2>2
      <3> DEFINE o == call[p].o
                 v == [tally[o] EXCEPT !.units = [tally[o].units EXCEPT ![l] = tally[o].units[l] + 1]]
      <3>2. tally' = [tally EXCEPT ![o] = v] \/ tally' = tally
        BY <2>1
      <3>3. tally[o] \in [units : [Listings -> Nat], confirmed : Nat]
        BY <1>t, <2>o
      <3>4. v \in [units : [Listings -> Nat], confirmed : Nat]
        BY <3>1, <3>3
      <3> HIDE DEF v, o
      <3> QED BY <1>t, <3>2, <3>4
    <2>5. call' \in [Procs -> Calls]
      <3>1. /\ [call[p] EXCEPT !.todo = call[p].todo \ {l}, !.done = call[p].done \cup {l}] \in Calls
            /\ [call[p] EXCEPT !.todo = call[p].todo \ {l}] \in Calls
        <4>1. /\ call[p].todo \ {l} \in SUBSET Listings
              /\ call[p].done \cup {l} \in SUBSET Listings
          BY <1>t, <2>2, CallParts
        <4> QED BY <1>t, <4>1, TodoEdited
      <3> QED BY <1>t, <2>1, <3>1
    <2> QED BY <1>6, <1>t, <2>3, <2>4, <2>5 DEF CommitItem, TypeOK
  <1>7. ASSUME NEW p \in Procs, CommitDone(p) PROVE TypeOK'
    <2>1. call' \in [Procs -> Calls]
      <3>1. /\ [call[p] EXCEPT !.at = "slotConfirm"] \in Calls
            /\ [call[p] EXCEPT !.at = "restore", !.todo = call[p].done] \in Calls
        <4>1. "slotConfirm" \in Steps /\ "restore" \in Steps
          BY DEF Steps
        <4> QED BY <1>t, <4>1, CallParts, AtEdited, TodoEdited
      <3> QED BY <1>7, <1>t, <3>1 DEF CommitDone
    <2> QED BY <1>7, <1>t, <2>1 DEF CommitDone, TypeOK
  <1>8. ASSUME NEW p \in Procs, SlotConfirm(p) PROVE TypeOK'
    <2>o. call[p].o \in Orders
      BY <1>8, <1>o DEF SlotConfirm, At
    <2>1. call' \in [Procs -> Calls]
      BY <1>8, ContinueTyped, ReturnTyped DEF SlotConfirm, Steps
    <2>2. hold' \in [Orders -> HoldStatus]
      <3>1. "confirmed" \in HoldStatus
        BY DEF HoldStatus
      <3> QED BY <1>8, <1>t, <2>o, <3>1 DEF SlotConfirm
    <2> QED BY <1>8, <1>t, <2>1, <2>2 DEF SlotConfirm, TypeOK
  <1>9. ASSUME NEW p \in Procs, CreateTask(p) PROVE TypeOK'
    <2>1. call' \in [Procs -> Calls]
      BY <1>9, ContinueTyped, ReturnTyped DEF CreateTask, Steps
    <2> QED BY <1>9, <1>t, <2>1 DEF CreateTask, TypeOK
  <1>10. ASSUME NEW p \in Procs, ConfirmOrder(p) PROVE TypeOK'
    <2>o. call[p].o \in Orders
      BY <1>10, <1>o DEF ConfirmOrder, At
    <2>1. call' \in [Procs -> Calls]
      BY <1>10, ReturnTyped DEF ConfirmOrder
    <2>2. order' \in [Orders -> [status : OrderStatus, paid : PaymentStatus]]
      <3>1. "confirmed" \in OrderStatus /\ order[call[p].o].paid \in PaymentStatus
        BY <1>t, <2>o DEF OrderStatus
      <3> QED BY <1>10, <1>t, <2>o, <3>1, OrderEdited DEF ConfirmOrder
    <2>3. tally' \in [Orders -> [units : [Listings -> Nat], confirmed : Nat]]
      <3> DEFINE o == call[p].o
                 v == [tally[o] EXCEPT !.confirmed = tally[o].confirmed + 1]
      <3>1. tally' = [tally EXCEPT ![o] = v]
        BY <1>10 DEF ConfirmOrder
      <3>2. tally[o] \in [units : [Listings -> Nat], confirmed : Nat]
        BY <1>t, <2>o
      <3>3. v \in [units : [Listings -> Nat], confirmed : Nat]
        BY <3>2
      <3> HIDE DEF v, o
      <3> QED BY <1>t, <3>1, <3>3
    <2> QED BY <1>10, <1>t, <2>1, <2>2, <2>3 DEF ConfirmOrder, TypeOK
  <1>11. ASSUME NEW p \in Procs, RestoreItem(p) PROVE TypeOK'
    <2>1. PICK l \in call[p].todo : /\ stock' = [stock EXCEPT ![l] = @ + 1]
                                    /\ call' = [call EXCEPT ![p].todo = @ \ {l}]
      BY <1>11 DEF RestoreItem
    <2>2. call' \in [Procs -> Calls]
      <3>1. [call[p] EXCEPT !.todo = call[p].todo \ {l}] \in Calls
        <4>1. call[p].todo \ {l} \in SUBSET Listings
          BY <1>t, CallParts
        <4> QED BY <1>t, <4>1, TodoEdited
      <3> QED BY <1>t, <2>1, <3>1
    <2>3. stock' \in [Listings -> Nat]
      <3>1. l \in Listings
        BY <1>t, CallParts
      <3> QED BY <1>t, <2>1, <3>1
    <2> QED BY <1>11, <1>t, <2>2, <2>3 DEF RestoreItem, TypeOK
  <1>12. ASSUME NEW p \in Procs, RestoreDone(p) PROVE TypeOK'
    <2>1. call' \in [Procs -> Calls]
      BY <1>12, ContinueTyped DEF RestoreDone, AfterRestore, Steps
    <2> QED BY <1>12, <1>t, <2>1 DEF RestoreDone, TypeOK
  <1>13. ASSUME NEW p \in Procs, Release(p) PROVE TypeOK'
    <2>1. call' \in [Procs -> Calls]
      <3>1. AfterRelease(call[p]) \in Steps
        BY DEF AfterRelease, Steps
      <3> QED BY <1>13, <3>1, ContinueTyped, ReturnTyped DEF Release
    <2>2. hold' \in [Orders -> HoldStatus]
      BY <1>13, <1>t DEF Release, HoldStatus
    <2> QED BY <1>13, <1>t, <2>1, <2>2 DEF Release, TypeOK
  <1>14. ASSUME NEW p \in Procs, WaiveCash(p) PROVE TypeOK'
    <2>1. call' \in [Procs -> Calls]
      <3>1. [call[p] EXCEPT !.paid = "failed", !.at = "markCancelled"] \in Calls
        <4>1. "markCancelled" \in Steps /\ "failed" \in PaymentStatus
          BY DEF Steps, PaymentStatus
        <4> QED BY <1>t, <4>1, PaidEdited
      <3> QED BY <1>14, <1>t, <3>1 DEF WaiveCash
    <2>2. payment' \in [Orders -> PaymentStatus]
      BY <1>14, <1>t DEF WaiveCash, PaymentStatus
    <2> QED BY <1>14, <1>t, <2>1, <2>2 DEF WaiveCash, TypeOK
  <1>15. ASSUME NEW p \in Procs, RefundInitiate(p) PROVE TypeOK'
    <2>1. call' \in [Procs -> Calls]
      BY <1>15, ContinueTyped, ReturnTyped DEF RefundInitiate, Steps
    <2>2. refunds' \in [Orders -> Nat] /\ faults' \in 0 .. MaxFaults
      BY <1>15, <1>t DEF RefundInitiate
    <2> QED BY <1>15, <1>t, <2>1, <2>2 DEF RefundInitiate, TypeOK
  <1>16. ASSUME NEW p \in Procs, SyncRefund(p) PROVE TypeOK'
    <2>o. call[p].o \in Orders
      BY <1>16, <1>o DEF SyncRefund, At
    <2>1. call' \in [Procs -> Calls]
      BY <1>16, ContinueTyped DEF SyncRefund, Steps
    <2>2. payment' \in [Orders -> PaymentStatus]
          /\ order' \in [Orders -> [status : OrderStatus, paid : PaymentStatus]]
      <3>1. "refunded" \in PaymentStatus /\ order[call[p].o].status \in OrderStatus
        BY <1>t, <2>o DEF PaymentStatus
      <3> QED BY <1>16, <1>t, <2>o, <3>1, OrderEdited DEF SyncRefund
    <2> QED BY <1>16, <1>t, <2>1, <2>2 DEF SyncRefund, TypeOK
  <1>17. ASSUME NEW p \in Procs, MarkCancelled(p) PROVE TypeOK'
    <2>o. call[p].o \in Orders
      BY <1>17, <1>o DEF MarkCancelled, At
    <2>1. call' \in [Procs -> Calls]
      BY <1>17, ReturnTyped DEF MarkCancelled
    <2>2. order' \in [Orders -> [status : OrderStatus, paid : PaymentStatus]]
      BY <1>17, <1>t DEF MarkCancelled, PaymentStatus, OrderStatus
    <2> QED BY <1>17, <1>t, <2>1, <2>2 DEF MarkCancelled, TypeOK
  <1>18. ASSUME NEW p \in Procs, NEW o \in Orders, CancelRequest(p, o) PROVE TypeOK'
    <2>1. call' \in [Procs -> Calls]
      <3>1. [Idle EXCEPT !.at = "readCancel", !.o = o, !.refund = TRUE] \in Calls
        BY <1>i DEF Calls, Steps
      <3> QED BY <1>18, <1>t, <3>1 DEF CancelRequest
    <2> QED BY <1>18, <1>t, <2>1 DEF CancelRequest, TypeOK
  <1>19. ASSUME NEW p \in Procs, ReadCancel(p) PROVE TypeOK'
    <2>o. call[p].o \in Orders
      BY <1>19, <1>o DEF ReadCancel, At
    <2>1. call' \in [Procs -> Calls]
      <3>1. PICK d : d = [call[p] EXCEPT !.at = "restore", !.path = "cancel",
                                         !.paid = order[call[p].o].paid,
                                         !.todo = Basket[call[p].o]]
        OBVIOUS
      <3>2. call' = [call EXCEPT ![p] = d] \/ Return(p)
        BY <1>19, <1>t, <3>1 DEF ReadCancel, Calls
      <3>3. d \in Calls
        <4>1. /\ "restore" \in Steps /\ order[call[p].o].paid \in PaymentStatus
              /\ Basket[call[p].o] \in SUBSET Listings
          BY <1>t, <1>b, <2>o DEF Steps
        <4>2. call[p] \in Calls
          BY <1>t
        <4>3. \A T \in SUBSET Listings, pd \in PaymentStatus :
                  [call[p] EXCEPT !.at = "restore", !.path = "cancel", !.paid = pd, !.todo = T]
                      \in Calls
          BY <4>1, <4>2, PathEdited
        <4> QED BY <3>1, <4>1, <4>3
      <3> QED BY <1>t, <3>2, <3>3, ReturnTyped
    <2> QED BY <1>19, <1>t, <2>1 DEF ReadCancel, TypeOK
  <1>20. ASSUME NEW p \in Procs, NEW o \in Orders, NEW e \in Events, WebhookArrives(p, o, e)
         PROVE  TypeOK'
    <2>1. call' \in [Procs -> Calls]
      <3>1. \A st \in {"markFailed", "readPayment"} :
                [Idle EXCEPT !.o = o, !.event = e, !.at = st] \in Calls
        BY <1>i DEF Calls, Steps
      <3> QED BY <1>20, <1>t, <3>1 DEF WebhookArrives
    <2>2. event' \in [Orders -> [Events -> {"none", "received", "processed"}]]
      BY <1>20, <1>t DEF WebhookArrives
    <2> QED BY <1>20, <1>t, <2>1, <2>2 DEF WebhookArrives, TypeOK
  <1>21. ASSUME NEW p \in Procs, ConfirmSuccessRead(p) PROVE TypeOK'
    <2>1. call' \in [Procs -> Calls]
      BY <1>21, ContinueTyped DEF ConfirmSuccessRead, Steps
    <2> QED BY <1>21, <1>t, <2>1 DEF ConfirmSuccessRead, TypeOK
  <1>22. ASSUME NEW p \in Procs, ConfirmSuccessSave(p) PROVE TypeOK'
    <2>1. call' \in [Procs -> Calls]
      BY <1>22, ContinueTyped DEF ConfirmSuccessSave, Steps
    <2>2. payment' \in [Orders -> PaymentStatus]
      BY <1>22, <1>t DEF ConfirmSuccessSave, PaymentStatus
    <2> QED BY <1>22, <1>t, <2>1, <2>2 DEF ConfirmSuccessSave, TypeOK
  <1>23. ASSUME NEW p \in Procs, ConfirmPayment(p) PROVE TypeOK'
    <2>o. call[p].o \in Orders
      BY <1>23, <1>o DEF ConfirmPayment, At
    <2>1. call' \in [Procs -> Calls]
      <3>1. PICK d : d = [StartCommit(call[p]) EXCEPT !.paid = order[call[p].o].paid]
        OBVIOUS
      <3>2. call' = [call EXCEPT ![p] = d] \/ Return(p)
        BY <1>23, <1>t, <3>1 DEF ConfirmPayment
      <3>3. StartCommit(call[p]) \in Calls
        BY <1>t, <2>o, StartCommitTyped
      <3>4. d \in Calls
        <4>1. order[call[p].o].paid \in PaymentStatus
          BY <1>t, <2>o
        <4> QED BY <3>1, <3>3, <4>1, PaidEdited
      <3> QED BY <1>t, <3>2, <3>4, ReturnTyped
    <2> QED BY <1>23, <1>t, <2>1 DEF ConfirmPayment, TypeOK
  <1>24. ASSUME NEW p \in Procs, MarkFailed(p) PROVE TypeOK'
    <2>1. call' \in [Procs -> Calls]
      BY <1>24, ContinueTyped DEF MarkFailed, Steps
    <2> QED BY <1>24, <1>t, <2>1 DEF MarkFailed, TypeOK
  <1>25. ASSUME NEW p \in Procs, SaveFailed(p) PROVE TypeOK'
    <2>1. call' \in [Procs -> Calls]
      BY <1>25, ContinueTyped DEF SaveFailed, Steps
    <2>2. payment' \in [Orders -> PaymentStatus]
      BY <1>25, <1>t DEF SaveFailed, PaymentStatus
    <2> QED BY <1>25, <1>t, <2>1, <2>2 DEF SaveFailed, TypeOK
  <1>26. ASSUME NEW p \in Procs, NEW o \in Orders, ReconcileFind(p, o) PROVE TypeOK'
    <2>1. call' \in [Procs -> Calls]
      <3>1. [Idle EXCEPT !.at = "fetch", !.o = o] \in Calls
        BY <1>i DEF Calls, Steps
      <3> QED BY <1>26, <1>t, <3>1 DEF ReconcileFind
    <2> QED BY <1>26, <1>t, <2>1 DEF ReconcileFind, TypeOK
  <1>27. ASSUME NEW p \in Procs, ReconcileFetch(p) PROVE TypeOK'
    <2>1. call' \in [Procs -> Calls]
      BY <1>27, ContinueTyped, ReturnTyped DEF ReconcileFetch, Steps
    <2> QED BY <1>27, <1>t, <2>1 DEF ReconcileFetch, TypeOK
  <1>28. ASSUME NEW p \in Procs, FinishEvent(p) PROVE TypeOK'
    <2>1. event' \in [Orders -> [Events -> {"none", "received", "processed"}]]
      BY <1>28, <1>t DEF FinishEvent
    <2> QED BY <1>28, <1>t, <1>i, <2>1 DEF FinishEvent, TypeOK
  <1>29. ASSUME NEW o \in Orders, CustomerPays(o) \/ AttemptFails(o) PROVE TypeOK'
    <2>1. gateway' \in [Orders -> [captured : BOOLEAN, attemptFailed : BOOLEAN]]
      <3>1. CASE CustomerPays(o)
        BY <3>1, <1>t DEF CustomerPays
      <3>2. CASE AttemptFails(o)
        BY <3>2, <1>t DEF AttemptFails
      <3> QED BY <1>29, <3>1, <3>2
    <2> QED BY <1>29, <1>t, <2>1 DEF CustomerPays, AttemptFails, TypeOK
  <1>30. ASSUME NEW o \in Orders, HoldLapses(o) \/ HoldSwept(o) PROVE TypeOK'
    <2>1. hold' \in [Orders -> HoldStatus]
      BY <1>30, <1>t DEF HoldLapses, HoldSwept, HoldStatus
    <2> QED BY <1>30, <1>t, <2>1 DEF HoldLapses, HoldSwept, TypeOK
  <1>31. ASSUME NEW p \in Procs, Crash(p) PROVE TypeOK'
    <2>1. faults' \in 0 .. MaxFaults
      BY <1>31, <1>t DEF Crash
    <2> QED BY <1>31, <1>t, <1>i, <2>1 DEF Crash, TypeOK
  <1>32. CASE UNCHANGED vars
    BY <1>32 DEF vars, TypeOK
  <1> QED
    BY <1>1, <1>2, <1>3, <1>4, <1>5, <1>6, <1>7, <1>8, <1>9, <1>10, <1>11, <1>12, <1>13,
       <1>14, <1>15, <1>16, <1>17, <1>18, <1>19, <1>20, <1>21, <1>22, <1>23, <1>24, <1>25,
       <1>26, <1>27, <1>28, <1>29, <1>30, <1>31, <1>32
    DEF Next, Step, Start, Environment

-----------------------------------------------------------------------------
(* The steps. *)

\* A step that changes nothing of the orders but the payment of o.
LEMMA CallStep ==
    ASSUME SagaInv, TypeOK', NEW p \in Procs, NEW o \in Orders, NEW d \in Calls,
           call[p].o = o \/ call[p].at = "idle",
           call' = [call EXCEPT ![p] = d], d.o = o \/ d = Idle,
           UNCHANGED <<order, gateway, task, tally>>,
           \A x \in Orders \ {o} : payment'[x] = payment[x],
           order[o].status # "none",
           d.at # "confirmOrder", d.at \in Opening => call[p].at \in Opening,
           Evidence(d), Alone(p, o) \/ CancelOnly(d) \/ d = Idle
    PROVE  SagaInv'
  <1>1. Grows
    BY DEF Grows, SagaInv, TypeOK
  <1>2. Evidence(d)'
    BY DEF Evidence
  <1>3. ASSUME d.at \in Opening PROVE call[p].o = o /\ Opened(o)
    <2>1. call[p].o = o
      BY <1>3 DEF Opening
    <2> QED BY <1>3, <2>1 DEF SagaInv, FreshInv
  <1>4. Opened(o) => Opened(o)'
    BY DEF Opened
  <1>5. d.at \in Opening => Opened(o)' /\ (call[p].at \in Opening \/ Quiet(o))
    BY <1>3, <1>4
  <1>6. call[p].o = o \/ (call[p].at = "idle" /\ (d.at \in Opening => Quiet(o)))
    BY DEF Opening
  <1>7. Alone(p, o) \/ ((CancelOnly(d) \/ d = Idle) /\ order'[o].paid = order[o].paid)
    OBVIOUS
  <1> QED BY <1>1, <1>2, <1>5, <1>6, <1>7, Progress

LEMMA NextSagaInv == SagaInv /\ [Next]_vars => SagaInv'
  <1> SUFFICES ASSUME SagaInv, [Next]_vars PROVE SagaInv'
    OBVIOUS
  <1>T. TypeOK'
    BY NextTypeOK DEF SagaInv
  <1>t. /\ call \in [Procs -> Calls] /\ call' \in [Procs -> Calls]
        /\ order \in [Orders -> [status : OrderStatus, paid : PaymentStatus]]
        /\ tally \in [Orders -> [units : [Listings -> Nat], confirmed : Nat]]
        /\ Idle \in Calls /\ Idle.at = "idle" /\ Idle.o = NoOrder /\ NoOrder \notin Orders
    BY <1>T, IdleTyped, SagaAssumption DEF SagaInv, TypeOK, Idle
  <1>E. \A p \in Procs : Evidence(call[p])
    BY DEF SagaInv, EvidenceInv
  <1>h. ASSUME NEW p \in Procs, call[p].at # "idle"
        PROVE  \E o \in Orders : o = call[p].o /\ order[o].status # "none"
    BY <1>h, <1>E DEF SagaInv, FreshInv, Quiet, Evidence
  <1>i. Evidence(Idle)
    BY <1>t DEF Evidence
  \* A handler that returns relies on nothing.
  <1>r. ASSUME NEW p \in Procs, NEW d, NEW o \in Orders, o = call[p].o,
               d = Idle \/ (d.at = "finish" /\ d.o = call[p].o)
        PROVE  Evidence(d) /\ d.at \notin Opening \cup {"confirmOrder"} /\ (d.o = o \/ d = Idle)
    BY <1>t, <1>r DEF Evidence, Opening
  <1>1. ASSUME NEW p \in Procs, NEW o \in Orders, CheckoutStart(p, o) PROVE SagaInv'
    <2>1. PICK d : d = [Idle EXCEPT !.at = "pending", !.o = o]
      OBVIOUS
    <2>2. /\ call' = [call EXCEPT ![p] = d] /\ d.at = "pending" /\ d.o = o
          /\ d \in Calls /\ call[p].at = "idle"
          /\ UNCHANGED <<payment, gateway, task, tally>>
          /\ \A x \in Orders \ {o} : order'[x] = order[x]
          /\ order'[o].status = "created" /\ order'[o].paid = order[o].paid
      <3>1. d \in Calls /\ d.at = "pending" /\ d.o = o
        BY <1>t, <2>1 DEF Calls, Steps, Idle
      <3> QED BY <1>1, <1>t, <2>1, <3>1 DEF CheckoutStart, MayStart, At
    <2>3. Quiet(o) /\ Untouched(o)
      BY <1>1 DEF CheckoutStart, SagaInv, FreshInv
    <2>4. Opened(o)' /\ Alone(p, o)
      BY <2>2, <2>3 DEF Opened, Untouched, Quiet, Alone
    <2>5. Evidence(d)'
      BY <2>2 DEF Evidence
    <2>6. Grows
      BY <1>t, <2>2 DEF Grows
    <2> QED BY <1>T, <2>2, <2>3, <2>4, <2>5, <2>6, Progress
  <1>2. ASSUME NEW p \in Procs, CheckoutPending(p) PROVE SagaInv'
    <2>o. PICK o \in Orders : o = call[p].o /\ order[o].status # "none"
      BY <1>2, <1>h DEF CheckoutPending, At
    <2>1. PICK d \in Calls : /\ call' = [call EXCEPT ![p] = d] /\ d.at = "pay" /\ d.o = o
      BY <1>2, <2>o, ContinueTyped DEF CheckoutPending, SagaInv, Steps
    <2>2. /\ call[p].at = "pending" /\ UNCHANGED <<payment, gateway, task, tally>>
          /\ \A x \in Orders \ {o} : order'[x] = order[x]
          /\ order'[o].status = "payment_pending" /\ order'[o].paid = order[o].paid
      BY <1>2, <1>t, <2>o DEF CheckoutPending, At
    <2>3. Opened(o) /\ Alone(p, o)
      <3>1. ~CancelOnly(call[p])
        BY <2>2 DEF CancelOnly
      <3> QED BY <2>o, <2>2, <3>1, AloneUnlessCancel DEF SagaInv, FreshInv, Opening
    <2>4. Opened(o)' /\ Evidence(d)' /\ Grows
      BY <1>t, <2>1, <2>2, <2>3 DEF Opened, Evidence, Grows
    <2> QED BY <1>T, <2>o, <2>1, <2>2, <2>3, <2>4, Progress DEF Opening
  <1>3. ASSUME NEW p \in Procs, ChargeCreate(p) PROVE SagaInv'
    <2>o. PICK o \in Orders : o = call[p].o /\ order[o].status # "none"
      BY <1>3, <1>h DEF ChargeCreate, At
    <2>1. PICK d \in Calls : /\ call' = [call EXCEPT ![p] = d] /\ d.at \in {"summary", "charge"}
                             /\ d.o = o /\ (d.at = "summary" => Method[o] = "cod")
      <3>1. PICK d : d = call'[p]
        OBVIOUS
      <3>2. d \in Calls /\ call' = [call EXCEPT ![p] = d]
        BY <1>3, <1>t, <3>1 DEF ChargeCreate
      <3>3. d.at \in {"summary", "charge"} /\ d.o = o /\ (d.at = "summary" => Method[o] = "cod")
        BY <1>3, <1>t, <2>o, <3>1 DEF ChargeCreate, Calls
      <3> QED BY <3>2, <3>3
    <2>2. /\ call[p].at = "pay" /\ UNCHANGED <<order, gateway, task, tally>>
          /\ \A x \in Orders \ {o} : payment'[x] = payment[x]
      BY <1>3, <2>o DEF ChargeCreate, At, SagaInv, TypeOK
    <2>3. Alone(p, o)
      BY <2>o, <2>2, AloneUnlessCancel DEF CancelOnly
    <2>4. Evidence(d)
      BY <2>1 DEF Evidence
    <2> QED BY <1>T, <2>o, <2>1, <2>2, <2>3, <2>4, CallStep DEF Opening
  <1>4. ASSUME NEW p \in Procs, ChargeAnswer(p) PROVE SagaInv'
    <2>o. PICK o \in Orders : o = call[p].o /\ order[o].status # "none"
      BY <1>4, <1>h DEF ChargeAnswer, At
    <2>1. PICK answer \in {"pending", "success", "failed"} :
              /\ gateway' = [gateway EXCEPT ![o].captured = (answer = "success")]
              /\ payment' = [payment EXCEPT ![o] = answer]
              /\ call' = [call EXCEPT ![p] = [call[p] EXCEPT !.paid = answer, !.at = "summary"]]
      <3>1. PICK answer \in IF Method[call[p].o] = "async" THEN {"pending"}
                            ELSE {"success", "failed"} :
                /\ payment' = [payment EXCEPT ![call[p].o] = answer]
                /\ gateway' = [gateway EXCEPT ![call[p].o].captured = (answer = "success")]
                /\ call' = [call EXCEPT ![p].paid = answer, ![p].at = "summary"]
        BY <1>4 DEF ChargeAnswer
      <3>2. answer \in {"pending", "success", "failed"}
        OBVIOUS
      <3>3. call' = [call EXCEPT ![p] = [call[p] EXCEPT !.paid = answer, !.at = "summary"]]
        BY <1>t, <3>1 DEF Calls
      <3> QED BY <2>o, <3>1, <3>2, <3>3
    <2>2. PICK d \in Calls : /\ call' = [call EXCEPT ![p] = d] /\ d.at = "summary"
                             /\ d.o = o /\ d.paid = answer
      <3>1. PICK d : d = [call[p] EXCEPT !.paid = answer, !.at = "summary"]
        OBVIOUS
      <3>2. d \in Calls /\ d.at = "summary" /\ d.o = o /\ d.paid = answer
        <4>1. d.at = "summary" /\ d.o = o /\ d.paid = answer
          BY <1>t, <2>o, <3>1 DEF Calls
        <4>2. d \in Calls
          BY <1>t, <2>1, <3>1
        <4> QED BY <4>1, <4>2
      <3> QED BY <2>1, <3>1, <3>2
    <2>3. /\ call[p].at = "charge" /\ UNCHANGED <<order, task, tally>>
          /\ \A x \in Orders \ {o} : payment'[x] = payment[x] /\ gateway'[x] = gateway[x]
          /\ gateway'[o].captured = (answer = "success")
          /\ gateway'[o].attemptFailed = gateway[o].attemptFailed
      BY <1>4, <2>1 DEF ChargeAnswer, At, SagaInv, TypeOK
    <2>4. Opened(o) /\ \A q \in Procs \ {p} : call[q].o = o => CancelOnly(call[q])
      BY <2>o, <2>3 DEF SagaInv, FreshInv, Opening
    <2>c. /\ call'[p] = d /\ \A q \in Procs \ {p} : call'[q] = call[q]
      BY <1>t, <2>2
    <2>5. EvidenceInv'
      <3>1. Evidence(call[p])'
        BY <2>2, <2>3, <2>c DEF Evidence
      <3>2. ASSUME NEW q \in Procs \ {p} PROVE Evidence(call[q])'
        <4>1. CASE call[q].o = o
          BY <2>c, <2>4, <1>E, <4>1 DEF Evidence, CancelOnly
        <4>2. CASE call[q].o # o
          <5>1. call[q].at # "idle" => gateway'[call[q].o] = gateway[call[q].o]
            BY <1>h, <2>3, <4>2
          <5> QED BY <1>E, <2>c, <2>3, <5>1 DEF Evidence
        <4> QED BY <4>1, <4>2
      <3> QED BY <3>1, <3>2 DEF EvidenceInv
    <2>6. OnceInv'
      BY <2>2, <2>3, <2>c DEF SagaInv, OnceInv, Once, At
    <2>7. \A x \in Orders : Backed(x)'
      BY <2>3, <2>4 DEF SagaInv, Backed, Opened
    <2>8. FreshInv'
      <3>1. ASSUME NEW x \in Orders, order'[x].status = "none" PROVE Quiet(x)' /\ Untouched(x)'
        <4>1. x # o /\ Quiet(x) /\ Untouched(x)
          BY <2>o, <2>3, <3>1 DEF SagaInv, FreshInv
        <4> QED BY <2>2, <2>3, <2>c, <4>1 DEF Quiet, Untouched
      <3>2. ASSUME NEW q \in Procs, call'[q].at \in Opening
            PROVE  /\ Opened(call[q].o)'
                   /\ \A r \in Procs \ {q} : call'[r].o = call'[q].o => CancelOnly(call'[r])
        <4>1. q # p /\ call'[q] = call[q] /\ call[q].at \in Opening
          BY <2>2, <2>c, <3>2 DEF Opening
        <4>2. PICK x \in Orders : x = call[q].o /\ x # o
          BY <1>h, <2>4, <4>1 DEF Opening, CancelOnly
        <4>3. Opened(x) /\ \A r \in Procs \ {q} : call[r].o = x => CancelOnly(call[r])
          BY <4>1, <4>2 DEF SagaInv, FreshInv
        <4> QED BY <2>2, <2>3, <2>c, <4>1, <4>2, <4>3 DEF Opened
      <3> QED BY <3>1, <3>2 DEF FreshInv
    <2> QED BY <1>T, <2>5, <2>6, <2>7, <2>8 DEF SagaInv
  <1>5. ASSUME NEW p \in Procs, CheckoutSummary(p) PROVE SagaInv'
    <2>o. PICK o \in Orders : o = call[p].o /\ order[o].status # "none"
      BY <1>5, <1>h DEF CheckoutSummary, At
    <2>1. /\ call[p].at = "summary" /\ UNCHANGED <<payment, gateway, task, tally>>
          /\ \A x \in Orders \ {o} : order'[x] = order[x]
          /\ order'[o].status = order[o].status
      BY <1>5, <1>t, <2>o DEF CheckoutSummary, At
    <2>2. PICK d \in Calls :
              /\ call' = [call EXCEPT ![p] = d] /\ (d.o = o \/ d = Idle)
              /\ d.at \in {"idle", "release", "commit"} /\ (d.at = "idle" => d = Idle)
              /\ d.at = "commit" => call[p].paid \notin {"pending", "failed"} /\ d.done = {}
      <3>1. PICK d : d = call'[p]
        OBVIOUS
      <3>2. d \in Calls /\ call' = [call EXCEPT ![p] = d]
        BY <1>5, <1>t, <3>1 DEF CheckoutSummary
      <3>3. CASE call[p].paid = "pending"
        <4>1. d = Idle
          BY <1>5, <1>t, <3>1, <3>3 DEF CheckoutSummary
        <4> QED BY <1>t, <3>2, <4>1
      <3>4. CASE call[p].paid = "failed"
        <4>1. d = [call[p] EXCEPT !.at = "release", !.path = "decline"]
          BY <1>5, <1>t, <3>1, <3>4 DEF CheckoutSummary
        <4>2. d.at = "release" /\ d.o = o
          BY <1>t, <2>o, <4>1 DEF Calls
        <4> QED BY <3>2, <4>2
      <3>5. CASE call[p].paid \notin {"pending", "failed"}
        <4>1. d = StartCommit(call[p])
          BY <1>5, <1>t, <3>1, <3>5 DEF CheckoutSummary
        <4>2. d.at = "commit" /\ d.o = o /\ d.done = {}
          BY <1>t, <2>o, <4>1 DEF Calls, StartCommit
        <4> QED BY <3>2, <3>5, <4>2
      <3> QED BY <3>3, <3>4, <3>5
    <2>3. Alone(p, o)
      BY <2>o, <2>1, AloneUnlessCancel DEF CancelOnly
    <2>4. Evidence(d)'
      <3>1. Evidence(call[p])
        BY <1>E
      <3>2. CASE d = Idle
        BY <1>i, <3>2 DEF Idle, Evidence
      <3>3. CASE d.o = o /\ d.at # "idle"
        BY <2>o, <2>1, <2>2, <3>1, <3>3 DEF Evidence
      <3>4. d.at = "idle" => d = Idle
        BY <2>2
      <3> QED BY <2>2, <3>2, <3>3, <3>4
    <2>5. Grows
      BY <1>t, <2>1 DEF Grows
    <2> QED BY <1>T, <2>o, <2>1, <2>2, <2>3, <2>4, <2>5, Progress DEF Opening
  <1>6. ASSUME NEW p \in Procs, CommitItem(p) PROVE SagaInv'
    <2>o. PICK o \in Orders : o = call[p].o /\ order[o].status # "none"
      BY <1>6, <1>h DEF CommitItem, At
    <2>1. PICK l \in call[p].todo :
              IF stock[l] >= 1
              THEN /\ stock' = [stock EXCEPT ![l] = @ - 1]
                   /\ tally' = [tally EXCEPT ![call[p].o].units[l] = @ + 1]
                   /\ call' = [call EXCEPT ![p].todo = @ \ {l}, ![p].done = @ \cup {l}]
              ELSE /\ call' = [call EXCEPT ![p].todo = @ \ {l}]
                   /\ UNCHANGED <<stock, tally>>
      BY <1>6 DEF CommitItem
    <2>2. /\ call[p].at = "commit" /\ UNCHANGED <<order, payment, gateway, task>>
          /\ l \in Listings
      BY <1>6, <1>t, <2>1, CallParts DEF CommitItem, At
    <2>3. PICK d \in Calls : /\ call' = [call EXCEPT ![p] = d] /\ d.at = "commit" /\ d.o = o
                             /\ d.done = IF stock[l] >= 1 THEN call[p].done \cup {l}
                                         ELSE call[p].done
      <3>1. PICK d : d = call'[p]
        OBVIOUS
      <3>2. d \in Calls /\ call' = [call EXCEPT ![p] = d]
        BY <1>t, <2>1, <3>1
      <3>3. /\ d.at = "commit" /\ d.o = o
            /\ d.done = IF stock[l] >= 1 THEN call[p].done \cup {l} ELSE call[p].done
        <4>1. CASE stock[l] >= 1
          <5>1. d = [call[p] EXCEPT !.todo = @ \ {l}, !.done = @ \cup {l}]
            BY <1>t, <2>1, <3>1, <4>1
          <5> QED BY <1>t, <2>o, <2>2, <4>1, <5>1 DEF Calls
        <4>2. CASE ~(stock[l] >= 1)
          <5>1. d = [call[p] EXCEPT !.todo = @ \ {l}]
            BY <1>t, <2>1, <3>1, <4>2
          <5> QED BY <1>t, <2>o, <2>2, <4>2, <5>1 DEF Calls
        <4> QED BY <4>1, <4>2
      <3> QED BY <3>2, <3>3
    <2>4. /\ \A x \in Orders : tally'[x].confirmed = tally[x].confirmed
          /\ \A x \in Orders, k \in Listings :
                 /\ tally'[x].units[k] >= tally[x].units[k]
                 /\ tally[x].units[k] \in Nat
                 /\ stock[l] >= 1 /\ x = o /\ k = l => tally'[x].units[k] >= 1
      <3>1. \A x \in Orders, k \in Listings : tally[x].units[k] \in Nat
        BY <1>t
      <3>2. CASE stock[l] >= 1
        <4>1. /\ \A x \in Orders : tally'[x].confirmed = tally[x].confirmed
              /\ \A x \in Orders, k \in Listings :
                     tally'[x].units[k] = IF x = o /\ k = l THEN tally[x].units[k] + 1
                                          ELSE tally[x].units[k]
          <5>1. tally' = [tally EXCEPT ![o].units[l] = tally[o].units[l] + 1]
            BY <2>o, <2>1, <3>2
          <5>2. tally[o] \in [units : [Listings -> Nat], confirmed : Nat]
            BY <1>t
          <5>3. /\ tally'[o].units = [tally[o].units EXCEPT ![l] = tally[o].units[l] + 1]
                /\ tally'[o].confirmed = tally[o].confirmed
                /\ \A x \in Orders \ {o} : tally'[x] = tally[x]
            BY <1>t, <5>1, <5>2
          <5> QED BY <2>2, <5>2, <5>3
        <4> QED BY <3>1, <4>1
      <3>3. CASE ~(stock[l] >= 1)
        BY <2>1, <3>1, <3>3
      <3> QED BY <3>2, <3>3
    <2>5. Grows
      BY <2>2, <2>4 DEF Grows
    <2>6. Evidence(d)'
      <3>1. /\ Method[o] # "cod" => gateway[o].captured
            /\ \A k \in call[p].done : tally[o].units[k] >= 1
        BY <1>E, <2>o, <2>2 DEF Evidence
      <3>2. call[p].done \subseteq Listings
        BY <1>t, CallParts
      <3>3. \A k \in d.done : tally'[o].units[k] >= 1
        <4>1. ASSUME NEW k \in d.done, k \in call[p].done PROVE tally'[o].units[k] >= 1
          <5>1. k \in Listings /\ tally[o].units[k] >= 1
            BY <3>1, <3>2, <4>1
          <5>2. tally[o].units[k] \in Nat /\ tally'[o].units[k] >= tally[o].units[k]
            BY <2>4, <5>1
          <5>3. tally'[o].units[k] \in Int
            BY <1>T, <5>1 DEF TypeOK
          <5> QED BY <5>1, <5>2, <5>3
        <4>2. ASSUME NEW k \in d.done, k \notin call[p].done PROVE tally'[o].units[k] >= 1
          <5>1. stock[l] >= 1 /\ k = l
            BY <2>3, <4>2
          <5> QED BY <2>2, <2>4, <5>1
        <4> QED BY <4>1, <4>2
      <3> QED BY <2>2, <2>3, <3>1, <3>3 DEF Evidence
    <2>7. Alone(p, o)
      BY <2>o, <2>2, AloneUnlessCancel DEF CancelOnly
    <2> QED BY <1>T, <2>o, <2>2, <2>3, <2>4, <2>5, <2>6, <2>7, Progress DEF Opening
  <1>7. ASSUME NEW p \in Procs, CommitDone(p) PROVE SagaInv'
    <2>o. PICK o \in Orders : o = call[p].o /\ order[o].status # "none"
      BY <1>7, <1>h DEF CommitDone, At
    <2>1. PICK d \in Calls : /\ call' = [call EXCEPT ![p] = d] /\ d.o = o
                             /\ d.at \in {"slotConfirm", "restore"}
                             /\ d.at = "slotConfirm" => call[p].done = Basket[o]
      <3>1. PICK d : d = call'[p]
        OBVIOUS
      <3>2. d \in Calls /\ call' = [call EXCEPT ![p] = d]
        BY <1>7, <1>t, <3>1 DEF CommitDone
      <3>3. /\ d.o = o /\ d.at \in {"slotConfirm", "restore"}
            /\ d.at = "slotConfirm" => call[p].done = Basket[o]
        BY <1>7, <1>t, <2>o, <3>1 DEF CommitDone, Calls
      <3> QED BY <3>2, <3>3
    <2>2. call[p].at = "commit" /\ UNCHANGED <<order, payment, gateway, task, tally>>
      BY <1>7 DEF CommitDone, At
    <2>3. Alone(p, o)
      BY <2>o, <2>2, AloneUnlessCancel DEF CancelOnly
    <2>4. Evidence(d)
      BY <1>E, <2>o, <2>1, <2>2 DEF Evidence
    <2> QED BY <1>T, <2>o, <2>1, <2>2, <2>3, <2>4, CallStep DEF Opening
  <1>8. ASSUME NEW p \in Procs, SlotConfirm(p) PROVE SagaInv'
    <2>o. PICK o \in Orders : o = call[p].o /\ order[o].status # "none"
      BY <1>8, <1>h DEF SlotConfirm, At
    <2>2. call[p].at = "slotConfirm" /\ UNCHANGED <<order, payment, gateway, task, tally>>
      BY <1>8 DEF SlotConfirm, At
    <2>3. Alone(p, o)
      BY <2>o, <2>2, AloneUnlessCancel DEF CancelOnly
    <2>4. CASE Continue(p, "createTask")
      <3>1. PICK d \in Calls : /\ call' = [call EXCEPT ![p] = d] /\ d.o = o
                               /\ d.at = "createTask"
        BY <2>4, <2>o, ContinueTyped DEF SagaInv, Steps
      <3>2. Evidence(d)
        BY <1>E, <2>o, <2>2, <3>1 DEF Evidence
      <3> QED BY <1>T, <2>o, <2>2, <2>3, <3>1, <3>2, CallStep DEF Opening
    <2>5. CASE Return(p)
      <3>1. PICK d \in Calls : /\ call' = [call EXCEPT ![p] = d]
                               /\ d = Idle \/ (d.at = "finish" /\ d.o = call[p].o)
        BY <2>5, ReturnTyped DEF SagaInv
      <3> QED BY <1>T, <1>r, <2>o, <2>2, <2>3, <3>1, CallStep
    <2> QED BY <1>8, <2>4, <2>5 DEF SlotConfirm
  <1>9. ASSUME NEW p \in Procs, CreateTask(p) PROVE SagaInv'
    <2>o. PICK o \in Orders : o = call[p].o /\ order[o].status # "none"
      BY <1>9, <1>h DEF CreateTask, At
    <2>1. /\ call[p].at = "createTask" /\ UNCHANGED <<order, payment, gateway, tally>>
          /\ task'[o] /\ \A x \in Orders \ {o} : task'[x] = task[x]
      BY <1>9, <2>o DEF CreateTask, At, SagaInv, TypeOK
    <2>2. Alone(p, o)
      BY <2>o, <2>1, AloneUnlessCancel DEF CancelOnly
    <2>3. CASE task[o]
      <3>1. PICK d \in Calls : /\ call' = [call EXCEPT ![p] = d]
                               /\ d = Idle \/ (d.at = "finish" /\ d.o = call[p].o)
        BY <1>9, <2>o, <2>3, ReturnTyped DEF CreateTask, SagaInv
      <3>2. UNCHANGED task
        BY <1>9, <2>o, <2>3 DEF CreateTask, SagaInv, TypeOK
      <3> QED BY <1>T, <1>r, <2>o, <2>1, <2>2, <3>1, <3>2, CallStep
    <2>4. CASE ~task[o]
      <3>1. PICK d \in Calls : /\ call' = [call EXCEPT ![p] = d] /\ d.o = o
                               /\ d.at = "confirmOrder"
        BY <1>9, <2>o, <2>4, ContinueTyped DEF CreateTask, SagaInv, Steps
      <3>2. /\ call'[p] = d /\ \A q \in Procs \ {p} : call'[q] = call[q]
        BY <1>t, <3>1
      <3>3. EvidenceInv'
        <4>1. Evidence(call[p])'
          BY <1>E, <2>o, <2>1, <3>1, <3>2 DEF Evidence
        <4>2. ASSUME NEW q \in Procs \ {p} PROVE Evidence(call[q])'
          <5>1. Evidence(call[q])
            BY <1>E
          <5> QED BY <2>1, <3>2, <5>1 DEF Evidence
        <4> QED BY <4>1, <4>2 DEF EvidenceInv
      <3>4. ASSUME NEW x \in Orders PROVE Once(x)'
        <4>1. CASE x # o
          BY <2>1, <3>1, <3>2, <4>1 DEF SagaInv, OnceInv, Once, At
        <4>2. CASE x = o
          <5>1. tally[o].confirmed = 0
            BY <2>4 DEF SagaInv, OnceInv, Once
          <5>2. \A q \in Procs : ~(call[q].o = o /\ call[q].at = "confirmOrder")
            BY <1>E, <2>4 DEF Evidence
          <5> QED BY <2>1, <3>2, <4>2, <5>1, <5>2 DEF Once, At
        <4> QED BY <4>1, <4>2
      <3>5. \A x \in Orders : Backed(x)'
        BY <2>1 DEF SagaInv, Backed
      <3>6. FreshInv'
        <4>1. ASSUME NEW x \in Orders, order'[x].status = "none"
              PROVE  Quiet(x)' /\ Untouched(x)'
          <5>1. x # o /\ Quiet(x) /\ Untouched(x)
            BY <2>o, <2>1, <4>1 DEF SagaInv, FreshInv
          <5> QED BY <2>1, <3>1, <3>2, <5>1 DEF Quiet, Untouched
        <4>2. ASSUME NEW q \in Procs, call'[q].at \in Opening
              PROVE  /\ Opened(call[q].o)'
                     /\ \A r \in Procs \ {q} : call'[r].o = call'[q].o => CancelOnly(call'[r])
          <5>1. q # p /\ call'[q] = call[q] /\ call[q].at \in Opening
            BY <3>1, <3>2, <4>2 DEF Opening
          <5>2. /\ Opened(call[q].o)
                /\ \A r \in Procs \ {q} : call[r].o = call[q].o => CancelOnly(call[r])
            BY <5>1 DEF SagaInv, FreshInv
          <5>3. call[q].o # o
            BY <2>2, <5>1 DEF Alone
          <5> QED BY <2>1, <3>1, <3>2, <5>1, <5>2, <5>3 DEF Opened
        <4> QED BY <4>1, <4>2 DEF FreshInv
      <3>7. OnceInv'
        BY <3>4 DEF OnceInv
      <3> QED BY <1>T, <3>3, <3>5, <3>6, <3>7 DEF SagaInv
    <2> QED BY <2>3, <2>4
  <1>10. ASSUME NEW p \in Procs, ConfirmOrder(p) PROVE SagaInv'
    <2>o. PICK o \in Orders : o = call[p].o /\ order[o].status # "none"
      BY <1>10, <1>h DEF ConfirmOrder, At
    <2>1. /\ call[p].at = "confirmOrder" /\ UNCHANGED <<payment, gateway, task>>
          /\ order'[o].status = "confirmed" /\ order'[o].paid = order[o].paid
          /\ \A x \in Orders \ {o} : order'[x] = order[x] /\ tally'[x] = tally[x]
          /\ tally'[o].units = tally[o].units
          /\ tally'[o].confirmed = tally[o].confirmed + 1
      BY <1>10, <1>t, <2>o DEF ConfirmOrder, At
    <2>2. PICK d \in Calls : /\ call' = [call EXCEPT ![p] = d]
                             /\ d = Idle \/ (d.at = "finish" /\ d.o = call[p].o)
      BY <1>10, ReturnTyped DEF ConfirmOrder, SagaInv
    <2>3. /\ call'[p] = d /\ \A q \in Procs \ {p} : call'[q] = call[q]
          /\ Evidence(d) /\ d.at \notin Opening \cup {"confirmOrder"} /\ (d.o = o \/ d = Idle)
      BY <1>r, <1>t, <2>o, <2>2
    <2>4. Alone(p, o)
      BY <2>o, <2>1, AloneUnlessCancel DEF CancelOnly
    <2>5. EvidenceInv'
      <3>1. \A x \in Orders : tally'[x].units = tally[x].units
        BY <2>1
      <3>2. ASSUME NEW c, Evidence(c) PROVE Evidence(c)'
        BY <2>1, <3>1, <3>2 DEF Evidence
      <3>3. ASSUME NEW q \in Procs PROVE Evidence(call[q])'
        <4>1. PICK c : c = call'[q]
          OBVIOUS
        <4>2. Evidence(c)
          BY <1>E, <2>3, <4>1
        <4>3. Evidence(c)'
          BY <3>2, <4>2
        <4> QED BY <4>1, <4>3 DEF Evidence
      <3> QED BY <3>3 DEF EvidenceInv
    <2>6. ASSUME NEW x \in Orders PROVE Once(x)'
      <3>1. CASE x # o
        BY <2>1, <2>3, <3>1 DEF SagaInv, OnceInv, Once, At
      <3>2. CASE x = o
        <4>1. tally[o].confirmed = 0 /\ task[o]
          BY <1>E, <2>o, <2>1 DEF SagaInv, OnceInv, Once, At, Evidence
        <4>2. \A q \in Procs \ {p} : ~(call[q].o = o /\ call[q].at = "confirmOrder")
          BY <2>o, <2>1 DEF SagaInv, OnceInv, Once, At
        <4>3. \A q \in Procs : ~(call'[q].o = o /\ call'[q].at = "confirmOrder")
          BY <2>3, <4>2
        <4> QED BY <2>1, <3>2, <4>1, <4>3 DEF Once, At
      <3> QED BY <3>1, <3>2
    <2>7. \A x \in Orders : Backed(x)'
      BY <1>E, <2>o, <2>1 DEF SagaInv, Backed, Evidence
    <2>8. FreshInv'
      <3>1. ASSUME NEW x \in Orders, order'[x].status = "none" PROVE Quiet(x)' /\ Untouched(x)'
        <4>1. x # o /\ Quiet(x) /\ Untouched(x)
          BY <2>1, <3>1 DEF SagaInv, FreshInv
        <4> QED BY <1>t, <2>1, <2>3, <4>1 DEF Quiet, Untouched
      <3>2. ASSUME NEW q \in Procs, call'[q].at \in Opening
            PROVE  /\ Opened(call[q].o)'
                   /\ \A r \in Procs \ {q} : call'[r].o = call'[q].o => CancelOnly(call'[r])
        <4>1. q # p /\ call'[q] = call[q] /\ call[q].at \in Opening
          BY <2>3, <3>2
        <4>2. PICK x \in Orders : x = call[q].o /\ x # o
          BY <1>h, <2>4, <4>1 DEF Opening, Alone
        <4>3. Opened(x) /\ \A r \in Procs \ {q} : call[r].o = x => CancelOnly(call[r])
          BY <4>1, <4>2 DEF SagaInv, FreshInv
        <4>4. d.o # x
          BY <1>t, <2>3, <4>2
        <4>5. Opened(x)'
          BY <2>1, <4>2, <4>3 DEF Opened
        <4> QED BY <2>3, <4>1, <4>2, <4>3, <4>4, <4>5 DEF Opened
      <3> QED BY <3>1, <3>2 DEF FreshInv
    <2> QED BY <1>T, <2>5, <2>6, <2>7, <2>8 DEF SagaInv, OnceInv
  <1>11. ASSUME NEW p \in Procs, RestoreItem(p) PROVE SagaInv'
    <2>o. PICK o \in Orders : o = call[p].o /\ order[o].status # "none"
      BY <1>11, <1>h DEF RestoreItem, At
    <2>1. call[p].at = "restore" /\ UNCHANGED <<order, payment, gateway, task, tally>>
      BY <1>11 DEF RestoreItem, At
    <2>2. PICK d \in Calls : /\ call' = [call EXCEPT ![p] = d] /\ d.at = "restore" /\ d.o = o
                             /\ d.event = call[p].event /\ d.paid = call[p].paid
                             /\ d.path = call[p].path
      <3>1. PICK d : d = call'[p]
        OBVIOUS
      <3>2. PICK l : d = [call[p] EXCEPT !.todo = @ \ {l}] /\ call' = [call EXCEPT ![p] = d]
        BY <1>11, <1>t, <3>1 DEF RestoreItem
      <3>3. d \in Calls
        BY <1>t, <3>1
      <3> QED BY <1>t, <2>o, <2>1, <3>2, <3>3 DEF Calls
    <2>3. Alone(p, o) \/ CancelOnly(d)
      BY <2>o, <2>1, <2>2, AloneUnlessCancel DEF CancelOnly
    <2>4. Evidence(d)
      BY <2>2 DEF Evidence
    <2> QED BY <1>T, <2>o, <2>1, <2>2, <2>3, <2>4, CallStep DEF Opening
  <1>12. ASSUME NEW p \in Procs, RestoreDone(p) PROVE SagaInv'
    <2>o. PICK o \in Orders : o = call[p].o /\ order[o].status # "none"
      BY <1>12, <1>h DEF RestoreDone, At
    <2>1. call[p].at = "restore" /\ UNCHANGED <<order, payment, gateway, task, tally>>
      BY <1>12 DEF RestoreDone, At
    <2>2. PICK d \in Calls : /\ call' = [call EXCEPT ![p] = d] /\ d.at = AfterRestore(call[p])
                             /\ d.o = o /\ d.event = call[p].event /\ d.paid = call[p].paid
                             /\ d.path = call[p].path
      BY <1>12, <2>o, ContinueTyped DEF RestoreDone, SagaInv, Steps, AfterRestore
    <2>3. d.at \in {"release", "refund"} /\ (call[p].path = "cancel" => d.at = "release")
      BY <2>2 DEF AfterRestore
    <2>4. Alone(p, o) \/ CancelOnly(d)
      BY <2>o, <2>1, <2>2, <2>3, AloneUnlessCancel DEF CancelOnly
    <2>5. Evidence(d)
      BY <2>2, <2>3 DEF Evidence
    <2> QED BY <1>T, <2>o, <2>1, <2>2, <2>3, <2>4, <2>5, CallStep DEF Opening
  <1>13. ASSUME NEW p \in Procs, Release(p) PROVE SagaInv'
    <2>o. PICK o \in Orders : o = call[p].o /\ order[o].status # "none"
      BY <1>13, <1>h DEF Release, At
    <2>1. call[p].at = "release" /\ UNCHANGED <<order, payment, gateway, task, tally>>
      BY <1>13 DEF Release, At
    <2>2. CASE Return(p)
      <3>1. PICK d \in Calls : /\ call' = [call EXCEPT ![p] = d]
                               /\ d = Idle \/ (d.at = "finish" /\ d.o = call[p].o)
                               /\ call[p].event = NoEvent => d = Idle
        BY <2>2, ReturnTyped DEF SagaInv
      <3>2. Alone(p, o) \/ d = Idle
        BY <2>o, <2>1, <3>1, AloneUnlessCancel DEF CancelOnly
      <3> QED BY <1>T, <1>r, <2>o, <2>1, <3>1, <3>2, CallStep
    <2>3. CASE Continue(p, AfterRelease(call[p]))
      <3>1. PICK d \in Calls : /\ call' = [call EXCEPT ![p] = d] /\ d.at = AfterRelease(call[p])
                               /\ d.o = o /\ d.event = call[p].event /\ d.paid = call[p].paid
                               /\ d.path = call[p].path
        <4>1. AfterRelease(call[p]) \in Steps
          BY DEF AfterRelease, Steps
        <4> QED BY <2>3, <2>o, <4>1, ContinueTyped DEF SagaInv
      <3>2. /\ d.at \in {"markCancelled", "waive", "refund"}
            /\ call[p].paid = "none" => d.at = "markCancelled"
        BY <3>1 DEF AfterRelease, RefundDue
      <3>3. Alone(p, o) \/ CancelOnly(d)
        BY <2>o, <2>1, <3>1, <3>2, AloneUnlessCancel DEF CancelOnly
      <3>4. Evidence(d)
        BY <3>1, <3>2 DEF Evidence
      <3> QED BY <1>T, <2>o, <2>1, <3>1, <3>2, <3>3, <3>4, CallStep DEF Opening
    <2> QED BY <1>13, <2>2, <2>3 DEF Release
  <1>14. ASSUME NEW p \in Procs, WaiveCash(p) PROVE SagaInv'
    <2>o. PICK o \in Orders : o = call[p].o /\ order[o].status # "none"
      BY <1>14, <1>h DEF WaiveCash, At
    <2>1. /\ call[p].at = "waive" /\ UNCHANGED <<order, gateway, task, tally>>
          /\ \A x \in Orders \ {o} : payment'[x] = payment[x]
      BY <1>14, <2>o DEF WaiveCash, At, SagaInv, TypeOK
    <2>2. Alone(p, o)
      BY <2>o, <2>1, AloneUnlessCancel DEF CancelOnly
    <2>3. PICK d \in Calls : /\ call' = [call EXCEPT ![p] = d] /\ d.at = "markCancelled"
                             /\ d.o = o
      <3>1. PICK d : d = [call[p] EXCEPT !.paid = "failed", !.at = "markCancelled"]
        OBVIOUS
      <3>2. call' = [call EXCEPT ![p] = d]
        BY <1>14, <1>t, <3>1 DEF WaiveCash, Calls
      <3>3. d \in Calls
        BY <1>t, <3>2
      <3> QED BY <1>t, <2>o, <3>1, <3>2, <3>3 DEF Calls
    <2>4. Evidence(d)
      BY <2>3 DEF Evidence
    <2> QED BY <1>T, <2>o, <2>1, <2>2, <2>3, <2>4, CallStep DEF Opening
  <1>15. ASSUME NEW p \in Procs, RefundInitiate(p) PROVE SagaInv'
    <2>o. PICK o \in Orders : o = call[p].o /\ order[o].status # "none"
      BY <1>15, <1>h DEF RefundInitiate, At
    <2>1. call[p].at = "refund" /\ UNCHANGED <<order, payment, gateway, task, tally>>
      BY <1>15 DEF RefundInitiate, At
    <2>2. Alone(p, o)
      BY <2>o, <2>1, AloneUnlessCancel DEF CancelOnly
    <2>3. CASE Return(p)
      <3>1. PICK d \in Calls : /\ call' = [call EXCEPT ![p] = d]
                               /\ d = Idle \/ (d.at = "finish" /\ d.o = call[p].o)
        BY <2>3, ReturnTyped DEF SagaInv
      <3> QED BY <1>T, <1>r, <2>o, <2>1, <2>2, <3>1, CallStep
    <2>4. CASE Continue(p, "syncRefund")
      <3>1. PICK d \in Calls : /\ call' = [call EXCEPT ![p] = d] /\ d.o = o
                               /\ d.at = "syncRefund"
        BY <2>4, <2>o, ContinueTyped DEF SagaInv, Steps
      <3>2. Evidence(d)
        BY <3>1 DEF Evidence
      <3> QED BY <1>T, <2>o, <2>1, <2>2, <3>1, <3>2, CallStep DEF Opening
    <2> QED BY <1>15, <2>3, <2>4 DEF RefundInitiate
  <1>16. ASSUME NEW p \in Procs, SyncRefund(p) PROVE SagaInv'
    <2>o. PICK o \in Orders : o = call[p].o /\ order[o].status # "none"
      BY <1>16, <1>h DEF SyncRefund, At
    <2>1. /\ call[p].at = "syncRefund" /\ UNCHANGED <<gateway, task, tally>>
          /\ \A x \in Orders \ {o} : payment'[x] = payment[x] /\ order'[x] = order[x]
          /\ order'[o].status = order[o].status
      BY <1>16, <2>o DEF SyncRefund, At, SagaInv, TypeOK
    <2>2. Alone(p, o)
      BY <2>o, <2>1, AloneUnlessCancel DEF CancelOnly
    <2>3. PICK d \in Calls : /\ call' = [call EXCEPT ![p] = d] /\ d.o = o
                             /\ d.at \in {"markCancelled", "release"}
      BY <1>16, <2>o, ContinueTyped DEF SyncRefund, SagaInv, Steps
    <2>4. Evidence(d)' /\ Grows
      BY <1>t, <2>1, <2>3 DEF Evidence, Grows
    <2> QED BY <1>T, <2>o, <2>1, <2>2, <2>3, <2>4, Progress DEF Opening
  <1>17. ASSUME NEW p \in Procs, MarkCancelled(p) PROVE SagaInv'
    <2>o. PICK o \in Orders : o = call[p].o /\ order[o].status # "none"
      BY <1>17, <1>h DEF MarkCancelled, At
    <2>1. /\ call[p].at = "markCancelled" /\ UNCHANGED <<payment, gateway, task, tally>>
          /\ \A x \in Orders \ {o} : order'[x] = order[x]
          /\ order'[o].status = "cancelled"
          /\ call[p].paid # "failed" => order'[o].paid = order[o].paid
      BY <1>17, <1>t, <2>o DEF MarkCancelled, At
    <2>2. PICK d \in Calls : /\ call' = [call EXCEPT ![p] = d]
                             /\ d = Idle \/ (d.at = "finish" /\ d.o = call[p].o)
                             /\ call[p].event = NoEvent => d = Idle
      BY <1>17, ReturnTyped DEF MarkCancelled, SagaInv
    <2>3. Alone(p, o) \/ (d = Idle /\ order'[o].paid = order[o].paid)
      BY <2>o, <2>1, <2>2, AloneUnlessCancel DEF CancelOnly
    <2>4. Grows
      BY <1>t, <2>1 DEF Grows
    <2>5. Evidence(d)'
      BY <1>r, <2>o, <2>1, <2>2 DEF Evidence
    <2> QED BY <1>T, <1>r, <2>o, <2>1, <2>2, <2>3, <2>4, <2>5, Progress
  <1>18. ASSUME NEW p \in Procs, NEW o \in Orders, CancelRequest(p, o) PROVE SagaInv'
    <2>1. call[p].at = "idle" /\ order[o].status # "none" /\ UNCHANGED <<order, payment, gateway, task, tally>>
      BY <1>18 DEF CancelRequest, MayStart, At
    <2>2. PICK d \in Calls : /\ call' = [call EXCEPT ![p] = d] /\ d.at = "readCancel"
                             /\ d.o = o /\ d.event = NoEvent /\ d.paid = "none"
      <3>1. PICK d : d = [Idle EXCEPT !.at = "readCancel", !.o = o, !.refund = TRUE]
        OBVIOUS
      <3>2. call' = [call EXCEPT ![p] = d]
        BY <1>18, <3>1 DEF CancelRequest
      <3> QED BY <1>t, <3>1, <3>2 DEF Idle
    <2>3. CancelOnly(d) /\ Evidence(d)
      BY <2>2 DEF CancelOnly, Evidence
    <2> QED BY <1>T, <2>1, <2>2, <2>3, CallStep DEF Opening
  <1>19. ASSUME NEW p \in Procs, ReadCancel(p) PROVE SagaInv'
    <2>o. PICK o \in Orders : o = call[p].o /\ order[o].status # "none"
      BY <1>19, <1>h DEF ReadCancel, At
    <2>1. call[p].at = "readCancel" /\ UNCHANGED <<order, payment, gateway, task, tally>>
      BY <1>19 DEF ReadCancel, At
    <2>2. CASE Return(p)
      <3>1. PICK d \in Calls : /\ call' = [call EXCEPT ![p] = d]
                               /\ d = Idle \/ (d.at = "finish" /\ d.o = call[p].o)
                               /\ call[p].event = NoEvent => d = Idle
        BY <2>2, ReturnTyped DEF SagaInv
      <3>2. Alone(p, o) \/ d = Idle
        BY <2>o, <2>1, <3>1, AloneUnlessCancel DEF CancelOnly
      <3> QED BY <1>T, <1>r, <2>o, <2>1, <3>1, <3>2, CallStep
    <2>3. CASE ~Return(p)
      <3>1. PICK d : d = [call[p] EXCEPT !.at = "restore", !.path = "cancel",
                                         !.paid = order[o].paid, !.todo = Basket[o]]
        OBVIOUS
      <3>2. call' = [call EXCEPT ![p] = d]
        BY <1>19, <1>t, <2>o, <2>3, <3>1 DEF ReadCancel, Calls
      <3>3. /\ d \in Calls /\ d.at = "restore" /\ d.o = o /\ d.path = "cancel"
            /\ d.event = call[p].event /\ d.paid = order[o].paid
        BY <1>t, <2>o, <3>1, <3>2 DEF Calls
      <3>4. Alone(p, o) \/ CancelOnly(d)
        <4>1. SUFFICES ASSUME ~Alone(p, o) PROVE CancelOnly(d)
          OBVIOUS
        <4>2. CancelOnly(call[p])
          BY <2>o, <4>1, AloneUnlessCancel
        <4>3. Opened(o)
          BY <2>o, <4>1 DEF Alone, SagaInv, FreshInv
        <4> QED BY <3>3, <4>2, <4>3 DEF CancelOnly, Opened
      <3>5. Evidence(d)
        BY <3>3 DEF Evidence
      <3> QED BY <1>T, <2>o, <2>1, <3>2, <3>3, <3>4, <3>5, CallStep DEF Opening
    <2> QED BY <2>2, <2>3
  <1>20. ASSUME NEW p \in Procs, NEW o \in Orders, NEW e \in Events, WebhookArrives(p, o, e)
         PROVE  SagaInv'
    <2>1. /\ call[p].at = "idle" /\ UNCHANGED <<order, payment, gateway, task, tally>>
          /\ gateway[o].attemptFailed \/ gateway[o].captured
          /\ e # FailEvent => gateway[o].captured
      BY <1>20 DEF WebhookArrives, MayStart, At
    <2>2. order[o].status # "none" /\ Alone(p, o)
      BY <2>1 DEF SagaInv, FreshInv, Untouched, Opened, Alone
    <2>3. PICK d \in Calls : /\ call' = [call EXCEPT ![p] = d] /\ d.o = o
                             /\ d.at \in {"markFailed", "readPayment"}
                             /\ d.at = "readPayment" => e # FailEvent
      <3>1. PICK d : d = [Idle EXCEPT !.o = o, !.event = e,
                             !.at = IF e = FailEvent THEN "markFailed" ELSE "readPayment"]
        OBVIOUS
      <3>2. call' = [call EXCEPT ![p] = d]
        BY <1>20, <3>1 DEF WebhookArrives
      <3> QED BY <1>t, <3>1, <3>2 DEF Idle
    <2>4. Evidence(d)
      BY <2>1, <2>3 DEF Evidence
    <2> QED BY <1>T, <2>1, <2>2, <2>3, <2>4, CallStep DEF Opening
  <1>21. ASSUME NEW p \in Procs, ConfirmSuccessRead(p) PROVE SagaInv'
    <2>o. PICK o \in Orders : o = call[p].o /\ order[o].status # "none"
      BY <1>21, <1>h DEF ConfirmSuccessRead, At
    <2>1. call[p].at = "readPayment" /\ UNCHANGED <<order, payment, gateway, task, tally>>
      BY <1>21 DEF ConfirmSuccessRead, At
    <2>2. Alone(p, o)
      BY <2>o, <2>1, AloneUnlessCancel DEF CancelOnly
    <2>3. PICK d \in Calls : call' = [call EXCEPT ![p] = d] /\ d.o = o /\ d.at \in {"readOrder", "saveSuccess"}
      BY <1>21, <2>o, ContinueTyped DEF ConfirmSuccessRead, SagaInv, Steps
    <2>4. Evidence(d)
      BY <1>E, <2>o, <2>1, <2>3 DEF Evidence
    <2> QED BY <1>T, <2>o, <2>1, <2>2, <2>3, <2>4, CallStep DEF Opening
  <1>22. ASSUME NEW p \in Procs, ConfirmSuccessSave(p) PROVE SagaInv'
    <2>o. PICK o \in Orders : o = call[p].o /\ order[o].status # "none"
      BY <1>22, <1>h DEF ConfirmSuccessSave, At
    <2>1. /\ call[p].at = "saveSuccess" /\ UNCHANGED <<order, gateway, task, tally>>
          /\ \A x \in Orders \ {o} : payment'[x] = payment[x]
      BY <1>22, <2>o DEF ConfirmSuccessSave, At, SagaInv, TypeOK
    <2>2. Alone(p, o)
      BY <2>o, <2>1, AloneUnlessCancel DEF CancelOnly
    <2>3. PICK d \in Calls : call' = [call EXCEPT ![p] = d] /\ d.o = o /\ d.at \in {"readOrder"}
      BY <1>22, <2>o, ContinueTyped DEF ConfirmSuccessSave, SagaInv, Steps
    <2>4. Evidence(d)
      BY <1>E, <2>o, <2>1, <2>3 DEF Evidence
    <2> QED BY <1>T, <2>o, <2>1, <2>2, <2>3, <2>4, CallStep DEF Opening
  <1>23. ASSUME NEW p \in Procs, ConfirmPayment(p) PROVE SagaInv'
    <2>o. PICK o \in Orders : o = call[p].o /\ order[o].status # "none"
      BY <1>23, <1>h DEF ConfirmPayment, At
    <2>1. call[p].at = "readOrder" /\ UNCHANGED <<order, payment, gateway, task, tally>>
      BY <1>23 DEF ConfirmPayment, At
    <2>2. Alone(p, o)
      BY <2>o, <2>1, AloneUnlessCancel DEF CancelOnly
    <2>3. CASE Return(p)
      <3>1. PICK d \in Calls : /\ call' = [call EXCEPT ![p] = d]
                               /\ d = Idle \/ (d.at = "finish" /\ d.o = call[p].o)
        BY <2>3, ReturnTyped DEF SagaInv
      <3> QED BY <1>T, <1>r, <2>o, <2>1, <2>2, <3>1, CallStep
    <2>4. CASE ~Return(p)
      <3>1. PICK d : d = [StartCommit(call[p]) EXCEPT !.paid = order[o].paid]
        OBVIOUS
      <3>2. call' = [call EXCEPT ![p] = d]
        BY <1>23, <2>o, <2>4, <3>1 DEF ConfirmPayment
      <3>3. d \in Calls /\ d.at = "commit" /\ d.o = o /\ d.done = {}
        BY <1>t, <2>o, <3>1, <3>2 DEF Calls, StartCommit
      <3>4. Evidence(d)
        BY <1>E, <2>o, <2>1, <3>3 DEF Evidence
      <3> QED BY <1>T, <2>o, <2>1, <2>2, <3>2, <3>3, <3>4, CallStep DEF Opening
    <2> QED BY <2>3, <2>4
  <1>24. ASSUME NEW p \in Procs, MarkFailed(p) PROVE SagaInv'
    <2>o. PICK o \in Orders : o = call[p].o /\ order[o].status # "none"
      BY <1>24, <1>h DEF MarkFailed, At
    <2>1. call[p].at = "markFailed" /\ UNCHANGED <<order, payment, gateway, task, tally>>
      BY <1>24 DEF MarkFailed, At
    <2>2. Alone(p, o)
      BY <2>o, <2>1, AloneUnlessCancel DEF CancelOnly
    <2>3. PICK d \in Calls : call' = [call EXCEPT ![p] = d] /\ d.o = o /\ d.at \in {"saveFailed", "readCancel"}
      BY <1>24, <2>o, ContinueTyped DEF MarkFailed, SagaInv, Steps
    <2>4. Evidence(d)
      BY <1>E, <2>o, <2>1, <2>3 DEF Evidence
    <2> QED BY <1>T, <2>o, <2>1, <2>2, <2>3, <2>4, CallStep DEF Opening
  <1>25. ASSUME NEW p \in Procs, SaveFailed(p) PROVE SagaInv'
    <2>o. PICK o \in Orders : o = call[p].o /\ order[o].status # "none"
      BY <1>25, <1>h DEF SaveFailed, At
    <2>1. /\ call[p].at = "saveFailed" /\ UNCHANGED <<order, gateway, task, tally>>
          /\ \A x \in Orders \ {o} : payment'[x] = payment[x]
      BY <1>25, <2>o DEF SaveFailed, At, SagaInv, TypeOK
    <2>2. Alone(p, o)
      BY <2>o, <2>1, AloneUnlessCancel DEF CancelOnly
    <2>3. PICK d \in Calls : call' = [call EXCEPT ![p] = d] /\ d.o = o /\ d.at \in {"readCancel"}
      BY <1>25, <2>o, ContinueTyped DEF SaveFailed, SagaInv, Steps
    <2>4. Evidence(d)
      BY <1>E, <2>o, <2>1, <2>3 DEF Evidence
    <2> QED BY <1>T, <2>o, <2>1, <2>2, <2>3, <2>4, CallStep DEF Opening
  <1>26. ASSUME NEW p \in Procs, NEW o \in Orders, ReconcileFind(p, o) PROVE SagaInv'
    <2>1. /\ call[p].at = "idle" /\ UNCHANGED <<order, payment, gateway, task, tally>>
          /\ payment[o] = "pending" /\ ~CheckoutRunning(o)
      BY <1>26 DEF ReconcileFind, MayStart, At
    <2>2. order[o].status # "none" /\ Alone(p, o)
      BY <2>1 DEF SagaInv, FreshInv, Untouched, CheckoutRunning, Checkout, Alone, Opening
    <2>3. PICK d \in Calls : call' = [call EXCEPT ![p] = d] /\ d.o = o /\ d.at = "fetch"
      <3>1. PICK d : d = [Idle EXCEPT !.at = "fetch", !.o = o]
        OBVIOUS
      <3>2. call' = [call EXCEPT ![p] = d]
        BY <1>26, <3>1 DEF ReconcileFind
      <3> QED BY <1>t, <3>1, <3>2 DEF Idle
    <2>4. Evidence(d)
      BY <2>3 DEF Evidence
    <2> QED BY <1>T, <2>1, <2>2, <2>3, <2>4, CallStep DEF Opening
  <1>27. ASSUME NEW p \in Procs, ReconcileFetch(p) PROVE SagaInv'
    <2>o. PICK o \in Orders : o = call[p].o /\ order[o].status # "none"
      BY <1>27, <1>h DEF ReconcileFetch, At
    <2>1. call[p].at = "fetch" /\ UNCHANGED <<order, payment, gateway, task, tally>>
      BY <1>27 DEF ReconcileFetch, At
    <2>2. Alone(p, o)
      BY <2>o, <2>1, AloneUnlessCancel DEF CancelOnly
    <2>3. CASE Return(p)
      <3>1. PICK d \in Calls : /\ call' = [call EXCEPT ![p] = d]
                               /\ d = Idle \/ (d.at = "finish" /\ d.o = call[p].o)
        BY <2>3, ReturnTyped DEF SagaInv
      <3> QED BY <1>T, <1>r, <2>o, <2>1, <2>2, <3>1, CallStep
    <2>4. CASE ~Return(p)
      <3>1. PICK d \in Calls : /\ call' = [call EXCEPT ![p] = d] /\ d.o = o
                               /\ d.at \in {"readPayment", "saveFailed"}
                               /\ d.at = "readPayment" => gateway[o].captured
        BY <1>27, <2>4, <2>o, ContinueTyped DEF ReconcileFetch, SagaInv, Steps
      <3>2. Evidence(d)
        BY <3>1 DEF Evidence
      <3> QED BY <1>T, <2>o, <2>1, <2>2, <3>1, <3>2, CallStep DEF Opening
    <2> QED BY <2>3, <2>4
  <1>28. ASSUME NEW p \in Procs, FinishEvent(p) PROVE SagaInv'
    <2>o. PICK o \in Orders : o = call[p].o /\ order[o].status # "none"
      BY <1>28, <1>h DEF FinishEvent, At
    <2>1. call' = [call EXCEPT ![p] = Idle] /\ UNCHANGED <<order, payment, gateway, task, tally>>
      BY <1>28 DEF FinishEvent
    <2> QED BY <1>T, <1>t, <1>i, <2>o, <2>1, CallStep DEF Opening
  <1>29. ASSUME NEW o \in Orders, CustomerPays(o) \/ AttemptFails(o) PROVE SagaInv'
    <2>1. /\ UNCHANGED <<order, payment, task, tally, call>> /\ order[o].paid # "none"
          /\ \A x \in Orders \ {o} : gateway'[x] = gateway[x]
          /\ gateway[o].captured => gateway'[o].captured
      BY <1>29 DEF CustomerPays, AttemptFails, SagaInv, TypeOK
    <2>2. Grows
      BY <1>t, <2>1 DEF Grows
    <2>3. EvidenceInv'
      <3>1. ASSUME NEW p \in Procs PROVE Evidence(call[p])'
        <4>1. PICK c \in Calls : c = call[p]
          BY <1>t
        <4>2. Evidence(c)'
          BY <1>E, <1>T, <2>2, <4>1, EvidenceKept DEF SagaInv
        <4> QED BY <2>1, <4>1, <4>2 DEF Evidence
      <3> QED BY <3>1 DEF EvidenceInv
    <2>4. FreshInv'
      BY <1>E, <2>1 DEF SagaInv, FreshInv, Quiet, Untouched, Opened, CancelOnly, Opening, Evidence
    <2>5. OnceInv' /\ \A x \in Orders : Backed(x)'
      BY <2>1 DEF SagaInv, OnceInv, Once, At, Backed
    <2> QED BY <1>T, <2>3, <2>4, <2>5 DEF SagaInv
  <1>30. ASSUME NEW o \in Orders, HoldLapses(o) \/ HoldSwept(o) PROVE SagaInv'
    <2>1. UNCHANGED <<order, payment, gateway, task, tally, call>>
      BY <1>30 DEF HoldLapses, HoldSwept
    <2> QED BY <1>T, <2>1
        DEF SagaInv, FreshInv, Quiet, Untouched, Opened, CancelOnly, EvidenceInv, Evidence,
            OnceInv, Once, At, Backed
  <1>31. ASSUME NEW p \in Procs, Crash(p) PROVE SagaInv'
    <2>o. PICK o \in Orders : o = call[p].o /\ order[o].status # "none"
      BY <1>31, <1>h DEF Crash, At
    <2>1. call' = [call EXCEPT ![p] = Idle] /\ UNCHANGED <<order, payment, gateway, task, tally>>
      BY <1>31 DEF Crash
    <2> QED BY <1>T, <1>t, <1>i, <2>o, <2>1, CallStep DEF Opening
  <1>32. CASE UNCHANGED vars
    BY <1>T, <1>32
    DEF vars, SagaInv, FreshInv, Quiet, Untouched, Opened, CancelOnly, EvidenceInv, Evidence,
        OnceInv, Once, At, Backed
  <1> QED
    BY <1>1, <1>2, <1>3, <1>4, <1>5, <1>6, <1>7, <1>8, <1>9, <1>10, <1>11, <1>12, <1>13,
       <1>14, <1>15, <1>16, <1>17, <1>18, <1>19, <1>20, <1>21, <1>22, <1>23, <1>24, <1>25,
       <1>26, <1>27, <1>28, <1>29, <1>30, <1>31, <1>32
    DEF Next, Step, Start, Environment

LEMMA SagaInvHolds == Spec => []SagaInv
  BY InitSagaInv, NextSagaInv, PTL DEF Spec

\* The order, its payment, stock, holds and handlers keep their shape, and every
\* handler in flight works on an order and can rely on what it has read.
THEOREM SagaTypeSafe == Spec => [](TypeOK /\ EvidenceInv)
  <1>1. SagaInv => TypeOK /\ EvidenceInv
    BY DEF SagaInv
  <1> QED BY SagaInvHolds, <1>1, PTL

\* However many webhooks, reconciliations and cancellations run at once, crash
\* and repeat, a CONFIRMED order has its task, its stock and its money.
THEOREM SagaConfirmedIsBacked == Spec => []ConfirmedIsBacked
  <1>1. SagaInv => ConfirmedIsBacked
    BY DEF SagaInv, TypeOK, ConfirmedIsBacked, Backed
  <1> QED BY SagaInvHolds, <1>1, PTL

\* An order is confirmed at most once in its life, by the handler that created
\* its picking task.
THEOREM SagaConfirmedOnce == Spec => []ConfirmedOnce
  <1>1. SagaInv => ConfirmedOnce
    BY DEF SagaInv, OnceInv, Once, ConfirmedOnce
  <1> QED BY SagaInvHolds, <1>1, PTL

-----------------------------------------------------------------------------
(* Checkouts that charge in the request, without faults, lapsing holds or    *)
(* overlapping handlers of one order: what the order's only handler, or its  *)
(* last one, has done to its stock and its money.                            *)

Undisturbed ==
    /\ OnePerOrder /\ ~HoldsExpire /\ MaxFaults = 0
    /\ \A o \in Orders : Method[o] # "async"
    /\ IsFiniteSet(Orders)

Settled(o) ==
    /\ order[o].status \in {"none", "confirmed", "cancelled"}
    /\ payment[o] # "pending" /\ refunds[o] <= 1
    /\ order[o].status = "none" =>
           /\ hold[o] = "held" /\ refunds[o] = 0 /\ order[o].paid = "none"
           /\ ~gateway[o].captured /\ ~task[o] /\ payment[o] = "none"
    /\ order[o].status = "confirmed" =>
           /\ refunds[o] = 0 /\ order[o].paid \in {"success", "awaiting_collection"}
           /\ gateway[o].captured <=> order[o].paid = "success"
    /\ order[o].status = "cancelled" /\ gateway[o].captured => refunds[o] = 1

Unsettled(c) ==
    /\ order[c.o].status = "payment_pending" /\ ~task[c.o]
    /\ refunds[c.o] = 0 /\ hold[c.o] = "held"

\* The handler knows whether there is money to give back.
Known(c) ==
    /\ c.paid \in {"success", "awaiting_collection"}
    /\ gateway[c.o].captured <=> c.paid = "success"

Undoing(c) ==
    /\ order[c.o].status = "confirmed" /\ c.path = "cancel" /\ c.refund
    /\ refunds[c.o] = 0

\* What holds before each step of the only handler of an order.
Stage(c) ==
    /\ c.event = NoEvent
    /\ payment[c.o] = "pending" => c.at = "charge"
    /\ \/ /\ c.at = "pending"
          /\ order[c.o].status = "created" /\ ~task[c.o]
          /\ refunds[c.o] = 0 /\ hold[c.o] = "held" /\ ~gateway[c.o].captured
       \/ /\ c.at \in {"pay", "charge"}
          /\ Unsettled(c) /\ ~gateway[c.o].captured
       \/ /\ c.at = "summary"
          /\ Unsettled(c)
          /\ Known(c) \/ (c.paid = "failed" /\ ~gateway[c.o].captured)
       \/ /\ c.at \in {"commit", "slotConfirm"}
          /\ c.path = "finalize" /\ Unsettled(c) /\ Known(c) /\ order[c.o].paid = c.paid
          /\ c.done \subseteq Basket[c.o]
          /\ IF c.at = "commit" THEN c.todo \subseteq Basket[c.o] \ c.done
             ELSE c.done = Basket[c.o]
       \/ /\ c.at \in {"createTask", "confirmOrder"}
          /\ order[c.o].status = "payment_pending" /\ order[c.o].paid = c.paid
          /\ Known(c) /\ refunds[c.o] = 0 /\ c.done = Basket[c.o]
          /\ c.at = "createTask" => ~task[c.o]
       \/ /\ c.at \in {"restore", "refund"} /\ c.path = "finalize"
          /\ Unsettled(c)
          /\ c.at = "restore" => c.todo \subseteq Basket[c.o]
       \/ /\ c.at = "restore" /\ Undoing(c) /\ Known(c)
          /\ c.todo \subseteq Basket[c.o]
       \/ /\ c.at = "release" /\ c.path = "decline"
          /\ Unsettled(c) /\ ~gateway[c.o].captured
       \/ /\ c.at = "release" /\ c.path = "finalize"
          /\ hold[c.o] = "held" /\ refunds[c.o] = 1
       \/ /\ c.at = "release" /\ Undoing(c) /\ Known(c)
       \/ /\ c.at = "waive" /\ Undoing(c) /\ ~gateway[c.o].captured
       \/ /\ c.at = "refund" /\ Undoing(c)
       \/ /\ c.at = "syncRefund"
          /\ refunds[c.o] = 1
          /\ c.path = "cancel" \/ (c.path = "finalize" /\ hold[c.o] = "held")
       \/ /\ c.at = "markCancelled"
          /\ refunds[c.o] <= 1
          /\ gateway[c.o].captured => refunds[c.o] = 1
       \/ /\ c.at = "readCancel" /\ c.refund /\ Settled(c.o)

Solo == \A p, q \in Procs : call[p].o \in Orders /\ call[p].o = call[q].o => p = q

\* The units a handler has taken and not given back.
Units(c) ==
    IF c.at \in {"commit", "slotConfirm", "createTask", "confirmOrder"} THEN c.done
    ELSE IF c.at = "restore" THEN c.todo
    ELSE {}

\* The units an order has, as its handler c, if it is one, and its status say.
Own(c, o) ==
    {l \in Basket[o] : IF c.at \in {"idle", "readCancel"} THEN order[o].status = "confirmed"
                       ELSE l \in Units(c)}

\* The units an order has.
Taken(o) ==
    {l \in Basket[o] :
        \/ order[o].status = "confirmed" /\ \A p \in Procs : call[p].o = o => At(p, "readCancel")
        \/ \E p \in Procs : call[p].o = o /\ l \in Units(call[p])}

Takers(l) == {o \in Orders : l \in Taken(o)}

StockInv == \A l \in Listings : stock[l] + Cardinality(Takers(l)) = InitialStock

CalmInv ==
    /\ Solo
    /\ \A p \in Procs : ~At(p, "idle") => Stage(call[p])
    /\ \A o \in Orders : Quiet(o) => Settled(o)
    /\ StockInv

LEMMA StageKept ==
    ASSUME NEW c \in Calls, NEW x \in Orders, c.o = x, Stage(c),
           order'[x] = order[x], payment'[x] = payment[x], gateway'[x] = gateway[x],
           hold'[x] = hold[x], task'[x] = task[x], refunds'[x] = refunds[x]
    PROVE  Stage(c)'
  <1>1. Settled(x) => Settled(x)'
    BY DEF Settled
  <1>2. Unsettled(c) => Unsettled(c)'
    BY DEF Unsettled
  <1>3. Known(c) => Known(c)'
    BY DEF Known
  <1>4. Undoing(c) => Undoing(c)'
    BY DEF Undoing
  <1> QED BY <1>1, <1>2, <1>3, <1>4 DEF Stage

\* A step of the only handler p of o, or one that starts it: d is what it becomes,
\* and one listing at most changes hands.
LEMMA CalmStep ==
    ASSUME Undisturbed, TypeOK, TypeOK', EvidenceInv, CalmInv,
           NEW p \in Procs, NEW o \in Orders, NEW d \in Calls,
           call[p].o = o \/ (At(p, "idle") /\ Quiet(o)),
           call' = [call EXCEPT ![p] = d],
           (d.at # "idle" /\ d.o = o /\ Stage(d)') \/ (d = Idle /\ Settled(o)'),
           \A x \in Orders \ {o} :
               /\ order'[x] = order[x] /\ payment'[x] = payment[x] /\ gateway'[x] = gateway[x]
               /\ hold'[x] = hold[x] /\ task'[x] = task[x] /\ refunds'[x] = refunds[x],
           \/ stock' = stock /\ Own(d, o)' = Own(call[p], o)
           \/ \E l \in Listings : /\ stock' = [stock EXCEPT ![l] = @ - 1]
                                  /\ l \notin Own(call[p], o)
                                  /\ Own(d, o)' = Own(call[p], o) \cup {l}
           \/ \E l \in Listings : /\ stock' = [stock EXCEPT ![l] = @ + 1]
                                  /\ l \in Own(call[p], o)
                                  /\ Own(d, o)' = Own(call[p], o) \ {l}
    PROVE  CalmInv'
  <1>t. /\ call \in [Procs -> Calls] /\ stock \in [Listings -> Nat]
        /\ call'[p] = d /\ \A q \in Procs \ {p} : call'[q] = call[q]
        /\ Idle.at = "idle" /\ Idle.o = NoOrder /\ NoOrder \notin Orders
        /\ InitialStock \in Nat /\ IsFiniteSet(Orders)
    BY SagaAssumption DEF TypeOK, Idle, Undisturbed
  <1>o. \A q \in Procs : IF At(q, "idle") THEN call[q].o = NoOrder ELSE call[q].o \in Orders
    BY DEF EvidenceInv, Evidence, At
  <1>d. (d.at # "idle" /\ d.o = o) \/ (d.at = "idle" /\ d.o = NoOrder)
    BY <1>t
  <1>p. \A q \in Procs \ {p} : call[q].o # o
    BY <1>o DEF CalmInv, Solo, Quiet
  <1>1. Solo'
    BY <1>t, <1>o, <1>d, <1>p DEF CalmInv, Solo
  <1>2. ASSUME NEW q \in Procs, ~At(q, "idle")' PROVE Stage(call[q])'
    <2>1. CASE q = p
      <3>1. Stage(d)' /\ call'[q] = d
        BY <1>t, <1>2, <2>1 DEF At
      <3> QED BY <3>1 DEF Stage, Settled, Unsettled, Known, Undoing
    <2>2. CASE q # p
      <3>1. PICK c \in Calls : c = call[q] /\ c = call'[q]
        BY <1>t, <2>2
      <3>2. Stage(c) /\ c.o \in Orders /\ c.o # o
        BY <1>2, <1>o, <1>p, <2>2, <3>1 DEF CalmInv, At
      <3>3. Stage(c)'
        BY <3>2, StageKept
      <3> QED BY <3>1, <3>3 DEF Stage, Settled, Unsettled, Known, Undoing
    <2> QED BY <2>1, <2>2
  <1>3. ASSUME NEW x \in Orders, Quiet(x)' PROVE Settled(x)'
    <2>1. CASE x = o
      BY <1>t, <1>3, <2>1 DEF Quiet
    <2>2. CASE x # o
      <3>1. call[p].o # x
        BY <1>o, <1>t, <2>2
      <3>2. Quiet(x)
        BY <1>t, <1>3, <3>1 DEF Quiet
      <3>3. Settled(x)
        BY <3>2 DEF CalmInv
      <3> QED BY <2>2, <3>3 DEF Settled
    <2> QED BY <2>1, <2>2
  <1>4. Taken(o) = Own(call[p], o)
    <2>1. CASE call[p].o = o
      BY <1>t, <1>o, <1>p, <2>1 DEF Taken, Own, Units, At
    <2>2. CASE At(p, "idle") /\ Quiet(o)
      BY <2>2 DEF Taken, Own, Units, At, Quiet
    <2> QED BY <2>1, <2>2
  <1>5. Taken(o)' = Own(d, o)'
    <2>1. CASE d.o = o /\ d.at # "idle"
      BY <1>t, <1>p, <2>1 DEF Taken, Own, Units, At
    <2>2. CASE d.at = "idle" /\ d.o = NoOrder
      BY <1>t, <1>p, <2>2 DEF Taken, Own, Units, At
    <2> QED BY <1>d, <2>1, <2>2
  <1>6. ASSUME NEW x \in Orders \ {o} PROVE Taken(x)' = Taken(x)
    <2>1. call[p].o # x /\ call'[p].o # x
      BY <1>o, <1>t, <1>d
    <2>2. \A q \in Procs : (call'[q].o = x <=> call[q].o = x)
                           /\ (call[q].o = x => call'[q] = call[q])
      BY <1>t, <2>1
    <2> QED BY <2>2 DEF Taken, Units, At
  <1>7. \A l \in Listings : IsFiniteSet(Takers(l)) /\ Cardinality(Takers(l)) \in Nat
    <2>1. \A l \in Listings : Takers(l) \in SUBSET Orders
      BY DEF Takers
    <2> QED BY <1>t, <2>1, FS_Subset, FS_CardinalityType
  <1>8. ASSUME NEW l \in Listings PROVE stock'[l] + Cardinality(Takers(l)') = InitialStock
    <2>0. stock[l] + Cardinality(Takers(l)) = InitialStock /\ stock[l] \in Nat
      BY <1>t DEF CalmInv, StockInv
    <2>1. CASE stock'[l] = stock[l] /\ (l \in Taken(o) <=> l \in Taken(o)')
      <3>1. Takers(l)' = Takers(l)
        BY <1>6, <2>1 DEF Takers
      <3> QED BY <2>0, <2>1, <3>1
    <2>2. CASE stock'[l] = stock[l] - 1 /\ l \notin Taken(o) /\ l \in Taken(o)'
      <3>1. Takers(l)' = Takers(l) \cup {o} /\ o \notin Takers(l)
        BY <1>6, <2>2 DEF Takers
      <3>2. Cardinality(Takers(l)') = Cardinality(Takers(l)) + 1
        BY <1>7, <3>1, FS_AddElement
      <3> QED BY <1>7, <2>0, <2>2, <3>2
    <2>3. CASE stock'[l] = stock[l] + 1 /\ l \in Taken(o) /\ l \notin Taken(o)'
      <3>1. Takers(l)' = Takers(l) \ {o} /\ o \in Takers(l)
        BY <1>6, <2>3 DEF Takers
      <3>2. Cardinality(Takers(l)') = Cardinality(Takers(l)) - 1
        BY <1>7, <3>1, FS_RemoveElement
      <3> QED BY <1>7, <2>0, <2>3, <3>2
    <2>4. \/ stock'[l] = stock[l] /\ (l \in Taken(o) <=> l \in Taken(o)')
          \/ stock'[l] = stock[l] - 1 /\ l \notin Taken(o) /\ l \in Taken(o)'
          \/ stock'[l] = stock[l] + 1 /\ l \in Taken(o) /\ l \notin Taken(o)'
      BY <1>t, <1>4, <1>5
    <2> QED BY <2>1, <2>2, <2>3, <2>4
  <1> QED BY <1>1, <1>2, <1>3, <1>8 DEF CalmInv, StockInv

LEMMA InitCalmInv == Undisturbed /\ Init => CalmInv
  <1> SUFFICES ASSUME Undisturbed, Init PROVE CalmInv
    OBVIOUS
  <1>1. Idle.at = "idle" /\ Idle.o = NoOrder /\ NoOrder \notin Orders /\ InitialStock \in Nat
    BY SagaAssumption DEF Idle
  <1>2. \A p \in Procs : call[p] = Idle
    BY DEF Init
  <1>3. Solo /\ \A p \in Procs : At(p, "idle")
    BY <1>1, <1>2 DEF Solo, At
  <1>4. \A o \in Orders : Settled(o)
    BY DEF Init, Settled
  <1>5. ASSUME NEW l \in Listings PROVE stock[l] + Cardinality(Takers(l)) = InitialStock
    <2>1. Takers(l) = {}
      BY <1>1, <1>2 DEF Takers, Taken, Init, Units
    <2>2. Cardinality({}) = 0
      BY FS_EmptySet
    <2> QED BY <1>1, <2>1, <2>2 DEF Init
  <1> QED BY <1>3, <1>4, <1>5 DEF CalmInv, StockInv

LEMMA CheckoutCalm ==
    ASSUME Undisturbed, TypeOK, TypeOK', EvidenceInv, CalmInv, NEW p \in Procs,
           \/ \E o \in Orders : CheckoutStart(p, o)
           \/ CheckoutPending(p) \/ ChargeCreate(p) \/ ChargeAnswer(p) \/ CheckoutSummary(p)
    PROVE  CalmInv'
  <1>t. /\ call \in [Procs -> Calls] /\ call' \in [Procs -> Calls]
        /\ order \in [Orders -> [status : OrderStatus, paid : PaymentStatus]]
        /\ payment \in [Orders -> PaymentStatus]
        /\ gateway \in [Orders -> [captured : BOOLEAN, attemptFailed : BOOLEAN]]
        /\ Idle \in Calls /\ Idle.at = "idle" /\ Idle.o = NoOrder /\ Idle.event = NoEvent
    BY IdleTyped DEF TypeOK, Idle
  <1>a. ASSUME ~At(p, "idle")
        PROVE  call[p] \in Calls /\ call[p].o \in Orders /\ Stage(call[p])
    BY <1>t, <1>a DEF EvidenceInv, Evidence, At, CalmInv
  <1>1. ASSUME NEW o \in Orders, CheckoutStart(p, o) PROVE CalmInv'
    <2>1. PICK d : d = [Idle EXCEPT !.at = "pending", !.o = o]
      OBVIOUS
    <2>2. /\ call' = [call EXCEPT ![p] = d] /\ d \in Calls
          /\ d.at = "pending" /\ d.o = o /\ d.event = NoEvent
      BY <1>1, <1>t, <2>1 DEF CheckoutStart, Calls, Steps
    <2>3. /\ At(p, "idle") /\ Quiet(o) /\ Settled(o) /\ order[o].status = "none"
      BY <1>1 DEF CheckoutStart, MayStart, Undisturbed, CalmInv
    <2>4. /\ UNCHANGED <<payment, gateway, stock, hold, task, refunds>>
          /\ \A x \in Orders \ {o} : order'[x] = order[x]
          /\ order'[o].status = "created"
      BY <1>1, <1>t DEF CheckoutStart
    <2>5. Stage(d)'
      BY <2>2, <2>3, <2>4 DEF Stage, Settled
    <2>6. Own(d, o)' = Own(call[p], o)
      BY <2>2, <2>3, <2>4 DEF Own, Units, At
    <2> QED BY <2>2, <2>3, <2>4, <2>5, <2>6, CalmStep
  <1>2. ASSUME CheckoutPending(p) PROVE CalmInv'
    <2>o. PICK o \in Orders : o = call[p].o /\ Stage(call[p]) /\ At(p, "pending")
      BY <1>2, <1>a DEF CheckoutPending, At
    <2>1. PICK d \in Calls : /\ call' = [call EXCEPT ![p] = d] /\ d.at = "pay" /\ d.o = o
                             /\ d.event = call[p].event
      BY <1>2, <2>o, ContinueTyped DEF CheckoutPending, Steps
    <2>2. /\ UNCHANGED <<payment, gateway, stock, hold, task, refunds>>
          /\ \A x \in Orders \ {o} : order'[x] = order[x]
          /\ order'[o].status = "payment_pending"
      BY <1>2, <1>t, <2>o DEF CheckoutPending
    <2>3. Stage(d)'
      BY <2>o, <2>1, <2>2 DEF Stage, Unsettled, At
    <2>4. Own(d, o)' = Own(call[p], o)
      BY <2>o, <2>1, <2>2 DEF Own, Units, At
    <2> QED BY <2>o, <2>1, <2>2, <2>3, <2>4, CalmStep
  <1>3. ASSUME ChargeCreate(p) PROVE CalmInv'
    <2>o. PICK o \in Orders : o = call[p].o /\ Stage(call[p]) /\ At(p, "pay")
      BY <1>3, <1>a DEF ChargeCreate, At
    <2>1. PICK d : d = call'[p]
      OBVIOUS
    <2>2. /\ d \in Calls /\ call' = [call EXCEPT ![p] = d] /\ d.o = o /\ d.event = call[p].event
          /\ d.at = IF Method[o] = "cod" THEN "summary" ELSE "charge"
          /\ d.paid = IF Method[o] = "cod" THEN "awaiting_collection" ELSE "pending"
          /\ payment'[o] = d.paid
      BY <1>3, <1>t, <2>o, <2>1 DEF ChargeCreate, Calls
    <2>3. /\ UNCHANGED <<order, gateway, stock, hold, task, refunds>>
          /\ \A x \in Orders \ {o} : payment'[x] = payment[x]
      BY <1>3, <1>t, <2>o DEF ChargeCreate
    <2>4. Stage(d)'
      BY <2>o, <2>2, <2>3 DEF Stage, Unsettled, Known, At
    <2>5. Own(d, o)' = Own(call[p], o)
      BY <2>o, <2>2, <2>3 DEF Own, Units, At
    <2> QED BY <2>o, <2>2, <2>3, <2>4, <2>5, CalmStep DEF At
  <1>4. ASSUME ChargeAnswer(p) PROVE CalmInv'
    <2>o. PICK o \in Orders : o = call[p].o /\ Stage(call[p]) /\ At(p, "charge")
      BY <1>4, <1>a DEF ChargeAnswer, At
    <2>1. PICK answer \in {"success", "failed"} :
              /\ payment' = [payment EXCEPT ![o] = answer]
              /\ gateway' = [gateway EXCEPT ![o].captured = (answer = "success")]
              /\ call' = [call EXCEPT ![p] = [call[p] EXCEPT !.paid = answer, !.at = "summary"]]
      <3>1. PICK answer \in {"success", "failed"} :
                /\ payment' = [payment EXCEPT ![o] = answer]
                /\ gateway' = [gateway EXCEPT ![o].captured = (answer = "success")]
                /\ call' = [call EXCEPT ![p].paid = answer, ![p].at = "summary"]
        BY <1>4, <2>o DEF ChargeAnswer, Undisturbed
      <3>2. call' = [call EXCEPT ![p] = [call[p] EXCEPT !.paid = answer, !.at = "summary"]]
        BY <1>t, <3>1 DEF Calls
      <3> QED BY <3>1, <3>2
    <2>2. PICK d : d = [call[p] EXCEPT !.paid = answer, !.at = "summary"]
      OBVIOUS
    <2>3. /\ d \in Calls /\ call' = [call EXCEPT ![p] = d] /\ d.o = o /\ d.event = call[p].event
          /\ d.at = "summary" /\ d.paid = answer
      BY <1>t, <2>o, <2>1, <2>2 DEF Calls
    <2>4. /\ UNCHANGED <<order, stock, hold, task, refunds>>
          /\ \A x \in Orders \ {o} : payment'[x] = payment[x] /\ gateway'[x] = gateway[x]
          /\ payment'[o] = answer /\ gateway'[o].captured = (answer = "success")
      <3>1. UNCHANGED <<order, stock, hold, task, refunds>>
        BY <1>4 DEF ChargeAnswer
      <3>2. /\ \A x \in Orders \ {o} : payment'[x] = payment[x] /\ gateway'[x] = gateway[x]
            /\ payment'[o] = answer /\ gateway'[o].captured = (answer = "success")
        BY <1>t, <2>1
      <3> QED BY <3>1, <3>2
    <2>5. Stage(d)'
      BY <2>o, <2>3, <2>4 DEF Stage, Unsettled, Known, At
    <2>6. Own(d, o)' = Own(call[p], o)
      BY <2>o, <2>3, <2>4 DEF Own, Units, At
    <2> QED BY <2>o, <2>3, <2>4, <2>5, <2>6, CalmStep DEF At
  <1>5. ASSUME CheckoutSummary(p) PROVE CalmInv'
    <2>o. PICK o \in Orders : o = call[p].o /\ Stage(call[p]) /\ At(p, "summary")
      BY <1>5, <1>a DEF CheckoutSummary, At
    <2>1. /\ Unsettled(call[p]) /\ call[p].event = NoEvent /\ payment[o] # "pending"
          /\ Known(call[p]) \/ (call[p].paid = "failed" /\ ~gateway[o].captured)
      BY <2>o DEF Stage, At
    <2>2. /\ UNCHANGED <<payment, gateway, stock, hold, task, refunds>>
          /\ \A x \in Orders \ {o} : order'[x] = order[x]
          /\ order'[o].status = order[o].status /\ order'[o].paid = call[p].paid
      BY <1>5, <1>t, <2>o DEF CheckoutSummary
    <2>3. CASE call[p].paid = "failed"
      <3>1. PICK d : d = [call[p] EXCEPT !.at = "release", !.path = "decline"]
        OBVIOUS
      <3>2. call' = [call EXCEPT ![p] = d]
        BY <1>5, <2>3, <3>1 DEF CheckoutSummary
      <3>3. /\ d \in Calls /\ d.o = o /\ d.event = NoEvent /\ d.at = "release"
            /\ d.path = "decline"
        BY <1>t, <2>o, <2>1, <3>1, <3>2 DEF Calls
      <3>4. Stage(d)'
        BY <2>o, <2>1, <2>2, <2>3, <3>3 DEF Stage, Unsettled, Known
      <3>5. Own(d, o)' = Own(call[p], o)
        BY <2>o, <2>2, <3>3 DEF Own, Units, At
      <3> QED BY <2>o, <2>2, <3>2, <3>3, <3>4, <3>5, CalmStep
    <2>4. CASE Known(call[p])
      <3>1. PICK d : d = StartCommit(call[p])
        OBVIOUS
      <3>2. call' = [call EXCEPT ![p] = d]
        BY <1>5, <2>4, <3>1 DEF CheckoutSummary, Known
      <3>3. /\ d \in Calls /\ d.o = o /\ d.event = NoEvent /\ d.at = "commit"
            /\ d.path = "finalize" /\ d.done = {} /\ d.todo = Basket[o] /\ d.paid = call[p].paid
        BY <1>t, <2>o, <2>1, <3>1, <3>2 DEF Calls, StartCommit
      <3>4. Stage(d)'
        BY <2>o, <2>1, <2>2, <2>4, <3>3 DEF Stage, Unsettled, Known
      <3>5. Own(d, o)' = Own(call[p], o)
        BY <2>o, <2>2, <3>3 DEF Own, Units, At
      <3> QED BY <2>o, <2>2, <3>2, <3>3, <3>4, <3>5, CalmStep
    <2> QED BY <2>1, <2>3, <2>4
  <1> QED BY <1>1, <1>2, <1>3, <1>4, <1>5

LEMMA FinalizeCalm ==
    ASSUME Undisturbed, TypeOK, TypeOK', EvidenceInv, CalmInv, NEW p \in Procs,
           \/ CommitItem(p) \/ CommitDone(p) \/ SlotConfirm(p) \/ CreateTask(p)
           \/ ConfirmOrder(p)
    PROVE  CalmInv'
  <1>t. /\ call \in [Procs -> Calls] /\ call' \in [Procs -> Calls]
        /\ order \in [Orders -> [status : OrderStatus, paid : PaymentStatus]]
        /\ hold \in [Orders -> HoldStatus] /\ task \in [Orders -> BOOLEAN]
        /\ Idle \in Calls /\ Idle.at = "idle"
    BY IdleTyped DEF TypeOK, Idle
  <1>a. ASSUME ~At(p, "idle")
        PROVE  call[p] \in Calls /\ call[p].o \in Orders /\ Stage(call[p])
    BY <1>t, <1>a DEF EvidenceInv, Evidence, At, CalmInv
  <1>b. \A o \in Orders : Basket[o] \subseteq Listings
    BY SagaAssumption
  <1>1. ASSUME CommitItem(p) PROVE CalmInv'
    <2>o. PICK o \in Orders : o = call[p].o /\ Stage(call[p]) /\ At(p, "commit")
      BY <1>1, <1>a DEF CommitItem, At
    <2>s. /\ call[p].event = NoEvent /\ payment[o] # "pending"
          /\ call[p].path = "finalize" /\ Unsettled(call[p]) /\ Known(call[p])
          /\ order[o].paid = call[p].paid /\ call[p].done \subseteq Basket[o]
          /\ call[p].todo \subseteq Basket[o] \ call[p].done
      BY <2>o DEF Stage, At
    <2>1. PICK l \in call[p].todo :
              IF stock[l] >= 1
              THEN /\ stock' = [stock EXCEPT ![l] = @ - 1]
                   /\ call' = [call EXCEPT ![p].todo = @ \ {l}, ![p].done = @ \cup {l}]
              ELSE /\ call' = [call EXCEPT ![p].todo = @ \ {l}]
                   /\ UNCHANGED stock
      BY <1>1 DEF CommitItem
    <2>l. l \in Basket[o] /\ l \in Listings /\ l \notin call[p].done
      BY <1>b, <2>s
    <2>2. UNCHANGED <<order, payment, gateway, hold, task, refunds>>
      BY <1>1 DEF CommitItem
    <2>3. PICK d : d = call'[p]
      OBVIOUS
    <2>4. /\ d \in Calls /\ call' = [call EXCEPT ![p] = d] /\ d.o = o /\ d.event = NoEvent
          /\ d.at = "commit" /\ d.path = "finalize" /\ d.paid = call[p].paid
          /\ d.todo = call[p].todo \ {l}
          /\ d.done = IF stock[l] >= 1 THEN call[p].done \cup {l} ELSE call[p].done
      <3>1. CASE stock[l] >= 1
        <4>1. d = [call[p] EXCEPT !.todo = @ \ {l}, !.done = @ \cup {l}]
          BY <1>t, <2>1, <2>3, <3>1
        <4> QED BY <1>t, <2>o, <2>s, <2>1, <2>3, <3>1, <4>1 DEF Calls, At
      <3>2. CASE ~(stock[l] >= 1)
        <4>1. d = [call[p] EXCEPT !.todo = @ \ {l}]
          BY <1>t, <2>1, <2>3, <3>2
        <4> QED BY <1>t, <2>o, <2>s, <2>1, <2>3, <3>2, <4>1 DEF Calls, At
      <3> QED BY <3>1, <3>2
    <2>5. Stage(d)'
      <3>1. d.todo \subseteq Basket[o] \ d.done /\ d.done \subseteq Basket[o]
        BY <2>s, <2>l, <2>4
      <3>2. Unsettled(d)' /\ Known(d)'
        BY <2>o, <2>s, <2>2, <2>4 DEF Unsettled, Known
      <3> QED BY <2>s, <2>2, <2>4, <3>1, <3>2 DEF Stage
    <2>6. Own(call[p], o) = call[p].done
      BY <2>o, <2>s DEF Own, Units, At
    <2>7. Own(d, o)' = d.done
      BY <2>s, <2>l, <2>4 DEF Own, Units
    <2>8. CASE stock[l] >= 1
      <3>1. /\ stock' = [stock EXCEPT ![l] = @ - 1] /\ l \notin Own(call[p], o)
            /\ Own(d, o)' = Own(call[p], o) \cup {l}
        BY <2>1, <2>l, <2>4, <2>6, <2>7, <2>8
      <3> QED BY <2>o, <2>l, <2>2, <2>4, <2>5, <3>1, CalmStep
    <2>9. CASE ~(stock[l] >= 1)
      <3>1. stock' = stock /\ Own(d, o)' = Own(call[p], o)
        BY <2>1, <2>4, <2>6, <2>7, <2>9
      <3> QED BY <2>o, <2>2, <2>4, <2>5, <3>1, CalmStep
    <2> QED BY <2>8, <2>9
  <1>2. ASSUME CommitDone(p) PROVE CalmInv'
    <2>o. PICK o \in Orders : o = call[p].o /\ Stage(call[p]) /\ At(p, "commit")
      BY <1>2, <1>a DEF CommitDone, At
    <2>s. /\ call[p].event = NoEvent /\ payment[o] # "pending"
          /\ call[p].path = "finalize" /\ Unsettled(call[p]) /\ Known(call[p])
          /\ order[o].paid = call[p].paid /\ call[p].done \subseteq Basket[o]
      BY <2>o DEF Stage, At
    <2>1. UNCHANGED <<order, payment, gateway, stock, hold, task, refunds>>
      BY <1>2 DEF CommitDone
    <2>2. PICK d : d = call'[p]
      OBVIOUS
    <2>3. /\ d \in Calls /\ call' = [call EXCEPT ![p] = d] /\ d.o = o /\ d.event = NoEvent
          /\ d.path = "finalize" /\ d.paid = call[p].paid /\ d.done = call[p].done
          /\ \/ d.at = "slotConfirm" /\ d.done = Basket[o]
             \/ d.at = "restore" /\ d.todo = d.done
      <3>1. CASE call[p].done = Basket[o]
        <4>1. d = [call[p] EXCEPT !.at = "slotConfirm"]
          BY <1>2, <1>t, <2>o, <2>2, <3>1 DEF CommitDone
        <4> QED BY <1>2, <1>t, <2>o, <2>s, <2>2, <3>1, <4>1 DEF Calls, CommitDone
      <3>2. CASE call[p].done # Basket[o]
        <4>1. d = [call[p] EXCEPT !.at = "restore", !.todo = call[p].done]
          BY <1>2, <1>t, <2>o, <2>2, <3>2 DEF CommitDone
        <4> QED BY <1>2, <1>t, <2>o, <2>s, <2>2, <3>2, <4>1 DEF Calls, CommitDone
      <3> QED BY <3>1, <3>2
    <2>4. Stage(d)'
      <3>1. Unsettled(d)' /\ Known(d)'
        BY <2>o, <2>s, <2>1, <2>3 DEF Unsettled, Known
      <3> QED BY <2>s, <2>1, <2>3, <3>1 DEF Stage
    <2>5. Own(d, o)' = Own(call[p], o)
      BY <2>o, <2>1, <2>3 DEF Own, Units, At
    <2> QED BY <2>o, <2>1, <2>3, <2>4, <2>5, CalmStep
  <1>3. ASSUME SlotConfirm(p) PROVE CalmInv'
    <2>o. PICK o \in Orders : o = call[p].o /\ Stage(call[p]) /\ At(p, "slotConfirm")
      BY <1>3, <1>a DEF SlotConfirm, At
    <2>s. /\ call[p].event = NoEvent /\ payment[o] # "pending"
          /\ Unsettled(call[p]) /\ Known(call[p])
          /\ order[o].paid = call[p].paid /\ call[p].done = Basket[o]
      BY <2>o DEF Stage, At
    <2>1. /\ UNCHANGED <<order, payment, gateway, stock, task, refunds>>
          /\ \A x \in Orders \ {o} : hold'[x] = hold[x]
          /\ Continue(p, "createTask")
      BY <1>3, <1>t, <2>o, <2>s DEF SlotConfirm, Unsettled
    <2>2. PICK d \in Calls : /\ call' = [call EXCEPT ![p] = d] /\ d.o = o /\ d.event = NoEvent
                             /\ d.at = "createTask" /\ d.paid = call[p].paid
                             /\ d.done = Basket[o]
      BY <2>o, <2>s, <2>1, ContinueTyped DEF Steps
    <2>3. Stage(d)'
      <3>1. Known(d)'
        BY <2>o, <2>s, <2>1, <2>2 DEF Known
      <3> QED BY <2>o, <2>s, <2>1, <2>2, <3>1 DEF Stage, Unsettled
    <2>4. Own(d, o)' = Own(call[p], o)
      BY <2>o, <2>s, <2>1, <2>2 DEF Own, Units, At
    <2> QED BY <2>o, <2>1, <2>2, <2>3, <2>4, CalmStep
  <1>4. ASSUME CreateTask(p) PROVE CalmInv'
    <2>o. PICK o \in Orders : o = call[p].o /\ Stage(call[p]) /\ At(p, "createTask")
      BY <1>4, <1>a DEF CreateTask, At
    <2>s. /\ call[p].event = NoEvent /\ payment[o] # "pending" /\ ~task[o]
          /\ order[o].status = "payment_pending" /\ Known(call[p]) /\ refunds[o] = 0
          /\ order[o].paid = call[p].paid /\ call[p].done = Basket[o]
      BY <2>o DEF Stage, At
    <2>1. /\ UNCHANGED <<order, payment, gateway, stock, hold, refunds>>
          /\ \A x \in Orders \ {o} : task'[x] = task[x]
          /\ Continue(p, "confirmOrder")
      BY <1>4, <1>t, <2>o, <2>s DEF CreateTask
    <2>2. PICK d \in Calls : /\ call' = [call EXCEPT ![p] = d] /\ d.o = o /\ d.event = NoEvent
                             /\ d.at = "confirmOrder" /\ d.paid = call[p].paid
                             /\ d.done = Basket[o]
      BY <2>o, <2>s, <2>1, ContinueTyped DEF Steps
    <2>3. Stage(d)'
      <3>1. Known(d)'
        BY <2>o, <2>s, <2>1, <2>2 DEF Known
      <3> QED BY <2>o, <2>s, <2>1, <2>2, <3>1 DEF Stage
    <2>4. Own(d, o)' = Own(call[p], o)
      BY <2>o, <2>s, <2>1, <2>2 DEF Own, Units, At
    <2> QED BY <2>o, <2>1, <2>2, <2>3, <2>4, CalmStep
  <1>5. ASSUME ConfirmOrder(p) PROVE CalmInv'
    <2>o. PICK o \in Orders : o = call[p].o /\ Stage(call[p]) /\ At(p, "confirmOrder")
      BY <1>5, <1>a DEF ConfirmOrder, At
    <2>s. /\ call[p].event = NoEvent /\ payment[o] # "pending"
          /\ Known(call[p]) /\ refunds[o] = 0
          /\ order[o].paid = call[p].paid /\ call[p].done = Basket[o]
      BY <2>o DEF Stage, At
    <2>1. /\ UNCHANGED <<payment, gateway, stock, hold, task, refunds>>
          /\ \A x \in Orders \ {o} : order'[x] = order[x]
          /\ order'[o].status = "confirmed" /\ order'[o].paid = order[o].paid
          /\ call' = [call EXCEPT ![p] = Idle]
      BY <1>5, <1>t, <2>o, <2>s DEF ConfirmOrder, Return
    <2>2. Settled(o)'
      BY <2>o, <2>s, <2>1 DEF Settled, Known
    <2>3. Own(Idle, o)' = Own(call[p], o)
      BY <1>t, <2>o, <2>s, <2>1 DEF Own, Units, At
    <2> QED BY <1>t, <2>o, <2>1, <2>2, <2>3, CalmStep
  <1> QED BY <1>1, <1>2, <1>3, <1>4, <1>5

LEMMA CompensateCalm ==
    ASSUME Undisturbed, TypeOK, TypeOK', EvidenceInv, CalmInv, NEW p \in Procs,
           \/ RestoreItem(p) \/ RestoreDone(p) \/ Release(p) \/ WaiveCash(p)
           \/ RefundInitiate(p) \/ SyncRefund(p) \/ MarkCancelled(p)
    PROVE  CalmInv'
  <1>t. /\ call \in [Procs -> Calls] /\ call' \in [Procs -> Calls]
        /\ order \in [Orders -> [status : OrderStatus, paid : PaymentStatus]]
        /\ payment \in [Orders -> PaymentStatus] /\ refunds \in [Orders -> Nat]
        /\ hold \in [Orders -> HoldStatus]
        /\ Idle \in Calls /\ Idle.at = "idle"
    BY IdleTyped DEF TypeOK, Idle
  <1>a. ASSUME ~At(p, "idle")
        PROVE  call[p] \in Calls /\ call[p].o \in Orders /\ Stage(call[p])
    BY <1>t, <1>a DEF EvidenceInv, Evidence, At, CalmInv
  <1>b. \A o \in Orders : Basket[o] \subseteq Listings
    BY SagaAssumption
  <1>1. ASSUME RestoreItem(p) PROVE CalmInv'
    <2>o. PICK o \in Orders : o = call[p].o /\ Stage(call[p]) /\ At(p, "restore")
      BY <1>1, <1>a DEF RestoreItem, At
    <2>s. /\ call[p].event = NoEvent /\ payment[o] # "pending" /\ call[p].todo \subseteq Basket[o]
          /\ \/ call[p].path = "finalize" /\ Unsettled(call[p])
             \/ Undoing(call[p]) /\ Known(call[p])
      BY <2>o DEF Stage, At
    <2>1. PICK l \in call[p].todo : /\ stock' = [stock EXCEPT ![l] = @ + 1]
                                    /\ call' = [call EXCEPT ![p].todo = @ \ {l}]
      BY <1>1 DEF RestoreItem
    <2>2. UNCHANGED <<order, payment, gateway, hold, task, refunds>> /\ l \in Listings
      BY <1>1, <1>b, <2>s DEF RestoreItem
    <2>3. PICK d : d = [call[p] EXCEPT !.todo = @ \ {l}]
      OBVIOUS
    <2>4. /\ d \in Calls /\ call' = [call EXCEPT ![p] = d] /\ d.o = o /\ d.event = NoEvent
          /\ d.at = "restore" /\ d.path = call[p].path /\ d.paid = call[p].paid
          /\ d.refund = call[p].refund /\ d.todo = call[p].todo \ {l}
      BY <1>t, <2>o, <2>s, <2>1, <2>3 DEF Calls, At
    <2>5. Stage(d)'
      BY <2>o, <2>s, <2>2, <2>4 DEF Stage, Unsettled, Known, Undoing
    <2>6. Own(call[p], o) = call[p].todo /\ Own(d, o)' = d.todo
      BY <2>o, <2>s, <2>4 DEF Own, Units, At
    <2>7. l \in Own(call[p], o) /\ Own(d, o)' = Own(call[p], o) \ {l}
      BY <2>4, <2>6
    <2> QED BY <2>o, <2>1, <2>2, <2>4, <2>5, <2>7, CalmStep
  <1>2. ASSUME RestoreDone(p) PROVE CalmInv'
    <2>o. PICK o \in Orders : o = call[p].o /\ Stage(call[p]) /\ At(p, "restore")
      BY <1>2, <1>a DEF RestoreDone, At
    <2>s. /\ call[p].event = NoEvent /\ payment[o] # "pending"
          /\ \/ call[p].path = "finalize" /\ Unsettled(call[p])
             \/ Undoing(call[p]) /\ Known(call[p])
      BY <2>o DEF Stage, At
    <2>1. UNCHANGED <<order, payment, gateway, stock, hold, task, refunds>> /\ call[p].todo = {}
      BY <1>2 DEF RestoreDone
    <2>2. PICK st \in Steps : st = (IF call[p].path = "cancel" THEN "release" ELSE "refund")
                              /\ Continue(p, st)
      BY <1>2 DEF RestoreDone, AfterRestore, Steps
    <2>3. PICK d \in Calls : /\ call' = [call EXCEPT ![p] = d] /\ d.o = o /\ d.event = NoEvent
                             /\ d.at = st /\ d.path = call[p].path /\ d.paid = call[p].paid
                             /\ d.refund = call[p].refund
      <3>1. PICK d \in Calls : /\ call' = [call EXCEPT ![p] = d]
                               /\ d = [call[p] EXCEPT !.at = st]
        BY <2>2, ContinueTyped
      <3> QED BY <1>t, <2>o, <2>s, <3>1 DEF Calls
    <2>4. Stage(d)'
      BY <2>o, <2>s, <2>1, <2>2, <2>3 DEF Stage, Unsettled, Known, Undoing
    <2>5. Own(d, o)' = Own(call[p], o)
      BY <2>o, <2>1, <2>2, <2>3 DEF Own, Units, At
    <2> QED BY <2>o, <2>1, <2>2, <2>3, <2>4, <2>5, CalmStep
  <1>3. ASSUME Release(p) PROVE CalmInv'
    <2>o. PICK o \in Orders : o = call[p].o /\ Stage(call[p]) /\ At(p, "release")
      BY <1>3, <1>a DEF Release, At
    <2>s. /\ call[p].event = NoEvent /\ payment[o] # "pending"
          /\ \/ call[p].path = "decline" /\ Unsettled(call[p]) /\ ~gateway[o].captured
             \/ call[p].path = "finalize" /\ hold[o] = "held" /\ refunds[o] = 1
             \/ Undoing(call[p]) /\ Known(call[p])
      BY <2>o DEF Stage, At
    <2>1. /\ UNCHANGED <<order, payment, gateway, stock, task, refunds>>
          /\ \A x \in Orders \ {o} : hold'[x] = hold[x]
          /\ Continue(p, AfterRelease(call[p]))
      BY <1>3, <1>t, <2>o, <2>s DEF Release, Undoing
    <2>2. PICK st \in Steps : /\ Continue(p, st)
                              /\ st = IF call[p].path # "cancel" THEN "markCancelled"
                                      ELSE IF call[p].paid = "awaiting_collection" THEN "waive"
                                      ELSE "refund"
      BY <2>s, <2>1 DEF AfterRelease, RefundDue, Undoing, Known, Steps
    <2>3. PICK d \in Calls : /\ call' = [call EXCEPT ![p] = d] /\ d.o = o /\ d.event = NoEvent
                             /\ d.at = st /\ d.path = call[p].path /\ d.paid = call[p].paid
                             /\ d.refund = call[p].refund
      <3>1. PICK d \in Calls : /\ call' = [call EXCEPT ![p] = d]
                               /\ d = [call[p] EXCEPT !.at = st]
        BY <2>2, ContinueTyped
      <3> QED BY <1>t, <2>o, <2>s, <3>1 DEF Calls
    <2>4. Stage(d)'
      BY <2>o, <2>s, <2>1, <2>2, <2>3 DEF Stage, Unsettled, Known, Undoing
    <2>5. Own(d, o)' = Own(call[p], o)
      BY <2>o, <2>1, <2>2, <2>3 DEF Own, Units, At
    <2> QED BY <2>o, <2>1, <2>2, <2>3, <2>4, <2>5, CalmStep
  <1>4. ASSUME WaiveCash(p) PROVE CalmInv'
    <2>o. PICK o \in Orders : o = call[p].o /\ Stage(call[p]) /\ At(p, "waive")
      BY <1>4, <1>a DEF WaiveCash, At
    <2>s. /\ call[p].event = NoEvent /\ payment[o] # "pending"
          /\ refunds[o] = 0 /\ ~gateway[o].captured
      BY <2>o DEF Stage, At, Undoing
    <2>1. /\ UNCHANGED <<order, gateway, stock, hold, task, refunds>>
          /\ \A x \in Orders \ {o} : payment'[x] = payment[x]
          /\ payment'[o] # "pending"
      BY <1>4, <1>t, <2>o, <2>s DEF WaiveCash
    <2>2. PICK d : d = [call[p] EXCEPT !.paid = "failed", !.at = "markCancelled"]
      OBVIOUS
    <2>3. /\ d \in Calls /\ call' = [call EXCEPT ![p] = d] /\ d.o = o /\ d.event = NoEvent
          /\ d.at = "markCancelled"
      <3>1. call' = [call EXCEPT ![p] = d]
        BY <1>4, <1>t, <2>2 DEF WaiveCash, Calls
      <3> QED BY <1>t, <2>o, <2>s, <2>2, <3>1 DEF Calls
    <2>4. Stage(d)'
      BY <2>s, <2>1, <2>3 DEF Stage
    <2>5. Own(d, o)' = Own(call[p], o)
      BY <2>o, <2>1, <2>3 DEF Own, Units, At
    <2> QED BY <2>o, <2>1, <2>3, <2>4, <2>5, CalmStep
  <1>5. ASSUME RefundInitiate(p) PROVE CalmInv'
    <2>o. PICK o \in Orders : o = call[p].o /\ Stage(call[p]) /\ At(p, "refund")
      BY <1>5, <1>a DEF RefundInitiate, At
    <2>s. /\ call[p].event = NoEvent /\ payment[o] # "pending" /\ refunds[o] = 0
          /\ call[p].path = "cancel" \/ (call[p].path = "finalize" /\ hold[o] = "held")
      BY <2>o DEF Stage, At, Undoing, Unsettled
    <2>1. /\ refunds' = [refunds EXCEPT ![o] = @ + 1] /\ Continue(p, "syncRefund")
          /\ UNCHANGED <<order, payment, gateway, stock, hold, task>>
      <3>1. ~(faults < MaxFaults)
        BY DEF Undisturbed, TypeOK
      <3> QED BY <1>5, <2>o, <3>1 DEF RefundInitiate
    <2>2. refunds'[o] = 1 /\ \A x \in Orders \ {o} : refunds'[x] = refunds[x]
      BY <1>t, <2>s, <2>1
    <2>3. PICK d \in Calls : /\ call' = [call EXCEPT ![p] = d] /\ d.o = o /\ d.event = NoEvent
                             /\ d.at = "syncRefund" /\ d.path = call[p].path
      BY <2>o, <2>s, <2>1, ContinueTyped DEF Steps
    <2>4. Stage(d)'
      BY <2>s, <2>1, <2>2, <2>3 DEF Stage
    <2>5. Own(d, o)' = Own(call[p], o)
      BY <2>o, <2>1, <2>3 DEF Own, Units, At
    <2> QED BY <2>o, <2>1, <2>2, <2>3, <2>4, <2>5, CalmStep
  <1>6. ASSUME SyncRefund(p) PROVE CalmInv'
    <2>o. PICK o \in Orders : o = call[p].o /\ Stage(call[p]) /\ At(p, "syncRefund")
      BY <1>6, <1>a DEF SyncRefund, At
    <2>s. /\ call[p].event = NoEvent /\ refunds[o] = 1
          /\ call[p].path = "cancel" \/ (call[p].path = "finalize" /\ hold[o] = "held")
      BY <2>o DEF Stage, At
    <2>1. /\ UNCHANGED <<gateway, stock, hold, task, refunds>>
          /\ \A x \in Orders \ {o} : order'[x] = order[x] /\ payment'[x] = payment[x]
          /\ payment'[o] = "refunded" /\ order'[o].status = order[o].status
      BY <1>6, <1>t, <2>o DEF SyncRefund
    <2>2. PICK st \in Steps : /\ Continue(p, st)
                              /\ st = IF call[p].path = "cancel" THEN "markCancelled" ELSE "release"
      BY <1>6 DEF SyncRefund, Steps
    <2>3. PICK d \in Calls : /\ call' = [call EXCEPT ![p] = d] /\ d.o = o /\ d.event = NoEvent
                             /\ d.at = st /\ d.path = call[p].path
      BY <2>o, <2>s, <2>2, ContinueTyped
    <2>4. Stage(d)'
      BY <2>s, <2>1, <2>2, <2>3 DEF Stage
    <2>5. Own(d, o)' = Own(call[p], o)
      BY <2>o, <2>1, <2>2, <2>3 DEF Own, Units, At
    <2> QED BY <2>o, <2>1, <2>2, <2>3, <2>4, <2>5, CalmStep
  <1>7. ASSUME MarkCancelled(p) PROVE CalmInv'
    <2>o. PICK o \in Orders : o = call[p].o /\ Stage(call[p]) /\ At(p, "markCancelled")
      BY <1>7, <1>a DEF MarkCancelled, At
    <2>s. /\ call[p].event = NoEvent /\ payment[o] # "pending" /\ refunds[o] <= 1
          /\ gateway[o].captured => refunds[o] = 1
      BY <2>o DEF Stage, At
    <2>1. /\ UNCHANGED <<payment, gateway, stock, hold, task, refunds>>
          /\ \A x \in Orders \ {o} : order'[x] = order[x]
          /\ order'[o].status = "cancelled"
          /\ call' = [call EXCEPT ![p] = Idle]
      BY <1>7, <1>t, <2>o, <2>s DEF MarkCancelled, Return
    <2>2. Settled(o)'
      BY <2>s, <2>1 DEF Settled
    <2>3. Own(Idle, o)' = Own(call[p], o)
      BY <1>t, <2>o, <2>1 DEF Own, Units, At
    <2> QED BY <1>t, <2>o, <2>1, <2>2, <2>3, CalmStep
  <1> QED BY <1>1, <1>2, <1>3, <1>4, <1>5, <1>6, <1>7

LEMMA CancelCalm ==
    ASSUME Undisturbed, TypeOK, TypeOK', EvidenceInv, CalmInv, NEW p \in Procs,
           ReadCancel(p) \/ \E o \in Orders : CancelRequest(p, o)
    PROVE  CalmInv'
  <1>t. /\ call \in [Procs -> Calls] /\ call' \in [Procs -> Calls]
        /\ order \in [Orders -> [status : OrderStatus, paid : PaymentStatus]]
        /\ Idle \in Calls /\ Idle.at = "idle" /\ Idle.event = NoEvent
    BY IdleTyped DEF TypeOK, Idle
  <1>a. ASSUME ~At(p, "idle")
        PROVE  call[p] \in Calls /\ call[p].o \in Orders /\ Stage(call[p])
    BY <1>t, <1>a DEF EvidenceInv, Evidence, At, CalmInv
  <1>1. ASSUME NEW o \in Orders, CancelRequest(p, o) PROVE CalmInv'
    <2>1. PICK d : d = [Idle EXCEPT !.at = "readCancel", !.o = o, !.refund = TRUE]
      OBVIOUS
    <2>2. /\ call' = [call EXCEPT ![p] = d] /\ d \in Calls
          /\ d.at = "readCancel" /\ d.o = o /\ d.event = NoEvent /\ d.refund
      BY <1>1, <1>t, <2>1 DEF CancelRequest, Calls, Steps
    <2>3. /\ At(p, "idle") /\ Quiet(o) /\ Settled(o)
          /\ UNCHANGED <<order, payment, gateway, stock, hold, task, refunds>>
      BY <1>1 DEF CancelRequest, MayStart, Undisturbed, CalmInv
    <2>4. Stage(d)'
      BY <2>2, <2>3 DEF Stage, Settled
    <2>5. Own(d, o)' = Own(call[p], o)
      BY <2>2, <2>3 DEF Own, Units, At
    <2> QED BY <2>2, <2>3, <2>4, <2>5, CalmStep
  <1>2. ASSUME ReadCancel(p) PROVE CalmInv'
    <2>o. PICK o \in Orders : o = call[p].o /\ Stage(call[p]) /\ At(p, "readCancel")
      BY <1>2, <1>a DEF ReadCancel, At
    <2>s. call[p].event = NoEvent /\ call[p].refund /\ Settled(o)
      BY <2>o DEF Stage, At
    <2>1. UNCHANGED <<order, payment, gateway, stock, hold, task, refunds>>
      BY <1>2 DEF ReadCancel
    <2>2. CASE order[o].status = "confirmed"
      <3>1. PICK d : d = [call[p] EXCEPT !.at = "restore", !.path = "cancel",
                                         !.paid = order[o].paid, !.todo = Basket[o]]
        OBVIOUS
      <3>2. call' = [call EXCEPT ![p] = d]
        BY <1>2, <1>t, <2>o, <2>2, <3>1 DEF ReadCancel, Calls, Cancellable
      <3>3. /\ d \in Calls /\ d.at = "restore" /\ d.o = o /\ d.path = "cancel" /\ d.refund
            /\ d.event = NoEvent /\ d.paid = order[o].paid /\ d.todo = Basket[o]
        BY <1>t, <2>o, <2>s, <3>1, <3>2 DEF Calls
      <3>4. Stage(d)'
        BY <2>s, <2>1, <2>2, <3>3 DEF Stage, Settled, Undoing, Known
      <3>5. Own(d, o)' = Own(call[p], o)
        BY <2>o, <2>1, <2>2, <3>3 DEF Own, Units, At
      <3> QED BY <2>o, <2>1, <3>2, <3>3, <3>4, <3>5, CalmStep
    <2>3. CASE order[o].status # "confirmed"
      <3>1. call' = [call EXCEPT ![p] = Idle]
        BY <1>2, <2>o, <2>s, <2>3 DEF ReadCancel, Settled, Cancellable, Return
      <3>2. Settled(o)' /\ Own(Idle, o)' = Own(call[p], o)
        BY <1>t, <2>o, <2>s, <2>1 DEF Settled, Own, At
      <3> QED BY <1>t, <2>o, <2>1, <3>1, <3>2, CalmStep
    <2> QED BY <2>2, <2>3
  <1> QED BY <1>1, <1>2

\* The steps that need a webhook, a pending payment, a lapsing hold or a fault
\* do not happen; a hold that has lapsed is nobody's.
LEMMA NextCalmInv ==
    ASSUME Undisturbed, TypeOK, TypeOK', EvidenceInv, CalmInv, [Next]_vars
    PROVE  CalmInv'
  <1>1. ASSUME NEW p \in Procs, Step(p) \/ Crash(p) \/ \E o \in Orders : Start(p, o)
        PROVE  CalmInv'
    <2>1. ~Crash(p)
      BY DEF Crash, Undisturbed, TypeOK
    <2>2. \A o \in Orders : ~ReconcileFind(p, o)
      BY DEF ReconcileFind, MayStart, Undisturbed, CalmInv, Settled
    <2>3. \A o \in Orders, e \in Events : ~WebhookArrives(p, o, e)
      BY DEF WebhookArrives, Undisturbed
    <2>4. ~At(p, "idle") => Stage(call[p])
      BY DEF CalmInv
    <2>5. /\ ~ConfirmSuccessRead(p) /\ ~ConfirmSuccessSave(p) /\ ~ConfirmPayment(p)
          /\ ~MarkFailed(p) /\ ~SaveFailed(p) /\ ~ReconcileFetch(p) /\ ~FinishEvent(p)
      BY <2>4 DEF Stage, At, ConfirmSuccessRead, ConfirmSuccessSave, ConfirmPayment,
                  MarkFailed, SaveFailed, ReconcileFetch, FinishEvent
    <2> QED
      BY <1>1, <2>1, <2>2, <2>3, <2>5, CheckoutCalm, FinalizeCalm, CompensateCalm, CancelCalm
      DEF Step, Start
  <1>2. ASSUME NEW o \in Orders, Environment(o) PROVE CalmInv'
    <2>1. HoldSwept(o)
      BY <1>2 DEF Environment, CustomerPays, AttemptFails, HoldLapses, Undisturbed
    <2>2. /\ UNCHANGED <<order, payment, gateway, stock, task, refunds, call>>
          /\ hold[o] = "lapsed" /\ \A x \in Orders \ {o} : hold'[x] = hold[x]
      BY <2>1 DEF HoldSwept, TypeOK
    <2>3. \A x \in Orders : hold[x] = "held" => hold'[x] = "held"
      BY <2>2
    <2>4. ASSUME NEW x \in Orders, Settled(x) PROVE Settled(x)'
      BY <2>2, <2>3, <2>4 DEF Settled
    <2>5. ASSUME NEW p \in Procs, ~At(p, "idle") PROVE Stage(call[p])'
      <3>1. call[p].o \in Orders /\ Stage(call[p])
        BY <2>5 DEF EvidenceInv, Evidence, At, CalmInv
      <3> QED BY <2>2, <2>3, <2>4, <3>1 DEF Stage, Settled, Unsettled, Known, Undoing
    <2>6. Solo' /\ \A x \in Orders : Quiet(x) => Quiet(x)'
      BY <2>2 DEF CalmInv, Solo, Quiet
    <2>7. StockInv'
      BY <2>2 DEF CalmInv, StockInv, Takers, Taken, Units, At
    <2> QED BY <2>2, <2>4, <2>5, <2>6, <2>7 DEF CalmInv, At, Quiet
  <1>3. CASE UNCHANGED vars
    BY <1>3
    DEF vars, CalmInv, Solo, Stage, Settled, Unsettled, Known, Undoing, Quiet, At,
        StockInv, Takers, Taken, Units
  <1> QED BY <1>1, <1>2, <1>3 DEF Next

LEMMA CalmInvHolds == ASSUME Undisturbed PROVE Spec => []CalmInv
  <1>1. Init => CalmInv
    BY InitCalmInv
  <1>2. SagaInv /\ SagaInv' /\ CalmInv /\ [Next]_vars => CalmInv'
    BY NextCalmInv DEF SagaInv
  <1> QED BY <1>1, <1>2, SagaInvHolds, PTL DEF Spec

\* Where checkouts charge in the request and nothing fails or overlaps: whatever
\* is declined, sold out, confirmed or cancelled, once nothing is in flight the
\* stock is what the confirmed orders left of it.
THEOREM SagaStockConserved == ASSUME Undisturbed PROVE Spec => []StockConserved
  <1>1. CalmInv => StockConserved
    <2>1. SUFFICES ASSUME CalmInv, \A o \in Orders : Quiet(o), NEW l \in Listings
                   PROVE  stock[l] + Cardinality({o \in Orders : order[o].status = "confirmed" /\ l \in Basket[o]})
                              = InitialStock
      BY DEF StockConserved
    <2>2. Takers(l) = {o \in Orders : order[o].status = "confirmed" /\ l \in Basket[o]}
      BY <2>1 DEF Takers, Taken, Quiet
    <2> QED BY <2>1, <2>2 DEF CalmInv, StockInv
  <1> QED BY <1>1, CalmInvHolds, PTL

\* There too, no order is refunded twice, and a cancelled order whose money was
\* captured has been refunded.
THEOREM SagaCancelledIsRefunded == ASSUME Undisturbed PROVE Spec => []CancelledIsRefunded
  <1>1. SagaInv /\ CalmInv => CancelledIsRefunded
    <2>1. SUFFICES ASSUME SagaInv, CalmInv, NEW o \in Orders
                   PROVE  /\ refunds[o] <= 1
                          /\ Quiet(o) /\ order[o].status = "cancelled" /\ gateway[o].captured
                                 => refunds[o] = 1
      BY DEF CancelledIsRefunded
    <2>2. CASE Quiet(o)
      BY <2>1, <2>2 DEF CalmInv, Settled
    <2>3. CASE ~Quiet(o)
      <3>1. PICK p \in Procs : call[p].o = o
        BY <2>3 DEF Quiet
      <3>2. ~At(p, "idle")
        BY <2>1, <3>1, SagaAssumption DEF SagaInv, EvidenceInv, Evidence, At
      <3>3. Stage(call[p])
        BY <2>1, <3>2 DEF CalmInv
      <3> QED BY <2>3, <3>1, <3>3 DEF Stage, Settled, Unsettled, Undoing
    <2> QED BY <2>2, <2>3
  <1> QED BY <1>1, SagaInvHolds, CalmInvHolds, PTL
=============================================================================

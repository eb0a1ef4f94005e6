--------------------------- MODULE AftersalesProofs ---------------------------
(***************************************************************************)
(* Proofs about Aftersales, for any number of units, retries, failures,    *)
(* refused refunds, calls that overlap and calls that die.                 *)
(***************************************************************************)
EXTENDS Aftersales, SumProofs

OrderStates == {"packed", "out", "failed", "delivered", "cancelled", "approved", "picked",
                "passed", "rejected", "refunded"}
PaymentStates == {"awaiting", "success", "failed", "partial", "refunded"}
ReturnStates == {"approved", "picked", "passed", "rejected", "refunded"}
Undelivered == {"packed", "out", "failed", "delivered"}

Settled == payment.status # "awaiting"

\* The steps of a call at which the cash is no longer awaited.
Past == {"journal", "summary", "sync", "syncAgain", "force", "pod", "podSave", "deliver",
         "waivePost", "syncOrder", "retCreate", "retSave", "mirror", "returned"}

SettledOk ==
    /\ order.summary # "awaiting" => Settled
    /\ WasDelivered => Settled
    /\ rets # <<>> => Settled
    /\ \A p \in Procs : call[p].at # "idle" /\ call[p].order.summary # "awaiting" => Settled
    /\ \A p \in Procs : call[p].at \in Past => Settled

Paid == payment.method = "prepaid" \/ payment.collected

Cleared == "collected" \in books <=> payment.collected

Sums(n) == Refunded = n /\ MovedBack = n /\ payment.refunded = n /\ order.refunded = n

\* An order that was not returned, cancelled or delivered and taken back.
Open ==
    /\ order.status \in Undelivered /\ rets = <<>> /\ returned = 0 /\ Sums(0)
    /\ order.summary = payment.status /\ payment.status \in {"awaiting", "success"}
    /\ IF Settled THEN Paid ELSE ~Paid
    /\ "waived" \notin books

Gone ==
    /\ order.status = "cancelled" /\ rets = <<>> /\ returned = 0 /\ Settled
    /\ Sums(IF Paid THEN Units ELSE 0)
    /\ "waived" \in books => ~payment.collected

\* A return under way: nothing is refunded yet.
Sent ==
    /\ Len(rets) = 1 /\ rets[1].qty \in 1..Units /\ returned = 0
    /\ Settled /\ Paid /\ "waived" \notin books

Back ==
    /\ Len(rets) = 1 /\ rets[1].qty \in 1..Units /\ rets[1].status = order.status
    /\ order.status \in ReturnStates
    /\ returned = IF order.status = "refunded" THEN rets[1].qty ELSE 0
    /\ Sums(returned)
    /\ Settled /\ Paid /\ "waived" \notin books

Whole == Cleared /\ (Open \/ Gone \/ Back)

\* Steps that find the order whole, and those at which a copy is up to date.
Plain == {"assign", "leave", "leg", "read", "claim", "sync", "syncAgain", "force", "pod",
          "podSave", "deliver", "deposit", "depositPost", "failAsg", "retries", "failOrder",
          "cancelRead", "waive", "row", "move", "retCreate"}
Fresh == {"leave", "leg", "read", "claim", "journal", "summary", "sync", "syncAgain", "force",
          "pod", "podSave", "deliver", "failAsg", "retries", "failOrder"}

OrderType == [status : OrderStates, summary : PaymentStates, retries : 0..MaxFails, refunded : Int]
CopyType == [status : OrderStates, summary : PaymentStates \cup {"none"}, retries : 0..MaxFails,
             refunded : Int]
PaymentType == [method : {"cash", "prepaid"}, status : PaymentStates, collected : BOOLEAN,
                deposited : BOOLEAN, refunded : Int]
AssignmentStates == {"none", "offered", "accepted", "hub", "transit", "arrived", "failed",
                     "delivered"}
ReturnType == [status : ReturnStates, qty : Nat]
RowType == [status : {"pending", "success", "failed"}, amount : Int, moved : BOOLEAN]

Returning == {"instant", "ask", "pickup", "pass", "reject"}
Legs == {"offered", "accepted", "hub", "transit"}
Handlers == Returning \cup Legs \cup {"none", "dispatch", "collect", "complete", "deliver",
            "deposit", "riderFail", "opsFail", "cancel"}
Steps == Plain \cup {"idle", "journal", "summary", "waivePost", "cancel", "rowSave",
         "syncPayment", "syncOrder", "retSave", "mirror", "returned"}

CallType == [at : Steps, does : Handlers, order : CopyType, n : Nat, amount : Int, row : Nat]

\* What a step takes for granted of its call.
CallOk(p) ==
    LET c == call[p] IN
    /\ c.at # "idle" => c.order.summary # "none"
    /\ c.at = "leg" => c.does \in Legs
    /\ c.at \in {"failAsg", "retries"} => c.order.retries < MaxFails
    /\ c.at \in {"move", "rowSave"} => c.row \in DOMAIN rows
    /\ c.at \in {"row", "move", "rowSave", "syncPayment", "syncOrder"} =>
          c.does \in {"cancel", "instant", "pass"}
    /\ c.at \in {"retCreate", "retSave", "mirror", "returned"} => c.does \in Returning
    /\ c.at # "idle" /\ c.does \in Returning =>
          c.amount \in Nat /\ (c.at # "retCreate" => c.n \in DOMAIN rets)

Typed ==
    /\ order \in OrderType /\ asg \in AssignmentStates /\ payment \in PaymentType
    /\ books \subseteq {"collected", "waived", "deposited"}
    /\ rets \in Seq(ReturnType) /\ returned \in Nat /\ rows \in Seq(RowType)
    /\ call \in [Procs -> CallType] /\ calm \in BOOLEAN
    /\ \A p \in Procs : CallOk(p)

\* Cash was just taken, and the order does not know yet.
Taken ==
    /\ order.status \in Undelivered /\ rets = <<>> /\ returned = 0 /\ Sums(0)
    /\ order.summary = "awaiting" /\ payment.status = "success" /\ payment.collected
    /\ "waived" \notin books

Waiving ==
    /\ order.status \in Cancellable /\ rets = <<>> /\ returned = 0 /\ Sums(0)
    /\ Settled /\ ~Paid /\ Cleared

Cancelling ==
    /\ order.status \in Cancellable /\ rets = <<>> /\ returned = 0
    /\ Settled /\ Cleared /\ Sums(IF Paid THEN Units ELSE 0)
    /\ "waived" \in books => ~payment.collected

\* What a refund is for: a cancelled order or a return.
Cause(c) ==
    /\ Settled /\ Paid /\ Cleared /\ "waived" \notin books /\ returned = 0
    /\ \/ c.does = "cancel" /\ order.status \in Cancellable /\ rets = <<>> /\ c.amount = Units
       \/ /\ c.does \in {"instant", "pass"} /\ Sent
          /\ c.n = 1 /\ c.amount = rets[1].qty
          /\ order.status = rets[1].status /\ order.status \in {"approved", "passed"}

Row(c) == c.row \in DOMAIN rows /\ rows[c.row].amount = c.amount /\ rows[c.row].status = "pending"

\* The status that syncOrderStatus gives the order.
Mirrored(p) ==
    IF Does(p, {"pickup", "pass", "reject"}) \/ call[p].row # 0 THEN NextReturn(p) ELSE "approved"

Stage(p) ==
    LET c == call[p] IN
    /\ c.at \in Plain => Whole
    /\ c.at \in Fresh \/ (c.at = "assign" /\ c.does = "dispatch") => c.order.status = order.status
    /\ c.at = "claim" => Open /\ ~Settled
    /\ c.at = "journal" => Taken
    /\ c.at = "summary" => Taken /\ Cleared
    /\ c.at = "waive" => Open /\ ~Settled /\ order.status \in Cancellable
    /\ c.at = "waivePost" => Waiving
    /\ c.at = "cancel" => Cancelling
    /\ c.at \in {"row", "move", "rowSave", "syncPayment", "syncOrder"} => Cause(c)
    /\ c.at \in {"row", "move"} => Sums(0)
    /\ c.at = "move" => Row(c) /\ ~rows[c.row].moved
    /\ c.at = "rowSave" =>
          /\ Row(c) /\ rows[c.row].moved
          /\ Refunded = 0 /\ MovedBack = c.amount /\ payment.refunded = 0 /\ order.refunded = 0
    /\ c.at = "syncPayment" =>
          c.row # 0 /\ Refunded = c.amount /\ MovedBack = c.amount
    /\ c.at = "syncOrder" =>
          /\ c.row # 0 /\ c.order.refunded = c.amount
          /\ Refunded = c.amount /\ MovedBack = c.amount /\ payment.refunded = c.amount
    /\ c.at = "retCreate" =>
          order.status = "delivered" /\ c.amount \in 1..Units /\ c.does \in {"instant", "ask"} /\ c.row = 0
    /\ c.at \in {"retSave", "mirror", "returned"} => Sent /\ Cleared /\ c.n = 1 /\ c.amount = rets[1].qty
    /\ c.at \in {"retSave", "mirror"} /\ c.row = 0 => Sums(0)
    /\ c.at = "retSave" /\ c.row = 0 =>
          order.status = rets[1].status
          /\ IF c.does = "pickup" THEN order.status = "approved"
             ELSE c.does \in {"pass", "reject"} /\ order.status = "picked"
    /\ c.at \in {"retSave", "mirror", "returned"} /\ c.row # 0 =>
          Sums(c.amount) /\ c.does \in {"instant", "pass"}
    /\ c.at = "mirror" => rets[1].status = Mirrored(p)
    /\ c.at = "returned" => c.row # 0 /\ order.status = "refunded" /\ rets[1].status = "refunded"

CalmOk ==
    calm =>
        /\ \A p, q \in Procs : p # q => At(p, "idle") \/ At(q, "idle")
        /\ Running = {} => Whole
        /\ \A p \in Running : Stage(p)

AftersalesInv == Typed /\ SettledOk /\ CalmOk

-----------------------------------------------------------------------------
(* Sums over the refund rows. *)

LEMMA RowsFinite ==
    ASSUME NEW s \in Seq(RowType)
    PROVE  /\ DOMAIN s = 1 .. Len(s) /\ Len(s) \in Nat /\ IsFiniteSet(DOMAIN s)
           /\ \A i \in DOMAIN s : s[i] \in RowType /\ s[i].amount \in Int
  <1> DEFINE T == RowType
  <1>1. DOMAIN s = 1 .. Len(s) /\ Len(s) \in Nat /\ \A i \in DOMAIN s : s[i] \in T
    <2> HIDE DEF T
    <2> QED BY DEF T
  <1>2. IsFiniteSet(1 .. Len(s))
    <2>1. 1 \in Int /\ Len(s) \in Int
      BY <1>1
    <2> QED BY <2>1, FS_Interval
  <1> QED BY <1>1, <1>2 DEF RowType

\* A function that changes at one place changes its sum by the difference.
LEMMA SumMoves ==
    ASSUME NEW D, IsFiniteSet(D), NEW f, NEW g, NEW k \in D,
           DOMAIN f = D, DOMAIN g = D, \A i \in D : f[i] \in Int /\ g[i] \in Int,
           \A i \in D \ {k} : g[i] = f[i]
    PROVE  SumFunction(g) = SumFunction(f) - f[k] + g[k] /\ SumFunction(f) \in Int
  <1>1. SumFunctionOnSet(f, D) = f[k] + SumFunctionOnSet(f, D \ {k})
    BY SumTake
  <1>2. SumFunctionOnSet(g, D) = g[k] + SumFunctionOnSet(g, D \ {k})
    BY SumTake
  <1>3. IsFiniteSet(D \ {k})
    BY FS_Subset
  <1>4. SumFunctionOnSet(g, D \ {k}) = SumFunctionOnSet(f, D \ {k})
    BY <1>3, SumSame DEF SameOn
  <1>5. SumFunctionOnSet(f, D \ {k}) \in Int
    BY <1>3, SumInt
  <1> QED BY <1>1, <1>2, <1>4, <1>5 DEF SumFunction

LEMMA SumGrows ==
    ASSUME NEW D, IsFiniteSet(D), NEW f, NEW g, NEW k, k \notin D,
           DOMAIN f = D, DOMAIN g = D \cup {k}, \A i \in D : f[i] \in Int /\ g[i] = f[i],
           g[k] = 0
    PROVE  SumFunction(g) = SumFunction(f)
  <1> DEFINE E == D \cup {k}
  <1>1. IsFiniteSet(E) /\ k \in E /\ E \ {k} = D /\ \A i \in E : g[i] \in Int
    <2>1. IsFiniteSet({k})
      BY FS_Singleton
    <2>2. IsFiniteSet(E)
      BY <2>1, FS_Union
    <2>3. g[k] \in Int
      OBVIOUS
    <2> QED BY <2>2, <2>3
  <1>2. SumFunctionOnSet(g, E) = g[k] + SumFunctionOnSet(g, E \ {k})
    <2> HIDE DEF E
    <2> QED BY <1>1, SumTake
  <1>3. SumFunctionOnSet(g, D) = SumFunctionOnSet(f, D) /\ SumFunctionOnSet(f, D) \in Int
    BY SumSame, SumInt DEF SameOn
  <1> QED BY <1>1, <1>2, <1>3 DEF SumFunction

GoneBack(row) == IF row.status = "success" THEN row.amount ELSE 0
Moved(row) == IF row.moved THEN row.amount ELSE 0

LEMMA RowsKept ==
    ASSUME rows' = rows
    PROVE  Refunded' = Refunded /\ MovedBack' = MovedBack
  BY DEF Refunded, MovedBack

LEMMA RowsInt ==
    ASSUME rows \in Seq(RowType)
    PROVE  Refunded \in Int /\ MovedBack \in Int
  <1> DEFINE f == [n \in DOMAIN rows |-> IF rows[n].status = "success" THEN rows[n].amount ELSE 0]
             g == [n \in DOMAIN rows |-> IF rows[n].moved THEN rows[n].amount ELSE 0]
  <1>1. IsFiniteSet(DOMAIN rows) /\ DOMAIN f = DOMAIN rows /\ DOMAIN g = DOMAIN rows
        /\ \A n \in DOMAIN rows : f[n] \in Int /\ g[n] \in Int
    BY RowsFinite
  <1> HIDE DEF f, g
  <1>2. SumFunctionOnSet(f, DOMAIN rows) \in Int /\ SumFunctionOnSet(g, DOMAIN rows) \in Int
    BY <1>1, SumInt
  <1> QED BY <1>1, <1>2 DEF f, g, Refunded, MovedBack, SumFunction

LEMMA RowAdded ==
    ASSUME rows \in Seq(RowType), NEW r \in RowType, r.status = "pending", ~r.moved,
           rows' = Append(rows, r)
    PROVE  /\ Refunded' = Refunded /\ MovedBack' = MovedBack
           /\ rows' \in Seq(RowType) /\ DOMAIN rows \subseteq DOMAIN rows'
           /\ Len(rows) + 1 \in DOMAIN rows' /\ rows'[Len(rows) + 1] = r
  <1> DEFINE T == RowType
             f == [n \in DOMAIN rows |-> GoneBack(rows[n])]
             g == [n \in DOMAIN rows' |-> GoneBack(rows'[n])]
             h == [n \in DOMAIN rows |-> Moved(rows[n])]
             e == [n \in DOMAIN rows' |-> Moved(rows'[n])]
             k == Len(rows) + 1
  <1>1. rows' \in Seq(T) /\ DOMAIN rows' = DOMAIN rows \cup {k} /\ k \notin DOMAIN rows
        /\ rows'[k] = r /\ \A n \in DOMAIN rows : rows'[n] = rows[n]
    <2> HIDE DEF T
    <2> QED BY DEF T
  <1>2. IsFiniteSet(DOMAIN rows) /\ \A n \in DOMAIN rows : f[n] \in Int /\ h[n] \in Int
    BY RowsFinite DEF GoneBack, Moved
  <1>3. DOMAIN f = DOMAIN rows /\ DOMAIN h = DOMAIN rows
        /\ DOMAIN g = DOMAIN rows \cup {k} /\ DOMAIN e = DOMAIN rows \cup {k}
        /\ g[k] = 0 /\ e[k] = 0
        /\ \A n \in DOMAIN rows : g[n] = f[n] /\ e[n] = h[n]
    BY <1>1 DEF GoneBack, Moved
  <1>4. /\ Refunded = SumFunction(f) /\ Refunded' = SumFunction(g)
        /\ MovedBack = SumFunction(h) /\ MovedBack' = SumFunction(e)
    BY DEF Refunded, MovedBack, GoneBack, Moved
  <1> HIDE DEF f, g, h, e, k
  <1>5. SumFunction(g) = SumFunction(f) /\ SumFunction(e) = SumFunction(h)
    BY <1>1, <1>2, <1>3, SumGrows
  <1> QED BY <1>1, <1>4, <1>5 DEF k

LEMMA RowWritten ==
    ASSUME rows \in Seq(RowType), NEW k \in DOMAIN rows, NEW r \in RowType,
           rows' = [rows EXCEPT ![k] = r]
    PROVE  /\ Refunded' = Refunded - GoneBack(rows[k]) + GoneBack(r)
           /\ MovedBack' = MovedBack - Moved(rows[k]) + Moved(r)
           /\ rows' \in Seq(RowType) /\ DOMAIN rows' = DOMAIN rows /\ rows'[k] = r
  <1> DEFINE T == RowType
             D == DOMAIN rows
             f == [n \in D |-> GoneBack(rows[n])]
             g == [n \in D |-> GoneBack(rows'[n])]
             h == [n \in D |-> Moved(rows[n])]
             e == [n \in D |-> Moved(rows'[n])]
  <1>1. rows' \in Seq(T) /\ DOMAIN rows' = D /\ rows'[k] = r
        /\ \A n \in D \ {k} : rows'[n] = rows[n]
    <2> HIDE DEF T
    <2> QED BY DEF T
  <1>2. IsFiniteSet(D) /\ \A n \in D : f[n] \in Int /\ h[n] \in Int
    BY RowsFinite DEF GoneBack, Moved
  <1>3. g[k] = GoneBack(r) /\ e[k] = Moved(r) /\ g[k] \in Int /\ e[k] \in Int
    BY <1>1 DEF GoneBack, Moved, RowType
  <1>4. \A n \in D \ {k} : g[n] = f[n] /\ e[n] = h[n]
    BY <1>1
  <1>5. \A n \in D : g[n] \in Int /\ e[n] \in Int
    BY <1>2, <1>3, <1>4
  <1>6. /\ Refunded = SumFunction(f) /\ Refunded' = SumFunction(g)
        /\ MovedBack = SumFunction(h) /\ MovedBack' = SumFunction(e)
    BY <1>1 DEF Refunded, MovedBack, GoneBack, Moved
  <1>7. f[k] = GoneBack(rows[k]) /\ h[k] = Moved(rows[k])
    OBVIOUS
  <1>8. DOMAIN f = D /\ DOMAIN g = D /\ DOMAIN h = D /\ DOMAIN e = D /\ k \in D
    OBVIOUS
  <1> HIDE DEF f, g, h, e, D
  <1>9. SumFunction(g) = SumFunction(f) - f[k] + g[k]
    <2>1. IsFiniteSet(D) /\ k \in D /\ DOMAIN f = D /\ DOMAIN g = D
          /\ (\A n \in D : f[n] \in Int /\ g[n] \in Int) /\ \A n \in D \ {k} : g[n] = f[n]
      BY <1>2, <1>4, <1>5, <1>8
    <2> QED BY <2>1, SumMoves
  <1>10. SumFunction(e) = SumFunction(h) - h[k] + e[k]
    <2>1. IsFiniteSet(D) /\ k \in D /\ DOMAIN h = D /\ DOMAIN e = D
          /\ (\A n \in D : h[n] \in Int /\ e[n] \in Int) /\ \A n \in D \ {k} : e[n] = h[n]
      BY <1>2, <1>4, <1>5, <1>8
    <2> QED BY <2>1, SumMoves
  <1> QED BY <1>1, <1>3, <1>6, <1>7, <1>9, <1>10 DEF D

-----------------------------------------------------------------------------
(* How a call moves. *)

LEMMA IdleTyped == Idle \in CallType /\ Idle.at = "idle" /\ Idle.order.summary = "none"
  <1>1. 0 \in 0..MaxFails
    BY AftersalesAssumption
  <1>2. [status |-> "packed", summary |-> "none", retries |-> 0, refunded |-> 0] \in CopyType
    BY <1>1 DEF CopyType, OrderStates
  <1> QED BY <1>2 DEF Idle, CallType, Steps, Handlers

LEMMA Continues ==
    ASSUME call \in [Procs -> CallType], NEW p \in Procs, NEW step \in Steps, Continue(p, step)
    PROVE  /\ call' \in [Procs -> CallType]
           /\ \A q \in Procs \ {p} : call'[q] = call[q]
           /\ call'[p].at = step /\ call'[p].does = call[p].does
           /\ call'[p].order = call[p].order /\ call'[p].n = call[p].n
           /\ call'[p].amount = call[p].amount /\ call'[p].row = call[p].row
  <1>1. PICK d : d = [call[p] EXCEPT !.at = step]
    OBVIOUS
  <1>2. call[p] \in CallType
    OBVIOUS
  <1>3. d \in CallType
    BY <1>1, <1>2 DEF CallType
  <1>4. d.at = step /\ d.does = call[p].does /\ d.order = call[p].order /\ d.n = call[p].n
        /\ d.amount = call[p].amount /\ d.row = call[p].row
    BY <1>1, <1>2 DEF CallType
  <1>5. call' = [call EXCEPT ![p] = d]
    BY <1>1 DEF Continue
  <1> QED BY <1>3, <1>4, <1>5

LEMMA Returns ==
    ASSUME call \in [Procs -> CallType], NEW p \in Procs, Return(p)
    PROVE  /\ call' \in [Procs -> CallType]
           /\ \A q \in Procs \ {p} : call'[q] = call[q]
           /\ call'[p] = Idle /\ call'[p].at = "idle"
           /\ call'[p].order.summary = "none" /\ call'[p].does = "none"
  <1>1. Idle.does = "none"
    BY DEF Idle
  <1> QED BY <1>1, IdleTyped DEF Return

LEMMA Begins ==
    ASSUME call \in [Procs -> CallType], order \in OrderType, NEW p \in Procs,
           NEW step \in Steps, NEW does \in Handlers, NEW n \in Nat, NEW amount \in Int,
           BeginOn(p, step, does, n, amount)
    PROVE  /\ call' \in [Procs -> CallType]
           /\ \A q \in Procs \ {p} : call'[q] = call[q]
           /\ call[p].at = "idle"
           /\ call'[p].at = step /\ call'[p].does = does /\ call'[p].order = order
           /\ call'[p].n = n /\ call'[p].amount = amount /\ call'[p].row = 0
           /\ calm' = (calm /\ Running = {})
  <1> DEFINE d == [at |-> step, does |-> does, order |-> order, n |-> n, amount |-> amount,
                   row |-> 0]
  <1>1. order \in CopyType
    BY DEF OrderType, CopyType
  <1>2. d \in CallType
    <2> HIDE DEF CopyType
    <2> QED BY <1>1 DEF CallType
  <1>3. call' = [call EXCEPT ![p] = d]
    BY DEF BeginOn
  <1>4. d.at = step /\ d.does = does /\ d.order = order /\ d.n = n /\ d.amount = amount
        /\ d.row = 0
    OBVIOUS
  <1> HIDE DEF d
  <1> QED BY <1>2, <1>3, <1>4 DEF BeginOn, At

-----------------------------------------------------------------------------
(* What a step has to show for each part of the invariant. *)

LEMMA TypeParts ==
    ASSUME Typed
    PROVE  /\ order \in OrderType
           /\ order.status \in OrderStates /\ order.summary \in PaymentStates
           /\ order.retries \in 0..MaxFails /\ order.refunded \in Int
           /\ payment \in PaymentType
           /\ payment.status \in PaymentStates /\ payment.collected \in BOOLEAN
           /\ payment.method \in {"cash", "prepaid"} /\ payment.refunded \in Int
           /\ call \in [Procs -> CallType]
           /\ \A p \in Procs : call[p] \in CallType /\ CallOk(p)
           /\ \A i \in DOMAIN rets : rets[i] \in ReturnType /\ rets[i].qty \in Nat
           /\ \A i \in DOMAIN rows : rows[i] \in RowType
           /\ Refunded \in Int /\ MovedBack \in Int
  <1>1. \A i \in DOMAIN rets : rets[i] \in ReturnType
    <2> DEFINE T == ReturnType
    <2>1. rets \in Seq(T)
      BY DEF Typed
    <2> HIDE DEF T
    <2>2. \A i \in DOMAIN rets : rets[i] \in T
      BY <2>1
    <2> QED BY <2>2 DEF T
  <1>2. \A i \in DOMAIN rows : rows[i] \in RowType
    BY RowsFinite DEF Typed
  <1>3. Refunded \in Int /\ MovedBack \in Int
    BY RowsInt DEF Typed
  <1> QED BY <1>1, <1>2, <1>3 DEF Typed, OrderType, PaymentType, ReturnType

LEMMA CallParts ==
    ASSUME Typed, NEW p \in Procs
    PROVE  /\ call[p].at \in Steps /\ call[p].does \in Handlers /\ call[p].order \in CopyType
           /\ call[p].order.status \in OrderStates
           /\ call[p].n \in Nat /\ call[p].amount \in Int /\ call[p].row \in Nat
           /\ call[p].order.retries \in 0..MaxFails /\ call[p].order.refunded \in Int
           /\ CallOk(p)
  <1>1. call[p] \in CallType /\ CallOk(p)
    BY TypeParts
  <1>2. call[p].order \in CopyType
    BY <1>1 DEF CallType
  <1> QED BY <1>1, <1>2 DEF CallType, CopyType

LEMMA TypeStep ==
    ASSUME Typed, NEW p \in Procs, call' \in [Procs -> CallType],
           \A q \in Procs \ {p} : call'[q] = call[q],
           order' \in OrderType, asg' \in AssignmentStates, payment' \in PaymentType,
           books' \subseteq {"collected", "waived", "deposited"},
           rets' \in Seq(ReturnType), returned' \in Nat, rows' \in Seq(RowType),
           calm' \in BOOLEAN, DOMAIN rets \subseteq DOMAIN rets', DOMAIN rows \subseteq DOMAIN rows',
           CallOk(p)'
    PROVE  Typed'
  <1>1. ASSUME NEW q \in Procs PROVE CallOk(q)'
    <2>1. CASE q = p
      BY <2>1
    <2>2. CASE q # p
      <3>1. call'[q] = call[q] /\ CallOk(q)
        BY <2>2 DEF Typed
      <3> QED BY <3>1 DEF CallOk
    <2> QED BY <2>1, <2>2
  <1> QED BY <1>1 DEF Typed

\* Nothing that shows the cash to be settled comes before it is.
LEMMA SettledStep ==
    ASSUME SettledOk, NEW p \in Procs, \A q \in Procs \ {p} : call'[q] = call[q],
           Settled => Settled',
           ~Settled => \/ Settled'
                       \/ /\ order'.summary = "awaiting" /\ ~WasDelivered' /\ rets' = <<>>
                          /\ call'[p].at # "idle" => call'[p].order.summary = "awaiting"
                          /\ call'[p].at \notin Past
    PROVE  SettledOk'
  <1>1. CASE Settled'
    BY <1>1 DEF SettledOk
  <1>2. CASE ~Settled'
    <2>1. ~Settled
      BY <1>2
    <2>2. /\ order'.summary = "awaiting" /\ ~WasDelivered' /\ rets' = <<>>
          /\ call'[p].at # "idle" => call'[p].order.summary = "awaiting"
          /\ call'[p].at \notin Past
      BY <1>2, <2>1
    <2>3. \A q \in Procs \ {p} :
            /\ call'[q].at # "idle" => call'[q].order.summary = "awaiting"
            /\ call'[q].at \notin Past
      BY <2>1 DEF SettledOk
    <2> QED BY <2>2, <2>3 DEF SettledOk
  <1> QED BY <1>1, <1>2

\* While calls come one at a time, the one that runs has the order to itself.
LEMMA CalmStep ==
    ASSUME CalmOk, NEW p \in Procs, \A q \in Procs \ {p} : call'[q] = call[q],
           calm' => calm /\ \A q \in Procs \ {p} : call[q].at = "idle",
           calm' /\ call'[p].at = "idle" => Whole',
           calm' /\ call'[p].at # "idle" => Stage(p)'
    PROVE  CalmOk'
  <1> SUFFICES ASSUME calm'
               PROVE  /\ \A r, q \in Procs : r # q => At(r, "idle")' \/ At(q, "idle")'
                      /\ (Running = {})' => Whole'
                      /\ \A r \in Running' : Stage(r)'
    BY DEF CalmOk
  <1>1. \A q \in Procs \ {p} : call'[q].at = "idle"
    OBVIOUS
  <1>2. \A r, q \in Procs : r # q => At(r, "idle")' \/ At(q, "idle")'
    BY <1>1 DEF At
  <1>3. (Running = {})' => Whole'
    BY DEF Running
  <1>4. \A r \in Running' : r = p /\ Stage(r)'
    BY <1>1 DEF Running
  <1> QED BY <1>2, <1>3, <1>4

LEMMA CalmParts ==
    ASSUME CalmOk, calm, NEW p \in Procs
    PROVE  /\ call[p].at # "idle" => Stage(p) /\ \A q \in Procs \ {p} : call[q].at = "idle"
           /\ Running = {} => Whole /\ \A q \in Procs : call[q].at = "idle"
  BY DEF CalmOk, Running, At

\* What a step leaves alone of what the sums and the states are about.
Frozen ==
    /\ rows' = rows /\ rets' = rets /\ returned' = returned
    /\ order'.status = order.status /\ order'.summary = order.summary
    /\ order'.refunded = order.refunded
    /\ payment'.method = payment.method /\ payment'.status = payment.status
    /\ payment'.collected = payment.collected /\ payment'.refunded = payment.refunded
    /\ "collected" \in books' <=> "collected" \in books
    /\ "waived" \in books' <=> "waived" \in books

LEMMA FrozenKeeps ==
    ASSUME Frozen
    PROVE  /\ Open' <=> Open
           /\ Whole' <=> Whole
           /\ Settled' <=> Settled
           /\ Paid' <=> Paid
           /\ Cleared' <=> Cleared
           /\ Sent' <=> Sent
           /\ WasDelivered' <=> WasDelivered
           /\ \A n : Sums(n)' <=> Sums(n)
  <1>1. Refunded' = Refunded /\ MovedBack' = MovedBack
    BY RowsKept DEF Frozen
  <1>2. \A n : Sums(n)' <=> Sums(n)
    BY <1>1 DEF Frozen, Sums
  <1>3. (Settled' <=> Settled) /\ (Paid' <=> Paid) /\ (Cleared' <=> Cleared)
        /\ (WasDelivered' <=> WasDelivered)
    BY DEF Frozen, Settled, Paid, Cleared, WasDelivered
  <1>4. Sent' <=> Sent
    BY <1>3 DEF Frozen, Sent
  <1>5. Open' <=> Open
    BY <1>1, <1>3 DEF Frozen, Open, Sums
  <1>6. Gone' <=> Gone
    BY <1>1, <1>3 DEF Frozen, Gone, Sums
  <1>7. Back' <=> Back
    BY <1>1, <1>3 DEF Frozen, Back, Sums
  <1> QED BY <1>2, <1>3, <1>4, <1>5, <1>6, <1>7 DEF Whole

\* Steps at which no more is asked than that the order is whole.
Simple == Plain \ {"claim", "waive", "row", "move", "retCreate"}

-----------------------------------------------------------------------------
(* The calls that begin. *)

LEMMA StillFrozen ==
    ASSUME UNCHANGED <<order, asg, Cash, AfterDelivery>>
    PROVE  Frozen
  BY DEF Frozen, Cash, AfterDelivery

LEMMA BeginStep ==
    ASSUME AftersalesInv, NEW p \in Procs, NEW step \in Steps, NEW does \in Handlers,
           NEW n \in Nat, NEW amount \in Int, step # "idle",
           BeginOn(p, step, does, n, amount), UNCHANGED <<order, asg, Cash, AfterDelivery>>,
           step \in Past => Settled, CallOk(p)', calm /\ Whole => Stage(p)'
    PROVE  AftersalesInv'
  <1>1. Typed /\ SettledOk /\ CalmOk
    BY DEF AftersalesInv
  <1>2. /\ call' \in [Procs -> CallType] /\ \A q \in Procs \ {p} : call'[q] = call[q]
        /\ call'[p].at = step /\ call'[p].order = order
        /\ calm' = (calm /\ Running = {})
    BY <1>1, TypeParts, Begins
  <1>3. Typed'
    <2>1. /\ order' \in OrderType /\ asg' \in AssignmentStates /\ payment' \in PaymentType
          /\ books' \subseteq {"collected", "waived", "deposited"}
          /\ rets' \in Seq(ReturnType) /\ returned' \in Nat /\ rows' \in Seq(RowType)
          /\ calm' \in BOOLEAN /\ DOMAIN rets \subseteq DOMAIN rets'
          /\ DOMAIN rows \subseteq DOMAIN rows'
      BY <1>1, <1>2 DEF Typed, Cash, AfterDelivery
    <2> QED BY <1>1, <1>2, <2>1, TypeStep
  <1>4. Frozen
    BY StillFrozen
  <1>5. SettledOk'
    <2>1. Settled' <=> Settled
      BY <1>4, FrozenKeeps
    <2>2. ~Settled => /\ order'.summary = "awaiting" /\ ~WasDelivered' /\ rets' = <<>>
                      /\ call'[p].order.summary = "awaiting" /\ call'[p].at \notin Past
      BY <1>1, <1>2, <1>4, FrozenKeeps DEF SettledOk, Frozen
    <2> QED BY <1>1, <1>2, <2>1, <2>2, SettledStep
  <1>6. CalmOk'
    <2>1. calm' => calm /\ Whole /\ \A q \in Procs : call[q].at = "idle"
      BY <1>1, <1>2, CalmParts
    <2>2. calm' => Stage(p)'
      BY <2>1
    <2> QED BY <1>1, <1>2, <2>1, <2>2, CalmStep
  <1> QED BY <1>3, <1>5, <1>6 DEF AftersalesInv

\* Most of them only look at the order and write down what they are to do.
LEMMA BeginSimply ==
    ASSUME AftersalesInv, NEW p \in Procs, NEW step \in Simple, NEW does \in Handlers \ Returning,
           Begin(p, step, does), UNCHANGED <<order, asg, Cash, AfterDelivery>>,
           step \in Past => Settled, step = "leg" => does \in Legs,
           step \in {"failAsg", "retries"} => order.retries < MaxFails
    PROVE  AftersalesInv'
  <1>1. Typed
    BY DEF AftersalesInv
  <1>2. step \in Steps /\ step # "idle" /\ does \in Handlers /\ 0 \in Nat /\ 0 \in Int
        /\ BeginOn(p, step, does, 0, 0)
    BY DEF Simple, Plain, Steps, Begin
  <1>3. /\ call'[p].at = step /\ call'[p].does = does /\ call'[p].order = order
    BY <1>1, <1>2, TypeParts, Begins
  <1>4. order.summary # "none"
    BY <1>1, TypeParts DEF PaymentStates
  <1>5. CallOk(p)'
    BY <1>2, <1>3, <1>4 DEF CallOk, Simple, Plain
  <1>6. Whole => Stage(p)'
    <2>1. Frozen /\ order' = order
      BY StillFrozen
    <2>2. Whole => Whole'
      BY <2>1, FrozenKeeps
    <2>3. call'[p].at \in Simple /\ call'[p].order.status = order'.status
      BY <1>3, <2>1
    <2>4. Whole' => Stage(p)'
      BY <2>3 DEF Stage, Simple, Plain, Fresh
    <2> QED BY <2>2, <2>4
  <1> QED BY <1>2, <1>5, <1>6, BeginStep

LEMMA StepDispatch ==
    ASSUME AftersalesInv, NEW p \in Procs, Dispatch(p)
    PROVE  AftersalesInv'
  <1>1. "assign" \in Simple /\ "dispatch" \in Handlers \ Returning /\ "assign" \notin Past
    BY DEF Simple, Plain, Handlers, Returning, Legs, Past
  <1> QED BY <1>1, BeginSimply DEF Dispatch

LEMMA StepLegFind ==
    ASSUME AftersalesInv, NEW p \in Procs, LegFind(p)
    PROVE  AftersalesInv'
  <1>1. "leg" \in Simple /\ "leg" \notin Past /\ asg \in Legs
    BY DEF Simple, Plain, Past, LegFind, NextLeg, Legs
  <1>2. asg \in Handlers \ Returning
    BY <1>1 DEF Handlers, Returning, Legs
  <1> QED BY <1>1, <1>2, BeginSimply DEF LegFind

LEMMA StepCollect ==
    ASSUME AftersalesInv, NEW p \in Procs, Collect(p)
    PROVE  AftersalesInv'
  <1>1. "read" \in Simple /\ "collect" \in Handlers \ Returning /\ "read" \notin Past
    BY DEF Simple, Plain, Handlers, Returning, Legs, Past
  <1> QED BY <1>1, BeginSimply DEF Collect

LEMMA StepComplete ==
    ASSUME AftersalesInv, NEW p \in Procs, Complete(p)
    PROVE  AftersalesInv'
  <1>1. "complete" \in Handlers \ Returning
    BY DEF Handlers, Returning, Legs
  <1>2. Gate("pod") \in {"read", "pod"} /\ (Gate("pod") = "pod" => Settled)
    BY DEF Gate, AftersalesInv, SettledOk
  <1>3. Gate("pod") \in Simple /\ (Gate("pod") \in Past => Settled)
    BY <1>2 DEF Simple, Plain, Past
  <1> QED BY <1>1, <1>2, <1>3, BeginSimply DEF Complete

LEMMA StepDeliver ==
    ASSUME AftersalesInv, NEW p \in Procs, Deliver(p)
    PROVE  AftersalesInv'
  <1>1. "deliver" \in Handlers \ Returning
    BY DEF Handlers, Returning, Legs
  <1>2. Gate("force") \in {"read", "force"} /\ (Gate("force") = "force" => Settled)
    BY DEF Gate, AftersalesInv, SettledOk
  <1>3. Gate("force") \in Simple /\ (Gate("force") \in Past => Settled)
    BY <1>2 DEF Simple, Plain, Past
  <1> QED BY <1>1, <1>2, <1>3, BeginSimply DEF Deliver

LEMMA StepDeposit ==
    ASSUME AftersalesInv, NEW p \in Procs, Deposit(p)
    PROVE  AftersalesInv'
  <1>1. "deposit" \in Simple /\ "deposit" \in Handlers \ Returning /\ "deposit" \notin Past
    BY DEF Simple, Plain, Handlers, Returning, Legs, Past
  <1> QED BY <1>1, BeginSimply DEF Deposit

LEMMA StepFail ==
    ASSUME AftersalesInv, NEW p \in Procs, NEW does \in {"riderFail", "opsFail"}, Fail(p, does)
    PROVE  AftersalesInv'
  <1>1. "failAsg" \in Simple /\ does \in Handlers \ Returning /\ "failAsg" \notin Past
    BY DEF Simple, Plain, Handlers, Returning, Legs, Past
  <1> QED BY <1>1, BeginSimply DEF Fail

\* One call at a time, a cancellation finds the order open: what was paid is to
\* be refunded in full, what was not is to be waived.
LEMMA CancelStage ==
    ASSUME Typed, Whole, Frozen, NEW p \in Procs, order.status \in Cancellable,
           call'[p].at = AfterRead(order), call'[p].does = "cancel",
           call'[p].amount = Units - order.refunded
    PROVE  Stage(p)'
  <1>1. Open /\ Cleared
    BY DEF Whole, Gone, Back, ReturnStates, Cancellable
  <1>2. /\ order.refunded = 0 /\ rets = <<>> /\ returned = 0 /\ Sums(0)
        /\ order.summary = payment.status /\ payment.status \in {"awaiting", "success"}
        /\ "waived" \notin books
    BY <1>1 DEF Open, Sums
  <1>3. call'[p].amount = Units /\ 0 < Units
    BY <1>2, AftersalesAssumption
  <1>4. /\ Open' /\ Whole' /\ (Settled' <=> Settled) /\ (Paid' <=> Paid) /\ Cleared'
        /\ Sums(0)' /\ order'.status = order.status /\ rets' = rets /\ returned' = returned
        /\ "waived" \notin books'
    BY <1>1, <1>2, FrozenKeeps DEF Frozen
  <1>5. CASE order.summary = "awaiting"
    <2>1. call'[p].at = "waive" /\ ~Settled
      BY <1>2, <1>5 DEF AfterRead, Settled
    <2> QED BY <1>4, <2>1 DEF Stage, Plain, Fresh
  <1>6. CASE order.summary = "success"
    <2>1. call'[p].at = "row" /\ Settled
      BY <1>2, <1>3, <1>6 DEF AfterRead, Settled
    <2>2. Paid
      BY <1>1, <2>1 DEF Open
    <2>3. Cause(call[p])'
      BY <1>2, <1>3, <1>4, <2>1, <2>2 DEF Cause
    <2> QED BY <1>4, <2>1, <2>3 DEF Stage, Plain, Fresh
  <1> QED BY <1>2, <1>5, <1>6

LEMMA StepCancel ==
    ASSUME AftersalesInv, NEW p \in Procs, Cancel(p)
    PROVE  AftersalesInv'
  <1> DEFINE step == AfterRead(order)
             amount == Units - order.refunded
  <1>1. Typed
    BY DEF AftersalesInv
  <1>2. step \in {"waive", "row", "cancel"}
    BY DEF AfterRead
  <1>3. amount \in Int /\ 0 \in Nat
    BY <1>1, TypeParts, AftersalesAssumption
  <1>4. step \in Steps /\ step # "idle" /\ step \notin Past /\ "cancel" \in Handlers
    BY <1>2 DEF Steps, Plain, Past, Handlers
  <1>5. BeginOn(p, step, "cancel", 0, amount) /\ UNCHANGED <<order, asg, Cash, AfterDelivery>>
        /\ order.status \in Cancellable
    BY DEF Cancel
  <1>6. step = AfterRead(order) /\ amount = Units - order.refunded
    OBVIOUS
  <1> HIDE DEF step, amount
  <1>7. /\ call'[p].at = step /\ call'[p].does = "cancel" /\ call'[p].order = order
        /\ call'[p].amount = amount
    BY <1>1, <1>3, <1>4, <1>5, TypeParts, Begins
  <1>8. CallOk(p)'
    <2>1. order.summary # "none"
      BY <1>1, TypeParts DEF PaymentStates
    <2> QED BY <1>2, <1>7, <2>1 DEF CallOk, Returning
  <1>9. Whole => Stage(p)'
    <2>1. Frozen
      BY <1>5, StillFrozen
    <2> QED BY <1>1, <1>5, <1>6, <1>7, <2>1, CancelStage
  <1> QED BY <1>3, <1>4, <1>5, <1>8, <1>9, BeginStep

LEMMA StepCreateReturn ==
    ASSUME AftersalesInv, NEW p \in Procs, NEW kind \in {"instant", "ask"}, NEW qty \in 1..Units,
           CreateReturn(p, kind, qty)
    PROVE  AftersalesInv'
  <1>1. Typed /\ SettledOk
    BY DEF AftersalesInv
  <1>2. "retCreate" \in Steps /\ kind \in Handlers /\ 0 \in Nat /\ qty \in Int /\ qty \in Nat
        /\ kind \in Returning
    BY AftersalesAssumption DEF Steps, Plain, Handlers, Returning
  <1>3. BeginOn(p, "retCreate", kind, 0, qty) /\ UNCHANGED <<order, asg, Cash, AfterDelivery>>
        /\ order.status = "delivered"
    BY DEF CreateReturn
  <1>4. Settled
    BY <1>1, <1>3 DEF SettledOk, WasDelivered
  <1>5. /\ call'[p].at = "retCreate" /\ call'[p].does = kind /\ call'[p].order = order
        /\ call'[p].amount = qty /\ call'[p].row = 0
    BY <1>1, <1>2, <1>3, TypeParts, Begins
  <1>6. CallOk(p)'
    <2>1. order.summary # "none"
      BY <1>1, TypeParts DEF PaymentStates
    <2> QED BY <1>2, <1>5, <2>1 DEF CallOk
  <1>7. Whole => Stage(p)'
    <2>1. Frozen
      BY <1>3, StillFrozen
    <2>2. Whole => Whole'
      BY <2>1, FrozenKeeps
    <2>3. order'.status = "delivered"
      BY <1>3
    <2> QED BY <1>5, <2>2, <2>3 DEF Stage, Plain, Fresh
  <1> QED BY <1>2, <1>3, <1>4, <1>6, <1>7, BeginStep

\* A pickup or a decision of quality control reads the return and saves it.
LEMMA ReturnBegins ==
    ASSUME AftersalesInv, NEW p \in Procs, NEW n \in DOMAIN rets, NEW does,
           \/ does = "pickup" /\ rets[n].status = "approved"
           \/ does \in {"pass", "reject"} /\ rets[n].status = "picked",
           BeginOn(p, "retSave", does, n, rets[n].qty),
           UNCHANGED <<order, asg, Cash, AfterDelivery>>
    PROVE  AftersalesInv'
  <1>1. Typed /\ SettledOk
    BY DEF AftersalesInv
  <1>2. DOMAIN rets = 1 .. Len(rets) /\ Len(rets) \in Nat
    <2> DEFINE T == ReturnType
    <2>1. rets \in Seq(T)
      BY <1>1 DEF Typed
    <2> HIDE DEF T
    <2> QED BY <2>1
  <1>3. n \in Nat /\ rets # <<>>
    BY <1>2
  <1>4. rets[n].qty \in Nat /\ rets[n].qty \in Int
    BY <1>1, TypeParts
  <1>5. "retSave" \in Steps /\ does \in Handlers /\ does \in Returning
    BY DEF Steps, Handlers, Returning
  <1>6. Settled
    BY <1>1, <1>3 DEF SettledOk
  <1>7. /\ call'[p].at = "retSave" /\ call'[p].does = does /\ call'[p].order = order
        /\ call'[p].n = n /\ call'[p].amount = rets[n].qty /\ call'[p].row = 0
    BY <1>1, <1>3, <1>4, <1>5, TypeParts, Begins
  <1>8. CallOk(p)'
    <2>1. order.summary # "none"
      BY <1>1, TypeParts DEF PaymentStates
    <2>2. rets' = rets
      BY DEF AfterDelivery
    <2> QED BY <1>4, <1>5, <1>7, <2>1, <2>2 DEF CallOk
  <1>9. ASSUME Whole PROVE Stage(p)'
    <2>1. Frozen
      BY StillFrozen
    <2>2. Back /\ Cleared
      BY <1>3, <1>9 DEF Whole, Open, Gone
    <2>3. n = 1 /\ Len(rets) = 1 /\ rets[1].status = order.status /\ Sent
      BY <1>2, <2>2 DEF Back, Sent
    <2>4. returned = 0 /\ Sums(0)
      BY <2>2, <2>3 DEF Back
    <2>5. Sent' /\ Cleared' /\ Sums(0)' /\ rets' = rets /\ order' = order
      BY <2>1, <2>2, <2>3, <2>4, FrozenKeeps DEF AfterDelivery
    <2> QED BY <1>7, <2>3, <2>5 DEF Stage, Plain, Fresh
  <1> QED BY <1>3, <1>4, <1>5, <1>6, <1>8, <1>9, BeginStep

LEMMA StepPickUp ==
    ASSUME AftersalesInv, NEW p \in Procs, NEW n \in DOMAIN rets, PickUp(p, n)
    PROVE  AftersalesInv'
  BY ReturnBegins DEF PickUp

LEMMA StepQc ==
    ASSUME AftersalesInv, NEW p \in Procs, NEW n \in DOMAIN rets, NEW does \in {"pass", "reject"},
           Qc(p, n, does)
    PROVE  AftersalesInv'
  BY ReturnBegins DEF Qc

-----------------------------------------------------------------------------
(* The steps that change nothing of what the order is worth. *)

LEMMA QuietStep ==
    ASSUME AftersalesInv, NEW p \in Procs, Frozen, calm' = calm,
           call' \in [Procs -> CallType], \A q \in Procs \ {p} : call'[q] = call[q],
           order' \in OrderType, asg' \in AssignmentStates, payment' \in PaymentType,
           books' \subseteq {"collected", "waived", "deposited"}, CallOk(p)',
           call[p].at \in Plain,
           call'[p].at \in Past => Settled,
           call'[p].at = "idle" \/ call'[p].order = call[p].order \/ call'[p].order = order,
           calm /\ Whole /\ call'[p].at # "idle" => Stage(p)'
    PROVE  AftersalesInv'
  <1>1. Typed /\ SettledOk /\ CalmOk
    BY DEF AftersalesInv
  <1>2. Typed'
    <2>1. /\ rets' \in Seq(ReturnType) /\ returned' \in Nat /\ rows' \in Seq(RowType)
          /\ calm' \in BOOLEAN /\ DOMAIN rets \subseteq DOMAIN rets'
          /\ DOMAIN rows \subseteq DOMAIN rows'
      BY <1>1 DEF Typed, Frozen
    <2> QED BY <1>1, <2>1, TypeStep
  <1>3. call[p].at # "idle"
    BY DEF Plain
  <1>4. SettledOk'
    <2>1. Settled' <=> Settled
      BY FrozenKeeps
    <2>2. ~Settled => /\ order'.summary = "awaiting" /\ ~WasDelivered' /\ rets' = <<>>
                      /\ call'[p].at # "idle" => call'[p].order.summary = "awaiting"
                      /\ call'[p].at \notin Past
      BY <1>1, <1>3, FrozenKeeps DEF SettledOk, Frozen
    <2> QED BY <1>1, <2>1, <2>2, SettledStep
  <1>5. CalmOk'
    <2>1. calm' => calm /\ Stage(p) /\ \A q \in Procs \ {p} : call[q].at = "idle"
      BY <1>1, <1>3, CalmParts
    <2>2. calm' => Whole
      BY <2>1 DEF Stage
    <2>3. calm' => Whole'
      BY <2>2, FrozenKeeps
    <2>4. calm' /\ call'[p].at # "idle" => Stage(p)'
      BY <2>1, <2>2
    <2> QED BY <1>1, <2>1, <2>3, <2>4, CalmStep
  <1> QED BY <1>2, <1>4, <1>5 DEF AftersalesInv

LEMMA QuietReturn ==
    ASSUME AftersalesInv, NEW p \in Procs, Frozen, calm' = calm, Return(p),
           order' \in OrderType, asg' \in AssignmentStates, payment' \in PaymentType,
           books' \subseteq {"collected", "waived", "deposited"}, call[p].at \in Plain
    PROVE  AftersalesInv'
  <1>1. call \in [Procs -> CallType]
    BY TypeParts DEF AftersalesInv
  <1>2. /\ call' \in [Procs -> CallType] /\ \A q \in Procs \ {p} : call'[q] = call[q]
        /\ call'[p].at = "idle" /\ call'[p].does = "none"
    BY <1>1, Returns
  <1>3. CallOk(p)' /\ call'[p].at \notin Past
    BY <1>2 DEF CallOk, Returning, Past
  <1> QED BY <1>2, <1>3, QuietStep

LEMMA QuietContinue ==
    ASSUME AftersalesInv, NEW p \in Procs, Frozen, calm' = calm, NEW step \in Simple,
           Continue(p, step),
           order' \in OrderType, asg' \in AssignmentStates, payment' \in PaymentType,
           books' \subseteq {"collected", "waived", "deposited"},
           call[p].at \in Plain, call[p].at # "retCreate",
           step \in Past => Settled, step # "leg",
           step \in {"failAsg", "retries"} => call[p].order.retries < MaxFails,
           \/ call[p].at \in Fresh
           \/ call[p].at = "assign" /\ call[p].does = "dispatch"
           \/ step = "assign" /\ call[p].does # "dispatch"
           \/ step \in {"deposit", "depositPost", "cancelRead"}
    PROVE  AftersalesInv'
  <1>1. call \in [Procs -> CallType] /\ call[p].at # "idle" /\ CallOk(p) /\ Typed
    BY TypeParts DEF AftersalesInv, Plain
  <1>2. step \in Steps /\ step # "idle" /\ step \in Plain
    BY DEF Simple, Steps, Plain
  <1>3. /\ call' \in [Procs -> CallType] /\ \A q \in Procs \ {p} : call'[q] = call[q]
        /\ call'[p].at = step /\ call'[p].does = call[p].does
        /\ call'[p].order = call[p].order /\ call'[p].n = call[p].n
        /\ call'[p].amount = call[p].amount
    BY <1>1, <1>2, Continues
  <1>4. CallOk(p)'
    <2>1. step # "retCreate" /\ step \notin {"move", "rowSave", "row", "syncPayment", "syncOrder",
                                "retSave", "mirror", "returned"}
      BY DEF Simple, Plain
    <2>2. call[p].does \in Returning => call[p].amount \in Nat
                                        /\ (call[p].at # "retCreate" => call[p].n \in DOMAIN rets)
      BY <1>1 DEF CallOk
    <2>3. call[p].order.summary # "none"
      BY <1>1 DEF CallOk
    <2>4. rets' = rets
      BY DEF Frozen
    <2> QED BY <1>1, <1>3, <2>1, <2>2, <2>3, <2>4 DEF CallOk
  <1>5. calm /\ Whole => Stage(p)'
    <2>1. calm => Stage(p)
      BY <1>1, CalmParts DEF AftersalesInv
    <2>2. order'.status = order.status /\ (Whole => Whole')
      BY FrozenKeeps DEF Frozen
    <2>3. calm => \/ call[p].order.status = order.status
                  \/ step = "assign" /\ call[p].does # "dispatch"
                  \/ step \in {"deposit", "depositPost", "cancelRead"}
      BY <2>1 DEF Stage
    <2> QED BY <1>3, <2>2, <2>3 DEF Stage, Simple, Plain, Fresh
  <1> QED BY <1>3, <1>4, <1>5, QuietStep

LEMMA QuietFrozen ==
    ASSUME UNCHANGED <<order, Cash, AfterDelivery>>
    PROVE  Frozen
  BY DEF Frozen, Cash, AfterDelivery

\* The variables that a quiet step leaves alone keep their types.
LEMMA KeepsTypes ==
    ASSUME AftersalesInv
    PROVE  /\ UNCHANGED order => order' \in OrderType
           /\ UNCHANGED asg => asg' \in AssignmentStates
           /\ UNCHANGED payment => payment' \in PaymentType
           /\ UNCHANGED books => books' \subseteq {"collected", "waived", "deposited"}
  BY DEF AftersalesInv, Typed

LEMMA StepAssign ==
    ASSUME AftersalesInv, NEW p \in Procs, Assign(p)
    PROVE  AftersalesInv'
  <1>1. /\ Frozen /\ calm' = calm /\ call[p].at = "assign" /\ asg' \in AssignmentStates
    BY QuietFrozen DEF Assign, Quietly, At, AssignmentStates
  <1>2. /\ order' \in OrderType /\ payment' \in PaymentType
        /\ books' \subseteq {"collected", "waived", "deposited"}
    BY KeepsTypes DEF Assign, Cash
  <1>3. "leave" \in Simple /\ "leave" \notin Past /\ "assign" \in Plain
    BY DEF Simple, Plain, Past
  <1>4. CASE Does(p, {"dispatch"})
    <2>1. Continue(p, "leave") /\ call[p].does = "dispatch"
      BY <1>4 DEF Assign, Does
    <2> QED BY <1>1, <1>2, <1>3, <2>1, QuietContinue
  <1>5. CASE ~Does(p, {"dispatch"})
    <2>1. Return(p)
      BY <1>5 DEF Assign
    <2> QED BY <1>1, <1>2, <1>3, <2>1, QuietReturn
  <1> QED BY <1>4, <1>5

LEMMA StepLegSave ==
    ASSUME AftersalesInv, NEW p \in Procs, LegSave(p)
    PROVE  AftersalesInv'
  <1>1. /\ Frozen /\ calm' = calm /\ call[p].at = "leg"
    BY QuietFrozen DEF LegSave, Quietly, At
  <1>2. call[p].does \in Legs
    BY <1>1, TypeParts DEF AftersalesInv, CallOk
  <1>3. asg' \in AssignmentStates
    BY <1>2 DEF LegSave, NextLeg, Legs, AssignmentStates
  <1>4. /\ order' \in OrderType /\ payment' \in PaymentType
        /\ books' \subseteq {"collected", "waived", "deposited"}
    BY KeepsTypes DEF LegSave, Cash
  <1>5. "leave" \in Simple /\ "leave" \notin Past /\ "leg" \in Plain /\ "leg" \in Fresh
    BY DEF Simple, Plain, Past, Fresh
  <1>6. CASE asg' = "transit"
    <2>1. Continue(p, "leave")
      BY <1>6 DEF LegSave
    <2> QED BY <1>1, <1>3, <1>4, <1>5, <2>1, QuietContinue
  <1>7. CASE asg' # "transit"
    <2>1. Return(p)
      BY <1>7 DEF LegSave
    <2> QED BY <1>1, <1>3, <1>4, <1>5, <2>1, QuietReturn
  <1> QED BY <1>6, <1>7

LEMMA StepForceArrived ==
    ASSUME AftersalesInv, NEW p \in Procs, ForceArrived(p)
    PROVE  AftersalesInv'
  <1>1. /\ Frozen /\ calm' = calm /\ call[p].at = "force"
    BY QuietFrozen DEF ForceArrived, Quietly, At
  <1>2. /\ order' \in OrderType /\ payment' \in PaymentType /\ asg' \in AssignmentStates
        /\ books' \subseteq {"collected", "waived", "deposited"}
    BY KeepsTypes DEF ForceArrived, Cash, AssignmentStates
  <1>3. "pod" \in Simple /\ "force" \in Plain /\ "force" \in Fresh /\ Settled
    BY <1>1 DEF Simple, Plain, Past, Fresh, AftersalesInv, SettledOk
  <1>4. Return(p) \/ Continue(p, "pod")
    BY DEF ForceArrived
  <1>5. CASE Continue(p, "pod")
    BY <1>1, <1>2, <1>3, <1>5, QuietContinue
  <1>6. CASE Return(p)
    BY <1>1, <1>2, <1>3, <1>6, QuietReturn
  <1> QED BY <1>4, <1>5, <1>6

LEMMA StepPod ==
    ASSUME AftersalesInv, NEW p \in Procs, Pod(p)
    PROVE  AftersalesInv'
  <1>1. /\ Frozen /\ calm' = calm /\ call[p].at = "pod"
    BY QuietFrozen DEF Pod, Quietly, At
  <1>2. /\ order' \in OrderType /\ payment' \in PaymentType /\ asg' \in AssignmentStates
        /\ books' \subseteq {"collected", "waived", "deposited"}
    BY KeepsTypes DEF Pod, Cash
  <1>3. "podSave" \in Simple /\ "pod" \in Plain /\ "pod" \in Fresh /\ Settled
    BY <1>1 DEF Simple, Plain, Past, Fresh, AftersalesInv, SettledOk
  <1>4. Return(p) \/ Continue(p, "podSave")
    BY DEF Pod
  <1>5. CASE Continue(p, "podSave")
    BY <1>1, <1>2, <1>3, <1>5, QuietContinue
  <1>6. CASE Return(p)
    BY <1>1, <1>2, <1>3, <1>6, QuietReturn
  <1> QED BY <1>4, <1>5, <1>6

LEMMA StepPodSave ==
    ASSUME AftersalesInv, NEW p \in Procs, PodSave(p)
    PROVE  AftersalesInv'
  <1>1. /\ Frozen /\ calm' = calm /\ call[p].at = "podSave"
    BY QuietFrozen DEF PodSave, Quietly, At
  <1>2. /\ order' \in OrderType /\ payment' \in PaymentType /\ asg' \in AssignmentStates
        /\ books' \subseteq {"collected", "waived", "deposited"}
    BY KeepsTypes DEF PodSave, Cash, AssignmentStates
  <1>3. PICK step \in {"syncAgain", "deliver"} : Continue(p, step)
    BY DEF PodSave
  <1>4. step \in Simple /\ "podSave" \in Plain /\ "podSave" \in Fresh /\ Settled /\ step # "leg"
        /\ step \notin {"failAsg", "retries"}
    BY <1>1 DEF Simple, Plain, Past, Fresh, AftersalesInv, SettledOk
  <1> QED BY <1>1, <1>2, <1>3, <1>4, QuietContinue

LEMMA StepFailAsg ==
    ASSUME AftersalesInv, NEW p \in Procs, FailAsg(p)
    PROVE  AftersalesInv'
  <1>1. /\ Frozen /\ calm' = calm /\ call[p].at = "failAsg"
    BY QuietFrozen DEF FailAsg, Quietly, At
  <1>2. /\ order' \in OrderType /\ payment' \in PaymentType /\ asg' \in AssignmentStates
        /\ books' \subseteq {"collected", "waived", "deposited"}
    BY KeepsTypes DEF FailAsg, Cash, AssignmentStates
  <1>3. "retries" \in Simple /\ "failAsg" \in Plain /\ "failAsg" \in Fresh /\ "retries" \notin Past
    BY DEF Simple, Plain, Past, Fresh
  <1>4. call[p].order.retries < MaxFails
    BY <1>1, TypeParts DEF AftersalesInv, CallOk
  <1>5. Continue(p, "retries")
    BY DEF FailAsg
  <1> QED BY <1>1, <1>2, <1>3, <1>4, <1>5, QuietContinue

LEMMA StepCountRetry ==
    ASSUME AftersalesInv, NEW p \in Procs, CountRetry(p)
    PROVE  AftersalesInv'
  <1> DEFINE retries == call[p].order.retries + 1
  <1>1. calm' = calm /\ call[p].at = "retries" /\ Typed
        /\ UNCHANGED <<asg, payment, books, rets, returned, rows>>
    BY DEF CountRetry, Quietly, At, Cash, AfterDelivery, AftersalesInv
  <1>2. retries \in 0..MaxFails
    <2>1. call[p].order.retries < MaxFails /\ call[p].order.retries \in 0..MaxFails
      BY <1>1, CallParts DEF CallOk
    <2> QED BY <2>1, AftersalesAssumption
  <1>3. PICK step \in {"cancelRead", "failOrder"} : Continue(p, step)
    BY DEF CountRetry
  <1>4. order' = [order EXCEPT !.retries = retries]
    BY DEF CountRetry
  <1> HIDE DEF retries
  <1>5. order' \in OrderType /\ order'.status = order.status /\ order'.summary = order.summary
        /\ order'.refunded = order.refunded
    <2>1. order \in OrderType
      BY <1>1, TypeParts
    <2> QED BY <1>2, <1>4, <2>1 DEF OrderType
  <1>6. Frozen
    BY <1>1, <1>5 DEF Frozen
  <1>7. payment' \in PaymentType /\ asg' \in AssignmentStates
        /\ books' \subseteq {"collected", "waived", "deposited"}
    BY <1>1, KeepsTypes
  <1>8. step \in Simple /\ "retries" \in Plain /\ "retries" \in Fresh /\ step \notin Past
        /\ step # "leg" /\ step \notin {"failAsg", "retries"}
    BY DEF Simple, Plain, Past, Fresh
  <1> QED BY <1>1, <1>3, <1>5, <1>6, <1>7, <1>8, QuietContinue

LEMMA StepReadPayment ==
    ASSUME AftersalesInv, NEW p \in Procs, ReadPayment(p)
    PROVE  AftersalesInv'
  <1>1. /\ Frozen /\ calm' = calm /\ call[p].at = "read"
    BY QuietFrozen DEF ReadPayment, Quietly, At
  <1>2. /\ order' \in OrderType /\ payment' \in PaymentType /\ asg' \in AssignmentStates
        /\ books' \subseteq {"collected", "waived", "deposited"}
    BY KeepsTypes DEF ReadPayment, Cash
  <1>3. "read" \in Plain /\ "read" \in Fresh /\ "sync" \in Simple /\ "claim" \in Plain
        /\ "claim" \in Steps /\ "claim" \notin Past
    BY DEF Simple, Plain, Past, Fresh, Steps
  <1>4. \/ payment.status = "success" /\ Continue(p, "sync")
        \/ payment.status = "awaiting" /\ Continue(p, "claim")
        \/ Return(p)
    BY DEF ReadPayment
  <1>5. CASE payment.status = "success" /\ Continue(p, "sync")
    <2>1. Settled
      BY <1>5 DEF Settled
    <2> QED BY <1>1, <1>2, <1>3, <1>5, <2>1, QuietContinue
  <1>6. CASE payment.status = "awaiting" /\ Continue(p, "claim")
    <2>1. call \in [Procs -> CallType] /\ CallOk(p) /\ Typed
      BY TypeParts DEF AftersalesInv
    <2>2. /\ call' \in [Procs -> CallType] /\ \A q \in Procs \ {p} : call'[q] = call[q]
          /\ call'[p].at = "claim" /\ call'[p].does = call[p].does
          /\ call'[p].order = call[p].order /\ call'[p].n = call[p].n
          /\ call'[p].amount = call[p].amount
      BY <1>3, <1>6, <2>1, Continues
    <2>3. CallOk(p)'
      <3>1. rets' = rets
        BY <1>1 DEF Frozen
      <3> QED BY <1>1, <2>1, <2>2, <3>1 DEF CallOk
    <2>4. ASSUME calm, Whole PROVE Stage(p)'
      <3>1. Stage(p)
        BY <1>1, <2>1, <2>4, CalmParts DEF AftersalesInv
      <3>2. call[p].order.status = order.status
        BY <1>1, <1>3, <3>1 DEF Stage
      <3>3. ~Settled
        BY <1>6 DEF Settled
      <3>4. Open
        BY <2>4, <3>3 DEF Whole, Gone, Back
      <3>5. Open' /\ ~Settled' /\ Whole' /\ order'.status = order.status
        BY <1>1, <2>4, <3>3, <3>4, FrozenKeeps DEF Frozen
      <3> QED BY <2>2, <3>2, <3>5 DEF Stage, Fresh
    <2> QED BY <1>1, <1>2, <1>3, <2>2, <2>3, <2>4, QuietStep
  <1>7. CASE Return(p)
    BY <1>1, <1>2, <1>3, <1>7, QuietReturn
  <1> QED BY <1>4, <1>5, <1>6, <1>7

LEMMA StepDepositClaim ==
    ASSUME AftersalesInv, NEW p \in Procs, DepositClaim(p)
    PROVE  AftersalesInv'
  <1>1. calm' = calm /\ call[p].at = "deposit" /\ Typed
        /\ UNCHANGED <<order, asg, books, rets, returned, rows>>
        /\ payment' = [payment EXCEPT !.deposited = TRUE]
    BY DEF DepositClaim, Quietly, At, AfterDelivery, AftersalesInv
  <1>2. payment' \in PaymentType /\ payment'.method = payment.method
        /\ payment'.status = payment.status /\ payment'.collected = payment.collected
        /\ payment'.refunded = payment.refunded
    <2>1. payment \in PaymentType
      BY <1>1, TypeParts
    <2> QED BY <1>1, <2>1 DEF PaymentType
  <1>3. Frozen
    BY <1>1, <1>2 DEF Frozen
  <1>4. order' \in OrderType /\ asg' \in AssignmentStates
        /\ books' \subseteq {"collected", "waived", "deposited"}
    BY <1>1, KeepsTypes
  <1>5. "depositPost" \in Simple /\ "deposit" \in Plain /\ "depositPost" \notin Past
    BY DEF Simple, Plain, Past
  <1>6. Return(p) \/ Continue(p, "depositPost")
    BY DEF DepositClaim
  <1>7. CASE Continue(p, "depositPost")
    BY <1>1, <1>2, <1>3, <1>4, <1>5, <1>7, QuietContinue
  <1>8. CASE Return(p)
    BY <1>1, <1>2, <1>3, <1>4, <1>5, <1>8, QuietReturn
  <1> QED BY <1>6, <1>7, <1>8

LEMMA StepDepositPost ==
    ASSUME AftersalesInv, NEW p \in Procs, DepositPost(p)
    PROVE  AftersalesInv'
  <1>1. calm' = calm /\ call[p].at = "depositPost" /\ Typed /\ Return(p)
        /\ UNCHANGED <<order, asg, payment, rets, returned, rows>>
        /\ books' = books \cup {"deposited"}
    BY DEF DepositPost, Quietly, At, AfterDelivery, AftersalesInv
  <1>2. Frozen
    BY <1>1 DEF Frozen
  <1>3. order' \in OrderType /\ asg' \in AssignmentStates /\ payment' \in PaymentType
    BY <1>1, KeepsTypes
  <1>4. books' \subseteq {"collected", "waived", "deposited"}
    BY <1>1 DEF Typed
  <1>5. "depositPost" \in Plain
    BY DEF Plain
  <1> QED BY <1>1, <1>2, <1>3, <1>4, <1>5, QuietReturn

LEMMA StepCancelRead ==
    ASSUME AftersalesInv, NEW p \in Procs, CancelRead(p)
    PROVE  AftersalesInv'
  <1> DEFINE step == AfterRead(order)
             amount == Units - order.refunded
             d == [at |-> step, does |-> "cancel", order |-> order, n |-> call[p].n,
                   amount |-> amount, row |-> call[p].row]
  <1>1. /\ Frozen /\ calm' = calm /\ call[p].at = "cancelRead" /\ Typed
    BY StillFrozen DEF CancelRead, Quietly, At, AftersalesInv
  <1>2. /\ order' \in OrderType /\ payment' \in PaymentType /\ asg' \in AssignmentStates
        /\ books' \subseteq {"collected", "waived", "deposited"}
    BY KeepsTypes DEF CancelRead, Cash
  <1>3. "cancelRead" \in Plain
    BY DEF Plain
  <1>4. CASE Return(p)
    BY <1>1, <1>2, <1>3, <1>4, QuietReturn
  <1>5. CASE order.status \in Cancellable
    <2>1. call[p] \in CallType /\ call \in [Procs -> CallType]
      BY <1>1, TypeParts
    <2>2. call' = [call EXCEPT ![p] = d]
      <3>1. PICK c : c = [call[p] EXCEPT !.at = AfterRead(order), !.does = "cancel",
                                         !.order = order, !.amount = Units - order.refunded]
        OBVIOUS
      <3>2. c = d
        BY <2>1, <3>1 DEF CallType
      <3>3. call' = [call EXCEPT ![p] = c]
        BY <1>5, <3>1 DEF CancelRead
      <3> QED BY <3>2, <3>3
    <2>3. step \in {"waive", "row", "cancel"}
      BY DEF AfterRead
    <2>4. amount \in Int /\ order \in CopyType /\ order.summary # "none"
      BY <1>1, TypeParts, AftersalesAssumption DEF OrderType, CopyType, PaymentStates
    <2>5. step \in Steps /\ step # "idle" /\ step \notin Past /\ "cancel" \in Handlers
      BY <2>3 DEF Steps, Plain, Past, Handlers
    <2>6. call[p].n \in Nat /\ call[p].row \in Nat
      BY <1>1, CallParts
    <2>7. d \in CallType
      <3> HIDE DEF step, amount
      <3> QED BY <2>4, <2>5, <2>6 DEF CallType
    <2>8. d.at = step /\ d.does = "cancel" /\ d.order = order /\ d.amount = amount
      OBVIOUS
    <2>9. step = AfterRead(order) /\ amount = Units - order.refunded
      OBVIOUS
    <2> HIDE DEF d, step, amount
    <2>10. /\ call' \in [Procs -> CallType] /\ \A q \in Procs \ {p} : call'[q] = call[q]
           /\ call'[p].at = step /\ call'[p].does = "cancel" /\ call'[p].order = order
           /\ call'[p].amount = amount
      BY <2>1, <2>2, <2>7, <2>8
    <2>11. CallOk(p)'
      BY <2>3, <2>4, <2>10 DEF CallOk, Returning
    <2>12. Whole => Stage(p)'
      BY <1>1, <1>5, <2>9, <2>10, CancelStage
    <2>13. call'[p].at \in Past => Settled
      BY <2>5, <2>10
    <2> QED BY <1>1, <1>2, <1>3, <2>10, <2>11, <2>12, <2>13, QuietStep
  <1> QED BY <1>4, <1>5 DEF CancelRead

-----------------------------------------------------------------------------
(* The steps of a running call that change the order, the payment or books. *)

LEMMA RunningStep ==
    ASSUME AftersalesInv, NEW p \in Procs, call[p].at # "idle", calm' = calm,
           call' \in [Procs -> CallType], \A q \in Procs \ {p} : call'[q] = call[q],
           order' \in OrderType, asg' \in AssignmentStates, payment' \in PaymentType,
           books' \subseteq {"collected", "waived", "deposited"},
           rets' \in Seq(ReturnType), returned' \in Nat, rows' \in Seq(RowType),
           DOMAIN rets \subseteq DOMAIN rets', DOMAIN rows \subseteq DOMAIN rows', CallOk(p)',
           Settled => Settled',
           \/ Settled'
           \/ /\ order'.summary = "awaiting" /\ ~WasDelivered' /\ rets' = <<>>
              /\ call'[p].at # "idle" => call'[p].order.summary = "awaiting"
              /\ call'[p].at \notin Past,
           calm /\ Stage(p) => IF call'[p].at = "idle" THEN Whole' ELSE Stage(p)'
    PROVE  AftersalesInv'
  <1>1. Typed /\ SettledOk /\ CalmOk
    BY DEF AftersalesInv
  <1>2. Typed'
    <2>1. calm' \in BOOLEAN
      BY <1>1 DEF Typed
    <2> QED BY <1>1, <2>1, TypeStep
  <1>3. SettledOk'
    BY <1>1, SettledStep
  <1>4. CalmOk'
    <2>1. calm' => calm /\ Stage(p) /\ \A q \in Procs \ {p} : call[q].at = "idle"
      BY <1>1, CalmParts
    <2> QED BY <1>1, <2>1, CalmStep
  <1> QED BY <1>2, <1>3, <1>4 DEF AftersalesInv

\* What RunningStep asks of the data, for a step that leaves the rest alone.
LEMMA KeepsData ==
    ASSUME AftersalesInv
    PROVE  /\ UNCHANGED rets => rets' \in Seq(ReturnType) /\ DOMAIN rets \subseteq DOMAIN rets'
           /\ UNCHANGED rows => rows' \in Seq(RowType) /\ DOMAIN rows \subseteq DOMAIN rows'
           /\ UNCHANGED returned => returned' \in Nat
           /\ UNCHANGED AfterDelivery =>
                 /\ rets' = rets /\ returned' = returned /\ rows' = rows
                 /\ rets' \in Seq(ReturnType) /\ returned' \in Nat /\ rows' \in Seq(RowType)
                 /\ DOMAIN rets \subseteq DOMAIN rets' /\ DOMAIN rows \subseteq DOMAIN rows'
           /\ UNCHANGED Cash => payment' = payment /\ books' = books
  BY DEF AftersalesInv, Typed, AfterDelivery, Cash

\* A transition of an open order leaves it open.
LEMMA OpenMoves ==
    ASSUME Whole, NEW to \in {"out", "delivered", "failed"}, Leads(order.status, to),
           order \in OrderType, order' = [order EXCEPT !.status = to],
           UNCHANGED <<payment, books, rets, returned, rows>>
    PROVE  Whole'
  <1>1. Open
    BY DEF Whole, Gone, Back, ReturnStates, Leads
  <1>2. order'.status = to /\ order'.summary = order.summary /\ order'.refunded = order.refunded
    BY DEF OrderType
  <1>3. Refunded' = Refunded /\ MovedBack' = MovedBack
    BY RowsKept
  <1>4. Open'
    BY <1>1, <1>2, <1>3 DEF Open, Sums, Undelivered, Settled, Paid
  <1>5. Cleared'
    BY DEF Whole, Cleared
  <1> QED BY <1>4, <1>5 DEF Whole

LEMMA StatusStep ==
    ASSUME AftersalesInv, NEW p \in Procs, NEW to \in {"out", "delivered", "failed"},
           calm' = calm, call[p].at \in {"leave", "deliver", "failOrder"},
           to = "delivered" => call[p].at = "deliver",
           Leads(call[p].order.status, to), order' = [order EXCEPT !.status = to],
           UNCHANGED <<asg, Cash, AfterDelivery>>,
           Return(p) \/ (Continue(p, "assign") /\ call[p].does = "riderFail")
    PROVE  AftersalesInv'
  <1>1. Typed /\ SettledOk /\ CalmOk
    BY DEF AftersalesInv
  <1>2. order' \in OrderType /\ order'.status = to /\ order'.summary = order.summary
    <2>1. order \in OrderType
      BY <1>1, TypeParts
    <2> QED BY <2>1 DEF OrderType, OrderStates
  <1>3. /\ call' \in [Procs -> CallType] /\ \A q \in Procs \ {p} : call'[q] = call[q]
        /\ \/ call'[p].at = "idle" /\ call'[p].does = "none"
           \/ call'[p].at = "assign" /\ call'[p].does = "riderFail"
              /\ call'[p].order = call[p].order
    <2>1. "assign" \in Steps
      BY DEF Steps, Plain
    <2> QED BY <1>1, <2>1, TypeParts, Returns, Continues
  <1>4. CallOk(p)'
    <2>1. call[p].order.summary # "none"
      BY <1>1, CallParts DEF CallOk
    <2> QED BY <1>3, <2>1 DEF CallOk, Returning
  <1>5. Settled' <=> Settled
    BY DEF Settled, Cash
  <1>6. \/ Settled'
        \/ /\ order'.summary = "awaiting" /\ ~WasDelivered' /\ rets' = <<>>
           /\ call'[p].at # "idle" => call'[p].order.summary = "awaiting"
           /\ call'[p].at \notin Past
    <2>1. to = "delivered" => Settled
      BY <1>1 DEF SettledOk, Past
    <2>2. to # "delivered" => ~WasDelivered'
      BY <1>2 DEF WasDelivered
    <2>3. ~Settled => order.summary = "awaiting" /\ rets = <<>> /\ call[p].order.summary = "awaiting"
      BY <1>1 DEF SettledOk
    <2>4. rets' = rets /\ call'[p].at \notin Past
      BY <1>3 DEF AfterDelivery, Past
    <2> QED BY <1>2, <1>3, <1>5, <2>1, <2>2, <2>3, <2>4
  <1>7. calm /\ Stage(p) => IF call'[p].at = "idle" THEN Whole' ELSE Stage(p)'
    <2> SUFFICES ASSUME calm, Stage(p)
                 PROVE  IF call'[p].at = "idle" THEN Whole' ELSE Stage(p)'
      OBVIOUS
    <2>1. Whole /\ call[p].order.status = order.status
      BY DEF Stage, Plain, Fresh
    <2>2. Whole'
      <3>1. order \in OrderType /\ UNCHANGED <<payment, books, rets, returned, rows>>
        BY <1>1, TypeParts DEF Cash, AfterDelivery
      <3> QED BY <2>1, <3>1, OpenMoves
    <2>3. call'[p].at # "idle" => Stage(p)'
      BY <1>3, <2>2 DEF Stage, Plain, Fresh
    <2> QED BY <2>2, <2>3
  <1>8. /\ asg' \in AssignmentStates /\ payment' \in PaymentType
        /\ books' \subseteq {"collected", "waived", "deposited"}
        /\ rets' \in Seq(ReturnType) /\ returned' \in Nat /\ rows' \in Seq(RowType)
        /\ DOMAIN rets \subseteq DOMAIN rets' /\ DOMAIN rows \subseteq DOMAIN rows'
    BY KeepsTypes, KeepsData DEF Cash
  <1> QED BY <1>2, <1>3, <1>4, <1>5, <1>6, <1>7, <1>8, RunningStep

\* A transition the state machine refuses changes nothing.
LEMMA TransitionStep ==
    ASSUME AftersalesInv, NEW p \in Procs, NEW to \in {"out", "delivered", "failed"},
           NEW step \in {"idle", "assign"}, Transition(p, to, step),
           call[p].at \in {"leave", "deliver", "failOrder"},
           to = "delivered" => call[p].at = "deliver",
           step = "assign" => call[p].does = "riderFail",
           Quietly, UNCHANGED <<asg, Cash, AfterDelivery>>
    PROVE  AftersalesInv'
  <1>1. calm' = calm
    BY DEF Quietly
  <1>2. CASE Leads(call[p].order.status, to)
    <2>1. order' = [order EXCEPT !.status = to]
          /\ IF step = "idle" THEN Return(p) ELSE Continue(p, step)
      BY <1>2 DEF Transition
    <2>2. Return(p) \/ (Continue(p, "assign") /\ call[p].does = "riderFail")
      BY <2>1
    <2> QED BY <1>1, <1>2, <2>1, <2>2, StatusStep
  <1>3. CASE ~Leads(call[p].order.status, to)
    <2>1. Return(p) /\ order' = order
      BY <1>3 DEF Transition
    <2>2. Frozen
      BY <2>1, QuietFrozen
    <2>3. /\ order' \in OrderType /\ payment' \in PaymentType /\ asg' \in AssignmentStates
          /\ books' \subseteq {"collected", "waived", "deposited"}
      BY <2>1, KeepsTypes DEF Cash
    <2>4. call[p].at \in Plain
      BY DEF Plain
    <2> QED BY <1>1, <2>1, <2>2, <2>3, <2>4, QuietReturn
  <1> QED BY <1>2, <1>3

LEMMA StepLeave ==
    ASSUME AftersalesInv, NEW p \in Procs, Leave(p)
    PROVE  AftersalesInv'
  BY TransitionStep DEF Leave, At

LEMMA StepDeliverSave ==
    ASSUME AftersalesInv, NEW p \in Procs, DeliverSave(p)
    PROVE  AftersalesInv'
  BY TransitionStep DEF DeliverSave, At

LEMMA StepFailOrder ==
    ASSUME AftersalesInv, NEW p \in Procs, FailOrder(p)
    PROVE  AftersalesInv'
  <1>1. PICK step \in {"idle", "assign"} :
          Transition(p, "failed", step) /\ (step = "assign" => call[p].does = "riderFail")
    BY DEF FailOrder, Does
  <1> QED BY <1>1, TransitionStep DEF FailOrder, At

\* A call that goes on keeps what it wrote down.
LEMMA ContinueOk ==
    ASSUME Typed, NEW p \in Procs, NEW step \in Steps, Continue(p, step),
           call[p].at # "idle", call[p].at # "retCreate",
           DOMAIN rets \subseteq DOMAIN rets',
           step # "leg", step \notin {"failAsg", "retries"},
           step \in {"move", "rowSave"} => call[p].row \in DOMAIN rows',
           step \in {"row", "move", "rowSave", "syncPayment", "syncOrder"} =>
               call[p].does \in {"cancel", "instant", "pass"},
           step \in {"retCreate", "retSave", "mirror", "returned"} => call[p].does \in Returning
    PROVE  /\ CallOk(p)'
           /\ call' \in [Procs -> CallType] /\ \A q \in Procs \ {p} : call'[q] = call[q]
           /\ call'[p].at = step /\ call'[p].does = call[p].does
           /\ call'[p].order = call[p].order /\ call'[p].n = call[p].n
           /\ call'[p].amount = call[p].amount /\ call'[p].row = call[p].row
  <1>1. /\ call' \in [Procs -> CallType] /\ \A q \in Procs \ {p} : call'[q] = call[q]
        /\ call'[p].at = step /\ call'[p].does = call[p].does
        /\ call'[p].order = call[p].order /\ call'[p].n = call[p].n
        /\ call'[p].amount = call[p].amount /\ call'[p].row = call[p].row
    BY TypeParts, Continues
  <1>2. call[p].order.summary # "none"
        /\ (call[p].does \in Returning => call[p].amount \in Nat /\ call[p].n \in DOMAIN rets)
    BY CallParts DEF CallOk
  <1>3. CallOk(p)'
    BY <1>1, <1>2 DEF CallOk
  <1> QED BY <1>1, <1>3

LEMMA ReturnOk ==
    ASSUME Typed, NEW p \in Procs, Return(p)
    PROVE  /\ CallOk(p)'
           /\ call' \in [Procs -> CallType] /\ \A q \in Procs \ {p} : call'[q] = call[q]
           /\ call'[p].at = "idle"
  <1>1. /\ call' \in [Procs -> CallType] /\ \A q \in Procs \ {p} : call'[q] = call[q]
        /\ call'[p].at = "idle" /\ call'[p].does = "none"
    BY TypeParts, Returns
  <1> QED BY <1>1 DEF CallOk, Returning

LEMMA StepClaim ==
    ASSUME AftersalesInv, NEW p \in Procs, Claim(p)
    PROVE  AftersalesInv'
  <1>1. Typed /\ calm' = calm /\ call[p].at = "claim"
        /\ UNCHANGED <<order, asg, books, AfterDelivery>>
    BY DEF Claim, Quietly, At, AftersalesInv
  <1>2. /\ order' \in OrderType /\ asg' \in AssignmentStates
        /\ books' \subseteq {"collected", "waived", "deposited"}
        /\ rets' = rets /\ returned' = returned /\ rows' = rows
        /\ rets' \in Seq(ReturnType) /\ returned' \in Nat /\ rows' \in Seq(RowType)
        /\ DOMAIN rets \subseteq DOMAIN rets' /\ DOMAIN rows \subseteq DOMAIN rows'
    BY <1>1, KeepsTypes, KeepsData
  <1>3. CASE payment.status = "awaiting"
    <2>1. Continue(p, "journal") /\ payment' = [payment EXCEPT !.status = "success", !.collected = TRUE]
      BY <1>3 DEF Claim
    <2>2. "journal" \in Steps
      BY DEF Steps
    <2>3. /\ CallOk(p)' /\ call' \in [Procs -> CallType]
          /\ \A q \in Procs \ {p} : call'[q] = call[q]
          /\ call'[p].at = "journal" /\ call'[p].order = call[p].order
      BY <1>1, <1>2, <2>1, <2>2, ContinueOk
    <2>4. /\ payment' \in PaymentType /\ payment'.status = "success" /\ payment'.collected
          /\ payment'.refunded = payment.refunded
      <3>1. payment \in PaymentType
        BY <1>1, TypeParts
      <3> QED BY <2>1, <3>1 DEF PaymentType, PaymentStates
    <2>5. Settled'
      BY <2>4 DEF Settled
    <2>6. ASSUME calm, Stage(p) PROVE Stage(p)'
      <3>1. Open /\ ~Settled /\ call[p].order.status = order.status
        BY <1>1, <2>6 DEF Stage, Fresh
      <3>2. Refunded' = Refunded /\ MovedBack' = MovedBack
        BY <1>2, RowsKept
      <3>3. Taken'
        BY <1>1, <1>2, <1>3, <2>4, <3>1, <3>2 DEF Open, Taken, Sums
      <3> QED BY <1>1, <2>3, <3>1, <3>3 DEF Stage, Plain, Fresh
    <2> QED BY <1>1, <1>2, <2>3, <2>4, <2>5, <2>6, RunningStep
  <1>4. CASE payment.status # "awaiting"
    <2>1. Continue(p, "sync") /\ payment' = payment
      BY <1>4 DEF Claim
    <2>2. Frozen /\ payment' \in PaymentType
      BY <1>1, <2>1, StillFrozen, KeepsTypes DEF Cash
    <2>3. "sync" \in Simple /\ "claim" \in Plain /\ "claim" \in Fresh /\ Settled
      BY <1>4 DEF Simple, Plain, Fresh, Settled
    <2> QED BY <1>1, <1>2, <2>1, <2>2, <2>3, QuietContinue
  <1> QED BY <1>3, <1>4

LEMMA StepPostCollected ==
    ASSUME AftersalesInv, NEW p \in Procs, PostCollected(p)
    PROVE  AftersalesInv'
  <1>1. Typed /\ SettledOk /\ calm' = calm /\ call[p].at = "journal" /\ Continue(p, "summary")
        /\ UNCHANGED <<order, asg, payment, AfterDelivery>> /\ books' = books \cup {"collected"}
    BY DEF PostCollected, Quietly, At, AftersalesInv
  <1>2. /\ order' \in OrderType /\ asg' \in AssignmentStates /\ payment' \in PaymentType
        /\ rets' = rets /\ returned' = returned /\ rows' = rows
        /\ rets' \in Seq(ReturnType) /\ returned' \in Nat /\ rows' \in Seq(RowType)
        /\ DOMAIN rets \subseteq DOMAIN rets' /\ DOMAIN rows \subseteq DOMAIN rows'
    BY <1>1, KeepsTypes, KeepsData
  <1>3. books' \subseteq {"collected", "waived", "deposited"}
    BY <1>1 DEF Typed
  <1>4. "summary" \in Steps
    BY DEF Steps
  <1>5. /\ CallOk(p)' /\ call' \in [Procs -> CallType]
        /\ \A q \in Procs \ {p} : call'[q] = call[q]
        /\ call'[p].at = "summary" /\ call'[p].order = call[p].order
    BY <1>1, <1>2, <1>4, ContinueOk
  <1>6. Settled /\ Settled'
    BY <1>1 DEF SettledOk, Past, Settled
  <1>7. ASSUME calm, Stage(p) PROVE Stage(p)'
    <2>1. Taken /\ call[p].order.status = order.status
      BY <1>1, <1>7 DEF Stage, Fresh
    <2>2. Refunded' = Refunded /\ MovedBack' = MovedBack
      BY <1>2, RowsKept
    <2>3. Taken' /\ Cleared'
      BY <1>1, <1>2, <2>1, <2>2 DEF Taken, Sums, Cleared
    <2> QED BY <1>1, <1>5, <2>1, <2>3 DEF Stage, Plain, Fresh
  <1> QED BY <1>1, <1>2, <1>3, <1>5, <1>6, <1>7, RunningStep

LEMMA StepSummarize ==
    ASSUME AftersalesInv, NEW p \in Procs, Summarize(p)
    PROVE  AftersalesInv'
  <1>1. Typed /\ SettledOk /\ calm' = calm /\ call[p].at = "summary" /\ Continue(p, "sync")
        /\ UNCHANGED <<asg, payment, books, AfterDelivery>>
    BY DEF Summarize, Quietly, At, Cash, AftersalesInv
  <1>2. /\ asg' \in AssignmentStates /\ payment' \in PaymentType
        /\ books' \subseteq {"collected", "waived", "deposited"}
        /\ rets' = rets /\ returned' = returned /\ rows' = rows
        /\ rets' \in Seq(ReturnType) /\ returned' \in Nat /\ rows' \in Seq(RowType)
        /\ DOMAIN rets \subseteq DOMAIN rets' /\ DOMAIN rows \subseteq DOMAIN rows'
    BY <1>1, KeepsTypes, KeepsData
  <1>3. /\ order' \in OrderType /\ order'.status = order.status
        /\ order'.refunded = order.refunded
        /\ order.summary = "awaiting" => order'.summary = "success"
    <2>1. order \in OrderType
      BY <1>1, TypeParts
    <2>2. order' = order \/ order' = [order EXCEPT !.summary = "success"]
      BY DEF Summarize
    <2>3. order.summary = "awaiting" => order' = [order EXCEPT !.summary = "success"]
      BY DEF Summarize
    <2> QED BY <2>1, <2>2, <2>3 DEF OrderType, PaymentStates
  <1>4. "sync" \in Steps
    BY DEF Steps, Plain
  <1>5. /\ CallOk(p)' /\ call' \in [Procs -> CallType]
        /\ \A q \in Procs \ {p} : call'[q] = call[q]
        /\ call'[p].at = "sync" /\ call'[p].order = call[p].order
    BY <1>1, <1>2, <1>4, ContinueOk
  <1>6. Settled /\ Settled'
    BY <1>1 DEF SettledOk, Past, Settled
  <1>7. ASSUME calm, Stage(p) PROVE Stage(p)'
    <2>1. Taken /\ Cleared /\ call[p].order.status = order.status
      BY <1>1, <1>7 DEF Stage, Fresh
    <2>2. Refunded' = Refunded /\ MovedBack' = MovedBack
      BY <1>2, RowsKept
    <2>3. Open'
      BY <1>1, <1>2, <1>3, <1>6, <2>1, <2>2 DEF Taken, Sums, Open, Paid
    <2>4. Whole'
      BY <1>1, <2>1, <2>3 DEF Whole, Cleared
    <2> QED BY <1>3, <1>5, <2>1, <2>4 DEF Stage, Plain, Fresh
  <1> QED BY <1>1, <1>2, <1>3, <1>5, <1>6, <1>7, RunningStep

\* syncPaymentSummary tells an open order nothing new.
LEMMA StepSync ==
    ASSUME AftersalesInv, NEW p \in Procs, Sync(p)
    PROVE  AftersalesInv'
  <1>1. Typed /\ SettledOk /\ calm' = calm /\ call[p].at \in {"sync", "syncAgain"}
        /\ UNCHANGED <<asg, payment, books, AfterDelivery>>
    BY DEF Sync, Quietly, At, Cash, AftersalesInv
  <1>2. /\ asg' \in AssignmentStates /\ payment' \in PaymentType
        /\ books' \subseteq {"collected", "waived", "deposited"}
        /\ rets' = rets /\ returned' = returned /\ rows' = rows
        /\ rets' \in Seq(ReturnType) /\ returned' \in Nat /\ rows' \in Seq(RowType)
        /\ DOMAIN rets \subseteq DOMAIN rets' /\ DOMAIN rows \subseteq DOMAIN rows'
    BY <1>1, KeepsTypes, KeepsData
  <1>3. /\ order' \in OrderType /\ order'.status = order.status
        /\ order'.refunded = order.refunded
        /\ order'.summary = order.summary \/ order'.summary = payment.status
    <2>1. order \in OrderType /\ payment.status \in PaymentStates
      BY <1>1, TypeParts
    <2>2. order' = order \/ order' = [order EXCEPT !.summary = payment.status]
      BY DEF Sync
    <2> QED BY <2>1, <2>2 DEF OrderType
  <1>4. Settled /\ Settled'
    BY <1>1 DEF SettledOk, Past, Settled
  <1>5. /\ CallOk(p)' /\ call' \in [Procs -> CallType]
        /\ \A q \in Procs \ {p} : call'[q] = call[q]
        /\ \/ call'[p].at = "idle"
           \/ call'[p].at \in {"deliver", "pod", "force"} /\ call'[p].order = call[p].order
    <2>1. Return(p) \/ \E step \in {"deliver", "pod", "force"} : Continue(p, step)
      BY DEF Sync
    <2>2. CASE Return(p)
      BY <1>1, <2>2, ReturnOk
    <2>3. ASSUME NEW step \in {"deliver", "pod", "force"}, Continue(p, step)
          PROVE  /\ CallOk(p)' /\ call' \in [Procs -> CallType]
                 /\ \A q \in Procs \ {p} : call'[q] = call[q]
                 /\ call'[p].at = step /\ call'[p].order = call[p].order
      <3>1. step \in Steps
        BY DEF Steps, Plain
      <3> QED BY <1>1, <1>2, <2>3, <3>1, ContinueOk
    <2> QED BY <2>1, <2>2, <2>3
  <1>6. ASSUME calm, Stage(p) PROVE IF call'[p].at = "idle" THEN Whole' ELSE Stage(p)'
    <2>1. Whole /\ call[p].order.status = order.status
      BY <1>1, <1>6 DEF Stage, Plain, Fresh
    <2>2. Refunded' = Refunded /\ MovedBack' = MovedBack
      BY <1>2, RowsKept
    <2>3. Whole'
      <3>1. Cleared' /\ (Paid' <=> Paid)
        BY <1>1, <2>1 DEF Whole, Cleared, Paid
      <3>2. Open => Open'
        BY <1>1, <1>2, <1>3, <1>4, <2>2, <3>1 DEF Open, Sums
      <3>3. Gone => Gone'
        BY <1>1, <1>2, <1>3, <1>4, <2>2, <3>1 DEF Gone, Sums
      <3>4. Back => Back'
        BY <1>1, <1>2, <1>3, <1>4, <2>2, <3>1 DEF Back, Sums
      <3> QED BY <2>1, <3>1, <3>2, <3>3, <3>4 DEF Whole
    <2>4. call'[p].at # "idle" => Stage(p)'
      BY <1>3, <1>5, <2>1, <2>3 DEF Stage, Plain, Fresh
    <2> QED BY <2>3, <2>4
  <1>7. call[p].at # "idle"
    BY <1>1
  <1> QED BY <1>1, <1>2, <1>3, <1>4, <1>5, <1>6, <1>7, RunningStep

LEMMA StepWaive ==
    ASSUME AftersalesInv, NEW p \in Procs, Waive(p)
    PROVE  AftersalesInv'
  <1>1. Typed /\ calm' = calm /\ call[p].at = "waive" /\ Continue(p, "waivePost")
        /\ UNCHANGED <<order, asg, books, AfterDelivery>>
    BY DEF Waive, Quietly, At, AftersalesInv
  <1>2. /\ order' \in OrderType /\ asg' \in AssignmentStates
        /\ books' \subseteq {"collected", "waived", "deposited"}
        /\ rets' = rets /\ returned' = returned /\ rows' = rows
        /\ rets' \in Seq(ReturnType) /\ returned' \in Nat /\ rows' \in Seq(RowType)
        /\ DOMAIN rets \subseteq DOMAIN rets' /\ DOMAIN rows \subseteq DOMAIN rows'
    BY <1>1, KeepsTypes, KeepsData
  <1>3. /\ payment' \in PaymentType /\ payment'.status # "awaiting"
        /\ payment'.collected = payment.collected /\ payment'.method = payment.method
        /\ payment'.refunded = payment.refunded
    <2>1. payment \in PaymentType
      BY <1>1, TypeParts
    <2>2. \/ payment' = [payment EXCEPT !.status = "failed"]
          \/ payment' = payment /\ payment.status # "awaiting"
      BY DEF Waive
    <2> QED BY <2>1, <2>2 DEF PaymentType, PaymentStates
  <1>4. "waivePost" \in Steps
    BY DEF Steps
  <1>5. /\ CallOk(p)' /\ call' \in [Procs -> CallType]
        /\ \A q \in Procs \ {p} : call'[q] = call[q]
        /\ call'[p].at = "waivePost" /\ call'[p].order = call[p].order
    BY <1>1, <1>2, <1>4, ContinueOk
  <1>6. Settled'
    BY <1>3 DEF Settled
  <1>7. ASSUME calm, Stage(p) PROVE Stage(p)'
    <2>1. Open /\ ~Settled /\ order.status \in Cancellable /\ Cleared
      BY <1>1, <1>7 DEF Stage, Plain, Whole
    <2>2. Refunded' = Refunded /\ MovedBack' = MovedBack
      BY <1>2, RowsKept
    <2>3. ~Paid /\ ~Paid'
      BY <1>3, <2>1 DEF Open, Paid
    <2>4. Waiving'
      BY <1>1, <1>2, <1>3, <1>6, <2>1, <2>2, <2>3 DEF Open, Sums, Waiving, Cleared
    <2> QED BY <1>5, <2>4 DEF Stage, Plain, Fresh
  <1> QED BY <1>1, <1>2, <1>3, <1>5, <1>6, <1>7, RunningStep

LEMMA StepPostWaived ==
    ASSUME AftersalesInv, NEW p \in Procs, PostWaived(p)
    PROVE  AftersalesInv'
  <1> DEFINE copy == [status |-> call[p].order.status, summary |-> "failed",
                      retries |-> call[p].order.retries, refunded |-> call[p].order.refunded]
             d == [at |-> "cancel", does |-> call[p].does, order |-> copy, n |-> call[p].n,
                   amount |-> call[p].amount, row |-> call[p].row]
  <1>1. Typed /\ SettledOk /\ calm' = calm /\ call[p].at = "waivePost"
        /\ UNCHANGED <<order, asg, payment, AfterDelivery>> /\ books' = books \cup {"waived"}
    BY DEF PostWaived, Quietly, At, AftersalesInv
  <1>2. /\ order' \in OrderType /\ asg' \in AssignmentStates /\ payment' \in PaymentType
        /\ rets' = rets /\ returned' = returned /\ rows' = rows
        /\ rets' \in Seq(ReturnType) /\ returned' \in Nat /\ rows' \in Seq(RowType)
        /\ DOMAIN rets \subseteq DOMAIN rets' /\ DOMAIN rows \subseteq DOMAIN rows'
    BY <1>1, KeepsTypes, KeepsData
  <1>3. books' \subseteq {"collected", "waived", "deposited"}
    BY <1>1 DEF Typed
  <1>4. call' = [call EXCEPT ![p] = d]
    <2>1. call \in [Procs -> CallType] /\ call[p] \in CallType /\ call[p].order \in CopyType
      BY <1>1, TypeParts, CallParts
    <2>2. PICK c : c = [call[p].order EXCEPT !.summary = "failed"]
      OBVIOUS
    <2>3. c = copy
      BY <2>1, <2>2 DEF CopyType
    <2>4. PICK e : e = [call[p] EXCEPT !.order = c, !.at = "cancel"]
      OBVIOUS
    <2>5. e = d
      BY <2>1, <2>3, <2>4 DEF CallType
    <2>6. call' = [call EXCEPT ![p] = e]
      BY <2>1, <2>2, <2>4 DEF PostWaived
    <2> QED BY <2>5, <2>6
  <1>5. d \in CallType
    <2>1. copy \in CopyType
      BY <1>1, CallParts DEF CopyType, PaymentStates
    <2>2. "cancel" \in Steps
      BY DEF Steps
    <2> HIDE DEF copy
    <2> QED BY <1>1, <2>1, <2>2, CallParts DEF CallType
  <1>6. d.at = "cancel" /\ d.does = call[p].does /\ d.n = call[p].n /\ d.amount = call[p].amount
        /\ d.order.summary = "failed"
    OBVIOUS
  <1> HIDE DEF d, copy
  <1>7. /\ call' \in [Procs -> CallType] /\ \A q \in Procs \ {p} : call'[q] = call[q]
        /\ call'[p] = d
    BY <1>1, <1>4, <1>5, TypeParts
  <1>8. CallOk(p)'
    <2>1. call[p].does \in Returning => call[p].amount \in Nat /\ call[p].n \in DOMAIN rets
      BY <1>1, CallParts DEF CallOk
    <2> QED BY <1>2, <1>6, <1>7, <2>1 DEF CallOk
  <1>9. Settled /\ Settled'
    BY <1>1 DEF SettledOk, Past, Settled
  <1>10. ASSUME calm, Stage(p) PROVE Stage(p)'
    <2>1. Waiving
      BY <1>1, <1>10 DEF Stage
    <2>2. Refunded' = Refunded /\ MovedBack' = MovedBack
      BY <1>2, RowsKept
    <2>3. ~Paid' /\ ~payment'.collected
      BY <1>1, <2>1 DEF Waiving, Paid
    <2>4. Cancelling'
      BY <1>1, <1>2, <1>9, <2>1, <2>2, <2>3 DEF Waiving, Sums, Cancelling, Cleared
    <2> QED BY <1>6, <1>7, <2>4 DEF Stage, Plain, Fresh
  <1> QED BY <1>1, <1>2, <1>3, <1>6, <1>7, <1>8, <1>9, <1>10, RunningStep

LEMMA StepCancelSave ==
    ASSUME AftersalesInv, NEW p \in Procs, CancelSave(p)
    PROVE  AftersalesInv'
  <1>1. Typed /\ SettledOk /\ calm' = calm /\ call[p].at = "cancel" /\ Return(p)
        /\ UNCHANGED <<asg, payment, books, AfterDelivery>>
    BY DEF CancelSave, Quietly, At, Cash, AftersalesInv
  <1>2. /\ asg' \in AssignmentStates /\ payment' \in PaymentType
        /\ books' \subseteq {"collected", "waived", "deposited"}
        /\ rets' = rets /\ returned' = returned /\ rows' = rows
        /\ rets' \in Seq(ReturnType) /\ returned' \in Nat /\ rows' \in Seq(RowType)
        /\ DOMAIN rets \subseteq DOMAIN rets' /\ DOMAIN rows \subseteq DOMAIN rows'
    BY <1>1, KeepsTypes, KeepsData
  <1>3. /\ order' \in OrderType /\ order'.status = "cancelled"
        /\ order'.refunded = order.refunded
        /\ order'.summary = order.summary \/ call[p].order.summary = "failed"
    <2>1. order \in OrderType
      BY <1>1, TypeParts
    <2>2. PICK s : s = IF call[p].order.summary = "failed" THEN "failed" ELSE order.summary
      OBVIOUS
    <2>3. order' = [order EXCEPT !.status = "cancelled", !.summary = s]
      BY <2>2 DEF CancelSave
    <2>4. s \in PaymentStates /\ (s = order.summary \/ call[p].order.summary = "failed")
      BY <2>1, <2>2 DEF OrderType, PaymentStates
    <2> QED BY <2>1, <2>3, <2>4 DEF OrderType, OrderStates
  <1>4. /\ CallOk(p)' /\ call' \in [Procs -> CallType]
        /\ \A q \in Procs \ {p} : call'[q] = call[q]
        /\ call'[p].at = "idle"
    BY <1>1, ReturnOk
  <1>5. Settled' <=> Settled
    BY <1>1 DEF Settled
  <1>6. \/ Settled'
        \/ /\ order'.summary = "awaiting" /\ ~WasDelivered' /\ rets' = <<>>
           /\ call'[p].at # "idle" => call'[p].order.summary = "awaiting"
           /\ call'[p].at \notin Past
    <2>1. call[p].order.summary = "failed" => Settled
      BY <1>1 DEF SettledOk
    <2>2. ~Settled => order.summary = "awaiting" /\ rets = <<>>
      BY <1>1 DEF SettledOk
    <2>3. ~WasDelivered' /\ call'[p].at \notin Past
      BY <1>3, <1>4 DEF WasDelivered, Past
    <2> QED BY <1>2, <1>3, <1>4, <1>5, <2>1, <2>2, <2>3
  <1>7. ASSUME calm, Stage(p) PROVE Whole'
    <2>1. Cancelling
      BY <1>1, <1>7 DEF Stage
    <2>2. Refunded' = Refunded /\ MovedBack' = MovedBack
      BY <1>2, RowsKept
    <2>3. Paid' <=> Paid
      BY <1>1 DEF Paid
    <2>4. Gone'
      BY <1>1, <1>2, <1>3, <1>5, <2>1, <2>2, <2>3 DEF Cancelling, Sums, Gone
    <2>5. Cleared'
      BY <1>1, <2>1 DEF Cancelling, Cleared
    <2> QED BY <2>4, <2>5 DEF Whole
  <1> QED BY <1>1, <1>2, <1>3, <1>4, <1>5, <1>6, <1>7, RunningStep

-----------------------------------------------------------------------------
(* The refund. *)

LEMMA StillSettled ==
    ASSUME SettledOk, NEW p \in Procs, call[p].at # "idle", payment'.status = payment.status,
           order'.summary = order.summary, order'.status = order.status, rets' = rets,
           call'[p].at = "idle" \/ call'[p].order.summary = call[p].order.summary,
           call'[p].at \in Past => Settled
    PROVE  /\ Settled' <=> Settled
           /\ \/ Settled'
              \/ /\ order'.summary = "awaiting" /\ ~WasDelivered' /\ rets' = <<>>
                 /\ call'[p].at # "idle" => call'[p].order.summary = "awaiting"
                 /\ call'[p].at \notin Past
  <1>1. (Settled' <=> Settled) /\ (WasDelivered' <=> WasDelivered)
    BY DEF Settled, WasDelivered
  <1>2. ~Settled => order.summary = "awaiting" /\ ~WasDelivered /\ rets = <<>>
                    /\ call[p].order.summary = "awaiting"
    BY DEF SettledOk
  <1> QED BY <1>1, <1>2

LEMMA RowsOnly ==
    ASSUME UNCHANGED <<order, payment, books, rets, returned>>
    PROVE  /\ (Settled' <=> Settled) /\ (Paid' <=> Paid) /\ (Cleared' <=> Cleared)
           /\ Sent' <=> Sent
           /\ Refunded' = Refunded /\ MovedBack' = MovedBack =>
                 (Whole' <=> Whole) /\ (Sums(0)' <=> Sums(0))
  <1>1. (Settled' <=> Settled) /\ (Paid' <=> Paid) /\ (Cleared' <=> Cleared)
    BY DEF Settled, Paid, Cleared
  <1>2. Sent' <=> Sent
    BY <1>1 DEF Sent
  <1>3. ASSUME Refunded' = Refunded, MovedBack' = MovedBack
        PROVE  (Whole' <=> Whole) /\ (Sums(0)' <=> Sums(0))
    <2>1. Open' <=> Open
      BY <1>1, <1>3 DEF Open, Sums
    <2>2. Gone' <=> Gone
      BY <1>1, <1>3 DEF Gone, Sums
    <2>3. Back' <=> Back
      BY <1>1, <1>3 DEF Back, Sums
    <2> QED BY <1>1, <1>3, <2>1, <2>2, <2>3 DEF Whole, Sums
  <1> QED BY <1>1, <1>2, <1>3

\* The cause of a refund stays while the refund alone moves on.
LEMMA CauseStays ==
    ASSUME NEW p \in Procs, Cause(call[p]),
           call'[p].does = call[p].does, call'[p].amount = call[p].amount,
           call'[p].n = call[p].n,
           rets' = rets, returned' = returned, order'.status = order.status,
           Settled', Paid', Cleared', "waived" \notin books'
    PROVE  Cause(call[p])'
  <1>1. Sent => Sent'
    BY DEF Sent
  <1> QED BY <1>1 DEF Cause

LEMMA StepCreateRow ==
    ASSUME AftersalesInv, NEW p \in Procs, CreateRow(p)
    PROVE  AftersalesInv'
  <1> DEFINE r == [status |-> "pending", amount |-> call[p].amount, moved |-> FALSE]
             d == [at |-> "move", does |-> call[p].does, order |-> call[p].order, n |-> call[p].n,
                   amount |-> call[p].amount, row |-> Len(rows) + 1]
  <1>1. Typed /\ SettledOk /\ calm' = calm /\ call[p].at = "row"
        /\ UNCHANGED <<order, asg, payment, books, rets, returned>> /\ rows' = Append(rows, r)
    BY DEF CreateRow, Quietly, At, Cash, AftersalesInv
  <1>2. /\ order' \in OrderType /\ asg' \in AssignmentStates /\ payment' \in PaymentType
        /\ books' \subseteq {"collected", "waived", "deposited"}
        /\ rets' \in Seq(ReturnType) /\ returned' \in Nat /\ DOMAIN rets \subseteq DOMAIN rets'
    BY <1>1, KeepsTypes, KeepsData
  <1>3. r \in RowType /\ r.status = "pending" /\ ~r.moved /\ r.amount = call[p].amount
    BY <1>1, CallParts DEF RowType
  <1>4. rows \in Seq(RowType) /\ Len(rows) \in Nat
    BY <1>1, RowsFinite DEF Typed
  <1>5. call' = [call EXCEPT ![p] = d]
    <2>1. call \in [Procs -> CallType] /\ call[p] \in CallType
      BY <1>1, TypeParts
    <2>2. PICK e : e = [call[p] EXCEPT !.row = Len(rows) + 1, !.at = "move"]
      OBVIOUS
    <2>3. e = d
      BY <2>1, <2>2 DEF CallType
    <2>4. call' = [call EXCEPT ![p] = e]
      BY <2>1, <2>2 DEF CreateRow
    <2> QED BY <2>3, <2>4
  <1>6. d \in CallType
    <2>1. "move" \in Steps
      BY DEF Steps, Plain
    <2> QED BY <1>1, <1>4, <2>1, CallParts DEF CallType
  <1>7. d.at = "move" /\ d.does = call[p].does /\ d.n = call[p].n /\ d.amount = call[p].amount
        /\ d.order = call[p].order /\ d.row = Len(rows) + 1
    OBVIOUS
  <1> HIDE DEF d, r
  <1>8. /\ call' \in [Procs -> CallType] /\ \A q \in Procs \ {p} : call'[q] = call[q]
        /\ call'[p] = d
    BY <1>1, <1>5, <1>6, TypeParts
  <1>9. /\ Refunded' = Refunded /\ MovedBack' = MovedBack
        /\ rows' \in Seq(RowType) /\ DOMAIN rows \subseteq DOMAIN rows'
        /\ Len(rows) + 1 \in DOMAIN rows' /\ rows'[Len(rows) + 1] = r
    BY <1>1, <1>3, <1>4, RowAdded
  <1>10. CallOk(p)'
    <2>1. /\ call[p].does \in {"cancel", "instant", "pass"} /\ call[p].order.summary # "none"
          /\ call[p].does \in Returning => call[p].amount \in Nat /\ call[p].n \in DOMAIN rets
      BY <1>1, CallParts DEF CallOk
    <2> QED BY <1>1, <1>7, <1>8, <1>9, <2>1 DEF CallOk
  <1>11. /\ Settled' <=> Settled
         /\ \/ Settled'
            \/ /\ order'.summary = "awaiting" /\ ~WasDelivered' /\ rets' = <<>>
               /\ call'[p].at # "idle" => call'[p].order.summary = "awaiting"
               /\ call'[p].at \notin Past
    <2>1. call'[p].at \notin Past /\ call'[p].order.summary = call[p].order.summary
      BY <1>7, <1>8 DEF Past
    <2> QED BY <1>1, <2>1, StillSettled
  <1>12. ASSUME calm, Stage(p) PROVE Stage(p)'
    <2>1. Whole /\ Cause(call[p]) /\ Sums(0)
      BY <1>1, <1>12 DEF Stage, Plain
    <2>2. Whole' /\ Sums(0)'
      BY <1>1, <1>9, <2>1, RowsOnly
    <2>3. Cause(call[p])'
      <3>1. Settled' /\ Paid' /\ Cleared' /\ "waived" \notin books'
        BY <1>1, <2>1, RowsOnly DEF Cause
      <3> QED BY <1>1, <1>7, <1>8, <2>1, <3>1, CauseStays
    <2>4. Row(call[p])' /\ ~rows'[call'[p].row].moved
      BY <1>3, <1>7, <1>8, <1>9 DEF Row
    <2> QED BY <1>7, <1>8, <2>2, <2>3, <2>4 DEF Stage, Fresh
  <1> QED BY <1>1, <1>2, <1>7, <1>8, <1>9, <1>10, <1>11, <1>12, RunningStep

LEMMA StepMove ==
    ASSUME AftersalesInv, NEW p \in Procs, Move(p)
    PROVE  AftersalesInv'
  <1> DEFINE k == call[p].row
  <1>1. Typed /\ SettledOk /\ calm' = calm /\ call[p].at = "move"
        /\ UNCHANGED <<order, asg, payment, books, rets, returned>>
    BY DEF Move, At, Cash, AftersalesInv
  <1>2. /\ order' \in OrderType /\ asg' \in AssignmentStates /\ payment' \in PaymentType
        /\ books' \subseteq {"collected", "waived", "deposited"}
        /\ rets' \in Seq(ReturnType) /\ returned' \in Nat /\ DOMAIN rets \subseteq DOMAIN rets'
    BY <1>1, KeepsTypes, KeepsData
  <1>3. k \in DOMAIN rows /\ rows \in Seq(RowType) /\ rows[k] \in RowType
        /\ call[p].does \in {"cancel", "instant", "pass"}
    BY <1>1, CallParts, TypeParts DEF CallOk, Typed
  <1>4. CASE rows' = [rows EXCEPT ![k].moved = TRUE] /\ Continue(p, "rowSave")
    <2>1. PICK r : r = [rows[k] EXCEPT !.moved = TRUE]
      OBVIOUS
    <2>2. /\ r \in RowType /\ r.status = rows[k].status /\ r.amount = rows[k].amount /\ r.moved
          /\ rows' = [rows EXCEPT ![k] = r]
      BY <1>3, <1>4, <2>1 DEF RowType
    <2>3. /\ Refunded' = Refunded - GoneBack(rows[k]) + GoneBack(r)
          /\ MovedBack' = MovedBack - Moved(rows[k]) + Moved(r)
          /\ rows' \in Seq(RowType) /\ DOMAIN rows' = DOMAIN rows /\ rows'[k] = r
      <3> HIDE DEF k
      <3> QED BY <1>3, <2>2, RowWritten
    <2>4. "rowSave" \in Steps /\ "rowSave" \notin Past
      BY DEF Steps, Past
    <2>5. /\ CallOk(p)' /\ call' \in [Procs -> CallType]
          /\ \A q \in Procs \ {p} : call'[q] = call[q]
          /\ call'[p].at = "rowSave" /\ call'[p].does = call[p].does
          /\ call'[p].order = call[p].order /\ call'[p].n = call[p].n
          /\ call'[p].amount = call[p].amount /\ call'[p].row = call[p].row
      BY <1>1, <1>2, <1>3, <1>4, <2>3, <2>4, ContinueOk
    <2>6. /\ Settled' <=> Settled
          /\ \/ Settled'
             \/ /\ order'.summary = "awaiting" /\ ~WasDelivered' /\ rets' = <<>>
                /\ call'[p].at # "idle" => call'[p].order.summary = "awaiting"
                /\ call'[p].at \notin Past
      BY <1>1, <2>4, <2>5, StillSettled
    <2>7. ASSUME calm, Stage(p) PROVE Stage(p)'
      <3>1. Cause(call[p]) /\ Sums(0) /\ Row(call[p]) /\ ~rows[k].moved
        BY <1>1, <2>7 DEF Stage
      <3>2. Cause(call[p])'
        <4>1. Settled' /\ Paid' /\ Cleared' /\ "waived" \notin books'
          BY <1>1, <3>1, RowsOnly DEF Cause
        <4> QED BY <1>1, <2>5, <3>1, <4>1, CauseStays
      <3>3. Refunded' = 0 /\ MovedBack' = call[p].amount
        <4>1. GoneBack(rows[k]) = 0 /\ GoneBack(r) = 0 /\ Moved(rows[k]) = 0
              /\ Moved(r) = call[p].amount
          BY <2>2, <3>1 DEF GoneBack, Moved, Row
        <4>2. call[p].amount \in Int
          BY <1>1, CallParts
        <4> QED BY <2>3, <3>1, <4>1, <4>2 DEF Sums
      <3>4. Row(call[p])' /\ rows'[call'[p].row].moved
        BY <1>3, <2>2, <2>3, <2>5, <3>1 DEF Row
      <3>5. payment'.refunded = 0 /\ order'.refunded = 0
        BY <1>1, <3>1 DEF Sums
      <3> QED BY <2>5, <3>2, <3>3, <3>4, <3>5 DEF Stage, Plain, Fresh
    <2>8. DOMAIN rows \subseteq DOMAIN rows'
      BY <2>3
    <2> QED BY <1>1, <1>2, <2>3, <2>5, <2>6, <2>7, <2>8, RunningStep
  <1>5. CASE rows' = [rows EXCEPT ![k].status = "failed"] /\ Return(p)
    <2>1. PICK r : r = [rows[k] EXCEPT !.status = "failed"]
      OBVIOUS
    <2>2. /\ r \in RowType /\ r.status = "failed" /\ r.amount = rows[k].amount
          /\ r.moved = rows[k].moved /\ rows' = [rows EXCEPT ![k] = r]
      BY <1>3, <1>5, <2>1 DEF RowType
    <2>3. /\ Refunded' = Refunded - GoneBack(rows[k]) + GoneBack(r)
          /\ MovedBack' = MovedBack - Moved(rows[k]) + Moved(r)
          /\ rows' \in Seq(RowType) /\ DOMAIN rows' = DOMAIN rows /\ rows'[k] = r
      <3> HIDE DEF k
      <3> QED BY <1>3, <2>2, RowWritten
    <2>4. /\ CallOk(p)' /\ call' \in [Procs -> CallType]
          /\ \A q \in Procs \ {p} : call'[q] = call[q]
          /\ call'[p].at = "idle"
      BY <1>1, <1>5, ReturnOk
    <2>5. /\ Settled' <=> Settled
          /\ \/ Settled'
             \/ /\ order'.summary = "awaiting" /\ ~WasDelivered' /\ rets' = <<>>
                /\ call'[p].at # "idle" => call'[p].order.summary = "awaiting"
                /\ call'[p].at \notin Past
      BY <1>1, <2>4, StillSettled DEF Past
    <2>6. ASSUME calm, Stage(p) PROVE Whole'
      <3>1. Whole /\ Sums(0) /\ Row(call[p]) /\ ~rows[k].moved
        BY <1>1, <2>6 DEF Stage, Plain
      <3>2. Refunded' = Refunded /\ MovedBack' = MovedBack
        <4>1. GoneBack(rows[k]) = 0 /\ GoneBack(r) = 0 /\ Moved(rows[k]) = 0 /\ Moved(r) = 0
          BY <2>2, <3>1 DEF GoneBack, Moved, Row
        <4> QED BY <2>3, <3>1, <4>1 DEF Sums
      <3> QED BY <1>1, <3>1, <3>2, RowsOnly
    <2>7. DOMAIN rows \subseteq DOMAIN rows'
      BY <2>3
    <2> QED BY <1>1, <1>2, <2>3, <2>4, <2>5, <2>6, <2>7, RunningStep
  <1> QED BY <1>4, <1>5 DEF Move

LEMMA StepSaveRow ==
    ASSUME AftersalesInv, NEW p \in Procs, SaveRow(p)
    PROVE  AftersalesInv'
  <1> DEFINE k == call[p].row
  <1>1. Typed /\ SettledOk /\ calm' = calm /\ call[p].at = "rowSave" /\ Continue(p, "syncPayment")
        /\ UNCHANGED <<order, asg, payment, books, rets, returned>>
        /\ rows' = [rows EXCEPT ![k].status = "success"]
    BY DEF SaveRow, Quietly, At, Cash, AftersalesInv
  <1>2. /\ order' \in OrderType /\ asg' \in AssignmentStates /\ payment' \in PaymentType
        /\ books' \subseteq {"collected", "waived", "deposited"}
        /\ rets' \in Seq(ReturnType) /\ returned' \in Nat /\ DOMAIN rets \subseteq DOMAIN rets'
    BY <1>1, KeepsTypes, KeepsData
  <1>3. k \in DOMAIN rows /\ rows \in Seq(RowType) /\ rows[k] \in RowType /\ k # 0
        /\ call[p].does \in {"cancel", "instant", "pass"}
    <2>1. k \in DOMAIN rows /\ rows \in Seq(RowType) /\ rows[k] \in RowType
          /\ call[p].does \in {"cancel", "instant", "pass"}
      BY <1>1, CallParts, TypeParts DEF CallOk, Typed
    <2>2. DOMAIN rows = 1 .. Len(rows)
      BY <2>1, RowsFinite
    <2> QED BY <2>1, <2>2
  <1>4. PICK r : r = [rows[k] EXCEPT !.status = "success"]
    OBVIOUS
  <1>5. /\ r \in RowType /\ r.status = "success" /\ r.amount = rows[k].amount
        /\ r.moved = rows[k].moved /\ rows' = [rows EXCEPT ![k] = r]
    BY <1>1, <1>3, <1>4 DEF RowType
  <1>6. /\ Refunded' = Refunded - GoneBack(rows[k]) + GoneBack(r)
        /\ MovedBack' = MovedBack - Moved(rows[k]) + Moved(r)
        /\ rows' \in Seq(RowType) /\ DOMAIN rows' = DOMAIN rows
    <2> HIDE DEF k
    <2> QED BY <1>3, <1>5, RowWritten
  <1>7. "syncPayment" \in Steps /\ "syncPayment" \notin Past
    BY DEF Steps, Past
  <1>8. /\ CallOk(p)' /\ call' \in [Procs -> CallType]
        /\ \A q \in Procs \ {p} : call'[q] = call[q]
        /\ call'[p].at = "syncPayment" /\ call'[p].does = call[p].does
        /\ call'[p].order = call[p].order /\ call'[p].n = call[p].n
        /\ call'[p].amount = call[p].amount /\ call'[p].row = call[p].row
    BY <1>1, <1>2, <1>3, <1>7, ContinueOk
  <1>9. /\ Settled' <=> Settled
        /\ \/ Settled'
           \/ /\ order'.summary = "awaiting" /\ ~WasDelivered' /\ rets' = <<>>
              /\ call'[p].at # "idle" => call'[p].order.summary = "awaiting"
              /\ call'[p].at \notin Past
    BY <1>1, <1>7, <1>8, StillSettled
  <1>10. ASSUME calm, Stage(p) PROVE Stage(p)'
    <2>1. Cause(call[p]) /\ Row(call[p]) /\ rows[k].moved /\ Refunded = 0
          /\ MovedBack = call[p].amount
      BY <1>1, <1>10 DEF Stage
    <2>2. Cause(call[p])'
      <3>1. Settled' /\ Paid' /\ Cleared' /\ "waived" \notin books'
        BY <1>1, <2>1, RowsOnly DEF Cause
      <3> QED BY <1>1, <1>8, <2>1, <3>1, CauseStays
    <2>3. Refunded' = call[p].amount /\ MovedBack' = call[p].amount
      <3>1. GoneBack(rows[k]) = 0 /\ GoneBack(r) = call[p].amount
            /\ Moved(rows[k]) = call[p].amount /\ Moved(r) = call[p].amount
        BY <1>5, <2>1 DEF GoneBack, Moved, Row
      <3>2. call[p].amount \in Int
        BY <1>1, CallParts
      <3> QED BY <1>6, <2>1, <3>1, <3>2
    <2> QED BY <1>3, <1>8, <2>2, <2>3 DEF Stage, Plain, Fresh
  <1>11. DOMAIN rows \subseteq DOMAIN rows'
    BY <1>6
  <1> QED BY <1>1, <1>2, <1>6, <1>8, <1>9, <1>10, <1>11, RunningStep

LEMMA StepSyncPayment ==
    ASSUME AftersalesInv, NEW p \in Procs, SyncPayment(p)
    PROVE  AftersalesInv'
  <1> DEFINE copy == [status |-> call[p].order.status, summary |-> call[p].order.summary,
                      retries |-> call[p].order.retries, refunded |-> Refunded]
             d == [at |-> "syncOrder", does |-> call[p].does, order |-> copy, n |-> call[p].n,
                   amount |-> call[p].amount, row |-> call[p].row]
  <1>1. Typed /\ SettledOk /\ calm' = calm /\ call[p].at = "syncPayment"
        /\ UNCHANGED <<order, asg, books, AfterDelivery>>
    BY DEF SyncPayment, Quietly, At, AftersalesInv
  <1>2. /\ order' \in OrderType /\ asg' \in AssignmentStates
        /\ books' \subseteq {"collected", "waived", "deposited"}
        /\ rets' = rets /\ returned' = returned /\ rows' = rows
        /\ rets' \in Seq(ReturnType) /\ returned' \in Nat /\ rows' \in Seq(RowType)
        /\ DOMAIN rets \subseteq DOMAIN rets' /\ DOMAIN rows \subseteq DOMAIN rows'
    BY <1>1, KeepsTypes, KeepsData
  <1>3. /\ payment' \in PaymentType /\ payment'.status # "awaiting"
        /\ payment'.collected = payment.collected /\ payment'.method = payment.method
        /\ payment'.refunded = Refunded
    <2>1. payment \in PaymentType /\ Refunded \in Int
      BY <1>1, TypeParts
    <2>2. PICK s \in {"refunded", "partial"} :
            payment' = [payment EXCEPT !.refunded = Refunded, !.status = s]
      BY DEF SyncPayment
    <2> QED BY <2>1, <2>2 DEF PaymentType, PaymentStates
  <1>4. call' = [call EXCEPT ![p] = d]
    <2>1. call \in [Procs -> CallType] /\ call[p] \in CallType /\ call[p].order \in CopyType
      BY <1>1, TypeParts, CallParts
    <2>2. PICK c : c = [call[p].order EXCEPT !.refunded = Refunded]
      OBVIOUS
    <2>3. c = copy
      BY <2>1, <2>2 DEF CopyType
    <2>4. PICK e : e = [call[p] EXCEPT !.order = c, !.at = "syncOrder"]
      OBVIOUS
    <2>5. e = d
      BY <2>1, <2>3, <2>4 DEF CallType
    <2>6. call' = [call EXCEPT ![p] = e]
      BY <2>1, <2>2, <2>4 DEF SyncPayment
    <2> QED BY <2>5, <2>6
  <1>5. d \in CallType
    <2>1. copy \in CopyType
      <3>1. Refunded \in Int
        BY <1>1, TypeParts
      <3> QED BY <1>1, <3>1, CallParts DEF CopyType
    <2>2. "syncOrder" \in Steps
      BY DEF Steps
    <2> HIDE DEF copy
    <2> QED BY <1>1, <2>1, <2>2, CallParts DEF CallType
  <1>6. d.at = "syncOrder" /\ d.does = call[p].does /\ d.n = call[p].n
        /\ d.amount = call[p].amount /\ d.row = call[p].row
        /\ d.order.summary = call[p].order.summary /\ d.order.refunded = Refunded
    OBVIOUS
  <1> HIDE DEF d, copy
  <1>7. /\ call' \in [Procs -> CallType] /\ \A q \in Procs \ {p} : call'[q] = call[q]
        /\ call'[p] = d
    BY <1>1, <1>4, <1>5, TypeParts
  <1>8. CallOk(p)'
    <2>1. /\ call[p].does \in {"cancel", "instant", "pass"} /\ call[p].order.summary # "none"
          /\ call[p].does \in Returning => call[p].amount \in Nat /\ call[p].n \in DOMAIN rets
      BY <1>1, CallParts DEF CallOk
    <2> QED BY <1>2, <1>6, <1>7, <2>1 DEF CallOk
  <1>9. Settled'
    BY <1>3 DEF Settled
  <1>10. ASSUME calm, Stage(p) PROVE Stage(p)'
    <2>1. Cause(call[p]) /\ call[p].row # 0 /\ Refunded = call[p].amount
          /\ MovedBack = call[p].amount
      BY <1>1, <1>10 DEF Stage
    <2>2. Cause(call[p])'
      <3>1. Paid' /\ Cleared' /\ "waived" \notin books'
        BY <1>1, <1>3, <2>1 DEF Cause, Paid, Cleared
      <3> QED BY <1>1, <1>2, <1>6, <1>7, <1>9, <2>1, <3>1, CauseStays
    <2>3. Refunded' = Refunded /\ MovedBack' = MovedBack
      BY <1>2, RowsKept
    <2> QED BY <1>3, <1>6, <1>7, <2>1, <2>2, <2>3 DEF Stage, Plain, Fresh
  <1> QED BY <1>1, <1>2, <1>3, <1>6, <1>7, <1>8, <1>9, <1>10, RunningStep

LEMMA StepSyncOrder ==
    ASSUME AftersalesInv, NEW p \in Procs, SyncOrder(p)
    PROVE  AftersalesInv'
  <1>1. Typed /\ SettledOk /\ calm' = calm /\ call[p].at = "syncOrder"
        /\ UNCHANGED <<asg, payment, books, AfterDelivery>>
    BY DEF SyncOrder, Quietly, At, Cash, AftersalesInv
  <1>2. /\ asg' \in AssignmentStates /\ payment' \in PaymentType
        /\ books' \subseteq {"collected", "waived", "deposited"}
        /\ rets' = rets /\ returned' = returned /\ rows' = rows
        /\ rets' \in Seq(ReturnType) /\ returned' \in Nat /\ rows' \in Seq(RowType)
        /\ DOMAIN rets \subseteq DOMAIN rets' /\ DOMAIN rows \subseteq DOMAIN rows'
    BY <1>1, KeepsTypes, KeepsData
  <1>3. /\ order' \in OrderType /\ order'.status = order.status
        /\ order'.refunded = call[p].order.refunded
    <2>1. order \in OrderType /\ call[p].order.refunded \in Int
      BY <1>1, TypeParts, CallParts
    <2>2. PICK s \in {"refunded", "partial"} :
            order' = [order EXCEPT !.refunded = call[p].order.refunded, !.summary = s]
      BY DEF SyncOrder
    <2> QED BY <2>1, <2>2 DEF OrderType, PaymentStates
  <1>4. Settled /\ Settled'
    BY <1>1 DEF SettledOk, Past, Settled
  <1>5. call[p].does \in {"cancel", "instant", "pass"}
    BY <1>1, CallParts DEF CallOk
  <1>6. PICK step \in {"cancel", "retSave"} :
          Continue(p, step) /\ (step = "cancel" <=> call[p].does = "cancel")
    BY DEF SyncOrder, Does
  <1>7. step \in Steps /\ (step = "retSave" => call[p].does \in Returning)
    BY <1>5, <1>6 DEF Steps, Returning
  <1>8. /\ CallOk(p)' /\ call' \in [Procs -> CallType]
        /\ \A q \in Procs \ {p} : call'[q] = call[q]
        /\ call'[p].at = step /\ call'[p].does = call[p].does
        /\ call'[p].n = call[p].n
        /\ call'[p].amount = call[p].amount /\ call'[p].row = call[p].row
    BY <1>1, <1>2, <1>6, <1>7, ContinueOk
  <1>9. ASSUME calm, Stage(p) PROVE Stage(p)'
    <2>1. /\ Cause(call[p]) /\ call[p].row # 0 /\ call[p].order.refunded = call[p].amount
          /\ Refunded = call[p].amount /\ MovedBack = call[p].amount
          /\ payment.refunded = call[p].amount
      BY <1>1, <1>9 DEF Stage
    <2>2. Refunded' = Refunded /\ MovedBack' = MovedBack
      BY <1>2, RowsKept
    <2>3. /\ Refunded' = call[p].amount /\ MovedBack' = call[p].amount
          /\ payment'.refunded = call[p].amount /\ order'.refunded = call[p].amount
      BY <1>1, <1>3, <2>1, <2>2
    <2>4. Paid' /\ Cleared' /\ "waived" \notin books'
      BY <1>1, <2>1 DEF Cause, Paid, Cleared
    <2>5. CASE call[p].does = "cancel"
      <3>1. call[p].amount = Units /\ order.status \in Cancellable /\ rets = <<>> /\ returned = 0
        BY <2>1, <2>5 DEF Cause
      <3>2. Cancelling'
        BY <1>2, <1>3, <1>4, <2>3, <2>4, <3>1 DEF Cancelling, Sums
      <3>3. call'[p].at = "cancel"
        BY <1>6, <1>8, <2>5
      <3> QED BY <3>2, <3>3 DEF Stage, Plain, Fresh
    <2>6. CASE call[p].does # "cancel"
      <3>1. Sent /\ call[p].n = 1 /\ call[p].amount = rets[1].qty
            /\ call[p].does \in {"instant", "pass"}
        BY <2>1, <2>6 DEF Cause
      <3>2. Sent'
        BY <1>2, <1>4, <2>4, <3>1 DEF Sent
      <3>3. call'[p].at = "retSave"
        BY <1>6, <1>8, <2>6
      <3>4. call'[p].n = 1 /\ call'[p].amount = rets'[1].qty /\ call'[p].row # 0
            /\ call'[p].does \in {"instant", "pass"}
        BY <1>2, <1>8, <2>1, <3>1
      <3>5. /\ Refunded' = call'[p].amount /\ MovedBack' = call'[p].amount
            /\ payment'.refunded = call'[p].amount /\ order'.refunded = call'[p].amount
        BY <1>8, <2>3
      <3> QED BY <2>4, <3>2, <3>3, <3>4, <3>5 DEF Stage, Sums, Plain, Fresh
    <2> QED BY <2>5, <2>6
  <1>10. call[p].at # "idle" /\ call'[p].at # "idle"
    BY <1>1, <1>8
  <1> QED BY <1>1, <1>2, <1>3, <1>4, <1>8, <1>9, <1>10, RunningStep

-----------------------------------------------------------------------------
(* The return. *)

LEMMA ReturnsLength ==
    ASSUME rets \in Seq(ReturnType)
    PROVE  DOMAIN rets = 1 .. Len(rets) /\ Len(rets) \in Nat
  <1> DEFINE T == ReturnType
  <1> HIDE DEF T
  <1>1. rets \in Seq(T) => DOMAIN rets = 1 .. Len(rets) /\ Len(rets) \in Nat
    OBVIOUS
  <1> QED BY <1>1 DEF T

LEMMA StepInsertReturn ==
    ASSUME AftersalesInv, NEW p \in Procs, InsertReturn(p)
    PROVE  AftersalesInv'
  <1> DEFINE r == [status |-> "approved", qty |-> call[p].amount]
             d == [at |-> "mirror", does |-> call[p].does, order |-> call[p].order,
                   n |-> Len(rets) + 1, amount |-> call[p].amount, row |-> call[p].row]
  <1>1. Typed /\ SettledOk /\ calm' = calm /\ call[p].at = "retCreate"
        /\ UNCHANGED <<order, asg, payment, books, returned, rows>> /\ rets' = Append(rets, r)
    BY DEF InsertReturn, Quietly, At, Cash, AftersalesInv
  <1>2. /\ order' \in OrderType /\ asg' \in AssignmentStates /\ payment' \in PaymentType
        /\ books' \subseteq {"collected", "waived", "deposited"}
        /\ rows' \in Seq(RowType) /\ returned' \in Nat /\ DOMAIN rows \subseteq DOMAIN rows'
    BY <1>1, KeepsTypes, KeepsData
  <1>3. call[p].does \in Returning /\ call[p].amount \in Nat /\ call[p].order.summary # "none"
    BY <1>1, CallParts DEF CallOk
  <1>4. r \in ReturnType /\ r.status = "approved" /\ r.qty = call[p].amount
    BY <1>3 DEF ReturnType, ReturnStates
  <1>5. rets \in Seq(ReturnType) /\ Len(rets) \in Nat /\ DOMAIN rets = 1 .. Len(rets)
    BY <1>1, ReturnsLength DEF Typed
  <1>6. call' = [call EXCEPT ![p] = d]
    <2>1. call \in [Procs -> CallType] /\ call[p] \in CallType
      BY <1>1, TypeParts
    <2>2. PICK e : e = [call[p] EXCEPT !.n = Len(rets) + 1, !.at = "mirror"]
      OBVIOUS
    <2>3. e = d
      BY <2>1, <2>2 DEF CallType
    <2>4. call' = [call EXCEPT ![p] = e]
      BY <2>1, <2>2 DEF InsertReturn
    <2> QED BY <2>3, <2>4
  <1>7. d \in CallType
    <2>1. "mirror" \in Steps
      BY DEF Steps
    <2> QED BY <1>1, <1>5, <2>1, CallParts DEF CallType
  <1>8. d.at = "mirror" /\ d.does = call[p].does /\ d.n = Len(rets) + 1
        /\ d.amount = call[p].amount /\ d.order = call[p].order /\ d.row = call[p].row
    OBVIOUS
  <1> HIDE DEF d, r
  <1>9. /\ call' \in [Procs -> CallType] /\ \A q \in Procs \ {p} : call'[q] = call[q]
        /\ call'[p] = d
    BY <1>1, <1>6, <1>7, TypeParts
  <1>10. /\ rets' \in Seq(ReturnType) /\ DOMAIN rets \subseteq DOMAIN rets'
         /\ Len(rets') = Len(rets) + 1 /\ Len(rets) + 1 \in DOMAIN rets'
         /\ rets'[Len(rets) + 1] = r
    <2> DEFINE T == ReturnType
    <2>1. rets \in Seq(T) /\ r \in T
      BY <1>4, <1>5
    <2> HIDE DEF T
    <2>2. /\ rets' \in Seq(T) /\ DOMAIN rets \subseteq DOMAIN rets'
          /\ Len(rets') = Len(rets) + 1 /\ Len(rets) + 1 \in DOMAIN rets'
          /\ rets'[Len(rets) + 1] = r
      BY <1>1, <1>5, <2>1
    <2> QED BY <2>2 DEF T
  <1>11. CallOk(p)'
    BY <1>3, <1>8, <1>9, <1>10 DEF CallOk
  <1>12. Settled /\ Settled'
    BY <1>1 DEF SettledOk, Past, Settled
  <1>13. ASSUME calm, Stage(p) PROVE Stage(p)'
    <2>1. Whole /\ order.status = "delivered" /\ call[p].amount \in 1..Units
          /\ call[p].does \in {"instant", "ask"} /\ call[p].row = 0
      BY <1>1, <1>13 DEF Stage, Plain
    <2>2. Open /\ Cleared
      BY <2>1 DEF Whole, Gone, Back, ReturnStates
    <2>3. rets = <<>> /\ returned = 0 /\ Sums(0) /\ Paid /\ "waived" \notin books
      BY <1>12, <2>2 DEF Open
    <2>4. Len(rets) = 0
      BY <2>3
    <2>5. Len(rets') = 1 /\ rets'[1] = r /\ call'[p].n = 1
      BY <1>8, <1>9, <1>10, <2>4
    <2>6. Paid' /\ Cleared' /\ Refunded' = Refunded /\ MovedBack' = MovedBack
      BY <1>1, <2>2, <2>3, RowsKept DEF Paid, Cleared
    <2>7. Sums(0)'
      BY <1>1, <2>3, <2>6 DEF Sums
    <2>8. Sent'
      BY <1>1, <1>4, <1>12, <2>1, <2>3, <2>5, <2>6 DEF Sent
    <2>9. Mirrored(p)' = "approved"
      BY <1>8, <1>9, <2>1 DEF Mirrored, Does
    <2> QED BY <1>4, <1>8, <1>9, <2>1, <2>5, <2>6, <2>7, <2>8, <2>9 DEF Stage, Plain, Fresh
  <1> QED BY <1>1, <1>2, <1>8, <1>9, <1>10, <1>11, <1>12, <1>13, RunningStep

LEMMA StepSaveReturn ==
    ASSUME AftersalesInv, NEW p \in Procs, SaveReturn(p)
    PROVE  AftersalesInv'
  <1> DEFINE k == call[p].n
             s == NextReturn(p)
  <1>1. Typed /\ SettledOk /\ calm' = calm /\ call[p].at = "retSave" /\ Continue(p, "mirror")
        /\ UNCHANGED <<order, asg, payment, books, returned, rows>>
        /\ rets' = [rets EXCEPT ![k].status = s]
    BY DEF SaveReturn, Quietly, At, Cash, AftersalesInv
  <1>2. /\ order' \in OrderType /\ asg' \in AssignmentStates /\ payment' \in PaymentType
        /\ books' \subseteq {"collected", "waived", "deposited"}
        /\ rows' \in Seq(RowType) /\ returned' \in Nat /\ DOMAIN rows \subseteq DOMAIN rows'
    BY <1>1, KeepsTypes, KeepsData
  <1>3. call[p].does \in Returning /\ call[p].amount \in Nat /\ k \in DOMAIN rets
    BY <1>1, CallParts DEF CallOk
  <1>4. s \in ReturnStates
    BY DEF NextReturn, ReturnStates
  <1>5. PICK r : r = [rets[k] EXCEPT !.status = s]
    OBVIOUS
  <1>6. rets[k] \in ReturnType
    BY <1>1, <1>3, TypeParts
  <1>7. r \in ReturnType /\ r.status = s /\ r.qty = rets[k].qty
    <2> HIDE DEF s, k
    <2> QED BY <1>4, <1>5, <1>6 DEF ReturnType
  <1> HIDE DEF s
  <1>8. /\ rets' \in Seq(ReturnType) /\ DOMAIN rets' = DOMAIN rets /\ Len(rets') = Len(rets)
        /\ rets'[k] = r
    <2> DEFINE T == ReturnType
    <2>1. rets \in Seq(T) /\ r \in T /\ rets' = [rets EXCEPT ![k] = r]
      BY <1>1, <1>5, <1>7 DEF Typed
    <2> HIDE DEF T, k
    <2>2. /\ rets' \in Seq(T) /\ DOMAIN rets' = DOMAIN rets /\ Len(rets') = Len(rets)
          /\ rets'[k] = r
      BY <1>3, <2>1
    <2> QED BY <2>2 DEF T
  <1>9. "mirror" \in Steps
    BY DEF Steps
  <1>10. /\ CallOk(p)' /\ call' \in [Procs -> CallType]
         /\ \A q \in Procs \ {p} : call'[q] = call[q]
         /\ call'[p].at = "mirror" /\ call'[p].does = call[p].does
         /\ call'[p].n = call[p].n
         /\ call'[p].amount = call[p].amount /\ call'[p].row = call[p].row
    BY <1>1, <1>3, <1>8, <1>9, ContinueOk
  <1>11. Settled /\ Settled'
    BY <1>1 DEF SettledOk, Past, Settled
  <1>12. ASSUME calm, Stage(p) PROVE Stage(p)'
    <2>1. Sent /\ Cleared /\ k = 1 /\ call[p].amount = rets[1].qty
      BY <1>1, <1>12 DEF Stage
    <2>2. (Paid' <=> Paid) /\ Cleared' /\ Refunded' = Refunded /\ MovedBack' = MovedBack
      BY <1>1, <2>1, RowsKept DEF Paid, Cleared
    <2>3. Sent'
      BY <1>1, <1>7, <1>8, <1>11, <2>1, <2>2 DEF Sent
    <2>4. \/ call[p].row = 0 /\ call[p].does \in {"pickup", "pass", "reject"} /\ Sums(0)
          \/ call[p].row # 0 /\ call[p].does \in {"instant", "pass"} /\ Sums(call[p].amount)
      BY <1>1, <1>12 DEF Stage
    <2>5. Mirrored(p)' = s
      BY <1>10, <2>4 DEF Mirrored, Does, NextReturn, s
    <2>6. \A n : Sums(n)' <=> Sums(n)
      BY <1>1, <2>2 DEF Sums
    <2>7. \/ call'[p].row = 0 /\ Sums(0)'
          \/ call'[p].row # 0 /\ call'[p].does \in {"instant", "pass"} /\ Sums(call[p].amount)'
      BY <1>10, <2>4, <2>6 DEF Sums
    <2>8. rets'[1].status = s /\ call'[p].n = 1 /\ call'[p].amount = rets'[1].qty
      BY <1>7, <1>8, <1>10, <2>1
    <2> QED BY <1>10, <2>2, <2>3, <2>5, <2>7, <2>8 DEF Stage, Plain, Fresh
  <1> QED BY <1>1, <1>2, <1>8, <1>10, <1>11, <1>12, RunningStep

LEMMA StepMirror ==
    ASSUME AftersalesInv, NEW p \in Procs, Mirror(p)
    PROVE  AftersalesInv'
  <1>1. Typed /\ SettledOk /\ calm' = calm /\ call[p].at = "mirror"
        /\ UNCHANGED <<asg, payment, books, AfterDelivery>>
    BY DEF Mirror, Quietly, At, Cash, AftersalesInv
  <1>2. /\ asg' \in AssignmentStates /\ payment' \in PaymentType
        /\ books' \subseteq {"collected", "waived", "deposited"}
        /\ rets' = rets /\ returned' = returned /\ rows' = rows
        /\ rets' \in Seq(ReturnType) /\ returned' \in Nat /\ rows' \in Seq(RowType)
        /\ DOMAIN rets \subseteq DOMAIN rets' /\ DOMAIN rows \subseteq DOMAIN rows'
    BY <1>1, KeepsTypes, KeepsData
  <1>3. /\ order' \in OrderType /\ order'.status = Mirrored(p)
        /\ order'.refunded = order.refunded /\ order'.summary = order.summary
    <2>1. order \in OrderType
      BY <1>1, TypeParts
    <2>2. PICK s : s = Mirrored(p)
      OBVIOUS
    <2>3. order' = [order EXCEPT !.status = s]
      BY <2>2 DEF Mirror, Mirrored
    <2>4. s \in OrderStates
      BY <2>2 DEF Mirrored, NextReturn, OrderStates
    <2> QED BY <2>1, <2>2, <2>3, <2>4 DEF OrderType
  <1>4. Settled /\ Settled'
    BY <1>1 DEF SettledOk, Past, Settled
  <1>5. call[p].does \in Returning
    BY <1>1, CallParts DEF CallOk
  <1>6. (Paid' <=> Paid) /\ (Cleared' <=> Cleared) /\ Refunded' = Refunded /\ MovedBack' = MovedBack
    BY <1>1, <1>2, RowsKept DEF Paid, Cleared
  <1>7. \A n : Sums(n)' <=> Sums(n)
    BY <1>1, <1>3, <1>6 DEF Sums
  <1>8. calm /\ Stage(p) =>
          /\ Sent' /\ Cleared' /\ call[p].n = 1 /\ call[p].amount = rets'[1].qty
          /\ rets'[1].status = Mirrored(p) /\ (call[p].row = 0 => Sums(0)')
          /\ call[p].row # 0 => Sums(call[p].amount) /\ call[p].does \in {"instant", "pass"}
    <2> SUFFICES ASSUME calm, Stage(p)
                 PROVE  /\ Sent' /\ Cleared' /\ call[p].n = 1 /\ call[p].amount = rets'[1].qty
                        /\ rets'[1].status = Mirrored(p) /\ (call[p].row = 0 => Sums(0)')
                        /\ call[p].row # 0 =>
                              Sums(call[p].amount) /\ call[p].does \in {"instant", "pass"}
      OBVIOUS
    <2>1. /\ Sent /\ Cleared /\ call[p].n = 1 /\ call[p].amount = rets[1].qty
          /\ rets[1].status = Mirrored(p) /\ (call[p].row = 0 => Sums(0))
          /\ call[p].row # 0 => Sums(call[p].amount) /\ call[p].does \in {"instant", "pass"}
      BY <1>1 DEF Stage
    <2>2. Sent'
      BY <1>1, <1>2, <1>4, <1>6, <2>1 DEF Sent
    <2> QED BY <1>2, <1>6, <1>7, <2>1, <2>2
  <1>9. CASE call[p].row # 0
    <2>1. Continue(p, "returned") /\ "returned" \in Steps
      BY <1>9 DEF Mirror, Steps
    <2>2. /\ CallOk(p)' /\ call' \in [Procs -> CallType]
          /\ \A q \in Procs \ {p} : call'[q] = call[q]
          /\ call'[p].at = "returned" /\ call'[p].does = call[p].does
          /\ call'[p].n = call[p].n
          /\ call'[p].amount = call[p].amount /\ call'[p].row = call[p].row
      BY <1>1, <1>2, <1>5, <2>1, ContinueOk
    <2>3. ASSUME calm, Stage(p) PROVE Stage(p)'
      <3>1. Mirrored(p) = "refunded" /\ call[p].does \in {"instant", "pass"}
        BY <1>8, <1>9, <2>3 DEF Mirrored, NextReturn, Does
      <3>2. Sums(call[p].amount)
        BY <1>8, <1>9, <2>3
      <3>3. Sums(call[p].amount)'
        BY <1>1, <1>3, <1>6, <2>2, <3>2 DEF Sums
      <3> QED BY <1>3, <1>8, <1>9, <2>2, <2>3, <3>1, <3>3 DEF Stage, Plain, Fresh
    <2> QED BY <1>1, <1>2, <1>3, <1>4, <2>2, <2>3, RunningStep
  <1>10. CASE call[p].row = 0 /\ call[p].does \in {"instant", "pass"}
    <2>1. Continue(p, "row") /\ "row" \in Steps
      BY <1>10 DEF Mirror, Steps, Plain, Does
    <2>2. /\ CallOk(p)' /\ call' \in [Procs -> CallType]
          /\ \A q \in Procs \ {p} : call'[q] = call[q]
          /\ call'[p].at = "row" /\ call'[p].does = call[p].does
          /\ call'[p].n = call[p].n
          /\ call'[p].amount = call[p].amount /\ call'[p].row = call[p].row
      BY <1>1, <1>2, <1>5, <1>10, <2>1, ContinueOk
    <2>3. ASSUME calm, Stage(p) PROVE Stage(p)'
      <3>1. Mirrored(p) \in {"approved", "passed"}
        BY <1>10 DEF Mirrored, NextReturn, Does
      <3>2. Sent' /\ Cleared' /\ Sums(0)' /\ rets'[1].status = order'.status
            /\ order'.status \in {"approved", "passed"}
        BY <1>3, <1>8, <1>10, <2>3, <3>1
      <3>3. Back'
        BY <3>2 DEF Sent, Back, ReturnStates
      <3>4. Cause(call[p])'
        BY <1>8, <1>10, <2>2, <2>3, <3>2 DEF Cause, Sent
      <3> QED BY <2>2, <3>2, <3>3, <3>4 DEF Stage, Plain, Fresh, Whole
    <2>4. call[p].at # "idle"
      BY <1>1
    <2> QED BY <1>1, <1>2, <1>3, <1>4, <2>2, <2>3, <2>4, RunningStep
  <1>11. CASE call[p].row = 0 /\ call[p].does \in {"ask", "pickup", "reject"}
    <2>1. Return(p)
      BY <1>11 DEF Mirror, Does
    <2>2. /\ CallOk(p)' /\ call' \in [Procs -> CallType]
          /\ \A q \in Procs \ {p} : call'[q] = call[q]
          /\ call'[p].at = "idle"
      BY <1>1, <2>1, ReturnOk
    <2>3. ASSUME calm, Stage(p) PROVE Whole'
      <3>1. Mirrored(p) \in {"approved", "picked", "rejected"}
        BY <1>11 DEF Mirrored, NextReturn, Does
      <3>2. Sent' /\ Cleared' /\ Sums(0)' /\ rets'[1].status = order'.status
            /\ order'.status \in {"approved", "picked", "rejected"}
        BY <1>3, <1>8, <1>11, <2>3, <3>1
      <3>3. Back'
        BY <3>2 DEF Sent, Back, ReturnStates
      <3> QED BY <3>2, <3>3 DEF Whole
    <2>4. call[p].at # "idle"
      BY <1>1
    <2> QED BY <1>1, <1>2, <1>3, <1>4, <2>2, <2>3, <2>4, RunningStep
  <1> QED BY <1>5, <1>9, <1>10, <1>11 DEF Returning

LEMMA StepMarkReturned ==
    ASSUME AftersalesInv, NEW p \in Procs, MarkReturned(p)
    PROVE  AftersalesInv'
  <1>1. Typed /\ SettledOk /\ calm' = calm /\ call[p].at = "returned" /\ Return(p)
        /\ UNCHANGED <<order, asg, payment, books, rets, rows>>
        /\ returned' = returned + call[p].amount
    BY DEF MarkReturned, Quietly, At, Cash, AftersalesInv
  <1>2. /\ order' \in OrderType /\ asg' \in AssignmentStates /\ payment' \in PaymentType
        /\ books' \subseteq {"collected", "waived", "deposited"}
        /\ rets' \in Seq(ReturnType) /\ rows' \in Seq(RowType)
        /\ DOMAIN rets \subseteq DOMAIN rets' /\ DOMAIN rows \subseteq DOMAIN rows'
    BY <1>1, KeepsTypes, KeepsData
  <1>3. returned' \in Nat
    <2>1. call[p].amount \in Nat
      BY <1>1, CallParts DEF CallOk
    <2> QED BY <1>1, <2>1 DEF Typed
  <1>4. /\ CallOk(p)' /\ call' \in [Procs -> CallType]
        /\ \A q \in Procs \ {p} : call'[q] = call[q]
        /\ call'[p].at = "idle"
    BY <1>1, ReturnOk
  <1>5. Settled /\ Settled'
    BY <1>1 DEF SettledOk, Past, Settled
  <1>6. ASSUME calm, Stage(p) PROVE Whole'
    <2>1. /\ Sent /\ Cleared /\ call[p].amount = rets[1].qty /\ Sums(call[p].amount)
          /\ order.status = "refunded" /\ rets[1].status = "refunded"
      BY <1>1, <1>6 DEF Stage
    <2>2. Refunded' = Refunded /\ MovedBack' = MovedBack /\ (Paid' <=> Paid) /\ Cleared'
      BY <1>1, <2>1, RowsKept DEF Paid, Cleared
    <2>3. returned' = rets[1].qty
      BY <1>1, <2>1, AftersalesAssumption DEF Sent
    <2>4. Sums(returned)'
      BY <1>1, <2>1, <2>2, <2>3 DEF Sums
    <2>5. Back'
      BY <1>1, <1>5, <2>1, <2>2, <2>3, <2>4 DEF Sent, Back, ReturnStates
    <2> QED BY <2>2, <2>5 DEF Whole
  <1> QED BY <1>1, <1>2, <1>3, <1>4, <1>5, <1>6, RunningStep

-----------------------------------------------------------------------------
(* A call that dies, and the theorems. *)

LEMMA StepCrash ==
    ASSUME AftersalesInv, NEW p \in Procs, Crash(p)
    PROVE  AftersalesInv'
  <1>1. Typed /\ SettledOk /\ CalmOk /\ calm' = FALSE /\ Return(p)
        /\ UNCHANGED <<order, asg, Cash, AfterDelivery>>
    BY DEF Crash, AftersalesInv
  <1>2. /\ CallOk(p)' /\ call' \in [Procs -> CallType]
        /\ \A q \in Procs \ {p} : call'[q] = call[q]
        /\ call'[p].at = "idle"
    BY <1>1, ReturnOk
  <1>3. Typed'
    <2>1. /\ order' \in OrderType /\ asg' \in AssignmentStates /\ payment' \in PaymentType
          /\ books' \subseteq {"collected", "waived", "deposited"}
          /\ rets' \in Seq(ReturnType) /\ returned' \in Nat /\ rows' \in Seq(RowType)
          /\ calm' \in BOOLEAN /\ DOMAIN rets \subseteq DOMAIN rets'
          /\ DOMAIN rows \subseteq DOMAIN rows'
      BY <1>1, KeepsTypes, KeepsData DEF Cash
    <2> QED BY <1>1, <1>2, <2>1, TypeStep
  <1>4. SettledOk'
    <2>1. Frozen
      BY <1>1, StillFrozen
    <2>2. Settled' <=> Settled
      BY <2>1, FrozenKeeps
    <2>3. ~Settled => /\ order'.summary = "awaiting" /\ ~WasDelivered' /\ rets' = <<>>
                      /\ call'[p].at = "idle" /\ call'[p].at \notin Past
      BY <1>1, <1>2, <2>1, FrozenKeeps DEF SettledOk, Frozen, Past
    <2> QED BY <1>1, <1>2, <2>2, <2>3, SettledStep
  <1>5. CalmOk'
    BY <1>1, <1>2, CalmStep
  <1> QED BY <1>3, <1>4, <1>5 DEF AftersalesInv

LEMMA InitInv == Init => AftersalesInv
  <1> SUFFICES ASSUME Init PROVE AftersalesInv
    OBVIOUS
  <1>1. PICK m \in Methods :
          LET status == IF m = "cash" THEN "awaiting" ELSE "success" IN
          /\ order = [status |-> "packed", summary |-> status, retries |-> 0, refunded |-> 0]
          /\ payment = [method |-> m, status |-> status, collected |-> FALSE,
                        deposited |-> FALSE, refunded |-> 0]
    BY DEF Init
  <1>2. m \in {"cash", "prepaid"}
    BY AftersalesAssumption
  <1>3. /\ asg = "none" /\ books = {} /\ rets = <<>> /\ returned = 0 /\ rows = <<>>
        /\ call = [p \in Procs |-> Idle] /\ calm = TRUE
    BY DEF Init
  <1>4. \A p \in Procs : call[p] = Idle /\ call[p].at = "idle" /\ call[p].does = "none"
    BY <1>3 DEF Idle
  <1>5. Typed
    <2>1. 0 \in 0..MaxFails
      BY AftersalesAssumption
    <2>2. order \in OrderType /\ payment \in PaymentType
      BY <1>1, <1>2, <2>1 DEF OrderType, PaymentType, OrderStates, PaymentStates
    <2>3. rets \in Seq(ReturnType) /\ rows \in Seq(RowType)
      BY <1>3
    <2>4. call \in [Procs -> CallType]
      BY <1>3, IdleTyped
    <2>5. \A p \in Procs : CallOk(p)
      BY <1>4 DEF CallOk, Returning
    <2> QED BY <1>3, <2>2, <2>3, <2>4, <2>5 DEF Typed, AssignmentStates
  <1>6. SettledOk
    BY <1>1, <1>2, <1>3, <1>4 DEF SettledOk, Settled, WasDelivered, Past
  <1>7. Refunded = 0 /\ MovedBack = 0
    <2> DEFINE f == [n \in DOMAIN rows |-> IF rows[n].status = "success" THEN rows[n].amount ELSE 0]
               g == [n \in DOMAIN rows |-> IF rows[n].moved THEN rows[n].amount ELSE 0]
    <2>1. DOMAIN f = {} /\ DOMAIN g = {}
      BY <1>3
    <2>2. Refunded = SumFunction(f) /\ MovedBack = SumFunction(g)
      BY DEF Refunded, MovedBack
    <2> HIDE DEF f, g
    <2> QED BY <2>1, <2>2, SumOfNone DEF SumFunction
  <1>8. Whole
    <2>1. Sums(0)
      BY <1>1, <1>7 DEF Sums
    <2>2. IF Settled THEN Paid ELSE ~Paid
      BY <1>1, <1>2 DEF Settled, Paid
    <2>3. order.summary = payment.status /\ payment.status \in {"awaiting", "success"}
      BY <1>1
    <2>4. Open
      BY <1>1, <1>3, <2>1, <2>2, <2>3 DEF Open, Undelivered
    <2>5. Cleared
      BY <1>1, <1>3 DEF Cleared
    <2> QED BY <2>4, <2>5 DEF Whole
  <1>9. CalmOk
    BY <1>4, <1>8 DEF CalmOk, Running, At
  <1> QED BY <1>5, <1>6, <1>9 DEF AftersalesInv

LEMMA StutterInv == AftersalesInv /\ UNCHANGED vars => AftersalesInv'
  <1> SUFFICES ASSUME AftersalesInv, UNCHANGED vars PROVE AftersalesInv'
    OBVIOUS
  <1>1. /\ order' = order /\ asg' = asg /\ payment' = payment /\ books' = books /\ rets' = rets
        /\ returned' = returned /\ rows' = rows /\ call' = call /\ calm' = calm
    BY DEF vars
  <1>2. Frozen
    BY <1>1 DEF Frozen
  <1>3. Typed'
    BY <1>1 DEF AftersalesInv, Typed, CallOk
  <1>4. SettledOk'
    BY <1>1, <1>2, FrozenKeeps DEF AftersalesInv, SettledOk
  <1>5. CalmOk'
    <2>1. Refunded' = Refunded /\ MovedBack' = MovedBack
      BY <1>1, RowsKept
    <2>2. ASSUME NEW p \in Procs, Stage(p) PROVE Stage(p)'
      <3>1. (Cause(call[p])' <=> Cause(call[p])) /\ (Row(call[p])' <=> Row(call[p]))
        BY <1>1, <1>2, FrozenKeeps DEF Cause, Row
      <3>2. /\ Taken' <=> Taken
            /\ Waiving' <=> Waiving
            /\ Cancelling' <=> Cancelling
            /\ Mirrored(p)' = Mirrored(p)
            /\ Sums(0)' <=> Sums(0)
            /\ Sums(call[p].amount)' <=> Sums(call[p].amount)
        BY <1>1, <1>2, <2>1, FrozenKeeps
        DEF Taken, Waiving, Cancelling, Sums, Mirrored, Does, NextReturn
      <3> QED BY <1>1, <1>2, <2>1, <2>2, <3>1, <3>2, FrozenKeeps DEF Stage
    <2> QED BY <1>1, <1>2, <2>2, FrozenKeeps DEF AftersalesInv, CalmOk, Running, At
  <1> QED BY <1>3, <1>4, <1>5 DEF AftersalesInv

LEMMA NextInv == AftersalesInv /\ [Next]_vars => AftersalesInv'
  <1> SUFFICES ASSUME AftersalesInv, Next PROVE AftersalesInv'
    BY StutterInv
  <1>1. PICK p \in Procs : Ask(p) \/ Advance(p) \/ Crash(p)
    BY DEF Next
  <1>2. CASE Ask(p)
    BY <1>2, StepDispatch, StepLegFind, StepCollect, StepComplete, StepDeliver, StepDeposit,
       StepFail, StepCancel, StepCreateReturn, StepPickUp, StepQc DEF Ask
  <1>3. CASE Advance(p)
    BY <1>3, StepAssign, StepLeave, StepLegSave, StepReadPayment, StepClaim, StepPostCollected,
       StepSummarize, StepSync, StepForceArrived, StepPod, StepPodSave, StepDeliverSave,
       StepDepositClaim, StepDepositPost, StepFailAsg, StepCountRetry, StepFailOrder,
       StepCancelRead, StepWaive, StepPostWaived, StepCancelSave, StepCreateRow, StepMove,
       StepSaveRow, StepSyncPayment, StepSyncOrder, StepInsertReturn, StepSaveReturn,
       StepMirror, StepMarkReturned DEF Advance
  <1>4. CASE Crash(p)
    BY <1>4, StepCrash
  <1> QED BY <1>1, <1>2, <1>3, <1>4

\* The invariant the properties below rest on: the types; that whatever speaks
\* of settled cash comes after it was settled; and, while calls come one at a
\* time, what each step of the running one leaves true of order, payment, rows
\* and returns.
THEOREM AftersalesInvariant == Spec => []AftersalesInv
  BY InitInv, NextInv, PTL DEF Spec

\* Order, payment, assignment and the counters keep their types, the count of
\* failed deliveries its bound (models/Order.js, models/Payment.js).
THEOREM AftersalesTypeSafe == Spec => []TypeOK
  <1>1. AftersalesInv => TypeOK
    <2> SUFFICES ASSUME AftersalesInv PROVE TypeOK
      OBVIOUS
    <2>1. /\ order.status \in OrderStates /\ order.summary \in PaymentStates
          /\ order.retries \in 0..MaxFails /\ payment.status \in PaymentStates
      BY TypeParts DEF AftersalesInv
    <2>2. asg \in AssignmentStates /\ returned \in Nat
      BY DEF AftersalesInv, Typed
    <2> QED BY <2>1, <2>2 DEF TypeOK, OrderStates, PaymentStates, AssignmentStates
  <1> QED BY <1>1, AftersalesInvariant, PTL

\* Whoever overlaps with whom and whatever dies half way, no cash order is
\* delivered while its cash is still awaited (the gates of complete and
\* deliver, and the compare-and-set of collectCashOnDelivery).
THEOREM AftersalesDeliveredIsSettled == Spec => []DeliveredIsSettled
  <1>1. AftersalesInv => DeliveredIsSettled
    BY DEF AftersalesInv, SettledOk, Settled, DeliveredIsSettled
  <1> QED BY <1>1, AftersalesInvariant, PTL

LEMMA CalmWhole ==
    ASSUME AftersalesInv, calm, Running = {}
    PROVE  Whole
  BY DEF AftersalesInv, CalmOk

\* One call at a time, the receivable is cleared by the cash exactly when the
\* cash was collected, and waived only on a cancelled order nobody paid.
THEOREM AftersalesReceivableCleared == Spec => []ReceivableCleared
  <1>1. AftersalesInv => ReceivableCleared
    <2> SUFFICES ASSUME AftersalesInv, calm, Running = {}
                 PROVE  /\ "collected" \in books <=> payment.collected
                        /\ "waived" \in books =>
                              order.status = "cancelled" /\ ~payment.collected
      BY DEF ReceivableCleared
    <2> QED BY CalmWhole DEF Whole, Cleared, Open, Gone, Back
  <1> QED BY <1>1, AftersalesInvariant, PTL

\* One call at a time, a cancelled order that was paid has gone back in full,
\* and no order gets back more than was paid for it, whatever the gateway
\* refused on the way.
THEOREM AftersalesCancelledIsReturned == Spec => []CancelledIsReturned
  <1>1. AftersalesInv => CancelledIsReturned
    <2> SUFFICES ASSUME AftersalesInv, calm, Running = {}
                 PROVE  /\ order.status = "cancelled" /\ Paid => MovedBack = Units
                        /\ MovedBack <= IF Paid THEN Units ELSE 0
      BY DEF CancelledIsReturned, Paid
    <2>1. Whole
      BY CalmWhole
    <2>2. CASE Open
      BY <2>2, AftersalesAssumption DEF Open, Sums, Undelivered
    <2>3. CASE Gone
      BY <2>3, AftersalesAssumption DEF Gone, Sums
    <2>4. CASE Back
      <3>1. order.status # "cancelled" /\ Paid /\ MovedBack = returned
            /\ (returned = 0 \/ returned \in 1..Units)
        BY <2>4 DEF Back, ReturnStates, Sums
      <3> QED BY <3>1, AftersalesAssumption
    <2> QED BY <2>1, <2>2, <2>3, <2>4 DEF Whole
  <1> QED BY <1>1, AftersalesInvariant, PTL

\* One call at a time, payment, order, refund rows and the money that moved
\* agree, and what is returned is what was paid back for it.
THEOREM AftersalesRefundsAgree == Spec => []RefundsAgree
  <1>1. AftersalesInv => RefundsAgree
    <2> SUFFICES ASSUME AftersalesInv, calm, Running = {}
                 PROVE  /\ payment.refunded = Refunded /\ order.refunded = Refunded
                        /\ MovedBack = Refunded
                        /\ order.status # "cancelled" => returned = Refunded
      BY DEF RefundsAgree
    <2> QED BY CalmWhole DEF Whole, Open, Gone, Back, Sums
  <1> QED BY <1>1, AftersalesInvariant, PTL
=============================================================================

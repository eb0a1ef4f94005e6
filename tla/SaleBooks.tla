------------------------------ MODULE SaleBooks ------------------------------
(***************************************************************************)
(* The money of one order through every book that computes it again: the   *)
(* checkout's charge, the sale journal, the vendors' payout lines, the tax *)
(* invoices, the refunds with the slices of the journal they reverse, and  *)
(* the credit notes.  Each book rounds to the paisa by itself.             *)
(*                                                                         *)
(* Amounts are paise; the rupee floats orders are stored in hold such      *)
(* amounts exactly.  Where the code multiplies rupees, a tie may round     *)
(* either way, since the double product can fall just short of it.         *)
(***************************************************************************)
EXTENDS Money

CONSTANTS
    Baskets,       \* carts: sequences of [seller, price, qty, bps, category]
    Tables,        \* what TaxPolicy may answer for a past date: a rate per category
    Discounts,     \* what the coupon takes off
    Fees,          \* delivery fees
    Inclusive,     \* config.tax.pricesInclusive
    CommissionBps, \* the vendors' commission rate
    Amounts,       \* refunds an administrator may give
    FeeWhen,       \* when the store's policy refunds the delivery fee
    MaxRefunds,    \* bound on refunds
    Writers,       \* requests that write tax documents
    MaxStops       \* bound on such requests that die half way

Store == "store"

\* The numbers of S as a sequence, smallest first.
InOrder(S) == CHOOSE s \in [1 .. Cardinality(S) -> S] : \A j, k \in DOMAIN s : j < k => s[j] < s[k]

ASSUME SaleBooksAssumption ==
    /\ \A b \in Baskets : Len(b) \in Nat \ {0} /\ DOMAIN b = 1 .. Len(b)
    /\ \A b \in Baskets : \A i \in DOMAIN b :
          {b[i].price, b[i].bps} \subseteq Nat /\ b[i].qty \in Nat \ {0}
    /\ \A t \in Tables, b \in Baskets : \A i \in DOMAIN b :
          {t[b[i].category].bps, t[b[i].category].cess} \subseteq Nat
    /\ Discounts \cup Fees \cup Amounts \cup {CommissionBps, MaxRefunds, MaxStops} \subseteq Nat
    /\ CommissionBps <= 10000
    /\ Inclusive \subseteq BOOLEAN
    /\ FeeWhen \subseteq {"never", "full_order_return_only", "always"}

VARIABLES
    order,    \* the order and its items, as checkout stored them
    sale,     \* the sale journal, <<>> until it is posted
    refunds,  \* refundtransactions, with the debits of their journals
    returned, \* orderitems.returnedQty
    docs,     \* taxdocuments
    task,     \* per process: what it still has to write
    stops,    \* requests that died
    uneven    \* ghost: refunds credited by two requests at once, by one that died, or
              \*   beyond the invoices there were

saleVars == <<order, sale, refunds, returned, docs, task, stops, uneven>>

-----------------------------------------------------------------------------
(* Checkout: pricingPolicy.service.js and utils/gst.js *)

\* Math.round(n / d): halves up.
Rounded(n, d) == (2 * n + d) \div (2 * d)
\* The same of a product of doubles.
Nearest(n, d) == {q \in {n \div d, n \div d + 1} : 2 * Abs(q * d - n) <= d}

\* computeLineTax of a price that contains the tax.
Taxable(net, bps) == Rounded(net * 10000, 10000 + bps)
TaxInside(net, bps) == net - Taxable(net, bps)

AllocateDiscount(totals, discount) == AllocatePaise(discount, totals)

\* The tax of each line; on top of an exclusive price it is taken before the discount.
LineTaxes(basket, totals, shares, inclusive) ==
    IF inclusive
    THEN {[i \in DOMAIN basket |-> TaxInside(totals[i] - shares[i], basket[i].bps)]}
    ELSE LET choices == [i \in DOMAIN basket |-> Nearest(totals[i] * basket[i].bps, 10000)] IN
         {f \in [DOMAIN basket -> UNION Range(choices)] : \A i \in DOMAIN basket : f[i] \in choices[i]}

OrderOf(basket, shares, taxes, discount, fee, inclusive) ==
    LET totals == [i \in DOMAIN basket |-> basket[i].price * basket[i].qty]
    IN  [items |-> [i \in DOMAIN basket |->
                      [seller |-> basket[i].seller, price |-> basket[i].price,
                       qty |-> basket[i].qty, bps |-> basket[i].bps, category |-> basket[i].category,
                       total |-> totals[i], discount |-> shares[i], tax |-> taxes[i]]],
         subtotal |-> SumFunction(totals), discount |-> discount, fee |-> fee, inclusive |-> inclusive,
         total |-> SumFunction(totals) - discount + fee + IF inclusive THEN 0 ELSE SumFunction(taxes)]

NoTask == [does |-> "none", refund |-> 0, table |-> <<>>, todo |-> <<>>]

\* A confirmed order, charged at the rates of the active tax policies.  A coupon above
\* the subtotal is left out: it fails an inclusive checkout, and an exclusive one
\* accepts it and can post no journal for it.
SaleInit ==
    /\ \E basket \in Baskets, discount \in Discounts, fee \in Fees, inclusive \in Inclusive :
          LET totals == [i \in DOMAIN basket |-> basket[i].price * basket[i].qty]
              shares == AllocateDiscount(totals, discount)
          IN  /\ discount <= SumFunction(totals)
              /\ \E taxes \in LineTaxes(basket, totals, shares, inclusive) :
                    order = OrderOf(basket, shares, taxes, discount, fee, inclusive)
    /\ sale = <<>> /\ refunds = <<>> /\ docs = <<>>
    /\ returned = [i \in DOMAIN order.items |-> 0]
    /\ task = [p \in Writers |-> NoTask] /\ stops = 0 /\ uneven = {}

Items == order.items
Lines == DOMAIN Items
MaxQty == CHOOSE q \in {Items[i].qty : i \in Lines} : \A i \in Lines : Items[i].qty <= q

-----------------------------------------------------------------------------
(* The sale journal and the payout lines: ledgerPosting and payout services *)

\* Mutant: the tax inside the price stays with the seller.
NetOfShelf(item, identity) == item.total - item.discount

\* buildSaleLines: what the line is worth without its tax.
NetOf(item, identity) == item.total - item.discount - IF identity THEN item.tax ELSE 0

\* buildSaleLines infers how prices were quoted from the order's own figures.
InclusiveIdentity == order.total = order.subtotal - order.discount + order.fee

Commission(item, net) == IF item.seller = Store THEN 0 ELSE ApplyBps(net, CommissionBps)

\* What the sale credits: per line the seller, the commission and the tax, then
\* the fee, then what is left over.  A credit of zero stands for no credit.
SaleCredits ==
    LET n == Len(Items)
        Part(k) == LET item == Items[(k + 2) \div 3]
                       net  == NetOf(item, InclusiveIdentity)
                   IN  CASE k % 3 = 1 -> net - Commission(item, net)
                         [] k % 3 = 2 -> Commission(item, net)
                         [] k % 3 = 0 -> item.tax
        known == [k \in 1 .. 3 * n + 1 |-> IF k <= 3 * n THEN Part(k) ELSE order.fee]
    IN  Append(known, order.total - SumFunction(known))

SellerCredit(i) == sale[3 * i - 2]
RoundingCredit(credits) == credits[Len(credits)]

\* Confirmation posts postSaleCaptured's journal.  A posting that is lost and
\* replayed is left to Ledger and Payout: refunds and invoices come after it here.
Confirm ==
    /\ sale = <<>>
    /\ Abs(RoundingCredit(SaleCredits)) <= 100
    /\ sale' = SaleCredits
    /\ UNCHANGED <<order, refunds, returned, docs, task, stops, uneven>>

\* Mutant: the commission is taken of the price with its tax.
PayoutLineOnGross(item) ==
    LET taxable == item.total - item.discount
        commission == ApplyBps(taxable + item.tax, CommissionBps)
    IN  [gross |-> taxable + item.tax, gst |-> item.tax, commission |-> commission,
         gstOnCommission |-> ApplyBps(commission, 1800), tcs |-> ApplyBps(taxable, 100),
         tds |-> ApplyBps(taxable + item.tax, 100)]

\* computeLineFinancials with the rates of the default policy; accrueForOrder stores
\* it once per vendor line, from the order's figures, which never change.
PayoutLine(item) ==
    LET taxable == item.total - item.discount
        commission == ApplyBps(taxable, CommissionBps)
    IN  [gross |-> taxable + item.tax, gst |-> item.tax, commission |-> commission,
         gstOnCommission |-> ApplyBps(commission, 1800), tcs |-> ApplyBps(taxable, 100),
         tds |-> ApplyBps(taxable + item.tax, 100)]

NetPayable(line) == line.gross - line.commission - line.gstOnCommission - line.tcs - line.tds
\* lineLedgerViewPaise
LedgerView(line) == NetPayable(line) + line.gstOnCommission + line.tcs + line.tds - line.gst

-----------------------------------------------------------------------------
(* Refunds: refundCalculator, refund.service.js and ledger.service.js *)

\* Mutant: the discount is not spread over the units.
UnitRefundsNoDiscount(i) == {Items[i].price}

\* What one unit gives back, tax included, rounded before it is multiplied again:
\* an exclusive price has its tax on top.
UnitRefunds(i) ==
    LET item == Items[i]
        gross == Nearest(item.price * item.qty - item.discount, item.qty)
    IN  IF order.inclusive THEN gross
        ELSE {g + t : g \in gross, t \in Nearest(item.tax, item.qty)}

Reversals == {r \in DOMAIN refunds : refunds[r].debits # <<>>}
ReversedTotal == SumFunction([r \in Reversals |-> refunds[r].amount])

\* original.reversedPaise, which has the amounts that were added to it so far.
Counted == {r \in DOMAIN refunds : refunds[r].state = "counted"}
ReversedPaise == SumFunction([r \in Counted |-> refunds[r].amount])

\* Past the check of what remains and not added to reversedPaise, or dead there.
UnderWay == {r \in DOMAIN refunds : refunds[r].state \in {"checked", "posted"}}

\* Mutant: the last account takes the rest of each slice.
ShareOutLast(amount, credits) == AllocatePaiseLastAbsorbs(amount, credits)

ShareOut(amount, credits) == AllocatePaise(amount, credits)

\* refundService.initiate moves the money, whatever was refunded before.  The ghost
\* `alone` says of a refund that passes the check that no other was under way.
AddRefund(amount, goods) ==
    /\ sale # <<>>
    /\ Len(refunds) < MaxRefunds
    /\ amount > 0
    /\ refunds' = Append(refunds, [amount |-> amount, goods |-> goods, debits |-> <<>>,
                                   state |-> "moved", alone |-> FALSE])
    /\ UNCHANGED <<order, sale, docs, task, stops, uneven>>

\* Mutant: the check of what remains is left out.
RefundFindUnchecked(r) ==
    /\ refunds[r].state = "moved"
    /\ refunds' = [refunds EXCEPT ![r].state = "checked", ![r].alone = UnderWay = {}]
    /\ UNCHANGED <<order, sale, returned, docs, task, stops, uneven>>

\* Then its journal, by reverseProportional or a replay of it: refused beyond what
\* reversedPaise leaves of the sale.
RefundFind(r) ==
    /\ refunds[r].state = "moved"
    /\ refunds' = IF refunds[r].amount > order.total - ReversedPaise
                  THEN [refunds EXCEPT ![r].state = "refused"]
                  ELSE [refunds EXCEPT ![r].state = "checked", ![r].alone = UnderWay = {}]
    /\ UNCHANGED <<order, sale, returned, docs, task, stops, uneven>>

\* Posted once per refund: a call that died before is replayed, one that died here is
\* not counted by anybody.
RefundPost(r) ==
    /\ refunds[r].state = "checked"
    /\ refunds' = [refunds EXCEPT ![r].state = "posted",
                                  ![r].debits = ShareOut(refunds[r].amount, sale)]
    /\ UNCHANGED <<order, sale, returned, docs, task, stops, uneven>>

\* The $inc of reversedPaise.
RefundCount(r) ==
    /\ refunds[r].state = "posted"
    /\ refunds' = [refunds EXCEPT ![r].state = "counted"]
    /\ UNCHANGED <<order, sale, returned, docs, task, stops, uneven>>

\* A return of some units that passed quality control.  The fee goes back when the
\* policy says so: mostly, when this very return is of every unit.
RefundReturn ==
    \E units \in [Lines -> 0 .. MaxQty], policy \in FeeWhen :
    \E unit \in [Lines -> UNION {UnitRefunds(i) : i \in Lines}] :
        LET goods == SumFunction([i \in Lines |-> unit[i] * units[i]])
            full == \A i \in Lines : units[i] = Items[i].qty
            fee == IF policy = "always" \/ (policy = "full_order_return_only" /\ full)
                   THEN order.fee ELSE 0
        IN  /\ \E i \in Lines : units[i] > 0
            /\ \A i \in Lines : unit[i] \in UnitRefunds(i) /\ returned[i] + units[i] <= Items[i].qty
            /\ returned' = [i \in Lines |-> returned[i] + units[i]]
            /\ AddRefund(goods + fee, goods)

\* A refund of an amount an administrator chose, or of all that is left.
RefundAmount ==
    /\ LET left == order.total - SumFunction([r \in DOMAIN refunds |-> refunds[r].amount])
       IN  \E amount \in Amounts \cup {left} : AddRefund(amount, 0)
    /\ UNCHANGED returned

-----------------------------------------------------------------------------
(* Tax documents: taxDocument.service.js *)

\* The selling entities, in the order of their first items; the fee is the store's.
Sellers ==
    LET named == [i \in Lines |-> Items[i].seller]
        first == InOrder({i \in Lines : \A j \in 1 .. i - 1 : named[j] # named[i]})
        heads == [k \in DOMAIN first |-> named[first[k]]]
    IN  IF order.fee > 0 /\ \A i \in Lines : named[i] # Store THEN Append(heads, Store) ELSE heads

Cess(taxable, bps) == Rounded(taxable * bps, 10000)

\* s.170: the payable total is rounded to the rupee.
RoundOff(total) == LET over == total % 100 IN IF over < 50 THEN -over ELSE 100 - over

\* An invoice line takes the tax that was charged, states the rate of the policy in
\* force at the date of supply, whatever was charged, and adds the cess of that rate.
InvoiceLine(item, rate) ==
    LET net == item.total - item.discount + IF order.inclusive THEN 0 ELSE item.tax
        cess == Cess(net - item.tax, rate.cess)
    IN  [tax |-> item.tax, cess |-> cess, total |-> net + cess, bps |-> rate.bps,
         cessBps |-> rate.cess]
FeeLine == [tax |-> 0, cess |-> 0, total |-> order.fee, bps |-> 0, cessBps |-> 0]

\* Mutant: the fee is left out where the store sells no item.
InvoiceLinesNoFee(seller, table) ==
    LET mine == InOrder({i \in Lines : Items[i].seller = seller})
    IN  [k \in DOMAIN mine |-> InvoiceLine(Items[mine[k]], table[Items[mine[k]].category])]

InvoiceLines(seller, table) ==
    LET mine == InOrder({i \in Lines : Items[i].seller = seller})
    IN  [k \in DOMAIN mine |-> InvoiceLine(Items[mine[k]], table[Items[mine[k]].category])]
        \o IF seller = Store /\ order.fee > 0 THEN <<FeeLine>> ELSE <<>>

LinesTotal(lines) == SumFunction([k \in DOMAIN lines |-> lines[k].total])

Documents(kind) == {d \in DOMAIN docs : docs[d].kind = kind}
NotesOf(r) == {d \in Documents("note") : docs[d].refund = r}
Busy == {p \in Writers : task[p].does # "none"}
Continue(p, todo) == task' = [task EXCEPT ![p] = IF todo = <<>> THEN NoTask ELSE [@ EXCEPT !.todo = todo]]
Figures == <<order, sale, refunds, returned>>

\* issueForOrder finds no invoice: one is due per seller.  It resolves the rates at the
\* date of supply once, from what the policies hold by now: upsertPolicy may start or
\* close one at any date, before the order or after it.
IssueFind(p) ==
    /\ sale # <<>> /\ task[p].does = "none"
    /\ Documents("invoice") = {}
    /\ \E table \in Tables :
          task' = [task EXCEPT ![p] = [does |-> "invoice", refund |-> 0, table |-> table,
                                       todo |-> Sellers]]
    /\ UNCHANGED <<Figures, docs, stops, uneven>>

Invoiced(seller) == \E d \in Documents("invoice") : docs[d].seller = seller

\* One invoice; the unique index refuses a second and ends the request.
IssueOne(p) ==
    /\ task[p].does = "invoice"
    /\ LET seller == Head(task[p].todo)
           lines == InvoiceLines(seller, task[p].table)
           total == LinesTotal(lines)
       IN  IF Invoiced(seller)
           THEN Continue(p, <<>>) /\ UNCHANGED docs
           ELSE /\ docs' = Append(docs, [kind |-> "invoice", seller |-> seller, refund |-> 0,
                                         of |-> 0, amount |-> total, lines |-> lines,
                                         total |-> total + RoundOff(total)])
                /\ Continue(p, Tail(task[p].todo))
    /\ UNCHANGED <<Figures, stops, uneven>>

\* Shares of a refund in the order of the invoices they are of.
ByInvoice(S) ==
    CHOOSE s \in [1 .. Cardinality(S) -> S] : \A j, k \in DOMAIN s : j < k => s[j].of < s[k].of

\* No request credits the refund, and the invoices there are suffice for it.
Straight(r, totals) ==
    /\ \A p \in Writers : task[p].refund # r
    /\ refunds[r].amount <= SumFunction(totals)

\* Mutant: the notes of a refund already credited are written again.
CreditFindAgain(p) ==
    \E r \in DOMAIN refunds :
        LET invoices == InOrder(Documents("invoice"))
            totals == [k \in DOMAIN invoices |-> docs[invoices[k]].total]
            parts == AllocatePaise(refunds[r].amount, totals)
            shares == {[of |-> invoices[k], amount |-> parts[k]] : k \in DOMAIN invoices}
            due == ByInvoice({share \in shares : share.amount > 0})
        IN  /\ task[p].does = "none"
            /\ invoices # <<>> /\ due # <<>>
            /\ Cardinality(NotesOf(r)) < 4
            /\ task' = [task EXCEPT ![p] = [does |-> "note", refund |-> r, table |-> <<>>,
                                         todo |-> due]]
            /\ uneven' = IF Straight(r, totals) THEN uneven ELSE uneven \cup {r}
            /\ UNCHANGED <<Figures, docs, stops>>

\* issueCreditNoteForRefund finds no note of the refund, and divides it over the
\* order's invoices by their totals.
CreditFind(p) ==
    \E r \in DOMAIN refunds :
        LET invoices == InOrder(Documents("invoice"))
            totals == [k \in DOMAIN invoices |-> docs[invoices[k]].total]
            parts == AllocatePaise(refunds[r].amount, totals)
            shares == {[of |-> invoices[k], amount |-> parts[k]] : k \in DOMAIN invoices}
            due == ByInvoice({share \in shares : share.amount > 0})
        IN  /\ task[p].does = "none"
            /\ NotesOf(r) = {}
            /\ invoices # <<>> /\ due # <<>>
            /\ task' = [task EXCEPT ![p] = [does |-> "note", refund |-> r, table |-> <<>>,
                                         todo |-> due]]
            /\ uneven' = IF Straight(r, totals) THEN uneven ELSE uneven \cup {r}
            /\ UNCHANGED <<Figures, docs, stops>>

\* Mutant: the tax is the rate of the share it is contained in.
NoteLineOfShare(line, share) ==
    LET tax == Rounded(share * line.bps, 10000)
        cess == Cess(share - tax, line.cessBps)
    IN  [tax |-> tax, cess |-> cess, total |-> share + cess, bps |-> line.bps,
         cessBps |-> line.cessBps]

\* A share of an invoice line, its tax taken out again at the line's rate.
NoteLine(line, share) ==
    LET taxable == Taxable(share, line.bps)
        cess == Cess(taxable, line.cessBps)
    IN  [tax |-> share - taxable, cess |-> cess, total |-> share + cess, bps |-> line.bps,
         cessBps |-> line.cessBps]

\* issueCreditNoteAgainst: refused above the invoice, else the lines take their shares.
CreditOne(p) ==
    /\ task[p].does = "note"
    /\ LET due == Head(task[p].todo)
           lines == docs[due.of].lines
           shares == AllocatePaise(due.amount, [k \in DOMAIN lines |-> lines[k].total])
           credited == [k \in DOMAIN lines |-> NoteLine(lines[k], shares[k])]
       IN  IF due.amount > docs[due.of].total
           THEN Continue(p, <<>>) /\ UNCHANGED docs
           ELSE /\ docs' = Append(docs, [kind |-> "note", seller |-> docs[due.of].seller,
                                         refund |-> task[p].refund, of |-> due.of,
                                         amount |-> due.amount, lines |-> credited,
                                         total |-> LinesTotal(credited)])
                /\ Continue(p, Tail(task[p].todo))
    /\ UNCHANGED <<Figures, stops, uneven>>

\* A crash, or a supplier that cannot be resolved.
Stop(p) ==
    /\ p \in Busy /\ stops < MaxStops
    /\ task' = [task EXCEPT ![p] = NoTask]
    /\ stops' = stops + 1
    /\ uneven' = uneven \cup {task[p].refund}
    /\ UNCHANGED <<Figures, docs>>

SaleNext ==
    \/ Confirm \/ RefundReturn \/ RefundAmount
    \/ \E r \in DOMAIN refunds : RefundFind(r) \/ RefundPost(r) \/ RefundCount(r)
    \/ \E p \in Writers : IssueFind(p) \/ IssueOne(p) \/ CreditFind(p) \/ CreditOne(p) \/ Stop(p)

SaleSpec == SaleInit /\ [][SaleNext]_saleVars

-----------------------------------------------------------------------------
(* Properties *)

Cesses(lines) == SumFunction([k \in DOMAIN lines |-> lines[k].cess])
Quiet(does) == \A p \in Writers : task[p].does # does

\* Every split of an amount gives the odd paise to the largest remainders and
\* loses none: the coupon over the lines, a reversal over the sale's credits, a
\* credit note over its invoice (utils/money.js:86).  The last note: documents stay.
SplitsAreFair ==
    /\ FairlySplit(order.discount, [i \in Lines |-> Items[i].total], [i \in Lines |-> Items[i].discount])
    /\ \A r \in Reversals : FairlySplit(refunds[r].amount, sale, refunds[r].debits)
    /\ \A d \in Documents("note") \cap {Len(docs)} :
          LET lines == docs[docs[d].of].lines IN
          FairlySplit(docs[d].amount, [k \in DOMAIN lines |-> lines[k].total],
                      [k \in DOMAIN lines |-> docs[d].lines[k].total - docs[d].lines[k].cess])

\* The journal of every order the checkout accepts balances by itself, with
\* whichever meaning of the price it infers and nothing on the rounding account.
SaleBalances == RoundingCredit(SaleCredits) = 0 /\ \A k \in DOMAIN sale : sale[k] >= 0

\* "Exactly what the sale journal credited to vendor_payable for it"
\* (payout.service.js:1485).  Broken under inclusive prices: the payout line
\* counts the tax in the shelf price as the vendor's and adds the tax on top.
LinesMatchCredits ==
    sale # <<>> =>
        \A i \in Lines : Items[i].seller # Store => LedgerView(PayoutLine(Items[i])) = SellerCredit(i)

\* It is so where the tax comes on top of the price, as computeLineFinancials assumes.
LinesMatchCreditsExclusive == ~order.inclusive => LinesMatchCredits

\* However a sale is given back, in slices each rounded by itself, every account
\* is debited its part of the whole to within a paisa per slice, whatever overlaps or
\* dies (ledger.service.js:408).  And those slices whose check met no other under way
\* together never exceed the sale (:396): between the check and the $inc there is
\* nothing that keeps a second refund out.
ReversedInProportion ==
    sale # <<>> =>
        /\ SumFunction([r \in {q \in Reversals : refunds[q].alone} |-> refunds[r].amount]) <= order.total
        /\ \A k \in DOMAIN sale :
              LET debited == SumFunction([r \in Reversals |-> refunds[r].debits[k]]) IN
              Reversals # {} =>
                Abs(order.total * debited - sale[k] * ReversedTotal) < Cardinality(Reversals) * order.total

\* Without that condition it is not so.
NeverOverReversed == ReversedTotal <= order.total

\* Not so for a single account, against ledger.service.js:380 "we can never reverse
\* more than was posted": of two halves of an odd order each can round up the same
\* account.
AccountNeverOverdrawn ==
    \A k \in DOMAIN sale : SumFunction([r \in Reversals |-> refunds[r].debits[k]]) <= sale[k]

\* Returned bit by bit or at once, all the units together give back what was paid
\* for them, but for half a paisa per rounding of a unit price.
ReturnsWithinRounding ==
    (\A i \in Lines : returned[i] = Items[i].qty) =>
        LET back == SumFunction([r \in DOMAIN refunds |-> refunds[r].goods])
            units == SumFunction(returned)
        IN  2 * Abs(back - (order.total - order.fee)) <= IF order.inclusive THEN units ELSE 2 * units

\* The invoices together are the order: one per seller whatever requests overlap,
\* and unless one was cut short, with all that was charged, its tax unchanged, and
\* the cess nobody charged on top (gst.js:186).
InvoicesCoverSale ==
    LET invoices == Documents("invoice") IN
    /\ \A d, e \in invoices : docs[d].seller = docs[e].seller => d = e
    /\ invoices # {} /\ Quiet("invoice") /\ stops = 0 =>
          /\ SumFunction([d \in invoices |-> LinesTotal(docs[d].lines) - Cesses(docs[d].lines)]) = order.total
          /\ SumFunction([d \in invoices |-> SumFunction([k \in DOMAIN docs[d].lines |-> docs[d].lines[k].tax])])
               = SumFunction([i \in Lines |-> Items[i].tax])

\* The notes of a refund add up to it, cess apart, unless requests for it overlapped
\* or one died, or the invoices there were did not suffice, which rounding can make
\* smaller than the charge (taxDocument.service.js:610).
NotesMatchRefunds ==
    \A r \in DOMAIN refunds \ uneven :
        NotesOf(r) # {} /\ (\A p \in Writers : task[p].refund # r) =>
            SumFunction([d \in NotesOf(r) |-> docs[d].total - Cesses(docs[d].lines)]) = refunds[r].amount

\* "The tax reversed is a proportional slice of the original invoice's lines"
\* (taxDocument.service.js:517): within half a paisa per note.  Broken where the
\* policy charged, the active one, is not the one the invoice dates.
TaxSliced(line, notes, k) ==
    LET share == SumFunction([e \in notes |-> docs[e].lines[k].total])
        tax   == SumFunction([e \in notes |-> docs[e].lines[k].tax])
    IN  2 * Abs(line.total * tax - line.tax * share) <= Cardinality(notes) * line.total + share

NotesAgainst(d) == {e \in Documents("note") : docs[e].of = d}

TaxReversedInProportion ==
    \A d \in Documents("invoice") : \A k \in DOMAIN docs[d].lines :
        TaxSliced(docs[d].lines[k], NotesAgainst(d), k)

\* It is so for every line without cess whose tax is the one its rate takes out of the
\* price: for all that were charged at the rate the invoice dates, at inclusive prices.
TaxTakenBack ==
    \A d \in Documents("invoice") : \A k \in DOMAIN docs[d].lines :
        LET line == docs[d].lines[k] IN
        line.cessBps = 0 /\ line.tax = TaxInside(line.total, line.bps) =>
            TaxSliced(line, NotesAgainst(d), k)
=============================================================================

----------------------------- MODULE LedgerProofs -----------------------------
(***************************************************************************)
(* Proofs about Ledger, for any sales and reversals, callers, retries and  *)
(* repairs, with and without transactions; about Money's allocatePaise,    *)
(* for any amount and weights; and about SaleBooks, for any basket, rates, *)
(* refunds and requests that write the tax documents.                      *)
(***************************************************************************)
EXTENDS Ledger, SaleBooks, SumProofs, SequenceTheorems

Line == [account : Accounts, dr : Nat, cr : Nat]

LineLists == {l \in UNION {[D -> Line] : D \in SUBSET Nat} : IsFiniteSet(DOMAIN l)}

JournalType == [lines : LineLists, of : SaleKeys \cup {NoKey}, reversed : Nat]

CallType == [at : Steps, key : Keys \cup {NoKey}, lines : LineLists, totals : Totals,
             drift : SUBSET Accounts]

Typed ==
    /\ journal \in [Keys -> JournalType]
    /\ entries \in [Keys -> Nat]
    /\ balance \in Totals
    /\ period \in {"open", "closed"}
    /\ call \in [Procs -> CallType]
    /\ crashes \in 0..MaxCrashes /\ overlap \in BOOLEAN /\ replicaSet \in BOOLEAN

Balanced(lines) == Debits(lines) = Credits(lines)

\* The steps of post, those at which its lines are still to be written, and
\* those at which its journal exists.
Posting == {"find", "create", "insert", "apply", "posted"}
Writing == Posting \ {"posted"}
Written == {"insert", "apply", "posted"}

\* What a call knows of its journal, and a reversal of its sale.
CallOk(c) ==
    /\ c.at \in Posting <=> c.key # NoKey
    /\ c.at \in Writing => c.lines # <<>> /\ Balanced(c.lines)
    /\ c.at \in Written => Posted(c.key)
    /\ c.at = "insert" => entries[c.key] = 0
    /\ c.key \in ReversalKeys =>
          /\ Posted(ReversalOf[c.key])
          /\ c.at \in {"find", "create"} => Debits(c.lines) = ReversalAmount[c.key]

JournalOk(k) ==
    /\ Posted(k) => Balanced(journal[k].lines) /\ journal[k].of = OriginalOf(k)
    /\ ~Posted(k) => journal[k].reversed = 0
    /\ k \in ReversalKeys /\ Posted(k) =>
          Posted(ReversalOf[k]) /\ Total(k) = ReversalAmount[k]
    /\ entries[k] <= IF Posted(k) THEN 1 ELSE 0

\* Only one call inserts the entries of a journal.
Inserters ==
    \A p, q \in Procs :
        p # q /\ call[p].at = "insert" /\ call[q].at = "insert" => call[p].key # call[q].key

\* What a call will still give back, and what it gave back but has not counted.
ToGive(c) == c.at \in {"find", "create"}

\* While the reversals of a sale come one at a time, reversedPaise of the sale
\* is what was given back, but for the one in flight.
Alone ==
    /\ \A p, q \in Procs : p # q /\ call[p].key \in ReversalKeys =>
          OriginalOf(call[p].key) # OriginalOf(call[q].key)
    /\ \A s \in SaleKeys : GivenBack(s) <= Total(s)
    /\ \A p \in Procs : call[p].key \in ReversalKeys =>
          LET s == ReversalOf[call[p].key]
              amount == ReversalAmount[call[p].key]
          IN  IF ToGive(call[p])
              THEN GivenBack(s) = journal[s].reversed /\ GivenBack(s) + amount <= Total(s)
              ELSE GivenBack(s) = journal[s].reversed + amount
    /\ \A s \in SaleKeys : (\A p \in Procs : OriginalOf(call[p].key) # s) =>
          GivenBack(s) = journal[s].reversed

Core ==
    /\ Typed
    /\ \A p \in Procs : CallOk(call[p])
    /\ \A k \in Keys : JournalOk(k)
    /\ Inserters

LedgerInv == Core /\ (~overlap /\ crashes = 0 => Alone)

-----------------------------------------------------------------------------
(* Lines and their sums. *)

LEMMA KeysFinite == IsFiniteSet(Keys) /\ IsFiniteSet(ReversalKeys)
  BY LedgerAssumption, FS_Union DEF Keys

LEMMA AccountsFinite == IsFiniteSet(Accounts) /\ Source \in Accounts
  <1> DEFINE Of(k) == {SaleLines[k][i].account : i \in DOMAIN SaleLines[k]}
             All == {Of(k) : k \in SaleKeys}
  <1>1. ASSUME NEW k \in SaleKeys PROVE IsFiniteSet(Of(k))
    <2> DEFINE s == SaleLines[k]
               D == DOMAIN s
               f == [i \in D |-> s[i].account]
               B == Of(k)
    <2>1. IsFiniteSet(D)
      <3>1. s \in Seq([account : Accounts, dr : Int, cr : Int])
        BY LedgerAssumption
      <3>2. D = 1 .. Len(s) /\ Len(s) \in Int
        <4> HIDE DEF s
        <4> QED BY <3>1
      <3> QED BY <3>2, FS_Interval
    <2>2. f \in Surjection(D, B)
      <3>1. B = {f[i] : i \in D} /\ f = [i \in D |-> f[i]]
        OBVIOUS
      <3> HIDE DEF f, B, D
      <3> QED BY <3>1 DEF Surjection
    <2> HIDE DEF f, B, D
    <2> QED BY <2>1, <2>2, FS_Surjection DEF B
  <1>2. IsFiniteSet(All)
    <2> DEFINE f == [k \in SaleKeys |-> Of(k)]
    <2>1. f \in Surjection(SaleKeys, All)
      <3>1. All = {f[k] : k \in SaleKeys} /\ f = [k \in SaleKeys |-> f[k]]
        OBVIOUS
      <3> HIDE DEF f, All
      <3> QED BY <3>1 DEF Surjection
    <2> HIDE DEF f, All
    <2> QED BY <2>1, LedgerAssumption, FS_Surjection
  <1>3. IsFiniteSet(UNION All)
    <2>1. \A T \in All : IsFiniteSet(T)
      BY <1>1
    <2> HIDE DEF All
    <2> QED BY <1>2, <2>1, FS_UNION
  <1>4. Accounts = {Source} \cup UNION All
    BY DEF Accounts
  <1> HIDE DEF All
  <1> QED BY <1>3, <1>4, FS_Union, FS_Singleton

LEMMA LinesParts ==
    ASSUME NEW l \in LineLists
    PROVE  /\ DOMAIN l \subseteq Nat /\ IsFiniteSet(DOMAIN l) /\ l = [i \in DOMAIN l |-> l[i]]
           /\ \A i \in DOMAIN l : l[i] \in Line /\ l[i].account \in Accounts
                                  /\ l[i].dr \in Nat /\ l[i].cr \in Nat
           /\ LinesOk(l)
  <1>1. PICK D \in SUBSET Nat : l \in [D -> Line] /\ IsFiniteSet(DOMAIN l)
    BY DEF LineLists
  <1>2. ASSUME NEW i \in DOMAIN l PROVE l[i] \in Line
    BY <1>1
  <1> QED BY <1>1, <1>2 DEF LinesOk, Line

\* What a caller posts, once post has accepted it.
LEMMA SaleTyped ==
    ASSUME NEW k \in SaleKeys, Acceptable(SaleLines[k])
    PROVE  SaleLines[k] \in LineLists /\ SaleLines[k] # <<>> /\ Balanced(SaleLines[k])
  <1> DEFINE Lines1 == [account : Accounts, dr : Int, cr : Int]
  <1>1. PICK s \in Seq(Lines1) : s = SaleLines[k]
    BY LedgerAssumption
  <1>2. /\ DOMAIN s = 1 .. Len(s) /\ Len(s) \in Nat /\ s = [i \in DOMAIN s |-> s[i]]
        /\ \A i \in DOMAIN s : s[i] \in Lines1
    <2> HIDE DEF Lines1
    <2> QED BY <1>1
  <1>3. ASSUME NEW i \in DOMAIN s PROVE s[i] \in Line
    <2>1. s[i] \in [account : Accounts, dr : Int, cr : Int]
      BY <1>2
    <2>2. s[i].dr \in Nat /\ s[i].cr \in Nat
      BY <1>1 DEF Acceptable
    <2> QED BY <2>1, <2>2 DEF Line
  <1>4. DOMAIN s \in SUBSET Nat /\ IsFiniteSet(DOMAIN s)
    <2>1. IsFiniteSet(1 .. Len(s))
      <3>1. 1 \in Int /\ Len(s) \in Int
        BY <1>2
      <3> QED BY <3>1, FS_Interval
    <2> QED BY <1>2, <2>1
  <1>5. s \in LineLists
    <2>1. s \in [DOMAIN s -> Line]
      BY <1>2, <1>3
    <2> QED BY <1>4, <2>1 DEF LineLists
  <1>6. s # <<>>
    BY <1>1 DEF Acceptable
  <1> QED BY <1>1, <1>5, <1>6 DEF Acceptable, Balanced

\* What a reversal posts, once post has accepted it: it credits the amount to the
\* counter account, and so debits as much.
LEMMA ReversalTyped ==
    ASSUME NEW original \in LineLists, NEW amount \in Nat,
           Acceptable(Reversal(original, amount))
    PROVE  /\ Reversal(original, amount) \in LineLists
           /\ Reversal(original, amount) # <<>>
           /\ Balanced(Reversal(original, amount))
           /\ Debits(Reversal(original, amount)) = amount
  <1> DEFINE credits == {i \in DOMAIN original : original[i].cr > 0}
             shares == AllocatePaise(amount, [i \in credits |-> original[i].cr])
             D == {0} \cup {j \in credits : shares[j] > 0}
  <1>1. PICK l : l = Reversal(original, amount)
    OBVIOUS
  <1>2. /\ l = [i \in D |-> l[i]] /\ DOMAIN l = D
        /\ \A i \in D : l[i] = IF i = 0 THEN [account |-> Source, dr |-> 0, cr |-> amount]
                               ELSE [account |-> original[i].account, dr |-> shares[i], cr |-> 0]
    <2> HIDE DEF shares
    <2>1. l = [i \in D |-> IF i = 0 THEN [account |-> Source, dr |-> 0, cr |-> amount]
                           ELSE [account |-> original[i].account, dr |-> shares[i], cr |-> 0]]
      BY <1>1 DEF Reversal, shares
    <2> QED BY <2>1
  <1>3. D \subseteq Nat /\ IsFiniteSet(D)
    <2> DEFINE E == {0} \cup DOMAIN original
    <2>1. D \subseteq E /\ DOMAIN original \subseteq Nat /\ IsFiniteSet(DOMAIN original)
      BY LinesParts
    <2>2. IsFiniteSet(E)
      BY <2>1, FS_Union, FS_Singleton
    <2>3. ASSUME NEW i \in D PROVE i \in Nat
      <3> HIDE DEF D
      <3>1. i = 0 \/ i \in DOMAIN original
        BY <2>1
      <3> QED BY <2>1, <3>1
    <2> HIDE DEF E
    <2>4. IsFiniteSet(D)
      BY <2>1, <2>2, FS_Subset
    <2> HIDE DEF D
    <2> QED BY <2>3, <2>4
  <1>4. ASSUME NEW i \in D PROVE l[i] \in Line /\ l[i].cr = IF i = 0 THEN amount ELSE 0
    <2>1. CASE i = 0
      <3>1. l[i] = [account |-> Source, dr |-> 0, cr |-> amount]
        BY <1>2, <2>1
      <3> HIDE DEF shares, D
      <3> QED BY <2>1, <3>1, AccountsFinite DEF Line
    <2>2. CASE i # 0
      <3>1. i \in DOMAIN original
        BY <2>2
      <3>2. original[i].account \in Accounts
        BY <3>1, LinesParts
      <3>3. l[i].dr \in Nat
        BY <1>1, <1>2 DEF Acceptable
      <3>4. l[i] = [account |-> original[i].account, dr |-> shares[i], cr |-> 0]
        BY <1>2, <2>2
      <3> HIDE DEF shares, D
      <3> QED BY <2>2, <3>2, <3>3, <3>4 DEF Line
    <2> QED BY <2>1, <2>2
  <1> HIDE DEF D, shares
  <1>5. l \in LineLists
    <2>1. l \in [D -> Line]
      BY <1>2, <1>4
    <2> QED BY <1>2, <1>3, <2>1 DEF LineLists
  <1>6. l # <<>>
    BY <1>1 DEF Acceptable
  <1>7. Credits(l) = amount
    <2> DEFINE f == [i \in DOMAIN l |-> l[i].cr]
    <2>1. PICK b : b = 0
      OBVIOUS
    <2>2. DOMAIN f = D /\ (\A i \in D : f[i] = IF i = b THEN amount ELSE 0)
      BY <1>2, <1>4, <2>1
    <2>4. b \in D /\ amount \in Int
      BY <2>1 DEF D
    <2>3. SumFunctionOnSet(f, D) = amount
      <3> HIDE DEF f
      <3> QED BY <1>3, <2>2, <2>4, SumPoint
    <2> QED BY <2>2, <2>3 DEF Credits, SumFunction
  <1>8. Debits(l) = Credits(l)
    BY <1>1 DEF Acceptable
  <1> QED BY <1>1, <1>5, <1>6, <1>7, <1>8 DEF Balanced

\* Amounts sorted by account add up to the same.
LEMMA SumByAccount ==
    ASSUME NEW D, IsFiniteSet(D), NEW acc, NEW v,
           \A i \in D : acc[i] \in Accounts /\ v[i] \in Nat,
           NEW of, DOMAIN of = Accounts,
           \A a \in Accounts : of[a] = SumFunction([i \in D |-> IF acc[i] = a THEN v[i] ELSE 0])
    PROVE  /\ SumFunction(of) = SumFunctionOnSet(v, D)
           /\ \A a \in Accounts : of[a] \in Nat
  <1> DEFINE m == [x \in Accounts \X D |-> IF acc[x[2]] = x[1] THEN v[x[2]] ELSE 0]
  <1>1. ASSUME NEW a \in Accounts, NEW i \in D
        PROVE  m[<<a, i>>] = (IF acc[i] = a THEN v[i] ELSE 0) /\ m[<<a, i>>] \in Nat
               /\ m[<<a, i>>] \in Int
    OBVIOUS
  <1> HIDE DEF m
  <1>2. ASSUME NEW a \in Accounts
        PROVE  of[a] = ColumnSums(m, Accounts, D)[a] /\ of[a] \in Nat
    <2> DEFINE f == [i \in D |-> IF acc[i] = a THEN v[i] ELSE 0]
               g == [i \in D |-> m[<<a, i>>]]
    <2>1. f = g /\ (\A i \in D : f[i] \in Nat) /\ DOMAIN f = D
      BY <1>1
    <2>2. of[a] = SumFunction(f) /\ ColumnSums(m, Accounts, D)[a] = SumFunctionOnSet(g, D)
      BY DEF ColumnSums
    <2> HIDE DEF f, g
    <2>3. SumFunctionOnSet(f, D) \in Nat
      BY <2>1, SumNat
    <2> QED BY <2>1, <2>2, <2>3 DEF SumFunction
  <1>3. SumFunctionOnSet(of, Accounts) = SumFunctionOnSet(ColumnSums(m, Accounts, D), Accounts)
    BY <1>2, AccountsFinite, SumSame DEF SameOn
  <1>4. SumFunctionOnSet(ColumnSums(m, Accounts, D), Accounts)
          = SumFunctionOnSet(RowSums(m, Accounts, D), D)
    BY <1>1, AccountsFinite, SumSwap
  <1>5. ASSUME NEW i \in D PROVE RowSums(m, Accounts, D)[i] = v[i]
    <2> DEFINE f == [a \in Accounts |-> m[<<a, i>>]]
    <2>1. PICK b \in Accounts, n \in Int : b = acc[i] /\ n = v[i]
      OBVIOUS
    <2>2. \A a \in Accounts : f[a] = IF a = b THEN n ELSE 0
      BY <1>1, <2>1
    <2>3. RowSums(m, Accounts, D)[i] = SumFunctionOnSet(f, Accounts)
      BY DEF RowSums
    <2> HIDE DEF f
    <2>4. SumFunctionOnSet(f, Accounts) = n
      <3>1. PICK S : S = Accounts
        OBVIOUS
      <3>2. IsFiniteSet(S) /\ b \in S /\ n \in Int /\ \A a \in S : f[a] = IF a = b THEN n ELSE 0
        BY <2>2, <3>1, AccountsFinite
      <3>3. SumFunctionOnSet(f, S) = n
        BY <3>2, SumPoint
      <3> QED BY <3>1, <3>3
    <2> QED BY <2>1, <2>3, <2>4
  <1>6. SumFunctionOnSet(RowSums(m, Accounts, D), D) = SumFunctionOnSet(v, D)
    BY <1>5, SumSame DEF SameOn
  <1> QED BY <1>2, <1>3, <1>4, <1>6 DEF SumFunction

\* What the lines of a journal say of each account, and of all of them.
LEMMA LinesSum ==
    ASSUME NEW l \in LineLists
    PROVE  /\ \A a \in Accounts : DebitOf(l, a) \in Nat /\ CreditOf(l, a) \in Nat
           /\ SumFunction([a \in Accounts |-> DebitOf(l, a)]) = Debits(l)
           /\ SumFunction([a \in Accounts |-> CreditOf(l, a)]) = Credits(l)
           /\ Debits(l) \in Nat /\ Credits(l) \in Nat
  <1> DEFINE D == DOMAIN l
             acc == [i \in D |-> l[i].account]
  <1>1. IsFiniteSet(D) /\ \A i \in D : l[i].account \in Accounts /\ l[i].dr \in Nat /\ l[i].cr \in Nat
    BY LinesParts
  <1>2. /\ \A a \in Accounts : DebitOf(l, a) \in Nat
        /\ SumFunction([a \in Accounts |-> DebitOf(l, a)]) = Debits(l) /\ Debits(l) \in Nat
    <2> DEFINE v == [i \in D |-> l[i].dr]
               of == [a \in Accounts |-> DebitOf(l, a)]
    <2>1. DOMAIN v = D /\ \A i \in D : acc[i] \in Accounts /\ v[i] \in Nat
      BY <1>1
    <2>2. ASSUME NEW a \in Accounts
          PROVE  of[a] = SumFunction([i \in D |-> IF acc[i] = a THEN v[i] ELSE 0])
      <3>1. [i \in D |-> IF acc[i] = a THEN v[i] ELSE 0]
              = [i \in DOMAIN l |-> IF l[i].account = a THEN l[i].dr ELSE 0]
        OBVIOUS
      <3> HIDE DEF acc, v, D
      <3> QED BY <3>1 DEF DebitOf
    <2>3. DOMAIN of = Accounts /\ \A a \in Accounts : of[a] = DebitOf(l, a)
      OBVIOUS
    <2>4. Debits(l) = SumFunctionOnSet(v, D)
      BY <2>1 DEF Debits, SumFunction
    <2>5. SumFunctionOnSet(v, D) \in Nat
      <3> HIDE DEF v, D, acc
      <3> QED BY <1>1, <2>1, SumNat
    <2>6. SumFunction(of) = SumFunctionOnSet(v, D) /\ \A a \in Accounts : of[a] \in Nat
      <3> HIDE DEF v, D, acc, of
      <3> QED BY <1>1, <2>1, <2>2, <2>3, SumByAccount
    <2> HIDE DEF v
    <2> QED BY <2>3, <2>4, <2>5, <2>6
  <1>3. /\ \A a \in Accounts : CreditOf(l, a) \in Nat
        /\ SumFunction([a \in Accounts |-> CreditOf(l, a)]) = Credits(l) /\ Credits(l) \in Nat
    <2> DEFINE v == [i \in D |-> l[i].cr]
               of == [a \in Accounts |-> CreditOf(l, a)]
    <2>1. DOMAIN v = D /\ \A i \in D : acc[i] \in Accounts /\ v[i] \in Nat
      BY <1>1
    <2>2. ASSUME NEW a \in Accounts
          PROVE  of[a] = SumFunction([i \in D |-> IF acc[i] = a THEN v[i] ELSE 0])
      <3>1. [i \in D |-> IF acc[i] = a THEN v[i] ELSE 0]
              = [i \in DOMAIN l |-> IF l[i].account = a THEN l[i].cr ELSE 0]
        OBVIOUS
      <3> HIDE DEF acc, v, D
      <3> QED BY <3>1 DEF CreditOf
    <2>3. DOMAIN of = Accounts /\ \A a \in Accounts : of[a] = CreditOf(l, a)
      OBVIOUS
    <2>4. Credits(l) = SumFunctionOnSet(v, D)
      BY <2>1 DEF Credits, SumFunction
    <2>5. SumFunctionOnSet(v, D) \in Nat
      <3> HIDE DEF v, D, acc
      <3> QED BY <1>1, <2>1, SumNat
    <2>6. SumFunction(of) = SumFunctionOnSet(v, D) /\ \A a \in Accounts : of[a] \in Nat
      <3> HIDE DEF v, D, acc, of
      <3> QED BY <1>1, <2>1, <2>2, <2>3, SumByAccount
    <2> HIDE DEF v
    <2> QED BY <2>3, <2>4, <2>5, <2>6
  <1> QED BY <1>2, <1>3

LEMMA TotalsTyped ==
    ASSUME Typed
    PROVE  /\ ZeroBalance \in Totals /\ EntryTotals \in Totals
           /\ \A b \in Totals, l \in LineLists : Applied(b, l) \in Totals
  <1>1. ZeroBalance \in Totals
    BY DEF ZeroBalance, Totals
  <1>2. ASSUME NEW b \in Totals, NEW l \in LineLists PROVE Applied(b, l) \in Totals
    <2>1. ASSUME NEW a \in Accounts
          PROVE  b[a].dr + DebitOf(l, a) \in Nat /\ b[a].cr + CreditOf(l, a) \in Nat
      <3>1. b[a].dr \in Nat /\ b[a].cr \in Nat
        BY DEF Totals
      <3>2. DebitOf(l, a) \in Nat /\ CreditOf(l, a) \in Nat
        BY LinesSum
      <3> QED BY <3>1, <3>2
    <2> QED BY <2>1 DEF Applied, Totals
  <1>3. ASSUME NEW a \in Accounts
        PROVE  /\ SumFunction([k \in Keys |-> entries[k] * DebitOf(journal[k].lines, a)]) \in Nat
               /\ SumFunction([k \in Keys |-> entries[k] * CreditOf(journal[k].lines, a)]) \in Nat
    <2> DEFINE d == [k \in Keys |-> entries[k] * DebitOf(journal[k].lines, a)]
               c == [k \in Keys |-> entries[k] * CreditOf(journal[k].lines, a)]
    <2>1. ASSUME NEW k \in Keys PROVE d[k] \in Nat /\ c[k] \in Nat
      <3>1. journal[k].lines \in LineLists /\ entries[k] \in Nat
        BY DEF Typed, JournalType
      <3>2. DebitOf(journal[k].lines, a) \in Nat /\ CreditOf(journal[k].lines, a) \in Nat
        BY <3>1, LinesSum
      <3>3. \A m, n \in Nat : m * n \in Nat
        OBVIOUS
      <3> QED BY <3>1, <3>2, <3>3
    <2>2. DOMAIN d = Keys /\ DOMAIN c = Keys
      OBVIOUS
    <2>3. SumFunctionOnSet(d, Keys) \in Nat
      <3> HIDE DEF d, c
      <3> QED BY <2>1, KeysFinite, SumNat
    <2>4. SumFunctionOnSet(c, Keys) \in Nat
      <3> HIDE DEF d, c
      <3> QED BY <2>1, KeysFinite, SumNat
    <2> QED BY <2>2, <2>3, <2>4 DEF SumFunction
  <1>4. EntryTotals \in Totals
    BY <1>3 DEF EntryTotals, Totals
  <1> QED BY <1>1, <1>2, <1>4


-----------------------------------------------------------------------------
(* Single facts of the invariant. *)

LEMMA CallParts ==
    ASSUME Core, NEW p \in Procs
    PROVE  /\ call[p] \in CallType
           /\ call[p].at \in Steps /\ call[p].key \in Keys \cup {NoKey}
           /\ call[p].lines \in LineLists /\ call[p].totals \in Totals
           /\ call[p].drift \subseteq Accounts
           /\ CallOk(call[p])
           /\ call[p].at \in Posting => call[p].key \in Keys
           /\ call[p].at \notin Posting => call[p].key = NoKey
  <1>1. call[p] \in CallType /\ CallOk(call[p])
    BY DEF Core, Typed
  <1>2. /\ call[p].at \in Steps /\ call[p].key \in Keys \cup {NoKey}
        /\ call[p].lines \in LineLists /\ call[p].totals \in Totals
        /\ call[p].drift \subseteq Accounts
    BY <1>1 DEF CallType
  <1>3. call[p].at \in Posting <=> call[p].key # NoKey
    BY <1>1 DEF CallOk
  <1> QED BY <1>1, <1>2, <1>3

LEMMA JournalParts ==
    ASSUME Core, NEW k \in Keys
    PROVE  /\ journal[k] \in JournalType
           /\ journal[k].lines \in LineLists /\ journal[k].of \in SaleKeys \cup {NoKey}
           /\ journal[k].reversed \in Nat
           /\ entries[k] \in Nat
           /\ JournalOk(k)
  BY DEF Core, Typed, JournalType

LEMMA KeysApart ==
    /\ NoKey \notin Keys /\ SaleKeys \subseteq Keys /\ ReversalKeys \subseteq Keys
    /\ \A k \in ReversalKeys : k \notin SaleKeys /\ ReversalOf[k] \in SaleKeys
                               /\ ReversalOf[k] # NoKey /\ OriginalOf(k) = ReversalOf[k]
                               /\ ReversalAmount[k] \in Nat /\ ReversalAmount[k] > 0
    /\ \A k : k \notin ReversalKeys => OriginalOf(k) = NoKey
    /\ \A k : OriginalOf(k) \in SaleKeys => k \in ReversalKeys
  BY LedgerAssumption DEF Keys, OriginalOf

LEMMA NoLines == <<>> \in LineLists /\ Debits(<<>>) = 0 /\ Credits(<<>>) = 0
  <1>1. PICK e : e = <<>>
    OBVIOUS
  <1>2. DOMAIN e = {}
    BY <1>1
  <1>3. e \in LineLists
    <2>1. e \in [{} -> Line]
      BY <1>1
    <2>2. IsFiniteSet(DOMAIN e)
      BY <1>2, FS_EmptySet
    <2> QED BY <2>1, <2>2 DEF LineLists
  <1>4. Debits(e) = 0 /\ Credits(e) = 0
    <2>1. ASSUME NEW f, DOMAIN f = {} PROVE SumFunction(f) = 0
      BY <2>1, SumOfNone DEF SumFunction
    <2>2. DOMAIN [i \in DOMAIN e |-> e[i].dr] = {} /\ DOMAIN [i \in DOMAIN e |-> e[i].cr] = {}
      BY <1>2
    <2> QED BY <2>1, <2>2 DEF Debits, Credits
  <1> QED BY <1>1, <1>3, <1>4

LEMMA IdleTyped ==
    ASSUME Typed
    PROVE  Idle \in CallType /\ Idle.at = "idle" /\ Idle.key = NoKey /\ CallOk(Idle)
  <1>1. ZeroBalance \in Totals
    BY TotalsTyped
  <1>2. Idle = [at |-> "idle", key |-> NoKey, lines |-> <<>>, totals |-> ZeroBalance, drift |-> {}]
    BY DEF Idle
  <1>3. Idle \in CallType
    BY <1>1, <1>2, NoLines DEF CallType, Steps
  <1>4. CallOk(Idle)
    BY <1>2, KeysApart DEF CallOk, Posting, Writing, Written
  <1> QED BY <1>2, <1>3, <1>4

\* What refunds gave back of a sale hangs on the lines of the reversals alone.
LEMMA GivenSame ==
    ASSUME \A k \in ReversalKeys :
               journal'[k].lines = journal[k].lines /\ journal'[k].of = journal[k].of
    PROVE  \A s \in SaleKeys : GivenBack(s)' = GivenBack(s)
  <1> TAKE s \in SaleKeys
  <1>1. ASSUME NEW k \in ReversalKeys
        PROVE  (IF Posted(k) /\ journal[k].of = s THEN Total(k) ELSE 0)'
                 = IF Posted(k) /\ journal[k].of = s THEN Total(k) ELSE 0
    BY DEF Posted, Total
  <1> QED BY <1>1 DEF GivenBack

LEMMA GivenTyped ==
    ASSUME Core
    PROVE  /\ \A s \in SaleKeys : GivenBack(s) \in Nat
           /\ \A k \in Keys : Total(k) \in Nat
  <1>1. ASSUME NEW k \in Keys PROVE Total(k) \in Nat
    BY JournalParts, LinesSum DEF Total
  <1>2. ASSUME NEW s \in SaleKeys PROVE GivenBack(s) \in Nat
    <2> DEFINE f == [k \in ReversalKeys |->
                        IF Posted(k) /\ journal[k].of = s THEN Total(k) ELSE 0]
    <2>1. DOMAIN f = ReversalKeys /\ \A k \in ReversalKeys : f[k] \in Nat
      BY <1>1, KeysApart
    <2>2. SumFunctionOnSet(f, ReversalKeys) \in Nat
      <3> HIDE DEF f
      <3> QED BY <2>1, KeysFinite, SumNat
    <2> QED BY <2>1, <2>2 DEF GivenBack, SumFunction
  <1> QED BY <1>1, <1>2

\* Posting a reversal gives its amount back.
LEMMA GivenAdded ==
    ASSUME Core, Core', NEW k \in ReversalKeys, ~Posted(k), Posted(k)',
           \A j \in Keys \ {k} : journal'[j] = journal[j]
    PROVE  \A s \in SaleKeys :
             GivenBack(s)' = GivenBack(s) + IF s = ReversalOf[k] THEN ReversalAmount[k] ELSE 0
  <1> TAKE s \in SaleKeys
  <1> DEFINE f == [j \in ReversalKeys |-> IF Posted(j) /\ journal[j].of = s THEN Total(j) ELSE 0]
             g == [j \in ReversalKeys |->
                     IF Posted(j)' /\ journal'[j].of = s THEN Total(j)' ELSE 0]
             v == IF s = ReversalOf[k] THEN ReversalAmount[k] ELSE 0
  <1>1. GivenBack(s) = SumFunction(f) /\ GivenBack(s)' = SumFunction(g)
    BY DEF GivenBack
  <1>2. f \in [ReversalKeys -> Int]
    BY GivenTyped, KeysApart
  <1>3. f[k] = 0 /\ v \in Int
    BY KeysApart
  <1>4. g[k] = v
    <2>1. JournalOk(k)'
      BY KeysApart DEF Core
    <2>2. journal'[k].of = OriginalOf(k) /\ Total(k)' = ReversalAmount[k]
      BY <2>1 DEF JournalOk, OriginalOf
    <2>3. journal'[k].of = ReversalOf[k]
      BY <2>2, KeysApart
    <2> QED BY <2>2, <2>3
  <1>5. ASSUME NEW j \in ReversalKeys \ {k} PROVE g[j] = f[j]
    <2>1. journal'[j] = journal[j]
      BY KeysApart
    <2>2. (Posted(j)' <=> Posted(j)) /\ Total(j)' = Total(j)
      BY <2>1 DEF Posted, Total
    <2> QED BY <2>1, <2>2
  <1>6. g = [f EXCEPT ![k] = v]
    BY <1>4, <1>5
  <1> HIDE DEF f, g, v
  <1>7. SumFunction(g) = SumFunction(f) - f[k] + v /\ SumFunction(f) \in Int
    BY <1>2, <1>3, <1>6, KeysFinite, SumWrite
  <1> QED BY <1>1, <1>3, <1>7 DEF v


-----------------------------------------------------------------------------
(* Steps that only move one call on. *)

\* The journals stay, and the call moves to c: everything but Alone is kept.
LEMMA QuietCore ==
    ASSUME Core, NEW p \in Procs, NEW c \in CallType, call' = [call EXCEPT ![p] = c],
           CallOk(c), c.at # "insert", UNCHANGED <<journal, entries, replicaSet>>,
           balance' \in Totals, period' \in {"open", "closed"}, crashes' \in 0..MaxCrashes,
           overlap' \in BOOLEAN
    PROVE  Core' /\ \A s \in SaleKeys : GivenBack(s)' = GivenBack(s) /\ Total(s)' = Total(s)
  <1>1. call \in [Procs -> CallType]
    BY DEF Core, Typed
  <1>2. call'[p] = c /\ \A q \in Procs \ {p} : call'[q] = call[q]
    BY <1>1
  <1>3. Typed'
    BY <1>1 DEF Core, Typed
  <1>4. ASSUME NEW q \in Procs PROVE CallOk(call[q])'
    <2>1. call'[q] = c \/ call'[q] = call[q]
      BY <1>2
    <2>2. CallOk(call[q])
      BY DEF Core
    <2> QED BY <2>1, <2>2 DEF CallOk, Posted
  <1>5. ASSUME NEW k \in Keys PROVE JournalOk(k)'
    BY DEF Core, JournalOk, Posted, Total
  <1>6. Inserters'
    BY <1>2 DEF Core, Inserters
  <1>7. \A s \in SaleKeys : Total(s)' = Total(s)
    BY DEF Total
  <1>8. \A s \in SaleKeys : GivenBack(s)' = GivenBack(s)
    BY GivenSame
  <1> QED BY <1>3, <1>4, <1>5, <1>6, <1>7, <1>8 DEF Core

\* A step that neither starts a reversal nor leaves one half done.
LEMMA QuietStep ==
    ASSUME LedgerInv, NEW p \in Procs, NEW c \in CallType, call' = [call EXCEPT ![p] = c],
           CallOk(c), c.at # "insert", UNCHANGED <<journal, entries, replicaSet>>,
           balance' \in Totals, UNCHANGED <<period, crashes, overlap>>,
           \/ c.key = call[p].key /\ (ToGive(c) <=> ToGive(call[p]))
           \/ c.key \notin ReversalKeys /\ (call[p].key \in ReversalKeys => ToGive(call[p]))
    PROVE  LedgerInv'
  <1>1. call \in [Procs -> CallType] /\ Core
    BY DEF LedgerInv, Core, Typed
  <1>2. call'[p] = c /\ \A q \in Procs \ {p} : call'[q] = call[q]
    BY <1>1
  <1>3. Core' /\ \A s \in SaleKeys : GivenBack(s)' = GivenBack(s) /\ Total(s)' = Total(s)
    <2>1. period' \in {"open", "closed"} /\ crashes' \in 0..MaxCrashes /\ overlap' \in BOOLEAN
      BY <1>1 DEF Core, Typed
    <2> QED BY <1>1, <2>1, QuietCore
  <1>4. ASSUME ~overlap, crashes = 0 PROVE Alone'
    <2>1. Alone
      BY <1>4 DEF LedgerInv
    <2>2. c.key = call[p].key \/ c.key \notin ReversalKeys
      OBVIOUS
    <2>3. ASSUME NEW q \in Procs, NEW r \in Procs, q # r, call'[q].key \in ReversalKeys
          PROVE  OriginalOf(call'[q].key) # OriginalOf(call'[r].key)
      <3>1. call[q].key \in ReversalKeys /\ call'[q].key = call[q].key
        BY <1>2, <2>2, <2>3
      <3>2. OriginalOf(call[q].key) # OriginalOf(call[r].key)
        BY <2>1, <2>3, <3>1 DEF Alone
      <3>3. call'[r].key = call[r].key \/ call'[r].key \notin ReversalKeys
        BY <1>2, <2>2
      <3>4. CASE call'[r].key = call[r].key
        BY <3>1, <3>2, <3>4
      <3>5. CASE call'[r].key \notin ReversalKeys
        BY <2>3, <3>5, KeysApart
      <3> QED BY <3>3, <3>4, <3>5
    <2>4. \A s \in SaleKeys : GivenBack(s)' <= Total(s)'
      BY <1>3, <2>1 DEF Alone
    <2>5. ASSUME NEW q \in Procs, call'[q].key \in ReversalKeys,
                 NEW s \in SaleKeys, s = ReversalOf[call'[q].key]
          PROVE  IF ToGive(call[q])'
                 THEN GivenBack(s)' = journal'[s].reversed
                      /\ GivenBack(s)' + ReversalAmount[call'[q].key] <= Total(s)'
                 ELSE GivenBack(s)' = journal'[s].reversed + ReversalAmount[call'[q].key]
      <3>1. /\ call[q].key \in ReversalKeys /\ call'[q].key = call[q].key
            /\ ToGive(call[q])' <=> ToGive(call[q])
        BY <1>2, <2>5 DEF ToGive
      <3>2. IF ToGive(call[q])
            THEN GivenBack(s) = journal[s].reversed
                 /\ GivenBack(s) + ReversalAmount[call[q].key] <= Total(s)
            ELSE GivenBack(s) = journal[s].reversed + ReversalAmount[call[q].key]
        BY <2>1, <2>5, <3>1 DEF Alone
      <3>3. GivenBack(s)' = GivenBack(s) /\ Total(s)' = Total(s)
        BY <1>3
      <3> QED BY <3>1, <3>2, <3>3
    <2>6. ASSUME NEW s \in SaleKeys, \A q \in Procs : OriginalOf(call'[q].key) # s
          PROVE  GivenBack(s)' = journal'[s].reversed
      <3>1. CASE OriginalOf(call[p].key) = s
        <4>1. call[p].key \in ReversalKeys /\ ReversalOf[call[p].key] = s
          BY <3>1, KeysApart
        <4>2. OriginalOf(c.key) # s
          BY <1>2, <2>6
        <4>3. ToGive(call[p])
          BY <3>1, <4>1, <4>2
        <4> QED BY <1>3, <2>1, <4>1, <4>3 DEF Alone
      <3>2. CASE OriginalOf(call[p].key) # s
        <4>1. \A q \in Procs : OriginalOf(call[q].key) # s
          BY <1>2, <2>6, <3>2
        <4> QED BY <1>3, <2>1, <4>1 DEF Alone
      <3> QED BY <3>1, <3>2
    <2>7. \A q \in Procs : call'[q].key \in ReversalKeys => ReversalOf[call'[q].key] \in SaleKeys
      BY KeysApart
    <2> QED BY <2>3, <2>4, <2>5, <2>6, <2>7 DEF Alone
  <1> QED BY <1>3, <1>4 DEF LedgerInv


-----------------------------------------------------------------------------
(* One lemma per action. *)

LEMMA StepPostSale ==
    ASSUME LedgerInv, NEW p \in Procs, NEW k \in SaleKeys, PostSale(p, k)
    PROVE  LedgerInv'
  <1> DEFINE c == [at |-> "find", key |-> k, lines |-> SaleLines[k], totals |-> ZeroBalance,
                   drift |-> {}]
  <1>1. Core /\ call[p].at = "idle" /\ Acceptable(SaleLines[k])
    BY DEF PostSale, LedgerInv
  <1>2. call' = [call EXCEPT ![p] = c]
    <2>1. PICK d : d = [Idle EXCEPT !.at = "find", !.key = k, !.lines = SaleLines[k]]
      OBVIOUS
    <2>2. d = c
      BY <2>1 DEF Idle
    <2> HIDE DEF c
    <2> QED BY <2>1, <2>2 DEF PostSale
  <1>3. c \in CallType
    <2>1. SaleLines[k] \in LineLists
      BY <1>1, SaleTyped
    <2>2. ZeroBalance \in Totals
      BY <1>1, TotalsTyped DEF Core
    <2> QED BY <2>1, <2>2, KeysApart DEF CallType, Steps
  <1>4. CallOk(c)
    <2>1. SaleLines[k] # <<>> /\ Balanced(SaleLines[k])
      BY <1>1, SaleTyped
    <2> QED BY <2>1, KeysApart DEF CallOk, Posting, Writing, Written
  <1>5. c.key \notin ReversalKeys /\ call[p].key \notin ReversalKeys /\ c.at = "find"
    BY <1>1, CallParts, KeysApart DEF Posting
  <1>6. UNCHANGED <<journal, entries, balance, period, crashes, overlap, replicaSet>>
    BY DEF PostSale
  <1>7. balance' \in Totals
    BY <1>1, <1>6 DEF Core, Typed
  <1> HIDE DEF c
  <1> QED BY <1>2, <1>3, <1>4, <1>5, <1>6, <1>7, QuietStep

LEMMA StepReturnEarly ==
    ASSUME LedgerInv, NEW p \in Procs, call' = [call EXCEPT ![p] = Idle],
           call[p].key \in ReversalKeys => ToGive(call[p]),
           UNCHANGED <<journal, entries, balance, period, crashes, overlap, replicaSet>>
    PROVE  LedgerInv'
  <1>1. Idle \in CallType /\ Idle.at # "insert" /\ Idle.key = NoKey /\ CallOk(Idle)
        /\ balance \in Totals
    BY IdleTyped DEF LedgerInv, Core, Typed
  <1>2. Idle.key \notin ReversalKeys /\ balance' \in Totals
    BY <1>1, KeysApart
  <1> QED BY <1>1, <1>2, QuietStep

\* A call goes on to its next step with what it has.
LEMMA Onward ==
    ASSUME Core, NEW p \in Procs, NEW step \in Steps, Goto(p, step)
    PROVE  \E c \in CallType :
             /\ call' = [call EXCEPT ![p] = c]
             /\ c.at = step /\ c.key = call[p].key /\ c.lines = call[p].lines
             /\ c.totals = call[p].totals /\ c.drift = call[p].drift
  <1>1. call[p] \in CallType
    BY CallParts
  <1>2. PICK d : d = [call[p] EXCEPT !.at = step]
    OBVIOUS
  <1>3. d \in CallType /\ d.at = step /\ d.key = call[p].key /\ d.lines = call[p].lines
        /\ d.totals = call[p].totals /\ d.drift = call[p].drift
    BY <1>1, <1>2 DEF CallType
  <1>4. call' = [call EXCEPT ![p] = d]
    BY <1>2 DEF Goto
  <1> QED BY <1>3, <1>4

LEMMA StepPostFind ==
    ASSUME LedgerInv, NEW p \in Procs, PostFind(p)
    PROVE  LedgerInv'
  <1>1. Core /\ call[p].at = "find" /\ ToGive(call[p])
        /\ UNCHANGED <<journal, entries, balance, period, crashes, overlap, replicaSet>>
    BY DEF PostFind, LedgerInv, ToGive
  <1>2. CASE Posted(call[p].key) \/ period = "closed"
    <2>1. call' = [call EXCEPT ![p] = Idle]
      BY <1>2 DEF PostFind, Return
    <2> QED BY <1>1, <2>1, StepReturnEarly
  <1>3. CASE ~(Posted(call[p].key) \/ period = "closed")
    <2>1. Goto(p, "create") /\ "create" \in Steps
      BY <1>3 DEF PostFind, Steps
    <2>2. PICK c \in CallType :
             /\ call' = [call EXCEPT ![p] = c]
             /\ c.at = "create" /\ c.key = call[p].key /\ c.lines = call[p].lines
      BY <1>1, <2>1, Onward
    <2>3. CallOk(c)
      <3>1. CallOk(call[p])
        BY <1>1, CallParts
      <3> QED BY <1>1, <2>2, <3>1 DEF CallOk, Posting, Writing, Written
    <2>4. balance' \in Totals /\ c.at # "insert" /\ (ToGive(c) <=> ToGive(call[p]))
      BY <1>1, <2>2 DEF Core, Typed, ToGive
    <2> QED BY <1>1, <2>2, <2>3, <2>4, QuietStep
  <1> QED BY <1>2, <1>3

LEMMA StepApplyBalances ==
    ASSUME LedgerInv, NEW p \in Procs, PostApplyBalances(p)
    PROVE  LedgerInv'
  <1>1. Core /\ call[p].at = "apply" /\ balance' = Applied(balance, call[p].lines)
        /\ UNCHANGED <<journal, entries, period, crashes, overlap, replicaSet>>
    BY DEF PostApplyBalances, LedgerInv
  <1>2. Goto(p, "posted") /\ "posted" \in Steps
    BY DEF PostApplyBalances, Steps
  <1>3. PICK c \in CallType :
           /\ call' = [call EXCEPT ![p] = c]
           /\ c.at = "posted" /\ c.key = call[p].key /\ c.lines = call[p].lines
    BY <1>1, <1>2, Onward
  <1>4. CallOk(c)
    <2>1. CallOk(call[p])
      BY <1>1, CallParts
    <2> QED BY <1>1, <1>3, <2>1 DEF CallOk, Posting, Writing, Written
  <1>5. balance' \in Totals
    <2>1. balance \in Totals /\ call[p].lines \in LineLists /\ Typed
      BY <1>1, CallParts DEF Core, Typed
    <2> QED BY <1>1, <2>1, TotalsTyped
  <1>6. c.at # "insert" /\ (ToGive(c) <=> ToGive(call[p]))
    BY <1>1, <1>3 DEF ToGive
  <1> QED BY <1>1, <1>3, <1>4, <1>5, <1>6, QuietStep

LEMMA StepRepairAggregate ==
    ASSUME LedgerInv, NEW p \in Procs, RepairAggregate(p)
    PROVE  LedgerInv'
  <1> DEFINE c == [at |-> "compare", key |-> NoKey, lines |-> <<>>, totals |-> EntryTotals,
                   drift |-> {}]
  <1>1. Core /\ call[p].at = "idle"
        /\ UNCHANGED <<journal, entries, balance, period, crashes, overlap, replicaSet>>
    BY DEF RepairAggregate, LedgerInv
  <1>2. call' = [call EXCEPT ![p] = c]
    <2>1. PICK d : d = [Idle EXCEPT !.at = "compare", !.totals = EntryTotals]
      OBVIOUS
    <2>2. d = c
      BY <2>1 DEF Idle
    <2> HIDE DEF c
    <2> QED BY <2>1, <2>2 DEF RepairAggregate
  <1>3. c \in CallType
    <2>1. EntryTotals \in Totals
      BY <1>1, TotalsTyped DEF Core
    <2> HIDE DEF Totals
    <2> QED BY <2>1, NoLines DEF CallType, Steps
  <1>4. CallOk(c) /\ c.key = NoKey /\ c.at = "compare"
    BY KeysApart DEF CallOk, Posting, Writing, Written
  <1>5. c.key \notin ReversalKeys /\ call[p].key \notin ReversalKeys
    BY <1>1, <1>4, CallParts, KeysApart DEF Posting
  <1>6. balance' \in Totals
    BY <1>1 DEF Core, Typed
  <1> HIDE DEF c
  <1> QED BY <1>1, <1>2, <1>3, <1>4, <1>5, <1>6, QuietStep

LEMMA StepRepairCompare ==
    ASSUME LedgerInv, NEW p \in Procs, RepairCompare(p)
    PROVE  LedgerInv'
  <1> DEFINE drifted == {a \in Accounts : balance[a] # call[p].totals[a]}
             c == [at |-> "rewrite", key |-> NoKey, lines |-> call[p].lines,
                   totals |-> call[p].totals, drift |-> drifted]
  <1>1. Core /\ call[p].at = "compare"
        /\ UNCHANGED <<journal, entries, balance, period, crashes, overlap, replicaSet>>
    BY DEF RepairCompare, LedgerInv
  <1>2. call[p] \in CallType /\ call[p].key = NoKey /\ call \in [Procs -> CallType]
        /\ call[p].lines \in LineLists /\ call[p].totals \in Totals
    BY <1>1, CallParts DEF Posting, Core, Typed
  <1>3. call' = [call EXCEPT ![p] = c]
    <2>1. PICK d : d = [call[p] EXCEPT !.at = "rewrite", !.drift = drifted]
      OBVIOUS
    <2>2. call' = [call EXCEPT ![p] = d]
      BY <1>2, <2>1 DEF RepairCompare
    <2>3. d = c
      BY <1>2, <2>1 DEF CallType
    <2> QED BY <2>2, <2>3
  <1>4. c \in CallType
    <2>1. drifted \in SUBSET Accounts
      OBVIOUS
    <2> HIDE DEF drifted
    <2> QED BY <1>2, <2>1 DEF CallType, Steps
  <1>5. CallOk(c) /\ c.key = NoKey /\ c.at = "rewrite"
    BY KeysApart DEF CallOk, Posting, Writing, Written
  <1>6. c.key \notin ReversalKeys /\ call[p].key \notin ReversalKeys /\ balance' \in Totals
    BY <1>1, <1>2, <1>5, KeysApart DEF Core, Typed
  <1> HIDE DEF c
  <1> QED BY <1>1, <1>3, <1>4, <1>5, <1>6, QuietStep

LEMMA StepRepairRewrite ==
    ASSUME LedgerInv, NEW p \in Procs, RepairRewrite(p)
    PROVE  LedgerInv'
  <1>1. Core /\ call[p].at = "rewrite"
        /\ UNCHANGED <<journal, entries, period, crashes, overlap, replicaSet>>
    BY DEF RepairRewrite, LedgerInv
  <1>2. call[p] \in CallType /\ call[p].key = NoKey /\ call \in [Procs -> CallType]
        /\ call[p].lines \in LineLists /\ call[p].totals \in Totals
        /\ call[p].drift \subseteq Accounts /\ call[p].key \notin ReversalKeys
    BY <1>1, CallParts, KeysApart DEF Posting, Core, Typed
  <1>3. CASE Return(p) /\ UNCHANGED balance
    BY <1>1, <1>2, <1>3, StepReturnEarly DEF Return
  <1>4. ASSUME NEW a \in call[p].drift, balance' = [balance EXCEPT ![a] = call[p].totals[a]],
               call' = [call EXCEPT ![p].drift = @ \ {a}]
        PROVE  LedgerInv'
    <2> DEFINE left == call[p].drift \ {a}
               c == [at |-> "rewrite", key |-> NoKey, lines |-> call[p].lines,
                     totals |-> call[p].totals, drift |-> left]
    <2>1. call' = [call EXCEPT ![p] = c]
      <3>1. PICK d : d = [call[p] EXCEPT !.drift = left]
        OBVIOUS
      <3>2. call' = [call EXCEPT ![p] = d]
        BY <1>2, <1>4, <3>1
      <3>3. d = c
        BY <1>1, <1>2, <3>1 DEF CallType
      <3> QED BY <3>2, <3>3
    <2>2. c \in CallType
      <3>1. left \in SUBSET Accounts
        BY <1>2
      <3> HIDE DEF left
      <3> QED BY <1>2, <3>1 DEF CallType, Steps
    <2>3. CallOk(c) /\ c.key \notin ReversalKeys /\ c.at = "rewrite"
      BY KeysApart DEF CallOk, Posting, Writing, Written
    <2>4. balance' \in Totals
      <3>1. balance \in Totals /\ a \in Accounts
        BY <1>1, <1>2 DEF Core, Typed
      <3> QED BY <1>2, <1>4, <3>1 DEF Totals
    <2> HIDE DEF c
    <2> QED BY <1>1, <1>2, <2>1, <2>2, <2>3, <2>4, QuietStep
  <1> QED BY <1>3, <1>4 DEF RepairRewrite

\* A call that dies ends what is known of the reversals one at a time.
LEMMA StepCrash ==
    ASSUME LedgerInv, NEW p \in Procs, Crash(p)
    PROVE  LedgerInv'
  <1>1. Core /\ call' = [call EXCEPT ![p] = Idle]
        /\ UNCHANGED <<journal, entries, balance, period, overlap, replicaSet>>
    BY DEF Crash, Return, LedgerInv
  <1>2. Idle \in CallType /\ Idle.at # "insert" /\ CallOk(Idle)
    BY <1>1, IdleTyped DEF Core
  <1>3. crashes' \in 0..MaxCrashes /\ crashes' # 0
    <2>1. crashes \in 0..MaxCrashes /\ crashes < MaxCrashes /\ crashes' = crashes + 1
          /\ MaxCrashes \in Nat
      BY <1>1, LedgerAssumption DEF Crash, Core, Typed
    <2> QED BY <2>1
  <1>4. balance' \in Totals /\ period' \in {"open", "closed"} /\ overlap' \in BOOLEAN
    BY <1>1 DEF Core, Typed
  <1>5. Core'
    BY <1>1, <1>2, <1>3, <1>4, QuietCore
  <1> QED BY <1>3, <1>5 DEF LedgerInv

LEMMA StepPeriod ==
    ASSUME LedgerInv, ClosePeriod \/ ReopenPeriod
    PROVE  LedgerInv'
  <1>1. period' \in {"open", "closed"}
        /\ UNCHANGED <<journal, entries, balance, call, crashes, overlap, replicaSet>>
    BY DEF ClosePeriod, ReopenPeriod
  <1>2. Typed'
    BY <1>1 DEF LedgerInv, Core, Typed
  <1>3. \A s \in SaleKeys : GivenBack(s)' = GivenBack(s)
    BY <1>1, GivenSame
  <1>4. \A q \in Procs : CallOk(call[q])'
    BY <1>1 DEF LedgerInv, Core, CallOk, Posted
  <1>5. \A k \in Keys : JournalOk(k)'
    BY <1>1 DEF LedgerInv, Core, JournalOk, Posted, Total
  <1>6. Inserters'
    BY <1>1 DEF LedgerInv, Core, Inserters
  <1>7. (~overlap /\ crashes = 0 => Alone)'
    <2>1. (\A s \in SaleKeys : Total(s)' = Total(s)) /\ \A q \in Procs : ToGive(call[q])' <=> ToGive(call[q])
      BY <1>1 DEF Total, ToGive
    <2>2. \A q \in Procs : call[q].key \in ReversalKeys => ReversalOf[call[q].key] \in SaleKeys
      BY KeysApart
    <2> QED BY <1>1, <1>3, <2>1, <2>2 DEF LedgerInv, Alone
  <1> QED BY <1>2, <1>4, <1>5, <1>6, <1>7 DEF LedgerInv, Core


\* A reversal starts: overlap tells whether another one of its sale is under way.
LEMMA StepReverseFind ==
    ASSUME LedgerInv, NEW p \in Procs, NEW k \in ReversalKeys, ReverseFind(p, k)
    PROVE  LedgerInv'
  <1> DEFINE origin == ReversalOf[k]
             lines == Reversal(journal[origin].lines, ReversalAmount[k])
             c == [at |-> "find", key |-> k, lines |-> lines, totals |-> ZeroBalance,
                   drift |-> {}]
  <1>1. Core /\ call[p].at = "idle" /\ Posted(origin) /\ Acceptable(lines)
        /\ ReversalAmount[k] <= Total(origin) - journal[origin].reversed
        /\ UNCHANGED <<journal, entries, balance, period, crashes, replicaSet>>
    BY DEF ReverseFind, LedgerInv
  <1>2. origin \in SaleKeys /\ origin \in Keys /\ k \in Keys /\ ReversalAmount[k] \in Nat
    BY KeysApart
  <1>3. call' = [call EXCEPT ![p] = c]
    <2>1. PICK d : d = [Idle EXCEPT !.at = "find", !.key = k, !.lines = lines]
      OBVIOUS
    <2>2. d = c
      BY <2>1 DEF Idle
    <2>3. call' = [call EXCEPT ![p] = [Idle EXCEPT !.at = "find", !.key = k, !.lines = lines]]
      BY DEF ReverseFind
    <2> HIDE DEF c, lines
    <2> QED BY <2>1, <2>2, <2>3
  <1>4. lines \in LineLists /\ lines # <<>> /\ Balanced(lines) /\ Debits(lines) = ReversalAmount[k]
    <2>1. journal[origin].lines \in LineLists
      BY <1>1, <1>2, JournalParts
    <2> QED BY <1>1, <1>2, <2>1, ReversalTyped
  <1> HIDE DEF lines
  <1>5. c \in CallType
    <2>1. ZeroBalance \in Totals
      BY <1>1, TotalsTyped DEF Core
    <2> QED BY <1>2, <1>4, <2>1 DEF CallType, Steps
  <1>6. CallOk(c) /\ c.at = "find" /\ c.key = k
    <2>1. k # NoKey
      BY <1>2, KeysApart
    <2> QED BY <1>1, <1>4, <2>1 DEF CallOk, Posting, Writing, Written
  <1> HIDE DEF c
  <1>7. overlap' \in BOOLEAN
        /\ (~overlap' => ~overlap /\ \A q \in Procs : OriginalOf(call[q].key) # origin)
    <2>1. overlap' = (overlap \/ \E q \in Procs : OriginalOf(call[q].key) = origin)
      BY DEF ReverseFind
    <2>2. overlap \in BOOLEAN
      BY <1>1 DEF Core, Typed
    <2> QED BY <2>1, <2>2
  <1>8. Core' /\ \A s \in SaleKeys : GivenBack(s)' = GivenBack(s) /\ Total(s)' = Total(s)
    <2>1. balance' \in Totals /\ period' \in {"open", "closed"} /\ crashes' \in 0..MaxCrashes
      BY <1>1 DEF Core, Typed
    <2> QED BY <1>1, <1>3, <1>5, <1>6, <1>7, <2>1, QuietCore
  <1>9. ASSUME ~overlap', crashes = 0 PROVE Alone'
    <2>1. Alone /\ \A q \in Procs : OriginalOf(call[q].key) # origin
      BY <1>7, <1>9 DEF LedgerInv
    <2>2. call'[p] = c /\ \A q \in Procs \ {p} : call'[q] = call[q]
      BY <1>1, <1>3 DEF Core, Typed
    <2>3. ASSUME NEW q \in Procs, NEW r \in Procs, q # r, call'[q].key \in ReversalKeys
          PROVE  OriginalOf(call'[q].key) # OriginalOf(call'[r].key)
      <3>1. OriginalOf(k) = origin
        BY KeysApart
      <3>2. CASE q = p
        BY <1>6, <2>1, <2>2, <2>3, <3>1, <3>2
      <3>3. CASE r = p
        BY <1>6, <2>1, <2>2, <2>3, <3>1, <3>3
      <3>4. CASE q # p /\ r # p
        BY <2>1, <2>2, <2>3, <3>4 DEF Alone
      <3> QED BY <3>2, <3>3, <3>4
    <2>4. \A s \in SaleKeys : GivenBack(s)' <= Total(s)'
      BY <1>8, <2>1 DEF Alone
    <2>5. GivenBack(origin) = journal[origin].reversed
          /\ GivenBack(origin) + ReversalAmount[k] <= Total(origin)
      <3>1. GivenBack(origin) = journal[origin].reversed
        BY <1>2, <2>1 DEF Alone
      <3>2. GivenBack(origin) \in Nat /\ Total(origin) \in Nat
        BY <1>1, <1>2, GivenTyped
      <3> QED BY <1>1, <1>2, <3>1, <3>2
    <2>6. ASSUME NEW q \in Procs, call'[q].key \in ReversalKeys,
                 NEW s \in SaleKeys, s = ReversalOf[call'[q].key]
          PROVE  IF ToGive(call[q])'
                 THEN GivenBack(s)' = journal'[s].reversed
                      /\ GivenBack(s)' + ReversalAmount[call'[q].key] <= Total(s)'
                 ELSE GivenBack(s)' = journal'[s].reversed + ReversalAmount[call'[q].key]
      <3>1. GivenBack(s)' = GivenBack(s) /\ Total(s)' = Total(s) /\ journal' = journal
        BY <1>1, <1>8
      <3>2. CASE q = p
        <4>1. s = origin /\ ToGive(call[q])' /\ call'[q].key = k
          BY <1>6, <2>2, <2>6, <3>2 DEF ToGive
        <4> HIDE DEF origin
        <4> QED BY <2>5, <3>1, <4>1
      <3>3. CASE q # p
        <4>1. call'[q] = call[q] /\ (ToGive(call[q])' <=> ToGive(call[q]))
          BY <2>2, <3>3 DEF ToGive
        <4> QED BY <2>1, <2>6, <3>1, <4>1 DEF Alone
      <3> QED BY <3>2, <3>3
    <2>7. ASSUME NEW s \in SaleKeys, \A q \in Procs : OriginalOf(call'[q].key) # s
          PROVE  GivenBack(s)' = journal'[s].reversed
      <3>1. OriginalOf(call[p].key) # s
        BY <1>1, CallParts, KeysApart DEF Posting
      <3>2. \A q \in Procs : OriginalOf(call[q].key) # s
        BY <2>2, <2>7, <3>1
      <3> QED BY <1>1, <1>8, <2>1, <3>2 DEF Alone
    <2>8. \A q \in Procs : call'[q].key \in ReversalKeys => ReversalOf[call'[q].key] \in SaleKeys
      BY KeysApart
    <2> QED BY <2>3, <2>4, <2>6, <2>7, <2>8 DEF Alone
  <1> QED BY <1>1, <1>8, <1>9 DEF LedgerInv

\* The entries of a journal are inserted by the one call that created it.
LEMMA StepInsertEntries ==
    ASSUME LedgerInv, NEW p \in Procs, PostInsertEntries(p)
    PROVE  LedgerInv'
  <1>1. Core /\ call[p].at = "insert" /\ entries' = [entries EXCEPT ![call[p].key] = @ + 1]
        /\ UNCHANGED <<journal, balance, period, crashes, overlap, replicaSet>>
    BY DEF PostInsertEntries, LedgerInv
  <1>2. Goto(p, "apply") /\ "apply" \in Steps
    BY DEF PostInsertEntries, Steps
  <1>3. PICK c \in CallType :
           /\ call' = [call EXCEPT ![p] = c]
           /\ c.at = "apply" /\ c.key = call[p].key /\ c.lines = call[p].lines
    BY <1>1, <1>2, Onward
  <1>4. PICK k \in Keys : k = call[p].key
    BY <1>1, CallParts DEF Posting
  <1>5. Posted(k) /\ entries[k] = 0 /\ CallOk(call[p])
    BY <1>1, <1>4, CallParts DEF CallOk, Written
  <1>6. call'[p] = c /\ \A q \in Procs \ {p} : call'[q] = call[q]
    BY <1>1, <1>3 DEF Core, Typed
  <1>7. entries'[k] = 1 /\ \A j \in Keys \ {k} : entries'[j] = entries[j]
    BY <1>1, <1>4, <1>5 DEF Core, Typed
  <1>8. Typed'
    <2>1. entries' \in [Keys -> Nat]
      <3>1. \A j \in Keys : entries'[j] \in Nat
        BY <1>1, <1>7 DEF Core, Typed
      <3> QED BY <1>1, <3>1 DEF Core, Typed
    <2> QED BY <1>1, <1>3, <2>1 DEF Core, Typed
  <1>9. ASSUME NEW q \in Procs PROVE CallOk(call[q])'
    <2>1. CASE q = p
      BY <1>1, <1>3, <1>4, <1>5, <1>6, <2>1 DEF CallOk, Posting, Writing, Written, Posted
    <2>2. CASE q # p
      <3>1. call'[q] = call[q] /\ CallOk(call[q])
        BY <1>6, <2>2, <1>1 DEF Core
      <3>2. call[q].at = "insert" => call[q].key \in Keys \ {k}
        BY <1>1, <1>4, <2>2, CallParts DEF Core, Inserters, Posting
      <3>3. call[q].at = "insert" => entries'[call[q].key] = 0
        BY <1>7, <3>1, <3>2 DEF CallOk
      <3> QED BY <1>1, <3>1, <3>3 DEF CallOk, Posted
    <2> QED BY <2>1, <2>2
  <1>10. ASSUME NEW j \in Keys PROVE JournalOk(j)'
    <2>1. JournalOk(j) /\ (Posted(j)' <=> Posted(j)) /\ Total(j)' = Total(j)
      BY <1>1 DEF Core, Posted, Total
    <2>2. entries'[j] <= IF Posted(j) THEN 1 ELSE 0
      <3>1. CASE j = k
        BY <1>5, <1>7, <3>1
      <3>2. CASE j # k
        BY <1>7, <2>1, <3>2 DEF JournalOk
      <3> QED BY <3>1, <3>2
    <2>3. \A s : Posted(s)' <=> Posted(s)
      BY <1>1 DEF Posted
    <2> QED BY <1>1, <2>1, <2>2, <2>3 DEF JournalOk
  <1>11. Inserters'
    BY <1>1, <1>3, <1>6 DEF Core, Inserters
  <1>12. ASSUME ~overlap, crashes = 0 PROVE Alone'
    <2>1. Alone
      BY <1>12 DEF LedgerInv
    <2>2. \A s \in SaleKeys : GivenBack(s)' = GivenBack(s) /\ Total(s)' = Total(s)
      BY <1>1, GivenSame DEF Total
    <2>3. \A q \in Procs : call'[q].key = call[q].key /\ (ToGive(call[q])' <=> ToGive(call[q]))
      BY <1>1, <1>3, <1>6 DEF ToGive
    <2>4. \A q \in Procs : call[q].key \in ReversalKeys => ReversalOf[call[q].key] \in SaleKeys
      BY KeysApart
    <2> QED BY <1>1, <2>1, <2>2, <2>3, <2>4 DEF Alone
  <1> QED BY <1>1, <1>8, <1>9, <1>10, <1>11, <1>12 DEF LedgerInv, Core


\* A reversal is done when the original has counted it.
LEMMA StepPostReturn ==
    ASSUME LedgerInv, NEW p \in Procs, PostReturn(p)
    PROVE  LedgerInv'
  <1>1. Core /\ call[p].at = "posted" /\ call' = [call EXCEPT ![p] = Idle]
        /\ UNCHANGED <<entries, balance, period, crashes, overlap, replicaSet>>
    BY DEF PostReturn, Return, LedgerInv
  <1>2. CASE call[p].key \notin ReversalKeys
    <2>1. UNCHANGED journal
      BY <1>2 DEF PostReturn
    <2> QED BY <1>1, <1>2, <2>1, StepReturnEarly
  <1>3. CASE call[p].key \in ReversalKeys
    <2>1. PICK k \in ReversalKeys : k = call[p].key
      BY <1>3
    <2>2. PICK origin \in SaleKeys : origin = ReversalOf[k]
      BY KeysApart
    <2>3. journal' = [journal EXCEPT ![origin].reversed = @ + ReversalAmount[k]]
      BY <1>3, <2>1, <2>2 DEF PostReturn
    <2>4. Posted(origin) /\ OriginalOf(k) = origin /\ origin \in Keys /\ ReversalAmount[k] \in Nat
      <3>1. CallOk(call[p])
        BY <1>1, CallParts
      <3> QED BY <2>1, <2>2, <3>1, KeysApart DEF CallOk
    <2>5. journal \in [Keys -> JournalType] /\ journal[origin] \in JournalType
          /\ journal[origin].reversed \in Nat
      BY <1>1, <2>4, JournalParts DEF Core, Typed
    <2>6. PICK j : j = [journal[origin] EXCEPT !.reversed = @ + ReversalAmount[k]]
      OBVIOUS
    <2>7. j \in JournalType /\ j.lines = journal[origin].lines /\ j.of = journal[origin].of
          /\ j.reversed = journal[origin].reversed + ReversalAmount[k]
      <3>1. journal[origin].reversed + ReversalAmount[k] \in Nat
        BY <2>4, <2>5
      <3> QED BY <2>5, <2>6, <3>1 DEF JournalType
    <2>8. journal' = [journal EXCEPT ![origin] = j]
      BY <2>3, <2>5, <2>6
    <2>9. journal'[origin] = j /\ \A i \in Keys \ {origin} : journal'[i] = journal[i]
      BY <2>4, <2>5, <2>8
    <2>10. \A i \in Keys : /\ journal'[i].lines = journal[i].lines
                           /\ journal'[i].of = journal[i].of
                           /\ Posted(i)' <=> Posted(i)
                           /\ Total(i)' = Total(i)
      <3>1. \A i \in Keys : journal'[i].lines = journal[i].lines /\ journal'[i].of = journal[i].of
        BY <2>7, <2>9
      <3> QED BY <3>1 DEF Posted, Total
    <2>11. \A s \in SaleKeys : GivenBack(s)' = GivenBack(s)
      BY <2>10, KeysApart, GivenSame
    <2>12. call'[p] = Idle /\ \A q \in Procs \ {p} : call'[q] = call[q]
      BY <1>1 DEF Core, Typed
    <2>13. Idle \in CallType /\ CallOk(Idle) /\ Idle.at = "idle" /\ Idle.key = NoKey
      BY <1>1, IdleTyped DEF Core
    <2>14. Typed'
      <3>1. journal' \in [Keys -> JournalType] /\ call' \in [Procs -> CallType]
        BY <1>1, <2>5, <2>7, <2>8, <2>13 DEF Core, Typed
      <3> QED BY <1>1, <3>1 DEF Core, Typed
    <2>15. ASSUME NEW q \in Procs PROVE CallOk(call[q])'
      <3>1. CASE q = p
        BY <2>12, <2>13, <3>1, KeysApart DEF CallOk, Posting, Writing, Written
      <3>2. CASE q # p
        <4>1. call'[q] = call[q] /\ CallOk(call[q])
          BY <1>1, <2>12, <3>2 DEF Core
        <4>2. call[q].at \in Written => call[q].key \in Keys
          BY <1>1, CallParts DEF Written, Posting
        <4>3. call[q].key \in ReversalKeys => ReversalOf[call[q].key] \in Keys
          BY KeysApart
        <4>4. call[q].at \in Written => Posted(call[q].key)'
          BY <2>10, <4>1, <4>2 DEF CallOk
        <4>5. call[q].key \in ReversalKeys => Posted(ReversalOf[call[q].key])'
          BY <2>10, <4>1, <4>3 DEF CallOk
        <4> QED BY <1>1, <4>1, <4>4, <4>5 DEF CallOk
      <3> QED BY <3>1, <3>2
    <2>16. ASSUME NEW i \in Keys PROVE JournalOk(i)'
      <3>1. JournalOk(i) /\ (i \in ReversalKeys => ReversalOf[i] \in Keys)
        BY <1>1, KeysApart, JournalParts
      <3>2. i \in ReversalKeys /\ Posted(i) => Posted(ReversalOf[i])' /\ Total(i)' = ReversalAmount[i]
        BY <2>10, <3>1 DEF JournalOk
      <3>3. ~Posted(i) => journal'[i].reversed = 0
        BY <2>4, <2>9, <3>1 DEF JournalOk
      <3>4. (Posted(i)' <=> Posted(i)) /\ journal'[i].lines = journal[i].lines
            /\ journal'[i].of = journal[i].of /\ entries' = entries
        BY <1>1, <2>10
      <3> QED BY <3>1, <3>2, <3>3, <3>4 DEF JournalOk
    <2>17. Inserters'
      BY <1>1, <2>12, <2>13 DEF Core, Inserters
    <2>18. ASSUME ~overlap, crashes = 0 PROVE Alone'
      <3>1. Alone /\ ~ToGive(call[p])
        BY <1>1, <2>18 DEF LedgerInv, ToGive
      <3>2. ASSUME NEW q \in Procs, NEW r \in Procs, q # r, call'[q].key \in ReversalKeys
            PROVE  OriginalOf(call'[q].key) # OriginalOf(call'[r].key)
        <4>1. q # p /\ call'[q] = call[q]
          BY <2>12, <2>13, <3>2, KeysApart
        <4>2. CASE r = p
          <5>1. OriginalOf(call'[r].key) = NoKey
            BY <2>12, <2>13, <4>2, KeysApart
          <5> QED BY <3>2, <5>1, KeysApart
        <4>3. CASE r # p
          BY <2>12, <3>1, <3>2, <4>1, <4>3 DEF Alone
        <4> QED BY <4>2, <4>3
      <3>3. \A s \in SaleKeys : GivenBack(s)' <= Total(s)' /\ Total(s)' = Total(s)
        BY <2>10, <2>11, <3>1, KeysApart DEF Alone
      <3>4. ASSUME NEW q \in Procs, call'[q].key \in ReversalKeys,
                   NEW s \in SaleKeys, s = ReversalOf[call'[q].key]
            PROVE  IF ToGive(call[q])'
                   THEN GivenBack(s)' = journal'[s].reversed
                        /\ GivenBack(s)' + ReversalAmount[call'[q].key] <= Total(s)'
                   ELSE GivenBack(s)' = journal'[s].reversed + ReversalAmount[call'[q].key]
        <4>1. q # p /\ call'[q] = call[q] /\ (ToGive(call[q])' <=> ToGive(call[q]))
          BY <2>12, <2>13, <3>4, KeysApart DEF ToGive
        <4>2. s # origin
          BY <2>1, <2>4, <3>1, <3>4, <4>1, KeysApart DEF Alone
        <4>3. journal'[s] = journal[s]
          BY <2>9, <4>2, KeysApart
        <4> QED BY <2>11, <3>1, <3>3, <3>4, <4>1, <4>3 DEF Alone
      <3>5. ASSUME NEW s \in SaleKeys, \A q \in Procs : OriginalOf(call'[q].key) # s
            PROVE  GivenBack(s)' = journal'[s].reversed
        <4>1. CASE s = origin
          BY <2>1, <2>2, <2>7, <2>9, <2>11, <3>1, <4>1 DEF Alone
        <4>2. CASE s # origin
          <5>1. \A q \in Procs : OriginalOf(call[q].key) # s
            BY <2>1, <2>4, <2>12, <3>5, <4>2
          <5>2. journal'[s] = journal[s]
            BY <2>9, <4>2, KeysApart
          <5> QED BY <2>11, <3>1, <5>1, <5>2 DEF Alone
        <4> QED BY <4>1, <4>2
      <3>6. \A q \in Procs : call'[q].key \in ReversalKeys => ReversalOf[call'[q].key] \in SaleKeys
        BY KeysApart
      <3> QED BY <3>2, <3>3, <3>4, <3>5, <3>6 DEF Alone
    <2> QED BY <1>1, <2>14, <2>15, <2>16, <2>17, <2>18 DEF LedgerInv, Core
  <1> QED BY <1>2, <1>3


\* A journal is born: the unique index lets one call create it, and what a
\* reversal gives back was still left of its sale.
LEMMA StepPostCreate ==
    ASSUME LedgerInv, NEW p \in Procs, PostCreate(p)
    PROVE  LedgerInv'
  <1>1. Core /\ call[p].at = "create" /\ UNCHANGED <<period, crashes, overlap, replicaSet>>
    BY DEF PostCreate, LedgerInv
  <1>2. CASE Posted(call[p].key)
    <2>1. call' = [call EXCEPT ![p] = Idle] /\ UNCHANGED <<journal, entries, balance>>
      BY <1>2 DEF PostCreate, Return
    <2>2. ToGive(call[p])
      BY <1>1 DEF ToGive
    <2> QED BY <1>1, <2>1, <2>2, StepReturnEarly
  <1>3. CASE ~Posted(call[p].key)
    <2>1. PICK k \in Keys : k = call[p].key
      BY <1>1, CallParts DEF Posting
    <2> DEFINE lines == call[p].lines
               j == [lines |-> lines, of |-> OriginalOf(k), reversed |-> 0]
    <2>2. ~Posted(k) /\ journal' = [journal EXCEPT ![k] = j]
      BY <1>3, <2>1 DEF PostCreate
    <2>3. /\ lines \in LineLists /\ lines # <<>> /\ Balanced(lines)
          /\ k \in ReversalKeys => /\ ReversalOf[k] \in SaleKeys /\ Posted(ReversalOf[k])
                                   /\ Debits(lines) = ReversalAmount[k]
      <3>1. CallOk(call[p]) /\ lines \in LineLists
        BY <1>1, CallParts
      <3> QED BY <1>1, <2>1, <3>1, KeysApart DEF CallOk, Writing, Posting
    <2>4. PICK step \in {"insert", "posted"} :
            /\ Goto(p, step)
            /\ step = "insert" => UNCHANGED <<entries, balance>>
            /\ step = "posted" => /\ entries' = [entries EXCEPT ![k] = @ + 1]
                                  /\ balance' = Applied(balance, lines)
      BY <1>3, <2>1 DEF PostCreate
    <2>5. PICK c \in CallType :
             /\ call' = [call EXCEPT ![p] = c]
             /\ c.at = step /\ c.key = k /\ c.lines = lines
      <3>1. step \in Steps
        BY DEF Steps
      <3> QED BY <1>1, <2>1, <2>4, <3>1, Onward
    <2>6. call'[p] = c /\ \A q \in Procs \ {p} : call'[q] = call[q]
      BY <1>1, <2>5 DEF Core, Typed
    <2>7. j \in JournalType /\ j.lines = lines /\ j.of = OriginalOf(k) /\ j.reversed = 0
      <3>1. OriginalOf(k) \in SaleKeys \cup {NoKey}
        BY KeysApart
      <3> HIDE DEF lines
      <3> QED BY <2>3, <3>1 DEF JournalType
    <2> HIDE DEF j, lines
    <2>8. journal'[k] = j /\ \A i \in Keys \ {k} : journal'[i] = journal[i]
      BY <1>1, <2>2 DEF Core, Typed
    <2>9. Posted(k)' /\ Total(k)' = Debits(lines)
      BY <2>3, <2>7, <2>8 DEF Posted, Total
    <2>10. \A i \in Keys \ {k} : (Posted(i)' <=> Posted(i)) /\ Total(i)' = Total(i)
      BY <2>8 DEF Posted, Total
    <2>11. entries[k] = 0 /\ entries'[k] = (IF step = "insert" THEN 0 ELSE 1)
           /\ \A i \in Keys \ {k} : entries'[i] = entries[i]
      <3>1. entries \in [Keys -> Nat] /\ entries[k] \in Nat /\ JournalOk(k)
        BY <1>1, JournalParts DEF Core, Typed
      <3>2. entries[k] = 0
        BY <2>2, <3>1 DEF JournalOk
      <3>3. CASE step = "insert"
        BY <2>4, <3>2, <3>3
      <3>4. CASE step = "posted"
        BY <2>4, <3>1, <3>2, <3>4
      <3> QED BY <3>3, <3>4
    <2>12. Typed'
      <3>1. journal' \in [Keys -> JournalType] /\ call' \in [Procs -> CallType]
        BY <1>1, <2>2, <2>5, <2>7 DEF Core, Typed
      <3>2. entries' \in [Keys -> Nat]
        <4>1. entries \in [Keys -> Nat]
          BY <1>1 DEF Core, Typed
        <4>2. CASE step = "insert"
          BY <2>4, <4>1, <4>2
        <4>3. CASE step = "posted"
          BY <2>4, <4>1, <4>3
        <4> QED BY <4>2, <4>3
      <3>3. balance' \in Totals
        <4>1. balance \in Totals /\ Applied(balance, lines) \in Totals
          BY <1>1, <2>3, TotalsTyped DEF Core, Typed
        <4> QED BY <2>4, <4>1
      <3> QED BY <1>1, <3>1, <3>2, <3>3 DEF Core, Typed
    <2>13. ASSUME NEW q \in Procs PROVE CallOk(call[q])'
      <3>1. CASE q = p
        <4>1. k # NoKey /\ (k \in ReversalKeys => Posted(ReversalOf[k])')
          <5>1. k \in ReversalKeys => ReversalOf[k] \in Keys \ {k}
            BY KeysApart
          <5> QED BY <2>3, <2>10, <5>1, KeysApart
        <4>2. call'[q].at \in {"insert", "posted"} /\ call'[q].key = k /\ call'[q].lines = lines
          BY <2>4, <2>5, <2>6, <3>1
        <4>3. Posted(call[q].key)' /\ (call'[q].at = "insert" => entries'[call'[q].key] = 0)
          BY <2>5, <2>6, <2>9, <2>11, <3>1, <4>2
        <4>4. k \in ReversalKeys => Posted(ReversalOf[call[q].key])'
          BY <4>1, <4>2
        <4> QED BY <2>3, <4>1, <4>2, <4>3, <4>4 DEF CallOk, Posting, Writing, Written
      <3>2. CASE q # p
        <4>1. call'[q] = call[q] /\ CallOk(call[q])
          BY <1>1, <2>6, <3>2 DEF Core
        <4>2. call[q].at \in Written => call[q].key \in Keys \ {k}
          BY <1>1, <2>2, <4>1, CallParts DEF Written, Posting, CallOk
        <4>3. call[q].key \in ReversalKeys => ReversalOf[call[q].key] \in Keys
          BY KeysApart
        <4>4. call[q].at \in Written => Posted(call[q].key)'
          BY <2>10, <4>1, <4>2 DEF CallOk
        <4>5. call[q].key \in ReversalKeys => Posted(ReversalOf[call[q].key])'
          BY <2>9, <2>10, <4>1, <4>3 DEF CallOk
        <4>6. call[q].at = "insert" => entries'[call[q].key] = 0
          BY <2>11, <4>1, <4>2 DEF CallOk, Written
        <4> QED BY <4>1, <4>4, <4>5, <4>6 DEF CallOk
      <3> QED BY <3>1, <3>2
    <2>14. ASSUME NEW i \in Keys PROVE JournalOk(i)'
      <3>1. CASE i = k
        <4>1. k \in ReversalKeys => Posted(ReversalOf[k])' /\ Total(k)' = ReversalAmount[k]
          <5>1. k \in ReversalKeys => ReversalOf[k] \in Keys \ {k}
            BY KeysApart
          <5> QED BY <2>3, <2>9, <2>10, <5>1
        <4>2. Balanced(journal'[k].lines) /\ journal'[k].of = OriginalOf(k)
          BY <2>3, <2>7, <2>8
        <4>3. entries'[k] <= 1
          BY <2>11
        <4> QED BY <2>9, <3>1, <4>1, <4>2, <4>3 DEF JournalOk, OriginalOf, Balanced
      <3>2. CASE i # k
        <4>1. JournalOk(i) /\ journal'[i] = journal[i] /\ entries'[i] = entries[i]
              /\ (Posted(i)' <=> Posted(i)) /\ Total(i)' = Total(i)
          BY <1>1, <2>8, <2>10, <2>11, <3>2 DEF Core
        <4>2. i \in ReversalKeys /\ Posted(i) => Posted(ReversalOf[i])'
          BY <2>9, <2>10, <4>1, KeysApart DEF JournalOk
        <4> QED BY <4>1, <4>2 DEF JournalOk
      <3> QED BY <3>1, <3>2
    <2>15. Inserters'
      <3>1. ASSUME NEW q \in Procs \ {p}, call[q].at = "insert" PROVE call[q].key # k
        BY <1>1, <2>2, <3>1 DEF Core, CallOk, Written
      <3> QED BY <1>1, <2>5, <2>6, <3>1 DEF Core, Inserters
    <2>16. Core'
      BY <2>12, <2>13, <2>14, <2>15 DEF Core
    <2>17. ASSUME ~overlap, crashes = 0 PROVE Alone'
      <3>1. Alone /\ ToGive(call[p]) /\ ~ToGive(c)
        BY <1>1, <2>4, <2>5, <2>17 DEF LedgerInv, ToGive
      <3>2. \A q \in Procs : call'[q].key = call[q].key
        BY <2>1, <2>5, <2>6
      <3>3. \A s \in SaleKeys : journal'[s].reversed = journal[s].reversed
        <4>1. JournalOk(k)
          BY <1>1, JournalParts
        <4> QED BY <2>2, <2>7, <2>8, <4>1, KeysApart DEF JournalOk
      <3>4. \A q \in Procs : call'[q].key \in ReversalKeys => ReversalOf[call'[q].key] \in SaleKeys
        BY KeysApart
      <3>5. CASE k \notin ReversalKeys
        <4>1. \A s \in SaleKeys : GivenBack(s)' = GivenBack(s)
          <5>1. \A i \in ReversalKeys : journal'[i] = journal[i]
            BY <2>8, <3>5, KeysApart
          <5> QED BY <5>1, GivenSame
        <4>2. ASSUME NEW s \in SaleKeys
              PROVE  GivenBack(s)' <= Total(s)' /\ (s # k => Total(s)' = Total(s))
          <5>1. CASE s = k
            <6>1. \A q \in Procs : OriginalOf(call[q].key) # s
              <7>1. ASSUME NEW q \in Procs, OriginalOf(call[q].key) = s PROVE FALSE
                <8>1. call[q].key \in ReversalKeys /\ ReversalOf[call[q].key] = s
                  BY <7>1, KeysApart
                <8>2. Posted(s)
                  BY <1>1, <8>1 DEF Core, CallOk
                <8> QED BY <2>2, <5>1, <8>2
              <7> QED BY <7>1
            <6>2. GivenBack(s) = 0
              <7>1. GivenBack(s) = journal[s].reversed
                BY <3>1, <6>1 DEF Alone
              <7>2. JournalOk(s)
                BY <1>1, KeysApart, JournalParts
              <7> QED BY <2>2, <5>1, <7>1, <7>2 DEF JournalOk
            <6>3. Total(s)' \in Nat
              BY <2>3, <2>9, <5>1, LinesSum
            <6> QED BY <4>1, <5>1, <6>2, <6>3
          <5>2. CASE s # k
            BY <2>10, <3>1, <4>1, <5>2, KeysApart DEF Alone
          <5> QED BY <5>1, <5>2
        <4>3. ASSUME NEW q \in Procs, call[q].key \in ReversalKeys
              PROVE  (ToGive(call[q])' <=> ToGive(call[q])) /\ ReversalOf[call[q].key] # k
          <5>1. q # p /\ Posted(ReversalOf[call[q].key])
            BY <1>1, <2>1, <3>5, <4>3 DEF Core, CallOk
          <5> QED BY <2>2, <2>6, <5>1 DEF ToGive
        <4>4. ASSUME NEW q \in Procs, call'[q].key \in ReversalKeys,
                     NEW s \in SaleKeys, s = ReversalOf[call'[q].key]
              PROVE  IF ToGive(call[q])'
                     THEN GivenBack(s)' = journal'[s].reversed
                          /\ GivenBack(s)' + ReversalAmount[call'[q].key] <= Total(s)'
                     ELSE GivenBack(s)' = journal'[s].reversed + ReversalAmount[call'[q].key]
          <5>1. call[q].key \in ReversalKeys /\ s = ReversalOf[call[q].key]
            BY <3>2, <4>4
          <5>2. Total(s)' = Total(s) /\ (ToGive(call[q])' <=> ToGive(call[q]))
            BY <4>2, <4>3, <5>1
          <5>3. IF ToGive(call[q])
                THEN GivenBack(s) = journal[s].reversed
                     /\ GivenBack(s) + ReversalAmount[call[q].key] <= Total(s)
                ELSE GivenBack(s) = journal[s].reversed + ReversalAmount[call[q].key]
            BY <3>1, <5>1 DEF Alone
          <5>4. call'[q].key = call[q].key /\ GivenBack(s)' = GivenBack(s)
                /\ journal'[s].reversed = journal[s].reversed
            BY <3>2, <3>3, <4>1
          <5> QED BY <5>2, <5>3, <5>4
        <4>5. \A q, r \in Procs : q # r /\ call'[q].key \in ReversalKeys =>
                OriginalOf(call'[q].key) # OriginalOf(call'[r].key)
          BY <3>1, <3>2 DEF Alone
        <4>6. \A s \in SaleKeys : (\A q \in Procs : OriginalOf(call'[q].key) # s) =>
                GivenBack(s)' = journal'[s].reversed
          BY <3>1, <3>2, <3>3, <4>1 DEF Alone
        <4> QED BY <3>4, <4>2, <4>4, <4>5, <4>6 DEF Alone
      <3>6. CASE k \in ReversalKeys
        <4>1. PICK origin \in SaleKeys : origin = ReversalOf[k] /\ origin = OriginalOf(k) /\ origin # k
          BY <3>6, KeysApart
        <4>2. \A s \in SaleKeys :
                /\ Total(s)' = Total(s)
                /\ GivenBack(s)' = GivenBack(s) + IF s = origin THEN ReversalAmount[k] ELSE 0
          <5>1. \A s \in SaleKeys :
                GivenBack(s)' = GivenBack(s) + IF s = ReversalOf[k] THEN ReversalAmount[k] ELSE 0
            BY <1>1, <2>2, <2>8, <2>9, <2>16, <3>6, GivenAdded
          <5>2. \A s \in SaleKeys : Total(s)' = Total(s)
            BY <2>10, <3>6, KeysApart
          <5> QED BY <4>1, <5>1, <5>2
        <4>3. GivenBack(origin) = journal[origin].reversed
              /\ GivenBack(origin) + ReversalAmount[k] <= Total(origin)
          BY <2>1, <3>1, <3>6, <4>1 DEF Alone
        <4>4. \A s \in SaleKeys : s # origin => GivenBack(s)' = GivenBack(s)
          BY <1>1, <4>2, GivenTyped
        <4>5. \A s \in SaleKeys : GivenBack(s)' <= Total(s)'
          <5> TAKE s \in SaleKeys
          <5>1. CASE s = origin
            BY <4>2, <4>3, <5>1
          <5>2. CASE s # origin
            BY <3>1, <4>2, <4>4, <5>2 DEF Alone
          <5> QED BY <5>1, <5>2
        <4>6. ASSUME NEW q \in Procs, call'[q].key \in ReversalKeys,
                     NEW s \in SaleKeys, s = ReversalOf[call'[q].key]
              PROVE  IF ToGive(call[q])'
                     THEN GivenBack(s)' = journal'[s].reversed
                          /\ GivenBack(s)' + ReversalAmount[call'[q].key] <= Total(s)'
                     ELSE GivenBack(s)' = journal'[s].reversed + ReversalAmount[call'[q].key]
          <5>1. CASE q = p
            <6>1. s = origin /\ ~ToGive(call[q])' /\ call'[q].key = k
              BY <2>1, <2>6, <3>1, <3>2, <4>1, <4>6, <5>1 DEF ToGive
            <6> QED BY <3>3, <4>2, <4>3, <6>1
          <5>2. CASE q # p
            <6>1. call'[q] = call[q] /\ (ToGive(call[q])' <=> ToGive(call[q]))
                  /\ call[q].key \in ReversalKeys /\ s = ReversalOf[call[q].key]
              BY <2>6, <4>6, <5>2 DEF ToGive
            <6>2. s # origin
              BY <2>1, <3>1, <4>1, <5>2, <6>1, KeysApart DEF Alone
            <6>3. IF ToGive(call[q])
                  THEN GivenBack(s) = journal[s].reversed
                       /\ GivenBack(s) + ReversalAmount[call[q].key] <= Total(s)
                  ELSE GivenBack(s) = journal[s].reversed + ReversalAmount[call[q].key]
              BY <3>1, <6>1 DEF Alone
            <6>4. GivenBack(s)' = GivenBack(s) /\ Total(s)' = Total(s)
                  /\ journal'[s].reversed = journal[s].reversed
              BY <3>3, <4>2, <4>4, <6>2
            <6> QED BY <6>1, <6>3, <6>4
          <5> QED BY <5>1, <5>2
        <4>7. \A q, r \in Procs : q # r /\ call'[q].key \in ReversalKeys =>
                OriginalOf(call'[q].key) # OriginalOf(call'[r].key)
          BY <3>1, <3>2 DEF Alone
        <4>8. ASSUME NEW s \in SaleKeys, \A q \in Procs : OriginalOf(call'[q].key) # s
              PROVE  GivenBack(s)' = journal'[s].reversed
          <5>1. s # origin
            BY <2>1, <3>2, <4>1, <4>8
          <5> QED BY <3>1, <3>2, <3>3, <4>4, <4>8, <5>1 DEF Alone
        <4> QED BY <3>4, <4>5, <4>6, <4>7, <4>8 DEF Alone
      <3> QED BY <3>5, <3>6
    <2> QED BY <1>1, <2>16, <2>17 DEF LedgerInv
  <1> QED BY <1>2, <1>3


-----------------------------------------------------------------------------
(* The invariant holds from the start and at every step. *)

LEMMA LedgerInit == ASSUME Init PROVE LedgerInv
  <1>1. journal = [k \in Keys |-> NoJournal] /\ entries = [k \in Keys |-> 0]
        /\ balance = ZeroBalance /\ period = "open" /\ call = [p \in Procs |-> Idle]
        /\ crashes = 0 /\ overlap = FALSE /\ replicaSet \in BOOLEAN
    BY DEF Init
  <1>2. ZeroBalance \in Totals
    BY DEF ZeroBalance, Totals
  <1>3. NoJournal \in JournalType /\ NoJournal.lines = <<>> /\ NoJournal.reversed = 0
    BY NoLines DEF NoJournal, JournalType
  <1>4. Idle \in CallType /\ Idle.at = "idle" /\ Idle.key = NoKey
    <2>1. Idle = [at |-> "idle", key |-> NoKey, lines |-> <<>>, totals |-> ZeroBalance, drift |-> {}]
      BY DEF Idle
    <2> QED BY <1>2, <2>1, NoLines DEF CallType, Steps
  <1>5. Typed
    <2>1. crashes \in 0..MaxCrashes
      BY <1>1, LedgerAssumption
    <2>2. journal \in [Keys -> JournalType] /\ entries \in [Keys -> Nat]
          /\ call \in [Procs -> CallType]
      BY <1>1, <1>3, <1>4
    <2> QED BY <1>1, <1>2, <2>1, <2>2 DEF Typed
  <1>6. \A p \in Procs : CallOk(call[p])
    BY <1>1, <1>5, IdleTyped
  <1>7. \A k \in Keys : ~Posted(k) /\ JournalOk(k)
    BY <1>1, <1>3 DEF JournalOk, Posted
  <1>8. Inserters
    BY <1>1, <1>4 DEF Inserters
  <1>9. Core
    BY <1>5, <1>6, <1>7, <1>8 DEF Core
  <1>10. Alone
    <2>1. ASSUME NEW s \in SaleKeys PROVE GivenBack(s) = 0
      <3> DEFINE f == [k \in ReversalKeys |->
                          IF Posted(k) /\ journal[k].of = s THEN Total(k) ELSE 0]
      <3>1. DOMAIN f = ReversalKeys /\ \A k \in ReversalKeys : f[k] = 0
        BY <1>7, KeysApart
      <3>2. SumFunctionOnSet(f, ReversalKeys) = 0
        <4> HIDE DEF f
        <4> QED BY <3>1, KeysFinite, SumZero
      <3> QED BY <3>1, <3>2 DEF GivenBack, SumFunction
    <2>2. \A p \in Procs : call[p].key \notin ReversalKeys
      BY <1>1, <1>4, KeysApart
    <2>3. \A s \in SaleKeys : journal[s].reversed = 0
      BY <1>1, <1>3, KeysApart
    <2>4. \A s \in SaleKeys : GivenBack(s) <= Total(s)
      BY <1>9, <2>1, GivenTyped, KeysApart
    <2> QED BY <2>1, <2>2, <2>3, <2>4 DEF Alone
  <1> QED BY <1>9, <1>10 DEF LedgerInv

LEMMA LedgerStep == ASSUME LedgerInv, [Next]_vars PROVE LedgerInv'
  <1>1. ASSUME NEW p \in Procs, NEW k \in SaleKeys, PostSale(p, k) PROVE LedgerInv'
    BY <1>1, StepPostSale
  <1>2. ASSUME NEW p \in Procs, NEW k \in ReversalKeys, ReverseFind(p, k) PROVE LedgerInv'
    BY <1>2, StepReverseFind
  <1>3. ASSUME NEW p \in Procs, Proceed(p) PROVE LedgerInv'
    BY <1>3, StepPostFind, StepPostCreate, StepInsertEntries, StepApplyBalances,
       StepPostReturn, StepRepairCompare, StepRepairRewrite DEF Proceed
  <1>4. ASSUME NEW p \in Procs, RepairAggregate(p) PROVE LedgerInv'
    BY <1>4, StepRepairAggregate
  <1>5. ASSUME NEW p \in Procs, Crash(p) PROVE LedgerInv'
    BY <1>5, StepCrash
  <1>6. CASE ClosePeriod \/ ReopenPeriod
    BY <1>6, StepPeriod
  <1>7. CASE UNCHANGED vars
    <2>1. journal' = journal /\ entries' = entries /\ balance' = balance /\ period' = period
          /\ call' = call /\ crashes' = crashes /\ overlap' = overlap /\ replicaSet' = replicaSet
      BY <1>7 DEF vars
    <2>2. Typed'
      BY <2>1 DEF LedgerInv, Core, Typed
    <2>3. \A s \in SaleKeys : GivenBack(s)' = GivenBack(s)
      BY <2>1, GivenSame
    <2>4. \A q \in Procs : CallOk(call[q])'
      BY <2>1 DEF LedgerInv, Core, CallOk, Posted
    <2>5. \A k \in Keys : JournalOk(k)'
      BY <2>1 DEF LedgerInv, Core, JournalOk, Posted, Total
    <2>6. Inserters'
      BY <2>1 DEF LedgerInv, Core, Inserters
    <2>7. (~overlap /\ crashes = 0 => Alone)'
      <3>1. (\A s \in SaleKeys : Total(s)' = Total(s))
            /\ \A q \in Procs : ToGive(call[q])' <=> ToGive(call[q])
        BY <2>1 DEF Total, ToGive
      <3>2. \A q \in Procs : call[q].key \in ReversalKeys => ReversalOf[call[q].key] \in SaleKeys
        BY KeysApart
      <3> QED BY <2>1, <2>3, <3>1, <3>2 DEF LedgerInv, Alone
    <2> QED BY <2>2, <2>4, <2>5, <2>6, <2>7 DEF LedgerInv, Core
  <1> QED BY <1>1, <1>2, <1>3, <1>4, <1>5, <1>6, <1>7 DEF Next

\* The books balance: sums by account of what was inserted, swapped into sums
\* by journal, are the two sides of balanced journals.
LEMMA BooksBalance == ASSUME LedgerInv PROVE TrialBalance
  <1> DEFINE md == [x \in Accounts \X Keys |-> entries[x[2]] * DebitOf(journal[x[2]].lines, x[1])]
             mc == [x \in Accounts \X Keys |-> entries[x[2]] * CreditOf(journal[x[2]].lines, x[1])]
             d == [a \in Accounts |-> EntryTotals[a].dr]
             c == [a \in Accounts |-> EntryTotals[a].cr]
  <1>1. Core
    BY DEF LedgerInv
  <1>2. ASSUME NEW a \in Accounts, NEW k \in Keys
        PROVE  /\ md[<<a, k>>] = entries[k] * DebitOf(journal[k].lines, a)
               /\ mc[<<a, k>>] = entries[k] * CreditOf(journal[k].lines, a)
               /\ md[<<a, k>>] \in Int /\ mc[<<a, k>>] \in Int
    <2>1. journal[k].lines \in LineLists /\ entries[k] \in Nat
      BY <1>1, JournalParts
    <2>2. DebitOf(journal[k].lines, a) \in Nat /\ CreditOf(journal[k].lines, a) \in Nat
      BY <2>1, LinesSum
    <2>3. \A m, n \in Nat : m * n \in Int
      OBVIOUS
    <2> QED BY <2>1, <2>2, <2>3
  <1>3. ASSUME NEW a \in Accounts
        PROVE  d[a] = ColumnSums(md, Accounts, Keys)[a] /\ c[a] = ColumnSums(mc, Accounts, Keys)[a]
    <2>1. [k \in Keys |-> md[<<a, k>>]] = [k \in Keys |-> entries[k] * DebitOf(journal[k].lines, a)]
          /\ [k \in Keys |-> mc[<<a, k>>]] = [k \in Keys |-> entries[k] * CreditOf(journal[k].lines, a)]
      BY <1>2
    <2> HIDE DEF md, mc
    <2>2. d[a] = SumFunction([k \in Keys |-> md[<<a, k>>]])
          /\ c[a] = SumFunction([k \in Keys |-> mc[<<a, k>>]])
      BY <2>1 DEF EntryTotals
    <2>3. /\ SumFunction([k \in Keys |-> md[<<a, k>>]]) = SumFunctionOnSet([k \in Keys |-> md[<<a, k>>]], Keys)
          /\ SumFunction([k \in Keys |-> mc[<<a, k>>]]) = SumFunctionOnSet([k \in Keys |-> mc[<<a, k>>]], Keys)
      BY DEF SumFunction
    <2> QED BY <2>2, <2>3 DEF ColumnSums
  <1>4. ASSUME NEW k \in Keys
        PROVE  RowSums(md, Accounts, Keys)[k] = RowSums(mc, Accounts, Keys)[k]
    <2> DEFINE f == [a \in Accounts |-> md[<<a, k>>]]
               g == [a \in Accounts |-> mc[<<a, k>>]]
               fd == [a \in Accounts |-> DebitOf(journal[k].lines, a)]
               fc == [a \in Accounts |-> CreditOf(journal[k].lines, a)]
    <2>1. JournalOk(k) /\ journal[k].lines \in LineLists /\ entries[k] \in Nat
      BY <1>1, JournalParts
    <2>2. \A a \in Accounts : fd[a] \in Nat /\ fc[a] \in Nat
                              /\ f[a] = entries[k] * fd[a] /\ g[a] = entries[k] * fc[a]
      BY <1>2, <2>1, LinesSum
    <2>3. RowSums(md, Accounts, Keys)[k] = SumFunctionOnSet(f, Accounts)
          /\ RowSums(mc, Accounts, Keys)[k] = SumFunctionOnSet(g, Accounts)
      BY DEF RowSums
    <2>4. entries[k] = 0 \/ (entries[k] = 1 /\ Posted(k))
      BY <2>1 DEF JournalOk
    <2>5. SumFunctionOnSet(fd, Accounts) = Debits(journal[k].lines)
          /\ SumFunctionOnSet(fc, Accounts) = Credits(journal[k].lines)
      BY <2>1, LinesSum DEF SumFunction
    <2>6. Posted(k) => Debits(journal[k].lines) = Credits(journal[k].lines)
      BY <2>1 DEF JournalOk, Balanced
    <2> HIDE DEF f, g, fd, fc, md, mc
    <2>7. CASE entries[k] = 0
      <3>1. \A a \in Accounts : f[a] = 0 /\ g[a] = 0
        BY <2>2, <2>7
      <3>2. SumFunctionOnSet(f, Accounts) = 0 /\ SumFunctionOnSet(g, Accounts) = 0
        BY <3>1, AccountsFinite, SumZero
      <3> QED BY <2>3, <3>2
    <2>8. CASE entries[k] = 1 /\ Posted(k)
      <3>1. SameOn(f, fd, Accounts) /\ SameOn(g, fc, Accounts)
        BY <2>2, <2>8 DEF SameOn
      <3>2. /\ SumFunctionOnSet(f, Accounts) = SumFunctionOnSet(fd, Accounts)
            /\ SumFunctionOnSet(g, Accounts) = SumFunctionOnSet(fc, Accounts)
        BY <3>1, AccountsFinite, SumSame
      <3> QED BY <2>3, <2>5, <2>6, <2>8, <3>2
    <2> QED BY <2>4, <2>7, <2>8
  <1>5. SumFunction(d) = SumFunctionOnSet(d, Accounts) /\ SumFunction(c) = SumFunctionOnSet(c, Accounts)
    BY DEF SumFunction
  <1>6. TrialBalance <=> SumFunction(d) = SumFunction(c)
    BY DEF TrialBalance
  <1> HIDE DEF md, mc, d, c
  <1>7. SumFunctionOnSet(d, Accounts) = SumFunctionOnSet(ColumnSums(md, Accounts, Keys), Accounts)
        /\ SumFunctionOnSet(c, Accounts) = SumFunctionOnSet(ColumnSums(mc, Accounts, Keys), Accounts)
    <2>1. SameOn(d, ColumnSums(md, Accounts, Keys), Accounts)
          /\ SameOn(c, ColumnSums(mc, Accounts, Keys), Accounts)
      BY <1>3 DEF SameOn
    <2> QED BY <2>1, AccountsFinite, SumSame
  <1>8. SumFunctionOnSet(ColumnSums(md, Accounts, Keys), Accounts)
          = SumFunctionOnSet(RowSums(md, Accounts, Keys), Keys)
    BY <1>2, AccountsFinite, KeysFinite, SumSwap
  <1>9. SumFunctionOnSet(ColumnSums(mc, Accounts, Keys), Accounts)
          = SumFunctionOnSet(RowSums(mc, Accounts, Keys), Keys)
    BY <1>2, AccountsFinite, KeysFinite, SumSwap
  <1>10. SumFunctionOnSet(RowSums(md, Accounts, Keys), Keys)
           = SumFunctionOnSet(RowSums(mc, Accounts, Keys), Keys)
    <2>1. SameOn(RowSums(md, Accounts, Keys), RowSums(mc, Accounts, Keys), Keys)
      BY <1>4 DEF SameOn
    <2> QED BY <2>1, KeysFinite, SumSame
  <1> QED BY <1>5, <1>6, <1>7, <1>8, <1>9, <1>10

-----------------------------------------------------------------------------
(* The theorems. *)

\* Everything the ledger keeps to, whatever is retried, crashes or is repaired.
THEOREM LedgerInvariant == Spec => []LedgerInv
  BY LedgerInit, LedgerStep, PTL DEF Spec

\* The journals, the entries, the balances and the calls of ledger.service.js
\* keep their types: balances and lines are whole, non-negative paise.
THEOREM LedgerTypeSafe == Spec => []TypeOK
  <1>1. ASSUME LedgerInv PROVE TypeOK
    <2>1. Core
      BY <1>1 DEF LedgerInv
    <2>2. ASSUME NEW k \in Keys
          PROVE  /\ LinesOk(journal[k].lines) /\ journal[k].of \in SaleKeys \cup {NoKey}
                 /\ journal[k].reversed \in Nat
      BY <2>1, JournalParts, LinesParts
    <2>3. ASSUME NEW p \in Procs
          PROVE  /\ call[p].at \in Steps /\ call[p].key \in Keys \cup {NoKey}
                 /\ LinesOk(call[p].lines)
                 /\ call[p].totals \in Totals /\ call[p].drift \subseteq Accounts
      BY <2>1, CallParts, LinesParts
    <2> QED BY <2>1, <2>2, <2>3 DEF Core, Typed, TypeOK
  <1> QED BY <1>1, LedgerInvariant, PTL

\* A key's lines reach ledgerentries at most once, however often the event is
\* retried and however the retries overlap (the unique index in post).
THEOREM LedgerPostedOnce == Spec => []PostedOnce
  <1>1. ASSUME LedgerInv PROVE PostedOnce
    BY <1>1 DEF LedgerInv, Core, JournalOk, PostedOnce
  <1> QED BY <1>1, LedgerInvariant, PTL

\* The trial balance of all entries ever inserted is zero: post refuses lines
\* that do not balance, and reverseProportional scales one side and sums it.
THEOREM LedgerTrialBalance == Spec => []TrialBalance
  BY LedgerInvariant, BooksBalance, PTL

\* As long as the reversals of a sale come one at a time and none dies half way,
\* they never give back more than was posted (the check of reverseProportional).
THEOREM LedgerNeverOverReversed == Spec => []NeverOverReversedAlone
  <1>1. ASSUME LedgerInv PROVE NeverOverReversedAlone
    BY <1>1 DEF LedgerInv, Alone, NeverOverReversedAlone
  <1> QED BY <1>1, LedgerInvariant, PTL

-----------------------------------------------------------------------------
(* Ranks in a strict order of a finite set. *)

\* R orders S: it is transitive, and of two elements one comes first.
Orders(R, S) ==
    /\ \A x \in S : <<x, x>> \notin R
    /\ \A x, y, z \in S : <<x, y>> \in R /\ <<y, z>> \in R => <<x, z>> \in R
    /\ \A x, y \in S : x = y \/ <<x, y>> \in R \/ <<y, x>> \in R

Ahead(R, S, x) == {y \in S : <<y, x>> \in R}
Rank(R, S, x) == Cardinality(Ahead(R, S, x))

\* The ranks number the elements from 0, in order.
LEMMA RanksNumber ==
    ASSUME NEW S, IsFiniteSet(S), NEW R, Orders(R, S)
    PROVE  /\ [x \in S |-> Rank(R, S, x)] \in Bijection(S, 0 .. Cardinality(S) - 1)
           /\ \A x, y \in S : <<x, y>> \in R <=> Rank(R, S, x) < Rank(R, S, y)
  <1> DEFINE n == Cardinality(S)
             f == [x \in S |-> Rank(R, S, x)]
  <1>1. n \in Nat /\ \A x \in S : IsFiniteSet(Ahead(R, S, x)) /\ Rank(R, S, x) \in Nat
    BY FS_CardinalityType, FS_Subset DEF Ahead, Rank
  <1>2. \A x \in S : Rank(R, S, x) < n
    <2> SUFFICES ASSUME NEW x \in S PROVE Rank(R, S, x) < n
      OBVIOUS
    <2>1. Ahead(R, S, x) \in SUBSET S /\ Ahead(R, S, x) # S
      BY DEF Ahead, Orders
    <2>2. Cardinality(Ahead(R, S, x)) <= n /\ Cardinality(Ahead(R, S, x)) # n
      BY <2>1, FS_Subset
    <2> QED BY <1>1, <2>2 DEF Rank
  <1>3. \A x, y \in S : <<x, y>> \in R => Rank(R, S, x) < Rank(R, S, y)
    <2> SUFFICES ASSUME NEW x \in S, NEW y \in S, <<x, y>> \in R
                 PROVE Rank(R, S, x) < Rank(R, S, y)
      OBVIOUS
    <2>1. /\ Ahead(R, S, x) \in SUBSET Ahead(R, S, y)
          /\ Ahead(R, S, x) # Ahead(R, S, y)
      BY DEF Ahead, Orders
    <2>2. /\ Cardinality(Ahead(R, S, x)) <= Cardinality(Ahead(R, S, y))
          /\ Cardinality(Ahead(R, S, x)) # Cardinality(Ahead(R, S, y))
      BY <1>1, <2>1, FS_Subset
    <2> QED BY <1>1, <2>2 DEF Rank
  <1>4. \A x, y \in S : x = y \/ <<x, y>> \in R \/ <<y, x>> \in R
    BY DEF Orders
  <1>5. \A x, y \in S : <<x, y>> \in R <=> Rank(R, S, x) < Rank(R, S, y)
    <2> SUFFICES ASSUME NEW x \in S, NEW y \in S, Rank(R, S, x) < Rank(R, S, y)
                 PROVE <<x, y>> \in R
      BY <1>3
    <2>1. PICK a \in Nat, b \in Nat : a = Rank(R, S, x) /\ b = Rank(R, S, y)
      BY <1>1
    <2>2. ~ (b < a) /\ a # b
      BY <2>1
    <2> QED BY <1>3, <1>4, <2>1, <2>2
  <1>6. f \in Injection(S, 0 .. n - 1)
    <2>1. f \in [S -> 0 .. n - 1]
      BY <1>1, <1>2
    <2>2. ASSUME NEW x \in S, NEW y \in S, f[x] = f[y], x # y PROVE FALSE
      <3>1. Rank(R, S, x) = Rank(R, S, y) /\ Rank(R, S, x) \in Nat
        BY <1>1, <2>2
      <3>2. Rank(R, S, x) < Rank(R, S, y) \/ Rank(R, S, y) < Rank(R, S, x)
        BY <1>3, <1>4, <2>2
      <3> QED BY <3>1, <3>2
    <2> QED BY <2>1, <2>2 DEF Injection, IsInjective
  <1>7. IsFiniteSet(0 .. n - 1) /\ Cardinality(0 .. n - 1) = n
    BY <1>1, FS_Interval
  <1>8. f \in Surjection(S, 0 .. n - 1)
    BY <1>6, <1>7, FS_Injection
  <1> QED BY <1>5, <1>6, <1>8 DEF Bijection

\* As many elements as m have a rank below m.
LEMMA RanksBelow ==
    ASSUME NEW S, IsFiniteSet(S), NEW R, Orders(R, S), NEW m \in 0 .. Cardinality(S)
    PROVE  Cardinality({x \in S : Rank(R, S, x) < m}) = m
  <1> DEFINE n == Cardinality(S)
             f == [x \in S |-> Rank(R, S, x)]
             B == {x \in S : Rank(R, S, x) < m}
             g == [x \in B |-> Rank(R, S, x)]
  <1>1. n \in Nat /\ m \in Nat /\ m <= n
    BY FS_CardinalityType
  <1>2. f \in Bijection(S, 0 .. n - 1)
    BY RanksNumber
  <1>3. /\ \A x \in S : Rank(R, S, x) \in 0 .. n - 1
        /\ \A x, y \in S : Rank(R, S, x) = Rank(R, S, y) => x = y
        /\ \A k \in 0 .. n - 1 : \E x \in S : Rank(R, S, x) = k
    BY <1>2 DEF Bijection, Injection, Surjection, IsInjective
  <1>4. g \in Bijection(B, 0 .. m - 1)
    <2>1. g \in [B -> 0 .. m - 1]
      BY <1>1, <1>3
    <2>2. \A x, y \in B : g[x] = g[y] => x = y
      BY <1>3
    <2>3. \A k \in 0 .. m - 1 : \E x \in B : g[x] = k
      BY <1>1, <1>3
    <2> QED BY <2>1, <2>2, <2>3 DEF Bijection, Injection, Surjection, IsInjective
  <1>5. IsFiniteSet(B)
    BY FS_Subset
  <1>6. Cardinality(0 .. m - 1) = Cardinality(B)
    BY <1>4, <1>5, FS_Bijection DEF ExistsBijection
  <1>7. Cardinality(0 .. m - 1) = m
    BY <1>1, FS_Interval
  <1> QED BY <1>6, <1>7

-----------------------------------------------------------------------------
(* The digits of a quotient. *)

\* A set of numbers up to a bound, if it has any, has a smallest.
LEMMA SmallestExists ==
    ASSUME NEW b \in Nat, NEW S \in SUBSET (0 .. b), S # {}
    PROVE  \E x \in S : \A y \in S : x <= y
  <1> DEFINE T == {- x : x \in S}
  <1>1. IsFiniteSet(T)
    <2>1. T \in SUBSET ((-b) .. 0)
      <3> SUFFICES ASSUME NEW x \in S PROVE - x \in (-b) .. 0
        OBVIOUS
      <3>1. x \in 0 .. b
        OBVIOUS
      <3> QED BY <3>1
    <2>2. IsFiniteSet((-b) .. 0)
      BY FS_Interval
    <2> QED BY <2>1, <2>2, FS_Subset
  <1>2. T \subseteq Int /\ T # {} /\ S \subseteq Int
    <2>1. ASSUME NEW x \in S PROVE x \in Int /\ - x \in Int
      <3>1. x \in 0 .. b
        OBVIOUS
      <3> QED BY <3>1
    <2> QED BY <2>1
  <1> HIDE DEF T
  <1>3. PICK z \in T : \A y \in T : z >= y
    BY <1>1, <1>2, MaxExists
  <1>4. PICK x \in S : z = - x
    BY DEF T
  <1>5. \A y \in S : - y \in T
    BY DEF T
  <1> QED BY <1>2, <1>3, <1>4, <1>5

Divides(r, m, n, d) ==
    \A k \in 0 .. m : r[k] = IF k = 0 THEN n % d ELSE (2 * r[k - 1]) % d

\* Long division goes on to any place.
LEMMA DivisionExists ==
    ASSUME NEW n \in Nat, NEW d \in Nat \ {0}
    PROVE  \E r \in [0 .. 60 -> Int] : Divides(r, 60, n, d)
  <1> DEFINE Wrong == {m \in 0 .. 60 : ~ \E r \in [0 .. m -> Int] : Divides(r, m, n, d)}
  <1>0. 60 \in 0 .. 60
    OBVIOUS
  <1> SUFFICES ASSUME Wrong # {} PROVE FALSE
    <2>1. 60 \notin Wrong <=> \E r \in [0 .. 60 -> Int] : Divides(r, 60, n, d)
      BY <1>0
    <2> HIDE DEF Wrong
    <2> QED BY <2>1
  <1>1. PICK m \in Wrong : \A y \in Wrong : m <= y
    BY SmallestExists
  <1>2. CASE m = 0
    <2>1. [k \in 0 .. 0 |-> n % d] \in [0 .. m -> Int]
      BY <1>2
    <2>2. Divides([k \in 0 .. 0 |-> n % d], m, n, d)
      BY <1>2 DEF Divides
    <2> QED BY <2>1, <2>2
  <1>3. CASE m # 0
    <2>1. m - 1 \in 0 .. 60 /\ m - 1 \notin Wrong /\ m \in 1 .. 60
      <3>1. m \in 1 .. 60 /\ m - 1 \in 0 .. 60 /\ ~ (m <= m - 1)
        BY <1>1, <1>3
      <3> HIDE DEF Wrong
      <3> QED BY <1>1, <3>1
    <2>2. PICK r \in [0 .. m - 1 -> Int] : Divides(r, m - 1, n, d)
      BY <2>1
    <2> DEFINE e == [k \in 0 .. m |-> IF k = m THEN (2 * r[m - 1]) % d ELSE r[k]]
    <2>3. r[m - 1] \in Int /\ (2 * r[m - 1]) % d \in Int
      BY <2>1
    <2>4. e \in [0 .. m -> Int]
      BY <2>1, <2>3
    <2>5. ASSUME NEW k \in 0 .. m
          PROVE  e[k] = IF k = 0 THEN n % d ELSE (2 * e[k - 1]) % d
      <3>1. CASE k = m
        <4>1. k # 0 /\ k - 1 \in 0 .. m /\ k - 1 # m
          BY <1>3, <2>1, <3>1
        <4>2. e[k] = (2 * r[m - 1]) % d /\ e[k - 1] = r[m - 1]
          BY <3>1, <4>1
        <4> QED BY <4>1, <4>2
      <3>2. CASE k # m /\ k = 0
        <4>1. e[k] = r[0] /\ 0 \in 0 .. m - 1
          BY <2>1, <3>2
        <4> QED BY <2>2, <3>2, <4>1 DEF Divides
      <3>3. CASE k # m /\ k # 0
        <4>1. k \in 0 .. m - 1 /\ k - 1 \in 0 .. m /\ k - 1 # m
          BY <2>1, <3>3
        <4>2. e[k] = r[k] /\ e[k - 1] = r[k - 1]
          BY <3>3, <4>1
        <4> QED BY <2>2, <3>3, <4>1, <4>2 DEF Divides
      <3> QED BY <3>1, <3>2, <3>3
    <2>6. Divides(e, m, n, d)
      BY <2>5 DEF Divides
    <2> HIDE DEF e
    <2> QED BY <2>4, <2>6
  <1> QED BY <1>2, <1>3

LEMMA RemaindersTyped ==
    ASSUME NEW n \in Nat, NEW d \in Nat \ {0}
    PROVE  \A k \in 0 .. 60 : Remainders(n, d)[k] \in Int
  <1> DEFINE F(r) == [k \in 0 .. 60 |-> IF k = 0 THEN n % d ELSE (2 * r[k - 1]) % d]
             rem == CHOOSE r : r = F(r)
  <1>1. \E r : r = F(r)
    <2>1. PICK r \in [0 .. 60 -> Int] : Divides(r, 60, n, d)
      BY DivisionExists
    <2>2. r = F(r)
      BY <2>1 DEF Divides
    <2> QED BY <2>2
  <1>2. Remainders(n, d) = rem
    BY DEF Remainders
  <1>3. rem = F(rem)
    BY <1>1
  <1> HIDE DEF rem
  <1>4. \A k \in 0 .. 60 : rem[k] = IF k = 0 THEN n % d ELSE (2 * rem[k - 1]) % d
    BY <1>3
  <1> HIDE DEF F
  <1> DEFINE Wrong == {k \in 0 .. 60 : rem[k] \notin Int}
  <1> SUFFICES ASSUME Wrong # {} PROVE FALSE
    BY <1>2
  <1>5. PICK m \in Wrong : \A y \in Wrong : m <= y
    BY SmallestExists
  <1>6. CASE m = 0
    BY <1>4, <1>5, <1>6
  <1>7. CASE m # 0
    <2>1. m - 1 \in 0 .. 60 /\ m - 1 \notin Wrong
      BY <1>5, <1>7
    <2> QED BY <1>4, <1>5, <1>7, <2>1
  <1> QED BY <1>6, <1>7

LEMMA FractionTyped ==
    ASSUME NEW n \in Nat, NEW d \in Nat \ {0}
    PROVE  Fraction(n, d) \in [Bits -> Int]
  <1>1. PICK rem : rem = Remainders(n, d)
    OBVIOUS
  <1>2. \A k \in 0 .. 60 : rem[k] \in Int
    BY <1>1, RemaindersTyped
  <1>3. \A k \in Bits : (2 * rem[k - 1]) \div d \in Int
    <2> SUFFICES ASSUME NEW k \in Bits PROVE (2 * rem[k - 1]) \div d \in Int
      OBVIOUS
    <2>1. k - 1 \in 0 .. 60
      BY DEF Bits
    <2>2. rem[k - 1] \in Int
      BY <1>2, <2>1
    <2> QED BY <2>2
  <1>4. \A v \in [Bits -> Int] : \A last, c :
           /\ [k \in Bits |-> 0] \in [Bits -> Int]
           /\ [k \in Bits |-> IF k <= last THEN v[k] ELSE 0] \in [Bits -> Int]
           /\ [k \in Bits |-> IF k < c THEN v[k] ELSE IF k = c THEN 1 ELSE 0] \in [Bits -> Int]
    OBVIOUS
  <1>5. PICK v \in [Bits -> Int] : v = [k \in Bits |-> (2 * rem[k - 1]) \div d]
    BY <1>3
  <1>6. \E last, c : Fraction(n, d) \in {[k \in Bits |-> 0],
             [k \in Bits |-> IF k <= last THEN v[k] ELSE 0],
             [k \in Bits |-> IF k < c THEN v[k] ELSE IF k = c THEN 1 ELSE 0]}
    BY <1>1, <1>5, Zenon DEF Fraction
  <1> QED BY <1>4, <1>6

-----------------------------------------------------------------------------
(* Largest remainders: allocatePaise. *)

\* Of two different fractions one exceeds the other, and that orders them.
LEMMA ExceedsOrders ==
    ASSUME NEW f \in [Bits -> Int], NEW g \in [Bits -> Int]
    PROVE  /\ ~Exceeds(f, f)
           /\ f = g \/ Exceeds(f, g) \/ Exceeds(g, f)
           /\ \A h \in [Bits -> Int] : Exceeds(f, g) /\ Exceeds(g, h) => Exceeds(f, h)
  <1>1. ~Exceeds(f, f)
    <2>1. \A k \in Bits : f[k] \in Int
      OBVIOUS
    <2> QED BY <2>1 DEF Exceeds
  <1>2. f = g \/ Exceeds(f, g) \/ Exceeds(g, f)
    <2> SUFFICES ASSUME f # g PROVE Exceeds(f, g) \/ Exceeds(g, f)
      OBVIOUS
    <2> DEFINE D == {k \in Bits : f[k] # g[k]}
    <2>1. D # {} /\ D \in SUBSET (0 .. 60)
      BY DEF Bits
    <2>2. PICK k \in D : \A j \in D : k <= j
      BY <2>1, SmallestExists
    <2>3. \A j \in 1 .. k - 1 : f[j] = g[j]
      <3> SUFFICES ASSUME NEW j \in 1 .. k - 1 PROVE j \notin D /\ j \in Bits
        OBVIOUS
      <3>1. k \in 1 .. 60 /\ j \in 1 .. 60 /\ ~ (k <= j)
        BY DEF Bits
      <3> HIDE DEF D
      <3> QED BY <2>2, <3>1 DEF Bits
    <2>4. k \in Bits /\ f[k] \in Int /\ g[k] \in Int /\ f[k] # g[k]
      OBVIOUS
    <2>5. f[k] > g[k] \/ g[k] > f[k]
      BY <2>4
    <2> QED BY <2>3, <2>4, <2>5 DEF Exceeds
  <1>3. ASSUME NEW h \in [Bits -> Int], Exceeds(f, g), Exceeds(g, h) PROVE Exceeds(f, h)
    <2>1. PICK k \in Bits : f[k] > g[k] /\ \A j \in 1 .. k - 1 : f[j] = g[j]
      BY <1>3 DEF Exceeds
    <2>2. PICK m \in Bits : g[m] > h[m] /\ \A j \in 1 .. m - 1 : g[j] = h[j]
      BY <1>3 DEF Exceeds
    <2>3. \A j \in Bits : f[j] \in Int /\ g[j] \in Int /\ h[j] \in Int
      OBVIOUS
    <2>4. k \in 1 .. 60 /\ m \in 1 .. 60
      BY DEF Bits
    <2>5. CASE k <= m
      <3>1. g[k] > h[k] \/ g[k] = h[k]
        BY <2>2, <2>4, <2>5
      <3>2. f[k] > h[k]
        BY <2>1, <2>3, <3>1
      <3>3. \A j \in 1 .. k - 1 : f[j] = h[j]
        BY <2>1, <2>2, <2>4, <2>5
      <3> QED BY <3>2, <3>3 DEF Exceeds
    <2>6. CASE m < k
      <3>1. f[m] = g[m]
        BY <2>1, <2>4, <2>6
      <3>2. f[m] > h[m]
        BY <2>2, <3>1
      <3>3. \A j \in 1 .. m - 1 : f[j] = h[j]
        BY <2>1, <2>2, <2>4, <2>6
      <3> QED BY <3>2, <3>3 DEF Exceeds
    <2> QED BY <2>4, <2>5, <2>6
  <1> QED BY <1>1, <1>2, <1>3

\* The slots in the order allocatePaise sorts them.
SlotOrder(n, d, S) == {p \in S \X S : Before(n, d, p[1], p[2])}

LEMMA BeforeOrders ==
    ASSUME NEW len \in Nat, NEW n \in [1 .. len -> Nat], NEW d \in Nat \ {0}
    PROVE  Orders(SlotOrder(n, d, 1 .. len), 1 .. len)
  <1> DEFINE S == 1 .. len
             F(i) == Fraction(n[i], d)
  <1>1. \A i \in S : n[i] % d \in Int /\ F(i) \in [Bits -> Int]
    BY FractionTyped
  <1>2. \A i, j \in S : Before(n, d, i, j) <=>
           \/ n[i] % d > n[j] % d
           \/ n[i] % d = n[j] % d /\ (Exceeds(F(i), F(j)) \/ (F(i) = F(j) /\ i < j))
    BY DEF Before
  <1>3. \A i, j \in S : <<i, j>> \in SlotOrder(n, d, S) <=> Before(n, d, i, j)
    BY DEF SlotOrder
  <1> HIDE DEF F
  <1>4. /\ \A i \in S : ~Exceeds(F(i), F(i))
        /\ \A i, j \in S : F(i) = F(j) \/ Exceeds(F(i), F(j)) \/ Exceeds(F(j), F(i))
        /\ \A i, j, k \in S : Exceeds(F(i), F(j)) /\ Exceeds(F(j), F(k)) => Exceeds(F(i), F(k))
    BY <1>1, ExceedsOrders
  <1>5. \A i \in S : ~Before(n, d, i, i)
    BY <1>1, <1>2, <1>4
  <1>6. \A i, j \in S : i = j \/ Before(n, d, i, j) \/ Before(n, d, j, i)
    BY <1>1, <1>2, <1>4
  <1>7. ASSUME NEW i \in S, NEW j \in S, NEW k \in S, Before(n, d, i, j), Before(n, d, j, k)
        PROVE  Before(n, d, i, k)
    <2>1. PICK a \in Int, b \in Int, c \in Int :
             a = n[i] % d /\ b = n[j] % d /\ c = n[k] % d
      BY <1>1
    <2>2. /\ a > b \/ (a = b /\ (Exceeds(F(i), F(j)) \/ (F(i) = F(j) /\ i < j)))
          /\ b > c \/ (b = c /\ (Exceeds(F(j), F(k)) \/ (F(j) = F(k) /\ j < k)))
      BY <1>2, <1>7, <2>1
    <2>3. CASE a > c
      BY <1>2, <2>1, <2>3
    <2>4. CASE ~ (a > c)
      <3>1. a = b /\ b = c
        BY <2>2, <2>4
      <3>2. Exceeds(F(i), F(k)) \/ (F(i) = F(k) /\ i < k)
        BY <1>4, <2>2, <3>1
      <3> QED BY <1>2, <2>1, <3>1, <3>2
    <2> QED BY <2>3, <2>4
  <1> QED BY <1>3, <1>5, <1>6, <1>7 DEF Orders

\* A sum of multiples is the multiple of the sum.
LEMMA SumScale ==
    ASSUME NEW S, IsFiniteSet(S), NEW c \in Int, NEW f, NEW g,
           \A x \in S : f[x] \in Int /\ g[x] = c * f[x]
    PROVE  SumFunctionOnSet(g, S) = c * SumFunctionOnSet(f, S)
  <1> DEFINE Wrong == {T \in SUBSET S :
                         SumFunctionOnSet(g, T) # c * SumFunctionOnSet(f, T)}
  <1> SUFFICES ASSUME Wrong # {} PROVE FALSE
    OBVIOUS
  <1>1. PICK T \in Wrong : \A U \in Wrong : U \subseteq T => U = T
    <2> HIDE DEF Wrong
    <2>1. Wrong \subseteq SUBSET S
      BY DEF Wrong
    <2> QED BY <2>1, SmallestWrong
  <1>2. T # {} /\ IsFiniteSet(T)
    <2>1. IsFiniteSet(T)
      BY FS_Subset
    <2>2. CASE T = {}
      <3>1. SumFunctionOnSet(f, T) = 0 /\ SumFunctionOnSet(g, T) = 0
        BY <2>2, SumOfNone
      <3> QED BY <3>1
    <2> QED BY <2>1, <2>2
  <1> DEFINE z == FirstOf(T)
             R == T \ {z}
  <1>3. z \in T /\ R \notin Wrong /\ R \in SUBSET S /\ IsFiniteSet(R)
    BY <1>1, <1>2, FirstOfIn, FS_Subset
  <1>4. SumFunctionOnSet(g, R) = c * SumFunctionOnSet(f, R) /\ g[z] = c * f[z] /\ f[z] \in Int
    BY <1>3
  <1>5. /\ SumFunctionOnSet(f, T) = f[z] + SumFunctionOnSet(f, R)
        /\ SumFunctionOnSet(g, T) = g[z] + SumFunctionOnSet(g, R)
    BY <1>2, SumUnfolds
  <1>6. SumFunctionOnSet(f, R) \in Int
    BY <1>3, SumInt
  <1>7. SumFunctionOnSet(g, T) # c * SumFunctionOnSet(f, T)
    BY <1>1
  <1> HIDE DEF z, R, Wrong
  <1> QED BY <1>4, <1>5, <1>6, <1>7

\* One for each element of a subset adds up to its size.
LEMMA SumChosen ==
    ASSUME NEW S, IsFiniteSet(S), NEW B \in SUBSET S, NEW g,
           \A x \in S : g[x] = IF x \in B THEN 1 ELSE 0
    PROVE  SumFunctionOnSet(g, S) = Cardinality(B)
  <1>1. IsFiniteSet(B) /\ Cardinality(B) \in Nat
    BY FS_Subset, FS_CardinalityType
  <1>2. \A x \in B : g[x] = 1
    OBVIOUS
  <1>3. SumFunctionOnSet(g, B) = 1 * Cardinality(B)
    BY <1>1, <1>2, SumCount
  <1>4. /\ \A x \in B : g[x] \in Int /\ g[x] = g[x]
        /\ \A x \in S \ B : g[x] = 0
    OBVIOUS
  <1>5. SumFunctionOnSet(g, B) = SumFunctionOnSet(g, S)
    BY <1>4, SumWithin
  <1> QED BY <1>1, <1>3, <1>5

\* Division with remainder.
LEMMA DivMod ==
    ASSUME NEW a \in Int, NEW d \in Nat \ {0}
    PROVE  /\ a \div d \in Int /\ a % d \in 0 .. d - 1
           /\ a = d * (a \div d) + (a % d)
           /\ a \in Nat => a \div d \in Nat
  <1>1. a \div d \in Int /\ a % d \in 0 .. d - 1
    OBVIOUS
  <1>2. a = d * (a \div d) + (a % d)
    OBVIOUS
  <1>3. ASSUME a \in Nat PROVE a \div d >= 0
    <2> SUFFICES ASSUME a \div d < 0 PROVE FALSE
      BY <1>1
    <2>1. PICK q \in Int, r \in 0 .. d - 1 : q = a \div d /\ r = a % d
      BY <1>1
    <2>2. q <= -1 /\ a = d * q + r
      BY <1>2, <2>1
    <2>3. d * q <= d * (-1)
      BY <2>2
    <2> QED BY <1>3, <2>1, <2>2, <2>3
  <1> QED BY <1>1, <1>2, <1>3

\* Everyone's share of m by the weights w, rounded down; what that cuts off, in
\* paise over the sum of the weights; and how many paise are left over.
Floors(m, w) == [i \in DOMAIN w |-> (m * w[i]) \div SumFunction(w)]
Fracs(m, w) == [i \in DOMAIN w |-> (m * w[i]) % SumFunction(w)]
Leftover(m, w) == m - SumFunction(Floors(m, w))

LEMMA SumOnDomain ==
    ASSUME NEW S, NEW V, NEW f \in [S -> V]
    PROVE  SumFunction(f) = SumFunctionOnSet(f, S)
  BY DEF SumFunction, FoldFunction, SumFunctionOnSet

LEMMA QuotaParts ==
    ASSUME NEW S, NEW w \in [S -> Nat], NEW m \in Nat, SumFunction(w) \in Nat \ {0}
    PROVE  /\ Floors(m, w) \in [S -> Nat]
           /\ Fracs(m, w) \in [S -> 0 .. SumFunction(w) - 1]
           /\ \A i \in S : m * w[i] = SumFunction(w) * Floors(m, w)[i] + Fracs(m, w)[i]
  <1>1. PICK sum \in Nat \ {0} : sum = SumFunction(w)
    OBVIOUS
  <1>2. ASSUME NEW i \in S
        PROVE /\ (m * w[i]) \div sum \in Nat /\ (m * w[i]) % sum \in 0 .. sum - 1
              /\ m * w[i] = sum * ((m * w[i]) \div sum) + ((m * w[i]) % sum)
    <2>1. w[i] \in Nat
      OBVIOUS
    <2>2. PICK a \in Int : a = m * w[i] /\ a \in Nat
      BY <2>1
    <2>3. /\ a \div sum \in Nat /\ a % sum \in 0 .. sum - 1
          /\ a = sum * (a \div sum) + (a % sum)
      BY <2>2, DivMod
    <2> QED BY <2>2, <2>3
  <1>3. DOMAIN w = S
    OBVIOUS
  <1>4. Floors(m, w) = [i \in S |-> (m * w[i]) \div sum]
    BY <1>1, <1>3 DEF Floors
  <1>5. Fracs(m, w) = [i \in S |-> (m * w[i]) % sum]
    BY <1>1, <1>3 DEF Fracs
  <1>6. Floors(m, w) \in [S -> Nat] /\ \A i \in S : Floors(m, w)[i] = (m * w[i]) \div sum
    BY <1>2, <1>4
  <1>7. Fracs(m, w) \in [S -> 0 .. sum - 1] /\ \A i \in S : Fracs(m, w)[i] = (m * w[i]) % sum
    BY <1>2, <1>5
  <1> QED BY <1>1, <1>2, <1>6, <1>7

\* What is left over is worth the remainders, and less than a paisa each.
LEMMA LeftoverFits ==
    ASSUME NEW S, IsFiniteSet(S), NEW w \in [S -> Nat], NEW m \in Nat,
           SumFunction(w) \in Nat \ {0}
    PROVE  /\ Leftover(m, w) \in 0 .. Cardinality(S)
           /\ SumFunction(w) * Leftover(m, w) = SumFunction(Fracs(m, w))
  <1>1. PICK floor \in [S -> Nat] : floor = Floors(m, w)
    BY QuotaParts
  <1>2. PICK sum \in Nat \ {0} : sum = SumFunction(w)
    OBVIOUS
  <1>3. PICK frac \in [S -> 0 .. sum - 1] : frac = Fracs(m, w)
    BY <1>2, QuotaParts
  <1>4. PICK left \in Int : left = Leftover(m, w) /\ left = m - SumFunctionOnSet(floor, S)
    <2>1. SumFunctionOnSet(floor, S) \in Nat
      BY SumNat
    <2> QED BY <1>1, <2>1, SumOnDomain DEF Leftover
  <1> DEFINE n == [i \in S |-> m * w[i]]
             whole == [i \in S |-> sum * floor[i]]
             ones == [i \in S |-> 1]
             top == [i \in S |-> sum * ones[i]]
  <1>5. \A i \in S : m * w[i] = sum * floor[i] + frac[i] /\ frac[i] \in Nat /\ frac[i] < sum
    BY <1>1, <1>2, <1>3, QuotaParts
  <1>6. SumFunctionOnSet(n, S) = m * sum
    <2>1. \A i \in S : w[i] \in Int /\ n[i] = m * w[i]
      OBVIOUS
    <2> HIDE DEF n
    <2>2. SumFunctionOnSet(n, S) = m * SumFunctionOnSet(w, S)
      BY <2>1, SumScale
    <2> QED BY <1>2, <2>2, SumOnDomain
  <1>7. SumFunctionOnSet(whole, S) = sum * SumFunctionOnSet(floor, S)
    <2>1. \A i \in S : floor[i] \in Int /\ whole[i] = sum * floor[i]
      OBVIOUS
    <2> HIDE DEF whole
    <2> QED BY <2>1, SumScale
  <1>8. SumFunctionOnSet(n, S) = SumFunctionOnSet(whole, S) + SumFunctionOnSet(frac, S)
    <2>1. ASSUME NEW i \in S
          PROVE whole[i] \in Int /\ frac[i] \in Int /\ n[i] = whole[i] + frac[i]
      <3>1. floor[i] \in Nat /\ sum * floor[i] \in Nat
        OBVIOUS
      <3> QED BY <1>5, <3>1
    <2> HIDE DEF n, whole
    <2> QED BY <2>1, SumPlus
  <1>9. SumFunctionOnSet(frac, S) \in Nat /\ SumFunctionOnSet(floor, S) \in Nat
    BY <1>5, SumNat
  <1>a. SumFunctionOnSet(frac, S) <= sum * Cardinality(S) /\ Cardinality(S) \in Nat
    <2>1. SumFunctionOnSet(ones, S) = Cardinality(S) /\ Cardinality(S) \in Nat
      <3>1. \A i \in S : ones[i] = 1
        OBVIOUS
      <3>2. Cardinality(S) \in Nat
        BY FS_CardinalityType
      <3>3. SumFunctionOnSet(ones, S) = 1 * Cardinality(S)
        BY <3>1, SumCount
      <3> QED BY <3>2, <3>3
    <2>2. \A i \in S : ones[i] \in Int /\ top[i] = sum * ones[i] /\ top[i] = sum
      OBVIOUS
    <2>3. \A i \in S : frac[i] \in Int /\ top[i] \in Int /\ frac[i] <= top[i]
      BY <1>5, <2>2
    <2> HIDE DEF ones, top
    <2>4. SumFunctionOnSet(top, S) = sum * SumFunctionOnSet(ones, S)
      BY <2>2, SumScale
    <2>5. SumFunctionOnSet(frac, S) <= SumFunctionOnSet(top, S)
      BY <2>3, SumAtMost
    <2> QED BY <2>1, <2>4, <2>5
  <1> HIDE DEF n, whole, ones, top
  <1>b. PICK fl \in Nat, fr \in Nat, c \in Nat :
           /\ fl = SumFunctionOnSet(floor, S) /\ fr = SumFunctionOnSet(frac, S)
           /\ c = Cardinality(S)
    BY <1>9, <1>a
  <1>c. m * sum = sum * fl + fr /\ left = m - fl /\ fr <= sum * c
    BY <1>4, <1>6, <1>7, <1>8, <1>a, <1>b
  <1>d. sum * left = fr
    <2>1. sum * (m - fl) = sum * m - sum * fl /\ sum * m = m * sum
          /\ sum * fl \in Int /\ sum * m \in Int
      OBVIOUS
    <2> QED BY <1>c, <2>1
  <1>e. left >= 0
    <2> SUFFICES ASSUME left < 0 PROVE FALSE
      OBVIOUS
    <2>1. sum * left < 0
      OBVIOUS
    <2> QED BY <1>d, <2>1
  <1>f. left <= c
    <2> SUFFICES ASSUME left >= c + 1 PROVE FALSE
      OBVIOUS
    <2>1. sum * left >= sum * (c + 1) /\ sum * (c + 1) > sum * c
      OBVIOUS
    <2>2. sum * left \in Int /\ sum * (c + 1) \in Int /\ sum * c \in Int
      OBVIOUS
    <2> QED BY <1>c, <1>d, <2>1, <2>2
  <1> QED BY <1>2, <1>3, <1>4, <1>b, <1>d, <1>e, <1>f, SumOnDomain

\* The parts of a magnitude: floors, and a paisa more for the largest remainders.
LEMMA PartsFair ==
    ASSUME NEW len \in Nat, NEW w \in [1 .. len -> Nat], NEW m \in Nat,
           SumFunction(w) \in Nat \ {0}
    PROVE  /\ Parts(m, w) \in [1 .. len -> Nat]
           /\ SumFunction(Parts(m, w)) = m
           /\ \A i \in 1 .. len : Parts(m, w)[i] - Floors(m, w)[i] \in {0, 1}
           /\ \A i, j \in 1 .. len :
                 Parts(m, w)[i] - Floors(m, w)[i] > Parts(m, w)[j] - Floors(m, w)[j]
                   => Fracs(m, w)[i] >= Fracs(m, w)[j]
  <1>1. PICK S : S = 1 .. len
    OBVIOUS
  <1>2. IsFiniteSet(S) /\ DOMAIN w = S
    BY <1>1, FS_Interval
  <1>3. PICK floor \in [S -> Nat] : floor = Floors(m, w)
    BY <1>1, QuotaParts
  <1>4. PICK sum \in Nat \ {0} : sum = SumFunction(w)
    OBVIOUS
  <1>5. PICK frac \in [S -> 0 .. sum - 1] : frac = Fracs(m, w)
    BY <1>1, <1>4, QuotaParts
  <1>6. PICK left \in 0 .. Cardinality(S) : left = Leftover(m, w)
    BY <1>1, <1>2, LeftoverFits
  <1>7. left \in Nat
    OBVIOUS
  <1>8. PICK n \in [S -> Nat] : n = [i \in S |-> m * w[i]]
    <2>1. \A i \in S : m * w[i] \in Nat
      BY <1>1
    <2> QED BY <2>1
  <1>9. \A i \in S : frac[i] \in Int /\ n[i] % sum = frac[i]
    BY <1>2, <1>4, <1>5, <1>8 DEF Fracs
  <1>a. PICK R : R = SlotOrder(n, sum, S)
    OBVIOUS
  <1>b. Orders(R, S)
    BY <1>1, <1>a, BeforeOrders
  <1>c. \A i \in S : {j \in S \ {i} : Before(n, sum, j, i)} = Ahead(R, S, i)
    BY <1>a, <1>b DEF Orders, Ahead, SlotOrder
  <1>d. \A i \in S : IsFiniteSet(Ahead(R, S, i)) /\ Rank(R, S, i) \in Nat
    BY <1>2, FS_CardinalityType, FS_Subset DEF Ahead, Rank
  <1>e. PICK Lucky \in SUBSET S : Lucky = {i \in S : Rank(R, S, i) < left}
    OBVIOUS
  <1>f. PICK one \in [S -> {0, 1}] : one = [i \in S |-> IF i \in Lucky THEN 1 ELSE 0]
    OBVIOUS
  <1>g. Parts(m, w) = [i \in S |-> floor[i] + one[i]]
    <2>1. \A i \in S : (IF left > 0 /\ Cardinality({j \in S \ {i} : Before(n, sum, j, i)}) < left
                        THEN 1 ELSE 0) = one[i]
      <3> SUFFICES ASSUME NEW i \in S
                   PROVE (IF left > 0 /\ Cardinality({j \in S \ {i} : Before(n, sum, j, i)}) < left
                          THEN 1 ELSE 0) = one[i]
        OBVIOUS
      <3>1. PICK k \in Nat : k = Rank(R, S, i)
                               /\ k = Cardinality({j \in S \ {i} : Before(n, sum, j, i)})
        BY <1>c, <1>d DEF Rank
      <3>2. i \in Lucky <=> k < left
        BY <1>e, <3>1
      <3>3. one[i] = IF i \in Lucky THEN 1 ELSE 0
        BY <1>f
      <3> QED BY <1>7, <3>1, <3>2, <3>3
    <2>2. n = [i \in DOMAIN w |-> m * w[i]]
      BY <1>2, <1>8
    <2>3. floor = [i \in DOMAIN w |-> n[i] \div sum]
      BY <1>2, <1>3, <1>4, <1>8 DEF Floors
    <2>4. left = m - SumFunction(floor)
      BY <1>3, <1>6 DEF Leftover
    <2>5. Parts(m, w) = [i \in DOMAIN w |-> floor[i] + IF left > 0
                /\ Cardinality({j \in DOMAIN w \ {i} : Before(n, sum, j, i)}) < left THEN 1 ELSE 0]
      BY <1>4, <2>2, <2>3, <2>4, Zenon DEF Parts
    <2> QED BY <1>2, <2>1, <2>5, Zenon
  <1>h. \A i \in S : one[i] \in {0, 1} /\ (one[i] = 1 <=> i \in Lucky)
    BY <1>f
  <1>i. ASSUME NEW i \in S
        PROVE  /\ Parts(m, w)[i] = floor[i] + one[i] /\ Parts(m, w)[i] \in Nat
               /\ Parts(m, w)[i] - floor[i] = one[i]
    <2>1. Parts(m, w)[i] = floor[i] + one[i]
      BY <1>g
    <2>2. floor[i] \in Nat /\ one[i] \in Nat
      BY <1>h
    <2> QED BY <2>1, <2>2
  <1>j. Parts(m, w) \in [S -> Nat]
    BY <1>g, <1>i
  <1>k. SumFunction(Parts(m, w)) = m
    <2>1. Cardinality(Lucky) = left
      BY <1>2, <1>b, <1>e, RanksBelow
    <2>2. SumFunctionOnSet(one, S) = left
      <3>1. \A i \in S : one[i] = IF i \in Lucky THEN 1 ELSE 0
        BY <1>f
      <3> QED BY <1>2, <2>1, <3>1, SumChosen
    <2>3. SumFunction(floor) = SumFunctionOnSet(floor, S) /\ SumFunctionOnSet(floor, S) \in Nat
      BY <1>2, SumNat, SumOnDomain
    <2>4. PICK p \in [S -> Nat] : p = Parts(m, w)
      BY <1>j
    <2>5. \A i \in S : floor[i] \in Int /\ one[i] \in Int /\ p[i] = floor[i] + one[i]
      BY <1>h, <1>i, <2>4
    <2>6. SumFunctionOnSet(p, S) = SumFunctionOnSet(floor, S) + SumFunctionOnSet(one, S)
      BY <1>2, <2>5, SumPlus
    <2>7. SumFunction(p) = SumFunctionOnSet(p, S)
      BY SumOnDomain
    <2>8. left = m - SumFunction(floor)
      BY <1>3, <1>6 DEF Leftover
    <2> QED BY <1>7, <2>2, <2>3, <2>4, <2>6, <2>7, <2>8
  <1>l. ASSUME NEW i \in S, NEW j \in S, one[i] > one[j] PROVE frac[i] >= frac[j]
    <2>1. i \in Lucky /\ j \notin Lucky
      BY <1>h, <1>l
    <2>2. PICK a \in Nat, b \in Nat : a = Rank(R, S, i) /\ b = Rank(R, S, j)
      BY <1>d
    <2>3. a < b
      BY <1>7, <1>e, <2>1, <2>2
    <2>4. <<i, j>> \in R
      BY <1>2, <1>b, <2>2, <2>3, RanksNumber
    <2>5. Before(n, sum, i, j)
      BY <1>a, <2>4 DEF SlotOrder
    <2>6. n[i] % sum > n[j] % sum \/ n[i] % sum = n[j] % sum
      BY <2>5 DEF Before
    <2> QED BY <1>9, <2>6
  <1> QED BY <1>1, <1>3, <1>5, <1>h, <1>i, <1>j, <1>k, <1>l

LEMMA UsableTyped ==
    ASSUME NEW len \in Nat, NEW weights \in [1 .. len -> Int]
    PROVE  /\ Usable(weights) \in [1 .. len -> Nat]
           /\ SumFunction(Usable(weights)) \in Nat
           /\ weights \in [1 .. len -> Nat] => Usable(weights) = weights
  <1>1. Usable(weights) = [i \in 1 .. len |-> IF weights[i] > 0 THEN weights[i] ELSE 0]
    BY DEF Usable
  <1>2. Usable(weights) \in [1 .. len -> Nat]
    <2>1. \A i \in 1 .. len : (IF weights[i] > 0 THEN weights[i] ELSE 0) \in Nat
      OBVIOUS
    <2> QED BY <1>1, <2>1
  <1>3. SumFunction(Usable(weights)) \in Nat
    <2>1. IsFiniteSet(1 .. len)
      BY FS_Interval
    <2>2. \A i \in 1 .. len : Usable(weights)[i] \in Nat
      BY <1>2
    <2>3. SumFunctionOnSet(Usable(weights), 1 .. len) \in Nat
      BY <2>1, <2>2, SumNat
    <2> QED BY <1>2, <2>3, SumOnDomain
  <1>4. ASSUME weights \in [1 .. len -> Nat] PROVE Usable(weights) = weights
    <2>1. \A i \in 1 .. len : (IF weights[i] > 0 THEN weights[i] ELSE 0) = weights[i]
      <3> SUFFICES ASSUME NEW i \in 1 .. len
                   PROVE (IF weights[i] > 0 THEN weights[i] ELSE 0) = weights[i]
        OBVIOUS
      <3>1. PICK a \in Nat : a = weights[i]
        BY <1>4
      <3> QED BY <3>1
    <2>2. weights = [i \in 1 .. len |-> weights[i]]
      OBVIOUS
    <2> QED BY <1>1, <2>1, <2>2
  <1> QED BY <1>2, <1>3, <1>4

\* FairlySplit in terms of the floors and remainders.
LEMMA FairlySplitParts ==
    ASSUME NEW len \in Nat, NEW weights \in [1 .. len -> Int], NEW total \in Int, NEW parts
    PROVE  FairlySplit(total, weights, parts) <=>
             /\ SumFunction(parts) = total
             /\ SumFunction(Usable(weights)) > 0 =>
                   /\ \A i \in 1 .. len :
                         Sign(total) * parts[i] - Floors(Abs(total), Usable(weights))[i] \in {0, 1}
                   /\ \A i, j \in 1 .. len :
                         Sign(total) * parts[i] - Floors(Abs(total), Usable(weights))[i]
                               > Sign(total) * parts[j] - Floors(Abs(total), Usable(weights))[j]
                           => Fracs(Abs(total), Usable(weights))[i]
                                 >= Fracs(Abs(total), Usable(weights))[j]
  <1> DEFINE w == Usable(weights)
             floor == [i \in DOMAIN w |-> (Abs(total) * w[i]) \div SumFunction(w)]
             frac == [i \in DOMAIN w |-> (Abs(total) * w[i]) % SumFunction(w)]
             extra == [i \in DOMAIN w |-> Sign(total) * parts[i] - floor[i]]
  <1>1. DOMAIN w = 1 .. len
    BY UsableTyped
  <1>2. floor = Floors(Abs(total), w) /\ frac = Fracs(Abs(total), w)
    BY DEF Floors, Fracs
  <1>3. \A i \in 1 .. len : extra[i] = Sign(total) * parts[i] - Floors(Abs(total), w)[i]
    BY <1>1, <1>2
  <1>4. FairlySplit(total, weights, parts) <=>
          /\ SumFunction(parts) = total
          /\ SumFunction(w) > 0 =>
                /\ \A i \in DOMAIN w : extra[i] \in {0, 1}
                /\ \A i, j \in DOMAIN w : extra[i] > extra[j] => frac[i] >= frac[j]
    BY Zenon DEF FairlySplit
  <1>5. FairlySplit(total, weights, parts) <=>
          /\ SumFunction(parts) = total
          /\ SumFunction(w) > 0 =>
                /\ \A i \in 1 .. len : extra[i] \in {0, 1}
                /\ \A i, j \in 1 .. len : extra[i] > extra[j]
                      => Fracs(Abs(total), w)[i] >= Fracs(Abs(total), w)[j]
    <2> HIDE DEF w, floor, frac, extra
    <2> QED BY <1>1, <1>2, <1>4
  <1> HIDE DEF floor, frac, extra, w
  <1>6. FairlySplit(total, weights, parts) <=>
             /\ SumFunction(parts) = total
             /\ SumFunction(w) > 0 =>
                   /\ \A i \in 1 .. len :
                         Sign(total) * parts[i] - Floors(Abs(total), w)[i] \in {0, 1}
                   /\ \A i, j \in 1 .. len :
                         Sign(total) * parts[i] - Floors(Abs(total), w)[i]
                               > Sign(total) * parts[j] - Floors(Abs(total), w)[j]
                           => Fracs(Abs(total), w)[i] >= Fracs(Abs(total), w)[j]
    BY <1>3, <1>5, Zenon
  <1> QED BY <1>6 DEF w

\* It is enough that everyone got his floor and at most a paisa more.
LEMMA FairIf ==
    ASSUME NEW len \in Nat, NEW weights \in [1 .. len -> Int], NEW total \in Int, NEW parts,
           NEW one \in [1 .. len -> {0, 1}], SumFunction(parts) = total,
           \A i \in 1 .. len : Sign(total) * parts[i] - Floors(Abs(total), Usable(weights))[i] = one[i],
           \A i, j \in 1 .. len : one[i] > one[j] =>
               Fracs(Abs(total), Usable(weights))[i] >= Fracs(Abs(total), Usable(weights))[j]
    PROVE  FairlySplit(total, weights, parts)
  <1>1. \A i \in 1 .. len :
           Sign(total) * parts[i] - Floors(Abs(total), Usable(weights))[i] \in {0, 1}
    OBVIOUS
  <1>2. \A i, j \in 1 .. len :
           Sign(total) * parts[i] - Floors(Abs(total), Usable(weights))[i]
                 > Sign(total) * parts[j] - Floors(Abs(total), Usable(weights))[j]
             => Fracs(Abs(total), Usable(weights))[i] >= Fracs(Abs(total), Usable(weights))[j]
    BY Zenon
  <1> QED BY <1>1, <1>2, FairlySplitParts

LEMMA AbsSign ==
    ASSUME NEW a \in Int
    PROVE  Abs(a) \in Nat /\ Sign(a) \in {1, -1} /\ Sign(a) * Abs(a) = a
           /\ (a \in Nat => Abs(a) = a /\ Sign(a) = 1)
  BY DEF Abs, Sign

\* However an amount is split by whatever weights, no paisa is lost or made, no
\* part differs from its quota by a paisa, and the odd paise go to the largest
\* remainders (allocatePaise, money.js:86); for no line at all only nothing is split.
THEOREM AllocateFair ==
    ASSUME NEW len \in Nat, NEW weights \in [1 .. len -> Int], NEW total \in Int,
           total = 0 \/ len > 0
    PROVE  /\ AllocatePaise(total, weights) \in [1 .. len -> Int]
           /\ FairlySplit(total, weights, AllocatePaise(total, weights))
  <1>1. PICK w \in [1 .. len -> Nat] : w = Usable(weights)
    BY UsableTyped
  <1>2. SumFunction(w) \in Nat
    BY <1>1, UsableTyped
  <1>3. PICK m \in Nat, sign \in {1, -1} : m = Abs(total) /\ sign = Sign(total) /\ sign * m = total
    BY AbsSign
  <1>4. IsFiniteSet(1 .. len) /\ DOMAIN w = 1 .. len
    BY FS_Interval
  <1>5. PICK parts : parts = AllocatePaise(total, weights)
    OBVIOUS
  <1>6. parts = IF total = 0 THEN [i \in 1 .. len |-> 0]
                ELSE IF SumFunction(w) = 0 THEN [i \in 1 .. len |-> IF i = 1 THEN total ELSE 0]
                ELSE [i \in DOMAIN Parts(m, w) |-> sign * Parts(m, w)[i]]
    BY <1>1, <1>3, <1>4, <1>5, Zenon DEF AllocatePaise, Signed
  <1>7. CASE total = 0
    <2>1. parts = [i \in 1 .. len |-> 0]
      BY <1>6, <1>7
    <2>2. parts \in [1 .. len -> Int] /\ \A i \in 1 .. len : parts[i] = 0
      BY <2>1
    <2>3. SumFunctionOnSet(parts, 1 .. len) = 0
      BY <1>4, <2>2, SumZero
    <2>4. SumFunction(parts) = total
      BY <1>7, <2>2, <2>3, SumOnDomain
    <2>5. ASSUME SumFunction(w) > 0, NEW i \in 1 .. len
          PROVE  Floors(m, w)[i] = 0 /\ Fracs(m, w)[i] = 0
      <3>1. m = 0 /\ w[i] \in Nat /\ SumFunction(w) \in Nat \ {0}
        BY <1>2, <1>3, <1>7, <2>5 DEF Abs
      <3>2. m * w[i] = 0
        BY <3>1
      <3>3. /\ Floors(m, w)[i] = 0 \div SumFunction(w)
            /\ Fracs(m, w)[i] = 0 % SumFunction(w)
        BY <1>4, <3>2 DEF Floors, Fracs
      <3> QED BY <3>1, <3>3
    <2>6. \A i \in 1 .. len : sign * parts[i] = 0
      BY <2>2
    <2>7. FairlySplit(total, weights, parts)
      <3>1. CASE SumFunction(w) = 0
        BY <1>1, <2>4, <3>1, FairlySplitParts
      <3>2. CASE SumFunction(w) > 0
        <4>1. PICK one \in [1 .. len -> {0, 1}] : one = [i \in 1 .. len |-> 0]
          OBVIOUS
        <4>2. \A i \in 1 .. len : sign * parts[i] - Floors(m, w)[i] = one[i]
          BY <2>5, <2>6, <3>2, <4>1
        <4>3. \A i, j \in 1 .. len : one[i] > one[j] => Fracs(m, w)[i] >= Fracs(m, w)[j]
          BY <4>1
        <4>4. \A i \in 1 .. len :
                 Sign(total) * parts[i] - Floors(Abs(total), Usable(weights))[i] = one[i]
          BY <1>1, <1>3, <4>2, Zenon
        <4>5. \A i, j \in 1 .. len : one[i] > one[j] =>
                 Fracs(Abs(total), Usable(weights))[i] >= Fracs(Abs(total), Usable(weights))[j]
          BY <1>1, <1>3, <4>3, Zenon
        <4> QED BY <2>4, <4>4, <4>5, FairIf, Zenon
      <3> QED BY <1>2, <3>1, <3>2
    <2> QED BY <1>5, <2>2, <2>7
  <1>8. CASE total # 0 /\ SumFunction(w) = 0
    <2>1. parts = [i \in 1 .. len |-> IF i = 1 THEN total ELSE 0]
      BY <1>6, <1>8
    <2>2. parts \in [1 .. len -> Int] /\ \A i \in 1 .. len : parts[i] = IF i = 1 THEN total ELSE 0
      BY <2>1
    <2>3. 1 \in 1 .. len
      BY <1>8
    <2>4. SumFunctionOnSet(parts, 1 .. len) = total
      <3>1. PICK S : S = 1 .. len
        OBVIOUS
      <3>2. IsFiniteSet(S) /\ 1 \in S /\ \A i \in S : parts[i] = IF i = 1 THEN total ELSE 0
        BY <1>4, <2>2, <2>3, <3>1
      <3>3. SumFunctionOnSet(parts, S) = total
        BY <3>2, SumPoint
      <3> QED BY <3>1, <3>3
    <2>5. SumFunction(parts) = total
      BY <2>2, <2>4, SumOnDomain
    <2>6. FairlySplit(total, weights, parts)
      BY <1>1, <1>8, <2>5, FairlySplitParts
    <2> QED BY <1>5, <2>2, <2>6
  <1>9. CASE total # 0 /\ SumFunction(w) # 0
    <2>1. PICK p \in [1 .. len -> Nat] :
             /\ p = Parts(m, w) /\ SumFunction(p) = m
             /\ \A i \in 1 .. len : p[i] - Floors(m, w)[i] \in {0, 1}
             /\ \A i, j \in 1 .. len : p[i] - Floors(m, w)[i] > p[j] - Floors(m, w)[j]
                   => Fracs(m, w)[i] >= Fracs(m, w)[j]
      BY <1>2, <1>9, PartsFair
    <2>2. parts = [i \in 1 .. len |-> sign * p[i]]
      BY <1>6, <1>9, <2>1
    <2>3. \A i \in 1 .. len : sign * p[i] \in Int /\ sign * (sign * p[i]) = p[i]
      OBVIOUS
    <2>4. parts \in [1 .. len -> Int] /\ \A i \in 1 .. len : parts[i] = sign * p[i]
      BY <2>2, <2>3
    <2>5. SumFunctionOnSet(parts, 1 .. len) = sign * SumFunctionOnSet(p, 1 .. len)
      <3>1. \A i \in 1 .. len : p[i] \in Int /\ parts[i] = sign * p[i]
        BY <2>4
      <3>2. PICK c \in Int : c = sign
        OBVIOUS
      <3>3. \A i \in 1 .. len : p[i] \in Int /\ parts[i] = c * p[i]
        BY <3>1, <3>2
      <3>4. PICK S : S = 1 .. len
        OBVIOUS
      <3>5. IsFiniteSet(S) /\ \A i \in S : p[i] \in Int /\ parts[i] = c * p[i]
        BY <1>4, <3>3, <3>4
      <3>6. SumFunctionOnSet(parts, S) = c * SumFunctionOnSet(p, S)
        BY <3>5, SumScale
      <3> QED BY <3>2, <3>4, <3>6
    <2>6. SumFunction(parts) = total
      BY <1>3, <2>1, <2>4, <2>5, SumOnDomain
    <2>7. \A i \in 1 .. len : sign * parts[i] = p[i]
      BY <2>3, <2>4
    <2>8. FairlySplit(total, weights, parts)
      <3>1. PICK one \in [1 .. len -> {0, 1}] : one = [i \in 1 .. len |-> p[i] - Floors(m, w)[i]]
        BY <2>1
      <3>2. \A i \in 1 .. len : sign * parts[i] - Floors(m, w)[i] = one[i]
        BY <2>7, <3>1
      <3>3. \A i, j \in 1 .. len : one[i] > one[j] => Fracs(m, w)[i] >= Fracs(m, w)[j]
        BY <2>1, <3>1, Zenon
      <3>4. \A i \in 1 .. len :
               Sign(total) * parts[i] - Floors(Abs(total), Usable(weights))[i] = one[i]
        BY <1>1, <1>3, <3>2, Zenon
      <3>5. \A i, j \in 1 .. len : one[i] > one[j] =>
               Fracs(Abs(total), Usable(weights))[i] >= Fracs(Abs(total), Usable(weights))[j]
        BY <1>1, <1>3, <3>3, Zenon
      <3> QED BY <2>6, <3>4, <3>5, FairIf, Zenon
    <2> QED BY <1>5, <2>4, <2>8
  <1> QED BY <1>7, <1>8, <1>9

\* The arithmetic of a quota t * v / s, its floor f and what was added to it.
LEMMA QuotaArith ==
    ASSUME NEW s \in Nat \ {0}, NEW t \in Nat, NEW v \in Nat, NEW f \in Nat,
           NEW r \in Nat, r < s, t * v = s * f + r,
           NEW o \in Nat, o = 0 \/ (o = 1 /\ r > 0)
    PROVE  /\ s * (f + o) - t * v < s
           /\ t * v - s * (f + o) < s
           /\ t <= s => f + o <= v
  <1>1. PICK sf \in Nat, tv \in Nat, a \in Nat : sf = s * f /\ tv = t * v /\ a = s * (f + o)
    OBVIOUS
  <1>2. tv = sf + r
    BY <1>1
  <1>3. a = sf + (IF o = 0 THEN 0 ELSE s)
    <2>1. CASE o = 0
      BY <1>1, <2>1
    <2>2. CASE o = 1
      <3>1. s * (f + 1) = s * f + s
        OBVIOUS
      <3> QED BY <1>1, <2>2, <3>1
    <2> QED BY <2>1, <2>2
  <1>4. a - tv < s /\ tv - a < s
    BY <1>2, <1>3
  <1>5. ASSUME t <= s, f + o >= v + 1 PROVE FALSE
    <2>1. PICK b \in Nat, sv \in Nat : b = s * (v + 1) /\ sv = s * v /\ b = sv + s
      <3>1. s * (v + 1) = s * v + s /\ s * (v + 1) \in Nat /\ s * v \in Nat
        OBVIOUS
      <3> QED BY <3>1
    <2>2. a >= b
      <3>1. s * (f + o) >= s * (v + 1)
        BY <1>5
      <3> QED BY <1>1, <2>1, <3>1
    <2>3. tv <= sv
      <3>1. t * v <= s * v
        BY <1>5
      <3> QED BY <1>1, <2>1, <3>1
    <2> QED BY <1>4, <2>1, <2>2, <2>3
  <1> QED BY <1>1, <1>4, <1>5

\* Where the odd paise make up for the remainders and go to the largest of them,
\* nobody gets one without a remainder.
LEMMA NoIdlePaisa ==
    ASSUME NEW S, IsFiniteSet(S), NEW s \in Nat \ {0}, NEW one, NEW frac,
           \A i \in S : one[i] \in {0, 1} /\ frac[i] \in Nat /\ frac[i] < s,
           \A i, j \in S : one[i] = 1 /\ one[j] = 0 => frac[i] >= frac[j],
           SumFunctionOnSet(frac, S) = s * SumFunctionOnSet(one, S)
    PROVE  \A k \in S : one[k] = 1 => frac[k] # 0
  <1> SUFFICES ASSUME NEW k \in S, one[k] = 1, frac[k] = 0 PROVE FALSE
    OBVIOUS
  <1>1. PICK tops : tops = [i \in S |-> IF one[i] = 0 THEN 0 ELSE s]
    OBVIOUS
  <1>2. \A i \in S : one[i] = 0 => frac[i] = 0
    OBVIOUS
  <1>3. \A i \in S : one[i] \in Int /\ frac[i] \in Int /\ tops[i] \in Int
    BY <1>1
  <1>4. \A i \in S : frac[i] <= tops[i]
    BY <1>1, <1>2
  <1>5. SumFunctionOnSet(tops, S) = s * SumFunctionOnSet(one, S)
    <2>1. s * 0 = 0 /\ s * 1 = s
      OBVIOUS
    <2>2. \A i \in S : tops[i] = s * one[i]
      BY <1>1, <2>1
    <2>3. s \in Int
      OBVIOUS
    <2> QED BY <1>3, <2>2, <2>3, SumScale, Zenon
  <1>6. IsFiniteSet(S \ {k})
    BY FS_RemoveElement
  <1>7. /\ SumFunctionOnSet(tops, S) = tops[k] + SumFunctionOnSet(tops, S \ {k})
        /\ SumFunctionOnSet(frac, S) = frac[k] + SumFunctionOnSet(frac, S \ {k})
    BY <1>3, SumTake
  <1>8. SumFunctionOnSet(frac, S \ {k}) <= SumFunctionOnSet(tops, S \ {k})
    BY <1>3, <1>4, <1>6, SumAtMost
  <1>9. PICK a \in Int, b \in Int :
           a = SumFunctionOnSet(frac, S \ {k}) /\ b = SumFunctionOnSet(tops, S \ {k})
    BY <1>3, <1>6, SumInt
  <1>a. tops[k] = s
    BY <1>1
  <1>b. s + b = 0 + a /\ a <= b
    BY <1>5, <1>7, <1>8, <1>9, <1>a
  <1> QED BY <1>b

\* A fair split of what weights can bear: each part is its quota to less than a
\* paisa, and no more than its weight.
LEMMA FairWithin ==
    ASSUME NEW len \in Nat, NEW w \in [1 .. len -> Nat], NEW total \in Nat,
           NEW parts \in [1 .. len -> Int], FairlySplit(total, w, parts),
           SumFunction(w) \in Nat \ {0}
    PROVE  \A i \in 1 .. len :
              /\ parts[i] >= 0
              /\ SumFunction(w) * parts[i] - total * w[i] < SumFunction(w)
              /\ total * w[i] - SumFunction(w) * parts[i] < SumFunction(w)
              /\ total <= SumFunction(w) => parts[i] <= w[i]
  <1>1. PICK S : S = 1 .. len
    OBVIOUS
  <1>2. IsFiniteSet(S) /\ w \in [S -> Nat] /\ parts \in [S -> Int]
    <2>1. IsFiniteSet(1 .. len)
      BY FS_Interval
    <2> QED BY <1>1, <2>1
  <1>3. PICK sum \in Nat \ {0} : sum = SumFunction(w)
    OBVIOUS
  <1>4. Usable(w) = w /\ Abs(total) = total /\ Sign(total) = 1
    <2>1. w \in [1 .. len -> Int] /\ total \in Int
      OBVIOUS
    <2> QED BY <2>1, UsableTyped, AbsSign
  <1>5. PICK floor \in [S -> Nat] : floor = Floors(total, w)
    BY <1>2, QuotaParts
  <1>6. PICK frac \in [S -> 0 .. sum - 1] : frac = Fracs(total, w)
    BY <1>2, <1>3, QuotaParts
  <1>7. \A i \in S : total * w[i] = sum * floor[i] + frac[i]
    <2>1. \A i \in S : total * w[i]
                         = SumFunction(w) * Floors(total, w)[i] + Fracs(total, w)[i]
      BY <1>2, QuotaParts
    <2> QED BY <1>3, <1>5, <1>6, <2>1, Zenon
  <1>8. /\ SumFunction(parts) = total
        /\ \A i \in S : parts[i] - floor[i] \in {0, 1}
        /\ \A i, j \in S : parts[i] - floor[i] > parts[j] - floor[j]
               => frac[i] >= frac[j]
    <2>1. SumFunction(w) > 0
      OBVIOUS
    <2>2. w \in [1 .. len -> Int] /\ total \in Int
      OBVIOUS
    <2>3. FairlySplit(total, w, parts) <=>
             /\ SumFunction(parts) = total
             /\ SumFunction(w) > 0 =>
                   /\ \A i \in 1 .. len : 1 * parts[i] - Floors(total, w)[i] \in {0, 1}
                   /\ \A i, j \in 1 .. len :
                         1 * parts[i] - Floors(total, w)[i] > 1 * parts[j] - Floors(total, w)[j]
                           => Fracs(total, w)[i] >= Fracs(total, w)[j]
      <3> HIDE <1>1, <1>2
      <3> USE <2>2
      <3>1. FairlySplit(total, w, parts) <=>
             /\ SumFunction(parts) = total
             /\ SumFunction(Usable(w)) > 0 =>
                   /\ \A i \in 1 .. len :
                         Sign(total) * parts[i] - Floors(Abs(total), Usable(w))[i] \in {0, 1}
                   /\ \A i, j \in 1 .. len :
                         Sign(total) * parts[i] - Floors(Abs(total), Usable(w))[i]
                               > Sign(total) * parts[j] - Floors(Abs(total), Usable(w))[j]
                           => Fracs(Abs(total), Usable(w))[i] >= Fracs(Abs(total), Usable(w))[j]
        BY FairlySplitParts
      <3> QED BY <1>4, <3>1, Zenon
    <2>4. \A i \in 1 .. len : 1 * parts[i] = parts[i]
      <3>1. \A i \in 1 .. len : parts[i] \in Int
        OBVIOUS
      <3> QED BY <3>1
    <2>5. FairlySplit(total, w, parts) <=>
             /\ SumFunction(parts) = total
             /\ SumFunction(w) > 0 =>
                   /\ \A i \in 1 .. len : parts[i] - Floors(total, w)[i] \in {0, 1}
                   /\ \A i, j \in 1 .. len :
                         parts[i] - Floors(total, w)[i] > parts[j] - Floors(total, w)[j]
                           => Fracs(total, w)[i] >= Fracs(total, w)[j]
      BY <2>3, <2>4, Zenon
    <2> QED BY <1>1, <1>5, <1>6, <2>1, <2>5, Zenon
  <1>9. PICK one \in [S -> Nat] : /\ one = [i \in S |-> parts[i] - floor[i]]
                                  /\ \A i \in S : one[i] \in {0, 1}
    <2>1. ASSUME NEW i \in S
          PROVE  parts[i] - floor[i] \in {0, 1} /\ parts[i] - floor[i] \in Nat
      <3>1. parts[i] - floor[i] \in {0, 1}
        BY <1>8
      <3>2. PICK a : a = parts[i] - floor[i]
        OBVIOUS
      <3>3. a \in {0, 1}
        BY <3>1, <3>2
      <3> QED BY <3>2, <3>3
    <2> DEFINE e == [i \in S |-> parts[i] - floor[i]]
    <2>2. e \in [S -> Nat] /\ \A i \in S : e[i] \in {0, 1}
      BY <2>1
    <2> QED BY <2>2
  <1>a. ASSUME NEW i \in S
        PROVE  /\ parts[i] \in Int /\ floor[i] \in Nat /\ frac[i] \in Nat /\ frac[i] < sum
               /\ one[i] \in {0, 1} /\ one[i] \in Nat /\ parts[i] = floor[i] + one[i]
               /\ w[i] \in Nat
    <2>1. /\ parts[i] \in Int /\ floor[i] \in Nat /\ frac[i] \in 0 .. sum - 1 /\ w[i] \in Nat
          /\ one[i] \in {0, 1}
      BY <1>2, <1>9
    <2>2. one[i] = parts[i] - floor[i]
      BY <1>9
    <2> QED BY <2>1, <2>2
  <1>b. \A i, j \in S : one[i] = 1 /\ one[j] = 0 => frac[i] >= frac[j]
    <2> SUFFICES ASSUME NEW i \in S, NEW j \in S, one[i] = 1, one[j] = 0
                 PROVE frac[i] >= frac[j]
      OBVIOUS
    <2>1. PICK a \in Int, b \in Int, f \in Nat, g \in Nat :
             a = parts[i] /\ b = parts[j] /\ f = floor[i] /\ g = floor[j]
      BY <1>a
    <2>2. a = f + 1 /\ b = g
      BY <1>a, <2>1
    <2>3. a - f > b - g
      BY <2>2
    <2> QED BY <1>8, <2>1, <2>3
  \* Nobody gets an odd paisa without a remainder.
  <1>c. ASSUME NEW k \in S, one[k] = 1, frac[k] = 0 PROVE FALSE
    <2>1. sum * Leftover(total, w) = SumFunctionOnSet(frac, S)
      <3>1. SumFunction(w) * Leftover(total, w) = SumFunction(Fracs(total, w))
        BY <1>2, LeftoverFits
      <3>2. SumFunction(frac) = SumFunctionOnSet(frac, S)
        BY SumOnDomain
      <3> QED BY <1>3, <1>6, <3>1, <3>2
    <2>2. Leftover(total, w) = SumFunctionOnSet(one, S)
      <3>1. SumFunctionOnSet(parts, S) = SumFunctionOnSet(floor, S) + SumFunctionOnSet(one, S)
        <4>1. \A i \in S : floor[i] \in Int /\ one[i] \in Int /\ parts[i] = floor[i] + one[i]
          BY <1>a
        <4> QED BY <1>2, <4>1, SumPlus
      <3>2. SumFunctionOnSet(floor, S) \in Int /\ SumFunctionOnSet(one, S) \in Int
        <4>1. (\A i \in S : floor[i] \in Int) /\ (\A i \in S : one[i] \in Int)
          BY <1>a
        <4> QED BY <1>2, <4>1, SumInt
      <3>3. SumFunction(parts) = SumFunctionOnSet(parts, S)
        BY <1>2, SumOnDomain
      <3>4. SumFunction(floor) = SumFunctionOnSet(floor, S)
        BY SumOnDomain
      <3> QED BY <1>5, <1>8, <3>1, <3>2, <3>3, <3>4 DEF Leftover
    <2>3. SumFunctionOnSet(frac, S) = sum * SumFunctionOnSet(one, S)
      BY <2>1, <2>2
    <2>4. \A i \in S : one[i] \in {0, 1} /\ frac[i] \in Nat /\ frac[i] < sum
      BY <1>a
    <2> QED BY <1>2, <1>b, <1>c, <2>3, <2>4, NoIdlePaisa
  <1> SUFFICES ASSUME NEW i \in S
               PROVE  /\ parts[i] >= 0
                      /\ sum * parts[i] - total * w[i] < sum
                      /\ total * w[i] - sum * parts[i] < sum
                      /\ total <= sum => parts[i] <= w[i]
    BY <1>1, <1>3
  <1>d. PICK f \in Nat, r \in Nat, o \in Nat, v \in Nat :
           /\ f = floor[i] /\ r = frac[i] /\ o = one[i] /\ v = w[i]
           /\ o \in {0, 1} /\ parts[i] = f + o /\ r < sum
    BY <1>a
  <1>e. total * v = sum * f + r
    BY <1>7, <1>d
  <1>f. o = 0 \/ (o = 1 /\ r > 0)
    BY <1>c, <1>d
  <1>g. /\ sum * (f + o) - total * v < sum
        /\ total * v - sum * (f + o) < sum
        /\ total <= sum => f + o <= v
    BY <1>d, <1>e, <1>f, QuotaArith
  <1> QED BY <1>d, <1>g

-----------------------------------------------------------------------------
(* Rounding. *)

\* Half up: within half a paisa.
LEMMA RoundedBounds ==
    ASSUME NEW n \in Nat, NEW d \in Nat \ {0}
    PROVE  /\ Rounded(n, d) \in Nat
           /\ 2 * (d * Rounded(n, d)) - 2 * n <= d
           /\ 2 * n - 2 * (d * Rounded(n, d)) < d
  <1>1. PICK a \in Nat, e \in Nat \ {0} : a = 2 * n + d /\ e = 2 * d
    OBVIOUS
  <1>2. PICK r \in Nat : r = Rounded(n, d) /\ r = a \div e
    <2>1. a \div e \in Nat
      BY DivMod
    <2> QED BY <1>1, <2>1 DEF Rounded
  <1>3. a = e * r + (a % e) /\ a % e \in 0 .. e - 1
    BY <1>2, DivMod
  <1>4. PICK m \in Nat : m = d * r
    OBVIOUS
  <1>5. e * r = 2 * m
    BY <1>1, <1>4
  <1>6. 2 * n + d >= 2 * m /\ 2 * n + d < 2 * m + 2 * d
    BY <1>1, <1>3, <1>5
  <1> QED BY <1>2, <1>4, <1>6

LEMMA NearestBounds ==
    ASSUME NEW n \in Nat, NEW d \in Nat \ {0}, NEW q \in Nearest(n, d)
    PROVE  /\ q \in Nat
           /\ 2 * (d * q) - 2 * n <= d
           /\ 2 * n - 2 * (d * q) <= d
  <1>1. n \div d \in Nat
    <2>1. n \in Int
      OBVIOUS
    <2> QED BY <2>1, DivMod
  <1>2. q \in Nat /\ 2 * Abs(q * d - n) <= d
    BY <1>1 DEF Nearest
  <1>3. PICK m \in Nat : m = d * q /\ m = q * d
    BY <1>2
  <1>4. 2 * Abs(m - n) <= d
    BY <1>2, <1>3
  <1>5. 2 * (m - n) <= d /\ 2 * (n - m) <= d
    BY <1>4 DEF Abs
  <1> QED BY <1>2, <1>3, <1>5

\* What a price holds without its tax is no more than the price.
LEMMA TaxableBounds ==
    ASSUME NEW net \in Nat, NEW bps \in Nat
    PROVE  /\ Taxable(net, bps) \in Nat /\ Taxable(net, bps) <= net
           /\ 2 * ((10000 + bps) * Taxable(net, bps)) - 20000 * net <= 10000 + bps
           /\ 20000 * net - 2 * ((10000 + bps) * Taxable(net, bps)) <= 10000 + bps
           /\ bps = 0 => Taxable(net, bps) = net
  <1>1. PICK n \in Nat, d \in Nat \ {0} : n = net * 10000 /\ d = 10000 + bps
    OBVIOUS
  <1>2. PICK r \in Nat : r = Taxable(net, bps) /\ r = Rounded(n, d)
    BY <1>1, RoundedBounds DEF Taxable
  <1>3. 2 * (d * r) - 2 * n <= d /\ 2 * n - 2 * (d * r) < d
    BY <1>2, RoundedBounds
  <1>4. PICK m \in Nat, x \in Nat : m = d * r /\ x = bps * r /\ m = 10000 * r + x
    BY <1>1
  <1>5. r <= net
    <2> SUFFICES ASSUME r >= net + 1 PROVE FALSE
      OBVIOUS
    <2>1. x >= bps * (net + 1)
      BY <1>4
    <2>2. bps * (net + 1) >= bps
      OBVIOUS
    <2>3. 10000 * r >= n + 10000
      BY <1>1
    <2>4. m >= n + 10000 + bps
      <3>1. PICK y \in Nat : y = bps * (net + 1)
        OBVIOUS
      <3> QED BY <1>4, <2>1, <2>2, <2>3, <3>1
    <2> QED BY <1>1, <1>3, <1>4, <2>4
  <1>6. bps = 0 => r = net
    <2> SUFFICES ASSUME bps = 0 PROVE r = net
      OBVIOUS
    <2>1. x = 0
      BY <1>4
    <2> QED BY <1>1, <1>3, <1>4, <2>1
  <1> QED BY <1>1, <1>2, <1>3, <1>4, <1>5, <1>6

\* A rate of a whole is part of it.
LEMMA RateBounds ==
    ASSUME NEW net \in Nat, NEW bps \in Nat, bps <= 10000
    PROVE  ApplyBps(net, bps) \in Nat /\ ApplyBps(net, bps) <= net
  <1>1. PICK a \in Nat : a = (2 * net) * bps + 10000 /\ a = 2 * net * bps + 10000
    OBVIOUS
  <1>2. Abs(net) = net /\ Sign(net) = 1
    BY AbsSign
  <1>3. PICK q \in Nat : q = a \div 20000
    BY DivMod
  <1>4. q = ApplyBps(net, bps)
    BY <1>1, <1>2, <1>3 DEF ApplyBps
  <1>5. a = 20000 * q + (a % 20000) /\ a % 20000 \in 0 .. 20000 - 1
    BY <1>3, DivMod
  <1>6. (2 * net) * bps <= (2 * net) * 10000
    OBVIOUS
  <1>7. a <= 20000 * net + 10000
    <2>1. PICK y \in Nat : y = (2 * net) * bps
      OBVIOUS
    <2> QED BY <1>1, <1>6, <2>1
  <1>8. 20000 * q <= a
    BY <1>5
  <1>9. q <= net
    BY <1>7, <1>8
  <1> QED BY <1>4, <1>9

-----------------------------------------------------------------------------
(* Sequences. *)

IsSeq(s) == \E S : s \in Seq(S)

\* A function on 1 .. n is a sequence of length n.
LEMMA SeqOfFunction ==
    ASSUME NEW n \in Nat, NEW S, NEW f \in [1 .. n -> S]
    PROVE  f \in Seq(S) /\ IsSeq(f) /\ Len(f) = n /\ DOMAIN f = 1 .. n
  <1>1. f \in Seq(S)
    BY SeqDef
  <1>2. Len(f) \in Nat /\ DOMAIN f = 1 .. Len(f)
    BY <1>1, LenProperties
  <1>3. DOMAIN f = 1 .. n
    OBVIOUS
  <1>4. Len(f) = n
    BY <1>2, <1>3
  <1> QED BY <1>1, <1>3, <1>4 DEF IsSeq

LEMMA SeqParts ==
    ASSUME NEW s, IsSeq(s)
    PROVE  /\ Len(s) \in Nat /\ DOMAIN s = 1 .. Len(s) /\ IsFiniteSet(DOMAIN s)
           /\ s # <<>> => Len(s) > 0
           /\ s = <<>> <=> Len(s) = 0
           /\ s = [k \in 1 .. Len(s) |-> s[k]]
  <1>1. PICK S : s \in Seq(S)
    BY DEF IsSeq
  <1>2. Len(s) \in Nat /\ s \in [1 .. Len(s) -> S] /\ DOMAIN s = 1 .. Len(s)
    BY <1>1, LenProperties
  <1>3. s = <<>> <=> Len(s) = 0
    BY <1>1, EmptySeq
  <1>4. IsFiniteSet(1 .. Len(s))
    BY <1>2, FS_Interval
  <1>5. s = [k \in DOMAIN s |-> s[k]]
    BY <1>2
  <1> QED BY <1>2, <1>3, <1>4, <1>5

LEMMA AppendParts ==
    ASSUME NEW s, IsSeq(s), NEW e
    PROVE  /\ IsSeq(Append(s, e))
           /\ Len(Append(s, e)) = Len(s) + 1
           /\ DOMAIN Append(s, e) = 1 .. Len(s) + 1
           /\ \A k \in 1 .. Len(s) : Append(s, e)[k] = s[k]
           /\ Append(s, e)[Len(s) + 1] = e
  <1>1. PICK S : s \in Seq(S)
    BY DEF IsSeq
  <1>2. PICK T : T = S \cup {e}
    OBVIOUS
  <1>3. s \in Seq(T) /\ e \in T
    BY <1>1, <1>2, SeqMonotonic
  <1> QED BY <1>3, AppendProperties DEF IsSeq

LEMMA TailParts ==
    ASSUME NEW s, IsSeq(s), s # <<>>
    PROVE  /\ IsSeq(Tail(s))
           /\ Len(Tail(s)) = Len(s) - 1
           /\ DOMAIN Tail(s) = 1 .. Len(s) - 1
           /\ \A k \in 1 .. Len(s) - 1 : Tail(s)[k] = s[k + 1]
           /\ Head(s) = s[1] /\ 1 \in DOMAIN s
  <1>1. PICK S : s \in Seq(S)
    BY DEF IsSeq
  <1> QED BY <1>1, HeadTailProperties, SeqParts DEF IsSeq

\* s lists S by key.
Lists(s, S, key) ==
    /\ s \in [1 .. Cardinality(S) -> S]
    /\ \A j, k \in 1 .. Cardinality(S) : j < k => key[s[j]] < key[s[k]]

\* A finite set whose elements have different keys can be listed by them.
LEMMA ListExists ==
    ASSUME NEW S, IsFiniteSet(S), NEW key, \A x \in S : key[x] \in Nat,
           \A x, y \in S : key[x] = key[y] => x = y
    PROVE  \E s \in [1 .. Cardinality(S) -> S] : Lists(s, S, key)
  <1> DEFINE n == Cardinality(S)
             R == {p \in S \X S : key[p[1]] < key[p[2]]}
  <1>1. n \in Nat
    BY FS_CardinalityType
  <1>2. Orders(R, S) /\ \A x, y \in S : <<x, y>> \in R <=> key[x] < key[y]
    <2>1. \A x, y \in S : <<x, y>> \in R <=> key[x] < key[y]
      OBVIOUS
    <2> HIDE DEF R
    <2>2. \A x \in S : ~ (key[x] < key[x])
      OBVIOUS
    <2>3. \A x, y, z \in S : key[x] < key[y] /\ key[y] < key[z] => key[x] < key[z]
      OBVIOUS
    <2>4. \A x, y \in S : x = y \/ key[x] < key[y] \/ key[y] < key[x]
      <3> SUFFICES ASSUME NEW x \in S, NEW y \in S, ~ (key[x] < key[y]), ~ (key[y] < key[x])
                   PROVE  x = y
        OBVIOUS
      <3>1. key[x] = key[y]
        OBVIOUS
      <3> QED BY <3>1
    <2> QED BY <2>1, <2>2, <2>3, <2>4 DEF Orders
  <1> HIDE DEF R
  <1>3. PICK f \in [S -> 0 .. n - 1] :
           /\ f \in Bijection(S, 0 .. n - 1)
           /\ \A x, y \in S : key[x] < key[y] <=> f[x] < f[y]
    <2>1. PICK f : f = [x \in S |-> Rank(R, S, x)]
      OBVIOUS
    <2>2. f \in Bijection(S, 0 .. n - 1)
      BY <1>2, <2>1, RanksNumber
    <2>3. f \in [S -> 0 .. n - 1]
      BY <2>2 DEF Bijection, Injection
    <2>4. \A x, y \in S : key[x] < key[y] <=> f[x] < f[y]
      BY <1>2, <2>1, RanksNumber
    <2> QED BY <2>2, <2>3, <2>4
  <1>4. \A k \in 0 .. n - 1 : \E x \in S : f[x] = k
    BY <1>3 DEF Bijection, Surjection
  <1> DEFINE s == [k \in 1 .. n |-> CHOOSE x \in S : f[x] = k - 1]
  <1>5. ASSUME NEW k \in 1 .. n PROVE s[k] \in S /\ f[s[k]] = k - 1
    <2>1. k - 1 \in 0 .. n - 1
      BY <1>1
    <2> QED BY <1>4, <2>1
  <1>6. s \in [1 .. n -> S]
    BY <1>5
  <1>7. ASSUME NEW j \in 1 .. n, NEW k \in 1 .. n, j < k PROVE key[s[j]] < key[s[k]]
    <2>1. f[s[j]] = j - 1 /\ f[s[k]] = k - 1 /\ s[j] \in S /\ s[k] \in S
      BY <1>5
    <2>2. j - 1 < k - 1
      BY <1>7
    <2> HIDE DEF s
    <2> QED BY <1>3, <2>1, <2>2
  <1> HIDE DEF s
  <1> QED BY <1>6, <1>7 DEF Lists

\* A list has each element once.
LEMMA ListParts ==
    ASSUME NEW S, IsFiniteSet(S), NEW key, \A x \in S : key[x] \in Nat,
           NEW s, Lists(s, S, key)
    PROVE  /\ s \in Bijection(1 .. Cardinality(S), S)
           /\ IsSeq(s) /\ Len(s) = Cardinality(S) /\ Cardinality(S) \in Nat
           /\ s \in [1 .. Cardinality(S) -> S]
  <1>1. PICK n \in Nat : n = Cardinality(S)
    BY FS_CardinalityType
  <1>2. s \in [1 .. n -> S] /\ \A j, k \in 1 .. n : j < k => key[s[j]] < key[s[k]]
    BY <1>1 DEF Lists
  <1>3. s \in Injection(1 .. n, S)
    <2>1. ASSUME NEW j \in 1 .. n, NEW k \in 1 .. n, s[j] = s[k] PROVE j = k
      <3>1. PICK a \in Nat : a = key[s[j]] /\ a = key[s[k]]
        BY <1>2, <2>1
      <3>2. (j < k => key[s[j]] < key[s[k]]) /\ (k < j => key[s[k]] < key[s[j]])
        BY <1>2
      <3>3. (j < k => a < a) /\ (k < j => a < a)
        BY <3>1, <3>2, Zenon
      <3> QED BY <3>1, <3>3
    <2> QED BY <1>2, <2>1 DEF Injection, IsInjective
  <1>4. IsFiniteSet(1 .. n) /\ Cardinality(1 .. n) = n
    BY <1>1, FS_Interval
  <1>5. s \in Surjection(1 .. n, S)
    BY <1>1, <1>3, <1>4, FS_Injection
  <1>6. IsSeq(s) /\ Len(s) = n
    BY <1>1, <1>2, SeqOfFunction
  <1> QED BY <1>1, <1>2, <1>3, <1>5, <1>6 DEF Bijection

\* A finite set of numbers in order: each of them once.
LEMMA InOrderParts ==
    ASSUME NEW S \in SUBSET Nat, IsFiniteSet(S)
    PROVE  /\ InOrder(S) \in Bijection(1 .. Cardinality(S), S)
           /\ InOrder(S) \in [1 .. Cardinality(S) -> S]
           /\ \A j, k \in 1 .. Cardinality(S) : j < k => InOrder(S)[j] < InOrder(S)[k]
           /\ IsSeq(InOrder(S)) /\ Len(InOrder(S)) = Cardinality(S)
           /\ Cardinality(S) \in Nat
  <1> DEFINE key == [x \in S |-> x]
             Sorted(t) == \A j, k \in DOMAIN t : j < k => t[j] < t[k]
  <1>1. \A x \in S : key[x] = x /\ x \in Nat
    OBVIOUS
  <1> HIDE DEF key
  <1>2. \A t \in [1 .. Cardinality(S) -> S] : Lists(t, S, key) <=> Sorted(t)
    <2> SUFFICES ASSUME NEW t \in [1 .. Cardinality(S) -> S] PROVE Lists(t, S, key) <=> Sorted(t)
      OBVIOUS
    <2>1. \A k \in 1 .. Cardinality(S) : key[t[k]] = t[k]
      BY <1>1
    <2>2. DOMAIN t = 1 .. Cardinality(S)
      OBVIOUS
    <2> QED BY <2>1, <2>2 DEF Lists
  <1>3. \E t \in [1 .. Cardinality(S) -> S] : Sorted(t)
    <2>1. \A x, y \in S : key[x] = key[y] => x = y
      BY <1>1
    <2> QED BY <1>1, <1>2, <2>1, ListExists
  <1>4. InOrder(S) = CHOOSE t \in [1 .. Cardinality(S) -> S] : Sorted(t)
    BY Zenon DEF InOrder
  <1> HIDE DEF Sorted
  <1>5. InOrder(S) \in [1 .. Cardinality(S) -> S] /\ Sorted(InOrder(S))
    BY <1>3, <1>4
  <1>6. Lists(InOrder(S), S, key)
    BY <1>2, <1>5
  <1>7. \A j, k \in 1 .. Cardinality(S) : j < k => InOrder(S)[j] < InOrder(S)[k]
    <2>1. DOMAIN InOrder(S) = 1 .. Cardinality(S)
      BY <1>5
    <2> QED BY <1>5, <2>1 DEF Sorted
  <1> QED BY <1>1, <1>6, <1>7, ListParts

\* Shares of different invoices, in order: each of them once.
LEMMA ByInvoiceParts ==
    ASSUME NEW S, IsFiniteSet(S), \A x \in S : x.of \in Nat, \A x, y \in S : x.of = y.of => x = y
    PROVE  /\ ByInvoice(S) \in Bijection(1 .. Cardinality(S), S)
           /\ ByInvoice(S) \in [1 .. Cardinality(S) -> S]
           /\ IsSeq(ByInvoice(S)) /\ Len(ByInvoice(S)) = Cardinality(S)
           /\ Cardinality(S) \in Nat
  <1> DEFINE key == [x \in S |-> x.of]
             Sorted(t) == \A j, k \in DOMAIN t : j < k => t[j].of < t[k].of
  <1>1. \A x \in S : key[x] = x.of /\ key[x] \in Nat
    OBVIOUS
  <1>2. \A x, y \in S : key[x] = key[y] => x = y
    BY <1>1
  <1> HIDE DEF key
  <1>3. \A t \in [1 .. Cardinality(S) -> S] : Lists(t, S, key) <=> Sorted(t)
    <2> SUFFICES ASSUME NEW t \in [1 .. Cardinality(S) -> S] PROVE Lists(t, S, key) <=> Sorted(t)
      OBVIOUS
    <2>1. \A k \in 1 .. Cardinality(S) : key[t[k]] = t[k].of
      BY <1>1
    <2>2. DOMAIN t = 1 .. Cardinality(S)
      OBVIOUS
    <2> QED BY <2>1, <2>2 DEF Lists
  <1>4. \E t \in [1 .. Cardinality(S) -> S] : Sorted(t)
    BY <1>1, <1>2, <1>3, ListExists
  <1>5. ByInvoice(S) = CHOOSE t \in [1 .. Cardinality(S) -> S] : Sorted(t)
    BY Zenon DEF ByInvoice
  <1> HIDE DEF Sorted
  <1>6. ByInvoice(S) \in [1 .. Cardinality(S) -> S] /\ Sorted(ByInvoice(S))
    BY <1>4, <1>5
  <1>7. Lists(ByInvoice(S), S, key)
    BY <1>3, <1>6
  <1> QED BY <1>1, <1>7, ListParts

-----------------------------------------------------------------------------
(* The order. *)

\* What an invoice may state of the item.
RatesMade(item) ==
    \A table \in Tables : table[item.category].bps \in Nat /\ table[item.category].cess \in Nat

ItemMade(item) ==
    /\ item.price \in Nat /\ item.bps \in Nat /\ RatesMade(item)
    /\ item.total \in Nat /\ item.discount \in Nat /\ item.tax \in Nat
    /\ item.qty \in Nat \ {0}
    /\ item.total = item.price * item.qty
    /\ item.discount <= item.total
    /\ item.tax \in IF order.inclusive THEN {TaxInside(item.total - item.discount, item.bps)}
                    ELSE Nearest(item.total * item.bps, 10000)

LineTotals == [i \in Lines |-> Items[i].total]
Shares == [i \in Lines |-> Items[i].discount]
Taxes == [i \in Lines |-> Items[i].tax]

OrderMade ==
    /\ Len(Items) \in Nat \ {0} /\ Lines = 1 .. Len(Items)
    /\ \A i \in Lines : ItemMade(Items[i])
    /\ order.discount \in Nat /\ order.fee \in Nat /\ order.inclusive \in BOOLEAN
    /\ order.subtotal = SumFunction(LineTotals) /\ order.discount <= order.subtotal
    /\ FairlySplit(order.discount, LineTotals, Shares)
    /\ order.total = order.subtotal - order.discount + order.fee
                       + IF order.inclusive THEN 0 ELSE SumFunction(Taxes)

\* No more than there is, divided by its parts, takes from none more than it has.
LEMMA AllocateWithin ==
    ASSUME NEW len \in Nat \ {0}, NEW w \in [1 .. len -> Nat], NEW total \in Nat
    PROVE  /\ AllocatePaise(total, w) \in [1 .. len -> Nat]
           /\ FairlySplit(total, w, AllocatePaise(total, w))
           /\ total <= SumFunction(w) => \A i \in 1 .. len : AllocatePaise(total, w)[i] <= w[i]
  <1>1. w \in [1 .. len -> Int] /\ total \in Int /\ len \in Nat /\ len > 0
    OBVIOUS
  <1>2. PICK parts \in [1 .. len -> Int] :
           parts = AllocatePaise(total, w) /\ FairlySplit(total, w, parts)
    BY <1>1, AllocateFair
  <1>3. SumFunction(w) \in Nat /\ Usable(w) = w
    BY <1>1, UsableTyped
  <1>4. CASE SumFunction(w) # 0
    <2>1. \A i \in 1 .. len : parts[i] >= 0 /\ (total <= SumFunction(w) => parts[i] <= w[i])
      BY <1>2, <1>3, <1>4, FairWithin
    <2>2. parts \in [1 .. len -> Nat]
      BY <2>1
    <2> QED BY <1>2, <2>1, <2>2
  <1>5. CASE SumFunction(w) = 0
    <2>1. DOMAIN w = 1 .. len
      OBVIOUS
    <2>2. total = 0 => parts = [i \in 1 .. len |-> 0]
      BY <1>2, <1>3, <2>1 DEF AllocatePaise
    <2>3. total # 0 => parts = [i \in 1 .. len |-> IF i = 1 THEN total ELSE 0]
      BY <1>2, <1>3, <1>5, <2>1 DEF AllocatePaise
    <2>4. \A i \in 1 .. len : parts[i] \in Nat
      BY <2>2, <2>3
    <2>5. total <= 0 => \A i \in 1 .. len : parts[i] = 0
      BY <2>2
    <2>6. \A i \in 1 .. len : w[i] >= 0
      OBVIOUS
    <2> QED BY <1>2, <1>5, <2>4, <2>5, <2>6
  <1> QED BY <1>4, <1>5

\* Tax that is in a price is part of it, and some of it is none where there is no rate.
LEMMA TaxInsideBounds ==
    ASSUME NEW net \in Nat, NEW bps \in Nat
    PROVE  TaxInside(net, bps) \in Nat /\ TaxInside(net, bps) <= net
  <1>1. Taxable(net, bps) \in Nat /\ Taxable(net, bps) <= net
    BY TaxableBounds
  <1> QED BY <1>1 DEF TaxInside

LEMMA SaleInitOrder == ASSUME SaleInit PROVE OrderMade
  <1>1. PICK basket \in Baskets, discount \in Discounts, fee \in Fees, inclusive \in Inclusive :
          LET totals == [i \in DOMAIN basket |-> basket[i].price * basket[i].qty]
              shares == AllocateDiscount(totals, discount)
          IN  /\ discount <= SumFunction(totals)
              /\ \E taxes \in LineTaxes(basket, totals, shares, inclusive) :
                    order = OrderOf(basket, shares, taxes, discount, fee, inclusive)
    BY Zenon DEF SaleInit
  <1>2. PICK len \in Nat \ {0} : DOMAIN basket = 1 .. len
    BY SaleBooksAssumption
  <1>3. /\ \A i \in 1 .. len : /\ basket[i].price \in Nat /\ basket[i].bps \in Nat
                               /\ RatesMade(basket[i]) /\ basket[i].qty \in Nat \ {0}
        /\ discount \in Nat /\ fee \in Nat /\ inclusive \in BOOLEAN
    BY <1>2, SaleBooksAssumption DEF RatesMade
  <1>4. \A i \in 1 .. len : basket[i].price * basket[i].qty \in Nat
    BY <1>3
  <1>5. PICK totals \in [1 .. len -> Nat] : totals = [i \in 1 .. len |-> basket[i].price * basket[i].qty]
    BY <1>4
  <1>6. PICK shares : shares = AllocateDiscount(totals, discount)
    OBVIOUS
  <1>7. PICK taxes \in LineTaxes(basket, totals, shares, inclusive) :
           /\ discount <= SumFunction(totals)
           /\ order = OrderOf(basket, shares, taxes, discount, fee, inclusive)
    BY <1>1, <1>2, <1>5, <1>6, Zenon
  <1>8. /\ shares \in [1 .. len -> Nat] /\ FairlySplit(discount, totals, shares)
        /\ \A i \in 1 .. len : shares[i] <= totals[i]
    BY <1>3, <1>6, <1>7, AllocateWithin DEF AllocateDiscount
  <1>9. /\ taxes \in [1 .. len -> Nat]
        /\ \A i \in 1 .. len : taxes[i] \in
              IF inclusive THEN {TaxInside(totals[i] - shares[i], basket[i].bps)}
              ELSE Nearest(totals[i] * basket[i].bps, 10000)
    <2>1. ASSUME inclusive
          PROVE  /\ taxes \in [1 .. len -> Nat]
                 /\ \A i \in 1 .. len : taxes[i] = TaxInside(totals[i] - shares[i], basket[i].bps)
      <3>1. taxes = [i \in 1 .. len |-> TaxInside(totals[i] - shares[i], basket[i].bps)]
        BY <1>2, <1>7, <2>1 DEF LineTaxes
      <3>2. \A i \in 1 .. len : TaxInside(totals[i] - shares[i], basket[i].bps) \in Nat
        <4> SUFFICES ASSUME NEW i \in 1 .. len
                     PROVE TaxInside(totals[i] - shares[i], basket[i].bps) \in Nat
          OBVIOUS
        <4>1. totals[i] \in Nat /\ shares[i] \in Nat /\ shares[i] <= totals[i] /\ basket[i].bps \in Nat
          BY <1>3, <1>8
        <4>2. totals[i] - shares[i] \in Nat
          BY <4>1
        <4> QED BY <4>1, <4>2, TaxInsideBounds
      <3> QED BY <2>1, <3>1, <3>2
    <2>2. ASSUME ~inclusive
          PROVE  /\ taxes \in [1 .. len -> Nat]
                 /\ \A i \in 1 .. len : taxes[i] \in Nearest(totals[i] * basket[i].bps, 10000)
      <3> DEFINE choices == [i \in DOMAIN basket |-> Nearest(totals[i] * basket[i].bps, 10000)]
      <3>1. \A i \in 1 .. len : choices[i] = Nearest(totals[i] * basket[i].bps, 10000)
        BY <1>2
      <3>2. LineTaxes(basket, totals, shares, inclusive)
               = {f \in [DOMAIN basket -> UNION Range(choices)] : \A i \in DOMAIN basket : f[i] \in choices[i]}
        BY <2>2 DEF LineTaxes
      <3> HIDE DEF choices
      <3>3. taxes = [i \in 1 .. len |-> taxes[i]] /\ \A i \in 1 .. len : taxes[i] \in choices[i]
        <4>1. taxes \in [DOMAIN basket -> UNION Range(choices)] /\ \A i \in DOMAIN basket : taxes[i] \in choices[i]
          BY <1>7, <3>2
        <4> QED BY <1>2, <4>1
      <3>4. \A i \in 1 .. len : taxes[i] \in Nearest(totals[i] * basket[i].bps, 10000)
        BY <3>1, <3>3
      <3>5. \A i \in 1 .. len : taxes[i] \in Nat
        <4> SUFFICES ASSUME NEW i \in 1 .. len PROVE taxes[i] \in Nat
          OBVIOUS
        <4>1. totals[i] * basket[i].bps \in Nat
          BY <1>3
        <4> QED BY <3>4, <4>1, NearestBounds
      <3>6. taxes \in [1 .. len -> Nat]
        BY <3>3, <3>5, Zenon
      <3> QED BY <2>2, <3>4, <3>6
    <2> QED BY <2>1, <2>2
  <1> DEFINE its == [i \in 1 .. len |->
                      [seller |-> basket[i].seller, price |-> basket[i].price,
                       qty |-> basket[i].qty, bps |-> basket[i].bps, category |-> basket[i].category,
                       total |-> totals[i], discount |-> shares[i], tax |-> taxes[i]]]
  <1>a. order = [items |-> its, subtotal |-> SumFunction(totals), discount |-> discount, fee |-> fee,
                 inclusive |-> inclusive,
                 total |-> SumFunction(totals) - discount + fee
                             + IF inclusive THEN 0 ELSE SumFunction(taxes)]
    BY <1>2, <1>5, <1>7, Zenon DEF OrderOf
  <1>b. Items = its /\ Lines = 1 .. len
    BY <1>a DEF Items, Lines
  <1>c. Len(Items) = len
    <2>1. PICK T : \A i \in 1 .. len : its[i] \in T
      <3>1. \A i \in 1 .. len : its[i] \in {its[j] : j \in 1 .. len}
        OBVIOUS
      <3> QED BY <3>1
    <2>2. its \in [1 .. len -> T]
      BY <2>1
    <2> HIDE DEF its
    <2> QED BY <1>b, <2>2, SeqOfFunction
  <1>d. LineTotals = totals /\ Shares = shares /\ Taxes = taxes
    <2>1. \A i \in 1 .. len : Items[i].total = totals[i] /\ Items[i].discount = shares[i] /\ Items[i].tax = taxes[i]
      BY <1>b
    <2>2. totals = [i \in 1 .. len |-> totals[i]] /\ shares = [i \in 1 .. len |-> shares[i]]
          /\ taxes = [i \in 1 .. len |-> taxes[i]]
      BY <1>8, <1>9
    <2> QED BY <1>b, <2>1, <2>2 DEF LineTotals, Shares, Taxes
  <1>e. ASSUME NEW i \in 1 .. len PROVE ItemMade(Items[i])
    <2>1. /\ Items[i].price = basket[i].price /\ Items[i].bps = basket[i].bps
          /\ Items[i].category = basket[i].category /\ Items[i].qty = basket[i].qty
          /\ Items[i].total = totals[i] /\ Items[i].discount = shares[i] /\ Items[i].tax = taxes[i]
      BY <1>b
    <2>2. totals[i] = basket[i].price * basket[i].qty
      BY <1>5
    <2>3. order.inclusive = inclusive
      BY <1>a
    <2>4. totals[i] \in Nat /\ shares[i] \in Nat /\ taxes[i] \in Nat
      BY <1>8, <1>9
    <2> HIDE DEF its
    <2>5. /\ Items[i].price \in Nat /\ Items[i].bps \in Nat /\ RatesMade(Items[i])
          /\ Items[i].total \in Nat /\ Items[i].discount \in Nat /\ Items[i].tax \in Nat
          /\ Items[i].qty \in Nat \ {0}
      <3>1. RatesMade(Items[i])
        BY <1>3, <2>1 DEF RatesMade
      <3> QED BY <1>3, <2>1, <2>4, <3>1
    <2>6. Items[i].total = Items[i].price * Items[i].qty /\ Items[i].discount <= Items[i].total
      BY <1>8, <2>1, <2>2
    <2>7. Items[i].tax \in IF order.inclusive
                           THEN {TaxInside(Items[i].total - Items[i].discount, Items[i].bps)}
                           ELSE Nearest(Items[i].total * Items[i].bps, 10000)
      <3>1. CASE inclusive
        <4>1. taxes[i] = TaxInside(totals[i] - shares[i], basket[i].bps)
          BY <1>9, <3>1
        <4> QED BY <2>1, <2>3, <3>1, <4>1
      <3>2. CASE ~inclusive
        <4>1. taxes[i] \in Nearest(totals[i] * basket[i].bps, 10000)
          BY <1>9, <3>2
        <4> QED BY <2>1, <2>3, <3>2, <4>1
      <3> QED BY <3>1, <3>2
    <2> QED BY <2>5, <2>6, <2>7 DEF ItemMade
  <1>f. /\ order.discount = discount /\ order.fee = fee /\ order.inclusive = inclusive
        /\ order.subtotal = SumFunction(totals)
        /\ order.total = order.subtotal - order.discount + order.fee
                           + IF order.inclusive THEN 0 ELSE SumFunction(taxes)
    BY <1>a
  <1> HIDE DEF its
  <1> QED BY <1>3, <1>7, <1>8, <1>b, <1>c, <1>d, <1>e, <1>f DEF OrderMade

-----------------------------------------------------------------------------
(* What the sale credits. *)

\* Numbers in threes add up to the sums of the threes.
LEMMA SumThrees ==
    ASSUME NEW n \in Nat, NEW f, NEW g, \A k \in 1 .. 3 * n : f[k] \in Int,
           \A i \in 1 .. n : g[i] = f[3 * i - 2] + f[3 * i - 1] + f[3 * i]
    PROVE  SumFunctionOnSet(f, 1 .. 3 * n) = SumFunctionOnSet(g, 1 .. n)
  <1> DEFINE Wrong == {m \in 0 .. n : SumFunctionOnSet(f, 1 .. 3 * m) # SumFunctionOnSet(g, 1 .. m)}
  <1>0. n \in 0 .. n
    OBVIOUS
  <1> SUFFICES ASSUME Wrong # {} PROVE FALSE
    <2>1. n \notin Wrong <=> SumFunctionOnSet(f, 1 .. 3 * n) = SumFunctionOnSet(g, 1 .. n)
      BY <1>0
    <2> HIDE DEF Wrong
    <2> QED BY <2>1
  <1>1. PICK m \in Wrong : \A y \in Wrong : m <= y
    BY SmallestExists
  <1>2. CASE m = 0
    <2>1. 1 .. 3 * m = {} /\ 1 .. m = {}
      BY <1>2
    <2>2. SumFunctionOnSet(f, {}) = 0 /\ SumFunctionOnSet(g, {}) = 0
      BY SumOfNone
    <2> QED BY <2>1, <2>2
  <1>3. CASE m # 0
    <2>1. m - 1 \in 0 .. n /\ m \in 1 .. n /\ m - 1 \notin Wrong
      <3>1. m - 1 \in 0 .. n /\ m \in 1 .. n /\ ~ (m <= m - 1)
        BY <1>1, <1>3
      <3> HIDE DEF Wrong
      <3> QED BY <1>1, <3>1
    <2>2. SumFunctionOnSet(f, 1 .. 3 * (m - 1)) = SumFunctionOnSet(g, 1 .. m - 1)
      BY <2>1
    <2>c. SumFunctionOnSet(f, 1 .. 3 * m) # SumFunctionOnSet(g, 1 .. m)
      BY <1>1
    <2> HIDE DEF Wrong
    <2>3. PICK a \in 1 .. 3 * n : a = 3 * m
      BY <2>1
    <2>4. /\ a - 1 \in 1 .. 3 * n /\ a - 2 \in 1 .. 3 * n
          /\ f[a] \in Int /\ f[a - 1] \in Int /\ f[a - 2] \in Int
          /\ g[m] = f[a - 2] + f[a - 1] + f[a]
      BY <2>1, <2>3
    <2> DEFINE A0 == 1 .. a
               A1 == 1 .. a - 1
               A2 == 1 .. a - 2
               A3 == 1 .. 3 * (m - 1)
    <2>5. /\ A0 \ {a} = A1 /\ A1 \ {a - 1} = A2 /\ A2 \ {a - 2} = A3
          /\ a \in A0 /\ a - 1 \in A1 /\ a - 2 \in A2
      BY <2>1, <2>3
    <2>6. IsFiniteSet(A0) /\ IsFiniteSet(A1) /\ IsFiniteSet(A2) /\ IsFiniteSet(A3)
      BY <2>1, <2>3, FS_Interval
    <2>7. /\ \A k \in A0 : f[k] \in Int
          /\ \A k \in A1 : f[k] \in Int
          /\ \A k \in A2 : f[k] \in Int
          /\ \A k \in A3 : f[k] \in Int
      <3>1. A0 \in SUBSET (1 .. 3 * n)
        BY <2>3
      <3>2. A1 \in SUBSET A0 /\ A2 \in SUBSET A1 /\ A3 \in SUBSET A2
        BY <2>5
      <3> HIDE DEF A0, A1, A2, A3
      <3> QED BY <3>1, <3>2
    <2>8. SumFunctionOnSet(f, 1 .. 3 * m) = SumFunctionOnSet(f, A0)
      BY <2>3
    <2> HIDE DEF A0, A1, A2, A3
    <2>9. /\ SumFunctionOnSet(f, A0) = f[a] + SumFunctionOnSet(f, A1)
          /\ SumFunctionOnSet(f, A1) = f[a - 1] + SumFunctionOnSet(f, A2)
          /\ SumFunctionOnSet(f, A2) = f[a - 2] + SumFunctionOnSet(f, A3)
          /\ SumFunctionOnSet(f, A3) \in Int
      <3>1. SumFunctionOnSet(f, A0) = f[a] + SumFunctionOnSet(f, A0 \ {a})
        BY <2>5, <2>6, <2>7, SumTake
      <3>2. SumFunctionOnSet(f, A1) = f[a - 1] + SumFunctionOnSet(f, A1 \ {a - 1})
        BY <2>5, <2>6, <2>7, SumTake
      <3>3. SumFunctionOnSet(f, A2) = f[a - 2] + SumFunctionOnSet(f, A2 \ {a - 2})
        BY <2>5, <2>6, <2>7, SumTake
      <3>4. SumFunctionOnSet(f, A3) \in Int
        BY <2>6, <2>7, SumInt
      <3> QED BY <2>5, <3>1, <3>2, <3>3, <3>4
    <2>a. SumFunctionOnSet(g, 1 .. m) = g[m] + SumFunctionOnSet(g, 1 .. m - 1)
      <3>1. \A i \in 1 .. m : g[i] \in Int
        <4> SUFFICES ASSUME NEW i \in 1 .. m PROVE g[i] \in Int
          OBVIOUS
        <4>1. i \in 1 .. n /\ 3 * i \in 1 .. 3 * n /\ 3 * i - 1 \in 1 .. 3 * n /\ 3 * i - 2 \in 1 .. 3 * n
          BY <2>1
        <4>2. g[i] = f[3 * i - 2] + f[3 * i - 1] + f[3 * i]
          BY <4>1
        <4>3. f[3 * i] \in Int /\ f[3 * i - 1] \in Int /\ f[3 * i - 2] \in Int
          BY <4>1
        <4> QED BY <4>2, <4>3
      <3>2. IsFiniteSet(1 .. m) /\ m \in 1 .. m
        BY <2>1, FS_Interval
      <3>3. SumFunctionOnSet(g, 1 .. m) = g[m] + SumFunctionOnSet(g, (1 .. m) \ {m})
        BY <3>1, <3>2, SumTake
      <3>4. (1 .. m) \ {m} = 1 .. m - 1
        BY <2>1
      <3> QED BY <3>3, <3>4
    <2>b. SumFunctionOnSet(f, A3) = SumFunctionOnSet(g, 1 .. m - 1)
      BY <2>2 DEF A3
    <2> QED BY <2>4, <2>8, <2>9, <2>a, <2>b, <2>c
  <1> QED BY <1>2, <1>3

\* Numbers of which none is negative add up to nothing only if all are nothing.
LEMMA SumNothing ==
    ASSUME NEW S, IsFiniteSet(S), NEW f, \A x \in S : f[x] \in Nat, SumFunctionOnSet(f, S) = 0
    PROVE  \A x \in S : f[x] = 0
  <1> SUFFICES ASSUME NEW x \in S PROVE f[x] = 0
    OBVIOUS
  <1>1. SumFunctionOnSet(f, S) = f[x] + SumFunctionOnSet(f, S \ {x})
    BY SumTake
  <1>2. SumFunctionOnSet(f, S \ {x}) \in Nat
    <2>1. IsFiniteSet(S \ {x})
      BY FS_Subset
    <2> QED BY <2>1, SumNat
  <1> QED BY <1>1, <1>2

\* What a line is worth without its tax.
Worth(item) == item.total - item.discount - IF order.inclusive THEN item.tax ELSE 0

LEMMA ItemParts ==
    ASSUME OrderMade, NEW i \in Lines
    PROVE  /\ Items[i].price \in Nat /\ Items[i].bps \in Nat /\ RatesMade(Items[i])
           /\ Items[i].total \in Nat /\ Items[i].discount \in Nat /\ Items[i].tax \in Nat
           /\ Items[i].qty \in Nat \ {0}
           /\ Items[i].discount <= Items[i].total
  <1>1. ItemMade(Items[i])
    BY DEF OrderMade
  <1>2. PICK item : item = Items[i]
    OBVIOUS
  <1> QED BY <1>1, <1>2 DEF ItemMade

LEMMA ItemTax ==
    ASSUME OrderMade, NEW i \in Lines
    PROVE  /\ order.inclusive => Items[i].tax = TaxInside(Items[i].total - Items[i].discount, Items[i].bps)
           /\ ~order.inclusive => Items[i].tax \in Nearest(Items[i].total * Items[i].bps, 10000)
  <1>1. ItemMade(Items[i])
    BY DEF OrderMade
  <1>2. PICK item : item = Items[i]
    OBVIOUS
  <1> QED BY <1>1, <1>2 DEF ItemMade

LEMMA ItemPrice ==
    ASSUME OrderMade, NEW i \in Lines
    PROVE  Items[i].total = Items[i].price * Items[i].qty
  <1>1. ItemMade(Items[i])
    BY DEF OrderMade
  <1>2. PICK item : item = Items[i]
    OBVIOUS
  <1> QED BY <1>1, <1>2 DEF ItemMade

\* The three sums an order's total is made of.
LEMMA OrderSums ==
    ASSUME OrderMade
    PROVE  /\ IsFiniteSet(Lines)
           /\ SumFunction(LineTotals) = SumFunctionOnSet(LineTotals, Lines)
           /\ SumFunction(Shares) = SumFunctionOnSet(Shares, Lines)
           /\ SumFunction(Taxes) = SumFunctionOnSet(Taxes, Lines)
           /\ SumFunctionOnSet(LineTotals, Lines) \in Nat
           /\ SumFunctionOnSet(Taxes, Lines) \in Nat
           /\ SumFunctionOnSet(Shares, Lines) = order.discount
           /\ \A i \in Lines : /\ LineTotals[i] = Items[i].total /\ LineTotals[i] \in Nat
                               /\ Shares[i] = Items[i].discount /\ Shares[i] \in Nat
                               /\ Taxes[i] = Items[i].tax /\ Taxes[i] \in Nat
           /\ order.total \in Nat
  <1>1. IsFiniteSet(Lines)
    BY FS_Interval DEF OrderMade
  <1>2. \A i \in Lines : /\ LineTotals[i] = Items[i].total /\ LineTotals[i] \in Nat
                         /\ Shares[i] = Items[i].discount /\ Shares[i] \in Nat
                         /\ Taxes[i] = Items[i].tax /\ Taxes[i] \in Nat
    BY ItemParts DEF LineTotals, Shares, Taxes
  <1>3. LineTotals \in [Lines -> Nat] /\ Shares \in [Lines -> Nat] /\ Taxes \in [Lines -> Nat]
    BY <1>2 DEF LineTotals, Shares, Taxes
  <1>4. /\ SumFunction(LineTotals) = SumFunctionOnSet(LineTotals, Lines)
        /\ SumFunction(Shares) = SumFunctionOnSet(Shares, Lines)
        /\ SumFunction(Taxes) = SumFunctionOnSet(Taxes, Lines)
    BY <1>3, SumOnDomain
  <1>5. /\ SumFunctionOnSet(LineTotals, Lines) \in Nat
        /\ SumFunctionOnSet(Taxes, Lines) \in Nat
    BY <1>1, <1>2, SumNat
  <1>6. SumFunction(Shares) = order.discount
    BY DEF OrderMade, FairlySplit
  <1>7. order.total \in Nat
    BY <1>4, <1>5 DEF OrderMade
  <1> QED BY <1>1, <1>2, <1>4, <1>5, <1>6, <1>7

\* The order's own figures tell how its prices were quoted, wherever that matters.
LEMMA NetIsWorth ==
    ASSUME OrderMade, NEW i \in Lines
    PROVE  /\ NetOf(Items[i], InclusiveIdentity) = Worth(Items[i])
           /\ Worth(Items[i]) \in Nat
  <1>1. /\ Items[i].total \in Nat /\ Items[i].discount \in Nat /\ Items[i].tax \in Nat
        /\ Items[i].discount <= Items[i].total /\ Items[i].bps \in Nat
        /\ order.inclusive => Items[i].tax = TaxInside(Items[i].total - Items[i].discount, Items[i].bps)
    BY ItemParts, ItemTax
  <1>2. order.inclusive => Items[i].tax <= Items[i].total - Items[i].discount
    <2>1. Items[i].total - Items[i].discount \in Nat
      BY <1>1
    <2> QED BY <1>1, <2>1, TaxInsideBounds
  <1>3. order.inclusive \in BOOLEAN
    BY DEF OrderMade
  <1>4. CASE order.inclusive
    <2>1. InclusiveIdentity
      BY <1>4, OrderSums DEF OrderMade, InclusiveIdentity
    <2> QED BY <1>1, <1>2, <1>4, <2>1 DEF NetOf, Worth
  <1>5. CASE ~order.inclusive /\ ~InclusiveIdentity
    BY <1>1, <1>5 DEF NetOf, Worth
  <1>6. CASE ~order.inclusive /\ InclusiveIdentity
    <2>1. SumFunctionOnSet(Taxes, Lines) = 0
      BY <1>6, OrderSums DEF OrderMade, InclusiveIdentity
    <2>2. Items[i].tax = 0
      BY <2>1, OrderSums, SumNothing
    <2> QED BY <1>1, <1>6, <2>2 DEF NetOf, Worth
  <1> QED BY <1>3, <1>4, <1>5, <1>6

\* The order's total is what its lines are worth, their tax and the fee.
LEMMA TotalIsWorth ==
    ASSUME OrderMade, NEW g, \A i \in Lines : g[i] = Worth(Items[i]) + Items[i].tax
    PROVE  SumFunctionOnSet(g, Lines) + order.fee = order.total
  <1> DEFINE net == [i \in Lines |-> Items[i].total - Items[i].discount]
             more == [i \in Lines |-> IF order.inclusive THEN 0 ELSE Items[i].tax]
  <1>1. ASSUME NEW i \in Lines
        PROVE  /\ Items[i].total \in Nat /\ Items[i].discount \in Nat /\ Items[i].tax \in Nat
    BY ItemParts
  <1>2. \A i \in Lines : /\ net[i] \in Int /\ more[i] \in Int /\ g[i] = net[i] + more[i]
                         /\ LineTotals[i] = Shares[i] + net[i]
                         /\ LineTotals[i] \in Int /\ Shares[i] \in Int
                         /\ more[i] = IF order.inclusive THEN 0 ELSE Taxes[i]
    BY <1>1, OrderSums DEF Worth
  <1> HIDE DEF net, more
  <1>3. SumFunctionOnSet(LineTotals, Lines) = SumFunctionOnSet(Shares, Lines) + SumFunctionOnSet(net, Lines)
    BY <1>2, OrderSums, SumPlus
  <1>4. SumFunctionOnSet(g, Lines) = SumFunctionOnSet(net, Lines) + SumFunctionOnSet(more, Lines)
    BY <1>2, OrderSums, SumPlus
  <1>5. SumFunctionOnSet(net, Lines) \in Int /\ SumFunctionOnSet(more, Lines) \in Int
    BY <1>2, OrderSums, SumInt
  <1>6. SumFunctionOnSet(more, Lines) = IF order.inclusive THEN 0 ELSE SumFunctionOnSet(Taxes, Lines)
    <2>1. CASE order.inclusive
      BY <1>2, <2>1, OrderSums, SumZero
    <2>2. CASE ~order.inclusive
      <3>1. SameOn(more, Taxes, Lines)
        BY <1>2, <2>2 DEF SameOn
      <3> QED BY <2>2, <3>1, OrderSums, SumSame
    <2> QED BY <2>1, <2>2
  <1>7. /\ order.subtotal = SumFunctionOnSet(LineTotals, Lines) /\ order.discount \in Nat /\ order.fee \in Nat
        /\ order.total = order.subtotal - order.discount + order.fee
                           + IF order.inclusive THEN 0 ELSE SumFunctionOnSet(Taxes, Lines)
    BY OrderSums DEF OrderMade
  <1> QED BY <1>3, <1>4, <1>5, <1>6, <1>7, OrderSums

LEMMA CommissionBounds ==
    ASSUME NEW item, NEW net \in Nat
    PROVE  Commission(item, net) \in Nat /\ Commission(item, net) <= net
  <1>1. CommissionBps \in Nat /\ CommissionBps <= 10000
    BY SaleBooksAssumption
  <1>2. ApplyBps(net, CommissionBps) \in Nat /\ ApplyBps(net, CommissionBps) <= net
    BY <1>1, RateBounds
  <1>3. Commission(item, net) = 0 \/ Commission(item, net) = ApplyBps(net, CommissionBps)
    BY DEF Commission
  <1> QED BY <1>2, <1>3

\* The three credits of a line.
Credit(k) ==
    LET item == Items[(k + 2) \div 3]
        net  == NetOf(item, InclusiveIdentity)
    IN  CASE k % 3 = 1 -> net - Commission(item, net)
          [] k % 3 = 2 -> Commission(item, net)
          [] k % 3 = 0 -> item.tax

LEMMA CreditOfLine ==
    ASSUME OrderMade, NEW i \in Lines
    PROVE  LET worth == Worth(Items[i])
               commission == Commission(Items[i], worth)
           IN  /\ Credit(3 * i - 2) = worth - commission
               /\ Credit(3 * i - 1) = commission
               /\ Credit(3 * i) = Items[i].tax
               /\ worth \in Nat /\ commission \in Nat /\ commission <= worth
  <1>1. i \in Nat
    BY DEF OrderMade
  <1>2. PICK worth \in Nat :
           worth = Worth(Items[i]) /\ NetOf(Items[i], InclusiveIdentity) = worth
    BY NetIsWorth
  <1>3. PICK c \in Nat : c = Commission(Items[i], worth) /\ c <= worth
    BY CommissionBounds
  <1>4. /\ (3 * i - 2 + 2) \div 3 = i /\ (3 * i - 2) % 3 = 1
        /\ (3 * i - 1 + 2) \div 3 = i /\ (3 * i - 1) % 3 = 2
        /\ (3 * i + 2) \div 3 = i /\ (3 * i) % 3 = 0
    BY <1>1
  <1>5. Credit(3 * i - 2) = worth - c
    BY <1>2, <1>3, <1>4 DEF Credit
  <1>6. Credit(3 * i - 1) = c
    BY <1>2, <1>3, <1>4 DEF Credit
  <1>7. Credit(3 * i) = Items[i].tax
    BY <1>2, <1>4 DEF Credit
  <1> QED BY <1>2, <1>3, <1>5, <1>6, <1>7

\* The place of each number up to 3n among the threes.
LEMMA PlaceInThree ==
    ASSUME NEW n \in Nat, NEW k \in 1 .. 3 * n
    PROVE  \E i \in 1 .. n : k = 3 * i - 2 \/ k = 3 * i - 1 \/ k = 3 * i
  <1>1. PICK i \in Int, r \in 0 .. 2 : k + 2 = 3 * i + r /\ i = (k + 2) \div 3
    <2>1. k + 2 \in Int /\ 3 \in Nat \ {0}
      OBVIOUS
    <2>2. /\ (k + 2) \div 3 \in Int /\ (k + 2) % 3 \in 0 .. 3 - 1
          /\ k + 2 = 3 * ((k + 2) \div 3) + ((k + 2) % 3)
      BY <2>1, DivMod
    <2> QED BY <2>2
  <1>2. i \in 1 .. n
    BY <1>1
  <1> QED BY <1>1, <1>2

\* The sale's credits: none is negative, together they are the order's total, and
\* nothing is left for the rounding account.
LEMMA CreditsParts ==
    ASSUME OrderMade
    PROVE  /\ IsSeq(SaleCredits) /\ Len(SaleCredits) = 3 * Len(Items) + 2
           /\ SaleCredits \in [1 .. 3 * Len(Items) + 2 -> Nat]
           /\ SumFunction(SaleCredits) = order.total
           /\ SaleCredits[3 * Len(Items) + 2] = 0
           /\ \A i \in Lines : SaleCredits[3 * i - 2]
                 = Worth(Items[i]) - Commission(Items[i], Worth(Items[i]))
  <1>1. PICK n \in Nat \ {0} : n = Len(Items) /\ Lines = 1 .. n
    BY DEF OrderMade
  <1> DEFINE known == [k \in 1 .. 3 * n + 1 |-> IF k <= 3 * n THEN Credit(k) ELSE order.fee]
  <1>2. SaleCredits = Append(known, order.total - SumFunction(known))
    <2>1. SaleCredits =
             LET all == [k \in 1 .. 3 * Len(Items) + 1 |->
                           IF k <= 3 * Len(Items) THEN Credit(k) ELSE order.fee]
             IN  Append(all, order.total - SumFunction(all))
      BY Zenon DEF SaleCredits, Credit
    <2> QED BY <1>1, <2>1
  <1>3. order.fee \in Nat /\ order.total \in Nat
    BY OrderSums DEF OrderMade
  <1>4. \A k \in 1 .. 3 * n : Credit(k) \in Nat
    <2> SUFFICES ASSUME NEW k \in 1 .. 3 * n PROVE Credit(k) \in Nat
      OBVIOUS
    <2>1. PICK i \in Lines : k = 3 * i - 2 \/ k = 3 * i - 1 \/ k = 3 * i
      BY <1>1, PlaceInThree
    <2>2. PICK worth \in Nat, c \in Nat :
             /\ c <= worth /\ Credit(3 * i - 2) = worth - c
             /\ Credit(3 * i - 1) = c /\ Credit(3 * i) = Items[i].tax
      BY CreditOfLine
    <2>3. Items[i].tax \in Nat
      BY ItemParts
    <2> QED BY <2>1, <2>2, <2>3
  <1>5. /\ \A k \in 1 .. 3 * n : known[k] = Credit(k) /\ known[k] \in Nat
        /\ known[3 * n + 1] = order.fee
        /\ \A k \in 1 .. 3 * n + 1 : known[k] \in Nat
        /\ known = [k \in 1 .. 3 * n + 1 |-> known[k]]
    <2>1. \A k \in 1 .. 3 * n : known[k] = Credit(k)
      BY <1>1
    <2>2. known[3 * n + 1] = order.fee
      BY <1>1
    <2>3. \A k \in 1 .. 3 * n + 1 : k \in 1 .. 3 * n \/ k = 3 * n + 1
      BY <1>1
    <2>4. known = [k \in 1 .. 3 * n + 1 |-> known[k]]
      OBVIOUS
    <2> HIDE DEF known
    <2> QED BY <1>3, <1>4, <2>1, <2>2, <2>3, <2>4
  <1> HIDE DEF known
  <1>6. known \in [1 .. 3 * n + 1 -> Nat]
    BY <1>5, Zenon
  <1> DEFINE g == [i \in Lines |-> Worth(Items[i]) + Items[i].tax]
  <1>7. SumFunctionOnSet(known, 1 .. 3 * n) = SumFunctionOnSet(g, Lines)
    <2>1. ASSUME NEW i \in 1 .. n PROVE g[i] = known[3 * i - 2] + known[3 * i - 1] + known[3 * i]
      <3>1. 3 * i - 2 \in 1 .. 3 * n /\ 3 * i - 1 \in 1 .. 3 * n /\ 3 * i \in 1 .. 3 * n
        BY <1>1
      <3>2. PICK worth \in Nat, c \in Nat, tax \in Nat :
               /\ worth = Worth(Items[i]) /\ tax = Items[i].tax
               /\ c <= worth /\ Credit(3 * i - 2) = worth - c
               /\ Credit(3 * i - 1) = c /\ Credit(3 * i) = tax
        BY <1>1, CreditOfLine, ItemParts
      <3>3. /\ known[3 * i - 2] = worth - c /\ known[3 * i - 1] = c /\ known[3 * i] = tax
        BY <1>5, <3>1, <3>2
      <3>4. g[i] = worth + tax
        BY <1>1, <3>2
      <3> QED BY <3>2, <3>3, <3>4
    <2>2. \A k \in 1 .. 3 * n : known[k] \in Int
      BY <1>5
    <2>3. n \in Nat
      OBVIOUS
    <2> HIDE DEF g
    <2> QED BY <1>1, <2>1, <2>2, <2>3, SumThrees
  <1>8. SumFunctionOnSet(g, Lines) + order.fee = order.total
    <2>1. \A i \in Lines : g[i] = Worth(Items[i]) + Items[i].tax
      OBVIOUS
    <2> HIDE DEF g
    <2> QED BY <2>1, TotalIsWorth
  <1>9. SumFunction(known) = order.total
    <2>1. SumFunction(known) = SumFunctionOnSet(known, 1 .. 3 * n + 1)
      BY <1>6, SumOnDomain
    <2>2. IsFiniteSet(1 .. 3 * n + 1) /\ 3 * n + 1 \in 1 .. 3 * n + 1
      <3>1. 3 * n + 1 \in Int /\ 1 \in Int /\ 3 * n + 1 \in 1 .. 3 * n + 1
        BY <1>1
      <3> QED BY <3>1, FS_Interval
    <2>3. (1 .. 3 * n + 1) \ {3 * n + 1} = 1 .. 3 * n
      BY <1>1
    <2>4. \A k \in 1 .. 3 * n + 1 : known[k] \in Int
      BY <1>5
    <2>5. SumFunctionOnSet(known, 1 .. 3 * n + 1)
             = known[3 * n + 1] + SumFunctionOnSet(known, (1 .. 3 * n + 1) \ {3 * n + 1})
      BY <2>2, <2>4, SumTake
    <2>6. SumFunctionOnSet(known, 1 .. 3 * n) \in Int
      <3>1. IsFiniteSet(1 .. 3 * n) /\ \A k \in 1 .. 3 * n : known[k] \in Int
        BY <1>1, <1>5, FS_Interval
      <3> QED BY <3>1, SumInt
    <2> HIDE DEF g
    <2>7. SumFunction(known) = known[3 * n + 1] + SumFunctionOnSet(known, 1 .. 3 * n)
      BY <2>1, <2>3, <2>5, Zenon
    <2>8. SumFunctionOnSet(known, 1 .. 3 * n) + order.fee = order.total
      BY <1>7, <1>8, Zenon
    <2>9. SumFunction(known) = order.fee + SumFunctionOnSet(known, 1 .. 3 * n)
      BY <1>5, <2>7, Zenon
    <2> QED BY <1>3, <2>6, <2>8, <2>9
  <1>a. SaleCredits = Append(known, 0)
    BY <1>2, <1>3, <1>9
  <1>b. IsSeq(known) /\ Len(known) = 3 * n + 1
    <2>1. 3 * n + 1 \in Nat
      BY <1>1
    <2> QED BY <1>6, <2>1, SeqOfFunction
  <1>c. /\ IsSeq(SaleCredits) /\ Len(SaleCredits) = 3 * n + 2 /\ DOMAIN SaleCredits = 1 .. 3 * n + 2
        /\ \A k \in 1 .. 3 * n + 1 : SaleCredits[k] = known[k]
        /\ SaleCredits[3 * n + 2] = 0
    <2>1. 3 * n + 1 + 1 = 3 * n + 2
      BY <1>1
    <2> QED BY <1>a, <1>b, <2>1, AppendParts
  <1>d. SaleCredits \in [1 .. 3 * n + 2 -> Nat]
    <2>1. \A k \in 1 .. 3 * n + 2 : k \in 1 .. 3 * n + 1 \/ k = 3 * n + 2
      BY <1>1
    <2>2. \A k \in 1 .. 3 * n + 2 : SaleCredits[k] \in Nat
      BY <1>5, <1>c, <2>1
    <2>3. SaleCredits = [k \in 1 .. 3 * n + 2 |-> SaleCredits[k]]
      BY <1>c, SeqParts
    <2> QED BY <2>2, <2>3, Zenon
  <1>e. SumFunction(SaleCredits) = order.total
    <2>1. SumFunction(SaleCredits) = SumFunctionOnSet(SaleCredits, 1 .. 3 * n + 2)
      BY <1>d, SumOnDomain
    <2>2. IsFiniteSet(1 .. 3 * n + 2) /\ 3 * n + 2 \in 1 .. 3 * n + 2 /\ IsFiniteSet(1 .. 3 * n + 1)
      <3>1. /\ 3 * n + 2 \in Int /\ 3 * n + 1 \in Int /\ 1 \in Int
            /\ 3 * n + 2 \in 1 .. 3 * n + 2
        BY <1>1
      <3> QED BY <3>1, FS_Interval
    <2>3. (1 .. 3 * n + 2) \ {3 * n + 2} = 1 .. 3 * n + 1
      BY <1>1
    <2>4. \A k \in 1 .. 3 * n + 2 : SaleCredits[k] \in Int
      BY <1>d
    <2>5. SumFunctionOnSet(SaleCredits, 1 .. 3 * n + 2)
             = SaleCredits[3 * n + 2] + SumFunctionOnSet(SaleCredits, (1 .. 3 * n + 2) \ {3 * n + 2})
      BY <2>2, <2>4, SumTake
    <2>6. SumFunctionOnSet(SaleCredits, 1 .. 3 * n + 1) = SumFunctionOnSet(known, 1 .. 3 * n + 1)
      <3>1. SameOn(SaleCredits, known, 1 .. 3 * n + 1)
        BY <1>c DEF SameOn
      <3> QED BY <2>2, <3>1, SumSame
    <2>7. SumFunctionOnSet(known, 1 .. 3 * n + 1) = order.total
      BY <1>6, <1>9, SumOnDomain
    <2>8. SumFunction(SaleCredits)
             = SaleCredits[3 * n + 2] + SumFunctionOnSet(SaleCredits, 1 .. 3 * n + 1)
      BY <2>1, <2>3, <2>5, Zenon
    <2>9. SumFunctionOnSet(SaleCredits, 1 .. 3 * n + 1) = order.total /\ SaleCredits[3 * n + 2] = 0
      BY <1>c, <2>6, <2>7, Zenon
    <2>a. SumFunction(SaleCredits) = 0 + order.total
      BY <2>8, <2>9, Zenon
    <2> QED BY <1>3, <2>a
  <1>f. ASSUME NEW i \in Lines
        PROVE SaleCredits[3 * i - 2] = Worth(Items[i]) - Commission(Items[i], Worth(Items[i]))
    <2>1. 3 * i - 2 \in 1 .. 3 * n /\ 3 * i - 2 \in 1 .. 3 * n + 1
      BY <1>1
    <2>2. SaleCredits[3 * i - 2] = Credit(3 * i - 2)
      BY <1>5, <1>c, <2>1
    <2> QED BY <2>2, CreditOfLine
  <1> QED BY <1>1, <1>c, <1>d, <1>e, <1>f

-----------------------------------------------------------------------------
(* The lines of an invoice. *)

LEMMA RoundedZero == Rounded(0, 10000) = 0
  BY DEF Rounded

\* The line of an item by the rates of a table.
LineOf(i, table) == InvoiceLine(Items[i], table[Items[i].category])

\* What every line of an invoice is made of: an item's, or the fee's.
LineMade(line) == (\E i \in Lines, table \in Tables : line = LineOf(i, table)) \/ line = FeeLine

LEMMA InvoiceLineParts ==
    ASSUME OrderMade, NEW i \in Lines, NEW table \in Tables
    PROVE  LET item == Items[i]
               line == LineOf(i, table)
           IN  /\ line.tax = item.tax /\ line.bps \in Nat /\ line.cessBps \in Nat /\ line.cess \in Nat
               /\ line.total = Worth(item) + item.tax + line.cess
               /\ line.cessBps = 0 => line.cess = 0
  <1>1. PICK item, rate : item = Items[i] /\ rate = table[item.category]
    OBVIOUS
  <1>2. /\ item.total \in Nat /\ item.discount \in Nat /\ item.tax \in Nat
        /\ Worth(item) \in Nat /\ order.inclusive \in BOOLEAN
    BY <1>1, ItemParts, NetIsWorth DEF OrderMade
  <1>3. PICK net : net = item.total - item.discount + IF order.inclusive THEN 0 ELSE item.tax
    OBVIOUS
  <1>4. net = Worth(item) + item.tax /\ net - item.tax = Worth(item) /\ net \in Nat
    BY <1>2, <1>3 DEF Worth
  <1>5. PICK worth \in Nat, b \in Nat, c \in Nat : worth = Worth(item) /\ b = rate.bps /\ c = rate.cess
    <2>1. rate.bps \in Nat /\ rate.cess \in Nat
      BY <1>1, ItemParts DEF RatesMade
    <2> QED BY <1>2, <2>1
  <1>6. PICK cess : cess = Cess(net - item.tax, c) /\ cess = Rounded(worth * c, 10000)
    BY <1>4, <1>5 DEF Cess
  <1>7. cess \in Nat /\ (c = 0 => cess = 0)
    <2>1. worth * c \in Nat /\ (c = 0 => worth * c = 0)
      OBVIOUS
    <2>2. cess \in Nat
      BY <1>6, <2>1, RoundedBounds
    <2> QED BY <1>6, <2>1, <2>2, RoundedZero
  <1>8. LineOf(i, table) = [tax |-> item.tax, cess |-> cess, total |-> net + cess, bps |-> b, cessBps |-> c]
    BY <1>1, <1>3, <1>5, <1>6 DEF InvoiceLine, LineOf
  <1> QED BY <1>1, <1>4, <1>5, <1>7, <1>8

\* The numbers of a line.
LEMMA LineParts ==
    ASSUME OrderMade, NEW line, LineMade(line)
    PROVE  /\ line.tax \in Nat /\ line.cess \in Nat /\ line.total \in Nat
           /\ line.bps \in Nat /\ line.cessBps \in Nat
           /\ line.cess <= line.total
           /\ line.cessBps = 0 => line.cess = 0
           /\ line.tax <= line.total
  <1>1. CASE line = FeeLine
    <2>1. order.fee \in Nat
      BY DEF OrderMade
    <2> QED BY <1>1, <2>1 DEF FeeLine
  <1>2. ASSUME NEW i \in Lines, NEW table \in Tables, line = LineOf(i, table)
        PROVE  /\ line.tax \in Nat /\ line.cess \in Nat /\ line.total \in Nat
               /\ line.bps \in Nat /\ line.cessBps \in Nat
               /\ line.cess <= line.total
               /\ line.cessBps = 0 => line.cess = 0
               /\ line.tax <= line.total
    <2>1. Items[i].tax \in Nat /\ Worth(Items[i]) \in Nat
      BY ItemParts, NetIsWorth
    <2>2. /\ line.tax = Items[i].tax /\ line.bps \in Nat /\ line.cessBps \in Nat
          /\ line.cess \in Nat /\ line.total = Worth(Items[i]) + Items[i].tax + line.cess
          /\ line.cessBps = 0 => line.cess = 0
      BY <1>2, InvoiceLineParts
    <2> QED BY <2>1, <2>2
  <1> QED BY <1>1, <1>2 DEF LineMade

Mine(seller) == {i \in Lines : Items[i].seller = seller}

LEMMA MineParts ==
    ASSUME OrderMade, NEW seller
    PROVE  /\ Mine(seller) \in SUBSET Nat /\ Mine(seller) \in SUBSET Lines /\ IsFiniteSet(Mine(seller))
           /\ Cardinality(Mine(seller)) \in Nat
  <1>1. Mine(seller) \in SUBSET Lines
    BY DEF Mine
  <1>2. Lines \in SUBSET Nat
    BY DEF OrderMade
  <1> QED BY <1>1, <1>2, OrderSums, FS_Subset, FS_CardinalityType

\* An invoice has the seller's items in order, and the fee if it is the store's.
LEMMA InvoiceLinesParts ==
    ASSUME OrderMade, NEW seller, NEW table \in Tables
    PROVE  LET lines == InvoiceLines(seller, table)
               mine == InOrder(Mine(seller))
               n == Cardinality(Mine(seller))
               m == IF seller = Store /\ order.fee > 0 THEN n + 1 ELSE n
           IN  /\ IsSeq(lines) /\ Len(lines) = m /\ m \in Nat
               /\ \A k \in 1 .. n : mine[k] \in Mine(seller) /\ lines[k] = LineOf(mine[k], table)
               /\ m = n + 1 => lines[n + 1] = FeeLine
               /\ \A k \in 1 .. m : LineMade(lines[k])
  <1>1. PICK n \in Nat : n = Cardinality(Mine(seller))
    BY MineParts
  <1>2. PICK mine : mine = InOrder(Mine(seller))
    OBVIOUS
  <1>3. mine \in [1 .. n -> Mine(seller)] /\ DOMAIN mine = 1 .. n
    BY <1>1, <1>2, MineParts, InOrderParts DEF Bijection, Injection
  <1> DEFINE own == [k \in 1 .. n |-> LineOf(mine[k], table)]
             fee == IF seller = Store /\ order.fee > 0 THEN <<FeeLine>> ELSE <<>>
             T == {LineOf(i, t) : i \in Lines, t \in Tables} \cup {FeeLine}
  <1>4. InvoiceLines(seller, table) = own \o fee
    <2>1. mine = InOrder({i \in Lines : Items[i].seller = seller})
      BY <1>2 DEF Mine
    <2>2. InvoiceLines(seller, table) = [k \in DOMAIN mine |-> LineOf(mine[k], table)] \o fee
      BY <2>1, Zenon DEF InvoiceLines, LineOf
    <2> QED BY <1>3, <2>2
  <1>5. \A k \in 1 .. n : mine[k] \in Mine(seller) /\ mine[k] \in Lines
    BY <1>3, MineParts
  <1>6. own \in [1 .. n -> T]
    BY <1>5
  <1>7. \A k \in 1 .. n : own[k] = LineOf(mine[k], table)
    OBVIOUS
  <1>8. fee \in Seq(T) /\ Len(fee) = (IF seller = Store /\ order.fee > 0 THEN 1 ELSE 0)
        /\ (Len(fee) = 1 => fee[1] = FeeLine)
    <2>1. CASE seller = Store /\ order.fee > 0
      <3>1. fee = <<FeeLine>>
        BY <2>1
      <3>2. FeeLine \in T
        OBVIOUS
      <3> HIDE DEF fee, T
      <3> QED BY <2>1, <3>1, <3>2
    <2>2. CASE ~ (seller = Store /\ order.fee > 0)
      <3>1. fee = <<>>
        BY <2>2
      <3> HIDE DEF fee, T
      <3> QED BY <2>2, <3>1
    <2> QED BY <2>1, <2>2
  <1>9. \A x \in T : LineMade(x)
    BY DEF LineMade
  <1> HIDE DEF own, fee, T
  <1>a. own \in Seq(T) /\ Len(own) = n
    BY <1>6, SeqOfFunction
  <1>b. PICK lines : lines = InvoiceLines(seller, table) /\ lines = own \o fee
    BY <1>4
  <1>c. PICK f \in 0 .. 1 : f = Len(fee) /\ f = (IF seller = Store /\ order.fee > 0 THEN 1 ELSE 0)
    BY <1>8
  <1>d. /\ lines \in Seq(T) /\ Len(lines) = n + f
        /\ \A k \in 1 .. n + f : lines[k] = IF k <= n THEN own[k] ELSE fee[k - n]
    BY <1>8, <1>a, <1>b, <1>c, ConcatProperties
  <1>e. \A k \in 1 .. n + f : lines[k] \in T
    BY <1>d, ElementOfSeq
  <1>f. \A k \in 1 .. n : lines[k] = LineOf(mine[k], table)
    <2> SUFFICES ASSUME NEW k \in 1 .. n PROVE lines[k] = LineOf(mine[k], table)
      OBVIOUS
    <2>1. k \in 1 .. n + f /\ k <= n
      BY <1>c
    <2>2. lines[k] = own[k]
      BY <1>d, <2>1
    <2> QED BY <1>7, <2>2
  <1>g. f = 1 => lines[n + 1] = FeeLine
    <2> SUFFICES ASSUME f = 1 PROVE lines[n + 1] = FeeLine
      OBVIOUS
    <2>1. n + 1 \in 1 .. n + f /\ ~ (n + 1 <= n) /\ (n + 1) - n = 1
      OBVIOUS
    <2>2. lines[n + 1] = fee[(n + 1) - n]
      BY <1>d, <2>1
    <2> QED BY <1>8, <1>c, <2>1, <2>2
  <1>h. IsSeq(lines)
    BY <1>d DEF IsSeq
  <1>i. PICK m \in Nat : m = (IF seller = Store /\ order.fee > 0 THEN n + 1 ELSE n) /\ m = n + f
    BY <1>c
  <1>j. m = n + 1 => f = 1
    BY <1>c, <1>i
  <1>k. \A k \in 1 .. m : LineMade(lines[k])
    BY <1>9, <1>e, <1>i
  <1>l. Len(lines) = m
    BY <1>d, <1>i
  <1> QED BY <1>1, <1>2, <1>5, <1>b, <1>f, <1>g, <1>h, <1>i, <1>j, <1>k, <1>l

Heads == {i \in Lines : \A j \in 1 .. i - 1 : Items[j].seller # Items[i].seller}

\* The sellers are those of the first items, and the store for the fee.
LEMMA SellersParts ==
    ASSUME OrderMade
    PROVE  LET n == Cardinality(Heads)
               alone == order.fee > 0 /\ \A i \in Lines : Items[i].seller # Store
               m == IF alone THEN n + 1 ELSE n
           IN  /\ IsSeq(Sellers) /\ Len(Sellers) = m /\ m \in Nat \ {0}
               /\ InOrder(Heads) \in Bijection(1 .. n, Heads)
               /\ \A k \in 1 .. n : Sellers[k] = Items[InOrder(Heads)[k]].seller
               /\ alone => Sellers[n + 1] = Store
  <1>1. Lines \in SUBSET Nat /\ Heads \in SUBSET Lines /\ Heads \in SUBSET Nat /\ 1 \in Lines
    BY DEF Heads, OrderMade
  <1>2. IsFiniteSet(Heads)
    BY <1>1, OrderSums, FS_Subset
  <1>3. PICK n \in Nat : n = Cardinality(Heads)
    BY <1>2, FS_CardinalityType
  <1>4. PICK first : first = InOrder(Heads) /\ first \in Bijection(1 .. n, Heads)
    BY <1>1, <1>2, <1>3, InOrderParts
  <1>5. first \in [1 .. n -> Heads] /\ DOMAIN first = 1 .. n
    BY <1>4 DEF Bijection, Injection
  <1>6. n # 0
    <2>1. 1 \in Heads
      BY <1>1 DEF Heads
    <2> QED BY <1>2, <1>3, <2>1, FS_EmptySet
  <1> DEFINE named == [i \in Lines |-> Items[i].seller]
             heads == [k \in 1 .. n |-> Items[first[k]].seller]
             alone == order.fee > 0 /\ \A i \in Lines : Items[i].seller # Store
  <1>7. {i \in Lines : \A j \in 1 .. i - 1 : named[j] # named[i]} = Heads
    <2>1. \A i \in Lines : \A j \in 1 .. i - 1 : j \in Lines
      BY DEF OrderMade
    <2> QED BY <2>1 DEF Heads
  <1>8. heads = [k \in DOMAIN first |-> named[first[k]]]
    <2>1. \A k \in 1 .. n : first[k] \in Lines
      BY <1>1, <1>5
    <2> QED BY <1>5, <2>1
  <1>9. (order.fee > 0 /\ \A i \in Lines : named[i] # Store) <=> alone
    OBVIOUS
  <1>a. Sellers = IF alone THEN Append(heads, Store) ELSE heads
    <2>1. Sellers = IF order.fee > 0 /\ \A i \in Lines : named[i] # Store
                    THEN Append([k \in DOMAIN first |-> named[first[k]]], Store)
                    ELSE [k \in DOMAIN first |-> named[first[k]]]
      <3>1. first = InOrder({i \in Lines : \A j \in 1 .. i - 1 : named[j] # named[i]})
        BY <1>4, <1>7, Zenon
      <3> QED BY <3>1 DEF Sellers
    <2> HIDE DEF named, heads, alone
    <2> QED BY <1>8, <1>9, <2>1
  <1>b. heads \in [1 .. n -> {Items[i].seller : i \in Heads}] /\ \A k \in 1 .. n : heads[k] = Items[first[k]].seller
    BY <1>5
  <1> HIDE DEF named, heads, alone
  <1>c. IsSeq(heads) /\ Len(heads) = n
    BY <1>b, SeqOfFunction
  <1>d. CASE alone
    <2>1. Sellers = Append(heads, Store)
      BY <1>a, <1>d
    <2>2. IsSeq(Sellers) /\ Len(Sellers) = n + 1 /\ Sellers[n + 1] = Store
          /\ \A k \in 1 .. n : Sellers[k] = heads[k]
      BY <1>c, <2>1, AppendParts
    <2>3. n + 1 \in Nat \ {0}
      OBVIOUS
    <2> QED BY <1>3, <1>4, <1>b, <1>d, <2>2, <2>3 DEF alone
  <1>e. CASE ~alone
    <2>1. Sellers = heads
      BY <1>a, <1>e
    <2> QED BY <1>3, <1>4, <1>6, <1>b, <1>c, <1>e, <2>1 DEF alone
  <1> QED BY <1>d, <1>e

-----------------------------------------------------------------------------
(* The invariant of the books. *)

\* Only a refund that passed the check is within the sale, and may have been alone.
RefundMade(refund) ==
    /\ refund = [amount |-> refund.amount, goods |-> refund.goods, debits |-> refund.debits,
                 state |-> refund.state, alone |-> refund.alone]
    /\ refund.amount \in Nat \ {0} /\ refund.goods \in Nat
    /\ \/ refund.state \in {"moved", "refused"} /\ refund.debits = <<>> /\ refund.alone = FALSE
       \/ refund.state = "checked" /\ refund.debits = <<>> /\ refund.amount <= order.total
       \/ /\ refund.state \in {"posted", "counted"} /\ refund.amount <= order.total
          /\ refund.debits = AllocatePaise(refund.amount, sale)

RefundsMade ==
    /\ IsSeq(refunds)
    /\ refunds # <<>> => sale # <<>>
    /\ \A r \in DOMAIN refunds : RefundMade(refunds[r])

InvoiceMade(doc) ==
    /\ doc.kind = "invoice"
    /\ \E table \in Tables : doc.lines = InvoiceLines(doc.seller, table)
    /\ doc.total = LinesTotal(doc.lines) + RoundOff(LinesTotal(doc.lines))

\* What a note takes of the lines it credits, and how it writes it.
NoteShares(amount, lines) == AllocatePaise(amount, [k \in DOMAIN lines |-> lines[k].total])
NoteLines(amount, lines) == [k \in DOMAIN lines |-> NoteLine(lines[k], NoteShares(amount, lines)[k])]

NoteMade(doc) ==
    /\ doc.kind = "note"
    /\ doc.of \in Documents("invoice")
    /\ doc.amount \in Nat \ {0} /\ doc.amount <= docs[doc.of].total
    /\ doc.lines = NoteLines(doc.amount, docs[doc.of].lines)
    /\ doc.total = LinesTotal(doc.lines)

DocsMade ==
    /\ IsSeq(docs)
    /\ \A d \in DOMAIN docs : InvoiceMade(docs[d]) \/ NoteMade(docs[d])

DueMade(due) == due.of \in Documents("invoice") /\ due.amount \in Nat \ {0}

TaskMade(t) ==
    /\ t = [does |-> t.does, refund |-> t.refund, table |-> t.table, todo |-> t.todo]
    /\ t.does \in {"none", "invoice", "note"}
    /\ t.does # "none" => IsSeq(t.todo) /\ t.todo # <<>>
    /\ t.does = "invoice" => t.table \in Tables
    /\ t.does = "note" => \A k \in DOMAIN t.todo : DueMade(t.todo[k])

TasksMade ==
    /\ DOMAIN task = Writers
    /\ \A p \in Writers : TaskMade(task[p])

Debited(k) == SumFunction([r \in Reversals |-> refunds[r].debits[k]])
Owed(k) == order.total * Debited(k) - sale[k] * ReversedTotal

\* The refunds that were alone at their check, posted or not yet.
Solo == {r \in DOMAIN refunds : refunds[r].alone}
SoloTotal == SumFunction([r \in Solo |-> refunds[r].amount])

SlicesMade ==
    sale # <<>> =>
        /\ SoloTotal <= order.total
        /\ Reversals # {} =>
              \A k \in DOMAIN sale : Abs(Owed(k)) < Cardinality(Reversals) * order.total

SaleBooksInv ==
    /\ OrderMade
    /\ sale \in {<<>>, SaleCredits}
    /\ RefundsMade
    /\ SlicesMade
    /\ DocsMade
    /\ TasksMade

-----------------------------------------------------------------------------
(* What follows from the order staying the same. *)

LEMMA OrderSame ==
    ASSUME order' = order
    PROVE  /\ OrderMade' <=> OrderMade
           /\ Items' = Items /\ Lines' = Lines /\ SaleCredits' = SaleCredits
           /\ Sellers' = Sellers
           /\ \A seller, table : InvoiceLines(seller, table)' = InvoiceLines(seller, table)
  <1>1. Items' = Items /\ Lines' = Lines
    BY DEF Items, Lines
  <1>2. \A item : ItemMade(item)' <=> ItemMade(item)
    BY DEF ItemMade
  <1>3. LineTotals' = LineTotals /\ Shares' = Shares /\ Taxes' = Taxes
    BY <1>1 DEF LineTotals, Shares, Taxes
  <1>4. OrderMade' <=> OrderMade
    BY <1>1, <1>2, <1>3, Zenon DEF OrderMade
  <1>5. SaleCredits' = SaleCredits
    BY DEF SaleCredits, InclusiveIdentity, NetOf, Commission, Items
  <1>6. Sellers' = Sellers
    BY DEF Sellers, Items, Lines
  <1>7. \A item, rate : InvoiceLine(item, rate)' = InvoiceLine(item, rate)
    BY Zenon DEF InvoiceLine
  <1>8. FeeLine' = FeeLine
    BY DEF FeeLine
  <1>9. ASSUME NEW seller, NEW table PROVE InvoiceLines(seller, table)' = InvoiceLines(seller, table)
    BY <1>1, <1>7, <1>8, Zenon DEF InvoiceLines
  <1> QED BY <1>1, <1>4, <1>5, <1>6, <1>9

LEMMA EmptySeqParts == IsSeq(<<>>) /\ DOMAIN <<>> = {} /\ Len(<<>>) = 0
  <1>1. <<>> \in Seq({}) /\ Len(<<>>) = 0
    BY EmptySeq
  <1> QED BY <1>1, SeqParts DEF IsSeq

LEMMA SaleInitInv == ASSUME SaleInit PROVE SaleBooksInv
  <1>1. /\ sale = <<>> /\ refunds = <<>> /\ docs = <<>>
        /\ task = [p \in Writers |-> NoTask]
    BY DEF SaleInit
  <1>2. RefundsMade
    BY <1>1, EmptySeqParts DEF RefundsMade
  <1>3. DocsMade
    BY <1>1, EmptySeqParts DEF DocsMade
  <1>4. TasksMade
    BY <1>1 DEF TasksMade, TaskMade, NoTask
  <1>5. SlicesMade
    BY <1>1 DEF SlicesMade
  <1> QED BY <1>1, <1>2, <1>3, <1>4, <1>5, SaleInitOrder DEF SaleBooksInv

-----------------------------------------------------------------------------
(* Reversals of the sale. *)

\* A sum over one more place.
LEMMA SumGrown ==
    \A S, x, f, g :
        IsFiniteSet(S) /\ x \notin S /\ f \in [S -> Int] /\ g \in [S \cup {x} -> Int]
          /\ (\A y \in S : g[y] = f[y])
        => SumFunction(g) = SumFunction(f) + g[x] /\ SumFunction(f) \in Int
  <1> SUFFICES ASSUME NEW S, NEW x, NEW f, NEW g, IsFiniteSet(S), x \notin S, f \in [S -> Int],
                      g \in [S \cup {x} -> Int], \A y \in S : g[y] = f[y]
               PROVE  SumFunction(g) = SumFunction(f) + g[x] /\ SumFunction(f) \in Int
    OBVIOUS
  <1>1. SumFunction(f) = SumFunctionOnSet(f, S) /\ SumFunction(g) = SumFunctionOnSet(g, S \cup {x})
    BY SumOnDomain
  <1>2. IsFiniteSet(S \cup {x}) /\ x \in S \cup {x} /\ (S \cup {x}) \ {x} = S
    BY FS_AddElement
  <1>3. \A y \in S \cup {x} : g[y] \in Int
    OBVIOUS
  <1>4. SumFunctionOnSet(g, S \cup {x}) = g[x] + SumFunctionOnSet(g, (S \cup {x}) \ {x})
    BY <1>2, <1>3, SumTake
  <1>5. SumFunctionOnSet(g, S) = SumFunctionOnSet(f, S)
    BY SumSame DEF SameOn
  <1>6. SumFunctionOnSet(f, S) \in Int
    BY SumInt
  <1>7. SumFunction(g) = g[x] + SumFunction(f) /\ g[x] \in Int
    BY <1>1, <1>2, <1>3, <1>4, <1>5, Zenon
  <1> QED BY <1>1, <1>6, <1>7

LEMMA SumGrownTo ==
    ASSUME NEW S, NEW T, NEW x, NEW f, NEW g, IsFiniteSet(S), x \notin S, T = S \cup {x},
           f \in [S -> Int], g \in [T -> Int], \A y \in S : g[y] = f[y]
    PROVE  SumFunction(g) = SumFunction(f) + g[x]
  BY SumGrown

\* What a reversal debits of each account.
LEMMA DebitsParts ==
    ASSUME OrderMade, sale = SaleCredits, NEW amount \in Nat \ {0}
    PROVE  LET d == AllocatePaise(amount, sale)
           IN  /\ d # <<>> /\ DOMAIN d = DOMAIN sale /\ FairlySplit(amount, sale, d)
               /\ \A k \in DOMAIN sale :
                     /\ d[k] \in Nat /\ sale[k] \in Nat
                     /\ order.total > 0 =>
                           /\ order.total * d[k] - amount * sale[k] < order.total
                           /\ amount * sale[k] - order.total * d[k] < order.total
  <1>1. PICK m \in Nat \ {0} : m = 3 * Len(Items) + 2
    BY DEF OrderMade
  <1>2. sale \in [1 .. m -> Nat] /\ SumFunction(sale) = order.total
    BY <1>1, CreditsParts
  <1>3. PICK d \in [1 .. m -> Nat] : d = AllocatePaise(amount, sale) /\ FairlySplit(amount, sale, d)
    BY <1>2, AllocateWithin
  <1>4. d # <<>>
    <2>1. 1 \in DOMAIN d
      OBVIOUS
    <2> QED BY <2>1, EmptySeqParts
  <1>5. order.total \in Nat
    BY OrderSums
  <1>6. order.total > 0 => \A k \in 1 .. m :
           /\ order.total * d[k] - amount * sale[k] < order.total
           /\ amount * sale[k] - order.total * d[k] < order.total
    <2>1. m \in Nat /\ d \in [1 .. m -> Int] /\ amount \in Nat
      OBVIOUS
    <2> SUFFICES ASSUME order.total > 0
                 PROVE  \A k \in 1 .. m :
                           /\ order.total * d[k] - amount * sale[k] < order.total
                           /\ amount * sale[k] - order.total * d[k] < order.total
      OBVIOUS
    <2>2. SumFunction(sale) \in Nat \ {0}
      BY <1>2, <1>5
    <2>3. \A k \in 1 .. m :
             /\ SumFunction(sale) * d[k] - amount * sale[k] < SumFunction(sale)
             /\ amount * sale[k] - SumFunction(sale) * d[k] < SumFunction(sale)
      BY <1>2, <1>3, <2>1, <2>2, FairWithin
    <2> QED BY <1>2, <2>3, Zenon
  <1> QED BY <1>2, <1>3, <1>4, <1>6

LEMMA DocsSame ==
    ASSUME order' = order, docs' = docs
    PROVE  /\ DocsMade' <=> DocsMade
           /\ Documents("invoice")' = Documents("invoice")
  <1>1. \A kind : Documents(kind)' = Documents(kind)
    BY DEF Documents
  <1>2. \A doc : InvoiceMade(doc)' <=> InvoiceMade(doc)
    BY OrderSame, Zenon DEF InvoiceMade
  <1>3. \A doc : NoteMade(doc)' <=> NoteMade(doc)
    BY <1>1, Zenon DEF NoteMade
  <1> QED BY <1>1, <1>2, <1>3, Zenon DEF DocsMade

LEMMA TasksSame ==
    ASSUME Documents("invoice")' = Documents("invoice"), task' = task
    PROVE  TasksMade' <=> TasksMade
  <1>1. \A due : DueMade(due)' <=> DueMade(due)
    BY Zenon DEF DueMade
  <1>2. \A t : TaskMade(t)' <=> TaskMade(t)
    BY <1>1, Zenon DEF TaskMade
  <1> QED BY <1>2, Zenon DEF TasksMade

LEMMA ReversalsParts ==
    ASSUME OrderMade, sale = SaleCredits, RefundsMade
    PROVE  /\ IsFiniteSet(Reversals) /\ Cardinality(Reversals) \in Nat
           /\ Len(refunds) \in Nat /\ DOMAIN refunds = 1 .. Len(refunds)
           /\ Reversals \in SUBSET (1 .. Len(refunds))
           /\ \A r \in Reversals : refunds[r].amount \in Nat
           /\ \A r \in Reversals : \A k \in DOMAIN sale : refunds[r].debits[k] \in Nat
           /\ ReversedTotal \in Int
           /\ \A k \in DOMAIN sale : Debited(k) \in Int /\ sale[k] \in Nat
  <1>1. Len(refunds) \in Nat /\ DOMAIN refunds = 1 .. Len(refunds) /\ IsFiniteSet(DOMAIN refunds)
    BY SeqParts DEF RefundsMade
  <1>2. Reversals \in SUBSET DOMAIN refunds
    BY DEF Reversals
  <1>3. IsFiniteSet(Reversals) /\ Cardinality(Reversals) \in Nat
    BY <1>1, <1>2, FS_Subset, FS_CardinalityType
  <1>4. ASSUME NEW r \in Reversals
        PROVE  /\ refunds[r].amount \in Nat \ {0}
               /\ \A k \in DOMAIN sale : refunds[r].debits[k] \in Nat
    <2>1. RefundMade(refunds[r]) /\ refunds[r].debits # <<>>
      BY DEF RefundsMade, Reversals
    <2>2. PICK amount \in Nat \ {0} : amount = refunds[r].amount
                                       /\ refunds[r].debits = AllocatePaise(amount, sale)
      BY <2>1, Zenon DEF RefundMade
    <2>3. \A k \in DOMAIN sale : AllocatePaise(amount, sale)[k] \in Nat
      BY DebitsParts
    <2> QED BY <2>2, <2>3
  <1>5. \A k \in DOMAIN sale : sale[k] \in Nat
    BY CreditsParts
  <1>6. ReversedTotal \in Int
    <2> DEFINE f == [r \in Reversals |-> refunds[r].amount]
    <2>1. f \in [Reversals -> Nat] /\ \A r \in Reversals : f[r] \in Int
      BY <1>4
    <2>2. ReversedTotal = SumFunction(f)
      BY DEF ReversedTotal
    <2> HIDE DEF f
    <2> QED BY <1>3, <2>1, <2>2, SumOnDomain, SumInt
  <1>7. ASSUME NEW k \in DOMAIN sale PROVE Debited(k) \in Int
    <2> DEFINE f == [r \in Reversals |-> refunds[r].debits[k]]
    <2>1. f \in [Reversals -> Nat] /\ \A r \in Reversals : f[r] \in Int
      BY <1>4
    <2>2. Debited(k) = SumFunction(f)
      BY DEF Debited
    <2> HIDE DEF f
    <2> QED BY <1>3, <2>1, <2>2, SumOnDomain, SumInt
  <1> QED BY <1>1, <1>2, <1>3, <1>4, <1>5, <1>6, <1>7

LEMMA ReversalArith ==
    ASSUME NEW total \in Nat, NEW debited \in Int, NEW reversed \in Int, NEW credit \in Nat,
           NEW debit \in Nat, NEW amount \in Nat, NEW count \in Nat,
           Abs(total * debited - credit * reversed) < count * total
              \/ (count = 0 /\ total * debited - credit * reversed = 0),
           total * debit - amount * credit < total, amount * credit - total * debit < total
    PROVE  Abs(total * (debited + debit) - credit * (reversed + amount)) < (count + 1) * total
  <1>1. PICK a \in Int, b \in Int, c \in Int, d \in Int, e \in Int :
           /\ a = total * debited /\ b = credit * reversed /\ c = total * debit
           /\ d = amount * credit /\ e = count * total /\ d = credit * amount
    OBVIOUS
  <1>2. /\ total * (debited + debit) = a + c /\ credit * (reversed + amount) = b + d
        /\ (count + 1) * total = e + total
    BY <1>1
  <1>3. Abs(a - b) < e \/ (e = 0 /\ a - b = 0)
    BY <1>1
  <1>4. c - d < total /\ d - c < total
    BY <1>1
  <1>5. Abs((a + c) - (b + d)) < e + total
    BY <1>3, <1>4 DEF Abs
  <1> QED BY <1>2, <1>5

\* Amounts of some refunds add up to no more than those of more of them.
LEMMA AmountsWithin ==
    ASSUME RefundsMade, NEW T \in SUBSET DOMAIN refunds
    PROVE  /\ IsFiniteSet(T) /\ SumFunction([r \in T |-> refunds[r].amount]) \in Nat
           /\ \A R \in SUBSET T : SumFunction([r \in R |-> refunds[r].amount])
                                     <= SumFunction([r \in T |-> refunds[r].amount])
  <1>1. PICK a \in [DOMAIN refunds -> Nat] : a = [r \in DOMAIN refunds |-> refunds[r].amount]
    BY DEF RefundsMade, RefundMade
  <1>2. IsFiniteSet(DOMAIN refunds)
    BY SeqParts DEF RefundsMade
  <1>3. ASSUME NEW R \in SUBSET DOMAIN refunds
        PROVE  /\ IsFiniteSet(R) /\ SumFunctionOnSet(a, R) \in Nat
               /\ SumFunction([r \in R |-> refunds[r].amount]) = SumFunctionOnSet(a, R)
    <2>1. PICK f : f = [r \in R |-> refunds[r].amount]
      OBVIOUS
    <2>2. IsFiniteSet(R)
      BY <1>2, FS_Subset
    <2>3. f \in [R -> Nat] /\ \A r \in R : f[r] = a[r] /\ a[r] \in Nat
      BY <1>1, <2>1
    <2>4. SumFunctionOnSet(f, R) = SumFunctionOnSet(a, R)
      BY <2>2, <2>3, SumSame DEF SameOn
    <2>5. SumFunctionOnSet(a, R) \in Nat
      BY <2>2, <2>3, SumNat
    <2>6. SumFunction(f) = SumFunctionOnSet(f, R)
      BY <2>3, SumOnDomain
    <2> QED BY <2>1, <2>2, <2>4, <2>5, <2>6
  <1>4. ASSUME NEW R \in SUBSET T PROVE SumFunctionOnSet(a, R) <= SumFunctionOnSet(a, T)
    <2>1. PICK U : U = T \ R
      OBVIOUS
    <2>2. U \in SUBSET DOMAIN refunds /\ R \in SUBSET DOMAIN refunds /\ R \cap U = {} /\ T = R \cup U
      BY <2>1
    <2>3. \A x \in R \cup U : a[x] \in Int
      BY <1>1, <2>2
    <2>4. SumFunctionOnSet(a, T) = SumFunctionOnSet(a, R) + SumFunctionOnSet(a, U)
      BY <1>3, <2>2, <2>3, SumUnion
    <2>5. SumFunctionOnSet(a, R) \in Nat /\ SumFunctionOnSet(a, U) \in Nat
      BY <1>3, <2>2
    <2> QED BY <2>4, <2>5
  <1>5. ASSUME NEW R \in SUBSET T
        PROVE  SumFunction([r \in R |-> refunds[r].amount]) <= SumFunction([r \in T |-> refunds[r].amount])
    <2>1. R \in SUBSET DOMAIN refunds
      OBVIOUS
    <2> QED BY <1>3, <1>4, <2>1
  <1> QED BY <1>3, <1>5

LEMMA CountedNat == ASSUME RefundsMade PROVE ReversedPaise \in Nat
  <1>1. Counted \in SUBSET DOMAIN refunds
    BY DEF Counted
  <1> QED BY <1>1, AmountsWithin DEF ReversedPaise

\* One refund is turned; what it gives back stays.
Turned(r, debits, state, alone) ==
    /\ DOMAIN refunds' = DOMAIN refunds
    /\ refunds'[r] = [amount |-> refunds[r].amount, goods |-> refunds[r].goods, debits |-> debits,
                      state |-> state, alone |-> alone]
    /\ \A q \in DOMAIN refunds : q # r => refunds'[q] = refunds[q]

\* What a step of a refund's journal does.
RefundTurn(r) ==
    \/ refunds[r].state = "moved" /\ Turned(r, <<>>, "refused", FALSE)
    \/ /\ refunds[r].state = "moved" /\ ~ (refunds[r].amount > order.total - ReversedPaise)
       /\ Turned(r, <<>>, "checked", UnderWay = {})
    \/ /\ refunds[r].state = "checked"
       /\ Turned(r, AllocatePaise(refunds[r].amount, sale), "posted", refunds[r].alone)
    \/ refunds[r].state = "posted" /\ Turned(r, refunds[r].debits, "counted", refunds[r].alone)

LEMMA RefundTurns ==
    ASSUME RefundsMade, NEW r \in DOMAIN refunds, RefundFind(r) \/ RefundPost(r) \/ RefundCount(r)
    PROVE  /\ UNCHANGED <<order, sale, returned, docs, task, stops, uneven>>
           /\ IsSeq(refunds') /\ RefundTurn(r)
  <1>1. UNCHANGED <<order, sale, returned, docs, task, stops, uneven>>
    BY DEF RefundFind, RefundPost, RefundCount
  <1>2. PICK n \in Nat : n = Len(refunds) /\ DOMAIN refunds = 1 .. n /\ refunds = [k \in 1 .. n |-> refunds[k]]
    BY SeqParts DEF RefundsMade
  <1>3. PICK old : old = refunds[r]
    OBVIOUS
  <1>4. RefundMade(old)
    BY <1>3 DEF RefundsMade
  <1>5. ASSUME NEW new, refunds' = [refunds EXCEPT ![r] = new]
        PROVE  /\ IsSeq(refunds') /\ DOMAIN refunds' = DOMAIN refunds /\ refunds'[r] = new
               /\ \A q \in DOMAIN refunds : q # r => refunds'[q] = refunds[q]
    <2>1. PICK S : S = {refunds'[k] : k \in 1 .. n}
      OBVIOUS
    <2>2. refunds' \in [1 .. n -> S]
      BY <1>2, <1>5, <2>1
    <2>3. IsSeq(refunds')
      BY <2>2, SeqOfFunction
    <2> QED BY <1>2, <1>5, <2>3
  <1>6. old = [amount |-> old.amount, goods |-> old.goods, debits |-> old.debits, state |-> old.state,
               alone |-> old.alone]
    BY <1>4 DEF RefundMade
  <1>7. old.state = "moved" => old.debits = <<>> /\ old.alone = FALSE
    BY <1>4 DEF RefundMade
  <1>8. CASE RefundFind(r) /\ refunds[r].amount > order.total - ReversedPaise
    <2>1. PICK new : new = [old EXCEPT !.state = "refused"]
      OBVIOUS
    <2>2. old.state = "moved" /\ refunds' = [refunds EXCEPT ![r] = new]
      BY <1>3, <1>8, <2>1 DEF RefundFind
    <2>3. new = [amount |-> old.amount, goods |-> old.goods, debits |-> <<>>, state |-> "refused", alone |-> FALSE]
      BY <1>6, <1>7, <2>1, <2>2
    <2> QED BY <1>1, <1>3, <1>5, <2>2, <2>3 DEF RefundTurn, Turned
  <1>9. CASE RefundFind(r) /\ ~ (refunds[r].amount > order.total - ReversedPaise)
    <2>1. PICK alone : alone = (UnderWay = {})
      OBVIOUS
    <2>2. PICK new : new = [old EXCEPT !.state = "checked", !.alone = alone]
      OBVIOUS
    <2>3. old.state = "moved" /\ refunds' = [refunds EXCEPT ![r] = new]
      BY <1>3, <1>9, <2>1, <2>2 DEF RefundFind
    <2>4. new = [amount |-> old.amount, goods |-> old.goods, debits |-> <<>>, state |-> "checked", alone |-> alone]
      BY <1>6, <1>7, <2>2, <2>3
    <2> QED BY <1>1, <1>3, <1>5, <1>9, <2>1, <2>3, <2>4 DEF RefundTurn, Turned
  <1>a. CASE RefundPost(r)
    <2>1. PICK debits : debits = AllocatePaise(old.amount, sale)
      OBVIOUS
    <2>2. PICK new : new = [old EXCEPT !.state = "posted", !.debits = debits]
      OBVIOUS
    <2>3. old.state = "checked" /\ refunds' = [refunds EXCEPT ![r] = new]
      BY <1>3, <1>a, <2>1, <2>2 DEF RefundPost, ShareOut
    <2>4. new = [amount |-> old.amount, goods |-> old.goods, debits |-> debits, state |-> "posted",
                 alone |-> old.alone]
      BY <1>6, <2>2
    <2> QED BY <1>1, <1>3, <1>5, <2>1, <2>3, <2>4 DEF RefundTurn, Turned
  <1>b. CASE RefundCount(r)
    <2>1. PICK new : new = [old EXCEPT !.state = "counted"]
      OBVIOUS
    <2>2. old.state = "posted" /\ refunds' = [refunds EXCEPT ![r] = new]
      BY <1>3, <1>b, <2>1 DEF RefundCount
    <2>3. new = [amount |-> old.amount, goods |-> old.goods, debits |-> old.debits, state |-> "counted",
                 alone |-> old.alone]
      BY <1>6, <2>1
    <2> QED BY <1>1, <1>3, <1>5, <2>2, <2>3 DEF RefundTurn, Turned
  <1> QED BY <1>8, <1>9, <1>a, <1>b

\* The refunds are sound after it.
LEMMA TurnedMade ==
    ASSUME OrderMade, RefundsMade, NEW r \in DOMAIN refunds, RefundTurn(r), IsSeq(refunds'),
           order' = order, sale' = sale
    PROVE  /\ RefundsMade' /\ DOMAIN refunds' = DOMAIN refunds
           /\ \A q \in DOMAIN refunds : /\ refunds'[q].amount = refunds[q].amount
                                        /\ refunds'[q].goods = refunds[q].goods
                                        /\ q # r => refunds'[q] = refunds[q]
  <1>1. PICK old, new : old = refunds[r] /\ new = refunds'[r]
    OBVIOUS
  <1>2. RefundMade(old)
    BY <1>1 DEF RefundsMade
  <1>3. PICK total \in Nat, paise \in Nat : total = order.total /\ paise = ReversedPaise
    BY OrderSums, CountedNat
  <1>4. /\ DOMAIN refunds' = DOMAIN refunds /\ new.amount = old.amount /\ new.goods = old.goods
        /\ \A q \in DOMAIN refunds : q # r => refunds'[q] = refunds[q]
    BY <1>1 DEF RefundTurn, Turned
  <1>5. RefundMade(new)
    <2>1. old.amount \in Nat \ {0} /\ old.goods \in Nat
      BY <1>2 DEF RefundMade
    <2>2. CASE new = [amount |-> old.amount, goods |-> old.goods, debits |-> <<>>, state |-> "refused",
                      alone |-> FALSE]
      BY <2>1, <2>2 DEF RefundMade
    <2>3. ASSUME NEW alone, ~ (old.amount > total - paise),
                 new = [amount |-> old.amount, goods |-> old.goods, debits |-> <<>>, state |-> "checked",
                        alone |-> alone]
          PROVE  RefundMade(new)
      <3>1. old.amount <= total
        BY <1>3, <2>1, <2>3
      <3> QED BY <1>3, <2>1, <2>3, <3>1 DEF RefundMade
    <2>4. CASE /\ old.state = "checked"
               /\ new = [amount |-> old.amount, goods |-> old.goods,
                         debits |-> AllocatePaise(old.amount, sale), state |-> "posted", alone |-> old.alone]
      <3>1. old.amount <= order.total
        BY <1>2, <2>4 DEF RefundMade
      <3> QED BY <2>1, <2>4, <3>1 DEF RefundMade
    <2>5. CASE /\ old.state = "posted"
               /\ new = [amount |-> old.amount, goods |-> old.goods, debits |-> old.debits,
                         state |-> "counted", alone |-> old.alone]
      <3>1. old.amount <= order.total /\ old.debits = AllocatePaise(old.amount, sale)
        BY <1>2, <2>5 DEF RefundMade
      <3> QED BY <2>1, <2>5, <3>1 DEF RefundMade
    <2> QED BY <1>1, <1>3, <2>2, <2>3, <2>4, <2>5, Zenon DEF RefundTurn, Turned
  <1>6. \A refund : RefundMade(refund)' <=> RefundMade(refund)
    BY DEF RefundMade
  <1>7. ASSUME NEW q \in DOMAIN refunds PROVE RefundMade(refunds'[q])
    <2>1. RefundMade(refunds[q])
      BY DEF RefundsMade
    <2> QED BY <1>1, <1>4, <1>5, <2>1
  <1>8. sale # <<>>
    BY EmptySeqParts DEF RefundsMade
  <1>9. RefundsMade'
    BY <1>4, <1>6, <1>7, <1>8 DEF RefundsMade
  <1> QED BY <1>1, <1>4, <1>9

\* The sums stay where the debits do.
LEMMA SlicesKept ==
    ASSUME SlicesMade, order' = order, sale' = sale, SoloTotal' <= order.total, Reversals' = Reversals,
           \A r \in Reversals : /\ refunds'[r].amount = refunds[r].amount
                                /\ refunds'[r].debits = refunds[r].debits
    PROVE  SlicesMade'
  <1>1. ReversedTotal' = ReversedTotal
    <2>1. [r \in Reversals |-> refunds'[r].amount] = [r \in Reversals |-> refunds[r].amount]
      OBVIOUS
    <2> QED BY <2>1, Zenon DEF ReversedTotal
  <1>2. ASSUME NEW k PROVE Owed(k)' = Owed(k)
    <2>1. [r \in Reversals |-> refunds'[r].debits[k]] = [r \in Reversals |-> refunds[r].debits[k]]
      OBVIOUS
    <2>2. Debited(k)' = Debited(k)
      BY <2>1, Zenon DEF Debited
    <2> QED BY <1>1, <2>2, Zenon DEF Owed
  <1> QED BY <1>1, <1>2 DEF SlicesMade

LEMMA SoloKept ==
    ASSUME Solo' = Solo, \A r \in Solo : refunds'[r].amount = refunds[r].amount
    PROVE  SoloTotal' = SoloTotal
  <1>1. [r \in Solo |-> refunds'[r].amount] = [r \in Solo |-> refunds[r].amount]
    OBVIOUS
  <1> QED BY <1>1, Zenon DEF SoloTotal

\* A refund is added.
LEMMA RefundAppended ==
    ASSUME OrderMade, RefundsMade, SlicesMade, sale # <<>>,
           sale' = sale, order' = order, NEW amount \in Nat \ {0}, NEW goods \in Nat,
           refunds' = Append(refunds, [amount |-> amount, goods |-> goods, debits |-> <<>>,
                                       state |-> "moved", alone |-> FALSE])
    PROVE  RefundsMade' /\ SlicesMade'
  <1>1. PICK n \in Nat : n = Len(refunds) /\ DOMAIN refunds = 1 .. n
    BY SeqParts DEF RefundsMade
  <1>2. PICK new : new = [amount |-> amount, goods |-> goods, debits |-> <<>>, state |-> "moved", alone |-> FALSE]
    OBVIOUS
  <1>3. /\ IsSeq(refunds') /\ DOMAIN refunds' = 1 .. n + 1 /\ refunds'[n + 1] = new
        /\ \A r \in 1 .. n : refunds'[r] = refunds[r]
    BY <1>1, <1>2, AppendParts DEF RefundsMade
  <1>4. \A r \in 1 .. n + 1 : r \in 1 .. n \/ r = n + 1
    OBVIOUS
  <1>5. RefundsMade'
    <2>1. \A refund : RefundMade(refund)' <=> RefundMade(refund)
      BY DEF RefundMade
    <2>2. RefundMade(new)
      BY <1>2 DEF RefundMade
    <2>3. \A r \in 1 .. n : RefundMade(refunds[r])
      BY <1>1 DEF RefundsMade
    <2>4. \A r \in DOMAIN refunds' : RefundMade(refunds'[r])
      BY <1>3, <1>4, <2>2, <2>3
    <2> QED BY <1>3, <2>1, <2>4 DEF RefundsMade
  <1>6. new.debits = <<>> /\ new.alone = FALSE
    BY <1>2
  <1>7. Reversals' = Reversals /\ \A r \in Reversals : refunds'[r] = refunds[r]
    BY <1>1, <1>3, <1>4, <1>6 DEF Reversals
  <1>8. Solo' = Solo /\ \A r \in Solo : refunds'[r] = refunds[r]
    BY <1>1, <1>3, <1>4, <1>6 DEF Solo
  <1>9. SoloTotal' <= order.total
    BY <1>8, SoloKept DEF SlicesMade
  <1>a. SlicesMade'
    BY <1>7, <1>9, SlicesKept
  <1> QED BY <1>5, <1>a

\* A refund passes the check.
LEMMA SoloGrown ==
    ASSUME OrderMade, RefundsMade, SoloTotal <= order.total, NEW r \in DOMAIN refunds,
           refunds[r].state = "moved", ~ (refunds[r].amount > order.total - ReversedPaise),
           Turned(r, <<>>, "checked", UnderWay = {})
    PROVE  SoloTotal' <= order.total
  <1>1. PICK amount \in Nat : amount = refunds[r].amount /\ refunds'[r].amount = amount
    BY DEF RefundsMade, RefundMade, Turned
  <1>2. r \notin Solo /\ (r \in Solo' <=> UnderWay = {})
    <2>0. PICK new : new = refunds'[r]
      OBVIOUS
    <2>1. PICK alone \in BOOLEAN : alone = (UnderWay = {})
      OBVIOUS
    <2>2. new = [amount |-> refunds[r].amount, goods |-> refunds[r].goods, debits |-> <<>>,
                 state |-> "checked", alone |-> alone]
      BY <2>0, <2>1 DEF Turned
    <2>3. new.alone = alone
      BY <2>2
    <2>4. refunds[r].alone = FALSE /\ r \in DOMAIN refunds'
      BY DEF RefundsMade, RefundMade, Turned
    <2>5. r \in Solo' <=> new.alone
      BY <2>0, <2>4 DEF Solo
    <2> QED BY <2>1, <2>3, <2>4, <2>5 DEF Solo
  <1>3. /\ \A q \in DOMAIN refunds : q # r => (q \in Solo' <=> q \in Solo)
        /\ Solo \subseteq DOMAIN refunds /\ Solo' \subseteq DOMAIN refunds
        /\ \A q \in Solo : refunds'[q] = refunds[q]
    BY <1>2 DEF Turned, Solo
  <1>4. CASE UnderWay # {}
    <2>1. r \notin Solo /\ r \notin Solo'
      BY <1>2, <1>4
    <2>2. \A q : q \in Solo' <=> q \in Solo
      BY <1>3, <2>1, Zenon
    <2>3. Solo' = Solo
      BY <2>2
    <2> QED BY <1>3, <2>3, SoloKept
  <1>5. CASE UnderWay = {}
    <2>1. PICK T : T = Solo \cup {r}
      OBVIOUS
    <2>2. Solo' = T
      BY <1>2, <1>3, <1>5, <2>1
    <2>3. Solo \subseteq Counted
      BY <1>3, <1>5 DEF Solo, Counted, UnderWay, RefundsMade, RefundMade
    <2>4. SoloTotal <= ReversedPaise /\ SoloTotal \in Nat /\ ReversedPaise \in Nat
      <3>1. Solo \in SUBSET Counted /\ Counted \in SUBSET DOMAIN refunds
        BY <2>3 DEF Counted
      <3> QED BY <3>1, AmountsWithin DEF SoloTotal, ReversedPaise
    <2>5. SoloTotal' = SoloTotal + amount
      <3> DEFINE f == [q \in Solo |-> refunds[q].amount]
                 g == [q \in T |-> refunds'[q].amount]
      <3>1. /\ \A q \in Solo : g[q] = f[q]
            /\ g[r] = amount
            /\ f \in [Solo -> Int] /\ g \in [T -> Int]
        <4>1. \A q \in Solo : refunds[q].amount \in Int
          BY <1>3 DEF RefundsMade, RefundMade
        <4> QED BY <1>1, <1>3, <2>1, <4>1
      <3>2. SoloTotal = SumFunction(f)
        BY DEF SoloTotal
      <3>3. SoloTotal' = SumFunction(g)
        BY <2>2, Zenon DEF SoloTotal
      <3>4. IsFiniteSet(Solo)
        BY <1>3, AmountsWithin
      <3> HIDE DEF f, g
      <3>5. SumFunction(g) = SumFunction(f) + g[r]
        BY <1>2, <2>1, <3>1, <3>4, SumGrownTo
      <3> QED BY <3>1, <3>2, <3>3, <3>5, Zenon
    <2>6. PICK total \in Nat, paise \in Nat, solo \in Nat :
             total = order.total /\ paise = ReversedPaise /\ solo = SoloTotal
      BY <2>4, OrderSums
    <2>7. ~ (amount > total - paise) /\ solo <= paise
      BY <1>1, <2>4, <2>6
    <2>8. solo + amount <= total
      BY <2>7
    <2> QED BY <2>5, <2>6, <2>8
  <1> QED BY <1>4, <1>5

\* A refund's slice is posted.
LEMMA SliceAdded ==
    ASSUME OrderMade, sale = SaleCredits, RefundsMade, SlicesMade, sale' = sale, order' = order,
           NEW new \in DOMAIN refunds, refunds[new].state = "checked", NEW debits,
           debits = AllocatePaise(refunds[new].amount, sale),
           Turned(new, debits, "posted", refunds[new].alone)
    PROVE  SlicesMade'
  <1>1. PICK amount \in Nat \ {0} : amount = refunds[new].amount
    BY DEF RefundsMade, RefundMade
  <1>2. sale # <<>>
    BY CreditsParts, EmptySeqParts
  <1>3. refunds[new].debits = <<>> /\ amount <= order.total
    BY <1>1 DEF RefundsMade, RefundMade
  <1>4. SoloTotal' <= order.total
    <2>1. Solo' = Solo /\ \A r \in Solo : refunds'[r].amount = refunds[r].amount
      BY DEF Solo, Turned
    <2> QED BY <1>2, <2>1, SoloKept DEF SlicesMade
  <1>5. Reversals' = Reversals \cup {new} /\ new \notin Reversals
    <2>1. debits # <<>>
      BY <1>1, DebitsParts
    <2> QED BY <1>3, <2>1 DEF Reversals, Turned
  <1>6. /\ \A r \in Reversals : refunds'[r] = refunds[r]
        /\ refunds'[new].amount = amount /\ refunds'[new].debits = debits
    BY <1>1, <1>5 DEF Reversals, Turned
  <1>7. IsFiniteSet(Reversals)
    BY ReversalsParts
  <1>8. ReversedTotal' = ReversedTotal + amount
    <2> DEFINE f == [r \in Reversals |-> refunds[r].amount]
               g == [r \in Reversals \cup {new} |-> refunds'[r].amount]
    <2>1. /\ \A r \in Reversals : g[r] = f[r]
          /\ g[new] = amount
          /\ f \in [Reversals -> Int] /\ g \in [Reversals \cup {new} -> Int]
      BY <1>6, <1>6, ReversalsParts
    <2>2. ReversedTotal = SumFunction(f)
      BY DEF ReversedTotal
    <2>3. ReversedTotal' = SumFunction(g)
      BY <1>5, Zenon DEF ReversedTotal
    <2> HIDE DEF f, g
    <2>4. SumFunction(g) = SumFunction(f) + g[new]
      <3>1. PICK T : T = Reversals \cup {new}
        OBVIOUS
      <3>2. g \in [T -> Int]
        BY <2>1, <3>1
      <3> QED BY <1>5, <1>7, <2>1, <3>1, <3>2, SumGrownTo
    <2> QED BY <2>1, <2>2, <2>3, <2>4, Zenon
  <1>9. ASSUME NEW k \in DOMAIN sale PROVE Debited(k)' = Debited(k) + debits[k]
    <2> DEFINE f == [r \in Reversals |-> refunds[r].debits[k]]
               g == [r \in Reversals \cup {new} |-> refunds'[r].debits[k]]
    <2>1. /\ \A r \in Reversals : g[r] = f[r]
          /\ g[new] = debits[k]
          /\ f \in [Reversals -> Int] /\ g \in [Reversals \cup {new} -> Int]
      BY <1>6, <1>1, <1>6, ReversalsParts, DebitsParts
    <2>2. Debited(k) = SumFunction(f)
      BY DEF Debited
    <2>3. Debited(k)' = SumFunction(g)
      BY <1>5, Zenon DEF Debited
    <2> HIDE DEF f, g
    <2>4. SumFunction(g) = SumFunction(f) + g[new]
      <3>1. PICK T : T = Reversals \cup {new}
        OBVIOUS
      <3>2. g \in [T -> Int]
        BY <2>1, <3>1
      <3> QED BY <1>5, <1>7, <2>1, <3>1, <3>2, SumGrownTo
    <2> QED BY <2>1, <2>2, <2>3, <2>4, Zenon
  <1>a. order.total \in Nat /\ ReversedTotal \in Int
    BY OrderSums, ReversalsParts
  <1>c. PICK count \in Nat : count = Cardinality(Reversals) /\ Cardinality(Reversals') = count + 1
    <2>1. Cardinality(Reversals \cup {new}) = Cardinality(Reversals) + 1
      BY <1>5, <1>7, FS_AddElement
    <2>2. Cardinality(Reversals) \in Nat
      BY ReversalsParts
    <2> QED BY <1>5, <2>1, <2>2, Zenon
  <1>d. order.total > 0
    BY <1>3, <1>a
  <1>b. ASSUME NEW k \in DOMAIN sale
        PROVE  Abs(Owed(k)') < Cardinality(Reversals') * order.total
    <2>1. PICK total \in Nat, debited \in Int, reversed \in Int, credit \in Nat, debit \in Nat :
             /\ total = order.total /\ debited = Debited(k) /\ reversed = ReversedTotal
             /\ credit = sale[k] /\ debit = debits[k]
      BY <1>1, <1>a, ReversalsParts, DebitsParts
    <2>2. total * debit - amount * credit < total /\ amount * credit - total * debit < total
      BY <1>1, <1>d, <2>1, DebitsParts
    <2>3. \/ Abs(total * debited - credit * reversed) < count * total
          \/ (count = 0 /\ total * debited - credit * reversed = 0)
      <3>1. CASE Reversals # {}
        <4>1. Abs(Owed(k)) < Cardinality(Reversals) * order.total
          BY <1>2, <3>1 DEF SlicesMade
        <4>2. Owed(k) = total * debited - credit * reversed
          BY <2>1 DEF Owed
        <4> QED BY <1>c, <2>1, <4>1, <4>2
      <3>2. CASE Reversals = {}
        <4>1. count = 0
          BY <1>c, <3>2, FS_EmptySet
        <4>2. ReversedTotal = 0
          <5> DEFINE f == [r \in Reversals |-> refunds[r].amount]
          <5>1. f \in [Reversals -> Nat]
            BY ReversalsParts
          <5>2. ReversedTotal = SumFunction(f)
            BY DEF ReversedTotal
          <5> HIDE DEF f
          <5> QED BY <3>2, <5>1, <5>2, SumOnDomain, SumOfNone
        <4>3. Debited(k) = 0
          <5> DEFINE f == [r \in Reversals |-> refunds[r].debits[k]]
          <5>1. f \in [Reversals -> Nat]
            BY ReversalsParts
          <5>2. Debited(k) = SumFunction(f)
            BY DEF Debited
          <5> HIDE DEF f
          <5> QED BY <3>2, <5>1, <5>2, SumOnDomain, SumOfNone
        <4>4. total * debited - credit * reversed = 0
          <5>1. debited = 0 /\ reversed = 0
            BY <2>1, <4>2, <4>3
          <5>2. total * 0 - credit * 0 = 0
            OBVIOUS
          <5> QED BY <5>1, <5>2
        <4> QED BY <4>1, <4>4
      <3> QED BY <3>1, <3>2
    <2>4. Abs(total * (debited + debit) - credit * (reversed + amount)) < (count + 1) * total
      BY <2>2, <2>3, ReversalArith
    <2>5. Owed(k)' = total * (debited + debit) - credit * (reversed + amount)
      <3>1. Owed(k)' = order'.total * Debited(k)' - sale'[k] * ReversedTotal'
        BY DEF Owed
      <3>2. Debited(k)' = debited + debit /\ ReversedTotal' = reversed + amount
        BY <1>8, <1>9, <2>1
      <3> QED BY <2>1, <3>1, <3>2
    <2> QED BY <1>c, <2>1, <2>4, <2>5
  <1> QED BY <1>2, <1>4, <1>b DEF SlicesMade

LEMMA ProductNat == ASSUME NEW a \in Nat, NEW b \in Nat PROVE a * b \in Nat
  OBVIOUS

LEMMA UnitRefundsNat ==
    ASSUME OrderMade, NEW i \in Lines, NEW u \in UnitRefunds(i)
    PROVE  u \in Nat
  <1>1. PICK item : item = Items[i]
    OBVIOUS
  <1>2. item.price * item.qty - item.discount \in Nat /\ item.qty \in Nat \ {0} /\ item.tax \in Nat
    BY <1>1, ItemParts, ItemPrice
  <1>3. \A q \in Nearest(item.price * item.qty - item.discount, item.qty) : q \in Nat
    BY <1>2, NearestBounds
  <1>4. \A q \in Nearest(item.tax, item.qty) : q \in Nat
    BY <1>2, NearestBounds
  <1>5. PICK G, T : /\ G = Nearest(item.price * item.qty - item.discount, item.qty)
                    /\ T = Nearest(item.tax, item.qty)
    OBVIOUS
  <1>6. u \in IF order.inclusive THEN G ELSE {g + t : g \in G, t \in T}
    BY <1>1, <1>5 DEF UnitRefunds
  <1>7. (\A q \in G : q \in Nat) /\ (\A q \in T : q \in Nat)
    BY <1>3, <1>4, <1>5
  <1> QED BY <1>6, <1>7

LEMMA FiguresSame ==
    ASSUME SaleBooksInv, UNCHANGED Figures
    PROVE  OrderMade' /\ sale' \in {<<>>, SaleCredits'} /\ RefundsMade' /\ SlicesMade'
  <1>1. order' = order /\ sale' = sale /\ refunds' = refunds
    BY DEF Figures
  <1>2. OrderMade' /\ sale' \in {<<>>, SaleCredits'}
    BY <1>1, OrderSame DEF SaleBooksInv
  <1>3. \A refund : RefundMade(refund)' <=> RefundMade(refund)
    BY <1>1 DEF RefundMade
  <1>4. RefundsMade'
    BY <1>1, <1>3, Zenon DEF SaleBooksInv, RefundsMade
  <1>5. Reversals' = Reversals /\ Solo' = Solo
    BY <1>1 DEF Reversals, Solo
  <1>6. SoloTotal' = SoloTotal
    BY <1>1, <1>5, SoloKept
  <1>7. ASSUME sale # <<>> PROVE SlicesMade'
    <2>1. SlicesMade /\ SoloTotal' <= order.total
      BY <1>6, <1>7 DEF SlicesMade, SaleBooksInv
    <2> QED BY <1>1, <1>5, <2>1, SlicesKept
  <1>8. SlicesMade'
    BY <1>1, <1>7 DEF SlicesMade
  <1> QED BY <1>2, <1>4, <1>8

LEMMA ConfirmKeeps ==
    ASSUME SaleBooksInv, Confirm
    PROVE  SaleBooksInv'
  <1>1. /\ sale = <<>> /\ sale' = SaleCredits /\ order' = order /\ refunds' = refunds
        /\ docs' = docs /\ task' = task
    BY DEF Confirm
  <1>2. OrderMade' /\ sale' \in {<<>>, SaleCredits'}
    BY <1>1, OrderSame DEF SaleBooksInv
  <1>3. refunds = <<>> /\ IsSeq(refunds)
    BY <1>1 DEF SaleBooksInv, RefundsMade
  <1>4. RefundsMade'
    BY <1>1, <1>3, EmptySeqParts DEF RefundsMade
  <1>5. Reversals' = {} /\ Solo' = {}
    BY <1>1, <1>3, EmptySeqParts DEF Reversals, Solo
  <1>6. SoloTotal' = 0
    <2> DEFINE f == [r \in Solo' |-> refunds'[r].amount]
    <2>1. SoloTotal' = SumFunction(f)
      BY DEF SoloTotal
    <2>2. f \in [{} -> Int]
      BY <1>5
    <2> HIDE DEF f
    <2> QED BY <2>1, <2>2, SumOnDomain, SumOfNone
  <1>7. order'.total \in Nat
    BY <1>1, OrderSums DEF SaleBooksInv
  <1>8. SlicesMade'
    BY <1>5, <1>6, <1>7 DEF SlicesMade
  <1>9. DocsMade' /\ Documents("invoice")' = Documents("invoice")
    BY <1>1, DocsSame DEF SaleBooksInv
  <1>a. TasksMade'
    BY <1>1, <1>9, TasksSame DEF SaleBooksInv
  <1> QED BY <1>2, <1>4, <1>8, <1>9, <1>a DEF SaleBooksInv

LEMMA AddRefundKeeps ==
    ASSUME SaleBooksInv, NEW amount \in Int, NEW goods \in Nat, AddRefund(amount, goods)
    PROVE  SaleBooksInv'
  <1>1. /\ sale # <<>> /\ amount \in Nat \ {0}
        /\ refunds' = Append(refunds, [amount |-> amount, goods |-> goods, debits |-> <<>>,
                                       state |-> "moved", alone |-> FALSE])
        /\ order' = order /\ sale' = sale /\ docs' = docs /\ task' = task
    BY DEF AddRefund
  <1>2. sale = SaleCredits /\ OrderMade /\ RefundsMade /\ SlicesMade
    BY <1>1 DEF SaleBooksInv
  <1>3. OrderMade' /\ sale' \in {<<>>, SaleCredits'}
    BY <1>1, <1>2, OrderSame
  <1>4. RefundsMade' /\ SlicesMade'
    BY <1>1, <1>2, RefundAppended
  <1>5. DocsMade' /\ Documents("invoice")' = Documents("invoice")
    BY <1>1, DocsSame DEF SaleBooksInv
  <1>6. TasksMade'
    BY <1>1, <1>5, TasksSame DEF SaleBooksInv
  <1> QED BY <1>3, <1>4, <1>5, <1>6 DEF SaleBooksInv

LEMMA RefundTurnKeeps ==
    ASSUME SaleBooksInv, NEW r \in DOMAIN refunds, RefundFind(r) \/ RefundPost(r) \/ RefundCount(r)
    PROVE  SaleBooksInv'
  <1>1. /\ UNCHANGED <<order, sale, returned, docs, task, stops, uneven>>
        /\ IsSeq(refunds') /\ RefundTurn(r) /\ RefundsMade /\ OrderMade /\ SlicesMade
    BY RefundTurns DEF SaleBooksInv
  <1>2. sale = SaleCredits /\ sale # <<>>
    BY <1>1, EmptySeqParts DEF SaleBooksInv, RefundsMade
  <1>3. OrderMade' /\ sale' \in {<<>>, SaleCredits'}
    BY <1>1, <1>2, OrderSame
  <1>4. RefundsMade'
    BY <1>1, TurnedMade
  <1>5. SlicesMade'
    <2>1. ASSUME NEW debits, NEW state, NEW alone, Turned(r, debits, state, alone),
                 SoloTotal' <= order.total, debits = refunds[r].debits
          PROVE  SlicesMade'
      <3>1. Reversals' = Reversals /\ \A q \in Reversals : /\ refunds'[q].amount = refunds[q].amount
                                                           /\ refunds'[q].debits = refunds[q].debits
        BY <2>1 DEF Reversals, Turned
      <3> QED BY <1>1, <2>1, <3>1, SlicesKept
    <2>2. SoloTotal <= order.total
      BY <1>1, <1>2 DEF SlicesMade
    <2>3. ASSUME NEW debits, NEW state, Turned(r, debits, state, refunds[r].alone) PROVE SoloTotal' <= order.total
      <3>1. Solo' = Solo /\ \A q \in Solo : refunds'[q].amount = refunds[q].amount
        BY <2>3 DEF Solo, Turned
      <3> QED BY <2>2, <3>1, SoloKept
    <2>4. refunds[r].state = "moved" => refunds[r].debits = <<>> /\ refunds[r].alone = FALSE
      BY <1>1 DEF RefundsMade, RefundMade
    <2>5. CASE refunds[r].state = "moved" /\ Turned(r, <<>>, "refused", FALSE)
      BY <2>1, <2>3, <2>4, <2>5
    <2>6. CASE /\ refunds[r].state = "moved" /\ ~ (refunds[r].amount > order.total - ReversedPaise)
               /\ Turned(r, <<>>, "checked", UnderWay = {})
      <3>1. SoloTotal' <= order.total
        BY <1>1, <2>2, <2>6, SoloGrown
      <3> QED BY <2>1, <2>4, <2>6, <3>1
    <2>7. CASE /\ refunds[r].state = "checked"
               /\ Turned(r, AllocatePaise(refunds[r].amount, sale), "posted", refunds[r].alone)
      BY <1>1, <1>2, <2>7, SliceAdded
    <2>8. CASE refunds[r].state = "posted" /\ Turned(r, refunds[r].debits, "counted", refunds[r].alone)
      BY <2>1, <2>3, <2>8
    <2> QED BY <1>1, <2>5, <2>6, <2>7, <2>8 DEF RefundTurn
  <1>6. DocsMade' /\ Documents("invoice")' = Documents("invoice")
    BY <1>1, DocsSame DEF SaleBooksInv
  <1>7. TasksMade'
    BY <1>1, <1>6, TasksSame DEF SaleBooksInv
  <1> QED BY <1>3, <1>4, <1>5, <1>6, <1>7 DEF SaleBooksInv

LEMMA RefundReturnKeeps ==
    ASSUME SaleBooksInv, RefundReturn
    PROVE  SaleBooksInv'
  <1>1. PICK units, unit, policy, full, goods, fee :
          /\ units \in [Lines -> 0 .. MaxQty]
          /\ \A i \in Lines : unit[i] \in UnitRefunds(i)
          /\ goods = SumFunction([i \in Lines |-> unit[i] * units[i]])
          /\ fee = IF policy = "always" \/ (policy = "full_order_return_only" /\ full)
                   THEN order.fee ELSE 0
          /\ AddRefund(goods + fee, goods)
    BY DEF RefundReturn
  <1>2. OrderMade /\ order.fee \in Nat
    BY DEF SaleBooksInv, OrderMade
  <1>3. goods \in Nat
    <2> DEFINE f == [i \in Lines |-> unit[i] * units[i]]
    <2>1. \A i \in Lines : unit[i] \in Nat /\ units[i] \in Nat
      BY <1>1, <1>2, UnitRefundsNat
    <2>2. \A i \in Lines : f[i] \in Nat
      BY <2>1, ProductNat
    <2>3. f \in [Lines -> Nat]
      BY <2>2
    <2>4. goods = SumFunction(f) /\ IsFiniteSet(Lines)
      BY <1>1, <1>2, OrderSums
    <2> HIDE DEF f
    <2>5. SumFunctionOnSet(f, Lines) \in Nat
      BY <2>2, <2>4, SumNat
    <2>6. SumFunction(f) = SumFunctionOnSet(f, Lines)
      BY <2>3, SumOnDomain
    <2> QED BY <2>4, <2>5, <2>6
  <1>4. goods + fee \in Int
    BY <1>1, <1>2, <1>3
  <1> QED BY <1>1, <1>3, <1>4, AddRefundKeeps

LEMMA RefundAmountKeeps ==
    ASSUME SaleBooksInv, RefundAmount
    PROVE  SaleBooksInv'
  <1>1. PICK left, amount :
          /\ amount \in Amounts \cup {left}
          /\ left = order.total - SumFunction([r \in DOMAIN refunds |-> refunds[r].amount])
          /\ AddRefund(amount, 0)
    BY DEF RefundAmount
  <1>2. order.total \in Nat
    BY OrderSums DEF SaleBooksInv
  <1>3. SumFunction([r \in DOMAIN refunds |-> refunds[r].amount]) \in Int
    <2> DEFINE f == [r \in DOMAIN refunds |-> refunds[r].amount]
    <2>1. IsFiniteSet(DOMAIN refunds)
      BY SeqParts DEF SaleBooksInv, RefundsMade
    <2>2. f \in [DOMAIN refunds -> Int]
      BY DEF SaleBooksInv, RefundsMade, RefundMade
    <2> HIDE DEF f
    <2>3. \A r \in DOMAIN refunds : f[r] \in Int
      BY <2>2
    <2>4. SumFunction(f) \in Int
      BY <2>1, <2>2, <2>3, SumOnDomain, SumInt
    <2> QED BY <2>4 DEF f
  <1>4. amount \in Int
    BY <1>1, <1>2, <1>3, SaleBooksAssumption DEF SaleBooksAssumption
  <1> QED BY <1>1, <1>4, AddRefundKeeps

-----------------------------------------------------------------------------
(* Tax documents. *)

\* Documents are only ever added.
LEMMA DocsGrown ==
    ASSUME OrderMade, DocsMade, order' = order, NEW doc, docs' = Append(docs, doc),
           \/ InvoiceMade(doc)
           \/ NoteMade(doc)
    PROVE  /\ DocsMade'
           /\ \A d \in Documents("invoice") : d \in Documents("invoice")' /\ docs'[d] = docs[d]
  <1>1. PICK n \in Nat : n = Len(docs) /\ DOMAIN docs = 1 .. n
    BY SeqParts DEF DocsMade
  <1>2. /\ IsSeq(docs') /\ DOMAIN docs' = 1 .. n + 1 /\ docs'[n + 1] = doc
        /\ \A d \in 1 .. n : docs'[d] = docs[d]
    BY <1>1, AppendParts DEF DocsMade
  <1>3. \A d \in Documents("invoice") : d \in Documents("invoice")' /\ docs'[d] = docs[d]
    BY <1>1, <1>2 DEF Documents
  <1>4. \A e : InvoiceMade(e)' <=> InvoiceMade(e)
    BY OrderSame, Zenon DEF InvoiceMade
  <1>5. ASSUME NEW e, NoteMade(e) PROVE NoteMade(e)'
    <2>1. e.of \in Documents("invoice")' /\ docs'[e.of] = docs[e.of]
      BY <1>3, <1>5 DEF NoteMade
    <2> QED BY <1>5, <2>1 DEF NoteMade
  <1>6. ASSUME NEW d \in DOMAIN docs' PROVE InvoiceMade(docs[d])' \/ NoteMade(docs[d])'
    <2>1. PICK e : e = docs'[d]
      OBVIOUS
    <2>2. InvoiceMade(e)' \/ NoteMade(e)'
      <3>1. CASE d \in 1 .. n
        <4>1. InvoiceMade(docs[d]) \/ NoteMade(docs[d])
          BY <1>1, <3>1 DEF DocsMade
        <4>2. e = docs[d]
          BY <1>2, <2>1, <3>1
        <4>3. InvoiceMade(e) \/ NoteMade(e)
          BY <4>1, <4>2
        <4> QED BY <1>4, <1>5, <4>3, Zenon
      <3>2. CASE d = n + 1
        BY <1>2, <1>4, <1>5, <2>1, <3>2
      <3> QED BY <1>2, <3>1, <3>2
    <2> QED BY <2>1, <2>2 DEF InvoiceMade, NoteMade
  <1> QED BY <1>2, <1>3, <1>6 DEF DocsMade

\* A request goes on with what is left of its work.
LEMMA ContinueKeeps ==
    ASSUME TasksMade, NEW p \in Writers, NEW todo, Continue(p, todo),
           task[p].does # "none",
           \A d \in Documents("invoice") : d \in Documents("invoice")',
           todo = <<>> \/ (task[p].todo # <<>> /\ todo = Tail(task[p].todo))
    PROVE  TasksMade'
  <1>1. DOMAIN task' = Writers /\ \A q \in Writers : q # p => task'[q] = task[q]
    BY DEF Continue, TasksMade
  <1>2. \A due : DueMade(due) => DueMade(due)'
    BY DEF DueMade
  <1>3. ASSUME NEW t, TaskMade(t) PROVE TaskMade(t)'
    BY <1>2, <1>3 DEF TaskMade
  <1>4. PICK t : t = task[p] /\ TaskMade(t)
    BY DEF TasksMade
  <1>5. task'[p] = IF todo = <<>> THEN NoTask ELSE [t EXCEPT !.todo = todo]
    BY <1>4 DEF Continue, TasksMade
  <1>6. ASSUME NEW u, u = task'[p] PROVE TaskMade(u)'
    <2>1. CASE todo = <<>>
      BY <1>5, <1>6, <2>1 DEF TaskMade, NoTask
    <2>2. CASE todo # <<>>
      <3>1. task'[p] = [does |-> t.does, refund |-> t.refund, table |-> t.table, todo |-> todo]
        BY <1>4, <1>5, <2>2 DEF TaskMade
      <3>2. IsSeq(t.todo) /\ t.todo # <<>> /\ todo = Tail(t.todo)
        BY <1>4, <2>2 DEF TaskMade
      <3>3. IsSeq(todo)
        BY <3>2, TailParts
      <3>4. ASSUME t.does = "note", NEW k \in DOMAIN todo PROVE DueMade(todo[k])'
        <4>1. PICK n \in Nat : n = Len(t.todo) /\ DOMAIN t.todo = 1 .. n /\ DOMAIN todo = 1 .. n - 1
          BY <3>2, TailParts, SeqParts
        <4>2. k \in 1 .. n - 1 /\ todo[k] = t.todo[k + 1]
          BY <3>2, <4>1, TailParts
        <4>3. k + 1 \in DOMAIN t.todo
          BY <4>1, <4>2
        <4> QED BY <1>2, <1>4, <3>4, <4>2, <4>3 DEF TaskMade
      <3>5. t.does \in {"none", "invoice", "note"} /\ (t.does = "invoice" => t.table \in Tables)
        BY <1>4 DEF TaskMade
      <3>7. /\ u = [does |-> u.does, refund |-> u.refund, table |-> u.table, todo |-> u.todo]
            /\ u.does = t.does /\ u.table = t.table /\ u.todo = todo
        BY <1>6, <3>1
      <3> QED BY <2>2, <3>3, <3>4, <3>5, <3>7 DEF TaskMade
    <2> QED BY <2>1, <2>2
  <1>7. ASSUME NEW q \in Writers PROVE TaskMade(task[q])'
    <2>1. PICK u : u = task'[q]
      OBVIOUS
    <2>2. TaskMade(u)'
      <3>1. CASE q = p
        BY <1>6, <2>1, <3>1
      <3>2. CASE q # p
        <4>1. TaskMade(task[q]) /\ u = task[q]
          BY <1>1, <2>1, <3>2 DEF TasksMade
        <4> QED BY <1>3, <4>1
      <3> QED BY <3>1, <3>2
    <2> QED BY <2>1, <2>2 DEF TaskMade
  <1> QED BY <1>1, <1>7 DEF TasksMade

\* A request begins.
LEMMA BeginKeeps ==
    ASSUME TasksMade, docs' = docs, NEW p \in Writers, NEW t, TaskMade(t),
           task' = [task EXCEPT ![p] = t]
    PROVE  TasksMade'
  <1>1. \A due : DueMade(due)' <=> DueMade(due)
    BY DEF DueMade, Documents
  <1>2. \A u : TaskMade(u)' <=> TaskMade(u)
    BY <1>1, Zenon DEF TaskMade
  <1>3. DOMAIN task' = Writers
    BY DEF TasksMade
  <1>4. ASSUME NEW q \in Writers PROVE TaskMade(task[q])'
    <2>1. PICK u : u = task'[q]
      OBVIOUS
    <2>2. TaskMade(u)
      BY <2>1 DEF TasksMade
    <2> QED BY <1>2, <2>1, <2>2 DEF TaskMade
  <1> QED BY <1>3, <1>4 DEF TasksMade

LEMMA RoundOffNat == ASSUME NEW total \in Nat PROVE total + RoundOff(total) \in Nat
  <1>1. PICK over : over = total % 100
    OBVIOUS
  <1>2. over \in Nat /\ over <= total /\ over < 100
    BY <1>1
  <1>3. RoundOff(total) = IF over < 50 THEN -over ELSE 100 - over
    BY <1>1 DEF RoundOff
  <1> QED BY <1>2, <1>3

\* The lines of an invoice and their sums.
LEMMA InvoiceTotals ==
    ASSUME OrderMade, NEW seller, NEW table \in Tables
    PROVE  LET lines == InvoiceLines(seller, table)
           IN  /\ IsSeq(lines) /\ Len(lines) \in Nat /\ DOMAIN lines = 1 .. Len(lines)
               /\ IsFiniteSet(DOMAIN lines)
               /\ \A k \in DOMAIN lines : LineMade(lines[k]) /\ lines[k].total \in Nat
               /\ LinesTotal(lines) \in Nat
               /\ LinesTotal(lines) = SumFunctionOnSet([k \in DOMAIN lines |-> lines[k].total], DOMAIN lines)
  <1>1. PICK lines : lines = InvoiceLines(seller, table)
    OBVIOUS
  <1>2. IsSeq(lines) /\ \A k \in 1 .. Len(lines) : LineMade(lines[k])
    BY <1>1, InvoiceLinesParts
  <1>3. Len(lines) \in Nat /\ DOMAIN lines = 1 .. Len(lines) /\ IsFiniteSet(DOMAIN lines)
    BY <1>2, SeqParts
  <1>4. \A k \in DOMAIN lines : LineMade(lines[k]) /\ lines[k].total \in Nat
    BY <1>2, <1>3, LineParts
  <1>5. /\ LinesTotal(lines) \in Nat
        /\ LinesTotal(lines) = SumFunctionOnSet([k \in DOMAIN lines |-> lines[k].total], DOMAIN lines)
    <2> DEFINE f == [k \in DOMAIN lines |-> lines[k].total]
    <2>1. f \in [DOMAIN lines -> Nat] /\ \A k \in DOMAIN lines : f[k] \in Nat
      BY <1>4
    <2>2. LinesTotal(lines) = SumFunction(f)
      BY DEF LinesTotal
    <2> HIDE DEF f
    <2>3. SumFunction(f) = SumFunctionOnSet(f, DOMAIN lines)
      BY <2>1, SumOnDomain
    <2>4. SumFunctionOnSet(f, DOMAIN lines) \in Nat
      BY <1>3, <2>1, SumNat
    <2> QED BY <2>2, <2>3, <2>4 DEF f
  <1> QED BY <1>1, <1>2, <1>3, <1>4, <1>5

LEMMA InvoiceParts ==
    ASSUME OrderMade, DocsMade
    PROVE  /\ Documents("invoice") \in SUBSET Nat /\ IsFiniteSet(Documents("invoice"))
           /\ Documents("note") \in SUBSET Nat /\ IsFiniteSet(Documents("note"))
           /\ \A d \in Documents("invoice") : InvoiceMade(docs[d]) /\ docs[d].total \in Nat
           /\ \A d \in Documents("note") : NoteMade(docs[d])
  <1>1. DOMAIN docs \in SUBSET Nat /\ IsFiniteSet(DOMAIN docs)
    <2>1. Len(docs) \in Nat /\ DOMAIN docs = 1 .. Len(docs) /\ IsFiniteSet(DOMAIN docs)
      BY SeqParts DEF DocsMade
    <2> QED BY <2>1
  <1>2. Documents("invoice") \in SUBSET DOMAIN docs /\ Documents("note") \in SUBSET DOMAIN docs
    BY DEF Documents
  <1>3. IsFiniteSet(Documents("invoice")) /\ IsFiniteSet(Documents("note"))
    BY <1>1, <1>2, FS_Subset
  <1>4. \A d \in Documents("invoice") : InvoiceMade(docs[d])
    BY DEF DocsMade, Documents, InvoiceMade, NoteMade
  <1>5. \A d \in Documents("note") : NoteMade(docs[d])
    BY DEF DocsMade, Documents, InvoiceMade, NoteMade
  <1>6. ASSUME NEW d \in Documents("invoice") PROVE docs[d].total \in Nat
    <2>1. PICK seller : seller = docs[d].seller
      OBVIOUS
    <2>2. PICK table \in Tables : docs[d].lines = InvoiceLines(seller, table)
      BY <1>4, <2>1 DEF InvoiceMade
    <2>3. PICK total : total = LinesTotal(docs[d].lines) /\ docs[d].total = total + RoundOff(total)
      BY <1>4 DEF InvoiceMade
    <2> QED BY <2>2, <2>3, InvoiceTotals, RoundOffNat
  <1> QED BY <1>1, <1>2, <1>3, <1>4, <1>5, <1>6

\* What CreditFind divides a refund into.
Split(amount, invoices) ==
    AllocatePaise(amount, [k \in DOMAIN invoices |-> docs[invoices[k]].total])
Due(amount, invoices) ==
    LET parts == Split(amount, invoices)
    IN  ByInvoice({share \in {[of |-> invoices[k], amount |-> parts[k]] : k \in DOMAIN invoices} :
                      share.amount > 0})

\* The parts of the refund that are worth a note, in the order of their invoices.
DueOf(due, amount, n, invoices, parts, S) ==
    /\ DOMAIN invoices = 1 .. n /\ invoices \in [1 .. n -> Documents("invoice")]
    /\ \A j, k \in 1 .. n : invoices[j] = invoices[k] => j = k
    /\ parts \in [1 .. n -> Nat] /\ SumFunction(parts) = amount
    /\ amount <= SumFunction([k \in DOMAIN invoices |-> docs[invoices[k]].total])
         => \A k \in 1 .. n : parts[k] <= docs[invoices[k]].total
    /\ IsFiniteSet(S)
    /\ \A x \in S : \E k \in 1 .. n : x = [of |-> invoices[k], amount |-> parts[k]] /\ parts[k] > 0
    /\ \A k \in 1 .. n : parts[k] > 0 => [of |-> invoices[k], amount |-> parts[k]] \in S
    /\ due \in Bijection(1 .. Cardinality(S), S) /\ due \in [1 .. Cardinality(S) -> S]
    /\ IsSeq(due) /\ Len(due) = Cardinality(S) /\ Cardinality(S) \in Nat

LEMMA DueListed ==
    ASSUME OrderMade, DocsMade, NEW amount \in Nat, NEW invoices, invoices = InOrder(Documents("invoice")),
           invoices # <<>>
    PROVE  \E n \in Nat \ {0} : \E parts, S : DueOf(Due(amount, invoices), amount, n, invoices, parts, S)
  <1>0. PICK due, parts : due = Due(amount, invoices) /\ parts = Split(amount, invoices)
    OBVIOUS
  <1>1. PICK n \in Nat \ {0} : /\ DOMAIN invoices = 1 .. n
                               /\ invoices \in Bijection(1 .. n, Documents("invoice"))
                               /\ invoices \in [1 .. n -> Documents("invoice")]
    <2>1. /\ IsSeq(invoices) /\ Len(invoices) = Cardinality(Documents("invoice"))
          /\ invoices \in Bijection(1 .. Len(invoices), Documents("invoice"))
          /\ invoices \in [1 .. Len(invoices) -> Documents("invoice")]
      BY InvoiceParts, InOrderParts
    <2>2. Len(invoices) \in Nat /\ Len(invoices) > 0 /\ DOMAIN invoices = 1 .. Len(invoices)
      BY <2>1, SeqParts
    <2> QED BY <2>1, <2>2
  <1>2. /\ parts \in [1 .. n -> Nat] /\ SumFunction(parts) = amount
        /\ amount <= SumFunction([k \in DOMAIN invoices |-> docs[invoices[k]].total])
             => \A k \in 1 .. n : parts[k] <= docs[invoices[k]].total
    <2> DEFINE w == [k \in DOMAIN invoices |-> docs[invoices[k]].total]
    <2>1. w \in [1 .. n -> Nat]
      BY <1>1, InvoiceParts
    <2>2. parts = AllocatePaise(amount, w) /\ \A k \in 1 .. n : w[k] = docs[invoices[k]].total
      BY <1>0, <1>1 DEF Split
    <2>3. SUFFICES /\ parts \in [1 .. n -> Nat] /\ SumFunction(parts) = amount
                   /\ amount <= SumFunction(w) => \A k \in 1 .. n : parts[k] <= w[k]
      BY <2>2
    <2> HIDE DEF w
    <2>4. /\ AllocatePaise(amount, w) \in [1 .. n -> Nat]
          /\ FairlySplit(amount, w, AllocatePaise(amount, w))
          /\ amount <= SumFunction(w) => \A k \in 1 .. n : AllocatePaise(amount, w)[k] <= w[k]
      BY <2>1, AllocateWithin
    <2>5. FairlySplit(amount, w, parts) => SumFunction(parts) = amount
      BY Zenon DEF FairlySplit
    <2> QED BY <2>2, <2>4, <2>5
  <1>3. \A j, k \in 1 .. n : invoices[j] = invoices[k] => j = k
    BY <1>1, Zenon DEF Bijection, Injection, IsInjective
  <1> DEFINE f == [k \in 1 .. n |-> [of |-> invoices[k], amount |-> parts[k]]]
             shares == {f[k] : k \in 1 .. n}
  <1>4. PICK S : S = {share \in shares : share.amount > 0}
    OBVIOUS
  <1>5. due = ByInvoice(S)
    <2>1. {[of |-> invoices[k], amount |-> parts[k]] : k \in DOMAIN invoices} = shares
      BY <1>1
    <2> QED BY <1>0, <1>4, <2>1, Zenon DEF Due
  <1>6. IsFiniteSet(S)
    <2>1. IsFiniteSet(1 .. n)
      BY FS_Interval
    <2>2. IsFiniteSet(shares)
      <3>1. f \in Surjection(1 .. n, shares)
        BY DEF Surjection
      <3> HIDE DEF f, shares
      <3> QED BY <2>1, <3>1, FS_Surjection
    <2>3. S \subseteq shares
      BY <1>4
    <2> HIDE DEF shares
    <2> QED BY <2>2, <2>3, FS_Subset
  <1>7. ASSUME NEW x \in S
        PROVE  \E k \in 1 .. n : x = [of |-> invoices[k], amount |-> parts[k]] /\ parts[k] > 0
    <2>1. x \in shares /\ x.amount > 0
      BY <1>4
    <2>2. PICK k \in 1 .. n : x = f[k]
      <3> HIDE DEF f
      <3> QED BY <2>1
    <2>3. x = [of |-> invoices[k], amount |-> parts[k]]
      BY <2>2
    <2> QED BY <2>1, <2>3
  <1>8. \A x \in S : x.of \in Nat
    BY <1>1, <1>7, InvoiceParts
  <1>9. ASSUME NEW x \in S, NEW y \in S, x.of = y.of PROVE x = y
    <2>1. PICK j \in 1 .. n : x = [of |-> invoices[j], amount |-> parts[j]]
      BY <1>7
    <2>2. PICK k \in 1 .. n : y = [of |-> invoices[k], amount |-> parts[k]]
      BY <1>7
    <2>3. j = k
      BY <1>3, <1>9, <2>1, <2>2
    <2> QED BY <2>1, <2>2, <2>3
  <1>a. /\ due \in Bijection(1 .. Cardinality(S), S) /\ due \in [1 .. Cardinality(S) -> S]
        /\ IsSeq(due) /\ Len(due) = Cardinality(S) /\ Cardinality(S) \in Nat
    BY <1>5, <1>6, <1>8, <1>9, ByInvoiceParts
  <1>b. ASSUME NEW k \in 1 .. n, parts[k] > 0 PROVE [of |-> invoices[k], amount |-> parts[k]] \in S
    <2>1. PICK x : x = [of |-> invoices[k], amount |-> parts[k]]
      OBVIOUS
    <2>3. x = f[k] /\ x.amount = parts[k]
      BY <2>1
    <2>4. x.amount > 0
      BY <1>b, <2>3
    <2>2. x \in shares
      <3> HIDE DEF f
      <3> QED BY <2>3
    <2> QED BY <1>4, <2>1, <2>2, <2>4
  <1>c. DueOf(due, amount, n, invoices, parts, S)
    <2> HIDE DEF f, shares
    <2> QED BY <1>1, <1>2, <1>3, <1>6, <1>7, <1>a, <1>b, Zenon DEF DueOf
  <1> QED BY <1>0, <1>c

LEMMA DueParts ==
    ASSUME OrderMade, DocsMade, NEW amount \in Nat, NEW invoices, invoices = InOrder(Documents("invoice")),
           invoices # <<>>
    PROVE  IsSeq(Due(amount, invoices)) /\ \A k \in DOMAIN Due(amount, invoices) : DueMade(Due(amount, invoices)[k])
  <1>0. PICK due : due = Due(amount, invoices)
    OBVIOUS
  <1>1. PICK n, parts, S : n \in Nat \ {0} /\ DueOf(due, amount, n, invoices, parts, S)
    BY <1>0, DueListed
  <1>2. \A x \in S : DueMade(x)
    BY <1>1 DEF DueMade, DueOf
  <1> QED BY <1>0, <1>1, <1>2 DEF DueOf

LEMMA IssueFindKeeps ==
    ASSUME SaleBooksInv, NEW p \in Writers, IssueFind(p)
    PROVE  SaleBooksInv'
  <1>1. PICK t : /\ \E table \in Tables :
                       t = [does |-> "invoice", refund |-> 0, table |-> table, todo |-> Sellers]
                 /\ task' = [task EXCEPT ![p] = t] /\ docs' = docs /\ UNCHANGED Figures
    BY DEF IssueFind
  <1>2. IsSeq(Sellers) /\ Sellers # <<>>
    <2>1. IsSeq(Sellers) /\ Len(Sellers) \in Nat \ {0}
      BY SellersParts DEF SaleBooksInv
    <2> QED BY <2>1, EmptySeqParts
  <1>3. TaskMade(t)
    BY <1>1, <1>2 DEF TaskMade
  <1>4. TasksMade'
    BY <1>1, <1>3, BeginKeeps DEF SaleBooksInv
  <1>5. DocsMade'
    BY <1>1, DocsSame DEF SaleBooksInv, Figures
  <1>6. OrderMade' /\ sale' \in {<<>>, SaleCredits'} /\ RefundsMade' /\ SlicesMade'
    BY <1>1, FiguresSame
  <1> QED BY <1>4, <1>5, <1>6 DEF SaleBooksInv

LEMMA CreditFindKeeps ==
    ASSUME SaleBooksInv, NEW p \in Writers, CreditFind(p)
    PROVE  SaleBooksInv'
  <1> DEFINE listed == InOrder(Documents("invoice"))
             split(r) == AllocatePaise(refunds[r].amount, [k \in DOMAIN listed |-> docs[listed[k]].total])
             owed(r) == ByInvoice({share \in {[of |-> listed[k], amount |-> split(r)[k]] : k \in DOMAIN listed} :
                                       share.amount > 0})
  <1>1. PICK r \in DOMAIN refunds :
          /\ listed # <<>> /\ owed(r) # <<>>
          /\ task' = [task EXCEPT ![p] = [does |-> "note", refund |-> r, table |-> <<>>, todo |-> owed(r)]]
          /\ docs' = docs /\ UNCHANGED Figures
    BY Zenon DEF CreditFind
  <1>2. PICK amount \in Nat : amount = refunds[r].amount
    BY DEF SaleBooksInv, RefundsMade, RefundMade
  <1>3. PICK due, t : /\ due = owed(r) /\ t = [does |-> "note", refund |-> r, table |-> <<>>, todo |-> due]
                      /\ IsSeq(due) /\ \A k \in DOMAIN due : DueMade(due[k])
    <2>1. OrderMade /\ DocsMade
      BY DEF SaleBooksInv
    <2>2. PICK invoices : invoices = listed
      OBVIOUS
    <2>4. PICK due : due = owed(r)
      OBVIOUS
    <2>5. due = Due(amount, invoices)
      BY <1>2, <2>2, <2>4, Zenon DEF Due, Split
    <2>7. invoices = InOrder(Documents("invoice")) /\ invoices # <<>>
      BY <1>1, <2>2, Zenon
    <2>8. IsSeq(due) /\ \A k \in DOMAIN due : DueMade(due[k])
      <3> HIDE DEF listed, split, owed
      <3> QED BY <2>1, <2>5, <2>7, DueParts
    <2> QED BY <2>4, <2>8, Zenon
  <1> HIDE DEF listed, split, owed
  <1>4. TaskMade(t)
    BY <1>1, <1>3 DEF TaskMade
  <1>5. TasksMade'
    BY <1>1, <1>3, <1>4, BeginKeeps DEF SaleBooksInv
  <1>6. DocsMade'
    BY <1>1, DocsSame DEF SaleBooksInv, Figures
  <1>7. OrderMade' /\ sale' \in {<<>>, SaleCredits'} /\ RefundsMade' /\ SlicesMade'
    BY <1>1, FiguresSame
  <1> QED BY <1>5, <1>6, <1>7 DEF SaleBooksInv

LEMMA StopKeeps ==
    ASSUME SaleBooksInv, NEW p \in Writers, Stop(p)
    PROVE  SaleBooksInv'
  <1>1. task' = [task EXCEPT ![p] = NoTask] /\ docs' = docs /\ UNCHANGED Figures
    BY DEF Stop
  <1>2. TaskMade(NoTask)
    BY DEF TaskMade, NoTask
  <1>3. TasksMade'
    BY <1>1, <1>2, BeginKeeps DEF SaleBooksInv
  <1>4. DocsMade'
    BY <1>1, DocsSame DEF SaleBooksInv, Figures
  <1>5. OrderMade' /\ sale' \in {<<>>, SaleCredits'} /\ RefundsMade' /\ SlicesMade'
    BY <1>1, FiguresSame
  <1> QED BY <1>3, <1>4, <1>5 DEF SaleBooksInv

\* A request that writes, or gives up.
LEMMA WriteKeeps ==
    ASSUME SaleBooksInv, NEW p \in Writers, task[p].does # "none", NEW todo, Continue(p, todo),
           todo = <<>> \/ (task[p].todo # <<>> /\ todo = Tail(task[p].todo)),
           UNCHANGED Figures,
           \/ docs' = docs
           \/ \E doc : (InvoiceMade(doc) \/ NoteMade(doc)) /\ docs' = Append(docs, doc)
    PROVE  SaleBooksInv'
  <1>1. order' = order
    BY DEF Figures
  <1>2. DocsMade' /\ \A d \in Documents("invoice") : d \in Documents("invoice")'
    <2>1. CASE docs' = docs
      BY <1>1, <2>1, DocsSame DEF SaleBooksInv
    <2>2. CASE docs' # docs
      <3>1. PICK doc : (InvoiceMade(doc) \/ NoteMade(doc)) /\ docs' = Append(docs, doc)
        BY <2>2
      <3> QED BY <1>1, <3>1, DocsGrown DEF SaleBooksInv
    <2> QED BY <2>1, <2>2
  <1>3. TasksMade'
    BY <1>2, ContinueKeeps DEF SaleBooksInv
  <1>4. OrderMade' /\ sale' \in {<<>>, SaleCredits'} /\ RefundsMade' /\ SlicesMade'
    BY FiguresSame
  <1> QED BY <1>2, <1>3, <1>4 DEF SaleBooksInv

LEMMA IssueOneKeeps ==
    ASSUME SaleBooksInv, NEW p \in Writers, IssueOne(p)
    PROVE  SaleBooksInv'
  <1>1. PICK todo : todo = task[p].todo /\ todo # <<>>
    BY DEF IssueOne, SaleBooksInv, TasksMade, TaskMade
  <1>2. PICK seller, lines, total :
          /\ seller = Head(todo) /\ lines = InvoiceLines(seller, task[p].table) /\ total = LinesTotal(lines)
          /\ \/ Continue(p, <<>>) /\ docs' = docs
             \/ /\ docs' = Append(docs, [kind |-> "invoice", seller |-> seller, refund |-> 0,
                                         of |-> 0, amount |-> total, lines |-> lines,
                                         total |-> total + RoundOff(total)])
                /\ Continue(p, Tail(todo))
    BY <1>1 DEF IssueOne
  <1>3. UNCHANGED Figures /\ task[p].does # "none"
    BY DEF IssueOne
  <1>4. PICK doc : doc = [kind |-> "invoice", seller |-> seller, refund |-> 0, of |-> 0,
                          amount |-> total, lines |-> lines, total |-> total + RoundOff(total)]
    OBVIOUS
  <1>5. InvoiceMade(doc)
    <2>1. task[p].table \in Tables
      BY DEF IssueOne, SaleBooksInv, TasksMade, TaskMade
    <2> QED BY <1>2, <1>4, <2>1 DEF InvoiceMade
  <1>6. CASE Continue(p, <<>>) /\ docs' = docs
    BY <1>3, <1>6, WriteKeeps
  <1>7. CASE Continue(p, Tail(todo)) /\ docs' = Append(docs, doc)
    BY <1>1, <1>3, <1>5, <1>7, WriteKeeps
  <1> QED BY <1>2, <1>4, <1>6, <1>7

LEMMA CreditOneKeeps ==
    ASSUME SaleBooksInv, NEW p \in Writers, CreditOne(p)
    PROVE  SaleBooksInv'
  <1>1. PICK todo : todo = task[p].todo /\ todo # <<>> /\ IsSeq(todo)
                    /\ \A k \in DOMAIN todo : DueMade(todo[k])
    BY DEF CreditOne, SaleBooksInv, TasksMade, TaskMade
  <1>2. PICK due, lines, shares, credited :
          /\ due = Head(todo) /\ lines = docs[due.of].lines
          /\ shares = AllocatePaise(due.amount, [k \in DOMAIN lines |-> lines[k].total])
          /\ credited = [k \in DOMAIN lines |-> NoteLine(lines[k], shares[k])]
          /\ \/ Continue(p, <<>>) /\ docs' = docs
             \/ /\ ~ (due.amount > docs[due.of].total)
                /\ docs' = Append(docs, [kind |-> "note", seller |-> docs[due.of].seller,
                                         refund |-> task[p].refund, of |-> due.of,
                                         amount |-> due.amount, lines |-> credited,
                                         total |-> LinesTotal(credited)])
                /\ Continue(p, Tail(todo))
    BY <1>1 DEF CreditOne
  <1>3. UNCHANGED Figures /\ task[p].does # "none"
    BY DEF CreditOne
  <1>4. PICK doc : doc = [kind |-> "note", seller |-> docs[due.of].seller,
                          refund |-> task[p].refund, of |-> due.of, amount |-> due.amount,
                          lines |-> credited, total |-> LinesTotal(credited)]
    OBVIOUS
  <1>5. DueMade(due)
    BY <1>1, <1>2, TailParts
  <1>6. credited = NoteLines(due.amount, lines)
    BY <1>2 DEF NoteLines, NoteShares
  <1>7. docs[due.of].total \in Nat
    BY <1>5, InvoiceParts DEF DueMade, SaleBooksInv
  <1>8. CASE Continue(p, <<>>) /\ docs' = docs
    BY <1>3, <1>8, WriteKeeps
  <1>9. CASE Continue(p, Tail(todo)) /\ docs' = Append(docs, doc) /\ ~ (due.amount > docs[due.of].total)
    <2>1. NoteMade(doc)
      <3>1. /\ doc.kind = "note" /\ doc.of = due.of /\ doc.amount = due.amount
            /\ doc.lines = credited /\ doc.total = LinesTotal(credited)
        BY <1>4
      <3>2. due.amount <= docs[due.of].total
        BY <1>5, <1>7, <1>9 DEF DueMade
      <3>3. doc.lines = NoteLines(doc.amount, docs[doc.of].lines)
        BY <1>2, <1>6, <3>1, Zenon
      <3> QED BY <1>5, <3>1, <3>2, <3>3, Zenon DEF NoteMade, DueMade
    <2> QED BY <1>1, <1>3, <1>9, <2>1, WriteKeeps
  <1> QED BY <1>2, <1>4, <1>8, <1>9

LEMMA SaleStep ==
    ASSUME SaleBooksInv, SaleNext \/ UNCHANGED saleVars
    PROVE  SaleBooksInv'
  <1>1. CASE Confirm
    BY <1>1, ConfirmKeeps
  <1>2. CASE RefundReturn
    BY <1>2, RefundReturnKeeps
  <1>3. CASE RefundAmount
    BY <1>3, RefundAmountKeeps
  <1>4. ASSUME NEW p \in Writers, IssueFind(p) \/ IssueOne(p) \/ CreditFind(p) \/ CreditOne(p) \/ Stop(p)
        PROVE  SaleBooksInv'
    BY <1>4, IssueFindKeeps, IssueOneKeeps, CreditFindKeeps, CreditOneKeeps, StopKeeps
  <1>6. ASSUME NEW r \in DOMAIN refunds, RefundFind(r) \/ RefundPost(r) \/ RefundCount(r)
        PROVE  SaleBooksInv'
    BY <1>6, RefundTurnKeeps
  <1>5. CASE UNCHANGED saleVars
    <2>1. UNCHANGED Figures /\ docs' = docs /\ task' = task /\ order' = order
      BY <1>5 DEF saleVars, Figures
    <2>2. OrderMade' /\ sale' \in {<<>>, SaleCredits'} /\ RefundsMade' /\ SlicesMade'
      BY <2>1, FiguresSame
    <2>3. DocsMade' /\ Documents("invoice")' = Documents("invoice")
      BY <2>1, DocsSame DEF SaleBooksInv
    <2>4. TasksMade'
      BY <2>1, <2>3, TasksSame DEF SaleBooksInv
    <2> QED BY <2>2, <2>3, <2>4 DEF SaleBooksInv
  <1> QED BY <1>1, <1>2, <1>3, <1>4, <1>5, <1>6 DEF SaleNext

\* The order, its sale, the refunds and the documents stay what their requests make of them.
THEOREM SaleBooksInvariant == SaleSpec => []SaleBooksInv
  <1>1. SaleInit => SaleBooksInv
    BY SaleInitInv
  <1>2. SaleBooksInv /\ [SaleNext]_saleVars => SaleBooksInv'
    BY SaleStep
  <1> QED BY <1>1, <1>2, PTL DEF SaleSpec

-----------------------------------------------------------------------------
(* What the books promise. *)

\* A note takes fair shares of the lines of its invoice.
LEMMA NoteParts ==
    ASSUME OrderMade, DocsMade, NEW d \in Documents("note")
    PROVE  LET doc == docs[d]
               lines == docs[doc.of].lines
           IN  \E shares :
                 /\ doc.of \in Documents("invoice")
                 /\ \E table \in Tables : lines = InvoiceLines(docs[doc.of].seller, table)
                 /\ shares \in [DOMAIN lines -> Nat] /\ DOMAIN doc.lines = DOMAIN lines
                 /\ FairlySplit(doc.amount, [k \in DOMAIN lines |-> lines[k].total], shares)
                 /\ \A k \in DOMAIN lines : doc.lines[k] = NoteLine(lines[k], shares[k])
  <1>1. PICK doc, inv, lines, seller : /\ doc = docs[d] /\ inv = docs[doc.of] /\ lines = inv.lines
                                       /\ seller = inv.seller
    OBVIOUS
  <1>2. NoteMade(doc)
    BY <1>1, InvoiceParts
  <1>3. doc.of \in Documents("invoice") /\ InvoiceMade(inv)
    BY <1>1, <1>2, InvoiceParts DEF NoteMade
  <1>4. PICK table \in Tables :
           lines = InvoiceLines(seller, table) /\ inv.total = LinesTotal(lines) + RoundOff(LinesTotal(lines))
    BY <1>1, <1>3 DEF InvoiceMade
  <1>5. PICK n \in Nat : n = Len(lines) /\ DOMAIN lines = 1 .. n /\ \A k \in 1 .. n : lines[k].total \in Nat
    BY <1>4, InvoiceTotals
  <1>6. PICK amount \in Nat \ {0} : amount = doc.amount /\ amount <= inv.total
    BY <1>1, <1>2 DEF NoteMade
  <1>7. n > 0
    <2>1. SUFFICES ASSUME n = 0 PROVE FALSE
      OBVIOUS
    <2>2. DOMAIN lines = {}
      BY <1>5, <2>1
    <2>3. LinesTotal(lines) = 0
      <3>1. LinesTotal(lines) = SumFunctionOnSet([k \in DOMAIN lines |-> lines[k].total], {})
        BY <1>4, <2>2, InvoiceTotals
      <3> QED BY <3>1, SumOfNone
    <2>4. inv.total = 0
      BY <1>4, <2>3 DEF RoundOff
    <2> QED BY <1>6, <2>4
  <1>8. PICK w \in [1 .. n -> Nat] : w = [k \in DOMAIN lines |-> lines[k].total]
    BY <1>5
  <1>9. PICK shares \in [1 .. n -> Nat] : shares = AllocatePaise(amount, w) /\ FairlySplit(amount, w, shares)
    <2>1. n \in Nat \ {0}
      BY <1>7
    <2>2. AllocatePaise(amount, w) \in [1 .. n -> Nat] /\ FairlySplit(amount, w, AllocatePaise(amount, w))
      BY <2>1, AllocateWithin
    <2> QED BY <2>2
  <1>a. doc.lines = [k \in DOMAIN lines |-> NoteLine(lines[k], shares[k])]
    BY <1>1, <1>2, <1>6, <1>8, <1>9, Zenon DEF NoteMade, NoteLines, NoteShares
  <1>b. FairlySplit(doc.amount, [k \in DOMAIN lines |-> lines[k].total], shares)
    BY <1>6, <1>8, <1>9, Zenon
  <1>c. shares \in [DOMAIN lines -> Nat] /\ DOMAIN doc.lines = DOMAIN lines
        /\ \A k \in DOMAIN lines : doc.lines[k] = NoteLine(lines[k], shares[k])
    BY <1>5, <1>9, <1>a
  <1>d. /\ doc.of \in Documents("invoice") /\ lines = InvoiceLines(seller, table)
        /\ lines = docs[doc.of].lines /\ seller = docs[doc.of].seller
    BY <1>1, <1>3, <1>4
  <1> QED BY <1>1, <1>b, <1>c, <1>d, Zenon

LEMMA TaxableNat == \A n \in Nat, b \in Nat : Taxable(n, b) \in Nat
  BY TaxableBounds

LEMMA RateNat == \A n \in Nat, b \in Nat : b <= 10000 => ApplyBps(n, b) \in Nat
  BY RateBounds

LEMMA RatesNat == \A n \in Nat : ApplyBps(n, 1800) \in Nat /\ ApplyBps(n, 100) \in Nat
  BY RateNat

\* A line of a note is its share and the cess.
LEMMA NoteLineParts ==
    \A line : line.bps \in Nat /\ line.cessBps \in Nat => \A share \in Nat :
        LET note == NoteLine(line, share) IN
        /\ note.cess \in Nat
        /\ note.cess = Cess(Taxable(share, line.bps), line.cessBps)
        /\ note.total = share + note.cess
        /\ note.tax = share - Taxable(share, line.bps)
  <1> SUFFICES ASSUME NEW line, line.bps \in Nat, line.cessBps \in Nat, NEW share \in Nat
      PROVE  /\ NoteLine(line, share).cess \in Nat
             /\ NoteLine(line, share).cess = Cess(Taxable(share, line.bps), line.cessBps)
             /\ NoteLine(line, share).total = share + NoteLine(line, share).cess
             /\ NoteLine(line, share).tax = share - Taxable(share, line.bps)
    BY Zenon
  <1>1. PICK taxable \in Nat : taxable = Taxable(share, line.bps)
    <2>1. PICK bps \in Nat : bps = line.bps
      OBVIOUS
    <2>2. Taxable(share, bps) \in Nat
      BY TaxableNat
    <2> QED BY <2>1, <2>2
  <1>2. PICK base \in Nat : base = taxable * line.cessBps
    BY ProductNat
  <1>3. PICK cess \in Nat : cess = Cess(taxable, line.cessBps)
    BY <1>2, RoundedBounds DEF Cess
  <1>4. NoteLine(line, share) = [tax |-> share - taxable, cess |-> cess, total |-> share + cess,
                                 bps |-> line.bps, cessBps |-> line.cessBps]
    BY <1>1, <1>3 DEF NoteLine
  <1> QED BY <1>1, <1>3, <1>4

LEMMA SplitsFollow == ASSUME SaleBooksInv PROVE SplitsAreFair
  <1>1. OrderMade /\ DocsMade /\ RefundsMade
    BY DEF SaleBooksInv
  <1>2. FairlySplit(order.discount, [i \in Lines |-> Items[i].total], [i \in Lines |-> Items[i].discount])
    BY <1>1 DEF OrderMade, LineTotals, Shares
  <1>3. ASSUME NEW r \in Reversals PROVE FairlySplit(refunds[r].amount, sale, refunds[r].debits)
    <2>1. r \in DOMAIN refunds /\ RefundMade(refunds[r]) /\ refunds[r].debits # <<>>
      BY <1>1 DEF Reversals, RefundsMade
    <2>2. sale = SaleCredits
      BY <1>1, <2>1, EmptySeqParts DEF SaleBooksInv, RefundsMade
    <2>3. PICK amount \in Nat \ {0} : amount = refunds[r].amount /\ refunds[r].debits = AllocatePaise(amount, sale)
      BY <2>1, Zenon DEF RefundMade
    <2> QED BY <1>1, <2>2, <2>3, DebitsParts
  <1>4. ASSUME NEW d \in Documents("note")
        PROVE  FairlySplit(docs[d].amount, [k \in DOMAIN docs[docs[d].of].lines |-> docs[docs[d].of].lines[k].total],
                           [k \in DOMAIN docs[docs[d].of].lines |-> docs[d].lines[k].total - docs[d].lines[k].cess])
    <2>1. PICK lines : lines = docs[docs[d].of].lines
      OBVIOUS
    <2>2. PICK shares :
             /\ docs[d].of \in Documents("invoice")
             /\ \E table \in Tables : lines = InvoiceLines(docs[docs[d].of].seller, table)
             /\ shares \in [DOMAIN lines -> Nat] /\ DOMAIN docs[d].lines = DOMAIN lines
             /\ FairlySplit(docs[d].amount, [k \in DOMAIN lines |-> lines[k].total], shares)
             /\ \A k \in DOMAIN lines : docs[d].lines[k] = NoteLine(lines[k], shares[k])
      BY <1>1, <2>1, NoteParts
    <2>3. ASSUME NEW k \in DOMAIN lines PROVE docs[d].lines[k].total - docs[d].lines[k].cess = shares[k]
      <3>1. LineMade(lines[k])
        BY <1>1, <2>2, InvoiceTotals
      <3>2. PICK line, share : line = lines[k] /\ share = shares[k] /\ share \in Nat /\ docs[d].lines[k] = NoteLine(line, share)
        <4>1. shares[k] \in Nat /\ docs[d].lines[k] = NoteLine(lines[k], shares[k])
          BY <2>2
        <4> QED BY <4>1
      <3>3. line.bps \in Nat /\ line.cessBps \in Nat
        BY <1>1, <3>1, <3>2, LineParts
      <3>4. PICK note : note = NoteLine(line, share) /\ note.cess \in Nat /\ note.total = share + note.cess
        BY <3>2, <3>3, NoteLineParts
      <3> QED BY <3>2, <3>4
    <2>4. [k \in DOMAIN lines |-> docs[d].lines[k].total - docs[d].lines[k].cess] = shares
      BY <2>2, <2>3
    <2> QED BY <2>1, <2>2, <2>4, Zenon
  <1> QED BY <1>2, <1>3, <1>4 DEF SplitsAreFair

LEMMA BalanceFollows == ASSUME SaleBooksInv PROVE SaleBalances
  <1>1. OrderMade
    BY DEF SaleBooksInv
  <1>2. PICK n \in Nat : n = Len(Items)
    BY <1>1 DEF OrderMade
  <1>3. /\ Len(SaleCredits) = 3 * n + 2 /\ SaleCredits \in [1 .. 3 * n + 2 -> Nat]
        /\ SaleCredits[3 * n + 2] = 0
    BY <1>1, <1>2, CreditsParts
  <1>4. RoundingCredit(SaleCredits) = 0
    BY <1>3 DEF RoundingCredit
  <1>5. \A k \in DOMAIN sale : sale[k] >= 0
    <2>1. CASE sale = <<>>
      BY <2>1, EmptySeqParts
    <2>2. CASE sale = SaleCredits
      BY <1>3, <2>2
    <2> QED BY <2>1, <2>2 DEF SaleBooksInv
  <1> QED BY <1>4, <1>5 DEF SaleBalances

LEMMA LineWorth ==
    ASSUME NEW gross, NEW gst, NEW commission, NEW a, NEW b, NEW c,
           gross \in Int, gst \in Int, commission \in Int, a \in Int, b \in Int, c \in Int
    PROVE  (gross - commission - a - b - c) + a + b + c - gst = gross - gst - commission
  OBVIOUS

LEMMA MatchFollows == ASSUME SaleBooksInv PROVE LinesMatchCreditsExclusive
  <1> SUFFICES ASSUME ~order.inclusive, sale # <<>>, NEW i \in Lines, Items[i].seller # Store
               PROVE  LedgerView(PayoutLine(Items[i])) = SellerCredit(i)
    BY DEF LinesMatchCreditsExclusive, LinesMatchCredits
  <1>1. OrderMade /\ sale = SaleCredits
    BY DEF SaleBooksInv
  <1>2. PICK item : item = Items[i]
    OBVIOUS
  <1>3. PICK net \in Nat : net = item.total - item.discount /\ net = Worth(item)
    BY <1>1, <1>2, ItemParts DEF Worth
  <1>4. PICK commission \in Nat : commission = ApplyBps(net, CommissionBps) /\ commission = Commission(item, net)
    BY <1>2, <1>3, CommissionBounds DEF Commission
  <1>5. SellerCredit(i) = net - commission
    BY <1>1, <1>2, <1>3, <1>4, CreditsParts DEF SellerCredit
  <1>6. PICK tax \in Nat : tax = item.tax
    BY <1>1, <1>2, ItemParts
  <1>8. PICK a \in Nat, b \in Nat, c \in Nat :
          a = ApplyBps(commission, 1800) /\ b = ApplyBps(net, 100) /\ c = ApplyBps(net + tax, 100)
    <2>1. PICK gross \in Nat : gross = net + tax
      OBVIOUS
    <2>2. ApplyBps(commission, 1800) \in Nat /\ ApplyBps(net, 100) \in Nat /\ ApplyBps(gross, 100) \in Nat
      BY RatesNat
    <2> QED BY <2>1, <2>2
  <1>9. PayoutLine(item) = [gross |-> net + tax, gst |-> tax, commission |-> commission,
                            gstOnCommission |-> a, tcs |-> b, tds |-> c]
    BY <1>3, <1>4, <1>6, <1>8 DEF PayoutLine
  <1>a. LedgerView(PayoutLine(item)) = (net + tax) - tax - commission
    BY <1>9 DEF LedgerView, NetPayable
  <1> QED BY <1>2, <1>5, <1>a

\* No split of money loses a paisa or favours the wrong part.
THEOREM SaleSplitsAreFair == SaleSpec => []SplitsAreFair
  <1>1. SaleBooksInv => SplitsAreFair
    BY SplitsFollow
  <1> QED BY <1>1, SaleBooksInvariant, PTL

\* Whatever the basket, the coupon, the fee and the rates, the sale journal balances.
THEOREM SaleJournalBalances == SaleSpec => []SaleBalances
  <1>1. SaleBooksInv => SaleBalances
    BY BalanceFollows
  <1> QED BY <1>1, SaleBooksInvariant, PTL

\* Where the tax comes on top, a payout line is what the sale credited the vendor.
THEOREM SaleLinesMatchCredits == SaleSpec => []LinesMatchCreditsExclusive
  <1>1. SaleBooksInv => LinesMatchCreditsExclusive
    BY MatchFollows
  <1> QED BY <1>1, SaleBooksInvariant, PTL

LEMMA ProportionFollows == ASSUME SaleBooksInv PROVE ReversedInProportion
  <1>1. SUFFICES ASSUME sale # <<>>
                 PROVE  /\ SumFunction([r \in {q \in Reversals : refunds[q].alone} |-> refunds[r].amount]) <= order.total
                        /\ \A k \in DOMAIN sale : Reversals # {} => Abs(Owed(k)) < Cardinality(Reversals) * order.total
    BY Zenon DEF ReversedInProportion, Owed, Debited
  <1>2. OrderMade /\ RefundsMade /\ SoloTotal <= order.total
        /\ \A k \in DOMAIN sale : Reversals # {} => Abs(Owed(k)) < Cardinality(Reversals) * order.total
    BY <1>1 DEF SaleBooksInv, SlicesMade
  <1>3. PICK R : R = {q \in Reversals : refunds[q].alone}
    OBVIOUS
  <1>4. R \in SUBSET Solo /\ Solo \in SUBSET DOMAIN refunds
    BY <1>3 DEF Reversals, Solo
  <1>5. PICK part \in Nat, solo \in Nat : /\ part = SumFunction([r \in R |-> refunds[r].amount])
                                         /\ solo = SoloTotal /\ part <= solo
    <2>1. R \in SUBSET DOMAIN refunds
      BY <1>4
    <2> QED BY <1>2, <1>4, <2>1, AmountsWithin DEF SoloTotal
  <1>6. PICK total \in Nat : total = order.total
    BY <1>2, OrderSums
  <1>7. part <= total
    BY <1>2, <1>5, <1>6
  <1> QED BY <1>2, <1>3, <1>5, <1>6, <1>7, Zenon

\* However refunds that reverse a sale overlap, each account stays within a paisa per
\* refund of its part; those alone at their check stay within the sale.
THEOREM SaleReversedInProportion == SaleSpec => []ReversedInProportion
  <1>1. SaleBooksInv => ReversedInProportion
    BY ProportionFollows
  <1> QED BY <1>1, SaleBooksInvariant, PTL

-----------------------------------------------------------------------------
(* The tax a note takes back. *)

LEMMA ProductWithin ==
    \A s \in Nat, u \in Int, b \in Nat : u <= b /\ -u <= b => s * u <= s * b /\ -(s * u) <= s * b
  <1> SUFFICES ASSUME NEW s \in Nat, NEW u \in Int, NEW b \in Nat, u <= b, -u <= b
               PROVE  s * u <= s * b /\ -(s * u) <= s * b
    OBVIOUS
  <1>1. PICK p \in Nat : p = b - u
    OBVIOUS
  <1>2. PICK q \in Nat : q = b + u
    OBVIOUS
  <1>3. s * p \in Nat /\ s * q \in Nat
    BY ProductNat
  <1>4. s * p = s * b - s * u /\ s * q = s * b + s * u
    BY <1>1, <1>2
  <1>5. PICK a \in Int, c \in Int : a = s * b /\ c = s * u
    OBVIOUS
  <1> QED BY <1>3, <1>4, <1>5

LEMMA CancelFactor ==
    \A d \in Nat \ {0}, a \in Int, b \in Int : d * a <= d * b => a <= b
  <1> SUFFICES ASSUME NEW d \in Nat \ {0}, NEW a \in Int, NEW b \in Int, a > b
               PROVE  d * a > d * b
    OBVIOUS
  <1>1. PICK c \in Nat : c = a - b - 1
    OBVIOUS
  <1>2. d * a = d * b + d * c + d
    BY <1>1
  <1>3. d * c \in Nat
    BY ProductNat
  <1>4. PICK p \in Int, q \in Nat : p = d * b /\ q = d * c
    BY <1>3
  <1> QED BY <1>2, <1>4

\* What rounding the price without its tax leaves open.
LEMMA TaxedGap ==
    ASSUME NEW net \in Nat, NEW bps \in Nat, NEW d, d = 10000 + bps, NEW x, x = Taxable(net, bps),
           NEW u, u = 2 * (d * x) - 20000 * net
    PROVE  x \in Int /\ u \in Int /\ u <= d /\ -u <= d
  <1>1. x \in Nat /\ 2 * (d * x) - 20000 * net <= d /\ 20000 * net - 2 * (d * x) <= d
    BY TaxableBounds
  <1>2. d * x \in Nat
    BY <1>1
  <1>3. PICK e \in Nat : e = d * x
    BY <1>2
  <1>4. u = 2 * e - 20000 * net /\ 2 * e - 20000 * net <= d /\ 20000 * net - 2 * e <= d
    BY <1>1, <1>3
  <1> QED BY <1>1, <1>4

\* Tax taken out of a share and out of the whole, each rounded by itself.
LEMMA SharesTax ==
    ASSUME NEW whole \in Nat, NEW share \in Nat, NEW bps \in Nat
    PROVE  LET tax == whole - Taxable(whole, bps)
               part == share - Taxable(share, bps)
           IN  /\ 2 * (whole * part - tax * share) <= whole + share
               /\ -(2 * (whole * part - tax * share)) <= whole + share
  <1>1. PICK d \in Nat \ {0} : d = 10000 + bps
    OBVIOUS
  <1>0. PICK x, y, u, v : /\ x = Taxable(whole, bps) /\ u = 2 * (d * x) - 20000 * whole
                           /\ y = Taxable(share, bps) /\ v = 2 * (d * y) - 20000 * share
    OBVIOUS
  <1>2. x \in Int /\ u \in Int /\ u <= d /\ -u <= d
    BY <1>0, <1>1, TaxedGap
  <1>3. y \in Int /\ v \in Int /\ v <= d /\ -v <= d
    BY <1>0, <1>1, TaxedGap
  <1>4. PICK gap : gap = whole * (share - y) - (whole - x) * share
    OBVIOUS
  <1>5. gap = x * share - whole * y /\ gap \in Int
    BY <1>2, <1>3, <1>4
  <1>6. d * (2 * gap) = share * u - whole * v
    BY <1>0, <1>2, <1>3, <1>5
  <1>7. /\ share * u <= share * d /\ -(share * u) <= share * d
        /\ whole * v <= whole * d /\ -(whole * v) <= whole * d
    BY <1>2, <1>3, ProductWithin
  <1>8. d * (2 * gap) <= d * (whole + share) /\ d * (-(2 * gap)) <= d * (whole + share)
    <2>1. PICK p \in Int, q \in Int, r \in Int, s \in Int :
            p = share * u /\ q = whole * v /\ r = share * d /\ s = whole * d
      BY <1>2, <1>3
    <2>2. d * (whole + share) = s + r
      BY <2>1
    <2>3. PICK g \in Int : g = 2 * gap
      BY <1>5
    <2>4. d * (-g) = -(d * g)
      OBVIOUS
    <2>5. PICK z \in Int : z = d * g
      OBVIOUS
    <2>6. z = p - q
      BY <1>6, <2>1, <2>3, <2>5
    <2>7. p <= r /\ -p <= r /\ q <= s /\ -q <= s
      BY <1>7, <2>1
    <2>8. z <= s + r /\ -z <= s + r
      BY <2>6, <2>7
    <2> QED BY <2>2, <2>3, <2>4, <2>5, <2>8
  <1>9. 2 * gap <= whole + share /\ -(2 * gap) <= whole + share
    <2>1. PICK g \in Int, h \in Int : g = 2 * gap /\ h = -(2 * gap)
      BY <1>5
    <2>2. d * g <= d * (whole + share) /\ d * h <= d * (whole + share)
      BY <1>8, <2>1
    <2>3. whole + share \in Int
      OBVIOUS
    <2> QED BY <2>1, <2>2, <2>3, CancelFactor
  <1>a. gap = whole * (share - Taxable(share, bps)) - (whole - Taxable(whole, bps)) * share
    <2>1. x = Taxable(whole, bps) /\ y = Taxable(share, bps)
      BY <1>0
    <2> QED BY <1>4, <2>1
  <1> QED BY <1>9, <1>a, Zenon

LEMMA CessOfNone == \A taxable \in Nat : Cess(taxable, 0) = 0
  <1>1. \A taxable \in Nat : taxable * 0 = 0
    OBVIOUS
  <1> QED BY <1>1, RoundedZero DEF Cess

LEMMA TaxFollows == ASSUME SaleBooksInv PROVE TaxTakenBack
  <1> SUFFICES ASSUME NEW d \in Documents("invoice"), NEW k \in DOMAIN docs[d].lines, NEW line,
                      line = docs[d].lines[k], line.cessBps = 0, line.tax = TaxInside(line.total, line.bps)
               PROVE  TaxSliced(line, NotesAgainst(d), k)
    BY Zenon DEF TaxTakenBack
  <1>1. OrderMade /\ DocsMade
    BY DEF SaleBooksInv
  <1>2. PICK notes : notes = NotesAgainst(d) /\ notes = {e \in Documents("note") : docs[e].of = d}
    BY DEF NotesAgainst
  <1>3. LineMade(line)
    <2>1. InvoiceMade(docs[d])
      BY <1>1, InvoiceParts
    <2> QED BY <1>1, <2>1, InvoiceTotals DEF InvoiceMade
  <1>4. PICK whole \in Nat, bps \in Nat, own \in Int : /\ whole = line.total /\ bps = line.bps /\ own = line.tax
                                               /\ own = whole - Taxable(whole, bps)
    <2>1. line.total \in Nat /\ line.bps \in Nat /\ line.tax \in Nat
      BY <1>1, <1>3, LineParts
    <2> QED BY <2>1 DEF TaxInside
  <1>5. IsFiniteSet(notes)
    <2>1. notes \subseteq Documents("note")
      BY <1>2
    <2> QED BY <1>1, <2>1, InvoiceParts, FS_Subset
  <1> DEFINE s == [e \in notes |-> docs[e].lines[k].total]
             t == [e \in notes |-> docs[e].lines[k].tax]
  <1>6. ASSUME NEW e \in notes
        PROVE  \E share \in Nat : s[e] = share /\ t[e] = share - Taxable(share, bps)
    <2>1. e \in Documents("note") /\ docs[e].of = d
      BY <1>2
    <2>2. PICK lines : lines = docs[d].lines
      OBVIOUS
    <2>3. PICK shares : /\ shares \in [DOMAIN lines -> Nat]
                        /\ \A j \in DOMAIN lines : docs[e].lines[j] = NoteLine(lines[j], shares[j])
      BY <1>1, <2>1, <2>2, NoteParts
    <2>4. PICK share : share = shares[k] /\ share \in Nat /\ docs[e].lines[k] = NoteLine(line, share)
      BY <1>2, <2>2, <2>3
    <2>5. line.bps \in Nat /\ line.cessBps \in Nat /\ line.cessBps = 0
      BY <1>1, <1>2, <1>3, LineParts
    <2>6. PICK note : /\ note = NoteLine(line, share)
                      /\ note.cess = Cess(Taxable(share, bps), 0)
                      /\ note.total = share + note.cess
                      /\ note.tax = share - Taxable(share, bps)
      BY <1>4, <2>4, <2>5, NoteLineParts
    <2>7. note.cess = 0
      <3>1. Taxable(share, bps) \in Nat
        BY <2>4, TaxableNat
      <3> QED BY <2>6, <3>1, CessOfNone
    <2>8. s[e] = share /\ t[e] = share - Taxable(share, bps)
      BY <2>4, <2>6, <2>7
    <2> QED BY <2>4, <2>8
  <1>7. s \in [notes -> Nat] /\ t \in [notes -> Int]
    <2>1. ASSUME NEW e \in notes PROVE s[e] \in Nat /\ t[e] \in Int
      <3>1. PICK share \in Nat : s[e] = share /\ t[e] = share - Taxable(share, bps)
        BY <1>6
      <3>2. Taxable(share, bps) \in Nat
        BY TaxableNat
      <3> HIDE DEF s, t
      <3> QED BY <3>1, <3>2
    <2> QED BY <2>1
  <1>8. PICK share, tax : share = SumFunction(s) /\ tax = SumFunction(t)
    OBVIOUS
  <1>9. /\ share = SumFunctionOnSet(s, notes) /\ tax = SumFunctionOnSet(t, notes)
        /\ share \in Int /\ tax \in Int
    <2> HIDE DEF s, t
    <2>1. SumFunction(s) = SumFunctionOnSet(s, notes)
      BY <1>7, SumOnDomain
    <2>2. SumFunction(t) = SumFunctionOnSet(t, notes)
      BY <1>7, SumOnDomain
    <2>3. \A e \in notes : s[e] \in Int /\ t[e] \in Int
      BY <1>7
    <2>4. SumFunctionOnSet(s, notes) \in Int
      BY <1>5, <2>3, SumInt
    <2>5. SumFunctionOnSet(t, notes) \in Int
      BY <1>5, <2>3, SumInt
    <2> QED BY <1>8, <2>1, <2>2, <2>4, <2>5
  <1>a. PICK gap \in Int, most \in Int :
          /\ gap = whole * tax - own * share
          /\ most = Cardinality(notes) * whole + share
          /\ 2 * gap <= most /\ -(2 * gap) <= most
    <2> HIDE DEF s, t
    <2> DEFINE wt == [e \in notes |-> whole * t[e]]
               os == [e \in notes |-> (-own) * s[e]]
               g  == [e \in notes |-> wt[e] + os[e]]
               g2 == [e \in notes |-> 2 * g[e]]
               h2 == [e \in notes |-> (-2) * g[e]]
               one == [e \in notes |-> 1]
               w  == [e \in notes |-> whole * one[e]]
               b  == [e \in notes |-> w[e] + s[e]]
    <2>1. \A e \in notes : /\ s[e] \in Int /\ t[e] \in Int /\ wt[e] = whole * t[e] /\ os[e] = (-own) * s[e]
                           /\ one[e] \in Int /\ one[e] = 1 /\ w[e] = whole * one[e]
      BY <1>4, <1>7
    <2>2. \A e \in notes : wt[e] \in Int /\ os[e] \in Int /\ w[e] \in Int
      BY <1>4, <2>1
    <2>3. \A e \in notes : g[e] = wt[e] + os[e] /\ b[e] = w[e] + s[e]
      OBVIOUS
    <2>4. \A e \in notes : g2[e] = 2 * g[e] /\ h2[e] = (-2) * g[e]
      OBVIOUS
    <2>5. \A e \in notes : g[e] \in Int /\ b[e] \in Int
      <3> HIDE DEF wt, os, g, b, w
      <3> QED BY <2>1, <2>2, <2>3
    <2>6. ASSUME NEW e \in notes PROVE g2[e] <= b[e] /\ h2[e] <= b[e] /\ g2[e] \in Int /\ h2[e] \in Int
      <3>1. PICK x \in Nat : s[e] = x /\ t[e] = x - Taxable(x, bps)
        BY <1>6 DEF s, t
      <3>2. PICK part \in Int : part = x - Taxable(x, bps)
        <4>1. Taxable(x, bps) \in Nat
          BY TaxableNat
        <4> QED BY <4>1
      <3>3. 2 * (whole * part - own * x) <= whole + x /\ -(2 * (whole * part - own * x)) <= whole + x
        BY <1>4, <3>2, SharesTax
      <3>4. g[e] = whole * part + (-own) * x /\ b[e] = whole + x
        BY <3>1, <3>2
      <3>5. PICK p \in Int, q \in Int : p = whole * part /\ q = own * x /\ (-own) * x = -q
        BY <1>4
      <3>6. g[e] = p - q
        BY <3>4, <3>5
      <3>7. g2[e] = 2 * (p - q) /\ h2[e] = (-2) * (p - q)
        BY <2>4, <3>6
      <3> HIDE DEF g, g2, h2, b
      <3> QED BY <3>3, <3>4, <3>5, <3>7
    <2> HIDE DEF wt, os, g, g2, h2, one, w, b
    <2>7. SumFunctionOnSet(wt, notes) = whole * tax
      BY <1>5, <1>9, <2>1, SumScale
    <2>8. SumFunctionOnSet(os, notes) = (-own) * share
      <3>1. -own \in Int
        BY <1>4
      <3> QED BY <1>5, <1>9, <2>1, <3>1, SumScale
    <2>9. SumFunctionOnSet(g, notes) = SumFunctionOnSet(wt, notes) + SumFunctionOnSet(os, notes)
      BY <1>5, <2>2, <2>3, SumPlus
    <2>a. SumFunctionOnSet(g2, notes) = 2 * SumFunctionOnSet(g, notes)
      BY <1>5, <2>4, <2>5, SumScale
    <2>b. SumFunctionOnSet(h2, notes) = (-2) * SumFunctionOnSet(g, notes)
      <3>1. -2 \in Int
        OBVIOUS
      <3> QED BY <1>5, <2>4, <2>5, <3>1, SumScale
    <2>c. SumFunctionOnSet(one, notes) = Cardinality(notes) /\ Cardinality(notes) \in Nat
      <3>1. SumFunctionOnSet(one, notes) = 1 * Cardinality(notes)
        BY <1>5, <2>1, SumCount
      <3> QED BY <1>5, <3>1, FS_CardinalityType
    <2>d. SumFunctionOnSet(w, notes) = whole * Cardinality(notes)
      <3>1. SumFunctionOnSet(w, notes) = whole * SumFunctionOnSet(one, notes)
        <4>1. whole \in Int /\ \A e \in notes : one[e] \in Int /\ w[e] = whole * one[e]
          BY <2>1
        <4> QED BY <1>5, <4>1, SumScale
      <3> QED BY <2>c, <3>1
    <2>e. SumFunctionOnSet(b, notes) = SumFunctionOnSet(w, notes) + share
      BY <1>5, <1>9, <2>1, <2>2, <2>3, SumPlus
    <2>f. SumFunctionOnSet(g2, notes) <= SumFunctionOnSet(b, notes)
      BY <1>5, <2>5, <2>6, SumAtMost
    <2>g. SumFunctionOnSet(h2, notes) <= SumFunctionOnSet(b, notes)
      BY <1>5, <2>5, <2>6, SumAtMost
    <2>h. PICK n \in Nat : n = Cardinality(notes)
      BY <2>c
    <2>i. PICK p \in Int, q \in Int, r \in Int : p = whole * tax /\ q = own * share /\ r = whole * n /\ r = n * whole
                                                   /\ (-own) * share = -q
      <3>1. PICK o \in Int, z \in Int : o = own /\ z = share
        BY <1>4, <1>9
      <3>2. (-o) * z = -(o * z) /\ o * z \in Int
        OBVIOUS
      <3>3. whole * n = n * whole /\ whole * n \in Int /\ whole * tax \in Int
        BY <1>9
      <3> QED BY <3>1, <3>2, <3>3
    <2>j. 2 * (p - q) <= r + share /\ (-2) * (p - q) <= r + share
      BY <1>9, <2>7, <2>8, <2>9, <2>a, <2>b, <2>d, <2>e, <2>f, <2>g, <2>h, <2>i
    <2> QED BY <1>9, <2>h, <2>i, <2>j
  <1>b. 2 * Abs(gap) <= most
    BY <1>a DEF Abs
  <1> QED BY <1>2, <1>4, <1>8, <1>a, <1>b DEF TaxSliced

\* A share of an invoice line takes back its share of the tax, to half a paisa a note, if the
\* line has no cess and its tax is what the rate it states takes out of its price.
THEOREM SaleTaxTakenBack == SaleSpec => []TaxTakenBack
  <1>1. SaleBooksInv => TaxTakenBack
    BY TaxFollows
  <1> QED BY <1>1, SaleBooksInvariant, PTL

-----------------------------------------------------------------------------
(* What returned units gave back. *)

Rounds == IF order.inclusive THEN 1 ELSE 2
Paid(i) == Worth(Items[i]) + Items[i].tax
GoodsTotal == SumFunction([r \in DOMAIN refunds |-> refunds[r].goods])

\* Units of a line gave back their part of what was paid for it, but for the roundings.
GaveBack(back, i) ==
    /\ 2 * (Items[i].qty * back - returned[i] * Paid(i)) <= Rounds * (Items[i].qty * returned[i])
    /\ -(2 * (Items[i].qty * back - returned[i] * Paid(i))) <= Rounds * (Items[i].qty * returned[i])

ReturnsMade ==
    /\ returned \in [Lines -> Nat]
    /\ \E back \in [Lines -> Int] :
          GoodsTotal = SumFunction(back) /\ \A i \in Lines : GaveBack(back[i], i)

LEMMA PaidParts ==
    ASSUME OrderMade, NEW i \in Lines
    PROVE  /\ Paid(i) \in Nat /\ Rounds \in {1, 2}
           /\ order.inclusive => Paid(i) = Items[i].total - Items[i].discount
           /\ ~order.inclusive => Paid(i) = Items[i].total - Items[i].discount + Items[i].tax
  <1>1. PICK item : item = Items[i]
    OBVIOUS
  <1>2. PICK total \in Nat, discount \in Nat, tax \in Nat :
          total = item.total /\ discount = item.discount /\ tax = item.tax /\ discount <= total
    BY <1>1, ItemParts
  <1> QED BY <1>1, <1>2 DEF Paid, Rounds, Worth

LEMMA UnitRefundBounds ==
    ASSUME OrderMade, NEW i \in Lines, NEW unit \in UnitRefunds(i)
    PROVE  /\ unit \in Nat
           /\ 2 * (Items[i].qty * unit - Paid(i)) <= Rounds * Items[i].qty
           /\ -(2 * (Items[i].qty * unit - Paid(i))) <= Rounds * Items[i].qty
  <1>1. PICK item : item = Items[i]
    OBVIOUS
  <1>2. PICK qty \in Nat \ {0}, net \in Nat, tax \in Nat :
          qty = item.qty /\ net = item.price * item.qty - item.discount /\ tax = item.tax
          /\ net = item.total - item.discount
    <2>1. /\ item.qty \in Nat \ {0} /\ item.tax \in Nat /\ item.total - item.discount \in Nat
          /\ item.total = item.price * item.qty
      BY <1>1, ItemParts, ItemPrice
    <2> QED BY <2>1
  <1>3. PICK G, T : G = Nearest(net, qty) /\ T = Nearest(tax, qty)
    OBVIOUS
  <1>4. \A q \in G : q \in Nat /\ 2 * (qty * q) - 2 * net <= qty /\ 2 * net - 2 * (qty * q) <= qty
    BY <1>3, NearestBounds
  <1>5. \A q \in T : q \in Nat /\ 2 * (qty * q) - 2 * tax <= qty /\ 2 * tax - 2 * (qty * q) <= qty
    BY <1>3, NearestBounds
  <1>6. unit \in IF order.inclusive THEN G ELSE {g + t : g \in G, t \in T}
    BY <1>1, <1>2, <1>3 DEF UnitRefunds
  <1>7. unit \in Nat
    BY UnitRefundsNat
  <1>8. PICK p \in Int : p = qty * unit
    BY <1>7
  <1>9. CASE order.inclusive
    <2>1. unit \in G
      BY <1>6, <1>9
    <2>2. Paid(i) = net /\ Rounds = 1
      BY <1>1, <1>2, <1>9, PaidParts DEF Rounds
    <2>3. 2 * p - 2 * net <= qty /\ 2 * net - 2 * p <= qty
      BY <1>4, <1>8, <2>1
    <2>4. 2 * (p - net) <= 1 * qty /\ -(2 * (p - net)) <= 1 * qty
      BY <2>3
    <2> QED BY <1>1, <1>2, <1>7, <1>8, <2>2, <2>4
  <1>a. CASE ~order.inclusive
    <2>1. PICK g \in G, t \in T : unit = g + t
      BY <1>6, <1>a
    <2>2. Paid(i) = net + tax /\ Rounds = 2
      BY <1>1, <1>2, <1>a, PaidParts DEF Rounds
    <2>3. PICK a \in Nat, b \in Nat : a = qty * g /\ b = qty * t
      BY <1>4, <1>5, ProductNat
    <2>4. /\ 2 * a - 2 * net <= qty /\ 2 * net - 2 * a <= qty
          /\ 2 * b - 2 * tax <= qty /\ 2 * tax - 2 * b <= qty
      BY <1>4, <1>5, <2>3
    <2>5. p = a + b
      BY <1>4, <1>5, <1>8, <2>1, <2>3
    <2>6. 2 * (p - (net + tax)) <= 2 * qty /\ -(2 * (p - (net + tax))) <= 2 * qty
      BY <2>4, <2>5
    <2> QED BY <1>1, <1>2, <1>7, <1>8, <2>2, <2>6
  <1> QED BY <1>9, <1>a

\* More units, each within its rounding, keep the line within its roundings.
LEMMA BackArith ==
    ASSUME NEW qty \in Nat, NEW back \in Int, NEW gone \in Nat, NEW paid \in Nat, NEW c \in Nat,
           NEW unit \in Nat, NEW more \in Nat,
           2 * (qty * back - gone * paid) <= c * (qty * gone),
           -(2 * (qty * back - gone * paid)) <= c * (qty * gone),
           2 * (qty * unit - paid) <= c * qty,
           -(2 * (qty * unit - paid)) <= c * qty
    PROVE  /\ 2 * (qty * (back + unit * more) - (gone + more) * paid) <= c * (qty * (gone + more))
           /\ -(2 * (qty * (back + unit * more) - (gone + more) * paid)) <= c * (qty * (gone + more))
  <1>1. PICK u, b : u = 2 * (qty * unit - paid) /\ b = c * qty
    OBVIOUS
  <1>2. u \in Int /\ b \in Nat /\ u <= b /\ -u <= b
    BY <1>1, ProductNat
  <1>3. more * u <= more * b /\ -(more * u) <= more * b
    BY <1>2, ProductWithin
  <1>4. PICK e, l : e = 2 * (qty * back - gone * paid) /\ l = c * (qty * gone)
    OBVIOUS
  <1>5. e \in Int /\ l \in Int /\ e <= l /\ -e <= l
    BY <1>4
  <1>6. PICK m \in Int, k \in Int : m = more * u /\ k = more * b
    BY <1>2
  <1>7. 2 * (qty * (back + unit * more) - (gone + more) * paid) = e + m
    BY <1>1, <1>4, <1>6
  <1>8. c * (qty * (gone + more)) = l + k
    BY <1>1, <1>4, <1>6
  <1>9. e + m <= l + k /\ -(e + m) <= l + k
    BY <1>3, <1>5, <1>6
  <1> QED BY <1>7, <1>8, <1>9

LEMMA ReturnsInit == ASSUME SaleInit PROVE ReturnsMade
  <1>1. OrderMade /\ refunds = <<>> /\ returned = [i \in Lines |-> 0]
    BY SaleInitOrder DEF SaleInit, Lines, Items
  <1>2. returned \in [Lines -> Nat] /\ \A i \in Lines : returned[i] = 0
    BY <1>1
  <1> DEFINE back == [i \in Lines |-> 0]
  <1>3. back \in [Lines -> Int] /\ \A i \in Lines : back[i] = 0
    OBVIOUS
  <1>4. GoodsTotal = SumFunction(back)
    <2> DEFINE f == [r \in DOMAIN refunds |-> refunds[r].goods]
    <2>1. f \in [{} -> Int]
      BY <1>1, EmptySeqParts
    <2>2. GoodsTotal = SumFunction(f)
      BY DEF GoodsTotal
    <2> HIDE DEF f, back
    <2>3. SumFunction(f) = 0
      BY <2>1, SumOnDomain, SumOfNone
    <2>4. SumFunction(back) = SumFunctionOnSet(back, Lines)
      BY <1>3, SumOnDomain
    <2>5. SumFunctionOnSet(back, Lines) = 0
      BY <1>1, <1>3, OrderSums, SumZero
    <2> QED BY <2>2, <2>3, <2>4, <2>5
  <1>5. ASSUME NEW i \in Lines PROVE GaveBack(back[i], i)
    <2>1. Items[i].qty \in Nat /\ Paid(i) \in Nat /\ Rounds \in Nat
      BY <1>1, ItemParts, PaidParts
    <2>2. PICK q \in Nat, p \in Nat, c \in Nat : q = Items[i].qty /\ p = Paid(i) /\ c = Rounds
      BY <2>1
    <2>3. 2 * (q * 0 - 0 * p) <= c * (q * 0) /\ -(2 * (q * 0 - 0 * p)) <= c * (q * 0)
      OBVIOUS
    <2> HIDE DEF back
    <2> QED BY <1>2, <1>3, <2>2, <2>3 DEF GaveBack
  <1> HIDE DEF back
  <1> QED BY <1>2, <1>3, <1>4, <1>5 DEF ReturnsMade

\* A refund adds its goods.
LEMMA GoodsAdded ==
    ASSUME RefundsMade, NEW new, NEW goods \in Nat, new.goods = goods, refunds' = Append(refunds, new)
    PROVE  GoodsTotal' = GoodsTotal + goods /\ GoodsTotal \in Int
  <1>2. PICK n \in Nat : n = Len(refunds) /\ DOMAIN refunds = 1 .. n
    BY SeqParts DEF RefundsMade
  <1>3. /\ DOMAIN refunds' = 1 .. n + 1 /\ refunds'[n + 1] = new
        /\ \A r \in 1 .. n : refunds'[r] = refunds[r]
    BY <1>2, AppendParts DEF RefundsMade
  <1> DEFINE f == [r \in DOMAIN refunds |-> refunds[r].goods]
             g == [r \in DOMAIN refunds' |-> refunds'[r].goods]
  <1>4. GoodsTotal = SumFunction(f) /\ GoodsTotal' = SumFunction(g)
    BY DEF GoodsTotal
  <1>5. PICK S, T, x : S = 1 .. n /\ T = 1 .. n + 1 /\ x = n + 1
    OBVIOUS
  <1>6. /\ IsFiniteSet(S) /\ x \notin S /\ T = S \cup {x}
        /\ f \in [S -> Int] /\ g \in [T -> Int] /\ g[x] = goods /\ \A r \in S : g[r] = f[r]
    <2>1. IsFiniteSet(S) /\ x \notin S /\ T = S \cup {x}
      <3>1. 1 \in Int /\ n \in Int
        OBVIOUS
      <3>2. IsFiniteSet(1 .. n)
        BY <3>1, FS_Interval
      <3> QED BY <1>5, <3>2
    <2>2. \A r \in S : refunds[r].goods \in Nat
      BY <1>2, <1>5 DEF RefundsMade, RefundMade
    <2>3. \A r \in T : r \in S \/ r = x
      BY <1>5
    <2>4. x \in T
      BY <1>5
    <2> QED BY <1>2, <1>3, <1>5, <2>1, <2>2, <2>3, <2>4
  <1> HIDE DEF f, g
  <1>7. SumFunction(g) = SumFunction(f) + g[x]
    BY <1>6, SumGrownTo
  <1>8. SumFunction(f) \in Int
    <2>1. \A r \in S : f[r] \in Int
      BY <1>6
    <2>2. SumFunctionOnSet(f, S) \in Int
      BY <1>6, <2>1, SumInt
    <2>3. SumFunction(f) = SumFunctionOnSet(f, S)
      BY <1>6, SumOnDomain
    <2> QED BY <2>2, <2>3
  <1> QED BY <1>4, <1>6, <1>7, <1>8

\* A refund the code adds, and nothing else.
LEMMA AddedRefund ==
    ASSUME NEW amount, NEW goods, AddRefund(amount, goods)
    PROVE  /\ order' = order
           /\ \E new : new.goods = goods /\ refunds' = Append(refunds, new)
  <1>1. PICK new : new = [amount |-> amount, goods |-> goods, debits |-> <<>>, state |-> "moved", alone |-> FALSE]
    OBVIOUS
  <1>2. new.goods = goods /\ refunds' = Append(refunds, new)
    BY <1>1 DEF AddRefund
  <1> QED BY <1>2 DEF AddRefund

LEMMA OrderKept ==
    ASSUME order' = order
    PROVE  Rounds' = Rounds /\ \A i : Paid(i)' = Paid(i)
  BY DEF Rounds, Paid, Worth, Items

LEMMA RefundReturnReturns ==
    ASSUME SaleBooksInv, ReturnsMade, RefundReturn
    PROVE  ReturnsMade'
  <1>1. PICK units, unit, amount, goods :
          /\ units \in [Lines -> 0 .. MaxQty]
          /\ \A i \in Lines : unit[i] \in UnitRefunds(i)
          /\ goods = SumFunction([i \in Lines |-> unit[i] * units[i]])
          /\ returned' = [i \in Lines |-> returned[i] + units[i]]
          /\ AddRefund(amount, goods)
    BY DEF RefundReturn
  <1>2. OrderMade /\ RefundsMade
    BY DEF SaleBooksInv
  <1>3. order' = order /\ \E new : new.goods = goods /\ refunds' = Append(refunds, new)
    BY <1>1, AddedRefund
  <1>4. Items' = Items /\ Lines' = Lines /\ Rounds' = Rounds /\ \A i : Paid(i)' = Paid(i)
    BY <1>3, OrderSame, OrderKept
  <1>5. \A i \in Lines : unit[i] \in Nat /\ units[i] \in Nat /\ returned[i] \in Nat
    BY <1>1, <1>2, UnitRefundsNat DEF ReturnsMade
  <1>6. PICK back \in [Lines -> Int] : GoodsTotal = SumFunction(back) /\ \A i \in Lines : GaveBack(back[i], i)
    BY DEF ReturnsMade
  <1>0. PICK given, after : /\ given = [i \in Lines |-> unit[i] * units[i]]
                            /\ after = [i \in Lines |-> back[i] + given[i]]
    OBVIOUS
  <1>7. /\ \A i \in Lines : given[i] \in Nat /\ back[i] \in Int /\ after[i] = back[i] + given[i]
        /\ given \in [Lines -> Nat]
    <2>1. \A i \in Lines : given[i] \in Nat
      BY <1>0, <1>5, ProductNat
    <2> QED BY <1>0, <2>1
  <1>8. goods = SumFunction(given) /\ after \in [Lines -> Int] /\ IsFiniteSet(Lines)
    BY <1>0, <1>1, <1>2, <1>7, OrderSums
  <1>9. ASSUME NEW i \in Lines PROVE GaveBack(after[i], i)'
    <2>1. PICK qty \in Nat, b \in Int, gone \in Nat, paid \in Nat, c \in Nat, u \in Nat, more \in Nat :
            /\ qty = Items[i].qty /\ b = back[i] /\ gone = returned[i] /\ paid = Paid(i) /\ c = Rounds
            /\ u = unit[i] /\ more = units[i]
      BY <1>2, <1>5, <1>7, ItemParts, PaidParts
    <2>2. 2 * (qty * b - gone * paid) <= c * (qty * gone) /\ -(2 * (qty * b - gone * paid)) <= c * (qty * gone)
      BY <1>6, <2>1 DEF GaveBack
    <2>3. 2 * (qty * u - paid) <= c * qty /\ -(2 * (qty * u - paid)) <= c * qty
      BY <1>1, <1>2, <2>1, UnitRefundBounds
    <2>4. /\ 2 * (qty * (b + u * more) - (gone + more) * paid) <= c * (qty * (gone + more))
          /\ -(2 * (qty * (b + u * more) - (gone + more) * paid)) <= c * (qty * (gone + more))
      BY <2>2, <2>3, BackArith
    <2>5. after[i] = b + u * more /\ returned'[i] = gone + more
      BY <1>0, <1>1, <2>1
    <2>6. PICK a : a = after[i]
      OBVIOUS
    <2>7. GaveBack(a, i)'
      BY <1>4, <2>1, <2>4, <2>5, <2>6 DEF GaveBack
    <2> QED BY <2>6, <2>7
  <1>a. GoodsTotal' = SumFunction(after)
    <2>1. SumFunction(given) = SumFunctionOnSet(given, Lines)
      BY <1>7, SumOnDomain
    <2>2. SumFunction(back) = SumFunctionOnSet(back, Lines)
      BY SumOnDomain
    <2>3. SumFunction(after) = SumFunctionOnSet(after, Lines)
      BY <1>8, SumOnDomain
    <2>4. SumFunctionOnSet(after, Lines) = SumFunctionOnSet(back, Lines) + SumFunctionOnSet(given, Lines)
      BY <1>7, <1>8, SumPlus
    <2>5. goods \in Nat
      <3>1. \A i \in Lines : given[i] \in Nat
        BY <1>7
      <3>2. SumFunctionOnSet(given, Lines) \in Nat
        BY <1>8, <3>1, SumNat
      <3> QED BY <1>8, <2>1, <3>2
    <2>6. GoodsTotal' = GoodsTotal + goods
      BY <1>2, <1>3, <2>5, GoodsAdded
    <2> QED BY <1>6, <1>8, <2>1, <2>2, <2>3, <2>4, <2>6
  <1>b. returned' \in [Lines -> Nat]
    BY <1>1, <1>5
  <1> QED BY <1>4, <1>8, <1>9, <1>a, <1>b DEF ReturnsMade

LEMMA ReturnsSame ==
    ASSUME ReturnsMade, order' = order, returned' = returned, GoodsTotal' = GoodsTotal
    PROVE  ReturnsMade'
  <1>1. Items' = Items /\ Lines' = Lines /\ Rounds' = Rounds /\ \A i : Paid(i)' = Paid(i)
    BY OrderSame, OrderKept
  <1>2. \A b, i : GaveBack(b, i)' <=> GaveBack(b, i)
    BY <1>1, Zenon DEF GaveBack
  <1>3. PICK back \in [Lines -> Int] : GoodsTotal = SumFunction(back) /\ \A i \in Lines : GaveBack(back[i], i)
    BY DEF ReturnsMade
  <1>4. \A i \in Lines' : GaveBack(back[i], i)'
    BY <1>1, <1>2, <1>3, Zenon
  <1>5. returned' \in [Lines' -> Nat] /\ back \in [Lines' -> Int] /\ GoodsTotal' = SumFunction(back)
    BY <1>1, <1>3 DEF ReturnsMade
  <1> QED BY <1>4, <1>5, Zenon DEF ReturnsMade

\* A step of a refund's journal leaves what it gives back.
GoodsKept ==
    [r \in DOMAIN refunds' |-> refunds'[r].goods] = [r \in DOMAIN refunds |-> refunds[r].goods]

LEMMA TurnKeepsGoods ==
    ASSUME OrderMade, RefundsMade, NEW r \in DOMAIN refunds, RefundFind(r) \/ RefundPost(r) \/ RefundCount(r)
    PROVE  order' = order /\ returned' = returned /\ GoodsKept
  <1>1. /\ order' = order /\ sale' = sale /\ returned' = returned
        /\ IsSeq(refunds') /\ RefundTurn(r)
    BY RefundTurns
  <1>2. DOMAIN refunds' = DOMAIN refunds /\ \A q \in DOMAIN refunds : refunds'[q].goods = refunds[q].goods
    BY <1>1, TurnedMade
  <1> QED BY <1>1, <1>2 DEF GoodsKept

LEMMA ReturnsStep ==
    ASSUME SaleBooksInv, ReturnsMade, SaleNext \/ UNCHANGED saleVars
    PROVE  ReturnsMade'
  <1>1. CASE RefundReturn
    BY <1>1, RefundReturnReturns
  <1>2. CASE RefundAmount
    <2>1. PICK amount : AddRefund(amount, 0) /\ returned' = returned
      BY <1>2 DEF RefundAmount
    <2>2. order' = order /\ \E new : new.goods = 0 /\ refunds' = Append(refunds, new)
      BY <2>1, AddedRefund
    <2>3. GoodsTotal' = GoodsTotal
      <3>1. 0 \in Nat /\ RefundsMade
        BY DEF SaleBooksInv
      <3>2. GoodsTotal' = GoodsTotal + 0 /\ GoodsTotal \in Int
        BY <2>2, <3>1, GoodsAdded
      <3> QED BY <3>2
    <2> QED BY <2>1, <2>2, <2>3, ReturnsSame
  <1>3. CASE order' = order /\ returned' = returned /\ refunds' = refunds
    <2>1. GoodsTotal' = GoodsTotal
      BY <1>3 DEF GoodsTotal
    <2> QED BY <1>3, <2>1, ReturnsSame
  <1>4. ASSUME NEW p \in Writers, IssueFind(p) \/ IssueOne(p) \/ CreditFind(p) \/ CreditOne(p) \/ Stop(p)
        PROVE  order' = order /\ returned' = returned /\ refunds' = refunds
    <2>1. CASE IssueFind(p)
      BY <2>1 DEF IssueFind, Figures
    <2>2. CASE IssueOne(p)
      BY <2>2 DEF IssueOne, Figures
    <2>3. CASE CreditFind(p)
      BY <2>3 DEF CreditFind, Figures
    <2>4. CASE CreditOne(p)
      BY <2>4 DEF CreditOne, Figures
    <2>5. CASE Stop(p)
      BY <2>5 DEF Stop, Figures
    <2> QED BY <1>4, <2>1, <2>2, <2>3, <2>4, <2>5
  <1>5. CASE Confirm
    BY <1>3, <1>5 DEF Confirm
  <1>6. CASE UNCHANGED saleVars
    BY <1>3, <1>6 DEF saleVars
  <1>7. ASSUME NEW r \in DOMAIN refunds, RefundFind(r) \/ RefundPost(r) \/ RefundCount(r)
        PROVE  ReturnsMade'
    <2>1. order' = order /\ returned' = returned /\ GoodsKept
      BY <1>7, TurnKeepsGoods DEF SaleBooksInv
    <2>2. GoodsTotal' = GoodsTotal
      BY <2>1, Zenon DEF GoodsTotal, GoodsKept
    <2> QED BY <2>1, <2>2, ReturnsSame
  <1> QED BY <1>1, <1>2, <1>3, <1>4, <1>5, <1>6, <1>7 DEF SaleNext

LEMMA ReturnsFollow == ASSUME SaleBooksInv, ReturnsMade PROVE ReturnsWithinRounding
  <1> SUFFICES ASSUME \A i \in Lines : returned[i] = Items[i].qty
               PROVE  2 * Abs(GoodsTotal - (order.total - order.fee))
                         <= IF order.inclusive THEN SumFunction(returned) ELSE 2 * SumFunction(returned)
    BY Zenon DEF ReturnsWithinRounding, GoodsTotal
  <1>1. OrderMade
    BY DEF SaleBooksInv
  <1>2. PICK back \in [Lines -> Int] : GoodsTotal = SumFunction(back) /\ \A i \in Lines : GaveBack(back[i], i)
    BY DEF ReturnsMade
  <1>3. IsFiniteSet(Lines) /\ returned \in [Lines -> Nat]
    BY <1>1, OrderSums DEF ReturnsMade
  <1>4. PICK c \in {1, 2} : c = Rounds
    BY DEF Rounds
  <1> DEFINE paid == [i \in Lines |-> Paid(i)]
             gap == [i \in Lines |-> back[i] + (-1) * paid[i]]
             neg == [i \in Lines |-> (-1) * paid[i]]
             up == [i \in Lines |-> 2 * gap[i]]
             down == [i \in Lines |-> (-2) * gap[i]]
             most == [i \in Lines |-> c * returned[i]]
  <1>5. ASSUME NEW i \in Lines
        PROVE  /\ paid[i] \in Int /\ back[i] \in Int /\ neg[i] = (-1) * paid[i] /\ neg[i] \in Int
               /\ gap[i] = back[i] + neg[i] /\ gap[i] \in Int
               /\ up[i] = 2 * gap[i] /\ down[i] = (-2) * gap[i] /\ up[i] \in Int /\ down[i] \in Int
               /\ most[i] = c * returned[i] /\ most[i] \in Int /\ returned[i] \in Int
               /\ up[i] <= most[i] /\ down[i] <= most[i]
    <2>1. PICK qty \in Nat \ {0}, b \in Int, p \in Nat :
            qty = Items[i].qty /\ b = back[i] /\ p = Paid(i) /\ returned[i] = qty
      BY <1>1, ItemParts, PaidParts
    <2>2. 2 * (qty * b - qty * p) <= c * (qty * qty) /\ -(2 * (qty * b - qty * p)) <= c * (qty * qty)
      BY <1>2, <1>4, <2>1 DEF GaveBack
    <2>3. PICK u \in Int, l \in Int : u = 2 * (b - p) /\ l = c * qty
      <3>1. 2 * (b - p) \in Int /\ c * qty \in Int
        BY <1>4
      <3> QED BY <3>1
    <2>4. qty * u <= qty * l /\ qty * (-u) <= qty * l
      <3>1. qty * u = 2 * (qty * b - qty * p)
        BY <2>3
      <3>2. qty * l = c * (qty * qty)
        BY <1>4, <2>3
      <3>3. qty * (-u) = -(qty * u)
        OBVIOUS
      <3> QED BY <2>2, <3>1, <3>2, <3>3
    <2>5. u <= l
      BY <2>4, CancelFactor
    <2>6. -u <= l
      <3>1. PICK v \in Int : v = -u
        OBVIOUS
      <3> QED BY <2>4, <3>1, CancelFactor
    <2>7. paid[i] = p /\ neg[i] = -p /\ gap[i] = b - p /\ up[i] = u /\ down[i] = -u /\ most[i] = l
      BY <2>1, <2>3
    <2>8. gap[i] = back[i] + neg[i] /\ up[i] = 2 * gap[i] /\ down[i] = (-2) * gap[i]
          /\ most[i] = c * returned[i] /\ neg[i] = (-1) * paid[i]
      OBVIOUS
    <2> HIDE DEF paid, neg, gap, up, down, most
    <2> QED BY <2>1, <2>5, <2>6, <2>7, <2>8
  <1>6. \A i \in Lines : paid[i] = Worth(Items[i]) + Items[i].tax
    BY DEF Paid
  <1> HIDE DEF paid, neg, gap, up, down, most
  <1>7. SumFunctionOnSet(paid, Lines) + order.fee = order.total /\ SumFunctionOnSet(paid, Lines) \in Int
    <2>1. SumFunctionOnSet(paid, Lines) + order.fee = order.total
      BY <1>1, <1>6, TotalIsWorth
    <2>2. \A i \in Lines : paid[i] \in Int
      BY <1>5
    <2> QED BY <1>3, <2>1, <2>2, SumInt
  <1>8. SumFunctionOnSet(neg, Lines) = (-1) * SumFunctionOnSet(paid, Lines)
    <2>1. PICK m \in Int : m = -1
      OBVIOUS
    <2>2. \A i \in Lines : paid[i] \in Int /\ neg[i] = m * paid[i]
      BY <1>5, <2>1
    <2>3. SumFunctionOnSet(neg, Lines) = m * SumFunctionOnSet(paid, Lines)
      BY <1>3, <2>2, SumScale
    <2> QED BY <2>1, <2>3
  <1>9. SumFunctionOnSet(gap, Lines) = SumFunctionOnSet(back, Lines) + SumFunctionOnSet(neg, Lines)
    <2>1. \A i \in Lines : back[i] \in Int /\ neg[i] \in Int /\ gap[i] = back[i] + neg[i]
      BY <1>5
    <2> QED BY <1>3, <2>1, SumPlus
  <1>a. SumFunctionOnSet(up, Lines) = 2 * SumFunctionOnSet(gap, Lines)
    <2>1. PICK m \in Int : m = 2
      OBVIOUS
    <2>2. \A i \in Lines : gap[i] \in Int /\ up[i] = m * gap[i]
      BY <1>5, <2>1
    <2>3. SumFunctionOnSet(up, Lines) = m * SumFunctionOnSet(gap, Lines)
      BY <1>3, <2>2, SumScale
    <2> QED BY <2>1, <2>3
  <1>b. SumFunctionOnSet(down, Lines) = (-2) * SumFunctionOnSet(gap, Lines)
    <2>1. PICK m \in Int : m = -2
      OBVIOUS
    <2>2. \A i \in Lines : gap[i] \in Int /\ down[i] = m * gap[i]
      BY <1>5, <2>1
    <2>3. SumFunctionOnSet(down, Lines) = m * SumFunctionOnSet(gap, Lines)
      BY <1>3, <2>2, SumScale
    <2> QED BY <2>1, <2>3
  <1>c. SumFunctionOnSet(most, Lines) = c * SumFunctionOnSet(returned, Lines)
    <2>1. PICK m \in Int : m = c
      OBVIOUS
    <2>2. \A i \in Lines : returned[i] \in Int /\ most[i] = m * returned[i]
      BY <1>5, <2>1
    <2>3. SumFunctionOnSet(most, Lines) = m * SumFunctionOnSet(returned, Lines)
      BY <1>3, <2>2, SumScale
    <2> QED BY <2>1, <2>3
  <1>d. SumFunctionOnSet(up, Lines) <= SumFunctionOnSet(most, Lines)
    <2>1. \A i \in Lines : up[i] \in Int /\ most[i] \in Int /\ up[i] <= most[i]
      BY <1>5
    <2> QED BY <1>3, <2>1, SumAtMost
  <1>e. SumFunctionOnSet(down, Lines) <= SumFunctionOnSet(most, Lines)
    <2>1. \A i \in Lines : down[i] \in Int /\ most[i] \in Int /\ down[i] <= most[i]
      BY <1>5
    <2> QED BY <1>3, <2>1, SumAtMost
  <1>f. PICK b \in Int, p \in Int, units \in Int, fee \in Int, total \in Int :
          /\ b = SumFunctionOnSet(back, Lines) /\ p = SumFunctionOnSet(paid, Lines)
          /\ units = SumFunctionOnSet(returned, Lines) /\ fee = order.fee /\ total = order.total
    <2>1. SumFunctionOnSet(back, Lines) \in Int
      BY <1>3, SumInt
    <2>2. SumFunctionOnSet(returned, Lines) \in Int
      <3>1. \A i \in Lines : returned[i] \in Int
        BY <1>5
      <3> QED BY <1>3, <3>1, SumInt
    <2>3. order.fee \in Int /\ order.total \in Int
      BY <1>1, OrderSums DEF OrderMade
    <2> QED BY <1>7, <2>1, <2>2, <2>3
  <1>g. GoodsTotal = b /\ SumFunction(returned) = units
    <2>1. SumFunction(back) = SumFunctionOnSet(back, Lines)
      BY SumOnDomain
    <2>2. SumFunction(returned) = SumFunctionOnSet(returned, Lines)
      BY <1>3, SumOnDomain
    <2> QED BY <1>2, <1>f, <2>1, <2>2
  <1>h. 2 * (b - p) <= c * units /\ (-2) * (b - p) <= c * units
    BY <1>8, <1>9, <1>a, <1>b, <1>c, <1>d, <1>e, <1>f
  <1>i. p = total - fee
    BY <1>7, <1>f
  <1>j. 2 * Abs(b - (total - fee)) <= c * units
    BY <1>h, <1>i DEF Abs
  <1>k. c * units = IF order.inclusive THEN units ELSE 2 * units
    BY <1>4 DEF Rounds
  <1> QED BY <1>f, <1>g, <1>j, <1>k

\* Returned bit by bit or at once, in any order of returns and rates, all the units
\* together give back what was paid for them to within half a paisa per rounding
\* (refundCalculator's unit prices).
THEOREM SaleReturnsWithinRounding == SaleSpec => []ReturnsWithinRounding
  <1>1. SaleInit => SaleBooksInv /\ ReturnsMade
    BY SaleInitInv, ReturnsInit
  <1>2. SaleBooksInv /\ ReturnsMade /\ [SaleNext]_saleVars => (SaleBooksInv /\ ReturnsMade)'
    BY SaleStep, ReturnsStep
  <1>3. SaleBooksInv /\ ReturnsMade => ReturnsWithinRounding
    BY ReturnsFollow
  <1> QED BY <1>1, <1>2, <1>3, PTL DEF SaleSpec

-----------------------------------------------------------------------------
(* The invoices and the order they are of. *)

\* A sum in another order.
LEMMA SumReordered ==
    ASSUME NEW S, IsFiniteSet(S), NEW T, IsFiniteSet(T), NEW f \in Bijection(S, T), NEW h, NEW v,
           \A x \in S : h[x] \in Int /\ h[x] = v[f[x]]
    PROVE  SumFunctionOnSet(h, S) = SumFunctionOnSet(v, T)
  <1>1. f \in [S -> T] /\ (\A x, y \in S : f[x] = f[y] => x = y) /\ \A t \in T : \E x \in S : f[x] = t
    BY Zenon DEF Bijection, Injection, Surjection, IsInjective
  <1>2. PICK m : m = [xt \in S \X T |-> IF f[xt[1]] = xt[2] THEN h[xt[1]] ELSE 0]
    OBVIOUS
  <1>3. \A x \in S, t \in T : m[<<x, t>>] = IF f[x] = t THEN h[x] ELSE 0
    BY <1>2
  <1>4. ASSUME NEW x \in S, NEW t \in T PROVE m[<<x, t>>] \in Int
    <2>1. h[x] \in Int /\ m[<<x, t>>] = IF f[x] = t THEN h[x] ELSE 0
      BY <1>3
    <2> QED BY <2>1
  <1>5. SumFunctionOnSet(ColumnSums(m, S, T), S) = SumFunctionOnSet(RowSums(m, S, T), T)
    BY <1>4, SumSwap
  <1>6. ASSUME NEW x \in S PROVE ColumnSums(m, S, T)[x] = h[x]
    <2> DEFINE g == [t \in T |-> m[<<x, t>>]]
    <2>1. f[x] \in T /\ h[x] \in Int /\ \A t \in T : g[t] = IF t = f[x] THEN h[x] ELSE 0
      BY <1>1, <1>3
    <2>2. ColumnSums(m, S, T)[x] = SumFunctionOnSet(g, T)
      BY DEF ColumnSums
    <2> HIDE DEF g
    <2> QED BY <2>1, <2>2, SumPoint
  <1>7. ASSUME NEW t \in T PROVE RowSums(m, S, T)[t] = v[t]
    <2> DEFINE g == [x \in S |-> m[<<x, t>>]]
    <2>1. PICK y \in S : f[y] = t
      BY <1>1
    <2>2. h[y] \in Int /\ h[y] = v[t]
      BY <2>1
    <2>3. \A x \in S : g[x] = IF x = y THEN h[y] ELSE 0
      BY <1>1, <1>3, <2>1
    <2>4. RowSums(m, S, T)[t] = SumFunctionOnSet(g, S)
      BY DEF RowSums
    <2> HIDE DEF g
    <2> QED BY <2>2, <2>3, <2>4, SumPoint
  <1>8. SumFunctionOnSet(ColumnSums(m, S, T), S) = SumFunctionOnSet(h, S)
    BY <1>6, SumSame DEF SameOn
  <1>9. SumFunctionOnSet(RowSums(m, S, T), T) = SumFunctionOnSet(v, T)
    BY <1>7, SumSame DEF SameOn
  <1> QED BY <1>5, <1>8, <1>9

\* Each line of the order is on the invoice of its seller, and the fee on the store's.
LEMMA InvoiceSum ==
    ASSUME OrderMade, NEW seller, NEW table \in Tables, NEW v, \A i \in Lines : v[i] \in Int, NEW w \in Int, NEW h,
           \A i \in Lines : \A k \in DOMAIN InvoiceLines(seller, table) :
              InvoiceLines(seller, table)[k] = LineOf(i, table) => h[k] = v[i],
           \A k \in DOMAIN InvoiceLines(seller, table) : InvoiceLines(seller, table)[k] = FeeLine => h[k] = w
    PROVE  SumFunctionOnSet(h, DOMAIN InvoiceLines(seller, table))
             = SumFunctionOnSet(v, Mine(seller)) + IF seller = Store /\ order.fee > 0 THEN w ELSE 0
  <1>1. PICK n \in Nat : n = Cardinality(Mine(seller))
    BY MineParts
  <1>2. PICK lines, mine : lines = InvoiceLines(seller, table) /\ mine = InOrder(Mine(seller))
    OBVIOUS
  <1>3. PICK m \in Nat : m = IF seller = Store /\ order.fee > 0 THEN n + 1 ELSE n
    OBVIOUS
  <1>4. /\ IsSeq(lines) /\ Len(lines) = m
        /\ \A k \in 1 .. n : mine[k] \in Mine(seller) /\ lines[k] = LineOf(mine[k], table)
        /\ m = n + 1 => lines[n + 1] = FeeLine
    BY <1>1, <1>2, <1>3, InvoiceLinesParts
  <1>5. DOMAIN lines = 1 .. m
    BY <1>4, SeqParts
  <1>6. mine \in Bijection(1 .. n, Mine(seller)) /\ IsFiniteSet(Mine(seller))
    BY <1>1, <1>2, MineParts, InOrderParts
  <1>7. \A i \in Mine(seller) : i \in Lines /\ v[i] \in Int
    BY MineParts
  <1>8. ASSUME NEW k \in 1 .. n PROVE h[k] = v[mine[k]] /\ h[k] \in Int
    <2>1. mine[k] \in Lines /\ v[mine[k]] \in Int /\ lines[k] = LineOf(mine[k], table)
      BY <1>4, <1>7
    <2>2. k \in DOMAIN lines
      BY <1>3, <1>5
    <2> QED BY <1>2, <2>1, <2>2
  <1>9. IsFiniteSet(1 .. n)
    <2>1. 1 \in Int /\ n \in Int
      OBVIOUS
    <2> QED BY <2>1, FS_Interval
  <1>a. SumFunctionOnSet(h, 1 .. n) = SumFunctionOnSet(v, Mine(seller))
    <2>1. PICK S, T : /\ S = 1 .. n /\ T = Mine(seller) /\ IsFiniteSet(S) /\ IsFiniteSet(T)
                      /\ mine \in Bijection(S, T) /\ \A k \in S : h[k] \in Int /\ h[k] = v[mine[k]]
      BY <1>6, <1>8, <1>9
    <2>2. SumFunctionOnSet(h, S) = SumFunctionOnSet(v, T)
      BY <2>1, SumReordered
    <2> QED BY <2>1, <2>2, Zenon
  <1>b. CASE m = n
    <2>1. DOMAIN lines = 1 .. n /\ ~ (seller = Store /\ order.fee > 0)
      BY <1>3, <1>5, <1>b
    <2>2. SumFunctionOnSet(v, Mine(seller)) \in Int
      BY <1>6, <1>7, SumInt
    <2> QED BY <1>2, <1>a, <2>1, <2>2
  <1>c. CASE m = n + 1
    <2>1. PICK T, x : T = 1 .. m /\ x = n + 1
      OBVIOUS
    <2>2. T \ {x} = 1 .. n /\ x \in T /\ seller = Store /\ order.fee > 0
      BY <1>3, <1>c, <2>1
    <2>3. h[x] = w
      BY <1>2, <1>4, <1>5, <1>c, <2>1, <2>2
    <2>4. \A y \in T : h[y] \in Int
      <3>1. \A y \in T : y \in 1 .. n \/ y = x
        BY <1>c, <2>1
      <3> QED BY <1>8, <2>3, <3>1
    <2>5. IsFiniteSet(T)
      <3>1. 1 \in Int /\ m \in Int
        OBVIOUS
      <3> QED BY <2>1, <3>1, FS_Interval
    <2>6. SumFunctionOnSet(h, T) = h[x] + SumFunctionOnSet(h, T \ {x})
      BY <2>2, <2>4, <2>5, SumTake
    <2>7. SumFunctionOnSet(v, Mine(seller)) \in Int
      BY <1>6, <1>7, SumInt
    <2>8. SumFunctionOnSet(h, DOMAIN InvoiceLines(seller, table)) = w + SumFunctionOnSet(v, Mine(seller))
      BY <1>2, <1>5, <1>a, <2>1, <2>2, <2>3, <2>6
    <2> QED BY <2>2, <2>7, <2>8
  <1> QED BY <1>3, <1>b, <1>c

\* One document per seller of a set that covers the order: together, they are the order.
LEMMA InvoicesSum ==
    ASSUME OrderMade, NEW D, IsFiniteSet(D), NEW of,
           \A d, e \in D : of[d] = of[e] => d = e,
           \A i \in Lines : \E d \in D : of[d] = Items[i].seller,
           order.fee > 0 => \E d \in D : of[d] = Store,
           NEW v, \A i \in Lines : v[i] \in Int, NEW w \in Int, NEW g,
           \A d \in D : g[d] = SumFunctionOnSet(v, Mine(of[d]))
                                  + IF of[d] = Store /\ order.fee > 0 THEN w ELSE 0
    PROVE  SumFunctionOnSet(g, D) = SumFunctionOnSet(v, Lines) + IF order.fee > 0 THEN w ELSE 0
  <1>1. IsFiniteSet(Lines)
    BY OrderSums
  <1>2. PICK m : m = [di \in D \X Lines |-> IF Items[di[2]].seller = of[di[1]] THEN v[di[2]] ELSE 0]
    OBVIOUS
  <1>3. \A d \in D, i \in Lines : m[<<d, i>>] = IF Items[i].seller = of[d] THEN v[i] ELSE 0
    BY <1>2
  <1>4. ASSUME NEW d \in D, NEW i \in Lines PROVE m[<<d, i>>] \in Int
    <2>1. v[i] \in Int /\ m[<<d, i>>] = IF Items[i].seller = of[d] THEN v[i] ELSE 0
      BY <1>3
    <2> QED BY <2>1
  <1>5. SumFunctionOnSet(ColumnSums(m, D, Lines), D) = SumFunctionOnSet(RowSums(m, D, Lines), Lines)
    BY <1>1, <1>4, SumSwap
  <1>6. ASSUME NEW d \in D
        PROVE  /\ ColumnSums(m, D, Lines)[d] = SumFunctionOnSet(v, Mine(of[d]))
               /\ SumFunctionOnSet(v, Mine(of[d])) \in Int
    <2> DEFINE r == [i \in Lines |-> m[<<d, i>>]]
    <2>1. PICK R : R = Mine(of[d]) /\ R \in SUBSET Lines /\ IsFiniteSet(R)
      BY MineParts
    <2>2. \A i \in Lines : r[i] = IF i \in R THEN v[i] ELSE 0
      BY <1>3, <2>1 DEF Mine
    <2>3. ColumnSums(m, D, Lines)[d] = SumFunctionOnSet(r, Lines)
      BY DEF ColumnSums
    <2> HIDE DEF r
    <2>4. /\ \A i \in R : v[i] \in Int /\ r[i] = v[i]
          /\ \A i \in Lines \ R : r[i] = 0
      BY <2>1, <2>2
    <2>5. SumFunctionOnSet(v, R) = SumFunctionOnSet(r, Lines)
      BY <1>1, <2>1, <2>4, SumWithin
    <2>6. SumFunctionOnSet(v, R) \in Int
      BY <2>1, <2>4, SumInt
    <2> QED BY <2>1, <2>3, <2>5, <2>6
  <1>7. ASSUME NEW i \in Lines PROVE RowSums(m, D, Lines)[i] = v[i]
    <2> DEFINE c == [d \in D |-> m[<<d, i>>]]
    <2>1. PICK b \in D : of[b] = Items[i].seller
      OBVIOUS
    <2>2. \A d \in D : c[d] = IF d = b THEN v[i] ELSE 0
      BY <1>3, <2>1
    <2>3. RowSums(m, D, Lines)[i] = SumFunctionOnSet(c, D)
      BY DEF RowSums
    <2> HIDE DEF c
    <2>4. PICK a \in Int : a = v[i]
      OBVIOUS
    <2>5. SumFunctionOnSet(c, D) = a
      BY <2>2, <2>4, SumPoint
    <2> QED BY <2>3, <2>4, <2>5
  <1>8. SumFunctionOnSet(RowSums(m, D, Lines), Lines) = SumFunctionOnSet(v, Lines)
    BY <1>1, <1>7, SumSame DEF SameOn
  <1>9. PICK cols, fee : /\ cols = ColumnSums(m, D, Lines)
                         /\ fee = [d \in D |-> IF of[d] = Store /\ order.fee > 0 THEN w ELSE 0]
    OBVIOUS
  <1>a. SumFunctionOnSet(g, D) = SumFunctionOnSet(cols, D) + SumFunctionOnSet(fee, D)
    <2>1. \A d \in D : cols[d] \in Int /\ fee[d] \in Int /\ g[d] = cols[d] + fee[d]
      BY <1>6, <1>9
    <2> QED BY <2>1, SumPlus
  <1>b. SumFunctionOnSet(fee, D) = IF order.fee > 0 THEN w ELSE 0
    <2>1. CASE order.fee > 0
      <3>1. PICK b \in D : of[b] = Store
        BY <2>1
      <3>2. \A d \in D : fee[d] = IF d = b THEN w ELSE 0
        BY <1>9, <2>1, <3>1
      <3>3. SumFunctionOnSet(fee, D) = w
        BY <3>2, SumPoint
      <3> QED BY <2>1, <3>3
    <2>2. CASE ~ (order.fee > 0)
      <3>1. \A d \in D : fee[d] = 0
        BY <1>9, <2>2
      <3>2. SumFunctionOnSet(fee, D) = 0
        BY <3>1, SumZero
      <3> QED BY <2>2, <3>2
    <2> QED BY <2>1, <2>2
  <1> QED BY <1>5, <1>8, <1>9, <1>a, <1>b

\* Every seller of the order once, and the store for the fee.
LEMMA SellersCover ==
    ASSUME OrderMade
    PROVE  /\ IsSeq(Sellers) /\ Len(Sellers) \in Nat \ {0} /\ DOMAIN Sellers = 1 .. Len(Sellers)
           /\ \A j, k \in 1 .. Len(Sellers) : Sellers[j] = Sellers[k] => j = k
           /\ \A i \in Lines : \E k \in 1 .. Len(Sellers) : Sellers[k] = Items[i].seller
           /\ order.fee > 0 => \E k \in 1 .. Len(Sellers) : Sellers[k] = Store
  <1>1. PICK n \in Nat : n = Cardinality(Heads)
    <2>1. Heads \in SUBSET Lines
      BY DEF Heads
    <2> QED BY <2>1, OrderSums, FS_Subset, FS_CardinalityType
  <1>2. PICK alone \in BOOLEAN : alone <=> order.fee > 0 /\ \A i \in Lines : Items[i].seller # Store
    OBVIOUS
  <1>3. PICK m \in Nat \ {0} : m = Len(Sellers) /\ m = IF alone THEN n + 1 ELSE n
    BY <1>1, <1>2, SellersParts
  <1>4. PICK first : first = InOrder(Heads)
    OBVIOUS
  <1>5. /\ IsSeq(Sellers) /\ first \in Bijection(1 .. n, Heads)
        /\ \A k \in 1 .. n : Sellers[k] = Items[first[k]].seller
        /\ alone => Sellers[n + 1] = Store
    BY <1>1, <1>2, <1>4, SellersParts
  <1>6. /\ first \in [1 .. n -> Heads] /\ \A h \in Heads : \E k \in 1 .. n : first[k] = h
        /\ \A j, k \in 1 .. n : first[j] = first[k] => j = k
    BY <1>5, Zenon DEF Bijection, Injection, Surjection, IsInjective
  <1>7. Lines = 1 .. Len(Items) /\ Len(Items) \in Nat
    BY DEF OrderMade
  <1>8. ASSUME NEW i \in Heads, NEW j \in Heads, Items[i].seller = Items[j].seller PROVE i = j
    <2>1. i \in 1 .. Len(Items) /\ j \in 1 .. Len(Items)
      BY <1>7 DEF Heads
    <2>2. CASE i < j
      <3>1. i \in 1 .. j - 1
        BY <1>7, <2>1, <2>2
      <3> QED BY <1>8, <3>1 DEF Heads
    <2>3. CASE j < i
      <3>1. j \in 1 .. i - 1
        BY <1>7, <2>1, <2>3
      <3> QED BY <1>8, <3>1 DEF Heads
    <2> QED BY <1>7, <2>1, <2>2, <2>3
  <1>9. \A i \in Heads : i \in Lines
    BY DEF Heads
  <1>a. ASSUME NEW j \in 1 .. n, NEW k \in 1 .. n, Sellers[j] = Sellers[k] PROVE j = k
    <2>1. first[j] \in Heads /\ first[k] \in Heads /\ Items[first[j]].seller = Items[first[k]].seller
      BY <1>5, <1>6, <1>a
    <2>2. first[j] = first[k]
      BY <1>8, <2>1
    <2> QED BY <1>6, <2>2
  <1>b. ASSUME alone, NEW k \in 1 .. n PROVE Sellers[k] # Store
    <2>1. first[k] \in Lines /\ Sellers[k] = Items[first[k]].seller
      BY <1>5, <1>6, <1>9
    <2> QED BY <1>2, <1>b, <2>1
  <1>c. ASSUME NEW j \in 1 .. m, NEW k \in 1 .. m, Sellers[j] = Sellers[k] PROVE j = k
    <2>1. CASE ~alone
      BY <1>3, <1>a, <1>c, <2>1
    <2>2. CASE alone
      <3>1. (j \in 1 .. n \/ j = n + 1) /\ (k \in 1 .. n \/ k = n + 1)
        BY <1>3, <2>2
      <3>2. Sellers[n + 1] = Store
        BY <1>5, <2>2
      <3> QED BY <1>a, <1>b, <1>c, <2>2, <3>1, <3>2
    <2> QED BY <2>1, <2>2
  <1>d. ASSUME NEW i \in Lines PROVE \E k \in 1 .. n : Sellers[k] = Items[i].seller
    <2>1. PICK S : S = {j \in Lines : Items[j].seller = Items[i].seller}
      OBVIOUS
    <2>2. S # {} /\ S \in SUBSET (0 .. Len(Items))
      BY <1>7, <2>1
    <2>3. PICK h \in S : \A y \in S : h <= y
      BY <1>7, <2>2, SmallestExists
    <2>4. h \in Heads
      <3>1. h \in Lines /\ Items[h].seller = Items[i].seller /\ h \in 1 .. Len(Items)
        BY <1>7, <2>1
      <3>2. ASSUME NEW j \in 1 .. h - 1 PROVE Items[j].seller # Items[h].seller
        <4>1. j \in Lines /\ ~ (h <= j)
          BY <1>7, <3>1
        <4> QED BY <2>1, <2>3, <3>1, <4>1
      <3> QED BY <3>1, <3>2 DEF Heads
    <2>5. PICK k \in 1 .. n : first[k] = h
      BY <1>6, <2>4
    <2> QED BY <1>5, <2>1, <2>3, <2>5
  <1>e. \A i \in Lines : \E k \in 1 .. m : Sellers[k] = Items[i].seller
    <2>1. \A k \in 1 .. n : k \in 1 .. m
      BY <1>3
    <2> QED BY <1>d, <2>1
  <1>f. order.fee > 0 => \E k \in 1 .. m : Sellers[k] = Store
    <2> SUFFICES ASSUME order.fee > 0 PROVE \E k \in 1 .. m : Sellers[k] = Store
      OBVIOUS
    <2>1. CASE alone
      <3>1. n + 1 \in 1 .. m
        BY <1>3, <2>1
      <3> QED BY <1>5, <2>1, <3>1
    <2>2. CASE ~alone
      <3>1. PICK i \in Lines : Items[i].seller = Store
        BY <1>2, <2>2
      <3> QED BY <1>e, <3>1
    <2> QED BY <2>1, <2>2
  <1>g. DOMAIN Sellers = 1 .. m
    BY <1>3, <1>5, SeqParts
  <1> QED BY <1>3, <1>5, <1>c, <1>e, <1>f, <1>g

-----------------------------------------------------------------------------
(* Who writes the invoices. *)

Invoices == Documents("invoice")
Issuing(p) == task[p].does = "invoice"

\* A request that has the sellers after the first k still to invoice.
From(p, k) ==
    /\ Issuing(p) /\ k < Len(Sellers)
    /\ Len(task[p].todo) = Len(Sellers) - k
    /\ \A j \in 1 .. Len(Sellers) - k : task[p].todo[j] = Sellers[k + j]

\* The first m sellers are invoiced, once each.  One request at most goes on after
\* them, and if none died, it does; the others are still before the first.
IssuedTo(m) ==
    /\ \A d \in Invoices : \E j \in 1 .. m : docs[d].seller = Sellers[j]
    /\ \A j \in 1 .. m : \E d \in Invoices : docs[d].seller = Sellers[j]
    /\ \A p \in Writers : Issuing(p) => From(p, 0) \/ From(p, m)
    /\ m > 0 => \A p, q \in Writers : From(p, m) /\ From(q, m) => p = q
    /\ m > 0 /\ m < Len(Sellers) /\ stops = 0 => \E p \in Writers : From(p, m)

IssuesMade ==
    /\ stops \in Nat
    /\ \A d, e \in Invoices : docs[d].seller = docs[e].seller => d = e
    /\ \E m \in 0 .. Len(Sellers) : IssuedTo(m)

LEMMA IssuesInit == ASSUME SaleInit PROVE IssuesMade
  <1>1. /\ docs = <<>> /\ stops = 0 /\ task = [p \in Writers |-> NoTask]
    BY DEF SaleInit
  <1>2. Invoices = {}
    BY <1>1, EmptySeqParts DEF Invoices, Documents
  <1>3. Len(Sellers) \in Nat \ {0}
    BY SaleInitOrder, SellersCover
  <1>4. \A p \in Writers : ~Issuing(p)
    BY <1>1 DEF Issuing, NoTask
  <1>5. IssuedTo(0)
    BY <1>2, <1>4 DEF IssuedTo
  <1> QED BY <1>1, <1>2, <1>3, <1>5 DEF IssuesMade

\* Whatever leaves the invoices and their writers alone.
LEMMA IssuesSame ==
    ASSUME IssuesMade, Sellers' = Sellers, stops' = stops, Invoices' = Invoices,
           \A d \in Invoices : docs'[d].seller = docs[d].seller,
           \A p \in Writers : task'[p] = task[p] \/ (task[p].does # "invoice" /\ task'[p].does # "invoice")
    PROVE  IssuesMade'
  <1>1. PICK m \in 0 .. Len(Sellers) : IssuedTo(m)
    BY DEF IssuesMade
  <1>2. \A p \in Writers : \A k : From(p, k)' <=> From(p, k)
    <2> SUFFICES ASSUME NEW p \in Writers, NEW k PROVE From(p, k)' <=> From(p, k)
      OBVIOUS
    <2>1. CASE task'[p] = task[p]
      BY <2>1, Zenon DEF From, Issuing
    <2>2. CASE task[p].does # "invoice" /\ task'[p].does # "invoice"
      BY <2>2, Zenon DEF From, Issuing
    <2> QED BY <2>1, <2>2
  <1>3. \A p \in Writers : Issuing(p)' <=> Issuing(p)
    BY DEF Issuing
  <1>4. IssuedTo(m)'
    BY <1>1, <1>2, <1>3 DEF IssuedTo
  <1>5. \A d, e \in Invoices' : docs'[d].seller = docs'[e].seller => d = e
    BY DEF IssuesMade
  <1>6. stops' \in Nat /\ m \in 0 .. Len(Sellers')
    BY DEF IssuesMade
  <1> QED BY <1>4, <1>5, <1>6 DEF IssuesMade

LEMMA StopIssues ==
    ASSUME SaleBooksInv, IssuesMade, NEW p \in Writers, Stop(p)
    PROVE  IssuesMade'
  <1>1. /\ task' = [task EXCEPT ![p] = NoTask] /\ docs' = docs /\ stops' = stops + 1 /\ order' = order
    BY DEF Stop, Figures
  <1>2. Sellers' = Sellers /\ Invoices' = Invoices
    BY <1>1, OrderSame DEF Invoices, Documents
  <1>3. PICK m \in 0 .. Len(Sellers) : IssuedTo(m)
    BY DEF IssuesMade
  <1>4. DOMAIN task = Writers
    BY DEF SaleBooksInv, TasksMade
  <1>5. ~Issuing(p)' /\ \A q \in Writers : q # p => task'[q] = task[q]
    BY <1>1, <1>4 DEF Issuing, NoTask
  <1>6. \A q \in Writers : \A k : q # p => (From(q, k)' <=> From(q, k))
    <2> SUFFICES ASSUME NEW q \in Writers, NEW k, q # p PROVE From(q, k)' <=> From(q, k)
      OBVIOUS
    <2>1. task'[q] = task[q]
      BY <1>5
    <2> QED BY <1>2, <2>1, Zenon DEF From, Issuing
  <1>7. \A k : ~From(p, k)'
    BY <1>5 DEF From
  <1>8. stops \in Nat /\ stops' # 0 /\ stops' \in Nat
    BY <1>1 DEF IssuesMade
  <1>9. \A q \in Writers : q # p => (Issuing(q)' <=> Issuing(q))
    BY <1>5 DEF Issuing
  <1>a. IssuedTo(m)'
    BY <1>1, <1>2, <1>3, <1>5, <1>6, <1>7, <1>8, <1>9 DEF IssuedTo
  <1>b. \A d, e \in Invoices' : docs'[d].seller = docs'[e].seller => d = e
    BY <1>1, <1>2 DEF IssuesMade
  <1>c. m \in 0 .. Len(Sellers')
    BY <1>2
  <1> QED BY <1>8, <1>a, <1>b, <1>c DEF IssuesMade

LEMMA IssueFindIssues ==
    ASSUME SaleBooksInv, IssuesMade, NEW p \in Writers, IssueFind(p)
    PROVE  IssuesMade'
  <1>0. PICK t : t.does = "invoice" /\ t.todo = Sellers /\ task' = [task EXCEPT ![p] = t]
    <2>1. PICK table, t : /\ t = [does |-> "invoice", refund |-> 0, table |-> table, todo |-> Sellers]
                          /\ task' = [task EXCEPT ![p] = t]
      BY DEF IssueFind
    <2> QED BY <2>1
  <1>1. /\ docs' = docs /\ stops' = stops /\ order' = order /\ Invoices = {} /\ ~Issuing(p)
    BY DEF IssueFind, Figures, Invoices, Issuing
  <1>2. Sellers' = Sellers /\ Invoices' = Invoices
    BY <1>1, OrderSame DEF Invoices, Documents
  <1>3. PICK m \in 0 .. Len(Sellers) : IssuedTo(m)
    BY DEF IssuesMade
  <1>4. Len(Sellers) \in Nat \ {0} /\ DOMAIN task = Writers
    BY SellersCover DEF SaleBooksInv, TasksMade
  <1>5. m = 0
    <2> SUFFICES ASSUME m # 0 PROVE FALSE
      OBVIOUS
    <2>1. 1 \in 1 .. m
      BY <1>4
    <2> QED BY <1>1, <1>3, <2>1 DEF IssuedTo
  <1>6. From(p, 0)'
    <2>1. task'[p] = t
      BY <1>0, <1>4
    <2>2. \A j \in 1 .. Len(Sellers) - 0 : 0 + j = j
      BY <1>4
    <2>3. 0 < Len(Sellers) /\ Len(Sellers) = Len(Sellers) - 0
      BY <1>4
    <2>4. task'[p].does = "invoice" /\ task'[p].todo = Sellers
      BY <1>0, <2>1
    <2> QED BY <1>2, <2>2, <2>3, <2>4 DEF From, Issuing
  <1>7. \A q \in Writers : q # p => task'[q] = task[q]
    BY <1>0, <1>4
  <1>8. \A q \in Writers : \A k : q # p => (From(q, k)' <=> From(q, k))
    <2> SUFFICES ASSUME NEW q \in Writers, NEW k, q # p PROVE From(q, k)' <=> From(q, k)
      OBVIOUS
    <2>1. task'[q] = task[q]
      BY <1>7
    <2> QED BY <1>2, <2>1, Zenon DEF From, Issuing
  <1>9. \A q \in Writers : q # p => (Issuing(q)' <=> Issuing(q))
    BY <1>7 DEF Issuing
  <1>a. IssuedTo(0)'
    BY <1>1, <1>2, <1>3, <1>5, <1>6, <1>8, <1>9 DEF IssuedTo
  <1>b. \A d, e \in Invoices' : docs'[d].seller = docs'[e].seller => d = e
    BY <1>1, <1>2
  <1>c. 0 \in 0 .. Len(Sellers') /\ stops' \in Nat
    BY <1>1, <1>2, <1>4 DEF IssuesMade
  <1> QED BY <1>a, <1>b, <1>c DEF IssuesMade

\* The first seller of the work left, and the work after him.
LEMMA FromParts ==
    ASSUME OrderMade, TasksMade, NEW p \in Writers, NEW k \in Nat, From(p, k)
    PROVE  /\ k + 1 \in 1 .. Len(Sellers) /\ Head(task[p].todo) = Sellers[k + 1]
           /\ Tail(task[p].todo) = <<>> <=> k + 1 = Len(Sellers)
           /\ Len(Tail(task[p].todo)) = Len(Sellers) - (k + 1)
           /\ \A j \in 1 .. Len(Sellers) - (k + 1) : Tail(task[p].todo)[j] = Sellers[k + 1 + j]
           /\ task[p] = [does |-> "invoice", refund |-> task[p].refund, table |-> task[p].table,
                         todo |-> task[p].todo]
  <1>1. PICK n \in Nat : n = Len(Sellers)
    BY SellersCover
  <1>2. PICK t : t = task[p] /\ TaskMade(t)
    BY DEF TasksMade
  <1>3. PICK s : s = t.todo
    OBVIOUS
  <1>4. /\ t.does = "invoice" /\ IsSeq(s) /\ s # <<>> /\ k < n /\ Len(s) = n - k
        /\ \A j \in 1 .. n - k : s[j] = Sellers[k + j]
    BY <1>1, <1>2, <1>3 DEF From, Issuing, TaskMade
  <1>5. PICK rest : rest = Tail(s)
    OBVIOUS
  <1>6. /\ IsSeq(rest) /\ Len(rest) = n - (k + 1) /\ Head(s) = s[1]
        /\ \A j \in 1 .. n - (k + 1) : rest[j] = s[j + 1]
    <2>1. Len(s) - 1 = n - (k + 1)
      BY <1>4
    <2> QED BY <1>4, <1>5, <2>1, TailParts
  <1>7. s[1] = Sellers[k + 1] /\ k + 1 \in 1 .. n
    BY <1>4
  <1>8. ASSUME NEW j \in 1 .. n - (k + 1) PROVE rest[j] = Sellers[k + 1 + j]
    <2>1. j + 1 \in 1 .. n - k /\ k + (j + 1) = k + 1 + j
      OBVIOUS
    <2> QED BY <1>4, <1>6, <2>1
  <1>9. rest = <<>> <=> k + 1 = n
    <2>1. rest = <<>> <=> Len(rest) = 0
      BY <1>6, SeqParts
    <2> QED BY <1>4, <1>6, <2>1
  <1>a. t = [does |-> "invoice", refund |-> t.refund, table |-> t.table, todo |-> t.todo]
    BY <1>2, <1>4, Zenon DEF TaskMade
  <1> QED BY <1>1, <1>2, <1>3, <1>5, <1>6, <1>7, <1>8, <1>9, <1>a

\* The work left says how many sellers it is after.
LEMMA FromOnce ==
    ASSUME OrderMade, NEW p, NEW j \in Nat, NEW k \in Nat, From(p, j), From(p, k)
    PROVE  j = k
  <1>1. PICK n \in Nat : n = Len(Sellers)
    BY SellersCover
  <1>2. n - j = n - k
    BY <1>1 DEF From
  <1> QED BY <1>2

\* Who is next, of those invoiced and those not.
LEMMA NextSeller ==
    ASSUME OrderMade, TasksMade, NEW m \in 0 .. Len(Sellers), IssuedTo(m), NEW p \in Writers, Issuing(p)
    PROVE  \/ m > 0 /\ From(p, 0) /\ Invoiced(Head(task[p].todo))
           \/ From(p, m) /\ ~Invoiced(Head(task[p].todo))
  <1>1. PICK n \in Nat : /\ n = Len(Sellers) /\ m \in 0 .. n
                         /\ \A j, k \in 1 .. n : Sellers[j] = Sellers[k] => j = k
    BY SellersCover
  <1>2. CASE From(p, m)
    <2>1. Head(task[p].todo) = Sellers[m + 1] /\ m + 1 \in 1 .. n
      <3>1. m \in Nat
        BY <1>1
      <3> QED BY <1>1, <1>2, <3>1, FromParts
    <2>2. ASSUME NEW d \in Invoices, docs[d].seller = Sellers[m + 1] PROVE FALSE
      <3>1. PICK j \in 1 .. m : docs[d].seller = Sellers[j]
        BY DEF IssuedTo
      <3>2. j \in 1 .. n /\ j # m + 1
        BY <1>1
      <3> QED BY <1>1, <2>1, <2>2, <3>1, <3>2
    <2>3. ~Invoiced(Head(task[p].todo))
      BY <2>1, <2>2 DEF Invoiced, Invoices
    <2> QED BY <1>2, <2>3
  <1>3. CASE From(p, 0) /\ m > 0
    <2>1. Head(task[p].todo) = Sellers[0 + 1] /\ 0 + 1 \in 1 .. m
      <3>1. 0 \in Nat /\ 0 + 1 \in 1 .. m
        BY <1>1, <1>3
      <3> QED BY <1>3, <3>1, FromParts
    <2>2. PICK d \in Invoices : docs[d].seller = Sellers[0 + 1]
      BY <2>1 DEF IssuedTo
    <2> QED BY <1>3, <2>1, <2>2 DEF Invoiced, Invoices
  <1>4. From(p, 0) \/ From(p, m)
    BY DEF IssuedTo
  <1>5. m > 0 \/ m = 0
    BY <1>1
  <1> QED BY <1>2, <1>3, <1>4, <1>5

\* One more invoice, of the next seller.
LEMMA InvoicesGrown ==
    ASSUME DocsMade, NEW doc, doc.kind = "invoice", docs' = Append(docs, doc)
    PROVE  \E e : /\ e \notin Invoices /\ Invoices' = Invoices \cup {e} /\ docs'[e] = doc
                  /\ \A d \in Invoices : docs'[d] = docs[d]
  <1>1. PICK n \in Nat : n = Len(docs) /\ DOMAIN docs = 1 .. n
    BY SeqParts DEF DocsMade
  <1>2. /\ DOMAIN docs' = 1 .. n + 1 /\ docs'[n + 1] = doc
        /\ \A d \in 1 .. n : docs'[d] = docs[d]
    BY <1>1, AppendParts DEF DocsMade
  <1>3. PICK e \in Nat : e = n + 1
    OBVIOUS
  <1>4. e \notin 1 .. n /\ 1 .. n + 1 = (1 .. n) \cup {e}
    BY <1>3
  <1>5. Invoices = {d \in 1 .. n : docs[d].kind = "invoice"}
    BY <1>1 DEF Invoices, Documents
  <1>6. Invoices' = {d \in (1 .. n) \cup {e} : docs'[d].kind = "invoice"}
    BY <1>2, <1>4 DEF Invoices, Documents
  <1>7. Invoices' = Invoices \cup {e}
    BY <1>2, <1>3, <1>4, <1>5, <1>6
  <1> QED BY <1>2, <1>3, <1>4, <1>5, <1>7

LEMMA OthersKeep ==
    ASSUME TasksMade, NEW p \in Writers, NEW todo, Continue(p, todo), Sellers' = Sellers
    PROVE  /\ \A q \in Writers : q # p => task'[q] = task[q]
           /\ \A q \in Writers : \A k : q # p => (From(q, k)' <=> From(q, k))
           /\ \A q \in Writers : q # p => (Issuing(q)' <=> Issuing(q))
           /\ task'[p] = IF todo = <<>> THEN NoTask ELSE [task[p] EXCEPT !.todo = todo]
  <1>1. DOMAIN task = Writers
    BY DEF TasksMade
  <1>2. /\ \A q \in Writers : q # p => task'[q] = task[q]
        /\ task'[p] = IF todo = <<>> THEN NoTask ELSE [task[p] EXCEPT !.todo = todo]
    BY <1>1 DEF Continue
  <1>3. ASSUME NEW q \in Writers, NEW k, q # p PROVE From(q, k)' <=> From(q, k)
    <2>1. task'[q] = task[q]
      BY <1>2, <1>3
    <2> QED BY <2>1, Zenon DEF From, Issuing
  <1>4. ASSUME NEW q \in Writers, q # p PROVE Issuing(q)' <=> Issuing(q)
    <2>1. task'[q] = task[q]
      BY <1>2, <1>4
    <2> QED BY <2>1, Zenon DEF Issuing
  <1> QED BY <1>2, <1>3, <1>4

\* A request that finds its first seller invoiced gives up.
LEMMA GiveUpIssues ==
    ASSUME SaleBooksInv, IssuesMade, NEW p \in Writers, Issuing(p),
           Invoiced(Head(task[p].todo)), Continue(p, <<>>),
           order' = order, docs' = docs, stops' = stops
    PROVE  IssuesMade'
  <1>1. Sellers' = Sellers /\ Invoices' = Invoices
    BY OrderSame DEF Invoices, Documents
  <1>2. PICK m \in 0 .. Len(Sellers) : IssuedTo(m)
    BY DEF IssuesMade
  <1>3. OrderMade /\ TasksMade /\ Len(Sellers) \in Nat \ {0}
    BY SellersCover DEF SaleBooksInv
  <1>4. m > 0 /\ From(p, 0)
    BY <1>2, <1>3, NextSeller
  <1>5. ~From(p, m)
    <2>1. m \in Nat /\ m # 0
      BY <1>3, <1>4
    <2> QED BY <1>3, <1>4, <2>1, FromOnce
  <1>6. /\ \A q \in Writers : \A k : q # p => (From(q, k)' <=> From(q, k))
        /\ \A q \in Writers : q # p => (Issuing(q)' <=> Issuing(q))
        /\ task'[p] = NoTask
    <2>1. task'[p] = IF <<>> = <<>> THEN NoTask ELSE [task[p] EXCEPT !.todo = <<>>]
      BY <1>1, <1>3, OthersKeep
    <2> QED BY <1>1, <1>3, <2>1, OthersKeep
  <1>7. ~Issuing(p)'
    BY <1>6 DEF Issuing, NoTask
  <1>8. \A k : ~From(p, k)'
    BY <1>7 DEF From
  <1>9. IssuedTo(m)'
    BY <1>1, <1>2, <1>5, <1>6, <1>7, <1>8 DEF IssuedTo
  <1>a. \A d, e \in Invoices' : docs'[d].seller = docs'[e].seller => d = e
    BY <1>1 DEF IssuesMade
  <1>b. m \in 0 .. Len(Sellers') /\ stops' \in Nat
    BY <1>1 DEF IssuesMade
  <1> QED BY <1>9, <1>a, <1>b DEF IssuesMade

\* A request that writes the next seller's invoice goes on after him.
LEMMA WriteIssues ==
    ASSUME SaleBooksInv, IssuesMade, NEW p \in Writers, Issuing(p),
           ~Invoiced(Head(task[p].todo)), Continue(p, Tail(task[p].todo)),
           NEW doc, doc.kind = "invoice", doc.seller = Head(task[p].todo),
           docs' = Append(docs, doc), order' = order, stops' = stops
    PROVE  IssuesMade'
  <1>1. Sellers' = Sellers
    BY OrderSame
  <1>2. PICK m \in 0 .. Len(Sellers) : IssuedTo(m)
    BY DEF IssuesMade
  <1>3. OrderMade /\ TasksMade /\ DocsMade
    BY DEF SaleBooksInv
  <1>4. PICK n \in Nat \ {0} : n = Len(Sellers)
    BY <1>3, SellersCover
  <1>5. m \in Nat /\ m <= n
    BY <1>4
  <1>6. From(p, m)
    BY <1>2, <1>3, NextSeller
  <1>7. PICK rest, t : rest = Tail(task[p].todo) /\ t = task[p]
    OBVIOUS
  <1>8. /\ m + 1 \in 1 .. n /\ doc.seller = Sellers[m + 1]
        /\ rest = <<>> <=> m + 1 = n
        /\ Len(rest) = n - (m + 1)
        /\ \A j \in 1 .. n - (m + 1) : rest[j] = Sellers[m + 1 + j]
        /\ t = [does |-> "invoice", refund |-> t.refund, table |-> t.table, todo |-> t.todo]
    BY <1>3, <1>4, <1>5, <1>6, <1>7, FromParts
  <1>9. PICK e : /\ e \notin Invoices /\ Invoices' = Invoices \cup {e} /\ docs'[e] = doc
                 /\ \A d \in Invoices : docs'[d] = docs[d]
    BY <1>3, InvoicesGrown
  <1>a. /\ \A q \in Writers : \A k : q # p => (From(q, k)' <=> From(q, k))
        /\ \A q \in Writers : q # p => (Issuing(q)' <=> Issuing(q))
        /\ task'[p] = IF rest = <<>> THEN NoTask ELSE [t EXCEPT !.todo = rest]
    BY <1>1, <1>3, <1>7, OthersKeep
  <1>b. PICK M \in Nat : M = m + 1
    BY <1>5
  <1>w. rest # <<>> => task'[p].does = "invoice" /\ task'[p].todo = rest
    <2>1. PICK r, b, s : t = [does |-> "invoice", refund |-> r, table |-> b, todo |-> s]
      BY <1>8
    <2>2. rest # <<>> => task'[p] = [t EXCEPT !.todo = rest]
      BY <1>a
    <2>3. [t EXCEPT !.todo = rest].does = "invoice" /\ [t EXCEPT !.todo = rest].todo = rest
      BY <2>1
    <2> QED BY <2>2, <2>3
  <1>c. Issuing(p)' => M < n /\ From(p, M)'
    <2> SUFFICES ASSUME Issuing(p)' PROVE M < n /\ From(p, M)'
      OBVIOUS
    <2>1. rest # <<>>
      BY <1>a DEF Issuing, NoTask
    <2>3. task'[p].todo = rest
      BY <1>w, <2>1
    <2>4. M < n
      BY <1>5, <1>8, <1>b, <2>1
    <2> QED BY <1>1, <1>4, <1>8, <1>b, <2>3, <2>4, Zenon DEF From
  <1>d. M < n => From(p, M)'
    <2> SUFFICES ASSUME M < n PROVE From(p, M)'
      OBVIOUS
    <2>1. rest # <<>>
      BY <1>8, <1>b
    <2>2. Issuing(p)'
      BY <1>w, <2>1 DEF Issuing
    <2> QED BY <1>c, <2>2
  <1>e. ASSUME NEW q \in Writers, q # p, Issuing(q)' PROVE From(q, 0)' /\ ~From(q, M)'
    <2>1. Issuing(q)
      BY <1>a, <1>e
    <2>2. From(q, 0)
      <3>1. From(q, 0) \/ From(q, m)
        BY <1>2, <2>1 DEF IssuedTo
      <3>2. m > 0 => ~From(q, m)
        BY <1>2, <1>6, <1>e DEF IssuedTo
      <3>3. m > 0 \/ m = 0
        BY <1>5
      <3> QED BY <3>1, <3>2, <3>3
    <2>3. ~From(q, M)
      <3>1. M # 0
        BY <1>5, <1>b
      <3> QED BY <1>3, <1>b, <2>2, <3>1, FromOnce
    <2> QED BY <1>a, <1>e, <2>2, <2>3
  <1>f. \A d \in Invoices' : \E j \in 1 .. M : docs'[d].seller = Sellers[j]
    <2> SUFFICES ASSUME NEW d \in Invoices' PROVE \E j \in 1 .. M : docs'[d].seller = Sellers[j]
      OBVIOUS
    <2>1. CASE d \in Invoices
      <3>1. PICK j \in 1 .. m : docs[d].seller = Sellers[j]
        BY <1>2, <2>1 DEF IssuedTo
      <3>2. j \in 1 .. M
        BY <1>5, <1>b
      <3> QED BY <1>9, <2>1, <3>1, <3>2
    <2>2. CASE d = e
      <3>1. M \in 1 .. M
        BY <1>5, <1>b
      <3> QED BY <1>8, <1>9, <1>b, <2>2, <3>1
    <2> QED BY <1>9, <2>1, <2>2
  <1>g. \A j \in 1 .. M : \E d \in Invoices' : docs'[d].seller = Sellers[j]
    <2> SUFFICES ASSUME NEW j \in 1 .. M PROVE \E d \in Invoices' : docs'[d].seller = Sellers[j]
      OBVIOUS
    <2>1. CASE j = M
      BY <1>8, <1>9, <1>b, <2>1
    <2>2. CASE j # M
      <3>1. j \in 1 .. m
        BY <1>5, <1>b, <2>2
      <3>2. PICK d \in Invoices : docs[d].seller = Sellers[j]
        BY <1>2, <3>1 DEF IssuedTo
      <3> QED BY <1>9, <3>2
    <2> QED BY <2>1, <2>2
  <1>h. \A q \in Writers : Issuing(q)' => From(q, 0)' \/ From(q, M)'
    BY <1>c, <1>e
  <1>i. \A q, r \in Writers : From(q, M)' /\ From(r, M)' => q = r
    <2>1. ASSUME NEW q \in Writers, From(q, M)' PROVE q = p
      <3>1. Issuing(q)'
        BY <2>1 DEF From
      <3> QED BY <1>e, <2>1, <3>1
    <2> QED BY <2>1
  <1>j. IssuedTo(M)'
    BY <1>1, <1>4, <1>d, <1>f, <1>g, <1>h, <1>i DEF IssuedTo
  <1>k. \A d \in Invoices : docs[d].seller # doc.seller
    BY DEF Invoiced, Invoices
  <1>l. \A d, f \in Invoices' : docs'[d].seller = docs'[f].seller => d = f
    <2> SUFFICES ASSUME NEW d \in Invoices', NEW f \in Invoices', docs'[d].seller = docs'[f].seller
                 PROVE  d = f
      OBVIOUS
    <2>1. CASE d \in Invoices /\ f \in Invoices
      BY <1>9, <2>1 DEF IssuesMade
    <2>2. CASE d \in Invoices /\ f = e
      BY <1>9, <1>k, <2>2
    <2>3. CASE d = e /\ f \in Invoices
      BY <1>9, <1>k, <2>3
    <2> QED BY <1>9, <2>1, <2>2, <2>3
  <1>m. M \in 0 .. Len(Sellers') /\ stops' \in Nat
    BY <1>1, <1>4, <1>8, <1>b DEF IssuesMade
  <1> QED BY <1>j, <1>l, <1>m DEF IssuesMade

LEMMA IssueOneIssues ==
    ASSUME SaleBooksInv, IssuesMade, NEW p \in Writers, IssueOne(p)
    PROVE  IssuesMade'
  <1>1. order' = order /\ stops' = stops /\ Issuing(p)
    BY DEF IssueOne, Figures, Issuing
  <1>2. CASE Invoiced(Head(task[p].todo))
    <2>1. Continue(p, <<>>) /\ docs' = docs
      BY <1>2 DEF IssueOne
    <2> QED BY <1>1, <1>2, <2>1, GiveUpIssues
  <1>3. CASE ~Invoiced(Head(task[p].todo))
    <2>1. PICK seller, lines, total, doc :
            /\ seller = Head(task[p].todo)
            /\ doc = [kind |-> "invoice", seller |-> seller, refund |-> 0, of |-> 0,
                      amount |-> total, lines |-> lines, total |-> total + RoundOff(total)]
            /\ docs' = Append(docs, doc) /\ Continue(p, Tail(task[p].todo))
      BY <1>3 DEF IssueOne
    <2>2. doc.kind = "invoice" /\ doc.seller = Head(task[p].todo)
      BY <2>1
    <2> QED BY <1>1, <1>3, <2>1, <2>2, WriteIssues
  <1> QED BY <1>2, <1>3

\* A credit note changes no invoice.
LEMMA NotesGrown ==
    ASSUME DocsMade, NEW doc, doc.kind = "note", docs' = Append(docs, doc)
    PROVE  Invoices' = Invoices /\ \A d \in Invoices : docs'[d] = docs[d]
  <1>1. PICK n \in Nat : n = Len(docs) /\ DOMAIN docs = 1 .. n
    BY SeqParts DEF DocsMade
  <1>2. /\ DOMAIN docs' = 1 .. n + 1 /\ docs'[n + 1] = doc
        /\ \A d \in 1 .. n : docs'[d] = docs[d]
    BY <1>1, AppendParts DEF DocsMade
  <1>3. PICK e \in Nat : e = n + 1
    OBVIOUS
  <1>4. e \notin 1 .. n /\ 1 .. n + 1 = (1 .. n) \cup {e}
    BY <1>3
  <1>5. Invoices = {d \in 1 .. n : docs[d].kind = "invoice"}
    BY <1>1 DEF Invoices, Documents
  <1>6. Invoices' = {d \in (1 .. n) \cup {e} : docs'[d].kind = "invoice"}
    BY <1>2, <1>4 DEF Invoices, Documents
  <1>7. Invoices' = Invoices
    BY <1>2, <1>3, <1>5, <1>6
  <1> QED BY <1>2, <1>5, <1>7

LEMMA CreditFindIssues ==
    ASSUME SaleBooksInv, IssuesMade, NEW p \in Writers, CreditFind(p)
    PROVE  IssuesMade'
  <1>1. PICK t : t.does = "note" /\ task' = [task EXCEPT ![p] = t]
    <2>1. PICK r, due : task' = [task EXCEPT ![p] = [does |-> "note", refund |-> r, table |-> <<>>, todo |-> due]]
      BY DEF CreditFind
    <2>2. PICK t : t = [does |-> "note", refund |-> r, table |-> <<>>, todo |-> due]
      OBVIOUS
    <2> QED BY <2>1, <2>2
  <1>2. task[p].does = "none" /\ order' = order /\ docs' = docs /\ stops' = stops
    BY DEF CreditFind, Figures
  <1>3. DOMAIN task = Writers
    BY DEF SaleBooksInv, TasksMade
  <1>4. ASSUME NEW q \in Writers
        PROVE  task'[q] = task[q] \/ (task[q].does # "invoice" /\ task'[q].does # "invoice")
    <2>1. CASE q = p
      <3>1. task'[q].does = "note" /\ task[q].does = "none"
        BY <1>1, <1>2, <1>3, <2>1
      <3> QED BY <3>1
    <2>2. CASE q # p
      BY <1>1, <1>3, <2>2
    <2> QED BY <2>1, <2>2
  <1>5. Sellers' = Sellers /\ Invoices' = Invoices
    BY <1>2, OrderSame DEF Invoices, Documents
  <1> QED BY <1>2, <1>4, <1>5, IssuesSame

LEMMA CreditOneIssues ==
    ASSUME SaleBooksInv, IssuesMade, NEW p \in Writers, CreditOne(p)
    PROVE  IssuesMade'
  <1>1. task[p].does = "note" /\ order' = order /\ stops' = stops
    BY DEF CreditOne, Figures
  <1>2. PICK todo, doc : /\ Continue(p, todo)
                         /\ \/ docs' = docs
                            \/ doc.kind = "note" /\ docs' = Append(docs, doc)
    <2>1. CASE Head(task[p].todo).amount > docs[Head(task[p].todo).of].total
      BY <2>1 DEF CreditOne
    <2>2. CASE ~ (Head(task[p].todo).amount > docs[Head(task[p].todo).of].total)
      <3>1. PICK seller, refund, of, amount, lines, total, doc :
              /\ doc = [kind |-> "note", seller |-> seller, refund |-> refund, of |-> of,
                        amount |-> amount, lines |-> lines, total |-> total]
              /\ docs' = Append(docs, doc) /\ Continue(p, Tail(task[p].todo))
        BY <2>2 DEF CreditOne
      <3>2. doc.kind = "note"
        BY <3>1
      <3> QED BY <3>1, <3>2
    <2> QED BY <2>1, <2>2
  <1>3. Sellers' = Sellers
    BY <1>1, OrderSame
  <1>4. Invoices' = Invoices /\ \A d \in Invoices : docs'[d].seller = docs[d].seller
    <2>1. CASE docs' = docs
      BY <2>1 DEF Invoices, Documents
    <2>2. CASE docs' # docs
      <3>1. doc.kind = "note" /\ docs' = Append(docs, doc) /\ DocsMade
        BY <1>2, <2>2 DEF SaleBooksInv
      <3> QED BY <3>1, NotesGrown
    <2> QED BY <2>1, <2>2
  <1>5. TasksMade
    BY DEF SaleBooksInv
  <1>6. task'[p].does # "invoice"
    <2>1. PICK t : t = task[p] /\ TaskMade(t) /\ t.does = "note"
      BY <1>1, <1>5 DEF TasksMade
    <2>2. task'[p] = IF todo = <<>> THEN NoTask ELSE [t EXCEPT !.todo = todo]
      BY <1>2, <1>3, <1>5, <2>1, OthersKeep
    <2>3. PICK r, b, s : t = [does |-> "note", refund |-> r, table |-> b, todo |-> s]
      BY <2>1, Zenon DEF TaskMade
    <2>4. [t EXCEPT !.todo = todo].does = "note"
      BY <2>3
    <2>5. NoTask.does = "none"
      BY DEF NoTask
    <2> QED BY <2>2, <2>4, <2>5
  <1>7. \A q \in Writers : q # p => task'[q] = task[q]
    BY <1>2, <1>3, <1>5, OthersKeep
  <1>8. \A q \in Writers : task'[q] = task[q] \/ (task[q].does # "invoice" /\ task'[q].does # "invoice")
    <2>1. task[p].does # "invoice"
      BY <1>1
    <2> QED BY <1>6, <1>7, <2>1, Zenon
  <1> QED BY <1>1, <1>3, <1>4, <1>8, IssuesSame

LEMMA IssuesStep ==
    ASSUME SaleBooksInv, IssuesMade, SaleNext \/ UNCHANGED saleVars
    PROVE  IssuesMade'
  <1>1. CASE order' = order /\ docs' = docs /\ task' = task /\ stops' = stops
    <2>1. Sellers' = Sellers /\ Invoices' = Invoices
      BY <1>1, OrderSame DEF Invoices, Documents
    <2> QED BY <1>1, <2>1, IssuesSame
  <1>2. CASE Confirm
    BY <1>1, <1>2 DEF Confirm
  <1>3. CASE RefundReturn
    <2>1. PICK amount, goods : AddRefund(amount, goods)
      BY <1>3 DEF RefundReturn
    <2> QED BY <1>1, <2>1 DEF AddRefund
  <1>4. CASE RefundAmount
    <2>1. PICK amount : AddRefund(amount, 0)
      BY <1>4 DEF RefundAmount
    <2> QED BY <1>1, <2>1 DEF AddRefund
  <1>5. ASSUME NEW p \in Writers, IssueFind(p) \/ IssueOne(p) \/ CreditFind(p) \/ CreditOne(p) \/ Stop(p)
        PROVE  IssuesMade'
    BY <1>5, IssueFindIssues, IssueOneIssues, CreditFindIssues, CreditOneIssues, StopIssues
  <1>6. CASE UNCHANGED saleVars
    BY <1>1, <1>6 DEF saleVars
  <1>7. ASSUME NEW r \in DOMAIN refunds, RefundFind(r) \/ RefundPost(r) \/ RefundCount(r)
        PROVE  IssuesMade'
    <2>1. order' = order /\ docs' = docs /\ task' = task /\ stops' = stops
      BY <1>7, RefundTurns DEF SaleBooksInv
    <2> QED BY <1>1, <2>1
  <1> QED BY <1>2, <1>3, <1>4, <1>5, <1>6, <1>7 DEF SaleNext

-----------------------------------------------------------------------------
(* What the invoices add up to. *)

\* When none is left to write, there is one of every seller.
LEMMA AllInvoiced ==
    ASSUME SaleBooksInv, IssuesMade, Invoices # {}, Quiet("invoice"), stops = 0
    PROVE  \A j \in 1 .. Len(Sellers) : \E d \in Invoices : docs[d].seller = Sellers[j]
  <1>1. PICK m \in 0 .. Len(Sellers) : IssuedTo(m)
    BY DEF IssuesMade
  <1>2. PICK n \in Nat : n = Len(Sellers) /\ m \in 0 .. n
    <2>1. OrderMade
      BY DEF SaleBooksInv
    <2> QED BY <2>1, SellersCover
  <1>3. m > 0
    <2>1. PICK d \in Invoices : TRUE
      OBVIOUS
    <2>2. PICK j \in 1 .. m : docs[d].seller = Sellers[j]
      BY <1>1 DEF IssuedTo
    <2> QED BY <1>2, <2>2
  <1>4. \A p \in Writers : ~From(p, m)
    BY DEF Quiet, From, Issuing
  <1>5. ~ (m < n)
    BY <1>1, <1>2, <1>3, <1>4 DEF IssuedTo
  <1>6. m = n
    BY <1>2, <1>5
  <1> QED BY <1>1, <1>2, <1>6 DEF IssuedTo

FeeOf(seller) == IF seller = Store /\ order.fee > 0 THEN order.fee ELSE 0
GrossOf(lines) == LinesTotal(lines) - Cesses(lines)
TaxOf(lines) == SumFunction([k \in DOMAIN lines |-> lines[k].tax])

\* An invoice without its cess, and its tax.
LEMMA InvoiceAmounts ==
    ASSUME OrderMade, NEW seller, NEW table \in Tables, NEW v, NEW u,
           \A i \in Lines : v[i] = Worth(Items[i]) + Items[i].tax /\ u[i] = Items[i].tax
    PROVE  /\ GrossOf(InvoiceLines(seller, table)) = SumFunctionOnSet(v, Mine(seller)) + FeeOf(seller)
           /\ TaxOf(InvoiceLines(seller, table)) = SumFunctionOnSet(u, Mine(seller))
  <1>1. PICK lines, D : lines = InvoiceLines(seller, table) /\ D = DOMAIN lines
    OBVIOUS
  <1>2. IsFiniteSet(D) /\ \A k \in D : LineMade(lines[k])
    BY <1>1, InvoiceTotals
  <1>3. \A k \in D : lines[k].tax \in Nat /\ lines[k].cess \in Nat /\ lines[k].total \in Nat
    BY <1>2, LineParts
  <1>4. PICK fee \in Nat : fee = order.fee
    BY DEF OrderMade
  <1>5. PICK t, c, x, h :
          /\ t = [k \in DOMAIN lines |-> lines[k].total] /\ c = [k \in DOMAIN lines |-> lines[k].cess]
          /\ x = [k \in DOMAIN lines |-> lines[k].tax]
          /\ h = [k \in DOMAIN lines |-> lines[k].total - lines[k].cess]
    OBVIOUS
  <1>6. ASSUME NEW k \in D
        PROVE  t[k] \in Int /\ c[k] \in Int /\ x[k] \in Int /\ h[k] \in Int /\ t[k] = h[k] + c[k]
    <2>1. t[k] = lines[k].total /\ c[k] = lines[k].cess /\ x[k] = lines[k].tax
          /\ h[k] = lines[k].total - lines[k].cess
      BY <1>1, <1>5
    <2>2. PICK a \in Nat, b \in Nat : a = lines[k].total /\ b = lines[k].cess
      BY <1>3
    <2> QED BY <1>3, <2>1, <2>2
  <1>7. /\ SumFunction(t) = SumFunctionOnSet(t, D) /\ SumFunction(c) = SumFunctionOnSet(c, D)
        /\ SumFunction(x) = SumFunctionOnSet(x, D)
    <2>1. t \in [D -> Int] /\ c \in [D -> Int] /\ x \in [D -> Int]
      BY <1>1, <1>3, <1>5
    <2> QED BY <2>1, SumOnDomain
  <1>8. LinesTotal(lines) - Cesses(lines) = SumFunctionOnSet(h, D)
    <2>1. SumFunctionOnSet(t, D) = SumFunctionOnSet(h, D) + SumFunctionOnSet(c, D)
      BY <1>2, <1>6, SumPlus
    <2>2. SumFunctionOnSet(h, D) \in Int /\ SumFunctionOnSet(c, D) \in Int
      BY <1>2, <1>6, SumInt
    <2>3. LinesTotal(lines) = SumFunction(t) /\ Cesses(lines) = SumFunction(c)
      BY <1>5 DEF LinesTotal, Cesses
    <2> QED BY <1>7, <2>1, <2>2, <2>3
  <1>9. ASSUME NEW i \in Lines
        PROVE  LET line == LineOf(i, table)
               IN  line.total - line.cess = v[i] /\ line.tax = u[i] /\ v[i] \in Int /\ u[i] \in Int
    <2>1. PICK line, item : line = LineOf(i, table) /\ item = Items[i]
      OBVIOUS
    <2>2. line.tax = item.tax /\ line.cess \in Nat /\ line.total = Worth(item) + item.tax + line.cess
      BY <2>1, InvoiceLineParts
    <2>3. PICK a \in Nat, b \in Nat, e \in Nat : a = item.total /\ b = item.discount /\ e = item.tax
      BY <2>1, ItemParts
    <2>4. PICK w \in Int : w = Worth(item)
      BY <2>3 DEF Worth
    <2>5. PICK f \in Nat : f = line.cess
      BY <2>2
    <2>6. v[i] = w + e /\ u[i] = e
      BY <2>1, <2>3, <2>4
    <2> QED BY <2>1, <2>2, <2>3, <2>4, <2>5, <2>6
  <1>a. FeeLine.total = fee /\ FeeLine.cess = 0 /\ FeeLine.tax = 0
    BY <1>4 DEF FeeLine
  <1>b. SumFunctionOnSet(h, D) = SumFunctionOnSet(v, Mine(seller))
                                   + IF seller = Store /\ order.fee > 0 THEN fee ELSE 0
    <2>1. \A i \in Lines : v[i] \in Int
      BY <1>9
    <2>2. \A i \in Lines : \A k \in D : lines[k] = LineOf(i, table) => h[k] = v[i]
      <3> SUFFICES ASSUME NEW i \in Lines, NEW k \in D, lines[k] = LineOf(i, table) PROVE h[k] = v[i]
        OBVIOUS
      <3>1. h[k] = lines[k].total - lines[k].cess
        BY <1>1, <1>5
      <3> QED BY <1>9, <3>1
    <2>3. \A k \in D : lines[k] = FeeLine => h[k] = fee
      BY <1>1, <1>4, <1>5, <1>a
    <2>4. fee \in Int
      OBVIOUS
    <2> QED BY <1>1, <2>1, <2>2, <2>3, <2>4, InvoiceSum
  <1>c. SumFunctionOnSet(x, D) = SumFunctionOnSet(u, Mine(seller))
                                   + IF seller = Store /\ order.fee > 0 THEN 0 ELSE 0
    <2>1. \A i \in Lines : u[i] \in Int
      BY <1>9
    <2>2. \A i \in Lines : \A k \in D : lines[k] = LineOf(i, table) => x[k] = u[i]
      <3> SUFFICES ASSUME NEW i \in Lines, NEW k \in D, lines[k] = LineOf(i, table) PROVE x[k] = u[i]
        OBVIOUS
      <3>1. x[k] = lines[k].tax
        BY <1>1, <1>5
      <3> QED BY <1>9, <3>1
    <2>3. \A k \in D : lines[k] = FeeLine => x[k] = 0
      BY <1>1, <1>5, <1>a
    <2>4. 0 \in Int
      OBVIOUS
    <2> QED BY <1>1, <2>1, <2>2, <2>3, <2>4, InvoiceSum
  <1>d. TaxOf(lines) = SumFunctionOnSet(x, D)
    BY <1>5, <1>7 DEF TaxOf
  <1>e. GrossOf(lines) = SumFunctionOnSet(h, D)
    BY <1>8 DEF GrossOf
  <1>f. FeeOf(seller) = IF seller = Store /\ order.fee > 0 THEN fee ELSE 0
    BY <1>4 DEF FeeOf
  <1>g. SumFunctionOnSet(u, Mine(seller)) \in Int
    <2>1. IsFiniteSet(Mine(seller)) /\ \A i \in Mine(seller) : u[i] \in Int
      BY <1>9, MineParts
    <2> QED BY <2>1, SumInt
  <1> QED BY <1>1, <1>b, <1>c, <1>d, <1>e, <1>f, <1>g

LEMMA InvoicesFollow == ASSUME SaleBooksInv, IssuesMade PROVE InvoicesCoverSale
  <1>1. \A d, e \in Invoices : docs[d].seller = docs[e].seller => d = e
    BY DEF IssuesMade
  <1>2. OrderMade /\ DocsMade
    BY DEF SaleBooksInv
  <1>3. PICK D : D = Invoices /\ IsFiniteSet(D)
                 /\ \A d \in D : \E table \in Tables : docs[d].lines = InvoiceLines(docs[d].seller, table)
    BY <1>2, InvoiceParts DEF Invoices, InvoiceMade
  <1>4. PICK fee \in Nat : fee = order.fee
    BY <1>2 DEF OrderMade
  <1>5. PICK of, v, u : /\ of = [d \in D |-> docs[d].seller]
                        /\ v = [i \in Lines |-> Worth(Items[i]) + Items[i].tax]
                        /\ u = [i \in Lines |-> Items[i].tax]
    OBVIOUS
  <1>6. PICK g, x : /\ g = [d \in D |-> LinesTotal(docs[d].lines) - Cesses(docs[d].lines)]
                    /\ x = [d \in D |-> SumFunction([k \in DOMAIN docs[d].lines |-> docs[d].lines[k].tax])]
    OBVIOUS
  <1>7. \A i \in Lines : v[i] = Worth(Items[i]) + Items[i].tax /\ u[i] = Items[i].tax
    BY <1>5
  <1>8. ASSUME NEW i \in Lines PROVE v[i] \in Int /\ u[i] \in Int
    <2>1. PICK a \in Nat, b \in Nat, e \in Nat : a = Items[i].total /\ b = Items[i].discount /\ e = Items[i].tax
      BY <1>2, ItemParts
    <2>2. Worth(Items[i]) \in Int
      BY <2>1 DEF Worth
    <2> QED BY <1>7, <2>1, <2>2
  <1>9. ASSUME NEW d \in D
        PROVE  /\ g[d] = SumFunctionOnSet(v, Mine(of[d])) + IF of[d] = Store /\ order.fee > 0 THEN fee ELSE 0
               /\ x[d] = SumFunctionOnSet(u, Mine(of[d])) + IF of[d] = Store /\ order.fee > 0 THEN 0 ELSE 0
    <2>0. PICK table \in Tables : docs[d].lines = InvoiceLines(docs[d].seller, table)
      BY <1>3
    <2>1. PICK seller, lines : seller = docs[d].seller /\ lines = InvoiceLines(seller, table) /\ lines = docs[d].lines
      BY <2>0
    <2>2. of[d] = seller /\ g[d] = GrossOf(lines)
          /\ x[d] = TaxOf(lines)
      BY <1>5, <1>6, <2>1 DEF GrossOf, TaxOf
    <2>3. GrossOf(InvoiceLines(seller, table)) = SumFunctionOnSet(v, Mine(seller)) + FeeOf(seller)
      BY <1>2, <1>7, InvoiceAmounts
    <2>4. TaxOf(InvoiceLines(seller, table)) = SumFunctionOnSet(u, Mine(seller))
      BY <1>2, <1>7, InvoiceAmounts
    <2>5. FeeOf(seller) = IF of[d] = Store /\ order.fee > 0 THEN fee ELSE 0
      BY <1>4, <2>2 DEF FeeOf
    <2>6. SumFunctionOnSet(u, Mine(seller)) \in Int
      <3>1. IsFiniteSet(Mine(seller)) /\ \A i \in Mine(seller) : u[i] \in Int
        BY <1>2, <1>8, MineParts
      <3> QED BY <3>1, SumInt
    <2> QED BY <2>1, <2>2, <2>3, <2>4, <2>5, <2>6
  <1>a. ASSUME NEW d \in D PROVE g[d] \in Int /\ x[d] \in Int
    <2>1. IsFiniteSet(Mine(of[d])) /\ \A i \in Mine(of[d]) : v[i] \in Int /\ u[i] \in Int
      BY <1>2, <1>8, MineParts
    <2>2. SumFunctionOnSet(v, Mine(of[d])) \in Int /\ SumFunctionOnSet(u, Mine(of[d])) \in Int
      BY <2>1, SumInt
    <2> QED BY <1>9, <2>2
  <1>b. SumFunction(g) = SumFunctionOnSet(g, D) /\ SumFunction(x) = SumFunctionOnSet(x, D)
    <2>1. g \in [D -> Int] /\ x \in [D -> Int]
      BY <1>6, <1>a
    <2> QED BY <2>1, SumOnDomain
  <1>c. ASSUME Invoices # {}, Quiet("invoice"), stops = 0
        PROVE  SumFunction(g) = order.total /\ SumFunction(x) = SumFunction([i \in Lines |-> Items[i].tax])
    <2>1. \A d, e \in D : of[d] = of[e] => d = e
      BY <1>1, <1>3, <1>5
    <2>2. \A j \in 1 .. Len(Sellers) : \E d \in D : of[d] = Sellers[j]
      <3>1. \A j \in 1 .. Len(Sellers) : \E d \in Invoices : docs[d].seller = Sellers[j]
        BY <1>c, AllInvoiced
      <3> QED BY <1>3, <1>5, <3>1
    <2>3. \A i \in Lines : \E d \in D : of[d] = Items[i].seller
      <3> SUFFICES ASSUME NEW i \in Lines PROVE \E d \in D : of[d] = Items[i].seller
        OBVIOUS
      <3>1. PICK k \in 1 .. Len(Sellers) : Sellers[k] = Items[i].seller
        BY <1>2, SellersCover
      <3> QED BY <2>2, <3>1
    <2>4. order.fee > 0 => \E d \in D : of[d] = Store
      <3> SUFFICES ASSUME order.fee > 0 PROVE \E d \in D : of[d] = Store
        OBVIOUS
      <3>1. PICK k \in 1 .. Len(Sellers) : Sellers[k] = Store
        BY <1>2, SellersCover
      <3> QED BY <2>2, <3>1
    <2>5. SumFunctionOnSet(g, D) = SumFunctionOnSet(v, Lines) + IF order.fee > 0 THEN fee ELSE 0
      <3>1. fee \in Int /\ \A i \in Lines : v[i] \in Int
        BY <1>8
      <3>2. \A d \in D : g[d] = SumFunctionOnSet(v, Mine(of[d])) + IF of[d] = Store /\ order.fee > 0 THEN fee ELSE 0
        BY <1>9
      <3> QED BY <1>2, <1>3, <2>1, <2>3, <2>4, <3>1, <3>2, InvoicesSum
    <2>6. SumFunctionOnSet(x, D) = SumFunctionOnSet(u, Lines) + IF order.fee > 0 THEN 0 ELSE 0
      <3>1. 0 \in Int /\ \A i \in Lines : u[i] \in Int
        BY <1>8
      <3>2. \A d \in D : x[d] = SumFunctionOnSet(u, Mine(of[d])) + IF of[d] = Store /\ order.fee > 0 THEN 0 ELSE 0
        BY <1>9
      <3> QED BY <1>2, <1>3, <2>1, <2>3, <2>4, <3>1, <3>2, InvoicesSum
    <2>7. SumFunctionOnSet(v, Lines) + order.fee = order.total
      BY <1>2, <1>7, TotalIsWorth
    <2>8. SumFunctionOnSet(v, Lines) \in Int /\ SumFunctionOnSet(u, Lines) \in Int
      <3>1. IsFiniteSet(Lines)
        BY <1>2, OrderSums
      <3> QED BY <1>8, <3>1, SumInt
    <2>9. SumFunction(u) = SumFunctionOnSet(u, Lines)
      <3>1. u \in [Lines -> Int]
        BY <1>5, <1>8
      <3> QED BY <3>1, SumOnDomain
    <2>a. SumFunction(g) = order.total
      BY <1>4, <1>b, <2>5, <2>7, <2>8
    <2>b. SumFunction(x) = SumFunction(u)
      BY <1>b, <2>6, <2>8, <2>9
    <2> QED BY <1>5, <2>a, <2>b
  <1> QED BY <1>1, <1>3, <1>6, <1>c DEF InvoicesCoverSale, Invoices

\* Whatever requests issue at once, no seller is invoiced twice, and unless one died
\* half way the invoices together are the order, fee and tax included
\* (taxDocument.service's issueForOrder and its unique index).
THEOREM SaleInvoicesCoverSale == SaleSpec => []InvoicesCoverSale
  <1>1. SaleInit => SaleBooksInv /\ IssuesMade
    BY SaleInitInv, IssuesInit
  <1>2. SaleBooksInv /\ IssuesMade /\ [SaleNext]_saleVars => (SaleBooksInv /\ IssuesMade)'
    BY SaleStep, IssuesStep
  <1>3. SaleBooksInv /\ IssuesMade => InvoicesCoverSale
    BY InvoicesFollow
  <1> QED BY <1>1, <1>2, <1>3, PTL DEF SaleSpec

-----------------------------------------------------------------------------
(* What the notes of a refund add up to. *)

LeftOf(todo) == SumFunction([k \in DOMAIN todo |-> todo[k].amount])

\* The parts of a refund that are worth a note are all of it.
LEMMA DueSum ==
    ASSUME NEW due, NEW amount, NEW n \in Nat, NEW invoices, NEW parts, NEW S,
           DueOf(due, amount, n, invoices, parts, S)
    PROVE  LeftOf(due) = amount
  <1>1. PICK N \in Nat : N = Cardinality(S) /\ DOMAIN due = 1 .. N /\ due \in Bijection(1 .. N, S)
    BY DEF DueOf
  <1>2. IsFiniteSet(1 .. N) /\ IsFiniteSet(1 .. n) /\ IsFiniteSet(S)
    <2>1. 1 \in Int /\ N \in Int /\ n \in Int
      BY <1>1
    <2> QED BY <2>1, FS_Interval DEF DueOf
  <1>3. /\ \A x \in S : \E k \in 1 .. n : x = [of |-> invoices[k], amount |-> parts[k]] /\ parts[k] > 0
        /\ \A k \in 1 .. n : parts[k] > 0 => [of |-> invoices[k], amount |-> parts[k]] \in S
        /\ \A j, k \in 1 .. n : invoices[j] = invoices[k] => j = k
        /\ parts \in [1 .. n -> Nat] /\ SumFunction(parts) = amount
    BY DEF DueOf
  <1>4. PICK v : v = [x \in S |-> x.amount]
    OBVIOUS
  <1>5. \A x \in S : v[x] \in Int
    <2> SUFFICES ASSUME NEW x \in S PROVE v[x] \in Int
      OBVIOUS
    <2>1. PICK k \in 1 .. n : x = [of |-> invoices[k], amount |-> parts[k]]
      BY <1>3
    <2>2. x.amount = parts[k] /\ parts[k] \in Nat
      BY <1>3, <2>1
    <2> QED BY <1>4, <2>2
  <1>6. LeftOf(due) = SumFunctionOnSet(v, S)
    <2>1. PICK h : h = [k \in 1 .. N |-> due[k].amount]
      OBVIOUS
    <2>2. \A k \in 1 .. N : due[k] \in S
      BY <1>1 DEF Bijection, Injection
    <2>3. \A k \in 1 .. N : h[k] \in Int /\ h[k] = v[due[k]]
      BY <1>4, <1>5, <2>1, <2>2
    <2>4. SumFunctionOnSet(h, 1 .. N) = SumFunctionOnSet(v, S)
      BY <1>1, <1>2, <2>3, SumReordered
    <2>5. h \in [1 .. N -> Int]
      BY <2>1, <2>3
    <2>6. SumFunction(h) = SumFunctionOnSet(h, 1 .. N)
      BY <2>5, SumOnDomain
    <2> QED BY <1>1, <2>1, <2>4, <2>6 DEF LeftOf
  <1>7. PICK H : H = {k \in 1 .. n : parts[k] > 0} /\ H \in SUBSET (1 .. n) /\ IsFiniteSet(H)
    <2>1. PICK H : H = {k \in 1 .. n : parts[k] > 0}
      OBVIOUS
    <2>2. H \in SUBSET (1 .. n)
      BY <2>1
    <2>3. IsFiniteSet(H)
      BY <1>2, <2>2, FS_Subset
    <2> QED BY <2>1, <2>2, <2>3
  <1>8. SumFunctionOnSet(parts, H) = SumFunctionOnSet(v, S)
    <2>1. PICK f : f = [k \in H |-> [of |-> invoices[k], amount |-> parts[k]]]
      OBVIOUS
    <2>2. \A k \in H : f[k] \in S /\ f[k] = [of |-> invoices[k], amount |-> parts[k]]
      BY <1>3, <1>7, <2>1
    <2>3. \A j, k \in H : f[j] = f[k] => j = k
      <3> SUFFICES ASSUME NEW j \in H, NEW k \in H, f[j] = f[k] PROVE j = k
        OBVIOUS
      <3>1. [of |-> invoices[j], amount |-> parts[j]] = [of |-> invoices[k], amount |-> parts[k]]
        BY <2>2
      <3>2. invoices[j] = invoices[k]
        BY <3>1
      <3> QED BY <1>3, <1>7, <3>2
    <2>4. \A x \in S : \E k \in H : f[k] = x
      <3> SUFFICES ASSUME NEW x \in S PROVE \E k \in H : f[k] = x
        OBVIOUS
      <3>1. PICK k \in 1 .. n : x = [of |-> invoices[k], amount |-> parts[k]] /\ parts[k] > 0
        BY <1>3
      <3> QED BY <1>7, <2>2, <3>1
    <2>5. f \in Bijection(H, S)
      <3>1. f \in [H -> S]
        BY <2>1, <2>2
      <3> QED BY <2>3, <2>4, <3>1 DEF Bijection, Injection, Surjection, IsInjective
    <2>6. \A k \in H : parts[k] \in Int /\ parts[k] = v[f[k]]
      <3> SUFFICES ASSUME NEW k \in H PROVE parts[k] \in Int /\ parts[k] = v[f[k]]
        OBVIOUS
      <3>1. parts[k] \in Int
        BY <1>3, <1>7
      <3>2. PICK x : x = f[k] /\ x = [of |-> invoices[k], amount |-> parts[k]] /\ x \in S
        BY <2>2
      <3>3. x.amount = parts[k]
        BY <3>2
      <3> QED BY <1>4, <3>1, <3>2, <3>3
    <2> QED BY <1>2, <1>7, <2>5, <2>6, SumReordered
  <1>9. SumFunctionOnSet(parts, H) = SumFunctionOnSet(parts, 1 .. n)
    <2>1. \A k \in H : parts[k] \in Int
      BY <1>3, <1>7
    <2>2. \A k \in (1 .. n) \ H : parts[k] = 0
      <3> SUFFICES ASSUME NEW k \in 1 .. n, k \notin H PROVE parts[k] = 0
        OBVIOUS
      <3>1. ~ (parts[k] > 0)
        BY <1>7
      <3>2. parts[k] \in Nat
        BY <1>3
      <3> QED BY <3>1, <3>2
    <2> QED BY <1>2, <1>7, <2>1, <2>2, SumWithin
  <1>a. SumFunction(parts) = SumFunctionOnSet(parts, 1 .. n)
    BY <1>3, SumOnDomain
  <1> QED BY <1>3, <1>6, <1>8, <1>9, <1>a

\* None of them exceeds its invoice if the refund does not exceed them all.
LEMMA DueFits ==
    ASSUME OrderMade, DocsMade, NEW amount \in Nat, NEW invoices, invoices = InOrder(Documents("invoice")),
           invoices # <<>>
    PROVE  LET due == Due(amount, invoices)
           IN  /\ LeftOf(due) = amount
               /\ amount <= SumFunction([k \in DOMAIN invoices |-> docs[invoices[k]].total])
                    => \A k \in DOMAIN due : due[k].amount <= docs[due[k].of].total
  <1>0. PICK due : due = Due(amount, invoices)
    OBVIOUS
  <1>1. PICK n, parts, S : n \in Nat \ {0} /\ DueOf(due, amount, n, invoices, parts, S)
    BY <1>0, DueListed
  <1>2. LeftOf(due) = amount
    BY <1>1, DueSum
  <1>3. ASSUME amount <= SumFunction([k \in DOMAIN invoices |-> docs[invoices[k]].total]), NEW k \in DOMAIN due
        PROVE  due[k].amount <= docs[due[k].of].total
    <2>1. due[k] \in S
      BY <1>1 DEF DueOf
    <2>2. PICK j \in 1 .. n : due[k] = [of |-> invoices[j], amount |-> parts[j]]
      BY <1>1, <2>1, Zenon DEF DueOf
    <2>3. parts[j] <= docs[invoices[j]].total
      BY <1>1, <1>3, <2>2, Zenon DEF DueOf
    <2>4. due[k].amount = parts[j] /\ due[k].of = invoices[j]
      BY <2>2
    <2> QED BY <2>3, <2>4
  <1> QED BY <1>0, <1>2, <1>3

LEMMA LeftAfter ==
    ASSUME NEW todo, IsSeq(todo), todo # <<>>, \A k \in DOMAIN todo : todo[k].amount \in Nat
    PROVE  /\ LeftOf(todo) = Head(todo).amount + LeftOf(Tail(todo))
           /\ LeftOf(todo) \in Nat /\ LeftOf(Tail(todo)) \in Nat
           /\ Tail(todo) = <<>> => LeftOf(Tail(todo)) = 0
  <1>1. PICK rest : rest = Tail(todo)
    OBVIOUS
  <1>2. PICK n \in Nat \ {0} : n = Len(todo) /\ DOMAIN todo = 1 .. n
    BY SeqParts
  <1>3. /\ IsSeq(rest) /\ Len(rest) = n - 1 /\ DOMAIN rest = 1 .. n - 1
        /\ \A k \in 1 .. n - 1 : rest[k] = todo[k + 1]
        /\ Head(todo) = todo[1]
    BY <1>1, <1>2, TailParts
  <1>4. PICK m \in Nat : m = n - 1
    BY <1>2
  <1>5. IsFiniteSet(1 .. n) /\ IsFiniteSet(1 .. m) /\ IsFiniteSet((1 .. n) \ {1})
    <2>1. 1 \in Int /\ n \in Int /\ m \in Int
      BY <1>2, <1>4
    <2>2. IsFiniteSet(1 .. n) /\ IsFiniteSet(1 .. m)
      BY <2>1, FS_Interval
    <2>3. (1 .. n) \ {1} \subseteq 1 .. n
      OBVIOUS
    <2> QED BY <2>2, <2>3, FS_Subset
  <1>6. PICK f, h : f = [k \in 1 .. n |-> todo[k].amount] /\ h = [k \in 1 .. m |-> rest[k].amount]
    OBVIOUS
  <1>7. /\ \A k \in 1 .. n : f[k] \in Nat /\ f[k] \in Int
        /\ \A k \in 1 .. m : h[k] \in Nat /\ h[k] \in Int /\ h[k] = f[k + 1]
    <2>1. \A k \in 1 .. n : f[k] \in Nat /\ f[k] \in Int
      BY <1>2, <1>6
    <2>2. \A k \in 1 .. m : h[k] = f[k + 1]
      <3> SUFFICES ASSUME NEW k \in 1 .. m PROVE h[k] = f[k + 1]
        OBVIOUS
      <3>1. k + 1 \in 1 .. n /\ rest[k] = todo[k + 1]
        BY <1>2, <1>3, <1>4
      <3> QED BY <1>6, <3>1
    <2>3. \A k \in 1 .. m : k + 1 \in 1 .. n
      BY <1>2, <1>4
    <2> QED BY <2>1, <2>2, <2>3
  <1>8. f \in [1 .. n -> Nat] /\ h \in [1 .. m -> Nat]
    BY <1>6, <1>7
  <1>9. LeftOf(todo) = SumFunctionOnSet(f, 1 .. n)
    <2>1. SumFunction(f) = SumFunctionOnSet(f, 1 .. n)
      BY <1>8, SumOnDomain
    <2> QED BY <1>2, <1>6, <2>1 DEF LeftOf
  <1>a. LeftOf(rest) = SumFunctionOnSet(h, 1 .. m)
    <2>1. SumFunction(h) = SumFunctionOnSet(h, 1 .. m)
      BY <1>8, SumOnDomain
    <2> QED BY <1>3, <1>4, <1>6, <2>1 DEF LeftOf
  <1>b. SumFunctionOnSet(f, 1 .. n) = f[1] + SumFunctionOnSet(f, (1 .. n) \ {1})
    <2>1. 1 \in 1 .. n
      BY <1>2
    <2> QED BY <1>5, <1>7, <2>1, SumTake
  <1>c. SumFunctionOnSet(h, 1 .. m) = SumFunctionOnSet(f, (1 .. n) \ {1})
    <2>1. PICK g, T : g = [k \in 1 .. m |-> k + 1] /\ T = (1 .. n) \ {1}
      OBVIOUS
    <2>2. g \in [1 .. m -> T]
      BY <1>2, <1>4, <2>1
    <2>3. \A x \in T : \E k \in 1 .. m : g[k] = x
      <3> SUFFICES ASSUME NEW x \in T PROVE \E k \in 1 .. m : g[k] = x
        OBVIOUS
      <3>1. x - 1 \in 1 .. m /\ (x - 1) + 1 = x
        BY <1>2, <1>4, <2>1
      <3> QED BY <2>1, <3>1
    <2>4. \A j, k \in 1 .. m : g[j] = g[k] => j = k
      BY <2>1
    <2>5. g \in Bijection(1 .. m, T)
      BY <2>2, <2>3, <2>4 DEF Bijection, Injection, Surjection, IsInjective
    <2>6. \A k \in 1 .. m : h[k] \in Int /\ h[k] = f[g[k]]
      BY <1>7, <2>1
    <2>7. SumFunctionOnSet(h, 1 .. m) = SumFunctionOnSet(f, T)
      <3>1. PICK U : U = 1 .. m /\ IsFiniteSet(U) /\ IsFiniteSet(T)
        BY <1>5, <2>1
      <3>2. g \in Bijection(U, T) /\ \A k \in U : h[k] \in Int /\ h[k] = f[g[k]]
        BY <2>5, <2>6, <3>1
      <3>3. SumFunctionOnSet(h, U) = SumFunctionOnSet(f, T)
        BY <3>1, <3>2, SumReordered
      <3> QED BY <3>1, <3>3
    <2> QED BY <2>1, <2>7
  <1>d. f[1] = Head(todo).amount
    BY <1>2, <1>3, <1>6
  <1>e. SumFunctionOnSet(f, 1 .. n) \in Nat /\ SumFunctionOnSet(h, 1 .. m) \in Nat
    BY <1>5, <1>7, SumNat
  <1>f. rest = <<>> => LeftOf(rest) = 0
    <2> SUFFICES ASSUME rest = <<>> PROVE LeftOf(rest) = 0
      OBVIOUS
    <2>1. m = 0
      BY <1>3, <1>4, SeqParts
    <2>2. 1 .. m = {}
      BY <2>1
    <2> QED BY <1>a, <2>2, SumOfNone
  <1> QED BY <1>1, <1>9, <1>a, <1>b, <1>c, <1>d, <1>e, <1>f

\* A note without its cess is what it was written for.
LEMMA NoteWorth ==
    ASSUME OrderMade, DocsMade, NEW d \in Documents("note")
    PROVE  docs[d].total - Cesses(docs[d].lines) = docs[d].amount /\ docs[d].amount \in Nat
  <1>1. PICK doc, lines : doc = docs[d] /\ lines = docs[doc.of].lines
    OBVIOUS
  <1>0. PICK seller : seller = docs[doc.of].seller
    OBVIOUS
  <1>2. PICK shares :
          /\ \E table \in Tables : lines = InvoiceLines(seller, table)
          /\ shares \in [DOMAIN lines -> Nat] /\ DOMAIN doc.lines = DOMAIN lines
          /\ FairlySplit(doc.amount, [k \in DOMAIN lines |-> lines[k].total], shares)
          /\ \A k \in DOMAIN lines : doc.lines[k] = NoteLine(lines[k], shares[k])
    BY <1>0, <1>1, NoteParts
  <1>3. PICK D : D = DOMAIN lines /\ IsFiniteSet(D) /\ \A k \in D : lines[k].bps \in Nat /\ lines[k].cessBps \in Nat
    BY <1>2, InvoiceTotals, LineParts
  <1>4. doc.total = LinesTotal(doc.lines) /\ doc.amount \in Nat
    BY <1>1, InvoiceParts DEF NoteMade
  <1>5. PICK t, c : /\ t = [k \in DOMAIN doc.lines |-> doc.lines[k].total]
                    /\ c = [k \in DOMAIN doc.lines |-> doc.lines[k].cess]
    OBVIOUS
  <1>6. ASSUME NEW k \in D
        PROVE  shares[k] \in Int /\ c[k] \in Int /\ t[k] \in Int /\ t[k] = shares[k] + c[k]
    <2>1. PICK share, line, note : share \in Nat /\ share = shares[k] /\ line = lines[k]
                                   /\ note = doc.lines[k]
      BY <1>2, <1>3
    <2>2. note = NoteLine(line, share) /\ line.bps \in Nat /\ line.cessBps \in Nat
      BY <1>2, <1>3, <2>1
    <2>3. note.cess \in Nat /\ note.total = share + note.cess
      BY <2>1, <2>2, NoteLineParts
    <2>4. t[k] = note.total /\ c[k] = note.cess
      BY <1>2, <1>3, <1>5, <2>1
    <2> QED BY <2>1, <2>3, <2>4
  <1>7. SumFunctionOnSet(t, D) = SumFunctionOnSet(shares, D) + SumFunctionOnSet(c, D)
    BY <1>3, <1>6, SumPlus
  <1>8. SumFunctionOnSet(shares, D) \in Int /\ SumFunctionOnSet(c, D) \in Int
    BY <1>3, <1>6, SumInt
  <1>9. t \in [D -> Int] /\ c \in [D -> Int] /\ shares \in [D -> Nat]
    BY <1>2, <1>3, <1>5, <1>6
  <1>a. /\ SumFunction(t) = SumFunctionOnSet(t, D) /\ SumFunction(c) = SumFunctionOnSet(c, D)
        /\ SumFunction(shares) = SumFunctionOnSet(shares, D)
    BY <1>9, SumOnDomain
  <1>b. LinesTotal(doc.lines) = SumFunction(t) /\ Cesses(doc.lines) = SumFunction(c)
    BY <1>5 DEF LinesTotal, Cesses
  <1>c. SumFunction(shares) = doc.amount
    BY <1>2, Zenon DEF FairlySplit
  <1>d. doc.total - Cesses(doc.lines) = doc.amount
    BY <1>4, <1>7, <1>8, <1>a, <1>b, <1>c
  <1> QED BY <1>1, <1>4, <1>d

-----------------------------------------------------------------------------
(* The notes of a refund that one request credits. *)

Credited(r) == SumFunction([d \in NotesOf(r) |-> docs[d].amount])

\* No request has the refund.
Free(r) == \A q \in Writers : task[q].refund # r
\* Only p has it, and its notes and what p has left to write are all of it.
CreditedBy(p, r) ==
    /\ task[p].refund = r /\ \A q \in Writers : task[q].refund = r => q = p
    /\ Credited(r) + LeftOf(task[p].todo) = refunds[r].amount
    /\ \A k \in DOMAIN task[p].todo : task[p].todo[k].amount <= docs[task[p].todo[k].of].total

CreditMade(r) ==
    \/ Free(r) /\ (NotesOf(r) = {} \/ Credited(r) = refunds[r].amount)
    \/ \E p \in Writers : CreditedBy(p, r)

\* Requests and notes are of refunds there are, and credit no more and no less.
CreditsMade ==
    /\ \A p \in Writers : IF task[p].does = "note" THEN task[p].refund \in DOMAIN refunds
                                                   ELSE task[p].refund = 0
    /\ \A d \in Documents("note") : docs[d].refund \in DOMAIN refunds
    /\ \A r \in DOMAIN refunds \ uneven : CreditMade(r)

LEMMA RefundNumbers ==
    ASSUME SaleBooksInv
    PROVE  /\ DOMAIN refunds \in SUBSET (Nat \ {0})
           /\ \A r \in DOMAIN refunds : refunds[r].amount \in Nat \ {0}
  <1>1. Len(refunds) \in Nat /\ DOMAIN refunds = 1 .. Len(refunds)
    BY SeqParts DEF SaleBooksInv, RefundsMade
  <1>2. \A r \in DOMAIN refunds : refunds[r].amount \in Nat \ {0}
    BY DEF SaleBooksInv, RefundsMade, RefundMade
  <1> QED BY <1>1, <1>2

LEMMA NotesParts ==
    ASSUME SaleBooksInv, NEW r
    PROVE  /\ IsFiniteSet(NotesOf(r)) /\ NotesOf(r) \in SUBSET Documents("note")
           /\ NotesOf(r) \in SUBSET DOMAIN docs
           /\ \A d \in NotesOf(r) : docs[d].amount \in Nat
           /\ Credited(r) \in Nat
           /\ NotesOf(r) = {} => Credited(r) = 0
           /\ [d \in NotesOf(r) |-> docs[d].amount] \in [NotesOf(r) -> Int]
  <1>1. OrderMade /\ DocsMade
    BY DEF SaleBooksInv
  <1>2. NotesOf(r) \in SUBSET Documents("note") /\ NotesOf(r) \in SUBSET DOMAIN docs
    BY DEF NotesOf, Documents
  <1>3. IsFiniteSet(NotesOf(r))
    BY <1>1, <1>2, InvoiceParts, FS_Subset
  <1>4. \A d \in NotesOf(r) : docs[d].amount \in Nat
    BY <1>1, <1>2, InvoiceParts DEF NoteMade
  <1>5. PICK f, S : f = [d \in NotesOf(r) |-> docs[d].amount] /\ S = NotesOf(r)
    OBVIOUS
  <1>6. f \in [S -> Nat] /\ f \in [S -> Int] /\ \A d \in S : f[d] \in Nat
    BY <1>4, <1>5
  <1>7. Credited(r) = SumFunctionOnSet(f, S)
    <2>1. SumFunction(f) = SumFunctionOnSet(f, S)
      BY <1>6, SumOnDomain
    <2> QED BY <1>5, <2>1 DEF Credited
  <1>8. Credited(r) \in Nat
    BY <1>3, <1>5, <1>6, <1>7, SumNat
  <1>9. S = {} => Credited(r) = 0
    BY <1>7, SumOfNone
  <1> QED BY <1>2, <1>3, <1>4, <1>5, <1>6, <1>8, <1>9

\* Documents already issued do not change.
DocsStay == \A d \in DOMAIN docs : d \in DOMAIN docs' /\ docs'[d] = docs[d]

\* A refund whose notes and requests stay as they are.
LEMMA CreditStays ==
    ASSUME SaleBooksInv, CreditsMade, NEW r \in DOMAIN refunds, CreditMade(r),
           refunds'[r].amount = refunds[r].amount, DocsStay, NotesOf(r)' = NotesOf(r),
           \A q \in Writers : task'[q] = task[q] \/ (task[q].refund # r /\ task'[q].refund # r)
    PROVE  CreditMade(r)'
  <1>1. Credited(r)' = Credited(r)
    <2>1. \A d \in NotesOf(r) : docs'[d] = docs[d]
      BY NotesParts DEF DocsStay
    <2>2. [d \in NotesOf(r) |-> docs'[d].amount] = [d \in NotesOf(r) |-> docs[d].amount]
      BY <2>1
    <2> QED BY <2>2, Zenon DEF Credited
  <1>2. \A q \in Writers : task'[q].refund = r <=> task[q].refund = r
    OBVIOUS
  <1>3. CASE Free(r) /\ (NotesOf(r) = {} \/ Credited(r) = refunds[r].amount)
    <2>1. Free(r)'
      BY <1>2, <1>3 DEF Free
    <2> QED BY <1>1, <1>3, <2>1 DEF CreditMade
  <1>4. ASSUME NEW p \in Writers, CreditedBy(p, r) PROVE CreditMade(r)'
    <2>1. task'[p] = task[p] /\ task[p].refund = r
      BY <1>4 DEF CreditedBy
    <2>2. task[p].does = "note" /\ TaskMade(task[p])
      <3>1. r # 0
        BY RefundNumbers
      <3> QED BY <2>1, <3>1 DEF CreditsMade, SaleBooksInv, TasksMade
    <2>3. PICK todo : todo = task[p].todo
      OBVIOUS
    <2>4. ASSUME NEW k \in DOMAIN todo
          PROVE  todo[k].amount <= docs'[todo[k].of].total
      <3>1. todo[k].of \in DOMAIN docs
        BY <2>2, <2>3 DEF TaskMade, DueMade, Documents
      <3>2. todo[k].amount <= docs[todo[k].of].total
        BY <1>4, <2>3 DEF CreditedBy
      <3> QED BY <3>1, <3>2, Zenon DEF DocsStay
    <2>5. CreditedBy(p, r)'
      <3>1. task'[p].refund = r /\ \A q \in Writers : task'[q].refund = r => q = p
        BY <1>2, <1>4, <2>1 DEF CreditedBy
      <3>2. Credited(r)' + LeftOf(task'[p].todo) = refunds'[r].amount
        BY <1>1, <1>4, <2>1 DEF CreditedBy
      <3>3. LeftOf(task[p].todo)' = LeftOf(task'[p].todo)
        BY DEF LeftOf
      <3>4. \A k \in DOMAIN task'[p].todo : task'[p].todo[k].amount <= docs'[task'[p].todo[k].of].total
        BY <2>1, <2>3, <2>4
      <3> QED BY <3>1, <3>2, <3>3, <3>4, Zenon DEF CreditedBy
    <2> QED BY <2>5 DEF CreditMade
  <1> QED BY <1>3, <1>4 DEF CreditMade

\* What a document that is added changes of the notes.
LEMMA NotesAdded ==
    ASSUME SaleBooksInv, NEW doc, docs' = Append(docs, doc)
    PROVE  \E e : /\ DocsStay /\ e \in DOMAIN docs' /\ e \notin DOMAIN docs /\ docs'[e] = doc
                  /\ \A d \in DOMAIN docs' : d \in DOMAIN docs \/ d = e
                  /\ Documents("note")' = IF doc.kind = "note" THEN Documents("note") \cup {e} ELSE Documents("note")
                  /\ \A r : NotesOf(r)' = IF doc.kind = "note" /\ doc.refund = r
                                          THEN NotesOf(r) \cup {e} ELSE NotesOf(r)
  <1>1. PICK n \in Nat : n = Len(docs) /\ DOMAIN docs = 1 .. n /\ IsSeq(docs)
    BY SeqParts DEF SaleBooksInv, DocsMade
  <1>2. /\ DOMAIN docs' = 1 .. n + 1 /\ docs'[n + 1] = doc
        /\ \A d \in 1 .. n : docs'[d] = docs[d]
    BY <1>1, AppendParts
  <1>3. PICK e \in Nat : e = n + 1
    OBVIOUS
  <1>4. e \notin 1 .. n /\ 1 .. n + 1 = (1 .. n) \cup {e}
    BY <1>3
  <1>5. PICK D : D = DOMAIN docs /\ e \notin D /\ DOMAIN docs' = D \cup {e} /\ docs'[e] = doc
                 /\ \A d \in D : docs'[d] = docs[d]
    BY <1>1, <1>2, <1>3, <1>4
  <1>6. DocsStay
    BY <1>5 DEF DocsStay
  <1>7. Documents("note")' = IF doc.kind = "note" THEN Documents("note") \cup {e} ELSE Documents("note")
    <2>1. Documents("note")' = {d \in D \cup {e} : docs'[d].kind = "note"}
      BY <1>5 DEF Documents
    <2>2. Documents("note") = {d \in D : docs[d].kind = "note"}
      BY <1>5 DEF Documents
    <2> QED BY <1>5, <2>1, <2>2
  <1>8. ASSUME NEW r
        PROVE  NotesOf(r)' = IF doc.kind = "note" /\ doc.refund = r THEN NotesOf(r) \cup {e} ELSE NotesOf(r)
    <2>1. NotesOf(r)' = {d \in D \cup {e} : docs'[d].kind = "note" /\ docs'[d].refund = r}
      BY <1>5 DEF NotesOf, Documents
    <2>2. NotesOf(r) = {d \in D : docs[d].kind = "note" /\ docs[d].refund = r}
      BY <1>5 DEF NotesOf, Documents
    <2> QED BY <1>5, <2>1, <2>2
  <1> QED BY <1>5, <1>6, <1>7, <1>8

\* Nothing changes but refunds that are added.
LEMMA RefundsGrownCredits ==
    ASSUME SaleBooksInv, CreditsMade, docs' = docs, task' = task, uneven' = uneven,
           \/ DOMAIN refunds' = DOMAIN refunds /\ \A r \in DOMAIN refunds : refunds'[r].amount = refunds[r].amount
           \/ \E refund : refunds' = Append(refunds, refund)
    PROVE  CreditsMade'
  <1>1. PICK D : D = DOMAIN refunds
    OBVIOUS
  <1>2. /\ \A r \in D : r \in DOMAIN refunds' /\ refunds'[r].amount = refunds[r].amount
        /\ \A r \in DOMAIN refunds' : r \in D \/ (r \notin D /\ r # 0)
    <2>1. CASE DOMAIN refunds' = DOMAIN refunds /\ \A r \in DOMAIN refunds : refunds'[r].amount = refunds[r].amount
      BY <1>1, <2>1
    <2>2. CASE \E refund : refunds' = Append(refunds, refund)
      <3>1. PICK refund : refunds' = Append(refunds, refund)
        BY <2>2
      <3>2. PICK n \in Nat : n = Len(refunds) /\ DOMAIN refunds = 1 .. n /\ IsSeq(refunds)
        BY SeqParts DEF SaleBooksInv, RefundsMade
      <3>3. DOMAIN refunds' = 1 .. n + 1 /\ \A r \in 1 .. n : refunds'[r] = refunds[r]
        BY <3>1, <3>2, AppendParts
      <3> QED BY <1>1, <3>2, <3>3
    <2> QED BY <2>1, <2>2
  <1>3. Documents("note")' = Documents("note") /\ \A r : NotesOf(r)' = NotesOf(r)
    BY DEF Documents, NotesOf
  <1>4. DocsStay
    BY DEF DocsStay
  <1>5. ASSUME NEW r \in DOMAIN refunds' \ uneven' PROVE CreditMade(r)'
    <2>1. CASE r \in D
      <3>1. CreditMade(r) /\ r \in DOMAIN refunds
        BY <1>1, <1>5, <2>1 DEF CreditsMade
      <3> QED BY <1>2, <1>3, <1>4, <2>1, <3>1, CreditStays
    <2>2. CASE r \notin D
      <3>1. Free(r)'
        <4>1. \A q \in Writers : task[q].refund # r
          BY <1>1, <1>2, <1>5, <2>2 DEF CreditsMade
        <4> QED BY <4>1 DEF Free
      <3>2. NotesOf(r)' = {}
        <4>1. NotesOf(r) = {}
          BY <1>1, <2>2 DEF CreditsMade, NotesOf
        <4> QED BY <1>3, <4>1
      <3> QED BY <3>1, <3>2 DEF CreditMade
    <2> QED BY <2>1, <2>2
  <1>6. \A p \in Writers : IF task'[p].does = "note" THEN task'[p].refund \in DOMAIN refunds'
                                                     ELSE task'[p].refund = 0
    BY <1>1, <1>2 DEF CreditsMade
  <1>7. \A d \in Documents("note")' : docs'[d].refund \in DOMAIN refunds'
    BY <1>1, <1>2, <1>3 DEF CreditsMade
  <1> QED BY <1>5, <1>6, <1>7 DEF CreditsMade

LEMMA CreditsInit == ASSUME SaleInit PROVE CreditsMade
  <1>1. refunds = <<>> /\ docs = <<>> /\ task = [p \in Writers |-> NoTask]
    BY DEF SaleInit
  <1>2. DOMAIN refunds = {} /\ DOMAIN docs = {}
    BY <1>1, EmptySeqParts
  <1>3. \A p \in Writers : task[p].does = "none" /\ task[p].refund = 0
    BY <1>1 DEF NoTask
  <1> QED BY <1>2, <1>3 DEF CreditsMade, Documents

\* A request changes its own task only, for the refund it had or has then.
LEMMA OneTask ==
    ASSUME SaleBooksInv, CreditsMade, NEW p \in Writers, NEW old, old = task[p].refund,
           NEW t, task' = [task EXCEPT ![p] = t],
           refunds' = refunds, DocsStay,
           IF t.does = "note" THEN t.refund \in DOMAIN refunds ELSE t.refund = 0,
           \A d \in Documents("note")' : docs'[d].refund \in DOMAIN refunds,
           \A r \in DOMAIN refunds : r # old /\ r # t.refund => NotesOf(r)' = NotesOf(r),
           uneven \subseteq uneven',
           \A r \in DOMAIN refunds \ uneven' : r = old \/ r = t.refund => CreditMade(r)'
    PROVE  CreditsMade'
  <1>1. DOMAIN task = Writers
    BY DEF SaleBooksInv, TasksMade
  <1>2. task'[p] = t /\ \A q \in Writers : q # p => task'[q] = task[q]
    BY <1>1
  <1>3. \A q \in Writers : IF task'[q].does = "note" THEN task'[q].refund \in DOMAIN refunds'
                                                     ELSE task'[q].refund = 0
    <2> SUFFICES ASSUME NEW q \in Writers
                 PROVE  IF task'[q].does = "note" THEN task'[q].refund \in DOMAIN refunds'
                                                  ELSE task'[q].refund = 0
      OBVIOUS
    <2>1. CASE q = p
      BY <1>2, <2>1
    <2>2. CASE q # p
      BY <1>2, <2>2 DEF CreditsMade
    <2> QED BY <2>1, <2>2
  <1>4. ASSUME NEW r \in DOMAIN refunds' \ uneven' PROVE CreditMade(r)'
    <2>1. CASE r = old \/ r = t.refund
      BY <1>4, <2>1
    <2>2. CASE r # old /\ r # t.refund
      <3>1. CreditMade(r) /\ r \in DOMAIN refunds
        BY <1>4 DEF CreditsMade
      <3>2. NotesOf(r)' = NotesOf(r)
        BY <2>2, <3>1
      <3>3. \A q \in Writers : task'[q] = task[q] \/ (task[q].refund # r /\ task'[q].refund # r)
        BY <1>2, <2>2
      <3>4. refunds'[r].amount = refunds[r].amount
        OBVIOUS
      <3> QED BY <3>1, <3>2, <3>3, <3>4, CreditStays
    <2> QED BY <2>1, <2>2
  <1>5. \A d \in Documents("note")' : docs'[d].refund \in DOMAIN refunds'
    OBVIOUS
  <1> QED BY <1>3, <1>4, <1>5 DEF CreditsMade

LEMMA IssueFindCredits ==
    ASSUME SaleBooksInv, CreditsMade, NEW p \in Writers, IssueFind(p)
    PROVE  CreditsMade'
  <1>1. PICK table, t : /\ t = [does |-> "invoice", refund |-> 0, table |-> table, todo |-> Sellers]
                        /\ task' = [task EXCEPT ![p] = t]
    BY DEF IssueFind
  <1>2. task[p].does = "none" /\ docs' = docs /\ refunds' = refunds /\ uneven' = uneven
    BY DEF IssueFind, Figures
  <1>3. task[p].refund = 0 /\ t.refund = 0 /\ t.does = "invoice"
    BY <1>1, <1>2 DEF CreditsMade
  <1>4. DocsStay
    BY <1>2 DEF DocsStay
  <1>5. /\ \A d \in Documents("note")' : docs'[d].refund \in DOMAIN refunds
        /\ \A r \in DOMAIN refunds : NotesOf(r)' = NotesOf(r)
    BY <1>2 DEF CreditsMade, Documents, NotesOf
  <1>6. \A r \in DOMAIN refunds : r # 0
    BY RefundNumbers
  <1>7. PICK old : old = task[p].refund /\ old = 0
    BY <1>3
  <1>8. /\ IF t.does = "note" THEN t.refund \in DOMAIN refunds ELSE t.refund = 0
        /\ task' = [task EXCEPT ![p] = t] /\ refunds' = refunds /\ uneven \subseteq uneven'
        /\ \A r \in DOMAIN refunds \ uneven' : r = old \/ r = t.refund => CreditMade(r)'
        /\ \A r \in DOMAIN refunds : r # old /\ r # t.refund => NotesOf(r)' = NotesOf(r)
    BY <1>1, <1>2, <1>3, <1>4, <1>5, <1>6, <1>7
  <1> QED BY <1>4, <1>5, <1>7, <1>8, OneTask

LEMMA StopCredits ==
    ASSUME SaleBooksInv, CreditsMade, NEW p \in Writers, Stop(p)
    PROVE  CreditsMade'
  <1>1. PICK old, t : old = task[p].refund /\ t = NoTask
    OBVIOUS
  <1>2. /\ task' = [task EXCEPT ![p] = t] /\ docs' = docs /\ refunds' = refunds
        /\ uneven' = uneven \cup {old}
    BY <1>1 DEF Stop, Figures
  <1>3. t.refund = 0 /\ t.does = "none"
    BY <1>1 DEF NoTask
  <1>4. DocsStay
    BY <1>2 DEF DocsStay
  <1>5. /\ \A d \in Documents("note")' : docs'[d].refund \in DOMAIN refunds
        /\ \A r \in DOMAIN refunds : NotesOf(r)' = NotesOf(r)
    BY <1>2 DEF CreditsMade, Documents, NotesOf
  <1>6. \A r \in DOMAIN refunds : r # 0
    BY RefundNumbers
  <1>7. \A r \in DOMAIN refunds \ uneven' : r # old /\ r # t.refund
    BY <1>2, <1>3, <1>6
  <1> QED BY <1>1, <1>2, <1>3, <1>4, <1>5, <1>7, OneTask

\* What a request that goes on, or ends, has next.
LEMMA NextTask ==
    ASSUME TasksMade, NEW p \in Writers, task[p].does # "none", NEW todo, Continue(p, todo)
    PROVE  \E t : /\ task' = [task EXCEPT ![p] = t]
                  /\ todo = <<>> => t = NoTask
                  /\ todo # <<>> => t.does = task[p].does /\ t.refund = task[p].refund /\ t.todo = todo
  <1>1. PICK u : u = task[p] /\ TaskMade(u) /\ DOMAIN task = Writers
    BY DEF TasksMade
  <1>2. PICK t : t = IF todo = <<>> THEN NoTask ELSE [u EXCEPT !.todo = todo]
    OBVIOUS
  <1>3. task' = [task EXCEPT ![p] = t]
    BY <1>1, <1>2 DEF Continue
  <1>4. PICK d, r, b, s : u = [does |-> d, refund |-> r, table |-> b, todo |-> s]
    BY <1>1, Zenon DEF TaskMade
  <1>5. [u EXCEPT !.todo = todo].does = d /\ [u EXCEPT !.todo = todo].refund = r
        /\ [u EXCEPT !.todo = todo].todo = todo
    BY <1>4
  <1>6. u.does = d /\ u.refund = r
    BY <1>4
  <1> QED BY <1>1, <1>2, <1>3, <1>5, <1>6

LEMMA IssueOneCredits ==
    ASSUME SaleBooksInv, CreditsMade, NEW p \in Writers, IssueOne(p)
    PROVE  CreditsMade'
  <1>1. task[p].does = "invoice" /\ refunds' = refunds /\ uneven' = uneven
    BY DEF IssueOne, Figures
  <1>2. PICK todo, doc : /\ Continue(p, todo)
                         /\ \/ docs' = docs
                            \/ doc.kind = "invoice" /\ docs' = Append(docs, doc)
    <2>1. CASE Invoiced(Head(task[p].todo))
      BY <2>1 DEF IssueOne
    <2>2. CASE ~Invoiced(Head(task[p].todo))
      <3>1. PICK seller, lines, total, doc :
              /\ doc = [kind |-> "invoice", seller |-> seller, refund |-> 0, of |-> 0,
                        amount |-> total, lines |-> lines, total |-> total + RoundOff(total)]
              /\ docs' = Append(docs, doc) /\ Continue(p, Tail(task[p].todo))
        BY <2>2 DEF IssueOne
      <3>2. doc.kind = "invoice"
        BY <3>1
      <3> QED BY <3>1, <3>2
    <2> QED BY <2>1, <2>2
  <1>3. task[p].refund = 0
    BY <1>1 DEF CreditsMade
  <1>4. PICK t : task' = [task EXCEPT ![p] = t] /\ t.refund = 0 /\ t.does # "note"
    <2>1. TasksMade /\ task[p].does # "none"
      BY <1>1 DEF SaleBooksInv
    <2>2. PICK t : /\ task' = [task EXCEPT ![p] = t]
                   /\ todo = <<>> => t = NoTask
                   /\ todo # <<>> => t.does = task[p].does /\ t.refund = task[p].refund
      BY <1>2, <2>1, NextTask
    <2>3. NoTask.refund = 0 /\ NoTask.does = "none"
      BY DEF NoTask
    <2>4. t.refund = 0 /\ t.does # "note"
      BY <1>1, <1>3, <2>2, <2>3
    <2> QED BY <2>2, <2>4
  <1>5. /\ DocsStay
        /\ \A d \in Documents("note")' : docs'[d].refund \in DOMAIN refunds
        /\ \A r : NotesOf(r)' = NotesOf(r)
    <2>1. CASE docs' = docs
      BY <2>1 DEF CreditsMade, Documents, NotesOf, DocsStay
    <2>2. CASE docs' # docs
      <3>1. doc.kind = "invoice" /\ docs' = Append(docs, doc)
        BY <1>2, <2>2
      <3>2. doc.kind # "note"
        BY <3>1
      <3>3. /\ DocsStay /\ Documents("note")' = Documents("note")
            /\ \A r : NotesOf(r)' = NotesOf(r)
        BY <3>1, <3>2, NotesAdded
      <3>4. \A d \in Documents("note") : d \in DOMAIN docs /\ docs[d].refund \in DOMAIN refunds
        BY DEF CreditsMade, Documents
      <3> QED BY <3>3, <3>4 DEF DocsStay
    <2> QED BY <2>1, <2>2
  <1>6. \A r \in DOMAIN refunds : r # 0
    BY RefundNumbers
  <1>7. PICK old : old = task[p].refund /\ old = 0
    BY <1>3
  <1>8. /\ IF t.does = "note" THEN t.refund \in DOMAIN refunds ELSE t.refund = 0
        /\ uneven \subseteq uneven'
        /\ \A r \in DOMAIN refunds \ uneven' : r = old \/ r = t.refund => CreditMade(r)'
        /\ \A r \in DOMAIN refunds : r # old /\ r # t.refund => NotesOf(r)' = NotesOf(r)
    BY <1>1, <1>3, <1>4, <1>5, <1>6, <1>7
  <1> QED BY <1>1, <1>4, <1>5, <1>7, <1>8, OneTask

LEMMA CreditFindCredits ==
    ASSUME SaleBooksInv, CreditsMade, NEW p \in Writers, CreditFind(p)
    PROVE  CreditsMade'
  <1> DEFINE listed == InOrder(Documents("invoice"))
             totals == [k \in DOMAIN listed |-> docs[listed[k]].total]
             split(r) == AllocatePaise(refunds[r].amount, totals)
             owed(r) == ByInvoice({share \in {[of |-> listed[k], amount |-> split(r)[k]] : k \in DOMAIN listed} :
                                       share.amount > 0})
  <1>1. PICK r \in DOMAIN refunds :
          /\ listed # <<>> /\ owed(r) # <<>> /\ NotesOf(r) = {} /\ task[p].does = "none"
          /\ task' = [task EXCEPT ![p] = [does |-> "note", refund |-> r, table |-> <<>>, todo |-> owed(r)]]
          /\ uneven' = IF Straight(r, totals) THEN uneven ELSE uneven \cup {r}
          /\ docs' = docs /\ refunds' = refunds
    BY Zenon DEF CreditFind, Figures
  <1>2. PICK amount \in Nat : amount = refunds[r].amount
    BY RefundNumbers
  <1>3. PICK invoices : invoices = listed
    OBVIOUS
  <1>4. PICK due, t, w : /\ due = owed(r) /\ t = [does |-> "note", refund |-> r, table |-> <<>>, todo |-> due]
                        /\ w = totals
    OBVIOUS
  <1>5. /\ w = [k \in DOMAIN invoices |-> docs[invoices[k]].total]
        /\ due = Due(amount, invoices)
    BY <1>2, <1>3, <1>4, Zenon DEF Due, Split
  <1>6. invoices = InOrder(Documents("invoice")) /\ invoices # <<>>
    BY <1>1, <1>3, Zenon
  <1>7. /\ LeftOf(due) = amount
        /\ amount <= SumFunction(w) => \A k \in DOMAIN due : due[k].amount <= docs[due[k].of].total
    <2>1. OrderMade /\ DocsMade
      BY DEF SaleBooksInv
    <2>2. PICK m : m = SumFunction(w)
                   /\ m = SumFunction([k \in DOMAIN invoices |-> docs[invoices[k]].total])
      BY <1>5, Zenon
    <2> HIDE DEF listed, totals, split, owed
    <2>3. /\ LeftOf(due) = amount
          /\ amount <= m => \A k \in DOMAIN due : due[k].amount <= docs[due[k].of].total
      BY <1>5, <1>6, <2>1, <2>2, DueFits
    <2> QED BY <2>2, <2>3
  <1>8. /\ task' = [task EXCEPT ![p] = t]
        /\ uneven' = IF Straight(r, w) THEN uneven ELSE uneven \cup {r}
    BY <1>1, <1>4, Zenon
  <1> HIDE DEF listed, totals, split, owed
  <1>9. t.does = "note" /\ t.refund = r /\ t.todo = due
    BY <1>4
  <1>a. task[p].refund = 0
    BY <1>1 DEF CreditsMade
  <1>b. DOMAIN task = Writers
    BY DEF SaleBooksInv, TasksMade
  <1>c. \A s \in DOMAIN refunds : s # 0
    BY RefundNumbers
  <1>d. DocsStay
    BY <1>1 DEF DocsStay
  <1>e. /\ \A d \in Documents("note")' : docs'[d].refund \in DOMAIN refunds
        /\ \A s \in DOMAIN refunds : NotesOf(s)' = NotesOf(s)
    BY <1>1 DEF CreditsMade, Documents, NotesOf
  <1>f. ASSUME r \notin uneven' PROVE CreditMade(r)'
    <2>1. Straight(r, w)
      BY <1>8, <1>f
    <2>2. (\A q \in Writers : task[q].refund # r) /\ amount <= SumFunction(w)
      BY <1>2, <2>1 DEF Straight
    <2>3. task'[p] = t /\ \A q \in Writers : q # p => task'[q] = task[q]
      BY <1>8, <1>b
    <2>4. \A k \in DOMAIN due : due[k].amount <= docs'[due[k].of].total
      BY <1>1, <1>7, <2>2
    <2>5. Credited(r)' + LeftOf(due) = refunds'[r].amount
      <3>1. Credited(r) = 0
        BY <1>1, NotesParts
      <3>2. Credited(r)' = Credited(r)
        <4>1. NotesOf(r)' = NotesOf(r) /\ docs' = docs
          BY <1>1, <1>e
        <4> QED BY <4>1, Zenon DEF Credited
      <3> QED BY <1>1, <1>2, <1>7, <3>1, <3>2
    <2>6. task'[p].refund = r /\ \A q \in Writers : task'[q].refund = r => q = p
      BY <1>9, <2>2, <2>3
    <2>7. LeftOf(task[p].todo)' = LeftOf(due)
      <3>1. task'[p].todo = due
        BY <1>9, <2>3
      <3> QED BY <3>1 DEF LeftOf
    <2>8. task'[p].todo = due
      BY <1>9, <2>3
    <2>9. CreditedBy(p, r)'
      BY <2>4, <2>5, <2>6, <2>7, <2>8, Zenon DEF CreditedBy
    <2> QED BY <2>9 DEF CreditMade
  <1>g. \A s \in DOMAIN refunds \ uneven' : s = task[p].refund \/ s = t.refund => CreditMade(s)'
    <2> SUFFICES ASSUME NEW s \in DOMAIN refunds \ uneven', s = task[p].refund \/ s = t.refund
                 PROVE  CreditMade(s)'
      OBVIOUS
    <2>1. s = r
      BY <1>9, <1>a, <1>c
    <2>2. CreditMade(r)'
      BY <1>f, <2>1
    <2> QED BY <2>1, <2>2
  <1>h. uneven \subseteq uneven'
    BY <1>8
  <1>i. PICK old : old = task[p].refund
    OBVIOUS
  <1>j. /\ IF t.does = "note" THEN t.refund \in DOMAIN refunds ELSE t.refund = 0
        /\ \A s \in DOMAIN refunds \ uneven' : s = old \/ s = t.refund => CreditMade(s)'
        /\ \A s \in DOMAIN refunds : s # old /\ s # t.refund => NotesOf(s)' = NotesOf(s)
        /\ task' = [task EXCEPT ![p] = t] /\ refunds' = refunds
    BY <1>1, <1>8, <1>9, <1>e, <1>g, <1>i
  <1> QED BY <1>d, <1>e, <1>h, <1>i, <1>j, OneTask

LEMMA CreditOneCredits ==
    ASSUME SaleBooksInv, CreditsMade, NEW p \in Writers, CreditOne(p)
    PROVE  CreditsMade'
  <1>1. task[p].does = "note" /\ refunds' = refunds /\ uneven' = uneven
    BY DEF CreditOne, Figures
  <1>2. PICK r \in DOMAIN refunds : r = task[p].refund
    BY <1>1 DEF CreditsMade
  <1>3. PICK todo : /\ todo = task[p].todo /\ IsSeq(todo) /\ todo # <<>>
                    /\ \A k \in DOMAIN todo : DueMade(todo[k])
    BY <1>1 DEF SaleBooksInv, TasksMade, TaskMade
  <1>4. PICK due : due = Head(todo) /\ due = todo[1] /\ 1 \in DOMAIN todo
    BY <1>3, TailParts
  <1>5. PICK next, doc : /\ Continue(p, next)
                         /\ \/ docs' = docs /\ due.amount > docs[due.of].total
                            \/ /\ doc.kind = "note" /\ doc.refund = r /\ doc.amount = due.amount
                               /\ docs' = Append(docs, doc) /\ next = Tail(todo)
    <2>1. CASE due.amount > docs[due.of].total
      BY <1>3, <1>4, <2>1 DEF CreditOne
    <2>2. CASE ~ (due.amount > docs[due.of].total)
      <3>1. PICK lines, total, doc :
              /\ doc = [kind |-> "note", seller |-> docs[due.of].seller, refund |-> r, of |-> due.of,
                        amount |-> due.amount, lines |-> lines, total |-> total]
              /\ docs' = Append(docs, doc) /\ Continue(p, Tail(todo))
        BY <1>2, <1>3, <1>4, <2>2 DEF CreditOne
      <3>2. doc.kind = "note" /\ doc.refund = r /\ doc.amount = due.amount
        BY <3>1
      <3> QED BY <3>1, <3>2
    <2> QED BY <2>1, <2>2
  <1>6. PICK t : /\ task' = [task EXCEPT ![p] = t]
                 /\ next = <<>> => t = NoTask
                 /\ next # <<>> => t.does = "note" /\ t.refund = r /\ t.todo = next
    <2>1. TasksMade /\ task[p].does # "none"
      BY <1>1 DEF SaleBooksInv
    <2>2. PICK t : /\ task' = [task EXCEPT ![p] = t]
                   /\ next = <<>> => t = NoTask
                   /\ next # <<>> => t.does = task[p].does /\ t.refund = task[p].refund /\ t.todo = next
      BY <1>5, <2>1, NextTask
    <2> QED BY <1>1, <1>2, <2>2
  <1>7. NoTask.refund = 0 /\ NoTask.does = "none"
    BY DEF NoTask
  <1>8. t.refund \in {0, r} /\ IF t.does = "note" THEN t.refund \in DOMAIN refunds ELSE t.refund = 0
    BY <1>6, <1>7
  <1>9. \A s \in DOMAIN refunds : s # 0
    BY RefundNumbers
  <1>a. task'[p] = t /\ \A q \in Writers : q # p => task'[q] = task[q]
    BY <1>6 DEF SaleBooksInv, TasksMade
  <1>b. /\ DocsStay
        /\ \A d \in Documents("note")' : docs'[d].refund \in DOMAIN refunds
        /\ \A s \in DOMAIN refunds : s # r => NotesOf(s)' = NotesOf(s)
    <2>1. CASE docs' = docs
      BY <2>1 DEF CreditsMade, Documents, NotesOf, DocsStay
    <2>2. CASE docs' # docs
      <3>1. doc.kind = "note" /\ doc.refund = r /\ docs' = Append(docs, doc)
        BY <1>5, <2>2
      <3>2. PICK e : /\ DocsStay /\ docs'[e] = doc
                     /\ Documents("note")' = Documents("note") \cup {e}
                     /\ \A s : NotesOf(s)' = IF doc.kind = "note" /\ doc.refund = s
                                             THEN NotesOf(s) \cup {e} ELSE NotesOf(s)
        BY <3>1, NotesAdded
      <3>3. \A d \in Documents("note") : d \in DOMAIN docs /\ docs[d].refund \in DOMAIN refunds
        BY DEF CreditsMade, Documents
      <3>4. \A d \in Documents("note")' : docs'[d].refund \in DOMAIN refunds
        BY <3>1, <3>2, <3>3 DEF DocsStay
      <3>5. \A s : s # r => NotesOf(s)' = NotesOf(s)
        BY <3>1, <3>2
      <3> QED BY <3>2, <3>4, <3>5
    <2> QED BY <2>1, <2>2
  <1>c. ASSUME r \notin uneven PROVE CreditMade(r)'
    <2>1. CreditedBy(p, r)
      <3>1. CreditMade(r)
        BY <1>c DEF CreditsMade
      <3>2. ~Free(r)
        BY <1>2 DEF Free
      <3>3. PICK q \in Writers : CreditedBy(q, r)
        BY <3>1, <3>2 DEF CreditMade
      <3>4. q = p
        BY <1>2, <3>3 DEF CreditedBy
      <3> QED BY <3>3, <3>4
    <2>2. /\ \A q \in Writers : task[q].refund = r => q = p
          /\ Credited(r) + LeftOf(todo) = refunds[r].amount
          /\ \A k \in DOMAIN todo : todo[k].amount <= docs[todo[k].of].total
      BY <1>3, <2>1 DEF CreditedBy
    <2>3. due.amount \in Nat /\ due.amount <= docs[due.of].total /\ docs[due.of].total \in Nat
      <3>1. DueMade(due)
        BY <1>3, <1>4
      <3>2. OrderMade /\ DocsMade
        BY DEF SaleBooksInv
      <3>3. due.amount <= docs[due.of].total
        BY <1>4, <2>2
      <3> QED BY <3>1, <3>2, <3>3, InvoiceParts DEF DueMade
    <2>4. doc.kind = "note" /\ doc.refund = r /\ doc.amount = due.amount
          /\ docs' = Append(docs, doc) /\ next = Tail(todo)
      <3>1. ~ (due.amount > docs[due.of].total)
        BY <2>3
      <3> QED BY <1>5, <3>1
    <2>5. PICK e : /\ DocsStay /\ docs'[e] = doc /\ e \notin DOMAIN docs
                   /\ NotesOf(r)' = IF doc.kind = "note" /\ doc.refund = r
                                    THEN NotesOf(r) \cup {e} ELSE NotesOf(r)
      BY <2>4, NotesAdded
    <2>6. PICK N, M : N = NotesOf(r) /\ M = NotesOf(r)' /\ M = N \cup {e} /\ e \notin N
                      /\ IsFiniteSet(N) /\ (\A d \in N : docs'[d] = docs[d])
      <3>1. NotesOf(r) \in SUBSET DOMAIN docs /\ IsFiniteSet(NotesOf(r))
        BY NotesParts
      <3>2. NotesOf(r)' = NotesOf(r) \cup {e}
        BY <2>4, <2>5
      <3> QED BY <2>5, <3>1, <3>2 DEF DocsStay
    <2>7. Credited(r)' = Credited(r) + due.amount
      <3>1. PICK f, g : f = [d \in N |-> docs[d].amount] /\ g = [d \in M |-> docs'[d].amount]
        OBVIOUS
      <3>2. Credited(r) = SumFunction(f) /\ Credited(r)' = SumFunction(g)
        BY <2>6, <3>1, Zenon DEF Credited
      <3>3. \A d \in N : docs[d].amount \in Nat
        BY <2>6, NotesParts
      <3>4. (\A d \in N : g[d] = f[d]) /\ g[e] = due.amount
        BY <2>4, <2>5, <2>6, <3>1
      <3>5. f \in [N -> Int]
        BY <3>1, <3>3
      <3>6. g \in [M -> Int]
        <4> SUFFICES ASSUME NEW d \in M PROVE g[d] \in Int
          BY <3>1
        <4>1. CASE d \in N
          BY <3>4, <3>5, <4>1
        <4>2. CASE d = e
          BY <2>3, <3>4, <4>2
        <4> QED BY <2>6, <4>1, <4>2
      <3>7. SumFunction(g) = SumFunction(f) + g[e]
        BY <2>6, <3>4, <3>5, <3>6, SumGrownTo
      <3> QED BY <3>2, <3>4, <3>7
    <2>8. /\ LeftOf(todo) = due.amount + LeftOf(next)
          /\ LeftOf(next) \in Nat
          /\ next = <<>> => LeftOf(next) = 0
      <3>1. \A k \in DOMAIN todo : todo[k].amount \in Nat
        BY <1>3 DEF DueMade
      <3> QED BY <1>3, <1>4, <2>4, <3>1, LeftAfter
    <2>9. Credited(r) \in Nat
      BY NotesParts
    <2>a. Credited(r)' + LeftOf(next) = refunds[r].amount
      <3>1. PICK a \in Nat, b \in Nat, c \in Nat :
               a = Credited(r) /\ b = due.amount /\ c = LeftOf(next)
        BY <2>3, <2>8, <2>9
      <3>2. a + (b + c) = (a + b) + c
        OBVIOUS
      <3> QED BY <2>2, <2>7, <2>8, <3>1, <3>2
    <2>b. CASE next = <<>>
      <3>1. \A q \in Writers : task'[q].refund # r
        BY <1>6, <1>7, <1>9, <1>a, <2>2, <2>b
      <3>2. Free(r)'
        BY <3>1 DEF Free
      <3>3. Credited(r)' = refunds'[r].amount
        <4>1. PICK a \in Nat : a = Credited(r) + due.amount
          BY <2>3, <2>9
        <4>2. a + 0 = a
          OBVIOUS
        <4> QED BY <1>1, <2>7, <2>8, <2>a, <2>b, <4>1, <4>2
      <3> QED BY <3>2, <3>3 DEF CreditMade
    <2>c. CASE next # <<>>
      <3>1. task'[p].refund = r /\ task'[p].todo = next
        BY <1>6, <1>a, <2>c
      <3>2. \A q \in Writers : task'[q].refund = r => q = p
        BY <1>a, <2>2
      <3>3. ASSUME NEW k \in DOMAIN next PROVE next[k].amount <= docs'[next[k].of].total
        <4>1. PICK n \in Nat : n = Len(todo) /\ DOMAIN todo = 1 .. n
          BY <1>3, SeqParts
        <4>2. k \in 1 .. n - 1 /\ next[k] = todo[k + 1]
          BY <1>3, <2>4, <3>3, <4>1, TailParts
        <4>3. PICK j \in DOMAIN todo : next[k] = todo[j]
          <5>1. k + 1 \in 1 .. n
            BY <4>1, <4>2
          <5> QED BY <4>1, <4>2, <5>1
        <4>4. todo[j].amount <= docs[todo[j].of].total
          BY <2>2
        <4>5. todo[j].of \in DOMAIN docs
          BY <1>3 DEF DueMade, Documents
        <4> QED BY <1>b, <4>3, <4>4, <4>5 DEF DocsStay
      <3>4. LeftOf(task[p].todo)' = LeftOf(next)
        BY <3>1 DEF LeftOf
      <3>5. Credited(r)' + LeftOf(next) = refunds'[r].amount
        BY <1>1, <2>a
      <3>6. CreditedBy(p, r)'
        BY <3>1, <3>2, <3>3, <3>4, <3>5, Zenon DEF CreditedBy
      <3> QED BY <3>6 DEF CreditMade
    <2> QED BY <2>b, <2>c
  <1>d. /\ task' = [task EXCEPT ![p] = t] /\ refunds' = refunds /\ uneven \subseteq uneven'
        /\ \A s \in DOMAIN refunds : s # r /\ s # t.refund => NotesOf(s)' = NotesOf(s)
    BY <1>1, <1>6, <1>b
  <1>e. \A s \in DOMAIN refunds \ uneven' : s = r \/ s = t.refund => CreditMade(s)'
    <2> SUFFICES ASSUME NEW s \in DOMAIN refunds \ uneven', s = r \/ s = t.refund PROVE CreditMade(s)'
      OBVIOUS
    <2>1. s = r
      BY <1>8, <1>9
    <2>2. CreditMade(r)'
      BY <1>1, <1>c, <2>1
    <2> QED BY <2>1, <2>2
  <1> QED BY <1>2, <1>8, <1>b, <1>d, <1>e, OneTask

LEMMA CreditsStep ==
    ASSUME SaleBooksInv, CreditsMade, SaleNext \/ UNCHANGED saleVars
    PROVE  CreditsMade'
  <1>1. CASE /\ docs' = docs /\ task' = task /\ uneven' = uneven
             /\ \/ DOMAIN refunds' = DOMAIN refunds /\ \A r \in DOMAIN refunds : refunds'[r].amount = refunds[r].amount
                \/ \E refund : refunds' = Append(refunds, refund)
    BY <1>1, RefundsGrownCredits
  <1>2. CASE Confirm
    BY <1>1, <1>2 DEF Confirm
  <1>3. CASE RefundReturn
    <2>1. PICK amount, goods : AddRefund(amount, goods)
      BY <1>3 DEF RefundReturn
    <2> QED BY <1>1, <2>1 DEF AddRefund
  <1>4. CASE RefundAmount
    <2>1. PICK amount : AddRefund(amount, 0)
      BY <1>4 DEF RefundAmount
    <2> QED BY <1>1, <2>1 DEF AddRefund
  <1>5. ASSUME NEW p \in Writers, IssueFind(p) \/ IssueOne(p) \/ CreditFind(p) \/ CreditOne(p) \/ Stop(p)
        PROVE  CreditsMade'
    BY <1>5, IssueFindCredits, IssueOneCredits, CreditFindCredits, CreditOneCredits, StopCredits
  <1>6. CASE UNCHANGED saleVars
    BY <1>1, <1>6 DEF saleVars
  <1>7. ASSUME NEW r \in DOMAIN refunds, RefundFind(r) \/ RefundPost(r) \/ RefundCount(r)
        PROVE  CreditsMade'
    <2>1. OrderMade /\ RefundsMade
      BY DEF SaleBooksInv
    <2>2. /\ order' = order /\ sale' = sale /\ docs' = docs /\ task' = task /\ uneven' = uneven
          /\ IsSeq(refunds') /\ RefundTurn(r)
      BY <1>7, <2>1, RefundTurns
    <2>3. DOMAIN refunds' = DOMAIN refunds /\ \A q \in DOMAIN refunds : refunds'[q].amount = refunds[q].amount
      BY <2>1, <2>2, TurnedMade
    <2> QED BY <1>1, <2>2, <2>3
  <1> QED BY <1>2, <1>3, <1>4, <1>5, <1>6, <1>7 DEF SaleNext

LEMMA NotesFollow == ASSUME SaleBooksInv, CreditsMade PROVE NotesMatchRefunds
  <1> SUFFICES ASSUME NEW r \in DOMAIN refunds \ uneven, NotesOf(r) # {},
                      \A p \in Writers : task[p].refund # r
               PROVE  SumFunction([d \in NotesOf(r) |-> docs[d].total - Cesses(docs[d].lines)])
                        = refunds[r].amount
    BY DEF NotesMatchRefunds
  <1>1. CreditMade(r)
    BY DEF CreditsMade
  <1>2. \A p \in Writers : ~CreditedBy(p, r)
    BY DEF CreditedBy
  <1>3. Credited(r) = refunds[r].amount
    BY <1>1, <1>2 DEF CreditMade
  <1>4. \A d \in NotesOf(r) : docs[d].total - Cesses(docs[d].lines) = docs[d].amount
    <2>1. OrderMade /\ DocsMade
      BY DEF SaleBooksInv
    <2>2. NotesOf(r) \in SUBSET Documents("note")
      BY NotesParts
    <2> QED BY <2>1, <2>2, NoteWorth
  <1>5. [d \in NotesOf(r) |-> docs[d].total - Cesses(docs[d].lines)] = [d \in NotesOf(r) |-> docs[d].amount]
    BY <1>4
  <1> QED BY <1>3, <1>5, Zenon DEF Credited

\* The notes of a refund add up to it: what its one request has written and has left
\* to write always does.
THEOREM SaleNotesMatchRefunds == SaleSpec => []NotesMatchRefunds
  <1>1. SaleInit => SaleBooksInv /\ CreditsMade
    BY SaleInitInv, CreditsInit
  <1>2. SaleBooksInv /\ CreditsMade /\ [SaleNext]_saleVars => SaleBooksInv' /\ CreditsMade'
    BY SaleStep, CreditsStep
  <1>3. SaleBooksInv /\ CreditsMade => NotesMatchRefunds
    BY NotesFollow
  <1> QED BY <1>1, <1>2, <1>3, PTL DEF SaleSpec

=============================================================================

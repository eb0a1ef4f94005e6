-------------------------------- MODULE Money --------------------------------
(***************************************************************************)
(* Integer-paise arithmetic: utils/money.js.  Amounts are integers below   *)
(* 2^53, exact in JavaScript; the quotients allocatePaise sorts by are     *)
(* doubles, and Fraction gives the 53 significant bits they have.          *)
(***************************************************************************)
EXTENDS Integers, Sequences, FiniteSets, Functions

Abs(n) == IF n < 0 THEN -n ELSE n

Sign(n) == IF n < 0 THEN -1 ELSE 1

\* Number(x) || 0, negatives dropped.
Usable(weights) == [i \in DOMAIN weights |-> IF weights[i] > 0 THEN weights[i] ELSE 0]

-----------------------------------------------------------------------------
(* What allocatePaise promises: the leftover paise go to the largest remainders; *)
(* which of several equal ones is left open.                                     *)

\* parts splits total by the weights: no part differs from its quota by a paisa,
\* and none got a leftover paisa before one with a larger remainder.
FairlySplit(total, weights, parts) ==
    LET w     == Usable(weights)
        sum   == SumFunction(w)
        floor == [i \in DOMAIN w |-> (Abs(total) * w[i]) \div sum]
        frac  == [i \in DOMAIN w |-> (Abs(total) * w[i]) % sum]
        extra == [i \in DOMAIN w |-> Sign(total) * parts[i] - floor[i]]
    IN  /\ SumFunction(parts) = total
        /\ sum > 0 =>
              /\ \A i \in DOMAIN w : extra[i] \in {0, 1}
              /\ \A i, j \in DOMAIN w : extra[i] > extra[j] => frac[i] >= frac[j]

-----------------------------------------------------------------------------
(* What it computes *)

Bits == 1 .. 60

BitLength(n) == CHOOSE b \in 0 .. 29 : n < 2^b /\ (b > 0 => n >= 2^(b - 1))

\* The binary digits after the point of the double nearest to n / d, by long
\* division.  No n / d with d < 2^52 is halfway between two doubles.
Remainders(n, d) ==
    LET rem[k \in 0 .. 60] == IF k = 0 THEN n % d ELSE (2 * rem[k - 1]) % d IN rem

Fraction(n, d) ==
    LET rem == Remainders(n, d)
        digit == [k \in Bits |-> (2 * rem[k - 1]) \div d]
        first == CHOOSE k \in Bits : digit[k] = 1 /\ \A j \in 1 .. k - 1 : digit[j] = 0
        last  == IF n >= d THEN 53 - BitLength(n \div d) ELSE 52 + first
        carry == CHOOSE k \in 1 .. last : digit[k] = 0 /\ \A j \in k + 1 .. last : digit[j] = 1
    IN  IF n % d = 0 THEN [k \in Bits |-> 0]
        ELSE IF digit[last + 1] = 0
        THEN [k \in Bits |-> IF k <= last THEN digit[k] ELSE 0]
        ELSE [k \in Bits |-> IF k < carry THEN digit[k] ELSE IF k = carry THEN 1 ELSE 0]

Exceeds(f, g) == \E k \in Bits : f[k] > g[k] /\ \A j \in 1 .. k - 1 : f[j] = g[j]

\* Mutant: the smallest remainder first.
BeforeSmallest(n, d, i, j) ==
    \/ n[i] % d < n[j] % d
    \/ n[i] % d = n[j] % d /\ i < j

\* Slot i is sorted before slot j, by fraction, largest first, then index.  Different
\* remainders are further apart than any rounding; equal ones may become different
\* doubles, since the quotient's integer part takes bits from the fraction.
Before(n, d, i, j) ==
    \/ n[i] % d > n[j] % d
    \/ /\ n[i] % d = n[j] % d
       /\ LET f == Fraction(n[i], d)
              g == Fraction(n[j], d)
          IN  Exceeds(f, g) \/ (f = g /\ i < j)

Parts(magnitude, w) ==
    LET sum   == SumFunction(w)
        n     == [i \in DOMAIN w |-> magnitude * w[i]]
        floor == [i \in DOMAIN w |-> n[i] \div sum]
        left  == magnitude - SumFunction(floor)
        Lucky(i) == Cardinality({j \in DOMAIN w \ {i} : Before(n, sum, j, i)}) < left
    IN  [i \in DOMAIN w |-> floor[i] + IF left > 0 /\ Lucky(i) THEN 1 ELSE 0]

Signed(sign, parts) == [i \in DOMAIN parts |-> sign * parts[i]]

\* Mutant: the last line absorbs the rounding.
AllocatePaiseLastAbsorbs(total, weights) ==
    LET w == Usable(weights)
        floor == [i \in DOMAIN w |-> (Abs(total) * w[i]) \div SumFunction(w)]
    IN  IF SumFunction(w) = 0 THEN [i \in DOMAIN w |-> IF i = 1 THEN total ELSE 0]
        ELSE Signed(Sign(total), [i \in DOMAIN w |->
                IF i = Len(w) THEN Abs(total) - (SumFunction(floor) - floor[i]) ELSE floor[i]])

AllocatePaise(total, weights) ==
    LET w == Usable(weights)
    IN  IF total = 0 THEN [i \in DOMAIN w |-> 0]
        ELSE IF SumFunction(w) = 0 THEN [i \in DOMAIN w |-> IF i = 1 THEN total ELSE 0]
        ELSE Signed(Sign(total), Parts(Abs(total), w))

\* Math.round of a non-negative fraction rounds halves up.
ApplyBps(base, bps) == Sign(base) * ((2 * Abs(base) * bps + 10000) \div 20000)
=============================================================================

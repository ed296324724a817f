------------------------- MODULE MoneyTotalsProofs -------------------------
(***************************************************************************)
(* The rounding of Money and the totals kept with it, for every list of    *)
(* operands, every quantity and every number of operations.                *)
(***************************************************************************)
EXTENDS MoneyTotals, TalliesProofs

-----------------------------------------------------------------------------
(* Rounding *)

\* A rounded amount is whole and off by at most half a cent, an amount of whole
\* cents is kept, and the opposite amount rounds to the opposite
\* (ROUND_HALF_EVEN, vqc_currency.py:26).
LEMMA RoundingIsNearest ==
  ASSUME NEW n \in Int
  PROVE  /\ FromDecimal(n) \in Int
         /\ 2 * (n - 100 * FromDecimal(n)) <= 100
         /\ 2 * (100 * FromDecimal(n) - n) <= 100
<1> DEFINE floor == n \div 100
           rest  == n % 100
<1>1. floor \in Int /\ rest \in 0 .. 99 /\ n = 100 * floor + rest
  BY Z3
<1>2. FromDecimal(n) = IF 2 * rest < 100 \/ (2 * rest = 100 /\ floor % 2 = 0)
                       THEN floor ELSE floor + 1
  BY DEF FromDecimal, RoundHalfEven, UnitsPerCent
<1> HIDE DEF floor, rest
<1> QED
  BY <1>1, <1>2

\* A whole number of cents is kept by a conversion there and back.
LEMMA RoundingKeepsCents ==
  ASSUME NEW m \in Int
  PROVE  FromDecimal(ToDecimal(m)) = m
<1>1. ToDecimal(m) \in Int /\ ToDecimal(m) \div 100 = m /\ ToDecimal(m) % 100 = 0
  BY Z3 DEF ToDecimal, UnitsPerCent
<1> QED
  BY <1>1 DEF FromDecimal, RoundHalfEven, UnitsPerCent

\* Rounding half to even treats a sum and its opposite alike.
LEMMA RoundingIsSymmetric ==
  ASSUME NEW n \in Int
  PROVE  FromDecimal(0 - n) = 0 - FromDecimal(n)
<1> DEFINE floor == n \div 100
           rest  == n % 100
           other == (0 - n) \div 100
           left  == (0 - n) % 100
<1>1. /\ floor \in Int /\ rest \in 0 .. 99 /\ n = 100 * floor + rest
      /\ other \in Int /\ left \in 0 .. 99 /\ 0 - n = 100 * other + left
  BY Z3
<1>2. FromDecimal(n) = IF 2 * rest < 100 \/ (2 * rest = 100 /\ floor % 2 = 0)
                       THEN floor ELSE floor + 1
  BY DEF FromDecimal, RoundHalfEven, UnitsPerCent
<1>3. FromDecimal(0 - n) = IF 2 * left < 100 \/ (2 * left = 100 /\ other % 2 = 0)
                           THEN other ELSE other + 1
  BY DEF FromDecimal, RoundHalfEven, UnitsPerCent
<1> HIDE DEF floor, rest, other, left
<1>4. CASE rest = 0
  <2>1. other = 0 - floor /\ left = 0
    BY <1>1, <1>4
  <2> QED
    BY <1>1, <1>2, <1>3, <1>4, <2>1
<1>5. CASE rest # 0
  <2>1. other = 0 - floor - 1 /\ left = 100 - rest
    BY <1>1, <1>5
  <2>2. other % 2 = 0 <=> floor % 2 # 0
    BY <1>1, <2>1, Z3
  <2> QED
    BY <1>1, <1>2, <1>3, <2>1, <2>2
<1> QED
  BY <1>4, <1>5

-----------------------------------------------------------------------------
(* Amounts and their errors *)

\* x cents stand for w ten-thousandths with an error of at most k half cents.
Near(w, x, k) ==
  /\ w \in Int /\ x \in Int /\ k \in Nat
  /\ 2 * (w - 100 * x) <= 100 * k
  /\ 2 * (100 * x - w) <= 100 * k

\* Errors add up when amounts do, and turning an amount round keeps its error.
LEMMA NearSum ==
  ASSUME NEW w, NEW x, NEW k, Near(w, x, k), NEW v, NEW y, NEW l, Near(v, y, l)
  PROVE  Near(w + v, x + y, k + l)
BY DEF Near

\* Opposites are as near as what they are opposites of.
LEMMA NearOpposite ==
  ASSUME NEW w, NEW x, NEW k, Near(w, x, k)
  PROVE  Near(0 - w, 0 - x, k)
BY DEF Near

\* A bound that holds of one share holds of every number of them.
LEMMA ScaledBound ==
  ASSUME NEW q \in Nat, NEW a \in Int, NEW b \in Int, a <= b
  PROVE  q * a <= q * b
<1>1. b - a \in Nat /\ b = a + (b - a)
  OBVIOUS
<1>2. ASSUME NEW c \in Nat PROVE q * c \in Nat /\ q * (a + c) = q * a + q * c /\ q * a \in Int
  BY Z3
<1> QED
  BY <1>1, <1>2

\* A multiple is off by that multiple of the error.
LEMMA NearMultiple ==
  ASSUME NEW w, NEW x, NEW k, Near(w, x, k), NEW q \in Nat
  PROVE  Near(q * w, q * x, q * k)
<1>1. w \in Int /\ x \in Int /\ k \in Nat
  BY DEF Near
<1> DEFINE below == 2 * (w - 100 * x)
           above == 2 * (100 * x - w)
           bound == 100 * k
<1>2. below \in Int /\ above \in Int /\ bound \in Int /\ below <= bound /\ above <= bound
  BY <1>1 DEF Near
<1>3. q * below <= q * bound /\ q * above <= q * bound
  <2> HIDE DEF below, above, bound
  <2> QED
    BY <1>2, ScaledBound
<1>4. /\ q * w \in Int /\ q * x \in Int /\ q * k \in Nat
      /\ q * below = 2 * (q * w - 100 * (q * x))
      /\ q * above = 2 * (100 * (q * x) - q * w)
      /\ q * bound = 100 * (q * k)
  BY <1>1, Z3
<1> HIDE DEF below, above, bound
<1> QED
  BY <1>3, <1>4 DEF Near

-----------------------------------------------------------------------------
(* Operands *)

\* What the constructor and an operator make of an operand: the same cents, near
\* to what it is worth, exactly so unless it had to be rounded
\* (vqc_currency.py:42-56 and 82-92).
LEMMA OperandsAgree ==
  ASSUME NEW value \in Values
  PROVE  Normalize(value) = New(value) /\ Near(Worth(value), New(value), Rounds(value))
<1> DEFINE n == value.n
<1>1. n \in Int
  BY TotalsAssumption
<1>2. CASE value.kind = "decimal"
  <2>1. /\ New(value) = FromDecimal(n) /\ Normalize(value) = FromDecimal(n)
        /\ Worth(value) = n /\ Rounds(value) = 1
    BY <1>2 DEF New, Normalize, Worth, Rounds
  <2> HIDE DEF n
  <2>2. Near(n, FromDecimal(n), 1)
    BY <1>1, RoundingIsNearest DEF Near
  <2> QED
    BY <2>1, <2>2
<1>3. CASE value.kind # "decimal"
  <2>1. /\ New(value) = n /\ Normalize(value) = n
        /\ Worth(value) = n * 100 /\ Rounds(value) = 0
    BY <1>3 DEF New, Normalize, Worth, Rounds, ToDecimal, UnitsPerCent
  <2> HIDE DEF n
  <2>2. Near(n * 100, n, 0)
    BY <1>1 DEF Near
  <2> QED
    BY <2>1, <2>2
<1> QED
  BY <1>2, <1>3

\* The same of the amount FromDecimal makes of it, with a whole number counting
\* units (vqc_currency.py:58-70).
LEMMA UnitsAgree ==
  ASSUME NEW value \in Values
  PROVE  Near(AsDecimal(value), FromDecimal(AsDecimal(value)), Rounds(value))
<1> DEFINE n == value.n
<1>1. n \in Int
  BY TotalsAssumption
<1>2. CASE value.kind = "decimal"
  <2>1. AsDecimal(value) = n /\ Rounds(value) = 1
    BY <1>2 DEF AsDecimal, Rounds
  <2> HIDE DEF n
  <2>2. Near(n, FromDecimal(n), 1)
    BY <1>1, RoundingIsNearest DEF Near
  <2> QED
    BY <2>1, <2>2
<1>3. CASE value.kind # "decimal"
  <2>1. AsDecimal(value) = n * 10000 /\ Rounds(value) = 0
    BY <1>3 DEF AsDecimal, UnitsPerMajor, Rounds
  <2> HIDE DEF n
  <2>2. n * 100 \in Int /\ ToDecimal(n * 100) = n * 10000
    BY <1>1 DEF ToDecimal, UnitsPerCent
  <2>3. FromDecimal(n * 10000) = n * 100
    BY <2>2, RoundingKeepsCents
  <2>4. Near(n * 10000, n * 100, 0)
    BY <1>1 DEF Near
  <2> QED
    BY <2>1, <2>3, <2>4
<1> QED
  BY <1>2, <1>3

\* An amount of Money is taken as it is.
LEMMA MoneyOperand ==
  ASSUME NEW m
  PROVE  Normalize([kind |-> "money", n |-> m]) = m
BY DEF Normalize

-----------------------------------------------------------------------------
(* The totals *)

\* The rounding error alone is not inductive: a step needs the totals whole and
\* the number of roundings a natural number.
IInv ==
  /\ entries \in Seq(Int)
  /\ total = SumSeq(entries)
  /\ Near(exact, total, rounded)

\* An amount that is added is entered in the list and in the total, with an
\* error that the number of roundings covers.
LEMMA EntryKeepsIInv ==
  ASSUME IInv, NEW x, NEW w, NEW r, Near(w, x, r),
         total' = total + x, entries' = Append(entries, x),
         exact' = exact + w, rounded' = rounded + r
  PROVE  IInv'
<1>1. x \in Int /\ entries \in Seq(Int)
  BY DEF IInv, Near
<1>2. entries' \in Seq(Int) /\ SumSeq(entries') = SumSeq(entries) + x
  BY <1>1, SumSeqAppend
<1>3. Near(exact', total', rounded')
  BY NearSum DEF IInv
<1> QED
  BY <1>2, <1>3 DEF IInv

\* An amount that is taken away is an opposite amount that is added.
LEMMA OppositeKeepsIInv ==
  ASSUME IInv, NEW x, NEW w, NEW r, Near(w, x, r),
         total' = total - x, entries' = Append(entries, 0 - x),
         exact' = exact - w, rounded' = rounded + r
  PROVE  IInv'
<1>1. total \in Int /\ exact \in Int /\ x \in Int /\ w \in Int
  BY DEF IInv, Near
<1>2. total' = total + (0 - x) /\ exact' = exact + (0 - w)
  BY <1>1
<1> QED
  BY <1>2, NearOpposite, EntryKeepsIInv

\* Charge, ChargeUnits and Refund enter one amount.
LEMMA ChargeKeepsIInv ==
  ASSUME IInv, NEW value \in Values, Charge(value) \/ ChargeUnits(value) \/ Refund(value)
  PROVE  IInv'
<1>1. CASE Charge(value)
  BY <1>1, OperandsAgree, EntryKeepsIInv DEF Charge, Add
<1>2. CASE ChargeUnits(value)
  BY <1>2, UnitsAgree, MoneyOperand, EntryKeepsIInv DEF ChargeUnits, Add
<1>3. CASE Refund(value)
  BY <1>3, OperandsAgree, OppositeKeepsIInv DEF Refund, Subtract, Negate
<1> QED
  BY <1>1, <1>2, <1>3

\* A purchase enters the cost of all its shares, with the rounding of each.
LEMMA PurchaseKeepsIInv ==
  ASSUME IInv, NEW value \in Values, NEW quantity \in Quantities, Purchase(quantity, value)
  PROVE  IInv'
<1>1. Near(quantity * Worth(value), quantity * New(value), quantity * Rounds(value))
  BY TotalsAssumption, OperandsAgree, NearMultiple
<1> QED
  BY <1>1, MoneyOperand, OppositeKeepsIInv DEF Purchase, Subtract, Negate, Cost

\* Taking the total from an amount turns every entry round.
LEMMA SettleKeepsIInv ==
  ASSUME IInv, NEW value \in Values, Settle(value)
  PROVE  IInv'
<1> DEFINE turned == [i \in DOMAIN entries |-> 0 - entries[i]]
           x == New(value)
           w == Worth(value)
           k == Rounds(value)
<1>1. /\ entries \in Seq(Int) /\ total = SumSeq(entries) /\ Near(exact, total, rounded)
      /\ total \in Int /\ exact \in Int /\ rounded \in Nat
  BY DEF IInv, Near
<1>2. Near(w, x, k) /\ w \in Int /\ x \in Int /\ k \in Nat
  BY OperandsAgree DEF Near
<1>3. /\ total' = x - total /\ entries' = Append(turned, x)
      /\ exact' = w - exact /\ rounded' = rounded + k
  BY OperandsAgree DEF Settle, SubtractFrom, Negate
<1>4. turned \in Seq(Int) /\ SumSeq(turned) = 0 - total
  <2>1. turned \in Seq(Int)
    BY <1>1
  <2> QED
    BY <1>1, <2>1, SumSeqNegated
<1> HIDE DEF turned, x, w, k
<1>5. total' = (0 - total) + x /\ exact' = (0 - exact) + w
  BY <1>1, <1>2, <1>3
<1>6. entries' \in Seq(Int) /\ SumSeq(entries') = total'
  BY <1>2, <1>3, <1>4, <1>5, SumSeqAppend
<1>7. Near(exact', total', rounded')
  BY <1>1, <1>2, <1>3, <1>5, NearOpposite, NearSum
<1> QED
  BY <1>6, <1>7 DEF IInv

\* Doubling the total enters everything once more.
LEMMA DoubleKeepsIInv ==
  ASSUME IInv, Double
  PROVE  IInv'
<1>1. /\ entries \in Seq(Int) /\ total = SumSeq(entries) /\ Near(exact, total, rounded)
      /\ total \in Int /\ exact \in Int /\ rounded \in Nat
  BY DEF IInv, Near
<1>2. /\ total' = total * 2 /\ entries' = entries \o entries
      /\ exact' = 2 * exact /\ rounded' = 2 * rounded
  BY DEF Double, Multiply
<1>3. total' = total + total /\ exact' = exact + exact /\ rounded' = rounded + rounded
  BY <1>1, <1>2
<1>4. entries' \in Seq(Int) /\ SumSeq(entries') = total'
  BY <1>1, <1>2, <1>3, SumSeqConcat
<1>5. Near(exact', total', rounded')
  BY <1>1, <1>3, NearSum
<1> QED
  BY <1>4, <1>5 DEF IInv

\* IInv is inductive.
LEMMA Inductive ==
  /\ Init => IInv
  /\ IInv /\ [Next]_vars => IInv'
<1>1. ASSUME Init PROVE IInv
  <2>1. entries \in Seq(Int) /\ Len(entries) = 0
    BY <1>1 DEF Init
  <2>2. SumSeq(entries) = 0
    BY <2>1, SumSeqEmpty
  <2> QED
    BY <1>1, <2>1, <2>2 DEF Init, IInv, Near
<1>2. ASSUME IInv, [Next]_vars PROVE IInv'
  <2>1. CASE \E value \in Values : Charge(value) \/ ChargeUnits(value) \/ Refund(value)
    BY <1>2, <2>1, ChargeKeepsIInv
  <2>2. CASE \E value \in Values, quantity \in Quantities : Purchase(quantity, value)
    BY <1>2, <2>2, PurchaseKeepsIInv
  <2>3. CASE \E value \in Values : Settle(value)
    BY <1>2, <2>3, SettleKeepsIInv
  <2>4. CASE Double
    BY <1>2, <2>4, DoubleKeepsIInv
  <2>5. CASE UNCHANGED vars
    BY <1>2, <2>5 DEF vars, IInv
  <2> QED
    BY <1>2, <2>1, <2>2, <2>3, <2>4, <2>5 DEF Next
<1> QED
  BY <1>1, <1>2

-----------------------------------------------------------------------------
(* The theorems *)

\* However many amounts of whatever types a caller adds, takes away, multiplies
\* or settles, the total the operators give is the sum of the amounts the
\* constructor gives (vqc_currency.py:42-56 and 82-92).
THEOREM TotalsAgree == Spec => []TotalIsSumOfEntries
<1>1. IInv => TotalIsSumOfEntries
  BY DEF IInv, TotalIsSumOfEntries, Sum
<1> QED
  BY <1>1, Inductive, PTL DEF Spec

\* The rounding error is at most half a cent for each amount rounded, also when
\* a price is rounded once and paid for any number of shares, and no total
\* changes when it is written down and read back (vqc_currency.py:26 and 58-80).
THEOREM RoundingBounded == Spec => []RoundingErrorIsBounded
<1>1. IInv => RoundingErrorIsBounded
  <2> SUFFICES ASSUME IInv PROVE RoundingErrorIsBounded
    OBVIOUS
  <2>1. total \in Int /\ exact \in Int /\ rounded \in Nat
    BY DEF IInv, Near
  <2>2. ToDecimal(total) = 100 * total /\ rounded * UnitsPerCent = 100 * rounded
    BY <2>1 DEF ToDecimal, UnitsPerCent
  <2>3. FromDecimal(ToDecimal(total)) = total
    BY <2>1, RoundingKeepsCents
  <2> QED
    BY <2>2, <2>3 DEF IInv, Near, RoundingErrorIsBounded
<1> QED
  BY <1>1, Inductive, PTL DEF Spec

\* Taking an amount away is adding its opposite, also at exact halves of a cent,
\* and the comparisons agree with the difference (vqc_currency.py:26 and 94-152).
THEOREM RefundsMirror == Spec => []RefundsMirrorCharges
<1>1. IInv => RefundsMirrorCharges
  <2> SUFFICES ASSUME IInv, NEW value \in Values
               PROVE  LET opposite == [value EXCEPT !.n = 0 - value.n]
                      IN  /\ Add(total, opposite) = Subtract(total, value)
                          /\ IsLess(total, value) <=> IsGreater(Negate(total), opposite)
    BY DEF RefundsMirrorCharges
  <2> DEFINE opposite == [value EXCEPT !.n = 0 - value.n]
  <2>1. value \in [kind : STRING, n : Int] /\ total \in Int
    BY TotalsAssumption DEF IInv, Near
  <2>2. opposite.kind = value.kind /\ opposite.n = 0 - value.n /\ value.n \in Int
    BY <2>1
  <2> HIDE DEF opposite
  <2>3. Normalize(value) \in Int /\ Normalize(opposite) = 0 - Normalize(value)
    <3>1. FromDecimal(value.n) \in Int /\ FromDecimal(0 - value.n) = 0 - FromDecimal(value.n)
      BY <2>2, RoundingIsNearest, RoundingIsSymmetric
    <3> QED
      BY <2>2, <3>1 DEF Normalize
  <2>4. Add(total, opposite) = Subtract(total, value)
    BY <2>1, <2>3 DEF Add, Subtract
  <2>5. IsLess(total, value) <=> IsGreater(Negate(total), opposite)
    BY <2>1, <2>3 DEF IsLess, IsGreater, Negate
  <2> QED
    BY <2>4, <2>5 DEF opposite
<1> QED
  BY <1>1, Inductive, PTL DEF Spec
=============================================================================

-------------------------------- MODULE Money --------------------------------
(***************************************************************************)
(* Money of src/python/bindings/vqc_currency.py: a whole number of cents   *)
(* behind overloaded operators.  An operand is [kind, n]: a "decimal"      *)
(* (Decimal, float or text) counts n ten-thousandths of a unit, the finest *)
(* step a broker quotes; an "int" and a "money" count n cents; a "bool"    *)
(* and a "nan" (or an infinity) are refused with an exception.             *)
(***************************************************************************)
EXTENDS Integers, Sequences, Tallies

\* Ten-thousandths in one cent and in one unit: SCALE is 100 cents to a unit.
UnitsPerCent == 100
UnitsPerMajor == 10000

\* Mutant: the fraction of a cent is dropped instead of rounded.
RoundHalfEven_Truncates(n, d) == n \div d

\* Mutant: of two integers equally near, the greater.
RoundHalfEven_HalfUp(n, d) == (2 * n + d) \div (2 * d)

\* The integer nearest to n / d; of two equally near, the even one.
RoundHalfEven(n, d) ==
  LET floor == n \div d
      rest  == n % d
  IN  IF 2 * rest < d \/ (2 * rest = d /\ floor % 2 = 0) THEN floor ELSE floor + 1

FromDecimal(units) == RoundHalfEven(units, UnitsPerCent)

ToDecimal(money) == money * UnitsPerCent

-----------------------------------------------------------------------------
(* Operands of every type *)

IsMoneyValue(value) == value.kind \notin {"bool", "nan"}

\* A whole number given to FromDecimal counts units, Money included.
AsDecimal(value) ==
  IF value.kind = "decimal" THEN value.n ELSE value.n * UnitsPerMajor

\* The constructor: a whole number counts cents.
New(value) == IF value.kind = "decimal" THEN FromDecimal(value.n) ELSE value.n

\* Mutant: an operand's fraction of a cent is dropped.
Normalize_Truncates(value) ==
  IF value.kind = "decimal" THEN value.n \div UnitsPerCent ELSE value.n

\* An operand next to a Money.
Normalize(value) == IF value.kind = "decimal" THEN FromDecimal(value.n) ELSE value.n

Add(money, value) == money + Normalize(value)
Subtract(money, value) == money - Normalize(value)
SubtractFrom(money, value) == Normalize(value) - money
Negate(money) == 0 - money

CanMultiply(value) == value.kind = "int"
Multiply(money, value) == money * value.n

IsLess(money, value) == money < Normalize(value)
IsGreater(money, value) == money > Normalize(value)

-----------------------------------------------------------------------------
(* The verified helpers of src/dafny/Currency.dfy *)

Sum(values) == SumSeq(values)

Cost(quantity, price) == quantity * price
=============================================================================

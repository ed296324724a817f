---------------------------- MODULE MoneyTotals ----------------------------
(***************************************************************************)
(* A caller that keeps a running total with the overloaded operators of    *)
(* Money and, beside it, the list of amounts it constructed: the two ways  *)
(* in which the bindings turn a number into cents.  A refused operand      *)
(* raises and changes nothing.                                             *)
(***************************************************************************)
EXTENDS Money

CONSTANTS
  Values,       \* operands a caller uses
  Quantities,   \* whole quantities it trades
  MaxEntries    \* bound: entries in the list

ASSUME TotalsAssumption ==
  /\ Values \subseteq [kind : STRING, n : Int]
  /\ Quantities \subseteq Nat
  /\ MaxEntries \in Nat

VARIABLES
  total,     \* the running total, in cents
  entries,   \* the amounts constructed one by one, in cents
  exact,     \* what the total would be without rounding, in ten-thousandths
  rounded    \* how often an amount was rounded into the total

vars == << total, entries, exact, rounded >>

Init == total = 0 /\ entries = <<>> /\ exact = 0 /\ rounded = 0

\* What an operand is worth, and whether it had to be rounded.
Worth(value) == IF value.kind = "decimal" THEN value.n ELSE ToDecimal(value.n)
Rounds(value) == IF value.kind = "decimal" THEN 1 ELSE 0

Charge(value) ==
  /\ total' = Add(total, value)
  /\ entries' = Append(entries, New(value))
  /\ exact' = exact + Worth(value)
  /\ rounded' = rounded + Rounds(value)

\* The same through FromDecimal: every number counts units, also a whole one.
ChargeUnits(value) ==
  LET amount == FromDecimal(AsDecimal(value))
  IN  /\ total' = Add(total, [kind |-> "money", n |-> amount])
      /\ entries' = Append(entries, amount)
      /\ exact' = exact + AsDecimal(value)
      /\ rounded' = rounded + Rounds(value)

Refund(value) ==
  /\ total' = Subtract(total, value)
  /\ entries' = Append(entries, Negate(New(value)))
  /\ exact' = exact - Worth(value)
  /\ rounded' = rounded + Rounds(value)

\* A purchase at a price: the price is rounded once and paid for every share.
Purchase(quantity, price) ==
  LET cost == Cost(quantity, New(price))
  IN  /\ total' = Subtract(total, [kind |-> "money", n |-> cost])
      /\ entries' = Append(entries, Negate(cost))
      /\ exact' = exact - quantity * Worth(price)
      /\ rounded' = rounded + quantity * Rounds(price)

\* The outstanding amount is taken from a given one: value - money.
Settle(value) ==
  /\ total' = SubtractFrom(total, value)
  /\ entries' = Append([i \in DOMAIN entries |-> Negate(entries[i])], New(value))
  /\ exact' = Worth(value) - exact
  /\ rounded' = rounded + Rounds(value)

Double ==
  LET twice == [kind |-> "int", n |-> 2]
  IN  /\ CanMultiply(twice)
      /\ total' = Multiply(total, twice)
      /\ entries' = entries \o entries
      /\ exact' = 2 * exact
      /\ rounded' = 2 * rounded

Next ==
  /\ Len(entries) < MaxEntries
  /\ \/ \E value \in Values : IsMoneyValue(value) /\ Charge(value)
     \/ \E value \in Values : IsMoneyValue(value) /\ ChargeUnits(value)
     \/ \E value \in Values : IsMoneyValue(value) /\ Refund(value)
     \/ \E value \in Values, quantity \in Quantities :
          IsMoneyValue(value) /\ Purchase(quantity, value)
     \/ \E value \in Values : IsMoneyValue(value) /\ Settle(value)
     \/ entries # <<>> /\ Double

Spec == Init /\ [][Next]_vars

-----------------------------------------------------------------------------

\* Constructing amounts one by one and summing them gives what the operators
\* give, whatever the types of the operands: the constructor and the operand
\* conversion are written twice in the code and must agree
\* (vqc_currency.py:42-56 and 82-92).
TotalIsSumOfEntries == total = Sum(entries)

\* Rounding costs at most half a cent each time, a purchase counting once per
\* share, so no amount is off by more than that however many operations follow
\* each other; and writing a total down and reading it back loses nothing.
RoundingErrorIsBounded ==
  /\ 2 * (exact - ToDecimal(total)) <= rounded * UnitsPerCent
  /\ 2 * (ToDecimal(total) - exact) <= rounded * UnitsPerCent
  /\ FromDecimal(ToDecimal(total)) = total

\* A refund is a charge of the opposite amount: rounding favours neither side,
\* also at exact halves of a cent (ROUND_HALF_EVEN, vqc_currency.py:26), and the
\* comparisons order the two amounts as the difference does.
RefundsMirrorCharges ==
  \A value \in Values :
    IsMoneyValue(value) =>
      LET opposite == [value EXCEPT !.n = 0 - value.n]
      IN  /\ Add(total, opposite) = Subtract(total, value)
          /\ IsLess(total, value) <=> IsGreater(Negate(total), opposite)
=============================================================================

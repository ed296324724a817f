--------------------------- MODULE MCMoneyTotals ---------------------------
(***************************************************************************)
(* Operands around halves of a cent on both sides of zero, whole numbers,  *)
(* Money, and the two kinds that are refused.                              *)
(***************************************************************************)
EXTENDS MoneyTotals

Value(kind, n) == [kind |-> kind, n |-> n]

MCValues ==
  {Value("decimal", n) : n \in {-150, -50, 49, 50, 150, 251}}
    \cup {Value("int", 3), Value("money", 7), Value("bool", 1), Value("nan", 0)}
=============================================================================

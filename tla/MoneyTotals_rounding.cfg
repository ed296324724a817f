SPECIFICATION Spec
CONSTANTS
  Values <- MCValues
  Quantities = {2}
  MaxEntries = 3
INVARIANTS
  TotalIsSumOfEntries
  RoundingErrorIsBounded
  RefundsMirrorCharges
CHECK_DEADLOCK FALSE

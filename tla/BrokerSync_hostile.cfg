SPECIFICATION Spec
CONSTANTS
  Symbols <- MCSymbols
  Price = 10000
  Accounts <- OpenSellOfTwo
  Requests <- HalfCentOrSellTwo
  NoAccount = NoAccount
  Missing = Missing
  Invalid = Invalid
  Spellings <- MCSpellings
  SnapshotLimit = 2
  Env = {"foreign", "unquiet", "early_cancel", "margin", "disconnect", "duplicate", "read_error", "refuse", "answer_no_status", "lost_answer", "answer_no_id", "snapshot_no_id", "malformed", "restart"}
  MaxOrders = 2
  MaxFaults = 1
  MaxQueue = 2
INVARIANTS
  NoExecutionTwice
  AccountStaysValid
  TrackedOrdersMatch
CHECK_DEADLOCK FALSE

SPECIFICATION Spec
CONSTANTS
  Symbols <- MCSymbols
  Price = 10000
  Accounts <- TwoShares
  Requests <- AnyRequest
  NoAccount = NoAccount
  Missing = Missing
  Invalid = Invalid
  Spellings <- MCSpellings
  SnapshotLimit = 5
  Env = {"stop", "disconnect", "reorder", "read_error", "refuse", "restart"}
  MaxOrders = 1
  MaxFaults = 1
  MaxQueue = 2
INVARIANTS
  TrackedOrdersMatch
PROPERTIES
  AcceptedOrdersAreTracked
  StopIsObeyed
  EventuallyAgrees
CHECK_DEADLOCK FALSE

SPECIFICATION Spec
CONSTANTS
  Symbols <- MCSymbols
  Price = 10000
  Accounts <- NoShares
  Requests <- PennyStock
  NoAccount = NoAccount
  Missing = Missing
  Invalid = Invalid
  Spellings <- MCSpellings
  SnapshotLimit = 5
  Env = {}
  MaxOrders = 1
  MaxFaults = 0
  MaxQueue = 3
PROPERTIES
  AcceptedOrdersAreTracked
CHECK_DEADLOCK FALSE

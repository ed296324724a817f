SPECIFICATION Spec
CONSTANTS
  Symbols <- MCSymbols
  Price = 10000
  Accounts <- NoShares
  Requests <- BuyTwo
  NoAccount = NoAccount
  Missing = Missing
  Invalid = Invalid
  Spellings <- MCSpellings
  SnapshotLimit = 5
  Env = {}
  MaxOrders = 1
  MaxFaults = 0
  MaxQueue = 3
INVARIANTS
  LifecycleUpdatesAreNonEconomic
CHECK_DEADLOCK FALSE

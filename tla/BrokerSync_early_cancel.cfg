SPECIFICATION Spec
CONSTANTS
  Symbols <- MCSymbols
  Price = 10000
  Accounts <- TwoShares
  Requests <- SellTwo
  NoAccount = NoAccount
  Missing = Missing
  Invalid = Invalid
  Spellings <- MCSpellings
  SnapshotLimit = 5
  Env = {"margin", "early_cancel"}
  MaxOrders = 2
  MaxFaults = 0
  MaxQueue = 4
INVARIANTS
  NoOversell
CHECK_DEADLOCK FALSE

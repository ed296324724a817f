SPECIFICATION Spec
CONSTANTS
  Symbols <- MCSymbols
  Price = 10000
  Accounts <- NoShares
  Requests <- BuyTwo
  NoAccount = NoAccount
  Missing = Missing
  Invalid = Invalid
  Spellings <- MCSpellings
  SnapshotLimit = 5
  Env = {"foreign"}
  MaxOrders = 2
  MaxFaults = 0
  MaxQueue = 3
INVARIANTS
  QuiescentAgreement
CHECK_DEADLOCK FALSE

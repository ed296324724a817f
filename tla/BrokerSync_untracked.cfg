SPECIFICATION Spec
CONSTANTS
  Symbols <- MCSymbols
  Price = 10000
  Accounts <- NoShares
  Requests <- BuyOneAtLimit
  NoAccount = NoAccount
  Missing = Missing
  Invalid = Invalid
  Spellings <- MCSpellings
  SnapshotLimit = 5
  Env = {"foreign", "unquiet", "lost_answer"}
  MaxOrders = 2
  MaxFaults = 1
  MaxQueue = 1
PROPERTIES
  EveryHeardOrderIsTracked
CHECK_DEADLOCK FALSE

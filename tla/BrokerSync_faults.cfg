SPECIFICATION Spec
CONSTANTS
  Symbols <- MCSymbols
  Price = 10000
  Accounts <- TwoShares
  Requests <- BuyOne
  NoAccount = NoAccount
  Missing = Missing
  Invalid = Invalid
  Spellings <- MCSpellings
  SnapshotLimit = 5
  Env = {"margin", "disconnect", "duplicate", "read_error", "snapshot_no_id", "refuse", "answer_no_status", "malformed", "restart"}
  MaxOrders = 2
  MaxFaults = 1
  MaxQueue = 2
INVARIANTS
  TypeOK
  NoOversell
  InFlightAgreement
PROPERTIES
  EventuallyAgrees
  ImplementsSyncedAccount
  SyncedAccountProgresses
CHECK_DEADLOCK FALSE

SPECIFICATION Spec
CONSTANTS
  Symbols <- MCSymbols
  Price = 10000
  Accounts <- RestingBuyAndTwo
  Requests <- BuyAndSells
  NoAccount = NoAccount
  Missing = Missing
  Invalid = Invalid
  Spellings <- MCSpellings
  SnapshotLimit = 3
  Env = {"unquiet", "early_cancel", "next_day", "disconnect", "duplicate", "read_error", "snapshot_no_id", "malformed", "refuse", "answer_no_status", "restart"}
  MaxOrders = 3
  MaxFaults = 1
  MaxQueue = 1
INVARIANTS
  ReservationHolds
  LiveOrdersAreTracked
CHECK_DEADLOCK FALSE

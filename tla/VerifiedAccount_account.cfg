SPECIFICATION Spec
CONSTANTS
  Snapshots <- MCSnapshots
  OrderInputs <- MCOrderInputs
  FillInputs <- MCFillInputs
  Amounts = {0, 2}
  LedgerIds = {0, 4}
  MaxEntries = 4
  MaxOrders = 2
INVARIANTS
  TypeOK
  ValidAccount
  OrdersLifecycleConsistent
  LiveOrdersCanFinish
  CashMatchesHistory
  PositionsMatchHistory
  OrdersMatchHistory
  AveragePriceWithinPaidPrices
PROPERTIES
  OrdersFollowLifecycle
  FilledOnlyByExecution
  EveryMovementIsLedgered
  ImplementsTradingBook
CHECK_DEADLOCK FALSE

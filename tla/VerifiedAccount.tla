-------------------------- MODULE VerifiedAccount --------------------------
(***************************************************************************)
(* One account of the verified core, from the moment it is created         *)
(* (NewAccount) or opened from a broker snapshot (Bootstrap), driven by    *)
(* any sequence of calls of the public methods of src/dafny/Account.dfy.   *)
(* A method whose `expect` fails halts and leaves the account as it was,   *)
(* so a refused call is a disabled action.                                 *)
(***************************************************************************)
EXTENDS AccountOps

CONSTANTS
  Snapshots,      \* [cash, positions, orders, ledgerId]: broker snapshots to open from
  OrderInputs,    \* orders a caller hands to PlaceOrder
  FillInputs,     \* fills a caller hands to Update
  Amounts,        \* amounts a caller deposits or withdraws
  LedgerIds,      \* ledger ids a caller chooses for a deposit or a withdrawal
  MaxEntries,     \* bound: length the ledger grows to
  MaxOrders       \* bound: number of orders the account grows to

Snapshot == [cash : Int, positions : Seq(Position), orders : Seq(Order), ledgerId : Nat]

ASSUME InputAssumption ==
  /\ Snapshots \subseteq Snapshot
  /\ OrderInputs \subseteq Order
  /\ FillInputs \subseteq Fill
  /\ Amounts \subseteq Int
  /\ LedgerIds \subseteq Nat

ASSUME BoundAssumption == MaxEntries \in Nat /\ MaxOrders \in Nat

VARIABLE account

-----------------------------------------------------------------------------
(* Specification *)

Bootstrap(s) ==
  /\ CanBootstrap(s.cash, s.positions, s.orders, s.ledgerId)
  /\ account = BootstrapCore(s.cash, s.positions, s.orders, s.ledgerId)

Init ==
  \/ account = NewAccount
  \/ \E s \in Snapshots : Bootstrap(s)

LedgerHasRoom == Len(account.ledger) < MaxEntries

\* The bindings let a caller name the ledger id or take the next free one.
OfferedLedgerIds == LedgerIds \cup {NextLedgerId(account.ledger)}

Deposit ==
  /\ LedgerHasRoom
  /\ \E id \in OfferedLedgerIds, amount \in Amounts :
       /\ CanDeposit(account, id, amount)
       /\ account' = DepositCore(account, id, amount)

Withdraw ==
  /\ LedgerHasRoom
  /\ \E id \in OfferedLedgerIds, amount \in Amounts :
       /\ CanWithdraw(account, id, amount)
       /\ account' = WithdrawCore(account, id, amount)

PlaceOrder ==
  /\ Len(account.orders) < MaxOrders
  /\ \E order \in OrderInputs :
       /\ CanPlaceOrder(account, order)
       /\ account' = PlaceOrderCore(account, order)

SetOrderStatus ==
  \E order \in OrderInputs \cup Range(account.orders), newStatus \in OrderStatus :
    /\ CanSetAccountOrderStatus(account, order.orderId, newStatus)
    /\ account' = SetOrderStatusCore(account, order.orderId, newStatus)

Update ==
  /\ LedgerHasRoom
  /\ \E fill \in FillInputs :
       /\ CanUpdate(account, fill)
       /\ account' = UpdateCore(account, fill)

Next == Deposit \/ Withdraw \/ PlaceOrder \/ SetOrderStatus \/ Update

Spec == Init /\ [][Next]_account

-----------------------------------------------------------------------------
(* Invariants *)

\* The account keeps the shape of its datatype.
TypeOK == account \in Account

\* Ledger, positions and orders stay individually valid whatever the calls:
\* unique positive ledger ids with the opening entry first, one open position
\* per symbol, one well-formed order per id (IsValidAccount, Account.dfy).
ValidAccount == IsValidAccount(account)

\* Every order's status agrees with its filled quantity.  IsValidAccount does
\* not ask for it and Bootstrap checks it only once, so it has to survive every
\* later placement, status change and fill (Validation.dfy:139-142).
OrdersLifecycleConsistent == HasLifecycleConsistentOrders(account.orders)

\* No order is stuck: while its status accepts fills it has shares left to fill,
\* the rest can arrive in one fill, and it can be cancelled by either route the
\* core offers (Cancel, and SetStatus through the account).
LiveOrdersCanFinish ==
  \A i \in DOMAIN account.orders :
    LET order == account.orders[i]
    IN  CanAcceptFill(order.status) =>
          /\ CanApplyFill(order, RemainingQuantity(order))
          /\ CanCancelOrder(order)
          /\ CanSetAccountOrderStatus(account, order.orderId, "Cancelled")

\* What the account opened with: its opening entry, which can only be the first,
\* or nothing.
OpenedWith(ledger) ==
  IF \E i \in DOMAIN ledger : i = 1 /\ IsOpeningEntry(ledger[i]) THEN ledger[1] ELSE NewAccount

\* The executions the ledger records, in the order in which they were booked.
Fills(ledger) ==
  LET trades == SelectIn(ledger, {e \in Range(ledger) : e.kind = "Trade"})
  IN  [i \in DOMAIN trades |-> trades[i].fill]

\* What an execution does to the cash and to the shares of a symbol; its side is
\* that of the order it names.
SideOf(orders, fill) == GetOrder(orders, fill.orderId).side

FillCash(orders, fill) ==
  IF SideOf(orders, fill) = "Sell" THEN ExecutionValue(fill) ELSE 0 - ExecutionValue(fill)

FillShares(orders, fill, symbol) ==
  IF fill.symbol # symbol THEN 0
  ELSE IF SideOf(orders, fill) = "Buy" THEN fill.quantity ELSE 0 - fill.quantity

TradedCash(orders, fills) ==
  SumSeq([i \in DOMAIN fills |-> FillCash(orders, fills[i])])

TradedShares(orders, fills, symbol) ==
  SumSeq([i \in DOMAIN fills |-> FillShares(orders, fills[i], symbol)])

FilledOf(orders, orderId) ==
  IF ExistsOrder(orders, orderId) THEN GetOrder(orders, orderId).filledQuantity ELSE 0

\* Cash is explained by the ledger: the opening balance, deposits less
\* withdrawals, and the value of each trade signed by its order's side.
CashMatchesHistory ==
  account.cash =
    OpenedWith(account.ledger).cash
      + NetCashFlow(account.ledger)
      + TradedCash(account.orders, Fills(account.ledger))

\* Holdings are explained by the ledger: for every symbol the quantity held is
\* the opening quantity plus the shares bought less the shares sold.
SharesMatchHistory(symbol) ==
  PositionOrEmpty(account.positions, symbol).quantity =
    PositionOrEmpty(OpenedWith(account.ledger).positions, symbol).quantity
      + TradedShares(account.orders, Fills(account.ledger), symbol)

PositionsMatchHistory ==
  LET symbols == {account.positions[i].symbol : i \in DOMAIN account.positions}
                   \cup {account.orders[i].symbol : i \in DOMAIN account.orders}
  IN  \A symbol \in symbols : SharesMatchHistory(symbol)

\* Every order's filled quantity is explained by the ledger: what it had been
\* filled when the account opened plus the executions recorded against it.
OrdersMatchHistory ==
  \A i \in DOMAIN account.orders :
    account.orders[i].filledQuantity =
      FilledOf(OpenedWith(account.ledger).orders, account.orders[i].orderId)
        + TotalExecutedQuantityForOrder(Fills(account.ledger), account.orders[i])

\* The prices that were really paid for a symbol: the average it was opened at
\* and the price of every buy.
PaidPrices(symbol) ==
  LET opened == OpenedWith(account.ledger).positions
      fills  == Fills(account.ledger)
  IN  {opened[i].averagePrice : i \in {i \in DOMAIN opened : opened[i].symbol = symbol}}
        \cup {fills[i].price : i \in {i \in DOMAIN fills :
                /\ fills[i].symbol = symbol
                /\ SideOf(account.orders, fills[i]) = "Buy"}}

\* The floor division in ApplyBuy never drives an average price outside the
\* range of the prices that were really paid for that symbol (Positions.dfy:31).
AveragePriceWithinPaidPrices ==
  \A i \in DOMAIN account.positions :
    LET held == account.positions[i]
    IN  \E low, high \in PaidPrices(held.symbol) :
          low <= held.averagePrice /\ held.averagePrice <= high

-----------------------------------------------------------------------------
(* Action properties *)

\* Whatever the operation, including a fill, an order's status only moves along
\* an edge of the lifecycle graph, a terminal order never changes again, and an
\* order is never lost or replaced by another (Lifecycle.dfy:26-41).
OrderStepIsLegal(i) ==
  LET before == account.orders[i]
      after  == account'.orders[i]
  IN  /\ i \in DOMAIN account'.orders
      /\ after.orderId = before.orderId
      /\ CanTransition(before.status, after.status)
      /\ ~CanAcceptFill(before.status) => after = before

OrdersFollowLifecycle == [][\A i \in DOMAIN account.orders : OrderStepIsLegal(i)]_account

\* An order's filled quantity moves only by an execution: the step that raises
\* it appends exactly one trade, for that order and for that many shares.
FilledOnlyByExecution ==
  [][\A i \in DOMAIN account.orders :
       LET gained == account'.orders[i].filledQuantity - account.orders[i].filledQuantity
       IN  gained # 0 =>
             /\ Len(account'.ledger) = Len(account.ledger) + 1
             /\ LET entry == Last(account'.ledger)
                IN  /\ entry.kind = "Trade"
                    /\ entry.fill.orderId = account.orders[i].orderId
                    /\ entry.fill.quantity = gained]_account

\* Money and shares never move off the books: the ledger only grows, a step that
\* changes cash or positions appends one entry, and the cash moves by exactly
\* what that entry says.
EntryCashEffect(entry) ==
  IF entry.kind = "Deposit" THEN entry.amount
  ELSE IF entry.kind = "Withdrawal" THEN 0 - entry.amount
  ELSE FillCash(account.orders, entry.fill)

MovementIsLedgered ==
  IF account'.ledger = account.ledger
  THEN account'.cash = account.cash /\ account'.positions = account.positions
  ELSE LET entry == Last(account'.ledger)
       IN  /\ account'.ledger = Append(account.ledger, entry)
           /\ ~IsOpeningEntry(entry)
           /\ account'.cash = account.cash + EntryCashEffect(entry)
           /\ entry.kind # "Trade" => account'.positions = account.positions

EveryMovementIsLedgered == [][MovementIsLedgered]_account
=============================================================================

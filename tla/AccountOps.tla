----------------------------- MODULE AccountOps -----------------------------
(***************************************************************************)
(* The pure account operations of the Dafny core: collection helpers       *)
(* (AccountUtility.dfy), order and position transitions (Orders.dfy,       *)
(* Positions.dfy), ledger and execution totals (Ledger.dfy,                *)
(* Execution.dfy), the contracts (AccountProof.dfy) and the account        *)
(* operations themselves (Account.dfy).  The source's recursions over      *)
(* sequences are written with an index or a fold.                          *)
(***************************************************************************)
EXTENDS Validation, Tallies

-----------------------------------------------------------------------------
(* Collection helpers *)

MaxLedgerId(entries) ==
  Max({0} \cup {entries[i].ledgerId : i \in DOMAIN entries})

NextLedgerId(entries) == MaxLedgerId(entries) + 1

ExistsOrder(orders, orderId) ==
  \E i \in DOMAIN orders : orders[i].orderId = orderId

OrderIndex(orders, orderId) ==
  CHOOSE i \in DOMAIN orders : orders[i].orderId = orderId

GetOrder(orders, orderId) == orders[OrderIndex(orders, orderId)]

UpdateOrder(orders, updated) ==
  [orders EXCEPT ![OrderIndex(orders, updated.orderId)] = updated]

ExistsPosition(positions, symbol) ==
  \E i \in DOMAIN positions : positions[i].symbol = symbol

PositionIndex(positions, symbol) ==
  CHOOSE i \in DOMAIN positions : positions[i].symbol = symbol

GetPosition(positions, symbol) == positions[PositionIndex(positions, symbol)]

PositionOrEmpty(positions, symbol) ==
  IF ExistsPosition(positions, symbol)
  THEN GetPosition(positions, symbol)
  ELSE [symbol |-> symbol, quantity |-> 0, averagePrice |-> 0]

UpsertPosition(positions, updated) ==
  IF ExistsPosition(positions, updated.symbol)
  THEN [positions EXCEPT ![PositionIndex(positions, updated.symbol)] = updated]
  ELSE Append(positions, updated)

RemovePosition(positions, symbol) ==
  RemoveAt(positions, PositionIndex(positions, symbol))

-----------------------------------------------------------------------------
(* Orders and positions *)

RemainingQuantity(order) == order.quantity - order.filledQuantity

\* Mutant: a status change forgets what has been filled.
SetStatus_ResetsFilled(order, newStatus) ==
  [order EXCEPT !.status = newStatus, !.filledQuantity = 0]

SetStatus(order, newStatus) == [order EXCEPT !.status = newStatus]

\* Mutant: the last fill does not complete the order.
ApplyFill_NeverFilled(order, fillQuantity) ==
  [order EXCEPT
     !.status = "PartiallyFilled",
     !.filledQuantity = order.filledQuantity + fillQuantity]

\* Mutant: a fill replaces the filled quantity instead of adding to it.
ApplyFill_Replaces(order, fillQuantity) ==
  [order EXCEPT
     !.status = IF fillQuantity = order.quantity THEN "Filled" ELSE "PartiallyFilled",
     !.filledQuantity = fillQuantity]

ApplyFill(order, fillQuantity) ==
  [order EXCEPT
     !.status = IF order.filledQuantity + fillQuantity = order.quantity
                THEN "Filled" ELSE "PartiallyFilled",
     !.filledQuantity = order.filledQuantity + fillQuantity]

BelongsToOrder(fill, order) ==
  /\ fill.orderId = order.orderId
  /\ fill.symbol = order.symbol

IsApplicableFill(order, fill) ==
  /\ IsValidFill(fill)
  /\ BelongsToOrder(fill, order)
  /\ CanApplyFill(order, fill.quantity)

\* Mutant: a buy replaces the quantity held.
ApplyBuy_Replaces(position, fill) ==
  [symbol |-> position.symbol, quantity |-> fill.quantity, averagePrice |-> fill.price]

\* Mutant: the mean is taken over the old quantity only.
ApplyBuy_OldDivisor(position, fill) ==
  [symbol |-> position.symbol,
   quantity |-> position.quantity + fill.quantity,
   averagePrice |->
     IF position.quantity = 0
     THEN fill.price
     ELSE (position.averagePrice * position.quantity + fill.price * fill.quantity)
            \div position.quantity]

\* Dafny's Euclidean division and \div agree here: the divisor is positive.
ApplyBuy(position, fill) ==
  [symbol |-> position.symbol,
   quantity |-> position.quantity + fill.quantity,
   averagePrice |->
     IF position.quantity = 0
     THEN fill.price
     ELSE (position.averagePrice * position.quantity + fill.price * fill.quantity)
            \div (position.quantity + fill.quantity)]

\* Mutant: the subtraction is the wrong way round.
ApplySell_Reversed(position, fill) ==
  [symbol |-> position.symbol,
   quantity |-> fill.quantity - position.quantity,
   averagePrice |-> IF position.quantity = fill.quantity
                    THEN 0 ELSE position.averagePrice]

ApplySell(position, fill) ==
  [symbol |-> position.symbol,
   quantity |-> position.quantity - fill.quantity,
   averagePrice |-> IF position.quantity = fill.quantity
                    THEN 0 ELSE position.averagePrice]

-----------------------------------------------------------------------------
(* Ledger and execution totals *)

ExecutionValue(fill) == fill.quantity * fill.price

TotalDeposits(entries) ==
  SumSeq([i \in DOMAIN entries |->
            IF entries[i].kind = "Deposit" THEN entries[i].amount ELSE 0])

TotalWithdrawals(entries) ==
  SumSeq([i \in DOMAIN entries |->
            IF entries[i].kind = "Withdrawal" THEN entries[i].amount ELSE 0])

NetCashFlow(entries) == TotalDeposits(entries) - TotalWithdrawals(entries)

TotalExecutedQuantityForOrder(fills, order) ==
  SumSeq([i \in DOMAIN fills |->
            IF BelongsToOrder(fills[i], order) THEN fills[i].quantity ELSE 0])

-----------------------------------------------------------------------------
(* Contracts: what each public method expects before it acts *)

\* Mutant: the id may already be in the ledger.
CanDeposit_AnyId(account, ledgerId, amount) ==
  /\ IsValidAccount(account)
  /\ ledgerId > 0
  /\ amount > 0

CanDeposit(account, ledgerId, amount) ==
  /\ IsValidAccount(account)
  /\ ledgerId > 0
  /\ amount > 0
  /\ ~ContainsLedgerId(account.ledger, ledgerId)

CanBootstrap(cash, positions, orders, ledgerId) ==
  /\ ledgerId > 0
  /\ IsValidPositionSet(positions)
  /\ IsValidOrderSet(orders)
  /\ HasLifecycleConsistentOrders(orders)

CanWithdraw(account, ledgerId, amount) ==
  /\ CanDeposit(account, ledgerId, amount)
  /\ account.cash >= amount

\* Mutant: the order itself is not checked.
CanPlaceOrder_AnyOrder(account, order) ==
  /\ IsValidAccount(account)
  /\ HasValidOrderStatus(order)
  /\ order.status = "Pending"
  /\ order.filledQuantity = 0
  /\ ~ExistsOrder(account.orders, order.orderId)

CanPlaceOrder(account, order) ==
  /\ IsValidAccount(account)
  /\ IsValidOrder(order)
  /\ HasValidOrderStatus(order)
  /\ order.status = "Pending"
  /\ order.filledQuantity = 0
  /\ ~ExistsOrder(account.orders, order.orderId)

CanSetAccountOrderStatus(account, orderId, newStatus) ==
  /\ IsValidAccount(account)
  /\ ExistsOrder(account.orders, orderId)
  /\ CanSetOrderStatus(GetOrder(account.orders, orderId), newStatus)

CanUpdate(account, fill) ==
  /\ IsValidAccount(account)
  /\ ExistsOrder(account.orders, fill.orderId)
  /\ LET order == GetOrder(account.orders, fill.orderId)
     IN  /\ IsApplicableFill(order, fill)
         /\ order.side = "Sell" =>
              /\ ExistsPosition(account.positions, order.symbol)
              /\ GetPosition(account.positions, order.symbol).quantity >= fill.quantity

-----------------------------------------------------------------------------
(* Account operations *)

NewAccount == [cash |-> 0, ledger |-> <<>>, positions |-> <<>>, orders |-> <<>>]

BootstrapCore(cash, positions, orders, ledgerId) ==
  [cash |-> cash,
   ledger |-> << [kind |-> "Opening", ledgerId |-> ledgerId, cash |-> cash,
                  positions |-> positions, orders |-> orders] >>,
   positions |-> positions,
   orders |-> orders]

\* Mutant: the deposit is credited but not entered.
DepositCore_Unledgered(account, ledgerId, amount) ==
  [account EXCEPT !.cash = account.cash + amount]

DepositCore(account, ledgerId, amount) ==
  [cash |-> account.cash + amount,
   ledger |-> Append(account.ledger,
                [kind |-> "Deposit", ledgerId |-> ledgerId, amount |-> amount]),
   positions |-> account.positions,
   orders |-> account.orders]

\* Mutant: the withdrawal is entered but not debited.
WithdrawCore_LedgerOnly(account, ledgerId, amount) ==
  [account EXCEPT
     !.ledger = Append(account.ledger,
                  [kind |-> "Withdrawal", ledgerId |-> ledgerId, amount |-> amount])]

WithdrawCore(account, ledgerId, amount) ==
  [cash |-> account.cash - amount,
   ledger |-> Append(account.ledger,
                [kind |-> "Withdrawal", ledgerId |-> ledgerId, amount |-> amount]),
   positions |-> account.positions,
   orders |-> account.orders]

PlaceOrderCore(account, order) ==
  [cash |-> account.cash,
   ledger |-> account.ledger,
   positions |-> account.positions,
   orders |-> Append(account.orders, order)]

SetOrderStatusCore(account, orderId, newStatus) ==
  LET order == GetOrder(account.orders, orderId)
  IN  [cash |-> account.cash,
       ledger |-> account.ledger,
       positions |-> account.positions,
       orders |-> UpdateOrder(account.orders, SetStatus(order, newStatus))]

UpdatedPositions(positions, order, fill) ==
  LET base == PositionOrEmpty(positions, order.symbol)
      next == IF order.side = "Buy" THEN ApplyBuy(base, fill) ELSE ApplySell(base, fill)
  IN  IF order.side = "Sell" /\ IsClosed(next)
      THEN RemovePosition(positions, next.symbol)
      ELSE UpsertPosition(positions, next)

UpdateCore(account, fill) ==
  LET order == GetOrder(account.orders, fill.orderId)
  IN  [cash |-> IF order.side = "Buy"
                THEN account.cash - ExecutionValue(fill)
                ELSE account.cash + ExecutionValue(fill),
       ledger |-> Append(account.ledger,
                    [kind |-> "Trade", ledgerId |-> NextLedgerId(account.ledger),
                     fill |-> fill]),
       positions |-> UpdatedPositions(account.positions, order, fill),
       orders |-> UpdateOrder(account.orders, ApplyFill(order, fill.quantity))]
=============================================================================

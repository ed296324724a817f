----------------------------- MODULE Validation -----------------------------
(***************************************************************************)
(* The domain types of src/dafny/Types.dfy and the validity predicates of  *)
(* src/dafny/Validation.dfy.  Money is its integer number of cents and an  *)
(* identifier its natural number.  Timestamps are left out: no predicate   *)
(* or operation of the core reads them.  The Ledger wrapper around its     *)
(* sequence of entries is left out too: account.ledger is that sequence.   *)
(***************************************************************************)
EXTENDS Integers, Sequences, OrderLifecycle

OrderSide == {"Buy", "Sell"}

OrderType ==
  [kind : {"Market"}]
    \cup [kind : {"Limit"}, limitPrice : Int]
    \cup [kind : {"Stop"}, stopPrice : Int]
    \cup [kind : {"StopLimit"}, stopPrice : Int, limitPrice : Int]

Order == [orderId : Nat, symbol : STRING, quantity : Nat, side : OrderSide,
          orderType : OrderType, status : OrderStatus, filledQuantity : Nat]

Fill == [executionId : Nat, orderId : Nat, symbol : STRING, quantity : Nat,
         price : Int]

Position == [symbol : STRING, quantity : Nat, averagePrice : Int]

LedgerEntry ==
  [kind : {"Opening"}, ledgerId : Nat, cash : Int,
   positions : Seq(Position), orders : Seq(Order)]
    \cup [kind : {"Deposit", "Withdrawal"}, ledgerId : Nat, amount : Int]
    \cup [kind : {"Trade"}, ledgerId : Nat, fill : Fill]

Account == [cash : Int, ledger : Seq(LedgerEntry), positions : Seq(Position),
            orders : Seq(Order)]

HasNonEmptySymbol(symbol) == symbol # ""

-----------------------------------------------------------------------------
(* Orders *)

HasValidOrderType(order) ==
  LET type == order.orderType
  IN  /\ type.kind \in {"Limit", "StopLimit"} => type.limitPrice > 0
      /\ type.kind \in {"Stop", "StopLimit"} => type.stopPrice > 0

HasValidOrderStatus(order) ==
  IsStatusCompatible(order.status, order.filledQuantity, order.quantity)

IsValidOrder(order) ==
  /\ order.orderId > 0
  /\ order.quantity > 0
  /\ order.filledQuantity <= order.quantity
  /\ HasNonEmptySymbol(order.symbol)
  /\ HasValidOrderType(order)

CanSetOrderStatus(order, newStatus) ==
  /\ IsValidOrder(order)
  /\ CanSetStatus(order.status, order.filledQuantity, order.quantity, newStatus)

CanApplyFill(order, fillQuantity) ==
  /\ IsValidOrder(order)
  /\ CanFill(order.status, order.filledQuantity, order.quantity, fillQuantity)

CanCancelOrder(order) ==
  /\ IsValidOrder(order)
  /\ CanCancel(order.status, order.filledQuantity, order.quantity)

CanRejectOrder(order) ==
  /\ IsValidOrder(order)
  /\ CanReject(order.status, order.filledQuantity)

IsValidOrderSet(orders) ==
  /\ \A i \in DOMAIN orders : IsValidOrder(orders[i])
  /\ \A i, j \in DOMAIN orders : i # j => orders[i].orderId # orders[j].orderId

HasLifecycleConsistentOrders(orders) ==
  \A i \in DOMAIN orders : HasValidOrderStatus(orders[i])

-----------------------------------------------------------------------------
(* Fills *)

IsValidFill(fill) ==
  /\ fill.executionId > 0
  /\ fill.quantity > 0
  /\ HasNonEmptySymbol(fill.symbol)
  /\ fill.price > 0

-----------------------------------------------------------------------------
(* Positions *)

IsOpen(position) == position.quantity > 0
IsClosed(position) == position.quantity = 0

IsValidPosition(position) ==
  /\ HasNonEmptySymbol(position.symbol)
  /\ \/ IsClosed(position) /\ position.averagePrice = 0
     \/ IsOpen(position) /\ position.averagePrice > 0

IsValidPositionSet(positions) ==
  /\ \A i \in DOMAIN positions : IsValidPosition(positions[i]) /\ IsOpen(positions[i])
  /\ \A i, j \in DOMAIN positions : i # j => positions[i].symbol # positions[j].symbol

-----------------------------------------------------------------------------
(* Ledger and account *)

ContainsLedgerId(entries, ledgerId) ==
  \E i \in DOMAIN entries : entries[i].ledgerId = ledgerId

AllUniqueLedgerIds(entries) ==
  \A i, j \in DOMAIN entries : i # j => entries[i].ledgerId # entries[j].ledgerId

IsOpeningEntry(entry) == entry.kind = "Opening"

IsValidEntry(entry) ==
  /\ entry.ledgerId > 0
  /\ entry.kind = "Opening" =>
       /\ IsValidPositionSet(entry.positions)
       /\ IsValidOrderSet(entry.orders)
       /\ HasLifecycleConsistentOrders(entry.orders)
  /\ entry.kind \in {"Deposit", "Withdrawal"} => entry.amount > 0
  /\ entry.kind = "Trade" => IsValidFill(entry.fill)

HasOpeningOnlyAtStart(entries) ==
  \A i \in DOMAIN entries : IsOpeningEntry(entries[i]) => i = 1

IsValidLedger(entries) ==
  /\ \A i \in DOMAIN entries : IsValidEntry(entries[i])
  /\ AllUniqueLedgerIds(entries)
  /\ HasOpeningOnlyAtStart(entries)

IsValidAccount(account) ==
  /\ IsValidLedger(account.ledger)
  /\ IsValidPositionSet(account.positions)
  /\ IsValidOrderSet(account.orders)
=============================================================================

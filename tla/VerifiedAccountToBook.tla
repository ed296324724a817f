------------------------ MODULE VerifiedAccountToBook ------------------------
(***************************************************************************)
(* The verified account, with its ledger, position list, order list and    *)
(* status graph, implements TradingBook: whatever sequence of operations   *)
(* the contracts admit, the owner sees only the book's moves.              *)
(***************************************************************************)
EXTENDS VerifiedAccount

BookSymbols ==
  {order.symbol : order \in OrderInputs}
    \cup (UNION {{s.positions[i].symbol : i \in DOMAIN s.positions} : s \in Snapshots})
    \cup (UNION {{s.orders[i].symbol : i \in DOMAIN s.orders} : s \in Snapshots})

BookIds ==
  {order.orderId : order \in OrderInputs}
    \cup (UNION {{s.orders[i].orderId : i \in DOMAIN s.orders} : s \in Snapshots})

\* A status of the core as the book sees it.
BookState(status) ==
  IF status \in {"Pending", "Open", "PartiallyFilled"} THEN "live"
  ELSE IF status = "Filled" THEN "completed" ELSE "abandoned"

BookOrders ==
  [id \in {account.orders[i].orderId : i \in DOMAIN account.orders} |->
     LET order == GetOrder(account.orders, id)
     IN  [symbol |-> order.symbol, side |-> order.side,
          left |-> RemainingQuantity(order), state |-> BookState(order.status)]]

Book == INSTANCE TradingBook WITH
          cash <- account.cash,
          holdings <- [s \in BookSymbols |-> PositionOrEmpty(account.positions, s).quantity],
          orders <- BookOrders,
          Symbols <- BookSymbols,
          OrderIds <- BookIds,
          Quantities <- {order.quantity : order \in OrderInputs},
          Prices <- {fill.price : fill \in FillInputs}

\* Every operation of the core is one move of the book or changes nothing its
\* owner can see: no fill is executed beyond its order or the holding, none
\* reaches an order that was completed or given up, none is priced twice, and an
\* order is called filled only when all its shares have changed hands.
ImplementsTradingBook == Book!Spec
=============================================================================

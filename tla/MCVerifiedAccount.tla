------------------------- MODULE MCVerifiedAccount -------------------------
(***************************************************************************)
(* Finite inputs for VerifiedAccount.  Each set mixes calls the core takes *)
(* with calls its `expect`s must refuse, so that the guards matter.        *)
(***************************************************************************)
EXTENDS VerifiedAccountToBook

Market == [kind |-> "Market"]
Limit(price) == [kind |-> "Limit", limitPrice |-> price]
StopLimit(stop, price) == [kind |-> "StopLimit", stopPrice |-> stop, limitPrice |-> price]

NewOrder(id, symbol, quantity, side, type) ==
  [orderId |-> id, symbol |-> symbol, quantity |-> quantity, side |-> side,
   orderType |-> type, status |-> "Pending", filledQuantity |-> 0]

NewFill(executionId, orderId, symbol, quantity, price) ==
  [executionId |-> executionId, orderId |-> orderId, symbol |-> symbol,
   quantity |-> quantity, price |-> price]

Holding(symbol, quantity, price) ==
  [symbol |-> symbol, quantity |-> quantity, averagePrice |-> price]

-----------------------------------------------------------------------------
GoodOrders ==
  { NewOrder(1, "A", 3, "Buy", Market),
    NewOrder(2, "A", 2, "Sell", Limit(2)),
    NewOrder(3, "B", 1, "Buy", StopLimit(1, 2)) }

RefusedOrders ==
  { NewOrder(0, "A", 1, "Buy", Market),
    NewOrder(4, "A", 0, "Buy", Market),
    NewOrder(4, "", 1, "Buy", Market),
    NewOrder(4, "A", 1, "Buy", Limit(0)),
    [NewOrder(4, "A", 2, "Buy", Market) EXCEPT !.status = "Filled", !.filledQuantity = 1] }

GoodFills ==
  { NewFill(1, 1, "A", 1, 2), NewFill(2, 1, "A", 2, 5),
    NewFill(3, 2, "A", 1, 4), NewFill(4, 2, "A", 2, 3),
    NewFill(5, 3, "B", 1, 1) }

RefusedFills ==
  { NewFill(0, 1, "A", 1, 2), NewFill(6, 1, "B", 1, 2),
    NewFill(6, 1, "A", 0, 2), NewFill(6, 1, "A", 1, 0) }

GoodSnapshot ==
  [cash |-> 1, positions |-> << Holding("B", 1, 2), Holding("A", 2, 2) >>,
   orders |-> << [NewOrder(1, "A", 3, "Buy", Market) EXCEPT
                    !.status = "PartiallyFilled", !.filledQuantity = 1] >>,
   ledgerId |-> 1]

RefusedSnapshots ==
  { [GoodSnapshot EXCEPT !.ledgerId = 0],
    [GoodSnapshot EXCEPT !.positions = << Holding("A", 2, 2), Holding("A", 1, 2) >>],
    [GoodSnapshot EXCEPT !.positions = << Holding("A", 0, 0) >>],
    [GoodSnapshot EXCEPT !.orders[1].status = "Open"] }

MCSnapshots == {GoodSnapshot} \cup RefusedSnapshots
MCOrderInputs == GoodOrders \cup RefusedOrders
MCFillInputs == GoodFills \cup RefusedFills
=============================================================================

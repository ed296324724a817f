---------------------------- MODULE TypeBindings ----------------------------
(***************************************************************************)
(* The record constructors of src/python/bindings/vqc_types.py: the enums  *)
(* of the Python boundary (written as their values), and what the core's   *)
(* records become of them.  The constructors check nothing but that a type *)
(* which needs a price has one; validity is the core's business.           *)
(***************************************************************************)
EXTENDS Validation

CONSTANT Missing   \* an optional value that was not given: None

PythonStatus == {"pending", "open", "partially_filled", "filled", "cancelled", "rejected"}
PythonSide == {"buy", "sell"}
PythonType == {"market", "limit", "stop", "stop_limit"}

ToDafnyOrderStatus ==
  [pending |-> "Pending", open |-> "Open", partially_filled |-> "PartiallyFilled",
   filled |-> "Filled", cancelled |-> "Cancelled", rejected |-> "Rejected"]

\* The way back: the name of a core status, spelled as the enum's value.
StatusName ==
  [Pending |-> "pending", Open |-> "open", PartiallyFilled |-> "partially_filled",
   Filled |-> "filled", Cancelled |-> "cancelled", Rejected |-> "rejected"]

ToDafnyOrderSide == [buy |-> "Buy", sell |-> "Sell"]

NeedsLimitPrice(type) == type \in {"limit", "stop_limit"}
NeedsStopPrice(type) == type \in {"stop", "stop_limit"}

HasRequiredPrices(type, limitPrice, stopPrice) ==
  /\ NeedsLimitPrice(type) => limitPrice # Missing
  /\ NeedsStopPrice(type) => stopPrice # Missing

\* Mutant: the two prices of a stop-limit order change places.
ToDafnyOrderType_Swapped(type, limitPrice, stopPrice) ==
  CASE type = "market"     -> [kind |-> "Market"]
    [] type = "limit"      -> [kind |-> "Limit", limitPrice |-> limitPrice]
    [] type = "stop"       -> [kind |-> "Stop", stopPrice |-> stopPrice]
    [] type = "stop_limit" -> [kind |-> "StopLimit", stopPrice |-> limitPrice,
                               limitPrice |-> stopPrice]

\* Prices a type does not need are dropped.
ToDafnyOrderType(type, limitPrice, stopPrice) ==
  CASE type = "market"     -> [kind |-> "Market"]
    [] type = "limit"      -> [kind |-> "Limit", limitPrice |-> limitPrice]
    [] type = "stop"       -> [kind |-> "Stop", stopPrice |-> stopPrice]
    [] type = "stop_limit" -> [kind |-> "StopLimit", stopPrice |-> stopPrice,
                               limitPrice |-> limitPrice]

OrderRecord(orderId, symbol, quantity, side, type, status, filled, limitPrice, stopPrice) ==
  [orderId |-> orderId, symbol |-> symbol, quantity |-> quantity,
   side |-> ToDafnyOrderSide[side],
   orderType |-> ToDafnyOrderType(type, limitPrice, stopPrice),
   status |-> ToDafnyOrderStatus[status], filledQuantity |-> filled]

FillRecord(executionId, orderId, symbol, quantity, price) ==
  [executionId |-> executionId, orderId |-> orderId, symbol |-> symbol,
   quantity |-> quantity, price |-> price]

PositionRecord(symbol, quantity, averagePrice) ==
  [symbol |-> symbol, quantity |-> quantity, averagePrice |-> averagePrice]
=============================================================================

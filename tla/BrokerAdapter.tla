---------------------------- MODULE BrokerAdapter ----------------------------
(***************************************************************************)
(* The conversions of src/python/bindings/alpaca_adapter.py between the    *)
(* broker's native records and the verified core's.  A native order keeps  *)
(* the fields the adapter reads: id, symbol, side, qty, filled_qty,        *)
(* status, type and the two prices (in ten-thousandths, read only for the  *)
(* types that carry them).  Quantities are whole and every required field  *)
(* is present, so RequireField and _ToWholeQuantity return their argument; *)
(* a record they refuse is a fault of BrokerSync.                          *)
(***************************************************************************)
EXTENDS TypeBindings, Money

PendingStatuses == {"pending_new", "pending_review"}

OpenStatuses ==
  {"new", "accepted", "accepted_for_bidding", "pending_cancel", "pending_replace",
   "held", "stopped", "suspended"}

PartialStatuses == {"partially_filled", "partial_fill"}

CancelledStatuses ==
  {"canceled", "cancelled", "expired", "done_for_day", "replaced", "calculated"}

\* A status outside these sets raises; the broker modelled here sends none.
ToVQCStatus(status) ==
  CASE status \in PendingStatuses   -> "pending"
    [] status \in OpenStatuses      -> "open"
    [] status \in PartialStatuses   -> "partially_filled"
    [] status = "filled"            -> "filled"
    [] status \in CancelledStatuses -> "cancelled"
    [] status = "rejected"          -> "rejected"

\* Mutant: the cumulative filled quantity is not consulted.
NormalizedStatus_RawOnly(status, filled, quantity) == status

\* How a converted status and a cumulative filled quantity are reconciled.
NormalizedStatus(status, filled, quantity) ==
  IF filled = quantity THEN "filled"
  ELSE IF filled > 0 /\ status \in {"pending", "open"} THEN "partially_filled"
  ELSE status

GetOrderStatus(raw) ==
  NormalizedStatus(ToVQCStatus(raw.status), raw.filled_qty, raw.qty)

\* The price the core keeps of an optional native one.
ToVQCMoney(price) == IF price = Missing THEN Missing ELSE FromDecimal(price)

\* The two optional arguments are given: a caller that leaves them out in the
\* code passes raw.filled_qty and ToVQCStatus(raw.status) here.
ToVQCOrder(raw, orderId, filled, status) ==
  OrderRecord(orderId, raw.symbol, raw.qty, raw.side, raw.type,
              NormalizedStatus(status, filled, raw.qty), filled,
              ToVQCMoney(raw.limit_price), ToVQCMoney(raw.stop_price))

ToVQCPosition(raw) == PositionRecord(raw.symbol, raw.qty, ToVQCMoney(raw.avg_entry_price))

ToVQCFill(update, executionId, orderId) ==
  FillRecord(executionId, orderId, update.order.symbol, update.qty, ToVQCMoney(update.price))

\* Fill events are the priced executions; every other event is a lifecycle event.
TradeUpdateKind(update) ==
  IF update.event \in {"partial_fill", "fill"} THEN "fill" ELSE "lifecycle"

IsFillUpdate(update) == TradeUpdateKind(update) = "fill"

\* The status a lifecycle event asks for: the event's own for an order that
\* starts its life, otherwise the embedded order's.
ToLifecycleStatus(update) ==
  IF update.event \in PendingStatuses THEN "pending"
  ELSE IF update.event \in {"new", "accepted", "accepted_for_bidding"} THEN "open"
  ELSE GetOrderStatus(update.order)
=============================================================================

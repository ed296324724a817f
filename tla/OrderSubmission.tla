--------------------------- MODULE OrderSubmission ---------------------------
(***************************************************************************)
(* What a caller may ask of VQCClient (src/python/vqc_client.py) and the   *)
(* two layers of checks its request passes before the broker sees it: the  *)
(* client's, before the lock is taken, and the adapter's, under it.  A     *)
(* check that fails raises.  Prices are in ten-thousandths.                *)
(***************************************************************************)
EXTENDS TypeBindings

CONSTANTS
  Invalid,     \* a value that is no number: a boolean, a word, NaN, an infinity
  Spellings    \* [what callers write -> the symbol, stripped and in capitals]

OrderTimeInForce == {"day", "gtc", "opg", "cls", "ioc", "fok"}

-----------------------------------------------------------------------------
(* The four public calls *)

Request(symbol, quantity, type, limitPrice, stopPrice, extendedHours, timeInForce) ==
  [symbol |-> symbol, quantity |-> quantity, type |-> type, limit_price |-> limitPrice,
   stop_price |-> stopPrice, extended_hours |-> extendedHours, time_in_force |-> timeInForce]

MarketOrder(symbol, quantity, timeInForce) ==
  Request(symbol, quantity, "market", Missing, Missing, FALSE, timeInForce)

LimitOrder(symbol, quantity, limitPrice, extendedHours, timeInForce) ==
  Request(symbol, quantity, "limit", limitPrice, Missing, extendedHours, timeInForce)

StopOrder(symbol, quantity, stopPrice, timeInForce) ==
  Request(symbol, quantity, "stop", Missing, stopPrice, FALSE, timeInForce)

StopLimitOrder(symbol, quantity, stopPrice, limitPrice, timeInForce) ==
  Request(symbol, quantity, "stop_limit", limitPrice, stopPrice, FALSE, timeInForce)

-----------------------------------------------------------------------------
(* The client's checks *)

Identifier(symbol) == Spellings[symbol]

\* Mutant: an order for no shares is let through.
IsOrderQuantity_Zero(quantity) == quantity # Invalid

IsOrderQuantity(quantity) == quantity \notin {Invalid, 0}

OrderSideOf(quantity) == IF quantity > 0 THEN "buy" ELSE "sell"
AbsoluteQuantity(quantity) == IF quantity > 0 THEN quantity ELSE 0 - quantity

IsPositivePrice(price) == price \notin {Missing, Invalid} /\ price > 0

PassesClientChecks(request) ==
  /\ IsOrderQuantity(request.quantity)
  /\ Identifier(request.symbol) # ""
  /\ request.extended_hours => request.type = "limit"
  /\ NeedsLimitPrice(request.type) => IsPositivePrice(request.limit_price)
  /\ NeedsStopPrice(request.type) => IsPositivePrice(request.stop_price)

-----------------------------------------------------------------------------
(* The adapter's checks and the order it sends *)

PassesAdapterChecks(request) ==
  /\ request.extended_hours => request.type = "limit" /\ request.time_in_force = "day"
  /\ HasRequiredPrices(request.type, request.limit_price, request.stop_price)

NativeOrder(request) ==
  [symbol |-> Identifier(request.symbol), side |-> OrderSideOf(request.quantity),
   qty |-> AbsoluteQuantity(request.quantity), type |-> request.type,
   limit_price |-> request.limit_price, stop_price |-> request.stop_price,
   time_in_force |-> request.time_in_force]
=============================================================================

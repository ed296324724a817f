----------------------------- MODULE Strategies -----------------------------
(***************************************************************************)
(* The two example strategies, src/python/examples/IntervalBuy.py and      *)
(* MultiMarketBuy.py: a job that is run at once and then at every interval *)
(* until the user interrupts it, and that places one-share orders through  *)
(* the client.  The exchange's session opens and closes when it likes.     *)
(***************************************************************************)
EXTENDS OrderSubmission, Money

CONSTANTS
  Watched,     \* job -> the symbols it buys, in order
  Asks,        \* answers of the quote service: ask prices, Missing, Invalid
  Exchanges    \* exchanges a symbol may be listed on

ASSUME AsksAssumption == Asks \subseteq Int \cup {Missing, Invalid}

VARIABLES
  job,         \* "interval" or "multi"
  pc,          \* what the job does next
  open,        \* the exchange is in its regular session
  since,       \* session states since the round began
  regular,     \* the session state the job has read
  next,        \* the position of the next symbol
  sent         \* orders accepted in this round, with the ask they come from

vars == << job, pc, open, since, regular, next, sent >>

Symbols == Watched[job]

Init ==
  /\ job \in DOMAIN Watched
  /\ pc = "clock"
  /\ open \in BOOLEAN
  /\ since = {open}
  /\ regular = FALSE
  /\ next = 1
  /\ sent = {}

-----------------------------------------------------------------------------
(* The clock and the listings: an exception ends the program *)

\* Mutant: the session state of an earlier round is used.
ClockReading_Kept == regular

ClockReading == open

\* MultiMarketBuy skips a round outside the regular session.
ReadClock ==
  /\ pc = "clock"
  /\ regular' = ClockReading
  /\ pc' = IF job = "interval" THEN "orders" ELSE IF regular' THEN "listings" ELSE "pause"
  /\ UNCHANGED << job, open, since, next, sent >>

ReadFails ==
  /\ pc \in {"clock", "listings"}
  /\ pc' = "failed"
  /\ UNCHANGED << job, open, since, regular, next, sent >>

\* The listings must be on as many exchanges as there are symbols.
ReadListings ==
  /\ pc = "listings"
  /\ \E exchange \in [1 .. Len(Symbols) -> Exchanges] :
       pc' = IF \A i, j \in 1 .. Len(Symbols) : i # j => exchange[i] # exchange[j]
             THEN "orders" ELSE "failed"
  /\ UNCHANGED << job, open, since, regular, next, sent >>

-----------------------------------------------------------------------------
(* The orders of a round *)

\* Mutant: the limit is rounded down to a cent.
ExtendedHoursLimit_Down(ask) == ((ask * 1005) \div (1000 * UnitsPerCent)) * UnitsPerCent

\* The ask and a half per cent, rounded up to a cent.
ExtendedHoursLimit(ask) ==
  (0 - ((0 - ask * 1005) \div (1000 * UnitsPerCent))) * UnitsPerCent

\* What the job asks of the client; a quote that is no positive price raises.
IsUsable(ask) == regular \/ IsPositivePrice(ask)

RequestFor(ask) ==
  IF regular
  THEN MarketOrder(Symbols[next], 1, "day")
  ELSE LimitOrder(Symbols[next], 1, ExtendedHoursLimit(ask), TRUE, "day")

NextSymbol ==
  /\ next' = next + 1
  /\ pc' = IF next = Len(Symbols) THEN "pause" ELSE "orders"
  /\ UNCHANGED << job, open, since, regular >>

PlaceOrder ==
  /\ pc = "orders"
  /\ \E ask \in Asks :
       /\ IsUsable(ask)
       /\ PassesClientChecks(RequestFor(ask)) /\ PassesAdapterChecks(RequestFor(ask))
       /\ sent' = sent \cup {[request |-> RequestFor(ask), ask |-> ask]}
  /\ NextSymbol

\* Mutant: a failed order ends the program.
SkipOrder_Raises ==
  /\ pc = "orders"
  /\ pc' = "failed"
  /\ UNCHANGED << job, open, since, regular, next, sent >>

\* The quote is unusable, the listing not tradable, or the order refused by the
\* client, its broker or the core: the exception is logged.
SkipOrder ==
  /\ pc = "orders"
  /\ NextSymbol
  /\ UNCHANGED sent

-----------------------------------------------------------------------------
(* The schedule *)

NextRound ==
  /\ pc = "pause"
  /\ pc' = "clock"
  /\ next' = 1
  /\ sent' = {}
  /\ since' = {open}
  /\ UNCHANGED << job, open, regular >>

Interrupt ==
  /\ pc \notin {"stopped", "failed"}
  /\ pc' = "stopped"
  /\ UNCHANGED << job, open, since, regular, next, sent >>

SessionChanges ==
  /\ open' = ~open
  /\ since' = since \cup {open'}
  /\ UNCHANGED << job, pc, regular, next, sent >>

JobStep ==
  \/ ReadClock \/ ReadFails \/ ReadListings
  \/ PlaceOrder \/ SkipOrder
  \/ NextRound

Next == JobStep \/ Interrupt \/ SessionChanges

\* The program runs while it has something to do; nothing obliges the exchange
\* to open or close, or the user to interrupt.
Spec == Init /\ [][Next]_vars /\ WF_vars(JobStep)

-----------------------------------------------------------------------------

\* An order outside the regular session can be executed at the ask it comes from
\* and costs at most half a per cent and a cent more, at the broker and in the
\* core's cents alike: the two roundings, to a cent and to cents, never leave a
\* price the core refuses, however small the ask (IntervalBuy.py:38-50).
LimitsCoverTheAsk ==
  \A order \in sent :
    order.request.type = "limit" =>
      LET limit == order.request.limit_price
      IN  /\ FromDecimal(limit) > 0
          /\ ToDecimal(FromDecimal(limit)) = limit
          /\ limit >= order.ask
          /\ 1000 * limit < 1005 * order.ask + 1000 * UnitsPerCent

\* The clock is read once for all the orders of a round, and the session may end
\* while they are placed; but a market order is only sent in a round that has seen
\* the regular session, and a limit order in one that has seen it closed
\* (IntervalBuy.py:59-71, MultiMarketBuy.py:22-44).
OrdersFollowTheClock ==
  \A order \in sent : (order.request.type = "market") \in since

\* A quote, a listing or an order that fails spoils neither the other orders of
\* its round nor the rounds to come: once the clock and the listings have been
\* read, the round is finished and the next one starts, unless the user
\* interrupts (IntervalBuy.py:60-77, MultiMarketBuy.py:36-46).
RoundsGoOn == pc = "orders" ~> (pc = "clock" \/ pc = "stopped")
=============================================================================

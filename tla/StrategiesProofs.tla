-------------------------- MODULE StrategiesProofs --------------------------
(***************************************************************************)
(* The orders of the example strategies, for every ask the quote service   *)
(* may answer and every moment at which the session may open or close.     *)
(***************************************************************************)
EXTENDS Strategies, TLAPS

-----------------------------------------------------------------------------
(* Prices *)

\* The ask and a half per cent, rounded up to a cent, as a number of cents.
LEMMA LimitInCents ==
  ASSUME NEW ask \in Int, ask > 0
  PROVE  \E cents \in Int :
           /\ ExtendedHoursLimit(ask) = 100 * cents
           /\ 1005 * ask <= 100000 * cents
           /\ 100000 * cents < 1005 * ask + 100000
<1> DEFINE n == 0 - ask * 1005
           floor == n \div 100000
           rest == n % 100000
           cents == 0 - floor
<1>1. n \in Int /\ n = 0 - 1005 * ask
  OBVIOUS
<1>2. ExtendedHoursLimit(ask) = (0 - floor) * 100
  BY DEF ExtendedHoursLimit, UnitsPerCent
<1> HIDE DEF n
<1>3. /\ floor \in Int /\ rest \in Int /\ 0 <= rest /\ rest < 100000
      /\ n = 100000 * floor + rest
  BY <1>1, Z3
<1> HIDE DEF floor, rest
<1>4. cents \in Int /\ ExtendedHoursLimit(ask) = 100 * cents
  <2>1. cents \in Int
    BY <1>3
  <2>2. ExtendedHoursLimit(ask) = cents * 100
    BY <1>2
  <2> HIDE DEF cents
  <2> QED
    BY <2>1, <2>2
<1>5. 1005 * ask <= 100000 * cents /\ 100000 * cents < 1005 * ask + 100000
  BY <1>1, <1>3
<1> QED
  BY <1>4, <1>5

\* Whole cents are kept by the conversion to Money.
LEMMA CentsAreKept ==
  ASSUME NEW m \in Int
  PROVE  FromDecimal(100 * m) = m /\ ToDecimal(m) = 100 * m
<1> DEFINE n == 100 * m
<1>1. n \in Int /\ n \div 100 = m /\ n % 100 = 0
  BY Z3
<1> HIDE DEF n
<1>2. FromDecimal(n) = m
  BY <1>1 DEF FromDecimal, RoundHalfEven, UnitsPerCent
<1>3. ToDecimal(m) = 100 * m
  BY DEF ToDecimal, UnitsPerCent
<1> QED
  BY <1>2, <1>3 DEF n

\* What LimitsCoverTheAsk asks of the limit computed from an ask.
Covers(limit, ask) ==
  /\ FromDecimal(limit) > 0
  /\ ToDecimal(FromDecimal(limit)) = limit
  /\ limit >= ask
  /\ 1000 * limit < 1005 * ask + 1000 * UnitsPerCent

\* The limit computed from a positive ask covers it, however small the ask is.
LEMMA ComputedLimitCovers ==
  ASSUME NEW ask \in Int, ask > 0
  PROVE  Covers(ExtendedHoursLimit(ask), ask)
<1> DEFINE limit == ExtendedHoursLimit(ask)
<1>1. PICK cents \in Int :
        /\ limit = 100 * cents
        /\ 1005 * ask <= 100000 * cents
        /\ 100000 * cents < 1005 * ask + 100000
  BY LimitInCents
<1>2. FromDecimal(limit) = cents /\ ToDecimal(cents) = limit
  BY <1>1, CentsAreKept
<1> HIDE DEF limit
<1>3. cents > 0 /\ limit >= ask /\ 1000 * limit < 1005 * ask + 1000 * 100
  BY <1>1
<1> QED
  BY <1>2, <1>3 DEF Covers, UnitsPerCent, limit

-----------------------------------------------------------------------------
(* The orders of a round *)

\* OrdersFollowTheClock is not inductive: an order follows the session state the
\* job has read, which must be one the round has seen, also while it changes.
IInv ==
  /\ regular \in BOOLEAN /\ open \in BOOLEAN
  /\ open \in since
  /\ pc \in {"listings", "orders"} => regular \in since
  /\ \A order \in sent :
       /\ order.request.type = "limit" => Covers(order.request.limit_price, order.ask)
       /\ order.request.type = "market" => TRUE \in since
       /\ order.request.type # "market" => FALSE \in since

\* What is asked of the client for a usable quote.
LEMMA RequestIsRight ==
  ASSUME IInv, NEW ask \in Asks, IsUsable(ask), pc = "orders"
  PROVE  /\ RequestFor(ask).type = "limit" => Covers(RequestFor(ask).limit_price, ask)
         /\ RequestFor(ask).type = "market" => TRUE \in since
         /\ RequestFor(ask).type # "market" => FALSE \in since
<1>1. CASE regular
  <2>1. RequestFor(ask).type = "market"
    BY <1>1 DEF RequestFor, MarketOrder, Request
  <2>2. TRUE \in since
    BY <1>1 DEF IInv
  <2> QED
    BY <2>1, <2>2
<1>2. CASE ~regular
  <2>1. /\ RequestFor(ask).type = "limit"
        /\ RequestFor(ask).limit_price = ExtendedHoursLimit(ask)
    BY <1>2 DEF RequestFor, LimitOrder, Request
  <2>2. ask \in Int /\ ask > 0
    BY <1>2, AsksAssumption DEF IsUsable, IsPositivePrice
  <2>3. FALSE \in since
    BY <1>2 DEF IInv
  <2> QED
    BY <2>1, <2>2, <2>3, ComputedLimitCovers
<1> QED
  BY <1>1, <1>2 DEF IInv

\* IInv is inductive.
LEMMA Inductive ==
  /\ Init => IInv
  /\ IInv /\ [Next]_vars => IInv'
<1>1. Init => IInv
  BY DEF Init, IInv
<1>2. ASSUME IInv, [Next]_vars PROVE IInv'
  <2>1. CASE ReadClock
    BY <1>2, <2>1 DEF ReadClock, ClockReading, IInv
  <2>2. CASE ReadFails \/ ReadListings
    BY <1>2, <2>2 DEF ReadFails, ReadListings, IInv
  <2>3. CASE PlaceOrder
    <3>1. PICK ask \in Asks :
            IsUsable(ask) /\ sent' = sent \cup {[request |-> RequestFor(ask), ask |-> ask]}
      BY <2>3 DEF PlaceOrder
    <3> DEFINE placed == [request |-> RequestFor(ask), ask |-> ask]
    <3>2. /\ placed.request = RequestFor(ask) /\ placed.ask = ask
          /\ sent' = sent \cup {placed}
      BY <3>1
    <3>3. /\ pc = "orders" /\ since' = since /\ open' = open /\ regular' = regular
      BY <2>3 DEF PlaceOrder, NextSymbol
    <3> HIDE DEF placed
    <3>4. \A order \in sent' :
            /\ order.request.type = "limit" => Covers(order.request.limit_price, order.ask)
            /\ order.request.type = "market" => TRUE \in since
            /\ order.request.type # "market" => FALSE \in since
      <4>1. /\ placed.request.type = "limit" => Covers(placed.request.limit_price, placed.ask)
            /\ placed.request.type = "market" => TRUE \in since
            /\ placed.request.type # "market" => FALSE \in since
        BY <1>2, <3>1, <3>2, <3>3, RequestIsRight
      <4> QED
        BY <1>2, <3>2, <4>1 DEF IInv
    <3> QED
      BY <1>2, <3>3, <3>4 DEF IInv
  <2>4. CASE SkipOrder
    BY <1>2, <2>4 DEF SkipOrder, NextSymbol, IInv
  <2>5. CASE NextRound
    BY <1>2, <2>5 DEF NextRound, IInv
  <2>6. CASE Interrupt
    BY <1>2, <2>6 DEF Interrupt, IInv
  <2>7. CASE SessionChanges
    BY <1>2, <2>7 DEF SessionChanges, IInv
  <2>8. CASE UNCHANGED vars
    BY <1>2, <2>8 DEF vars, IInv
  <2> QED
    BY <1>2, <2>1, <2>2, <2>3, <2>4, <2>5, <2>6, <2>7, <2>8 DEF Next, JobStep
<1> QED
  BY <1>1, <1>2

-----------------------------------------------------------------------------
(* The theorems *)

\* Every limit order of a strategy can be executed at the ask it comes from, costs
\* at most half a per cent and a cent more, and is a positive number of cents, for
\* every ask (IntervalBuy.py:38-50).
THEOREM LimitsCover == Spec => []LimitsCoverTheAsk
<1>1. IInv => LimitsCoverTheAsk
  <2> SUFFICES ASSUME IInv, NEW order \in sent, order.request.type = "limit"
               PROVE  Covers(order.request.limit_price, order.ask)
    BY Zenon DEF Covers, LimitsCoverTheAsk
  <2> QED
    BY DEF IInv
<1> QED
  BY <1>1, Inductive, PTL DEF Spec

\* An order is sent as the clock of its round says, although the session may open
\* or close between any two steps (IntervalBuy.py:59-71, MultiMarketBuy.py:22-44).
THEOREM ClockIsFollowed == Spec => []OrdersFollowTheClock
<1>1. IInv => OrdersFollowTheClock
  <2> SUFFICES ASSUME IInv, NEW order \in sent
               PROVE  (order.request.type = "market") \in since
    BY DEF OrdersFollowTheClock
  <2>1. CASE order.request.type = "market"
    <3>1. (order.request.type = "market") = TRUE
      BY <2>1
    <3> QED
      BY <2>1, <3>1 DEF IInv
  <2>2. CASE order.request.type # "market"
    <3>1. (order.request.type = "market") = FALSE
      BY <2>2
    <3> QED
      BY <2>2, <3>1 DEF IInv
  <2> QED
    BY <2>1, <2>2
<1> QED
  BY <1>1, Inductive, PTL DEF Spec
=============================================================================

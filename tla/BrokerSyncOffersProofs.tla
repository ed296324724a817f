----------------------- MODULE BrokerSyncOffersProofs -----------------------
(***************************************************************************)
(* The client never offers for sale more than its broker lets it: its      *)
(* account and the broker's differ by exactly what is in flight, in every  *)
(* order, and no order in flight takes away what a call was checked        *)
(* against.                                                                *)
(***************************************************************************)
EXTENDS BrokerSyncAgreementProofs

-----------------------------------------------------------------------------
(* The inductive invariant of the offers *)

\* A stream that keeps its order, and an order that ends does not come back or end
\* before its submission is answered.
OrderlyBroker ==
  /\ Env \cap {"reorder", "early_cancel", "next_day"} = {}
  /\ \A a \in Accounts : \A k \in DOMAIN a.book : a.book[k].status # "done_for_day"

\* At the start the broker holds what is offered.
CoveredAtStart ==
  \A a \in Accounts : \A symbol \in Symbols : Committed(a.book, symbol) <= a.shares[symbol]

IsPromising(order) == order.status \in {"Pending", "Open", "PartiallyFilled"}

\* What the client has booked of one of the broker's orders.
Booked(key) ==
  IF key \in DOMAIN orderIds
  THEN GetOrder(account.orders, orderIds[key]).filledQuantity ELSE 0

\* What it promises of it.
PromisedOf(key, symbol) ==
  IF key \in DOMAIN orderIds
  THEN Promise(GetOrder(account.orders, orderIds[key]), symbol) ELSE 0

\* The shares of a symbol that the executions of an order the client has not booked
\* yet have moved.
Unbooked(key, symbol) ==
  IF book[key].symbol # symbol THEN 0
  ELSE IF book[key].side = "buy" THEN book[key].filled_qty - Booked(key)
  ELSE Booked(key) - book[key].filled_qty

\* By how much the client's view of one order lets it offer less than the broker would.
Slack(key, symbol) ==
  IF Known(key)
  THEN PromisedOf(key, symbol) - Offer(book[key], symbol) + Unbooked(key, symbol)
  ELSE 0

\* Shares free at the broker beyond those the client would offer.
Margin(symbol) == Uncommitted(symbol) - AvailableToSell(symbol)

\* It is the slack of the orders it knows.
MarginInv ==
  ClientReady =>
    \A symbol \in Symbols :
      Margin(symbol) = SumSeq([key \in DOMAIN book |-> Slack(key, symbol)])

\* The client never books, with what is in flight, more than the broker has filled.
BookedInv ==
  \A key \in DOMAIN book :
    Known(key) => Booked(key) + Filled(InFlight, key) <= book[key].filled_qty

\* An order that has ended in the account has nothing left to be executed or booked.
EndedInv ==
  \A key \in DOMAIN orderIds :
    ~IsPromising(GetOrder(account.orders, orderIds[key])) =>
      /\ Booked(key) = book[key].filled_qty
      /\ IsLive(book[key]) => Remaining(book[key]) = 0

\* An update that ends an order for the client.
Ends(update) ==
  ~IsFillUpdate(update) /\ ToLifecycleStatus(update) \in {"cancelled", "rejected"}

\* The client is about to be told that an order has ended.
Ending(key) == \E i \in DOMAIN queue : Ends(queue[i]) /\ queue[i].order.id = key

\* Of this order nothing more will be executed than is booked or in flight.
Over(key) ==
  ~IsLive(book[key]) /\ Booked(key) + Filled(InFlight, key) = book[key].filled_qty

\* Such an update is only sent of an order that is over, and comes after every
\* execution of it.
EndsInv ==
  \A i \in DOMAIN queue :
    Ends(queue[i]) =>
      /\ Over(queue[i].order.id)
      /\ \A j \in DOMAIN queue :
           queue[j] \in InFlight /\ queue[j].order.id = queue[i].order.id =>
             \E first \in 1 .. i - 1 : queue[first] = queue[j]

\* An order that waits for its answer has not been cancelled, nor rejected after an
\* execution.
AnswerInv ==
  user.pc = "accepted" =>
    /\ book[user.key].status # "canceled"
    /\ book[user.key].status \in {"pending_new", "rejected"} =>
         book[user.key].filled_qty = 0

\* A sell on its way to the broker is of shares nobody else offers.
CallCovered ==
  user.pc = "calling" =>
    LET order == NativeOrder(user.request)
    IN  order.side = "sell" => order.qty <= Uncommitted(order.symbol)

OfferInv ==
  /\ MarginInv /\ BookedInv /\ EndedInv /\ EndsInv /\ AnswerInv /\ CallCovered
  /\ \A key \in DOMAIN book : book[key].status # "done_for_day"
  /\ NoOversell

-----------------------------------------------------------------------------
(* Sums over the orders *)

\* A list of zeros.
LEMMA SumOfZeros ==
  ASSUME NEW s \in Seq(Int), \A i \in DOMAIN s : s[i] = 0
  PROVE  SumSeq(s) = 0
<1> DEFINE t == [i \in DOMAIN s |-> 0 - s[i]]
<1>1. SumSeq(t) = 0 - SumSeq(s)
  BY SumSeqNegated
<1>2. s = t
  <2>1. \A i \in DOMAIN s : s[i] = 0 - s[i]
    OBVIOUS
  <2> QED
    BY <2>1
<1>3. SumSeq(s) \in Int
  BY SumSeqType
<1> HIDE DEF t
<1> QED
  BY <1>1, <1>2, <1>3

\* What the client would offer is a number.
LEMMA AvailableType ==
  ASSUME IInv, ClientReady, NEW symbol
  PROVE  /\ AvailableToSell(symbol)
              = Held(account.positions, symbol) - Promised(account.orders, symbol)
         /\ Held(account.positions, symbol) \in Nat /\ Promised(account.orders, symbol) \in Int
         /\ AvailableToSell(symbol) \in Int
<1>1. TradedAccount(account)
  BY DEF IInv, ClientInv
<1>2. account.orders \in Seq(Order) /\ account.positions \in Seq(Position)
  BY <1>1, FieldsOfAccount DEF TradedAccount
<1>3. /\ Held(account.positions, symbol) \in Nat
      /\ Promised(account.orders, symbol) \in Int
  BY <1>2, HeldType, PromisedType
<1>4. AvailableToSell(symbol)
        = Held(account.positions, symbol) - Promised(account.orders, symbol)
  BY ReservedIsPromised
<1> QED
  BY <1>3, <1>4

-----------------------------------------------------------------------------
(* The slack of an order, and the margin *)

\* What is booked and promised of an order, and the slack, are numbers.
LEMMA SlackType ==
  ASSUME IInv, ClientReady, NEW key \in DOMAIN book, NEW symbol
  PROVE  /\ Booked(key) \in Nat /\ PromisedOf(key, symbol) \in Int
         /\ Unbooked(key, symbol) \in Int /\ Offer(book[key], symbol) \in Nat
         /\ Slack(key, symbol) \in Int
         /\ key \in DOMAIN orderIds =>
              /\ GetOrder(account.orders, orderIds[key]) \in Order
              /\ IsValidOrder(GetOrder(account.orders, orderIds[key]))
              /\ Mirrors(GetOrder(account.orders, orderIds[key]), book[key])
<1>1. /\ book[key] \in BrokerOrder /\ book[key].filled_qty \in Nat
  BY BookFields, BrokerOrderFields DEF IInv
<1>2. Offer(book[key], symbol) \in Nat
  BY <1>1, OfferIsNumber
<1> DEFINE order == GetOrder(account.orders, orderIds[key])
<1>3. ASSUME key \in DOMAIN orderIds
      PROVE  order \in Order /\ IsValidOrder(order) /\ Mirrors(order, book[key])
  <2>1. TradedAccount(account)
    BY DEF IInv, ClientInv
  <2>2. account.orders \in Seq(Order) /\ IsValidOrderSet(account.orders)
    BY <2>1, FieldsOfAccount DEF TradedAccount
  <2>3. ExistsOrder(account.orders, orderIds[key]) /\ Mirrors(order, book[key])
    BY <1>3 DEF IInv, ClientInv, Tracks
  <2>4. OrderIndex(account.orders, orderIds[key]) \in DOMAIN account.orders
    BY <2>3, OrderFound
  <2> QED
    BY <2>2, <2>3, <2>4 DEF GetOrder, IsValidOrderSet
<1>4. Booked(key) \in Nat
  BY <1>3 DEF Booked, Order
<1>5. PromisedOf(key, symbol) \in Int
  <2>1. CASE key \in DOMAIN orderIds
    BY <1>3, <2>1, PromiseIsNumber DEF PromisedOf
  <2> QED
    BY <2>1 DEF PromisedOf
<1>6. Unbooked(key, symbol) \in Int
  BY <1>1, <1>4 DEF Unbooked
<1>7. Slack(key, symbol) \in Int
  BY <1>2, <1>5, <1>6 DEF Slack
<1> QED
  BY <1>2, <1>3, <1>4, <1>5, <1>6, <1>7

\* The shares left of an order known to have none the client could still release.
LEMMA SlackNotNegative ==
  ASSUME IInv, ClientReady, BookedInv, EndedInv, user.pc # "accepted",
         NEW key \in DOMAIN book, NEW symbol
  PROVE  Slack(key, symbol) >= 0
<1>1. CASE key \notin DOMAIN orderIds
  BY <1>1 DEF Slack, Known
<1>2. CASE key \in DOMAIN orderIds
  <2> DEFINE order  == GetOrder(account.orders, orderIds[key])
             raw    == book[key]
             flight == Filled(InFlight, key)
  <2>1. /\ order \in Order /\ Mirrors(order, raw)
        /\ Booked(key) = order.filledQuantity /\ PromisedOf(key, symbol) = Promise(order, symbol)
        /\ Slack(key, symbol) = Promise(order, symbol) - Offer(raw, symbol)
                                  + Unbooked(key, symbol)
    BY <1>2, SlackType DEF Booked, PromisedOf, Slack, Known
  <2>2. /\ raw.qty \in Nat /\ raw.filled_qty \in Nat /\ raw.side \in {"buy", "sell"}
        /\ raw.filled_qty <= raw.qty
    BY BookFields, BrokerOrderFields DEF IInv
  <2>3. flight \in Nat
    BY InFlightType, TotalsType DEF IInv
  <2>4. Booked(key) + flight <= raw.filled_qty
    BY <1>2 DEF BookedInv, Known
  <2>5. ~IsPromising(order) =>
          Booked(key) = raw.filled_qty /\ (IsLive(raw) => Remaining(raw) = 0)
    BY <1>2 DEF EndedInv
  <2>6. /\ order.filledQuantity \in Nat /\ order.quantity = raw.qty
        /\ order.symbol = raw.symbol
        /\ raw.side = "buy" => order.side = "Buy"
        /\ raw.side = "sell" => order.side = "Sell"
    BY <2>1, <2>2 DEF Mirrors, ToDafnyOrderSide, Order
  <2> HIDE DEF order, raw, flight
  <2>7. Booked(key) <= raw.filled_qty
    BY <2>1, <2>2, <2>3, <2>4, <2>6
  <2>8. CASE raw.symbol # symbol
    <3>1. Promise(order, symbol) = 0 /\ Offer(raw, symbol) = 0 /\ Unbooked(key, symbol) = 0
      BY <2>6, <2>8 DEF Promise, Offer, Unbooked, raw
    <3> QED
      BY <2>1, <3>1
  <2>9. CASE raw.symbol = symbol /\ raw.side = "buy"
    <3>1. /\ Promise(order, symbol) = 0 /\ Offer(raw, symbol) = 0
          /\ Unbooked(key, symbol) = raw.filled_qty - Booked(key)
      BY <2>6, <2>9 DEF Promise, Offer, Unbooked, raw
    <3> QED
      BY <2>1, <2>2, <2>6, <2>7, <3>1
  <2>10. CASE raw.symbol = symbol /\ raw.side = "sell"
    <3>1. Unbooked(key, symbol) = Booked(key) - raw.filled_qty
      BY <2>10 DEF Unbooked, raw
    <3>2. Offer(raw, symbol) = IF IsLive(raw) THEN raw.qty - raw.filled_qty ELSE 0
      BY <2>10 DEF Offer, Remaining
    <3>3. CASE IsPromising(order)
      <4>1. Promise(order, symbol) = raw.qty - Booked(key)
        BY <2>1, <2>6, <2>10, <3>3 DEF Promise, IsPromising, RemainingQuantity
      <4> QED
        BY <2>1, <2>2, <2>6, <3>1, <3>2, <4>1
    <3>4. CASE ~IsPromising(order)
      <4>1. Promise(order, symbol) = 0
        BY <3>4 DEF Promise, IsPromising
      <4>2. Offer(raw, symbol) = 0 /\ Unbooked(key, symbol) = 0
        BY <2>2, <2>5, <2>6, <2>1, <3>1, <3>2, <3>4 DEF Remaining
      <4> QED
        BY <2>1, <4>1, <4>2
    <3> QED
      BY <3>3, <3>4
  <2> QED
    BY <2>2, <2>8, <2>9, <2>10
<1> QED
  BY <1>1, <1>2

\* The slacks of the broker's orders, as a list of numbers.
LEMMA Slacks ==
  ASSUME IInv, ClientReady, NEW symbol
  PROVE  /\ [key \in DOMAIN book |-> Slack(key, symbol)] \in Seq(Int)
         /\ Len([key \in DOMAIN book |-> Slack(key, symbol)]) = Len(book)
<1>1. book \in Seq(BrokerOrder) /\ Len(book) \in Nat /\ DOMAIN book = 1 .. Len(book)
  BY DEF IInv, BrokerInv
<1>2. \A key \in DOMAIN book : Slack(key, symbol) \in Int
  BY SlackType
<1> QED
  BY <1>1, <1>2

\* While no answer is waited for, the client offers no more than the broker has left.
LEMMA OffersCovered ==
  ASSUME IInv, ClientReady, MarginInv, BookedInv, EndedInv, user.pc # "accepted",
         NEW symbol \in Symbols
  PROVE  AvailableToSell(symbol) \in Int /\ AvailableToSell(symbol) <= Uncommitted(symbol)
<1> DEFINE s == [key \in DOMAIN book |-> Slack(key, symbol)]
           z == [key \in DOMAIN book |-> 0]
<1>1. s \in Seq(Int) /\ Len(s) = Len(book)
  BY Slacks
<1>2. book \in Seq(BrokerOrder) /\ Len(book) \in Nat /\ DOMAIN book = 1 .. Len(book)
  BY DEF IInv, BrokerInv
<1>3. z \in Seq(Int) /\ Len(z) = Len(book) /\ \A i \in DOMAIN z : z[i] = 0
  BY <1>2
<1>4. \A i \in DOMAIN z : z[i] <= s[i]
  <2>1. \A i \in DOMAIN book : s[i] >= 0 /\ s[i] \in Int
    BY SlackNotNegative, SlackType
  <2> HIDE DEF s
  <2> QED
    BY <1>2, <1>3, <2>1
<1>5. SumSeq(z) = 0
  BY <1>3, SumOfZeros
<1>6. SumSeq(z) <= SumSeq(s)
  <2> HIDE DEF s, z
  <2> QED
    BY <1>1, <1>3, <1>4, SumSeqMonotone
<1>7. SumSeq(s) \in Int
  <2> HIDE DEF s
  <2> QED
    BY <1>1, SumSeqType
<1>8. Margin(symbol) = SumSeq(s)
  BY DEF MarginInv
<1>9. AvailableToSell(symbol) \in Int
  BY AvailableType
<1>10. Uncommitted(symbol) \in Int
  BY CommittedInBook DEF IInv
<1> HIDE DEF s, z
<1> QED
  BY <1>5, <1>6, <1>7, <1>8, <1>9, <1>10 DEF Margin

\* The slack of an order neither side moves.
LEMMA SlackSame ==
  ASSUME NEW key, NEW symbol, book'[key] = book[key], Known(key)' <=> Known(key),
         Booked(key)' = Booked(key), PromisedOf(key, symbol)' = PromisedOf(key, symbol)
  PROVE  Slack(key, symbol)' = Slack(key, symbol)
<1>1. Unbooked(key, symbol)' = Unbooked(key, symbol)
  BY DEF Unbooked
<1>2. Offer(book[key], symbol)' = Offer(book[key], symbol)
  OBVIOUS
<1> QED
  BY <1>1, <1>2 DEF Slack

\* What neither side moves stays as it is.
LEMMA MarginSame ==
  ASSUME UNCHANGED << book, shares, account >>, NEW symbol
  PROVE  Margin(symbol)' = Margin(symbol)
BY DEF Margin, Uncommitted, AvailableToSell, Reserved

\* A step that moves nothing on either side.
LEMMA MarginStays ==
  ASSUME MarginInv, UNCHANGED << book, shares, account, orderIds >>,
         \A key \in DOMAIN book : Known(key)' <=> Known(key)
  PROVE  MarginInv'
<1>1. ASSUME ClientReady', NEW symbol \in Symbols
      PROVE  Margin(symbol)' = SumSeq([key \in DOMAIN book |-> Slack(key, symbol)])'
  <2>1. ClientReady
    BY <1>1 DEF ClientReady
  <2>2. Margin(symbol)' = Margin(symbol)
    BY MarginSame
  <2>3. \A key \in DOMAIN book : Slack(key, symbol)' = Slack(key, symbol)
    <3> TAKE key \in DOMAIN book
    <3>1. Booked(key)' = Booked(key) /\ PromisedOf(key, symbol)' = PromisedOf(key, symbol)
      BY DEF Booked, PromisedOf
    <3> QED
      BY <3>1, SlackSame
  <2>4. [key \in DOMAIN book |-> Slack(key, symbol)]'
          = [key \in DOMAIN book |-> Slack(key, symbol)]
    BY <2>3
  <2> QED
    BY <2>1, <2>2, <2>4 DEF MarginInv
<1> QED
  BY <1>1 DEF MarginInv

\* A step that moves one order.
LEMMA MarginMoves ==
  ASSUME IInv, MarginInv, ClientReady, NEW k \in DOMAIN book, DOMAIN book' = DOMAIN book,
         \A symbol \in Symbols :
           /\ Slack(k, symbol)' \in Int
           /\ Margin(symbol)' = Margin(symbol) - Slack(k, symbol) + Slack(k, symbol)'
           /\ \A key \in DOMAIN book : key # k => Slack(key, symbol)' = Slack(key, symbol)
  PROVE  MarginInv'
<1>1. ASSUME NEW symbol \in Symbols
      PROVE  Margin(symbol)' = SumSeq([key \in DOMAIN book |-> Slack(key, symbol)])'
  <2> DEFINE s == [key \in DOMAIN book |-> Slack(key, symbol)]
             t == [key \in DOMAIN book |-> Slack(key, symbol)']
  <2>1. s \in Seq(Int) /\ Len(s) = Len(book)
    BY Slacks
  <2>2. /\ book \in Seq(BrokerOrder) /\ Len(book) \in Nat /\ DOMAIN book = 1 .. Len(book)
        /\ \A key \in DOMAIN book : Slack(key, symbol) \in Int
    BY SlackType DEF IInv, BrokerInv
  <2>3. \A key \in DOMAIN book : Slack(key, symbol)' \in Int
    <3> TAKE key \in DOMAIN book
    <3>1. CASE key = k
      BY <3>1
    <3>2. CASE key # k
      BY <2>2, <3>2
    <3> QED
      BY <3>1, <3>2
  <2>4. t \in Seq(Int) /\ Len(t) = Len(book)
    BY <2>2, <2>3
  <2>5. /\ s[k] = Slack(k, symbol) /\ t[k] = Slack(k, symbol)'
        /\ \A i \in DOMAIN s : i # k => t[i] = s[i]
    OBVIOUS
  <2>6. DOMAIN s = DOMAIN book
    OBVIOUS
  <2>7. [key \in DOMAIN book |-> Slack(key, symbol)]' = t
    OBVIOUS
  <2>8. Margin(symbol) = SumSeq(s)
    BY DEF MarginInv
  <2>9. Margin(symbol)' = Margin(symbol) - Slack(k, symbol) + Slack(k, symbol)'
    OBVIOUS
  <2> HIDE DEF s, t
  <2>10. SumSeq(t) = SumSeq(s) - s[k] + t[k]
    BY <2>1, <2>4, <2>5, <2>6, SumSeqReplaced
  <2> QED
    BY <2>5, <2>7, <2>8, <2>9, <2>10
<1> QED
  BY <1>1 DEF MarginInv

\* A step that adds one order.
LEMMA MarginGrows ==
  ASSUME IInv, MarginInv, ClientReady, NEW n \in Nat, n = Len(book), NEW k \in Nat, k = n + 1,
         Len(book') = k, book' \in Seq(BrokerOrder),
         \A symbol \in Symbols :
           /\ Slack(k, symbol)' \in Int
           /\ Margin(symbol)' = Margin(symbol) + Slack(k, symbol)'
           /\ \A key \in DOMAIN book : Slack(key, symbol)' = Slack(key, symbol)
  PROVE  MarginInv'
<1>1. ASSUME NEW symbol \in Symbols
      PROVE  Margin(symbol)' = SumSeq([key \in DOMAIN book |-> Slack(key, symbol)])'
  <2> DEFINE s == [key \in DOMAIN book |-> Slack(key, symbol)]
             t == [key \in DOMAIN book' |-> Slack(key, symbol)']
  <2>1. s \in Seq(Int) /\ Len(s) = n
    BY Slacks
  <2>2. /\ DOMAIN book = 1 .. n /\ DOMAIN book' = 1 .. k
        /\ \A key \in DOMAIN book : Slack(key, symbol) \in Int
    BY SlackType DEF IInv, BrokerInv
  <2>3. \A key \in 1 .. n : Slack(key, symbol)' = Slack(key, symbol)
    BY <2>2
  <2>4. \A key \in 1 .. k : Slack(key, symbol)' \in Int
    <3> TAKE key \in 1 .. k
    <3>1. CASE key = k
      BY <3>1
    <3>2. CASE key \in 1 .. n
      BY <2>2, <2>3, <3>2
    <3> QED
      BY <3>1, <3>2
  <2>5. t \in Seq(Int) /\ Len(t) = k
    BY <2>2, <2>4
  <2>6. t[k] = Slack(k, symbol)' /\ \A i \in 1 .. n : t[i] = s[i]
    BY <2>2, <2>3
  <2>7. [key \in DOMAIN book |-> Slack(key, symbol)]' = t
    OBVIOUS
  <2>8. Margin(symbol) = SumSeq(s)
    BY DEF MarginInv
  <2>9. Margin(symbol)' = Margin(symbol) + t[k] /\ t[k] \in Int
    BY <2>6
  <2> HIDE DEF s, t
  <2>10. SumSeq(t) = SumSeq(s) + t[k]
    BY ONLY n \in Nat, k = n + 1, <2>1, <2>5, <2>6, <2>9, SumSeqExtended
  <2> QED
    BY <2>7, <2>8, <2>9, <2>10
<1> QED
  BY <1>1 DEF MarginInv

\* The broker moves an order the client knows: its offer, its executions and the
\* shares it holds change together.
LEMMA BookMovesMargin ==
  ASSUME IInv, MarginInv, ClientReady, UNCHANGED clientVars,
         NEW k \in DOMAIN book, Known(k), NEW raw \in BrokerOrder,
         SameInstruction(book[k], raw), book' = [book EXCEPT ![k] = raw],
         NEW n \in Nat, raw.filled_qty = book[k].filled_qty + n,
         \A symbol \in Symbols :
           shares'[symbol] = shares[symbol]
             + (IF symbol # raw.symbol THEN 0 ELSE IF raw.side = "buy" THEN n ELSE 0 - n)
  PROVE  MarginInv'
<1>1. /\ account' = account /\ orderIds' = orderIds /\ user' = user
      /\ book \in Seq(BrokerOrder) /\ DOMAIN book' = DOMAIN book
      /\ \A key \in DOMAIN book : book'[key] = IF key = k THEN raw ELSE book[key]
  BY DEF clientVars, IInv, BrokerInv
<1>2. /\ book[k] \in BrokerOrder /\ book[k].filled_qty \in Nat
      /\ raw.symbol = book[k].symbol /\ raw.side = book[k].side
      /\ raw.filled_qty \in Nat /\ raw.side \in {"buy", "sell"}
  BY BookFields, BrokerOrderFields DEF IInv, SameInstruction
<1>3. \A key : /\ Known(key)' <=> Known(key)
               /\ Booked(key)' = Booked(key)
               /\ \A symbol : PromisedOf(key, symbol)' = PromisedOf(key, symbol)
  BY <1>1 DEF Known, Booked, PromisedOf
<1>4. ASSUME NEW symbol \in Symbols
      PROVE  /\ Slack(k, symbol)' \in Int
             /\ Margin(symbol)' = Margin(symbol) - Slack(k, symbol) + Slack(k, symbol)'
             /\ \A key \in DOMAIN book : key # k => Slack(key, symbol)' = Slack(key, symbol)
  <2> DEFINE moved == IF symbol # raw.symbol THEN 0 ELSE IF raw.side = "buy" THEN n ELSE 0 - n
  <2>1. moved \in Int /\ shares'[symbol] = shares[symbol] + moved
    BY <1>2
  <2>2. /\ Booked(k) \in Nat /\ PromisedOf(k, symbol) \in Int
        /\ Unbooked(k, symbol) \in Int /\ Offer(book[k], symbol) \in Nat
    BY SlackType
  <2>3. Offer(raw, symbol) \in Nat
    BY OfferIsNumber
  <2>4. Unbooked(k, symbol)' = Unbooked(k, symbol) + moved
    <3>1. book'[k] = raw /\ Booked(k)' = Booked(k)
      BY <1>1, <1>3
    <3> QED
      BY <1>2, <2>2, <3>1 DEF Unbooked
  <2>5. /\ Slack(k, symbol) = PromisedOf(k, symbol) - Offer(book[k], symbol)
                                + Unbooked(k, symbol)
        /\ Slack(k, symbol)' = PromisedOf(k, symbol) - Offer(raw, symbol)
                                + Unbooked(k, symbol)'
    <3>1. Known(k)' /\ book'[k] = raw /\ PromisedOf(k, symbol)' = PromisedOf(k, symbol)
      BY <1>1, <1>3
    <3> QED
      BY <3>1 DEF Slack
  <2>6. Committed(book', symbol)
          = Committed(book, symbol) - Offer(book[k], symbol) + Offer(raw, symbol)
    BY <1>1, CommittedReplaced, ZenonT(60)
  <2>7. /\ Committed(book, symbol) \in Int /\ shares[symbol] \in Int
        /\ Uncommitted(symbol) = shares[symbol] - Committed(book, symbol)
        /\ Uncommitted(symbol)' = shares'[symbol] - Committed(book', symbol)
    BY CommittedInBook DEF IInv, Uncommitted
  <2>8. AvailableToSell(symbol) \in Int
    BY AvailableType
  <2>9. /\ Margin(symbol) = Uncommitted(symbol) - AvailableToSell(symbol)
        /\ Margin(symbol)' = Uncommitted(symbol)' - AvailableToSell(symbol)
    BY <1>1 DEF Margin, AvailableToSell, Reserved
  <2>10. \A key \in DOMAIN book : key # k => Slack(key, symbol)' = Slack(key, symbol)
    BY <1>1, <1>3, SlackSame
  <2> HIDE DEF moved
  <2> QED
    BY <2>1, <2>2, <2>3, <2>4, <2>5, <2>6, <2>7, <2>8, <2>9, <2>10
<1> QED
  BY <1>1, <1>4, MarginMoves

-----------------------------------------------------------------------------
(* Updates in flight, and how an order ends *)

\* Fewer executions fill no more; those of other orders make no difference.
LEMMA FilledFewer ==
  ASSUME NEW n \in Nat, NEW T \in SUBSET Update(n), IsFiniteSet(T), NEW S \in SUBSET T, NEW key
  PROVE  /\ Filled(S, key) <= Filled(T, key)
         /\ (\A u \in T \ S : u.order.id # key) => Filled(S, key) = Filled(T, key)
<1>1. S \in SUBSET Update(n) /\ IsFiniteSet(S) /\ IsFiniteSet(T \ S)
  <2>1. IsFiniteSet(S)
    BY FS_Subset
  <2>2. T \ S \in SUBSET T
    OBVIOUS
  <2>3. IsFiniteSet(T \ S)
    BY <2>2, FS_Subset
  <2> QED
    BY <2>1, <2>3
<1>2. Filled(S, key) <= Filled(T, key)
  <2> DEFINE f == [u \in S |-> IF u.order.id = key THEN u.qty ELSE 0]
             h == [u \in T |-> IF u.order.id = key THEN u.qty ELSE 0]
  <2>1. f \in [S -> Nat] /\ h \in [T -> Nat]
    BY <1>1, Summands
  <2>2. /\ \A x \in S : f[x] <= h[x]
        /\ \A x \in T \ S : h[x] >= 0
    <3>1. \A x \in S : f[x] = h[x]
      OBVIOUS
    <3> HIDE DEF f, h
    <3> QED
      BY <2>1, <3>1
  <2>3. Filled(S, key) = SumFunction(f) /\ Filled(T, key) = SumFunction(h)
    BY DEF Filled
  <2> HIDE DEF f, h
  <2>4. f \in [S -> Int] /\ h \in [T -> Int]
    BY <2>1
  <2>5. SumFunction(f) <= SumFunction(h)
    BY <2>2, <2>4, SumFunctionMonotone
  <2> QED
    BY <2>3, <2>5
<1>3. ASSUME \A u \in T \ S : u.order.id # key
      PROVE  Filled(S, key) = Filled(T, key)
  <2> DEFINE R == T \ S
             D == {X \in SUBSET R : Filled(S \cup X, key) = Filled(S, key)}
  <2>1. {} \in D
    BY S \cup {} = S
  <2>2. ASSUME NEW X \in SUBSET R, NEW u \in R \ X, X \in D
        PROVE  X \cup {u} \in D
    <3>1. S \cup X \in SUBSET Update(n) /\ u \in Update(n) /\ u \notin S \cup X
      BY <1>1, <2>2
    <3>2. IsFiniteSet(S \cup X)
      <4>1. S \cup X \subseteq T
        BY <2>2
      <4> QED
        BY <4>1, FS_Subset
    <3>3. Filled((S \cup X) \cup {u}, key)
            = Filled(S \cup X, key) + (IF u.order.id = key THEN u.qty ELSE 0)
      <4> DEFINE W == S \cup X
      <4>1. W \in SUBSET Update(n) /\ IsFiniteSet(W) /\ u \in Update(n) /\ u \notin W
        BY <3>1, <3>2
      <4> HIDE DEF W
      <4>2. \A x : Filled(W \cup {u}, x) = Filled(W, x) + (IF u.order.id = x THEN u.qty ELSE 0)
        BY ONLY n \in Nat, <4>1, OneMoreInFlight
      <4> QED
        BY <4>2 DEF W
    <3>4. Filled(S \cup X, key) \in Nat
      BY <3>1, <3>2, TotalsType
    <3>5. u.order.id # key
      BY <1>3, <2>2
    <3>6. (S \cup X) \cup {u} = S \cup (X \cup {u})
      OBVIOUS
    <3>7. Filled(S \cup X, key) = Filled(S, key)
      BY <2>2
    <3>8. Filled((S \cup X) \cup {u}, key) = Filled(S \cup X, key)
      BY <3>3, <3>4, <3>5
    <3> QED
      BY <2>2, <3>6, <3>7, <3>8
  <2>3. \A X \in SUBSET R : \A u \in R \ X : X \in D => X \cup {u} \in D
    BY <2>2
  <2>4. IsFiniteSet(R)
    BY <1>1
  <2> HIDE DEF R, D
  <2>5. SUBSET R \subseteq D
    BY <2>1, <2>3, <2>4, SubsetInduction
  <2>6. R \in D
    BY <2>5
  <2>7. Filled(S \cup R, key) = Filled(S, key)
    BY <2>6 DEF D
  <2>8. S \cup R = T
    BY DEF R
  <2> QED
    BY <2>7, <2>8
<1> QED
  BY <1>2, <1>3

\* One more update on its way: of an order that is over if it ends one, and not
\* of such an order if it is a new execution.
LEMMA EndsAppended ==
  ASSUME EndsInv, NEW T, queue \in Seq(T), NEW u \in T, queue' = Append(queue, u),
         InFlight' \subseteq InFlight \cup {u},
         \A key : Ending(key) => Over(key)',
         Ends(u) => Over(u.order.id)',
         u \in InFlight' => u \in InFlight \/ ~Ending(u.order.id)
  PROVE  EndsInv'
<1> DEFINE n == Len(queue)
<1>1. /\ n \in Nat /\ DOMAIN queue = 1 .. n /\ DOMAIN queue' = 1 .. n + 1
      /\ queue'[n + 1] = u /\ \A i \in 1 .. n : queue'[i] = queue[i]
  OBVIOUS
<1>2. \A v \in InFlight : v \in Range(queue)
  BY DEF InFlight
<1>3. ASSUME NEW i \in DOMAIN queue', Ends(queue'[i]), NEW j \in DOMAIN queue',
             queue'[j] \in InFlight', queue'[j].order.id = queue'[i].order.id
      PROVE  \E first \in 1 .. i - 1 : queue'[first] = queue'[j]
  <2>1. CASE i \in 1 .. n /\ j \in 1 .. n
    <3>1. CASE queue[j] \in InFlight
      <4>1. \E first \in 1 .. i - 1 : queue[first] = queue[j]
        BY <1>1, <1>3, <2>1, <3>1 DEF EndsInv
      <4> QED
        BY <1>1, <2>1, <4>1
    <3>2. CASE queue[j] \notin InFlight
      <4>1. queue[j] = u /\ u \in InFlight'
        BY <1>1, <1>3, <2>1, <3>2
      <4> QED
        BY <1>1, <1>3, <2>1, <3>2, <4>1 DEF Ending
    <3> QED
      BY <3>1, <3>2
  <2>2. CASE i \in 1 .. n /\ j = n + 1
    <3>1. queue'[j] = u /\ queue'[i] = queue[i] /\ u \in InFlight
      BY <1>1, <1>3, <2>2 DEF Ending
    <3>2. PICK m \in DOMAIN queue : queue[m] = u
      BY <1>2, <3>1 DEF Range
    <3>3. \E first \in 1 .. i - 1 : queue[first] = queue[m]
      BY <1>1, <1>3, <2>2, <3>1, <3>2 DEF EndsInv
    <3> QED
      BY <1>1, <2>2, <3>1, <3>2, <3>3
  <2>3. CASE i = n + 1
    <3>1. ~IsFillUpdate(u)
      BY <1>1, <1>3, <2>3 DEF Ends
    <3>2. u \notin InFlight'
      BY <3>1 DEF InFlight
    <3>3. j # n + 1
      BY <1>1, <1>3, <3>2
    <3> QED
      BY <1>1, <1>3, <2>3, <3>3
  <2> QED
    BY <1>1, <2>1, <2>2, <2>3
<1>4. ASSUME NEW i \in DOMAIN queue', Ends(queue'[i]), NEW key, key = queue'[i].order.id
      PROVE  Over(key)'
  <2>1. CASE i \in 1 .. n
    <3>1. Ending(key)
      BY <1>1, <1>4, <2>1 DEF Ending
    <3> QED
      BY <3>1
  <2>2. CASE i = n + 1
    <3>1. key = u.order.id /\ Ends(u)
      BY <1>1, <1>4, <2>2
    <3> QED
      BY <3>1
  <2> QED
    BY <1>1, <2>1, <2>2
<1>5. ASSUME NEW i \in DOMAIN queue', Ends(queue'[i])
      PROVE  Over(queue[i].order.id)'
  <2> DEFINE key == queue'[i].order.id
  <2>1. \A x : x = key => Over(x)'
    BY <1>4, <1>5
  <2> QED
    BY <2>1 DEF Over, Booked
<1> QED
  BY <1>3, <1>5 DEF EndsInv

-----------------------------------------------------------------------------
(* Moves of the broker *)

\* What the broker has left does not shrink by a move that releases shares.
LEMMA ReleasesCover ==
  ASSUME BrokerInv, BrokerInv', UserInv, NoOversell, CallCovered, Releases, user' = user
  PROVE  NoOversell' /\ CallCovered'
<1>1. NoOversell'
  BY ReleasesBacks
<1>2. ASSUME user.pc = "calling", NEW symbol, NEW qty,
             NativeOrder(user.request).side = "sell",
             symbol = NativeOrder(user.request).symbol, qty = NativeOrder(user.request).qty
      PROVE  qty <= Uncommitted(symbol)'
  <2> DEFINE raw == NewOrder(1, NativeOrder(user.request), "pending_new")
  <2>1. raw \in BrokerOrder
    <3>1. user.request \in CallerRequest /\ PassesClientChecks(user.request)
      BY <1>2 DEF UserInv
    <3>2. "pending_new" \in BrokerStatuses
      BY DEF BrokerStatuses, LiveStatuses
    <3> QED
      BY <3>1, <3>2, NewOrderIsBrokerOrder
  <2>2. symbol = raw.symbol /\ qty = raw.qty
    BY <1>2 DEF NewOrder
  <2> HIDE DEF raw
  <2>3. symbol \in Symbols /\ qty \in Nat
    BY <2>1, <2>2, BrokerOrderFields
  <2>4. qty <= Uncommitted(symbol)
    BY <1>2 DEF CallCovered
  <2>5. Uncommitted(symbol) \in Int
    BY <2>3, CommittedInBook
  <2>6. Uncommitted(symbol)' \in Int
    <3>1. Committed(book', symbol) \in Int /\ shares'[symbol] \in Int
      BY <2>3, CommittedType DEF BrokerInv
    <3> QED
      BY <3>1 DEF Uncommitted
  <2>7. Uncommitted(symbol) <= Uncommitted(symbol)'
    BY <2>3 DEF Releases
  <2> QED
    BY <2>3, <2>4, <2>5, <2>6, <2>7
<1>3. CallCovered'
  <2>1. ASSUME user.pc = "calling", NativeOrder(user.request).side = "sell"
        PROVE  NativeOrder(user.request).qty <= Uncommitted(NativeOrder(user.request).symbol)'
    <3>1. \A symbol, qty :
            symbol = NativeOrder(user.request).symbol /\ qty = NativeOrder(user.request).qty
              => qty <= Uncommitted(symbol)'
      BY <1>2, <2>1
    <3>2. \A symbol : symbol = NativeOrder(user.request).symbol
                        => NativeOrder(user.request).qty <= Uncommitted(symbol)'
      BY <3>1
    <3> QED
      BY <3>2 DEF Uncommitted
  <2> QED
    BY <2>1 DEF CallCovered
<1> QED
  BY <1>1, <1>3

\* What is over stays over while nothing is moved in it.
LEMMA OverKept ==
  ASSUME NEW key, Over(key), ~IsLive(book'[key]), book'[key].filled_qty = book[key].filled_qty,
         Booked(key)' = Booked(key), Filled(InFlight', key) = Filled(InFlight, key)
  PROVE  Over(key)'
BY DEF Over

\* A move without an execution that does not end the order does not say it did.
LEMMA MoveEnds ==
  ASSUME NEW n \in Nat, NEW u \in Update(n), u.event = u.order.status,
         u.order.status \in {"new", "rejected", "pending_cancel", "canceled"}, Ends(u)
  PROVE  ~IsLive(u.order)
<1>1. CASE u.order.status = "new"
  BY <1>1 DEF Ends, ToLifecycleStatus, PendingStatuses
<1>2. CASE u.order.status = "pending_cancel"
  <2>1. ToLifecycleStatus(u) = GetOrderStatus(u.order)
    BY <1>2 DEF ToLifecycleStatus, PendingStatuses
  <2>2. ToVQCStatus("pending_cancel") = "open"
    BY DEF ToVQCStatus, PendingStatuses, OpenStatuses, PartialStatuses, CancelledStatuses
  <2>3. GetOrderStatus(u.order) \in {"open", "partially_filled", "filled"}
    BY <1>2, <2>2 DEF GetOrderStatus, NormalizedStatus
  <2> QED
    BY <2>1, <2>3 DEF Ends
<1>3. CASE u.order.status \in {"rejected", "canceled"}
  BY <1>3 DEF IsLive, LiveStatuses
<1> QED
  BY <1>1, <1>2, <1>3

\* What the client is about to hear the end of is an order of the broker's that is over.
LEMMA EndingOver ==
  ASSUME HeardInv, EndsInv, NEW key, Ending(key)
  PROVE  key \in DOMAIN book /\ Known(key) /\ Over(key) /\ ~IsLive(book[key])
<1>1. PICK i \in DOMAIN queue : Ends(queue[i]) /\ queue[i].order.id = key
  BY DEF Ending
<1>2. queue[i] \in Range(queue)
  BY <1>1 DEF Range
<1> QED
  BY <1>1, <1>2 DEF HeardInv, IsCopy, EndsInv, Over

\* What the broker does to an order it does not execute leaves the account and what
\* is in flight; what the client does not hear of it, it hears when it ends.
LEMMA MoveKeepsOffers ==
  ASSUME IInv, IInv', AgreeInv, OfferInv, connected, UNCHANGED clientVars, Releases,
         NEW k \in DOMAIN book, IsLive(book[k]),
         NEW status \in {"new", "rejected", "pending_cancel", "canceled", "done_for_day"},
         status # "done_for_day",
         Move(k, [book[k] EXCEPT !.status = status], status),
         user.pc = "accepted" /\ user.key = k =>
           status # "canceled" /\ (status = "rejected" => book[k].status = "pending_new")
  PROVE  OfferInv'
<1> DEFINE raw == [book[k] EXCEPT !.status = status]
<1>1. /\ raw \in BrokerOrder /\ SameInstruction(book[k], raw)
      /\ raw.filled_qty = book[k].filled_qty /\ raw.status = status
      /\ raw.qty = book[k].qty /\ raw.id = k /\ book[k].filled_qty \in Nat
  <2>1. status \in BrokerStatuses
    BY DEF BrokerStatuses, LiveStatuses
  <2>2. /\ book[k] \in BrokerOrder /\ book[k].id = k
        /\ book[k].filled_qty \in Nat /\ book[k].filled_qty <= book[k].qty
    BY BookFields, BrokerOrderFields DEF IInv
  <2> QED
    BY <2>1, <2>2, BrokerOrderMoved DEF BrokerOrder
<1>2. book' = [book EXCEPT ![k] = raw] /\ shares' = shares /\ executions' = executions
  BY DEF Move
<1>3. /\ InFlight' = InFlight
      /\ \E u \in Update(executions') :
           /\ queue' = Append(queue, u) /\ ~IsFillUpdate(u)
           /\ u.order = [book[k] EXCEPT !.status = status] /\ u.event = status
  BY MoveSent
<1> HIDE DEF raw
<1>4. /\ InFlight' = InFlight
      /\ \E u \in Update(executions') :
           queue' = Append(queue, u) /\ ~IsFillUpdate(u) /\ u.order = raw /\ u.event = status
  BY <1>3 DEF raw
<1>5. PICK u \in Update(executions') :
        queue' = Append(queue, u) /\ ~IsFillUpdate(u) /\ u.order = raw /\ u.event = status
  BY <1>4
<1>6. Agreed /\ HeardInv /\ AcceptedInv /\ daemon.pc = "stream"
  BY SubscribedInStep DEF AgreeInv
<1>7. Known(k)
  BY <1>6 DEF Agreed, LiveKnown
<1>8. ClientReady
  BY <1>6, TradedIsReady DEF IInv, ClientInv, DaemonInv
<1>9. /\ account' = account /\ orderIds' = orderIds /\ user' = user
      /\ book \in Seq(BrokerOrder) /\ DOMAIN book' = DOMAIN book
      /\ \A key \in DOMAIN book : book'[key] = IF key = k THEN raw ELSE book[key]
      /\ executions \in Nat /\ queue \in Seq(Update(executions))
  BY <1>2 DEF clientVars, IInv, BrokerInv
<1>10. \A key : /\ Known(key)' <=> Known(key)
                /\ Booked(key)' = Booked(key)
                /\ Filled(InFlight', key) = Filled(InFlight, key)
  BY <1>4, <1>9 DEF Known, Booked
<1>11. \A key \in DOMAIN book : book'[key].filled_qty = book[key].filled_qty
  BY <1>1, <1>9
<1>12. MarginInv'
  <2> DEFINE n == 0
  <2>1. \A symbol \in Symbols : shares[symbol] \in Int /\ shares'[symbol] = shares[symbol]
    BY <1>2 DEF IInv, BrokerInv
  <2>2. \A symbol \in Symbols :
          shares'[symbol] = shares[symbol]
            + (IF symbol # raw.symbol THEN 0 ELSE IF raw.side = "buy" THEN n ELSE 0 - n)
    BY <2>1
  <2>3. n \in Nat /\ raw.filled_qty = book[k].filled_qty + n
    BY <1>1
  <2> HIDE DEF n
  <2> QED
    BY <1>1, <1>2, <1>7, <1>8, <2>2, <2>3, BookMovesMargin DEF OfferInv
<1>13. BookedInv'
  BY <1>9, <1>10, <1>11 DEF OfferInv, BookedInv
<1>14. EndedInv'
  <2> SUFFICES ASSUME NEW key \in DOMAIN orderIds,
                      ~IsPromising(GetOrder(account.orders, orderIds[key]))
               PROVE  /\ Booked(key) = book'[key].filled_qty
                      /\ IsLive(book'[key]) => Remaining(book'[key]) = 0
    BY <1>9, <1>10 DEF EndedInv
  <2>1. /\ key \in DOMAIN book /\ Booked(key) = book[key].filled_qty
        /\ IsLive(book[key]) => Remaining(book[key]) = 0
    BY DEF OfferInv, EndedInv, IInv, ClientInv, Tracks
  <2>2. CASE key = k
    BY <1>1, <1>9, <2>1, <2>2 DEF Remaining
  <2>3. CASE key # k
    BY <1>9, <2>1, <2>3
  <2> QED
    BY <2>2, <2>3
<1>15. EndsInv'
  <2>1. queue \in Seq(Update(executions'))
    BY <1>2, <1>9
  <2>2. \A key : Ending(key) => Over(key)'
    <3> TAKE key
    <3> HAVE Ending(key)
    <3>1. key \in DOMAIN book /\ Over(key) /\ ~IsLive(book[key])
      BY <1>6, EndingOver DEF OfferInv
    <3>2. key # k
      BY <3>1
    <3> QED
      BY <1>9, <1>10, <3>1, <3>2, OverKept
  <2>3. Ends(u) => Over(u.order.id)'
    <3> HAVE Ends(u)
    <3>1. ~IsLive(raw)
      BY <1>1, <1>2, <1>5, <1>9, MoveEnds
    <3>2. Booked(k) + Filled(InFlight, k) = book[k].filled_qty
      <4>1. CASE k \in DOMAIN orderIds
        <5>1. /\ book[k].filled_qty = GetOrder(account.orders, orderIds[k]).filledQuantity
                                        + Filled(InFlight, k)
              /\ Booked(k) = GetOrder(account.orders, orderIds[k]).filledQuantity
          BY <1>6, <4>1 DEF Agreed, FillsAgree, Booked
        <5> QED
          BY <5>1
      <4>2. CASE k \notin DOMAIN orderIds
        <5>1. user.pc = "accepted" /\ user.key = k /\ Booked(k) = 0
          BY <1>7, <4>2 DEF Known, Booked
        <5>2. book[k].filled_qty = Filled(InFlight, k)
          BY <1>6, <5>1 DEF Agreed, FillsAgree
        <5> QED
          BY <1>1, <5>1, <5>2
      <4> QED
        BY <4>1, <4>2
    <3>3. book'[k] = raw /\ u.order.id = k
      BY <1>1, <1>5, <1>9
    <3>4. Over(k)'
      BY <1>1, <1>10, <3>1, <3>2, <3>3 DEF Over
    <3> QED
      BY <3>3, <3>4
  <2>4. u \notin InFlight' /\ InFlight' \subseteq InFlight \cup {u}
    BY <1>4, <1>5 DEF InFlight
  <2> QED
    BY <1>5, <2>1, <2>2, <2>3, <2>4, EndsAppended DEF OfferInv
<1>16. AnswerInv'
  <2> SUFFICES ASSUME user.pc = "accepted"
               PROVE  /\ book'[user.key].status # "canceled"
                      /\ book'[user.key].status \in {"pending_new", "rejected"} =>
                           book'[user.key].filled_qty = 0
    BY <1>9 DEF AnswerInv
  <2>1. /\ user.key \in DOMAIN book /\ book[user.key].status # "canceled"
        /\ book[user.key].status \in {"pending_new", "rejected"} =>
             book[user.key].filled_qty = 0
    BY DEF OfferInv, AnswerInv, IInv, ClientInv, UserInv
  <2>2. CASE user.key = k
    BY <1>1, <1>9, <2>1, <2>2
  <2>3. CASE user.key # k
    BY <1>9, <2>1, <2>3
  <2> QED
    BY <2>2, <2>3
<1>17. NoOversell' /\ CallCovered'
  BY <1>9, ReleasesCover DEF OfferInv, IInv, ClientInv
<1>18. \A key \in DOMAIN book' : book'[key].status # "done_for_day"
  BY <1>1, <1>9 DEF OfferInv
<1> QED
  BY <1>12, <1>13, <1>14, <1>15, <1>16, <1>17, <1>18 DEF OfferInv

\* An execution the client is told of: the broker's offer and holding change with it,
\* and so does what is in flight.
LEMMA ExecuteKeepsOffers ==
  ASSUME IInv, IInv', AgreeInv, OfferInv, connected, UNCHANGED clientVars, Releases,
         NEW k \in DOMAIN book, Execute(k)
  PROVE  OfferInv'
<1>1. PICK u \in Update(executions') :
        /\ IsLive(book[k])
        /\ IsFillUpdate(u) /\ u.execution_id = executions + 1 /\ u.qty > 0
        /\ SameInstruction(book[k], u.order)
        /\ u.order.filled_qty = book[k].filled_qty + u.qty
        /\ u.qty <= Remaining(book[k])
        /\ book' = [book EXCEPT ![k] = u.order]
        /\ shares' = [shares EXCEPT ![u.order.symbol] = shares[u.order.symbol] + Signed(u)]
        /\ executions' = executions + 1 /\ queue' = Append(queue, u)
        /\ u.order.status \in {"filled", "pending_cancel", "partially_filled"}
  BY Executed DEF IInv
<1> DEFINE raw == u.order
           n   == u.qty
<1>2. /\ account' = account /\ orderIds' = orderIds /\ user' = user
      /\ book \in Seq(BrokerOrder) /\ DOMAIN book' = DOMAIN book
      /\ \A key \in DOMAIN book : book'[key] = IF key = k THEN raw ELSE book[key]
      /\ executions \in Nat /\ executions' \in Nat /\ queue \in Seq(Update(executions))
      /\ shares \in [Symbols -> Int]
  BY <1>1 DEF clientVars, IInv, BrokerInv
<1>3. /\ raw \in BrokerOrder /\ raw.symbol \in Symbols /\ raw.side \in {"buy", "sell"}
      /\ n \in Nat /\ Signed(u) \in Int
  BY <1>2, UpdateFields
<1>4. /\ book[k].id = k /\ raw.id = k /\ book[k].filled_qty \in Nat /\ book[k].qty \in Nat
  BY <1>1, BookFields, BrokerOrderFields DEF IInv, SameInstruction
<1>5. Agreed /\ HeardInv /\ AcceptedInv /\ daemon.pc = "stream"
  BY SubscribedInStep DEF AgreeInv
<1>6. Known(k)
  BY <1>1, <1>5 DEF Agreed, LiveKnown
<1>7. ClientReady
  BY <1>5, TradedIsReady DEF IInv, ClientInv, DaemonInv
<1>8. /\ InFlight \in SUBSET Update(executions') /\ IsFiniteSet(InFlight)
      /\ u \notin InFlight /\ InFlight' = InFlight \cup {u}
  BY <1>1, ExecutionSent
<1>9. /\ \A key : Filled(InFlight', key)
                    = Filled(InFlight, key) + (IF k = key THEN n ELSE 0)
      /\ \A key : Filled(InFlight, key) \in Nat
  <2>1. \A key : Filled(InFlight \cup {u}, key)
                   = Filled(InFlight, key) + (IF u.order.id = key THEN u.qty ELSE 0)
    BY <1>2, <1>8, OneMoreInFlight
  <2>2. \A key : Filled(InFlight, key) \in Nat
    BY <1>2, <1>8, TotalsType
  <2> QED
    BY <1>4, <1>8, <2>1, <2>2
<1>10. \A key : /\ Known(key)' <=> Known(key)
                /\ Booked(key)' = Booked(key)
  BY <1>2 DEF Known, Booked
<1>11. MarginInv'
  <2>1. \A symbol \in Symbols :
          shares'[symbol] = shares[symbol] + (IF symbol # raw.symbol THEN 0 ELSE Signed(u))
    BY <1>1, <1>2, <1>3
  <2>2. Signed(u) = IF raw.side = "buy" THEN n ELSE 0 - n
    BY DEF Signed
  <2>3. \A symbol \in Symbols :
          shares'[symbol] = shares[symbol]
            + (IF symbol # raw.symbol THEN 0 ELSE IF raw.side = "buy" THEN n ELSE 0 - n)
    BY <2>1, <2>2
  <2>4. /\ SameInstruction(book[k], raw) /\ book' = [book EXCEPT ![k] = raw]
        /\ raw.filled_qty = book[k].filled_qty + n
    BY <1>1
  <2> HIDE DEF raw, n
  <2> QED
    BY <1>3, <1>6, <1>7, <2>3, <2>4, BookMovesMargin DEF OfferInv
<1>12. BookedInv'
  <2> SUFFICES ASSUME NEW key \in DOMAIN book, Known(key)
               PROVE  Booked(key) + Filled(InFlight', key) <= book'[key].filled_qty
    BY <1>2, <1>10 DEF BookedInv
  <2>1. Booked(key) + Filled(InFlight, key) <= book[key].filled_qty
    BY DEF OfferInv, BookedInv
  <2>2. Booked(key) \in Nat /\ Filled(InFlight, key) \in Nat
    BY <1>7, <1>9, SlackType
  <2>3. CASE key = k
    <3>1. book'[key].filled_qty = book[key].filled_qty + n
      BY <1>1, <1>2, <2>3
    <3>2. Filled(InFlight', key) = Filled(InFlight, key) + n
      BY <1>9, <2>3
    <3> HIDE DEF n
    <3> QED
      BY <1>3, <1>4, <2>1, <2>2, <2>3, <3>1, <3>2
  <2>4. CASE key # k
    <3>1. book'[key].filled_qty = book[key].filled_qty
      BY <1>2, <2>4
    <3>2. Filled(InFlight', key) = Filled(InFlight, key)
      BY <1>9, <2>2, <2>4
    <3> QED
      BY <2>1, <3>1, <3>2
  <2> QED
    BY <2>3, <2>4
<1>13. EndedInv'
  <2> SUFFICES ASSUME NEW key \in DOMAIN orderIds,
                      ~IsPromising(GetOrder(account.orders, orderIds[key]))
               PROVE  /\ Booked(key) = book'[key].filled_qty
                      /\ IsLive(book'[key]) => Remaining(book'[key]) = 0
    BY <1>2, <1>10 DEF EndedInv
  <2>1. /\ key \in DOMAIN book /\ Booked(key) = book[key].filled_qty
        /\ IsLive(book[key]) => Remaining(book[key]) = 0
    BY DEF OfferInv, EndedInv, IInv, ClientInv, Tracks
  <2>2. key # k
    BY <1>1, <1>3, <2>1
  <2> QED
    BY <1>2, <2>1, <2>2
<1>14. EndsInv'
  <2>1. queue \in Seq(Update(executions'))
    BY <1>1, <1>2, UpdatesGrow
  <2>2. \A key : Ending(key) => key # k
    BY <1>1, <1>5, EndingOver DEF OfferInv
  <2>3. \A key : Ending(key) => Over(key)'
    <3> TAKE key
    <3> HAVE Ending(key)
    <3>1. key \in DOMAIN book /\ Over(key) /\ ~IsLive(book[key]) /\ key # k
      BY <1>5, <2>2, EndingOver DEF OfferInv
    <3>2. Filled(InFlight', key) = Filled(InFlight, key)
      BY <1>9, <3>1
    <3>3. ~IsLive(book'[key]) /\ book'[key].filled_qty = book[key].filled_qty
      BY <1>2, <3>1
    <3> QED
      BY <1>10, <3>1, <3>2, <3>3, OverKept
  <2>4. ~Ends(u)
    BY <1>1 DEF Ends
  <2> QED
    BY <1>1, <1>4, <1>8, <2>1, <2>2, <2>3, <2>4, EndsAppended DEF OfferInv
<1>15. AnswerInv'
  <2> SUFFICES ASSUME user.pc = "accepted"
               PROVE  /\ book'[user.key].status # "canceled"
                      /\ book'[user.key].status \in {"pending_new", "rejected"} =>
                           book'[user.key].filled_qty = 0
    BY <1>2 DEF AnswerInv
  <2>1. /\ user.key \in DOMAIN book /\ book[user.key].status # "canceled"
        /\ book[user.key].status \in {"pending_new", "rejected"} =>
             book[user.key].filled_qty = 0
    BY DEF OfferInv, AnswerInv, IInv, ClientInv, UserInv
  <2>2. CASE user.key = k
    BY <1>1, <1>2, <2>1, <2>2
  <2>3. CASE user.key # k
    BY <1>2, <2>1, <2>3
  <2> QED
    BY <2>2, <2>3
<1>16. NoOversell' /\ CallCovered'
  BY <1>2, ReleasesCover DEF OfferInv, IInv, ClientInv
<1>17. \A key \in DOMAIN book' : book'[key].status # "done_for_day"
  BY <1>1, <1>2 DEF OfferInv
<1> QED
  BY <1>11, <1>12, <1>13, <1>14, <1>15, <1>16, <1>17 DEF OfferInv

\* The broker's moves, of an orderly broker, while the client listens.
LEMMA BrokerKeepsOffers ==
  ASSUME QuietBroker, OrderlyBroker, IInv, IInv', AgreeInv, OfferInv, BrokerMoves
  PROVE  OfferInv'
<1>1. connected /\ UNCHANGED clientVars /\ Releases
  BY BrokerMovesRelease DEF BrokerMoves, QuietBroker, Quiet, IInv
<1>2. PICK k \in DOMAIN book :
        \/ OpenOrder(k)
        \/ RejectOrder(k)
        \/ RequestCancel(k)
        \/ MayCancel(k) /\ CancelOrder(k)
        \/ Execute(k)
  BY DEF BrokerMoves, OrderlyBroker
<1>3. CASE OpenOrder(k)
  <2>1. IsLive(book[k]) /\ Move(k, [book[k] EXCEPT !.status = "new"], "new")
    BY <1>3 DEF OpenOrder, IsLive, LiveStatuses
  <2> QED
    BY <1>1, <2>1, MoveKeepsOffers
<1>4. CASE RejectOrder(k)
  <2>1. /\ IsLive(book[k]) /\ Move(k, [book[k] EXCEPT !.status = "rejected"], "rejected")
        /\ book[k].status = "pending_new"
    BY <1>4 DEF RejectOrder, IsLive, LiveStatuses
  <2> QED
    BY <1>1, <2>1, MoveKeepsOffers
<1>5. CASE RequestCancel(k)
  <2>1. /\ IsLive(book[k])
        /\ Move(k, [book[k] EXCEPT !.status = "pending_cancel"], "pending_cancel")
    BY <1>5 DEF RequestCancel, IsLive, LiveStatuses
  <2> QED
    BY <1>1, <2>1, MoveKeepsOffers
<1>6. CASE MayCancel(k) /\ CancelOrder(k)
  <2>1. /\ IsLive(book[k]) /\ Move(k, [book[k] EXCEPT !.status = "canceled"], "canceled")
        /\ user.key # k
    BY <1>6 DEF CancelOrder, MayCancel, OrderlyBroker
  <2> QED
    BY <1>1, <2>1, MoveKeepsOffers
<1>7. CASE Execute(k)
  BY <1>1, <1>7, ExecuteKeepsOffers
<1> QED
  BY <1>2, <1>3, <1>4, <1>5, <1>6, <1>7

-----------------------------------------------------------------------------
(* Steps that move nothing *)

\* A step that moves nothing, and puts nothing in flight.
LEMMA OffersStay ==
  ASSUME IInv, OfferInv, UNCHANGED << book, shares, account, orderIds >>,
         \A key \in DOMAIN book : Known(key)' <=> Known(key),
         InFlight' = InFlight \/ (ClientReady /\ InFlight' \subseteq InFlight),
         EndsInv', AnswerInv', CallCovered'
  PROVE  OfferInv'
<1>1. MarginInv'
  BY MarginStays DEF OfferInv
<1>2. \A key : Booked(key)' = Booked(key)
  BY DEF Booked
<1>3. BookedInv'
  <2> SUFFICES ASSUME NEW key \in DOMAIN book, Known(key)
               PROVE  Booked(key) + Filled(InFlight', key) <= book[key].filled_qty
    BY <1>2 DEF BookedInv
  <2>1. Booked(key) + Filled(InFlight, key) <= book[key].filled_qty
    BY DEF OfferInv, BookedInv
  <2>2. CASE InFlight' = InFlight
    BY <2>1, <2>2
  <2>3. CASE ClientReady /\ InFlight' \subseteq InFlight
    <3>1. Booked(key) \in Nat /\ book[key].filled_qty \in Nat
      BY <2>3, SlackType, BookFields, BrokerOrderFields DEF IInv
    <3>2. /\ InFlight \in SUBSET Update(executions) /\ IsFiniteSet(InFlight)
          /\ executions \in Nat
      BY InFlightType DEF IInv
    <3>3. InFlight' \in SUBSET Update(executions) /\ IsFiniteSet(InFlight')
      BY <2>3, <3>2, FS_Subset
    <3>4. Filled(InFlight', key) \in Nat /\ Filled(InFlight, key) \in Nat
      BY <3>2, <3>3, TotalsType
    <3>5. Filled(InFlight', key) <= Filled(InFlight, key)
      BY <2>3, <3>2, FilledFewer
    <3> QED
      BY <2>1, <3>1, <3>4, <3>5
  <2> QED
    BY <2>2, <2>3
<1>4. EndedInv'
  BY <1>2 DEF OfferInv, EndedInv
<1>5. NoOversell'
  BY SameNoOversell DEF OfferInv
<1> QED
  BY <1>1, <1>3, <1>4, <1>5 DEF OfferInv

\* What the callers are owed while nothing is moved.
LEMMA CallsStay ==
  ASSUME AnswerInv, CallCovered, UNCHANGED << book, shares, user >>
  PROVE  AnswerInv' /\ CallCovered'
BY DEF AnswerInv, CallCovered, Uncommitted

\* Nothing on its way ends anything.
LEMMA NothingEnds ==
  ASSUME queue' = <<>>
  PROVE  EndsInv' /\ InFlight' = {}
<1>1. DOMAIN queue' = {}
  OBVIOUS
<1> QED
  BY <1>1 DEF EndsInv, InFlight, Range

\* The stream drops its subscriber: what precedes an update that is not lost is not
\* lost either.
LEMMA DisconnectEnds ==
  ASSUME IInv, EndsInv, Disconnect, UNCHANGED << account, orderIds, seen >>
  PROVE  EndsInv' /\ InFlight' \subseteq InFlight
<1>1. PICK n \in 0 .. Len(queue) : queue' = SubSeq(queue, 1, n)
  BY DEF Disconnect
<1>2. queue \in Seq(Update(executions)) /\ Len(queue) \in Nat
  BY DEF IInv, BrokerInv
<1>3. /\ DOMAIN queue = 1 .. Len(queue) /\ DOMAIN queue' = 1 .. n /\ n \in Nat /\ n <= Len(queue)
      /\ \A i \in 1 .. n : queue'[i] = queue[i]
  BY <1>1, <1>2
<1>4. Range(queue') \subseteq Range(queue)
  BY <1>3 DEF Range
<1>5. InFlight' \subseteq InFlight
  BY <1>4 DEF InFlight, IsNewExecution
<1>6. ASSUME NEW i \in 1 .. n, Ends(queue[i]), NEW j \in 1 .. Len(queue),
             queue[j] \in InFlight, queue[j].order.id = queue[i].order.id
      PROVE  \E first \in 1 .. i - 1 : queue'[first] = queue[j]
  <2>1. \E first \in 1 .. i - 1 : queue[first] = queue[j]
    BY <1>3, <1>6 DEF EndsInv
  <2> QED
    BY <1>3, <2>1
<1>7. ASSUME NEW i \in 1 .. n, Ends(queue[i]), NEW key, key = queue[i].order.id
      PROVE  Over(key)'
  <2>1. Over(key)
    BY <1>3, <1>7 DEF EndsInv
  <2>2. \A u \in InFlight \ InFlight' : u.order.id # key
    <3> SUFFICES ASSUME NEW u \in InFlight, u.order.id = key PROVE u \in InFlight'
      OBVIOUS
    <3>1. PICK j \in DOMAIN queue : queue[j] = u
      BY DEF InFlight, Range
    <3>2. PICK first \in 1 .. i - 1 : queue'[first] = u
      BY <1>3, <1>6, <1>7, <3>1
    <3>3. u \in Range(queue')
      BY <1>3, <3>2 DEF Range
    <3> QED
      BY <3>3 DEF InFlight, IsNewExecution
  <2>3. /\ InFlight \in SUBSET Update(executions) /\ IsFiniteSet(InFlight)
        /\ executions \in Nat
    BY InFlightType DEF IInv
  <2>4. Filled(InFlight', key) = Filled(InFlight, key)
    BY <1>5, <2>2, <2>3, FilledFewer
  <2>5. book' = book /\ Booked(key)' = Booked(key)
    BY DEF Disconnect, Booked
  <2> QED
    BY <2>1, <2>4, <2>5 DEF Over
<1>8. EndsInv'
  <2>1. ASSUME NEW i \in DOMAIN queue', Ends(queue'[i])
        PROVE  Over(queue[i].order.id)'
    <3>1. \A key : key = queue'[i].order.id => Over(key)'
      BY <1>3, <1>7, <2>1
    <3> QED
      BY <3>1 DEF Over, Booked
  <2>2. ASSUME NEW i \in DOMAIN queue', Ends(queue'[i]), NEW j \in DOMAIN queue',
               queue'[j] \in InFlight', queue'[j].order.id = queue'[i].order.id
        PROVE  \E first \in 1 .. i - 1 : queue'[first] = queue'[j]
    BY <1>3, <1>5, <1>6, <2>2
  <2> QED
    BY <2>1, <2>2 DEF EndsInv
<1> QED
  BY <1>5, <1>8

\* An update is repeated after all others.
LEMMA DuplicateEnds ==
  ASSUME IInv, HeardInv, EndsInv, Duplicate, UNCHANGED << account, orderIds, seen >>
  PROVE  EndsInv' /\ InFlight' = InFlight
<1>1. PICK i \in DOMAIN queue : queue' = Append(queue, queue[i])
  BY DEF Duplicate
<1>2. queue \in Seq(Update(executions)) /\ queue[i] \in Update(executions) /\ book' = book
  BY DEF IInv, BrokerInv, Duplicate
<1>3. Range(queue') = Range(queue)
  BY <1>2, FaultyElements
<1>4. InFlight' = InFlight
  BY <1>3 DEF InFlight, IsNewExecution
<1>5. \A key : Ending(key) => Over(key)'
  <2> TAKE key
  <2> HAVE Ending(key)
  <2>1. Over(key) /\ ~IsLive(book[key])
    BY EndingOver
  <2>2. Booked(key)' = Booked(key)
    BY DEF Booked
  <2> QED
    BY <1>2, <1>4, <2>1, <2>2 DEF Over
<1>6. ASSUME NEW u, u = queue[i]
      PROVE  EndsInv'
  <2>1. queue' = Append(queue, u) /\ u \in Update(executions)
    BY <1>1, <1>2, <1>6
  <2>2. Ends(u) => Over(u.order.id)'
    <3> HAVE Ends(u)
    <3>1. Ending(u.order.id)
      BY <1>6 DEF Ending
    <3> QED
      BY <1>5, <3>1
  <2>3. InFlight' \subseteq InFlight \cup {u} /\ (u \in InFlight' => u \in InFlight)
    BY <1>4
  <2> QED
    BY <1>2, <1>5, <2>1, <2>2, <2>3, EndsAppended
<1> QED
  BY <1>4, <1>6

\* A stream that keeps its order is lost, or repeats an update.
LEMMA StreamFaultKeepsOffers ==
  ASSUME OrderlyBroker, IInv, AgreeInv, OfferInv, StreamFault
  PROVE  OfferInv'
<1>1. connected /\ UNCHANGED clientVars /\ (Disconnect \/ Duplicate)
  BY DEF StreamFault, Fault, OrderlyBroker
<1>2. /\ UNCHANGED << book, shares, account, orderIds, seen, user >>
  BY <1>1 DEF clientVars, Disconnect, Duplicate
<1>3. ClientReady
  <2>1. daemon.pc = "stream"
    BY <1>1, SubscribedInStep
  <2> QED
    BY <2>1, TradedIsReady DEF IInv, ClientInv, DaemonInv
<1>4. EndsInv' /\ InFlight' \subseteq InFlight
  BY <1>1, <1>2, DisconnectEnds, DuplicateEnds DEF AgreeInv, OfferInv
<1>5. \A key \in DOMAIN book : Known(key)' <=> Known(key)
  BY <1>2 DEF Known
<1>6. AnswerInv' /\ CallCovered'
  BY <1>2, CallsStay DEF OfferInv
<1> QED
  BY <1>2, <1>3, <1>4, <1>5, <1>6, OffersStay

-----------------------------------------------------------------------------
(* Submissions, and their answers *)

\* A call that begins asks for no more than the broker has left.
LEMMA SubmitKeepsOffers ==
  ASSUME IInv, IInv', OfferInv, NEW request, Submit(request)
  PROVE  OfferInv'
<1> DEFINE order == NativeOrder(request)
<1>1. /\ ClientReady /\ user.pc = "idle" /\ PassesClientChecks(request)
      /\ order.side = "sell" => order.qty <= AvailableToSell(order.symbol)
      /\ user' = [pc |-> "calling", request |-> request, key |-> 0]
      /\ UNCHANGED << book, shares, account, orderIds, seen, queue >>
  BY DEF Submit, CallerHoldsLock, brokerVars, stateVars
<1>2. user'.pc = "calling" /\ user'.request = request
  BY <1>1
<1>3. order.symbol \in Symbols /\ order.qty \in Nat
  <2> DEFINE raw == NewOrder(1, order, "new")
  <2>1. request \in CallerRequest
    BY <1>2 DEF IInv, ClientInv, UserInv
  <2>2. raw \in BrokerOrder
    BY <1>1, <2>1, NewOrderIsBrokerOrder DEF BrokerStatuses, LiveStatuses
  <2>3. raw.symbol = order.symbol /\ raw.qty = order.qty
    BY DEF NewOrder
  <2> HIDE DEF raw, order
  <2> QED
    BY <2>2, <2>3, BrokerOrderFields
<1> HIDE DEF order
<1>4. CallCovered'
  <2> SUFFICES ASSUME order.side = "sell"
               PROVE  order.qty <= Uncommitted(order.symbol)
    BY <1>1, <1>2 DEF CallCovered, Uncommitted, order
  <2>1. /\ AvailableToSell(order.symbol) \in Int
        /\ AvailableToSell(order.symbol) <= Uncommitted(order.symbol)
    BY <1>1, <1>3, OffersCovered DEF OfferInv
  <2>2. Uncommitted(order.symbol) \in Int
    BY <1>3, CommittedInBook DEF IInv
  <2> QED
    BY <1>1, <1>3, <2>1, <2>2
<1>5. AnswerInv' /\ \A key : Known(key)' <=> Known(key)
  BY <1>1, <1>2 DEF AnswerInv, Known
<1>6. InFlight' = InFlight
  BY <1>1 DEF InFlight, IsNewExecution
<1>7. EndsInv'
  BY <1>1, <1>6 DEF OfferInv, EndsInv, Over, Booked
<1> QED
  BY <1>1, <1>4, <1>5, <1>6, <1>7, OffersStay

\* A call the broker refuses leaves everything as it was.
LEMMA RefusalKeepsOffers ==
  ASSUME IInv, OfferInv, BrokerRefuses
  PROVE  OfferInv'
<1>1. /\ user.pc = "calling" /\ user'.pc = "idle"
      /\ UNCHANGED << book, shares, account, orderIds, seen, queue >>
  BY DEF BrokerRefuses, Idle, brokerVars, stateVars
<1>2. AnswerInv' /\ CallCovered' /\ \A key : Known(key)' <=> Known(key)
  BY <1>1 DEF AnswerInv, CallCovered, Known
<1>3. InFlight' = InFlight
  BY <1>1 DEF InFlight, IsNewExecution
<1>4. EndsInv'
  BY <1>1, <1>3 DEF OfferInv, EndsInv, Over, Booked
<1> QED
  BY <1>1, <1>2, <1>3, <1>4, OffersStay

\* The broker takes what is covered; nothing of the new order is filled or heard yet.
LEMMA AcceptanceKeepsOffers ==
  ASSUME IInv, IInv', AgreeInv, OfferInv, BrokerAccepts
  PROVE  OfferInv'
<1> DEFINE asked == NativeOrder(user.request)
           raw   == NewOrder(Len(book) + 1, asked, "pending_new")
<1>1. /\ user.pc = "calling" /\ book' = Append(book, raw)
      /\ user' = [user EXCEPT !.pc = "accepted", !.key = Len(book')]
      /\ UNCHANGED << shares, executions, connected, queue >>
      /\ UNCHANGED << account, orderIds, seen, daemon >>
  BY DEF BrokerAccepts, EnterOrder, stateVars
<1>2. /\ user.request \in CallerRequest /\ PassesClientChecks(user.request)
      /\ ClientReady
  BY <1>1, TradedIsReady DEF IInv, ClientInv, UserInv
<1>3. PICK n \in Nat, k \in Nat : n = Len(book) /\ k = n + 1
  BY DEF IInv, BrokerInv
<1>4. book \in Seq(BrokerOrder) /\ book' \in Seq(BrokerOrder)
  BY DEF IInv, BrokerInv
<1>5. raw \in BrokerOrder
  BY <1>2, <1>3, NewOrderIsBrokerOrder DEF BrokerStatuses, LiveStatuses
<1>6. /\ raw.side = asked.side /\ raw.qty = asked.qty /\ raw.symbol = asked.symbol
      /\ raw.filled_qty = 0 /\ raw.status = "pending_new"
  BY DEF NewOrder
<1>7. CallCovered => (asked.side = "sell" => asked.qty <= Uncommitted(asked.symbol))
  BY <1>1 DEF CallCovered
<1> HIDE DEF raw, asked
<1>8. /\ k = Len(book') /\ k \notin DOMAIN book /\ DOMAIN book' = DOMAIN book \cup {k}
      /\ book'[k] = raw /\ \A i \in DOMAIN book : book'[i] = book[i]
  BY <1>1, <1>3, <1>4, <1>5
<1>9. user'.pc = "accepted" /\ user'.key = k
  BY <1>1, <1>8 DEF IInv, ClientInv, UserInv
<1>10. k \notin DOMAIN orderIds /\ DOMAIN orderIds \subseteq DOMAIN book
  BY <1>8 DEF IInv, ClientInv, Tracks
<1>11. /\ InFlight' = InFlight /\ \A u \in InFlight : u.order.id \in DOMAIN book
       /\ InFlight \in SUBSET Update(executions) /\ IsFiniteSet(InFlight)
       /\ executions \in Nat
  <2>1. InFlight' = InFlight
    BY <1>1 DEF InFlight, IsNewExecution
  <2>2. /\ InFlight \in SUBSET Update(executions) /\ IsFiniteSet(InFlight)
        /\ executions \in Nat /\ \A u \in InFlight : u \in Range(queue)
    BY InFlightType DEF IInv
  <2> QED
    BY <2>1, <2>2 DEF AgreeInv, HeardInv, IsCopy
<1>12. /\ \A key : Booked(key)' = Booked(key)
       /\ \A key, symbol : PromisedOf(key, symbol)' = PromisedOf(key, symbol)
       /\ \A key \in DOMAIN book : Known(key)' <=> Known(key)
       /\ Known(k)' /\ Booked(k) = 0 /\ \A symbol : PromisedOf(k, symbol) = 0
  <2>1. \A key : Booked(key)' = Booked(key)
    BY <1>1 DEF Booked
  <2>2. \A key, symbol : PromisedOf(key, symbol)' = PromisedOf(key, symbol)
    BY <1>1 DEF PromisedOf
  <2>3. \A key \in DOMAIN book : Known(key)' <=> Known(key)
    BY <1>1, <1>8, <1>9 DEF Known
  <2>4. Known(k)' /\ Booked(k) = 0 /\ \A symbol : PromisedOf(k, symbol) = 0
    BY <1>9, <1>10 DEF Known, Booked, PromisedOf
  <2> QED
    BY <2>1, <2>2, <2>3, <2>4
<1>13. ASSUME NEW symbol \in Symbols
       PROVE  /\ Offer(raw, symbol) \in Nat /\ Uncommitted(symbol) \in Int
              /\ Uncommitted(symbol)' = Uncommitted(symbol) - Offer(raw, symbol)
  <2>1. Committed(book', symbol) = Committed(book, symbol) + Offer(raw, symbol)
    BY <1>1, <1>4, <1>5, CommittedAppended
  <2>2. /\ Committed(book, symbol) \in Int /\ shares[symbol] \in Int
        /\ Uncommitted(symbol) = shares[symbol] - Committed(book, symbol)
        /\ Uncommitted(symbol)' = shares[symbol] - Committed(book', symbol)
    BY <1>1, CommittedInBook DEF IInv, Uncommitted
  <2>3. Offer(raw, symbol) \in Nat
    BY <1>5, OfferIsNumber
  <2> QED
    BY <2>1, <2>2, <2>3
<1>14. MarginInv'
  <2>1. ASSUME NEW symbol \in Symbols
        PROVE  /\ Slack(k, symbol)' \in Int
               /\ Margin(symbol)' = Margin(symbol) + Slack(k, symbol)'
               /\ \A key \in DOMAIN book : Slack(key, symbol)' = Slack(key, symbol)
    <3>1. Slack(k, symbol)' = 0 - Offer(raw, symbol)
      <4>1. PromisedOf(k, symbol)' = 0 /\ Booked(k)' = 0
        BY <1>12
      <4>2. Unbooked(k, symbol)' = 0
        BY <1>6, <1>8, <4>1 DEF Unbooked
      <4>3. Slack(k, symbol)' = PromisedOf(k, symbol)' - Offer(raw, symbol) + Unbooked(k, symbol)'
        BY <1>8, <1>12 DEF Slack
      <4>4. Offer(raw, symbol) \in Nat
        BY <1>13
      <4> QED
        BY <4>1, <4>2, <4>3, <4>4
    <3>2. AvailableToSell(symbol)' = AvailableToSell(symbol) /\ AvailableToSell(symbol) \in Int
      <4>1. AvailableToSell(symbol)' = AvailableToSell(symbol)
        BY <1>1 DEF AvailableToSell, Reserved
      <4> QED
        BY <1>2, <4>1, AvailableType
    <3>3. Margin(symbol)' = Margin(symbol) - Offer(raw, symbol)
      BY <1>13, <3>2 DEF Margin
    <3>4. Margin(symbol) \in Int /\ Offer(raw, symbol) \in Nat
      BY <1>13, <3>2 DEF Margin
    <3>5. ASSUME NEW key \in DOMAIN book
          PROVE  Slack(key, symbol)' = Slack(key, symbol)
      BY <1>8, <1>12, SlackSame
    <3> QED
      BY <3>1, <3>3, <3>4, <3>5
  <2>2. /\ k = n + 1 /\ n = Len(book) /\ Len(book') = k
    BY <1>3, <1>8
  <2> QED
    BY <1>2, <1>4, <2>1, <2>2, MarginGrows DEF OfferInv
<1>15. BookedInv'
  <2> SUFFICES ASSUME NEW key \in DOMAIN book', Known(key)'
               PROVE  Booked(key) + Filled(InFlight, key) <= book'[key].filled_qty
    BY <1>11, <1>12 DEF BookedInv
  <2>1. CASE key = k
    <3>1. Filled(InFlight, key) = 0
      BY <1>8, <1>11, <2>1, NothingFilled
    <3> QED
      BY <1>6, <1>8, <1>12, <2>1, <3>1
  <2>2. CASE key \in DOMAIN book
    BY <1>8, <1>12, <2>2 DEF OfferInv, BookedInv
  <2> QED
    BY <1>8, <2>1, <2>2
<1>16. EndedInv'
  BY <1>1, <1>8, <1>10, <1>12 DEF OfferInv, EndedInv
<1>17. EndsInv'
  <2>1. ASSUME NEW i \in DOMAIN queue, Ends(queue[i]), NEW key, key = queue[i].order.id
        PROVE  Over(key)'
    <3>1. Ending(key)
      BY <2>1 DEF Ending
    <3>2. key \in DOMAIN book /\ Over(key)
      BY <3>1, EndingOver DEF AgreeInv, OfferInv
    <3> QED
      BY <1>8, <1>11, <1>12, <3>2 DEF Over
  <2>2. ASSUME NEW i \in DOMAIN queue, Ends(queue[i])
        PROVE  Over(queue[i].order.id)'
    <3>1. \A key : key = queue[i].order.id => Over(key)'
      BY <2>1, <2>2
    <3> QED
      BY <1>1, <3>1 DEF Over, Booked
  <2> QED
    BY <1>1, <1>11, <2>2 DEF OfferInv, EndsInv
<1>18. AnswerInv' /\ CallCovered'
  BY <1>6, <1>8, <1>9 DEF AnswerInv, CallCovered
<1>19. NoOversell'
  <2> SUFFICES ASSUME NEW symbol \in Symbols PROVE Uncommitted(symbol)' >= 0
    BY DEF NoOversell
  <2>1. /\ Offer(raw, symbol) \in Nat /\ Uncommitted(symbol) \in Int
        /\ Uncommitted(symbol)' = Uncommitted(symbol) - Offer(raw, symbol)
    BY <1>13
  <2>2. Uncommitted(symbol) >= 0
    BY DEF OfferInv, NoOversell
  <2>3. raw.qty \in Nat
    BY <1>5, BrokerOrderFields
  <2>4. Offer(raw, symbol) = 0
          \/ (asked.side = "sell" /\ asked.symbol = symbol /\ Offer(raw, symbol) = asked.qty)
    BY <1>6, <2>3 DEF Offer, Remaining
  <2>5. Offer(raw, symbol) <= Uncommitted(symbol)
    BY <1>7, <2>1, <2>2, <2>4 DEF OfferInv
  <2> QED
    BY <2>1, <2>5
<1>20. \A key \in DOMAIN book' : book'[key].status # "done_for_day"
  BY <1>6, <1>8 DEF OfferInv
<1> QED
  BY <1>14, <1>15, <1>16, <1>17, <1>18, <1>19, <1>20 DEF OfferInv

\* A status change moves one order, and the promise with it.
LEMMA StatusMoves ==
  ASSUME NEW acct, TradedAccount(acct), NEW id, ExistsOrder(acct.orders, id),
         NEW status \in PythonStatus,
         \/ IsStaleStatus(GetOrder(acct.orders, id).status, status)
         \/ CanSetAccountOrderStatus(acct, id, ToDafnyOrderStatus[status])
  PROVE  LET after == ApplyStatus(acct, id, status)
             old   == GetOrder(acct.orders, id)
             new   == GetOrder(after.orders, id)
         IN  /\ after.positions = acct.positions
             /\ \A other : other # id /\ ExistsOrder(acct.orders, other) =>
                  GetOrder(after.orders, other) = GetOrder(acct.orders, other)
             /\ new.filledQuantity = old.filledQuantity
             /\ new = old \/ new.status = ToDafnyOrderStatus[status]
             /\ \A symbol :
                  /\ Promise(old, symbol) \in Int /\ Promise(new, symbol) \in Int
                  /\ Promised(after.orders, symbol)
                       = Promised(acct.orders, symbol)
                           - Promise(old, symbol) + Promise(new, symbol)
<1> DEFINE old     == GetOrder(acct.orders, id)
           state   == ToDafnyOrderStatus[status]
           updated == SetStatus(old, state)
           after   == ApplyStatus(acct, id, status)
           new     == GetOrder(after.orders, id)
<1>1. /\ GoodAccount(acct) /\ acct.orders \in Seq(Order) /\ IsValidOrderSet(acct.orders)
      /\ state \in OrderStatus
  BY FieldsOfAccount DEF TradedAccount, PythonStatus, ToDafnyOrderStatus, OrderStatus
<1>2. old \in Order
  BY <1>1, OrderFound DEF GetOrder
<1>3. \A symbol : /\ Promise(old, symbol) \in Int
                  /\ Promised(acct.orders, symbol) \in Int
  BY <1>1, <1>2, PromiseIsNumber, PromisedType
<1>4. CASE IsStaleStatus(old.status, status)
  <2>1. ApplyStatus(acct, id, status) = acct
    BY <1>4 DEF ApplyStatus
  <2>2. \A symbol : Promised(acct.orders, symbol)
                      = Promised(acct.orders, symbol) - Promise(old, symbol) + Promise(old, symbol)
    BY <1>3
  <2> QED
    BY <1>3, <2>1, <2>2
<1>5. CASE ~IsStaleStatus(old.status, status)
  <2>1. CanSetAccountOrderStatus(acct, id, state) /\ after = SetOrderStatusCore(acct, id, state)
    BY <1>5 DEF ApplyStatus
  <2> HIDE DEF state
  <2>2. /\ old.orderId = id /\ CanSetOrderStatus(old, state)
        /\ updated \in Order /\ updated.orderId = id
        /\ after.orders = UpdateOrder(acct.orders, updated)
        /\ after.positions = acct.positions
    BY <1>1, <2>1, SetOrderStatusGood
  <2>3. /\ updated.filledQuantity = old.filledQuantity /\ IsValidOrder(updated)
        /\ updated.status = state
    BY <1>1, <1>2, <2>2, SetStatusSound
  <2> HIDE DEF updated, after, old
  <2>4. ASSUME NEW other, ExistsOrder(acct.orders, other)
        PROVE  GetOrder(after.orders, other)
                 = IF other = id THEN updated ELSE GetOrder(acct.orders, other)
    <3>1. GetOrder(after.orders, other)
            = IF other = updated.orderId THEN updated ELSE GetOrder(acct.orders, other)
      BY <1>1, <2>2, <2>3, <2>4, OrderReplaced
    <3> QED
      BY <2>2, <3>1
  <2>5. new = updated
    BY <2>4
  <2>6. GetOrder(acct.orders, updated.orderId) = old
    BY <2>2 DEF old
  <2>7. \A symbol : /\ Promise(updated, symbol) \in Int
                    /\ Promised(after.orders, symbol)
                         = Promised(acct.orders, symbol)
                             - Promise(old, symbol) + Promise(updated, symbol)
    BY <1>1, <2>2, <2>6, PromiseIsNumber, PromisedReplaced
  <2> HIDE DEF new
  <2> QED
    BY <1>3, <2>2, <2>3, <2>4, <2>5, <2>7 DEF old, after, new, state
<1> QED
  BY <1>4, <1>5

\* What the answer places: the others stay, and it promises all of its quantity
\* unless the answer says that it has ended.
LEMMA OrderTrackedAs ==
  ASSUME IInv, CallPlaceable, NEW status \in FirstStatus, Register(status)
  PROVE  \E id :
           LET new == GetOrder(account'.orders, id)
           IN  /\ orderIds' = [key \in DOMAIN orderIds \cup {user.key} |->
                                 IF key = user.key THEN id ELSE orderIds[key]]
               /\ account'.positions = account.positions
               /\ \A key \in DOMAIN orderIds :
                    GetOrder(account'.orders, orderIds[key]) = GetOrder(account.orders, orderIds[key])
               /\ new.filledQuantity = 0
               /\ IsPromising(new) \/ GetOrderStatus(book[user.key]) \in {"cancelled", "rejected"}
               /\ \A symbol :
                    /\ Promise(new, symbol) \in Int
                    /\ Promised(account'.orders, symbol)
                         = Promised(account.orders, symbol) + Promise(new, symbol)
<1> DEFINE raw    == book[user.key]
           id     == NextOrderId(account.orders)
           order  == ToVQCOrder(raw, id, 0, "pending")
           placed == PlaceOrderCore(account, order)
           new    == GetOrder(account'.orders, id)
<1>1. user.pc = "accepted"
  BY DEF Register
<1>2. /\ TradedAccount(account) /\ user.key \in DOMAIN book /\ raw \in BrokerOrder
      /\ Tracks(orderIds, account, book) /\ Placeable(raw)
  BY <1>1, BookFields DEF IInv, ClientInv, UserInv, CallPlaceable
<1>3. CanPlaceOrder(account, order)
  BY <1>2, PlaceableIsPlaced
<1>4. /\ account' = IF ResponseStatusApplies(status)
                    THEN ApplyStatus(placed, id, status) ELSE placed
      /\ orderIds' = [key \in DOMAIN orderIds \cup {user.key} |->
                        IF key = user.key THEN id ELSE orderIds[key]]
  BY <1>3 DEF Register
<1>5. /\ TradedAccount(placed) /\ ExistsOrder(placed.orders, id)
      /\ GetOrder(placed.orders, id) = order
      /\ ~ExistsOrder(account.orders, id)
  BY <1>2, <1>3, PlacedOrder
<1>6. /\ order.status = "Pending" /\ order.filledQuantity = 0 /\ IsValidOrder(order)
      /\ ~ExistsOrder(account.orders, order.orderId)
  BY <1>3 DEF CanPlaceOrder
<1>7. status \in PythonStatus
  BY <1>2, FirstStatusKnown
<1>8. order \in Order
  BY <1>2, NextOrderIdFresh, OrderConverted, FieldsOfAccount DEF TradedAccount, PythonStatus
<1>9. account.orders \in Seq(Order) /\ IsValidOrderSet(account.orders)
  BY <1>2, FieldsOfAccount DEF TradedAccount
<1>10. placed.orders = Append(account.orders, order) /\ placed.positions = account.positions
  BY DEF PlaceOrderCore
<1> HIDE DEF placed, order, id, raw, new
<1>11. /\ \A key : ExistsOrder(account.orders, key) =>
            GetOrder(placed.orders, key) = GetOrder(account.orders, key)
       /\ \A symbol : /\ Promise(order, symbol) \in Int
                      /\ Promised(account.orders, symbol) \in Int
                      /\ Promised(placed.orders, symbol)
                           = Promised(account.orders, symbol) + Promise(order, symbol)
  BY <1>6, <1>8, <1>9, <1>10, OrderBefore, PromisedAppended, PromiseIsNumber, PromisedType, ZenonT(60)
<1>12. \A key \in DOMAIN orderIds : /\ ExistsOrder(account.orders, orderIds[key])
                                    /\ ExistsOrder(placed.orders, orderIds[key])
                                    /\ orderIds[key] # id
  <2>1. Keeps(account.orders, placed.orders)
    BY <1>2, <1>3, PlacedOrder DEF placed, order, id, raw
  <2> QED
    BY <1>2, <1>5, <2>1 DEF Tracks, Keeps
<1>13. CASE ~ResponseStatusApplies(status)
  <2>1. account' = placed /\ new = order
    BY <1>4, <1>5, <1>13 DEF new
  <2> QED
    BY <1>4, <1>6, <1>10, <1>11, <1>12, <2>1 DEF IsPromising, new
<1>14. CASE ResponseStatusApplies(status)
  <2>1. CanSetAccountOrderStatus(placed, id, ToDafnyOrderStatus[status])
    BY <1>5, <1>6, <1>7, <1>14, ResponseApplies
  <2>2. account' = ApplyStatus(placed, id, status)
    BY <1>4, <1>14
  <2>3. /\ account'.positions = placed.positions
        /\ \A other : other # id /\ ExistsOrder(placed.orders, other) =>
             GetOrder(account'.orders, other) = GetOrder(placed.orders, other)
        /\ new.filledQuantity = order.filledQuantity
        /\ new = order \/ new.status = ToDafnyOrderStatus[status]
        /\ \A symbol :
             /\ Promise(new, symbol) \in Int
             /\ Promised(account'.orders, symbol)
                  = Promised(placed.orders, symbol)
                      - Promise(order, symbol) + Promise(new, symbol)
    <3> DEFINE after == ApplyStatus(placed, id, status)
               moved == GetOrder(after.orders, id)
    <3>1. /\ after.positions = placed.positions
          /\ \A other : other # id /\ ExistsOrder(placed.orders, other) =>
               GetOrder(after.orders, other) = GetOrder(placed.orders, other)
          /\ moved.filledQuantity = GetOrder(placed.orders, id).filledQuantity
          /\ moved = GetOrder(placed.orders, id) \/ moved.status = ToDafnyOrderStatus[status]
          /\ \A symbol :
               /\ Promise(GetOrder(placed.orders, id), symbol) \in Int
               /\ Promise(moved, symbol) \in Int
               /\ Promised(after.orders, symbol)
                    = Promised(placed.orders, symbol)
                        - Promise(GetOrder(placed.orders, id), symbol) + Promise(moved, symbol)
      <4>1. \/ IsStaleStatus(GetOrder(placed.orders, id).status, status)
            \/ CanSetAccountOrderStatus(placed, id, ToDafnyOrderStatus[status])
        BY <2>1
      <4>2. TradedAccount(placed) /\ ExistsOrder(placed.orders, id)
        BY <1>5
      <4> QED
        BY ONLY <1>7, <4>1, <4>2, StatusMoves, SMTT(30)
    <3>2. after = account' /\ moved = new
      BY <2>2 DEF new
    <3> HIDE DEF after, moved
    <3> QED
      BY <1>5, <3>1, <3>2
  <2>4. status = GetOrderStatus(raw) /\ status \in PythonStatus
    BY <1>7, <1>14 DEF FirstStatus, ResponseStatusApplies, raw
  <2>5. IsPromising(new) \/ GetOrderStatus(raw) \in {"cancelled", "rejected"}
    BY <1>6, <1>14, <2>3, <2>4 DEF ResponseStatusApplies, PythonStatus, ToDafnyOrderStatus,
       IsPromising
  <2>6. \A symbol : Promised(account'.orders, symbol)
                      = Promised(account.orders, symbol) + Promise(new, symbol)
    BY <1>11, <2>3
  <2> QED
    BY <1>4, <1>6, <1>10, <1>11, <1>12, <2>3, <2>5, <2>6 DEF new, raw
<1> QED
  BY <1>13, <1>14

\* The account of an order the answer places is in step with the broker's record: it
\* promises what is left of it, or it has ended there too.
LEMMA TrackKeepsOffers ==
  ASSUME IInv, IInv', CallPlaceable, AgreeInv, OfferInv,
         NEW status \in FirstStatus, Register(status)
  PROVE  OfferInv'
<1>1. /\ user.pc = "accepted" /\ user' = Idle
      /\ UNCHANGED << book, shares, cash, executions, connected, queue, seen, daemon >>
  BY DEF Register, brokerVars
<1>2. PICK k \in DOMAIN book : k = user.key
  BY <1>1 DEF IInv, ClientInv, UserInv
<1>3. PICK id :
        LET new == GetOrder(account'.orders, id)
        IN  /\ orderIds' = [key \in DOMAIN orderIds \cup {user.key} |->
                              IF key = user.key THEN id ELSE orderIds[key]]
            /\ account'.positions = account.positions
            /\ \A key \in DOMAIN orderIds :
                 GetOrder(account'.orders, orderIds[key]) = GetOrder(account.orders, orderIds[key])
            /\ new.filledQuantity = 0
            /\ IsPromising(new) \/ GetOrderStatus(book[user.key]) \in {"cancelled", "rejected"}
            /\ \A symbol :
                 /\ Promise(new, symbol) \in Int
                 /\ Promised(account'.orders, symbol)
                      = Promised(account.orders, symbol) + Promise(new, symbol)
  BY OrderTrackedAs
<1> DEFINE new == GetOrder(account'.orders, id)
<1>4. k \notin DOMAIN orderIds /\ Known(k)
  BY <1>1, <1>2 DEF AgreeInv, AcceptedInv, Known
<1>5. /\ DOMAIN orderIds' = DOMAIN orderIds \cup {k} /\ orderIds'[k] = id
      /\ \A key \in DOMAIN orderIds : orderIds'[key] = orderIds[key]
  BY <1>2, <1>3, <1>4
<1>6. user'.pc = "idle"
  BY <1>1 DEF Idle
<1>7. /\ ClientReady /\ ClientReady'
  <2>1. TradedAccount(account) /\ TradedAccount(account')
    BY OrderTracked
  <2>2. ClientReady
    BY <2>1, TradedIsReady
  <2>3. account' # NoAccount
    BY <2>1, TradedIsAccount
  <2> QED
    BY <2>2, <2>3 DEF ClientReady
<1>8. InFlight' = InFlight
  BY <1>1 DEF InFlight, IsNewExecution
<1>9. \A key : Known(key)' <=> Known(key)
  BY <1>1, <1>2, <1>5, <1>6 DEF Known
<1>10. /\ \A key : Booked(key)' = Booked(key)
       /\ Booked(k) = 0
       /\ \A key, symbol : key # k => PromisedOf(key, symbol)' = PromisedOf(key, symbol)
       /\ \A symbol : PromisedOf(k, symbol)' = Promise(new, symbol) /\ PromisedOf(k, symbol) = 0
  <2>1. Booked(k) = 0 /\ Booked(k)' = 0
    BY <1>3, <1>4, <1>5 DEF Booked
  <2>2. \A key : key # k => Booked(key)' = Booked(key)
    BY <1>3, <1>5 DEF Booked
  <2>3. \A key, symbol : key # k => PromisedOf(key, symbol)' = PromisedOf(key, symbol)
    BY <1>3, <1>5 DEF PromisedOf
  <2>4. \A symbol : PromisedOf(k, symbol)' = Promise(new, symbol) /\ PromisedOf(k, symbol) = 0
    BY <1>4, <1>5 DEF PromisedOf
  <2> QED
    BY <2>1, <2>2, <2>3, <2>4
<1> HIDE DEF new
<1>11. MarginInv'
  <2>1. ASSUME NEW symbol \in Symbols
        PROVE  /\ Slack(k, symbol)' \in Int
               /\ Margin(symbol)' = Margin(symbol) - Slack(k, symbol) + Slack(k, symbol)'
               /\ \A key \in DOMAIN book : key # k => Slack(key, symbol)' = Slack(key, symbol)
    <3>1. Slack(k, symbol) \in Int /\ Promise(new, symbol) \in Int
      BY <1>3, <1>7, SlackType DEF new
    <3>2. Slack(k, symbol)' = Slack(k, symbol) + Promise(new, symbol)
      <4>1. Unbooked(k, symbol)' = Unbooked(k, symbol)
        BY <1>1, <1>10 DEF Unbooked
      <4>2. /\ Slack(k, symbol) = 0 - Offer(book[k], symbol) + Unbooked(k, symbol)
            /\ Slack(k, symbol)' = Promise(new, symbol) - Offer(book[k], symbol)
                                     + Unbooked(k, symbol)
        BY <1>1, <1>4, <1>9, <1>10, <4>1 DEF Slack
      <4>3. Offer(book[k], symbol) \in Nat /\ Unbooked(k, symbol) \in Int
        BY <1>7, SlackType
      <4> QED
        BY <3>1, <4>2, <4>3
    <3>3. /\ AvailableToSell(symbol)
               = Held(account.positions, symbol) - Promised(account.orders, symbol)
          /\ Held(account.positions, symbol) \in Nat /\ Promised(account.orders, symbol) \in Int
      BY <1>7, AvailableType
    <3>4. AvailableToSell(symbol)'
            = Held(account'.positions, symbol) - Promised(account'.orders, symbol)
      BY DEF AvailableToSell, Reserved, Promised, Promise, Held
    <3>5. /\ Promised(account'.orders, symbol)
               = Promised(account.orders, symbol) + Promise(new, symbol)
          /\ Held(account'.positions, symbol) = Held(account.positions, symbol)
      BY <1>3 DEF new
    <3>6. Uncommitted(symbol)' = Uncommitted(symbol) /\ Uncommitted(symbol) \in Int
      BY <1>1, CommittedInBook DEF IInv, Uncommitted
    <3>7. Margin(symbol)' = Margin(symbol) + Promise(new, symbol) /\ Margin(symbol) \in Int
      BY <3>1, <3>3, <3>4, <3>5, <3>6 DEF Margin
    <3>8. ASSUME NEW key \in DOMAIN book, key # k
          PROVE  Slack(key, symbol)' = Slack(key, symbol)
      BY <1>1, <1>9, <1>10, <3>8, SlackSame
    <3> QED
      BY <3>1, <3>2, <3>7, <3>8
  <2>2. DOMAIN book' = DOMAIN book
    BY <1>1
  <2> QED
    BY <1>7, <2>1, <2>2, MarginMoves DEF OfferInv
<1>12. BookedInv'
  BY <1>1, <1>8, <1>9, <1>10 DEF OfferInv, BookedInv
<1>13. EndedInv'
  <2> SUFFICES ASSUME NEW key \in DOMAIN orderIds',
                      ~IsPromising(GetOrder(account'.orders, orderIds'[key]))
               PROVE  /\ Booked(key) = book[key].filled_qty
                      /\ IsLive(book[key]) => Remaining(book[key]) = 0
    BY <1>1, <1>10 DEF EndedInv
  <2>1. CASE key = k
    <3>1. GetOrderStatus(book[k]) \in {"cancelled", "rejected"}
      BY <1>2, <1>3, <1>5, <2>1
    <3>2. book[k].status \in BrokerStatuses
      BY BookFields, BrokerOrderFields DEF IInv
    <3>3. book[k].status \in {"canceled", "done_for_day", "rejected"}
      BY <3>1, <3>2 DEF GetOrderStatus, NormalizedStatus, ToVQCStatus, BrokerStatuses,
         LiveStatuses, PendingStatuses, OpenStatuses, PartialStatuses, CancelledStatuses
    <3>4. book[k].status = "rejected" /\ book[k].filled_qty = 0
      BY <1>1, <1>2, <3>3 DEF OfferInv, AnswerInv
    <3>5. ~IsLive(book[k])
      BY <3>4 DEF IsLive, LiveStatuses
    <3> QED
      BY <1>10, <2>1, <3>4, <3>5
  <2>2. CASE key \in DOMAIN orderIds
    BY <1>3, <1>5, <2>2 DEF OfferInv, EndedInv
  <2> QED
    BY <1>5, <2>1, <2>2
<1>14. EndsInv'
  BY <1>1, <1>8, <1>10 DEF OfferInv, EndsInv, Over
<1>15. AnswerInv' /\ CallCovered'
  BY <1>6 DEF AnswerInv, CallCovered
<1>16. NoOversell'
  BY <1>1, SameNoOversell DEF OfferInv
<1> QED
  BY <1>1, <1>11, <1>12, <1>13, <1>14, <1>15, <1>16 DEF OfferInv

-----------------------------------------------------------------------------
(* Synchronization, pauses and restarts *)

\* A live order that is not done for the day promises what it offers at the broker.
LEMMA SnapshotOrderPromisesAll ==
  ASSUME NEW raw \in BrokerOrder, NEW id \in Nat, NEW symbol, IsLive(raw),
         raw.status # "done_for_day"
  PROVE  LET order == ToVQCOrder(raw, id, raw.filled_qty, ToVQCStatus(raw.status))
         IN  /\ order.filledQuantity = raw.filled_qty
             /\ Promise(order, symbol) = Offer(raw, symbol)
             /\ ~IsPromising(order) => Remaining(raw) = 0
<1> DEFINE status == NormalizedStatus(ToVQCStatus(raw.status), raw.filled_qty, raw.qty)
           order  == ToVQCOrder(raw, id, raw.filled_qty, ToVQCStatus(raw.status))
<1>1. /\ raw.qty \in Nat /\ raw.filled_qty \in Nat /\ raw.side \in {"buy", "sell"}
  BY BrokerOrderFields
<1>2. /\ order.symbol = raw.symbol /\ order.side = ToDafnyOrderSide[raw.side]
      /\ order.quantity = raw.qty /\ order.filledQuantity = raw.filled_qty
      /\ order.status = ToDafnyOrderStatus[status]
  BY DEF ToVQCOrder, OrderRecord
<1>3. order.side = "Sell" <=> raw.side = "sell"
  BY <1>1, <1>2 DEF ToDafnyOrderSide
<1>4. \/ raw.filled_qty = raw.qty /\ status = "filled"
      \/ status \in {"pending", "open", "partially_filled"}
  <2>1. ToVQCStatus(raw.status) \in {"pending", "open", "partially_filled"}
    BY DEF ToVQCStatus, IsLive, LiveStatuses, PendingStatuses, OpenStatuses, PartialStatuses,
           CancelledStatuses
  <2> QED
    BY <2>1 DEF NormalizedStatus
<1> HIDE DEF order, status
<1>5. RemainingQuantity(order) = Remaining(raw)
  BY <1>2 DEF RemainingQuantity, Remaining
<1>6. CASE raw.filled_qty = raw.qty /\ status = "filled"
  <2>1. Remaining(raw) = 0
    BY <1>1, <1>6 DEF Remaining
  <2>2. order.status = "Filled"
    BY <1>2, <1>6 DEF ToDafnyOrderStatus
  <2>3. Promise(order, symbol) = 0 /\ Offer(raw, symbol) = 0
    BY <2>1, <2>2 DEF Promise, Offer
  <2> QED
    BY <1>2, <2>1, <2>3 DEF order
<1>7. CASE status \in {"pending", "open", "partially_filled"}
  <2>1. IsPromising(order)
    BY <1>2, <1>7 DEF ToDafnyOrderStatus, IsPromising
  <2>2. Promise(order, symbol) = Offer(raw, symbol)
    BY <1>2, <1>3, <1>5, <2>1 DEF Promise, Offer, IsPromising
  <2> QED
    BY <1>2, <2>1, <2>2 DEF order
<1> QED
  BY <1>4, <1>6, <1>7

\* The orders of a snapshot promise what the broker has committed.
LEMMA SnapshotPromisesAll ==
  ASSUME BrokerInv, NEW symbol \in Symbols,
         \A k \in DOMAIN book : book[k].status # "done_for_day"
  PROVE  Promised([i \in DOMAIN GetOpenOrders |->
                     ToVQCOrder(GetOpenOrders[i], i, GetOpenOrders[i].filled_qty,
                                ToVQCStatus(GetOpenOrders[i].status))], symbol)
           = Committed(book, symbol)
<1> DEFINE T == {order \in Range(book) : IsLive(order)}
           f == [raw \in BrokerOrder |-> IF raw \in T THEN Offer(raw, symbol) ELSE 0]
           r == GetOpenOrders
           snap == [i \in DOMAIN r |-> ToVQCOrder(r[i], i, r[i].filled_qty, ToVQCStatus(r[i].status))]
           promises == [i \in DOMAIN snap |-> Promise(snap[i], symbol)]
           offers == [i \in DOMAIN r |-> f[r[i]]]
<1>1. book \in Seq(BrokerOrder) /\ r \in Seq(BrokerOrder)
  BY OrdersRead DEF BrokerInv
<1>2. r = SelectIn(book, T)
  BY DEF GetOpenOrders
<1>3. \A k \in DOMAIN book : book[k] \in T <=> IsLive(book[k])
  BY DEF Range
<1>4. \A i \in DOMAIN r : r[i] \in T /\ IsLive(r[i]) /\ r[i].status # "done_for_day"
  <2>1. \A i \in DOMAIN r :
          r[i].id \in DOMAIN book /\ book[r[i].id] = r[i] /\ IsLive(r[i])
    BY OpenOrdersRead
  <2> HIDE DEF T, r
  <2> QED
    BY <1>3, <2>1
<1> HIDE DEF T, r
<1>5. f \in [BrokerOrder -> Int] /\ \A raw \in BrokerOrder : raw \notin T => f[raw] = 0
  <2>1. \A raw \in BrokerOrder : Offer(raw, symbol) \in Nat
    BY OfferIsNumber
  <2> QED
    BY <2>1
<1>6. SumSeq(offers) = SumSeq([k \in DOMAIN book |-> f[book[k]]])
  <2> HIDE DEF f
  <2>1. book \in Seq(BrokerOrder)
    BY <1>1
  <2> QED
    BY <1>2, <1>5, <2>1, SumOfSelection
<1>7. [k \in DOMAIN book |-> f[book[k]]] = [k \in DOMAIN book |-> Offer(book[k], symbol)]
  <2>1. \A k \in DOMAIN book : book[k] \in BrokerOrder
    BY <1>1
  <2>2. \A k \in DOMAIN book : f[book[k]] = Offer(book[k], symbol)
    BY <1>3, <2>1 DEF Offer
  <2> HIDE DEF f
  <2> QED
    BY <2>2
<1>8. SumSeq(offers) = Committed(book, symbol)
  BY <1>6, <1>7, CommittedIsOffered
<1>9. \A i \in DOMAIN r : Promise(snap[i], symbol) = f[r[i]]
  <2> SUFFICES ASSUME NEW i \in DOMAIN r PROVE Promise(snap[i], symbol) = f[r[i]]
    OBVIOUS
  <2>1. r[i] \in BrokerOrder /\ i \in Nat
    BY <1>1
  <2>2. Promise(ToVQCOrder(r[i], i, r[i].filled_qty, ToVQCStatus(r[i].status)), symbol)
          = Offer(r[i], symbol)
    BY <1>4, <2>1, SnapshotOrderPromisesAll
  <2> QED
    BY <1>4, <2>1, <2>2
<1>10. DOMAIN snap = DOMAIN r
  OBVIOUS
<1> HIDE DEF f, snap
<1>11. promises = offers
  BY <1>9, <1>10
<1>12. Promised(snap, symbol) = SumSeq(promises)
  BY DEF Promised
<1> QED
  BY <1>8, <1>11, <1>12 DEF snap, r

\* A step that moves nothing, and keeps, or drops, what is on its way.
LEMMA NothingMoves ==
  ASSUME IInv, OfferInv, UNCHANGED << book, shares, account, orderIds, seen, user >>,
         queue' = queue \/ (queue' = <<>> /\ (ClientReady \/ queue = <<>>))
  PROVE  OfferInv'
<1>1. \A key \in DOMAIN book : Known(key)' <=> Known(key)
  BY DEF Known
<1>2. AnswerInv' /\ CallCovered'
  BY CallsStay DEF OfferInv
<1>3. CASE queue' = queue
  <2>1. InFlight' = InFlight
    BY <1>3 DEF InFlight, IsNewExecution
  <2>2. EndsInv'
    BY <1>3, <2>1 DEF OfferInv, EndsInv, Over, Booked
  <2> QED
    BY <1>1, <1>2, <2>1, <2>2, OffersStay
<1>4. CASE queue' = <<>> /\ (ClientReady \/ queue = <<>>)
  <2>1. EndsInv' /\ InFlight' = {}
    BY <1>4, NothingEnds
  <2>2. queue = <<>> => InFlight = {}
    BY DEF InFlight, Range
  <2>3. InFlight' = InFlight \/ (ClientReady /\ InFlight' \subseteq InFlight)
    BY <1>4, <2>1, <2>2
  <2> QED
    BY <1>1, <1>2, <2>1, <2>3, OffersStay
<1> QED
  BY <1>3, <1>4

\* A synchronization that fails moves nothing.
LEMMA SyncRaisesKeepsOffers ==
  ASSUME IInv, AgreeInv, OfferInv, daemon.pc \in SyncSteps, SyncRaises
  PROVE  OfferInv'
<1>1. queue = <<>> /\ queue' = <<>>
  BY WhileReading DEF SyncRaises
<1>2. UNCHANGED << book, shares, account, orderIds, seen, user >>
  BY DEF SyncRaises, stateVars
<1> QED
  BY <1>1, <1>2, NothingMoves

\* A snapshot of a broker that rests promises what is committed, and has ended no order
\* the broker could still execute.
LEMMA SnapshotKeepsOffers ==
  ASSUME IInv, IInv', AgreeInv, OfferInv, daemon.pc = "cash",
         UNCHANGED << book, shares, user >>, queue' = <<>>,
         CanBootstrap(FromDecimal(cash), daemon.positions, SnapshotOrders, 1),
         account' = NoAccount
           \/ account' = BootstrapCore(FromDecimal(cash), daemon.positions, SnapshotOrders, 1),
         orderIds' = <<>> \/ (orderIds' = SnapshotOrderIds /\ account' # NoAccount)
  PROVE  OfferInv'
<1>1. user.pc = "idle" /\ daemon.pc \in SyncSteps
  BY WhileReading DEF SyncSteps
<1>2. EndsInv' /\ InFlight' = {}
  BY NothingEnds
<1>3. AnswerInv' /\ CallCovered' /\ \A key : Known(key)' <=> key \in DOMAIN orderIds'
  BY <1>1 DEF AnswerInv, CallCovered, Known
<1>4. NoOversell'
  BY SameNoOversell DEF OfferInv
<1>5. /\ \A symbol \in Symbols : Held(daemon.positions, symbol) = shares[symbol]
      /\ daemon.orders = GetOpenOrders
  BY DEF AgreeInv, ReadInv
<1>6. account' # NoAccount =>
        account'.positions = daemon.positions /\ account'.orders = SnapshotOrders
  BY DEF BootstrapCore
<1>7. ASSUME NEW key \in DOMAIN orderIds'
      PROVE  /\ key \in DOMAIN book /\ IsLive(book[key])
             /\ Booked(key)' = book[key].filled_qty
             /\ \A symbol : PromisedOf(key, symbol)' = Offer(book[key], symbol)
             /\ ~IsPromising(GetOrder(account'.orders, orderIds'[key])) => Remaining(book[key]) = 0
  <2>1. orderIds' = SnapshotOrderIds /\ account'.orders = SnapshotOrders
    BY <1>6, <1>7
  <2> DEFINE i   == SnapshotOrderIds[key]
             raw == daemon.orders[i]
  <2>2. i \in DOMAIN daemon.orders /\ raw.id = key /\ GetOrder(SnapshotOrders, i) = SnapshotOrders[i]
    BY <1>7, <2>1, SnapshotMap DEF IInv, ClientInv
  <2>3. SnapshotOrders[i] = ToVQCOrder(raw, i, raw.filled_qty, ToVQCStatus(raw.status))
    BY <2>2 DEF SnapshotOrders
  <2>4. key \in DOMAIN book /\ book[key] = raw /\ IsLive(raw)
    BY <1>5, <2>2, OpenOrdersRead DEF IInv
  <2>5. raw \in BrokerOrder /\ raw.status # "done_for_day" /\ i \in Nat
    <3>1. daemon.orders \in Seq(BrokerOrder)
      BY DEF IInv, ClientInv, DaemonInv
    <3> QED
      BY <2>2, <2>4, <3>1 DEF OfferInv
  <2> DEFINE order == SnapshotOrders[i]
  <2>6. GetOrder(account'.orders, orderIds'[key]) = order
    BY <2>1, <2>2
  <2> HIDE DEF i, raw
  <2>7. /\ order.filledQuantity = raw.filled_qty
        /\ \A symbol : Promise(order, symbol) = Offer(raw, symbol)
        /\ ~IsPromising(order) => Remaining(raw) = 0
    BY <2>3, <2>4, <2>5, SnapshotOrderPromisesAll
  <2> HIDE DEF order
  <2>8. Booked(key)' = order.filledQuantity /\ \A symbol : PromisedOf(key, symbol)' = Promise(order, symbol)
    BY <1>7, <2>6 DEF Booked, PromisedOf
  <2> QED
    BY <2>4, <2>6, <2>7, <2>8
<1>8. ASSUME NEW symbol \in Symbols, account' # NoAccount
      PROVE  /\ Margin(symbol)' = 0
             /\ \A key \in DOMAIN book : Slack(key, symbol)' = 0
  <2>1. Promised(SnapshotOrders, symbol) = Committed(book, symbol)
    <3> DEFINE T == [i \in DOMAIN GetOpenOrders |->
                       ToVQCOrder(GetOpenOrders[i], i, GetOpenOrders[i].filled_qty,
                                  ToVQCStatus(GetOpenOrders[i].status))]
    <3>1. SnapshotOrders = T
      BY <1>5 DEF SnapshotOrders
    <3>2. Promised(T, symbol) = Committed(book, symbol)
      BY SnapshotPromisesAll DEF IInv, OfferInv
    <3> HIDE DEF T
    <3> QED
      BY <3>1, <3>2
  <2>2. AvailableToSell(symbol)'
          = Held(account'.positions, symbol) - Promised(account'.orders, symbol)
    BY DEF AvailableToSell, Reserved, Promised, Promise, Held
  <2>3. AvailableToSell(symbol)' = shares[symbol] - Committed(book, symbol)
    BY <1>5, <1>6, <1>8, <2>1, <2>2
  <2>4. /\ Uncommitted(symbol)' = shares[symbol] - Committed(book, symbol)
        /\ shares[symbol] \in Int /\ Committed(book, symbol) \in Int
    BY CommittedInBook DEF IInv, Uncommitted
  <2>5. Margin(symbol)' = 0
    BY <2>3, <2>4 DEF Margin
  <2>6. ASSUME NEW key \in DOMAIN book, Known(key)'
        PROVE  Slack(key, symbol)' = 0
    <3>1. /\ Booked(key)' = book[key].filled_qty
          /\ PromisedOf(key, symbol)' = Offer(book[key], symbol)
      BY <1>3, <1>7, <2>6
    <3>2. Offer(book[key], symbol) \in Nat /\ book[key].filled_qty \in Nat
      BY BookFields, BrokerOrderFields, OfferIsNumber DEF IInv
    <3>3. Unbooked(key, symbol)' = 0
      BY <3>1, <3>2 DEF Unbooked
    <3>4. Slack(key, symbol)' = PromisedOf(key, symbol)' - Offer(book[key], symbol)
                                  + Unbooked(key, symbol)'
      BY <2>6 DEF Slack
    <3> QED
      BY <3>1, <3>2, <3>3, <3>4
  <2>7. \A key \in DOMAIN book : Slack(key, symbol)' = 0
    BY <2>6 DEF Slack
  <2> QED
    BY <2>5, <2>7
<1>9. MarginInv'
  <2> SUFFICES ASSUME account' # NoAccount, NEW symbol \in Symbols
               PROVE  Margin(symbol)' = SumSeq([key \in DOMAIN book |-> Slack(key, symbol)'])
    BY DEF MarginInv, ClientReady
  <2> DEFINE s == [key \in DOMAIN book |-> Slack(key, symbol)']
  <2>1. s = [key \in DOMAIN book |-> 0]
    BY <1>8
  <2>2. DOMAIN book = 1 .. Len(book) /\ Len(book) \in Nat
    BY DEF IInv, BrokerInv
  <2> HIDE DEF s
  <2>3. s \in [1 .. Len(book) -> Int] /\ \A i \in DOMAIN s : s[i] = 0
    BY <2>1, <2>2
  <2>4. s \in Seq(Int)
    BY <2>2, <2>3
  <2>5. SumSeq(s) = 0
    BY <2>3, <2>4, SumOfZeros
  <2> QED
    BY <1>8, <2>5 DEF s
<1>10. BookedInv'
  <2> SUFFICES ASSUME NEW key \in DOMAIN book, Known(key)'
               PROVE  Booked(key)' + Filled({}, key) <= book[key].filled_qty
    BY <1>2 DEF BookedInv
  <2>1. Booked(key)' = book[key].filled_qty /\ Filled({}, key) = 0
    BY <1>3, <1>7, NothingInFlight
  <2>2. book[key].filled_qty \in Nat
    BY BookFields, BrokerOrderFields DEF IInv
  <2> QED
    BY <2>1, <2>2
<1>11. EndedInv'
  BY <1>7 DEF EndedInv
<1>12. \A key \in DOMAIN book' : book'[key].status # "done_for_day"
  BY DEF OfferInv
<1> QED
  BY <1>2, <1>3, <1>4, <1>9, <1>10, <1>11, <1>12 DEF OfferInv

\* Every step of a synchronization leaves the client's offers within the broker's.
LEMMA SyncKeepsOffers ==
  ASSUME IInv, IInv', AgreeInv, OfferInv,
         ReadPositions \/ ReadOrders \/ ReadCash \/ ReadFails \/ SnapshotWithoutId
  PROVE  OfferInv'
<1> DEFINE opens == CanBootstrap(FromDecimal(cash), daemon.positions, SnapshotOrders, 1)
           acct  == BootstrapCore(FromDecimal(cash), daemon.positions, SnapshotOrders, 1)
<1>1. {"positions", "orders", "cash"} = SyncSteps
  BY DEF SyncSteps
<1>2. CASE SyncRaises
  <2>1. daemon.pc \in SyncSteps
    BY <1>1 DEF ReadPositions, ReadOrders, ReadCash, ReadFails, SnapshotWithoutId
  <2> QED
    BY <1>2, <2>1, SyncRaisesKeepsOffers
<1>3. CASE ReadPositions /\ ~SyncRaises
  <2>1. UNCHANGED << book, shares, account, orderIds, seen, user, queue >>
    BY <1>3 DEF ReadPositions, brokerVars, stateVars
  <2> QED
    BY <2>1, NothingMoves
<1>4. CASE ReadOrders /\ ~SyncRaises
  <2>1. UNCHANGED << book, shares, account, orderIds, seen, user, queue >>
    BY <1>4, ReadOrdersIsComplete DEF brokerVars, stateVars
  <2> QED
    BY <2>1, NothingMoves
<1>5. CASE ReadCash /\ ~SyncRaises
  <2>1. daemon.pc = "cash" /\ queue = <<>>
    BY <1>1, <1>5, WhileReading DEF ReadCash
  <2>2. /\ opens /\ account' = acct /\ orderIds' = SnapshotOrderIds
        /\ UNCHANGED << book, shares, user, queue >>
    BY <1>5 DEF ReadCash, brokerVars
  <2>3. TradedAccount(acct)
    BY <2>2, SnapshotOpens DEF IInv, ClientInv, BrokerInv
  <2> HIDE DEF acct
  <2>4. account' # NoAccount
    BY <2>2, <2>3, TradedIsAccount
  <2> QED
    BY <2>1, <2>2, <2>4, SnapshotKeepsOffers DEF acct
<1>6. CASE ReadFails
  BY <1>2, <1>6 DEF ReadFails
<1>7. CASE SnapshotWithoutId
  <2>1. /\ daemon.pc = "cash" /\ opens /\ (account' = NoAccount \/ account' = acct)
        /\ orderIds' = <<>> /\ queue' = <<>> /\ UNCHANGED << book, shares, user >>
    BY <1>7 DEF SnapshotWithoutId
  <2> QED
    BY <2>1, SnapshotKeepsOffers
<1> QED
  BY <1>2, <1>3, <1>4, <1>5, <1>6, <1>7

\* A worker that subscribes, pauses, is told to stop or stops moves nothing.
LEMMA PausesKeepOffers ==
  ASSUME IInv, AgreeInv, OfferInv,
         \/ Subscribe \/ StreamEnds \/ RecoverBrokerSnapshot \/ WorkerStops \/ Stop
         \/ UNCHANGED vars
  PROVE  OfferInv'
<1>1. UNCHANGED << book, shares, account, orderIds, seen, user >>
  BY DEF Subscribe, StreamEnds, RecoverBrokerSnapshot, WorkerStops, Stop, vars, brokerVars,
         clientVars, stateVars
<1>2. queue' = queue \/ (Subscribe /\ queue' = <<>>)
  BY DEF Subscribe, StreamEnds, RecoverBrokerSnapshot, WorkerStops, Stop, vars, brokerVars
<1>3. Subscribe => queue = <<>>
  BY DEF Subscribe, AgreeInv, LineInv
<1> QED
  BY <1>1, <1>2, <1>3, NothingMoves

\* A handler that raises loses what is on its way, and moves nothing.
LEMMA HandlerRaisesKeepsOffers ==
  ASSUME IInv, OfferInv, HandlerRuns, HandlerRaises, UNCHANGED << book, shares, user >>
  PROVE  OfferInv'
<1>1. queue' = <<>> /\ UNCHANGED << account, orderIds, seen >>
  BY DEF HandlerRaises, stateVars
<1>2. ClientReady
  BY HandlerFacts, TradedIsAccount DEF ClientReady
<1> QED
  BY <1>1, <1>2, NothingMoves

\* A new process offers nothing yet.
LEMMA RestartKeepsOffers ==
  ASSUME OfferInv, Restart
  PROVE  OfferInv'
<1>1. /\ account' = NoAccount /\ orderIds' = <<>> /\ user'.pc = "idle" /\ queue' = <<>>
      /\ UNCHANGED << book, shares >>
  BY DEF Restart, Idle
<1>2. EndsInv' /\ NoOversell'
  BY <1>1, NothingEnds, SameNoOversell DEF OfferInv
<1>3. MarginInv' /\ AnswerInv' /\ CallCovered' /\ EndedInv'
  BY <1>1 DEF MarginInv, ClientReady, AnswerInv, CallCovered, EndedInv
<1>4. BookedInv'
  BY <1>1 DEF BookedInv, Known
<1> QED
  BY <1>1, <1>2, <1>3, <1>4 DEF OfferInv

\* At the start the client offers nothing, and the broker no more than is held.
LEMMA InitOffers ==
  ASSUME OrderlyBroker, CoveredAtStart, Init
  PROVE  OfferInv
<1>1. PICK a \in Accounts : book = a.book /\ shares = a.shares
  BY DEF Init, BrokerInit
<1>2. account = NoAccount /\ orderIds = <<>> /\ user.pc = "idle" /\ queue = <<>>
  BY DEF Init, BrokerInit, Idle
<1>3. \A key \in DOMAIN book : book[key].status # "done_for_day"
  BY <1>1 DEF OrderlyBroker
<1>4. NoOversell
  <2> SUFFICES ASSUME NEW symbol \in Symbols
               PROVE  shares[symbol] - Committed(book, symbol) >= 0
    BY DEF NoOversell, Uncommitted
  <2>1. Committed(book, symbol) <= shares[symbol]
    BY <1>1 DEF CoveredAtStart
  <2>2. Committed(book, symbol) \in Int /\ shares[symbol] \in Int
    BY InitIInv, CommittedInBook DEF IInv
  <2> QED
    BY <2>1, <2>2
<1>5. MarginInv /\ AnswerInv /\ CallCovered /\ EndedInv /\ EndsInv
  BY <1>2 DEF MarginInv, ClientReady, AnswerInv, CallCovered, EndedInv, EndsInv
<1>6. BookedInv
  BY <1>2 DEF BookedInv, Known
<1> QED
  BY <1>3, <1>4, <1>5, <1>6 DEF OfferInv

-----------------------------------------------------------------------------
(* Updates are handled *)

\* An update that is handled and not on its way again: those behind it move up.
LEMMA EndsShift ==
  ASSUME IInv, EndsInv, HandlerRuns, HandlerReturns,
         InFlight' \subseteq InFlight, Head(queue) \notin InFlight',
         \A key : Ending(key) => Over(key)'
  PROVE  EndsInv'
<1>1. PICK T : queue \in Seq(T)
  BY DEF IInv, BrokerInv
<1>2. queue # <<>> /\ queue' = Tail(queue)
  BY DEF HandlerRuns, HandlerReturns
<1> DEFINE n == Len(queue)
<1>3. n \in Nat /\ DOMAIN queue = 1 .. n /\ n > 0
  BY <1>1, <1>2
<1>4. DOMAIN queue' = 1 .. n - 1 /\ \A i \in 1 .. n - 1 : queue'[i] = queue[i + 1]
  BY <1>1, <1>2
<1>5. Head(queue) = queue[1]
  BY <1>2
<1> HIDE DEF n
<1>6. ASSUME NEW i \in 1 .. n - 1, Ends(queue'[i]), NEW j \in 1 .. n - 1,
             queue'[j] \in InFlight', queue'[j].order.id = queue'[i].order.id
      PROVE  \E first \in 1 .. i - 1 : queue'[first] = queue'[j]
  <2>1. /\ i + 1 \in DOMAIN queue /\ queue'[i] = queue[i + 1] /\ i \in Nat
        /\ j + 1 \in DOMAIN queue /\ queue'[j] = queue[j + 1]
    BY <1>3, <1>4
  <2>2. PICK before \in 1 .. (i + 1) - 1 : queue[before] = queue[j + 1]
    BY <1>6, <2>1 DEF EndsInv
  <2>3. before # 1
    BY <1>5, <1>6, <2>1, <2>2
  <2>4. before - 1 \in 1 .. i - 1 /\ before - 1 \in 1 .. n - 1 /\ (before - 1) + 1 = before
    BY <1>3, <2>1, <2>2, <2>3
  <2>5. queue'[before - 1] = queue[before]
    BY <1>4, <2>4
  <2> QED
    BY <2>1, <2>2, <2>4, <2>5
<1>7. ASSUME NEW i \in 1 .. n - 1, Ends(queue'[i]), NEW key, key = queue'[i].order.id
      PROVE  Over(key)'
  <2>1. i + 1 \in DOMAIN queue /\ queue'[i] = queue[i + 1]
    BY <1>3, <1>4
  <2>2. Ending(key)
    BY <1>7, <2>1 DEF Ending
  <2> QED
    BY <2>2
<1>8. ASSUME NEW i \in DOMAIN queue', Ends(queue'[i])
      PROVE  Over(queue[i].order.id)'
  <2>1. \A key : key = queue'[i].order.id => Over(key)'
    BY <1>4, <1>7, <1>8
  <2> QED
    BY <2>1 DEF Over, Booked
<1> QED
  BY <1>4, <1>6, <1>8 DEF EndsInv

\* A repetition that is ignored moves nothing.
LEMMA RepetitionKeepsOffers ==
  ASSUME IInv, OfferInv, HandlerRuns, HandlerReturns, UNCHANGED << book, shares, user >>,
         UNCHANGED stateVars,
         ~(IsFillUpdate(Head(queue)) /\ IsNewExecution(Head(queue)))
  PROVE  OfferInv'
<1>1. UNCHANGED << account, orderIds, seen >>
  BY DEF stateVars
<1>2. InFlight' = InFlight
  BY <1>1, RepetitionDropped
<1>3. Head(queue) \notin InFlight
  BY DEF InFlight
<1>4. ASSUME NEW key, Ending(key)
      PROVE  Over(key)'
  <2>1. Over(key)
    BY <1>4 DEF OfferInv, EndsInv, Ending
  <2> QED
    BY <1>1, <1>2, <2>1 DEF Over, Booked
<1>5. EndsInv'
  BY <1>2, <1>3, <1>4, EndsShift DEF OfferInv
<1>6. \A key \in DOMAIN book : Known(key)' <=> Known(key)
  BY <1>1 DEF Known
<1>7. AnswerInv' /\ CallCovered'
  BY CallsStay DEF OfferInv
<1> QED
  BY <1>1, <1>2, <1>5, <1>6, <1>7, OffersStay

\* The client moves one of its orders: its promise, what it has booked and the shares it
\* holds change together.
LEMMA AccountMovesMargin ==
  ASSUME IInv, MarginInv, ClientReady, UNCHANGED << book, shares, orderIds, user >>,
         NEW k \in DOMAIN orderIds, NEW n \in Nat, Booked(k)' = Booked(k) + n,
         \A key \in DOMAIN orderIds : key # k =>
           GetOrder(account'.orders, orderIds[key]) = GetOrder(account.orders, orderIds[key]),
         \A symbol \in Symbols :
           /\ PromisedOf(k, symbol)' \in Int
           /\ Promised(account'.orders, symbol)
                = Promised(account.orders, symbol)
                    - PromisedOf(k, symbol) + PromisedOf(k, symbol)'
           /\ Held(account'.positions, symbol)
                = Held(account.positions, symbol)
                    + (IF book[k].symbol # symbol THEN 0
                       ELSE IF book[k].side = "buy" THEN n ELSE 0 - n)
  PROVE  MarginInv'
<1>1. k \in DOMAIN book /\ Known(k) /\ Known(k)'
  BY DEF Known, IInv, ClientInv, Tracks
<1>2. book[k].filled_qty \in Nat
  BY <1>1, BookFields, BrokerOrderFields DEF IInv
<1>3. ASSUME NEW key \in DOMAIN book, key # k, NEW symbol
      PROVE  Slack(key, symbol)' = Slack(key, symbol)
  <2>1. Booked(key)' = Booked(key) /\ PromisedOf(key, symbol)' = PromisedOf(key, symbol)
    BY <1>3 DEF Booked, PromisedOf
  <2>2. book'[key] = book[key] /\ (Known(key)' <=> Known(key))
    BY DEF Known
  <2> QED
    BY <2>1, <2>2, SlackSame
<1>4. ASSUME NEW symbol \in Symbols
      PROVE  /\ Slack(k, symbol)' \in Int
             /\ Margin(symbol)' = Margin(symbol) - Slack(k, symbol) + Slack(k, symbol)'
  <2> DEFINE moved == IF book[k].symbol # symbol THEN 0
                      ELSE IF book[k].side = "buy" THEN n ELSE 0 - n
  <2>1. moved \in Int
    OBVIOUS
  <2>2. /\ Booked(k) \in Nat /\ PromisedOf(k, symbol) \in Int
        /\ Unbooked(k, symbol) \in Int /\ Offer(book[k], symbol) \in Nat
    BY <1>1, SlackType
  <2>3. Unbooked(k, symbol)' = Unbooked(k, symbol) - moved
    BY <1>2, <2>2 DEF Unbooked
  <2>4. /\ Slack(k, symbol) = PromisedOf(k, symbol) - Offer(book[k], symbol)
                                + Unbooked(k, symbol)
        /\ Slack(k, symbol)' = PromisedOf(k, symbol)' - Offer(book[k], symbol)
                                + Unbooked(k, symbol)'
    BY <1>1 DEF Slack
  <2>5. /\ AvailableToSell(symbol)
             = Held(account.positions, symbol) - Promised(account.orders, symbol)
        /\ Held(account.positions, symbol) \in Nat /\ Promised(account.orders, symbol) \in Int
    BY AvailableType
  <2>6. AvailableToSell(symbol)'
          = Held(account'.positions, symbol) - Promised(account'.orders, symbol)
    BY DEF AvailableToSell, Reserved, Promised, Promise, Held
  <2>7. /\ Committed(book, symbol) \in Int /\ shares[symbol] \in Int
        /\ Uncommitted(symbol) = shares[symbol] - Committed(book, symbol)
        /\ Uncommitted(symbol)' = shares[symbol] - Committed(book, symbol)
    BY CommittedInBook DEF IInv, Uncommitted
  <2>8. /\ Margin(symbol) = Uncommitted(symbol) - AvailableToSell(symbol)
        /\ Margin(symbol)' = Uncommitted(symbol)' - AvailableToSell(symbol)'
    BY DEF Margin
  <2>9. /\ PromisedOf(k, symbol)' \in Int
        /\ Promised(account'.orders, symbol)
             = Promised(account.orders, symbol) - PromisedOf(k, symbol) + PromisedOf(k, symbol)'
        /\ Held(account'.positions, symbol) = Held(account.positions, symbol) + moved
    OBVIOUS
  <2> HIDE DEF moved
  <2>10. Slack(k, symbol)' \in Int
    BY <2>1, <2>2, <2>3, <2>4, <2>9
  <2> QED
    BY <2>1, <2>2, <2>3, <2>4, <2>5, <2>6, <2>7, <2>8, <2>9, <2>10
<1>5. DOMAIN book' = DOMAIN book
  OBVIOUS
<1> QED
  BY <1>1, <1>3, <1>4, <1>5, MarginMoves

\* An update that is handled moves one order of the client's: what is booked is in
\* flight no more, and an order it ends has nothing left to be executed.
LEMMA HandledKeepsOffers ==
  ASSUME IInv, AgreeInv, OfferInv, HandlerRuns, HandlerReturns,
         UNCHANGED << book, shares, orderIds, user >>,
         MarginInv', NEW k \in DOMAIN orderIds, NEW n \in Nat, Booked(k)' = Booked(k) + n,
         \A key \in DOMAIN orderIds : key # k =>
           GetOrder(account'.orders, orderIds[key]) = GetOrder(account.orders, orderIds[key]),
         InFlight' \subseteq InFlight, Head(queue) \notin InFlight',
         \A key : Filled(InFlight, key) = Filled(InFlight', key) + (IF key = k THEN n ELSE 0),
         ~IsPromising(GetOrder(account'.orders, orderIds[k])) =>
           /\ Booked(k)' = book[k].filled_qty
           /\ IsLive(book[k]) => Remaining(book[k]) = 0
  PROVE  OfferInv'
<1>1. ClientReady
  BY HandlerFacts, TradedIsReady
<1>2. /\ InFlight \in SUBSET Update(executions) /\ IsFiniteSet(InFlight) /\ executions \in Nat
      /\ IsFiniteSet(InFlight')
  <2>1. /\ InFlight \in SUBSET Update(executions) /\ IsFiniteSet(InFlight) /\ executions \in Nat
    BY InFlightType DEF IInv
  <2>2. IsFiniteSet(InFlight')
    BY <2>1, FS_Subset
  <2> QED
    BY <2>1, <2>2
<1>3. \A key : Filled(InFlight', key) \in Nat
  <2> DEFINE S == InFlight'
  <2>1. S \in SUBSET Update(executions) /\ IsFiniteSet(S)
    BY <1>2
  <2> HIDE DEF S
  <2>2. \A key : Filled(S, key) \in Nat
    BY <1>2, <2>1, TotalsType
  <2> QED
    BY <2>2 DEF S
<1>4. \A key : key # k => Booked(key)' = Booked(key)
  BY DEF Booked
<1>5. \A key \in DOMAIN book : Booked(key) \in Nat /\ book[key].filled_qty \in Nat
  BY <1>1, SlackType, BookFields, BrokerOrderFields DEF IInv
<1>6. \A key \in DOMAIN book :
        Booked(key)' + Filled(InFlight', key) = Booked(key) + Filled(InFlight, key)
  <2> TAKE key \in DOMAIN book
  <2>1. Booked(key)' = Booked(key) + (IF key = k THEN n ELSE 0)
    BY <1>4, <1>5
  <2>2. Filled(InFlight, key) = Filled(InFlight', key) + (IF key = k THEN n ELSE 0)
    OBVIOUS
  <2>3. Booked(key) \in Nat /\ Filled(InFlight', key) \in Nat
    BY <1>3, <1>5
  <2> QED
    BY <2>1, <2>2, <2>3
<1>7. BookedInv'
  BY <1>6 DEF OfferInv, BookedInv, Known
<1>8. EndedInv'
  <2> SUFFICES ASSUME NEW key \in DOMAIN orderIds,
                      ~IsPromising(GetOrder(account'.orders, orderIds[key]))
               PROVE  /\ Booked(key)' = book[key].filled_qty
                      /\ IsLive(book[key]) => Remaining(book[key]) = 0
    BY DEF EndedInv
  <2>1. CASE key = k
    BY <2>1
  <2>2. CASE key # k
    BY <1>4, <2>2 DEF OfferInv, EndedInv
  <2> QED
    BY <2>1, <2>2
<1>9. EndsInv'
  <2>1. ASSUME NEW key, Ending(key)
        PROVE  Over(key)'
    <3>1. key \in DOMAIN book /\ Over(key)
      BY <2>1, EndingOver DEF OfferInv, AgreeInv
    <3> QED
      BY <1>6, <3>1 DEF Over
  <2> QED
    BY <2>1, EndsShift DEF OfferInv
<1>10. AnswerInv' /\ CallCovered' /\ NoOversell'
  BY CallsStay, SameNoOversell DEF OfferInv
<1> QED
  BY <1>7, <1>8, <1>9, <1>10 DEF OfferInv

\* Behind an update that ends an order nothing of it is in flight.
LEMMA EndHeard ==
  ASSUME IInv, AgreeInv, OfferInv, HandlerRuns, Ends(Head(queue)),
         NEW k, k = Head(queue).order.id
  PROVE  k \in DOMAIN book /\ Booked(k) = book[k].filled_qty /\ ~IsLive(book[k])
<1>1. queue # <<>> /\ queue \in Seq(Update(executions)) /\ TradedAccount(account)
  BY HandlerFacts DEF IInv, BrokerInv
<1>2. 1 \in DOMAIN queue /\ Head(queue) = queue[1]
  BY <1>1
<1>3. Ending(k)
  BY <1>2 DEF Ending
<1>4. k \in DOMAIN book /\ Over(k) /\ ~IsLive(book[k])
  BY <1>3, EndingOver DEF OfferInv, AgreeInv
<1>5. /\ InFlight \in SUBSET Update(executions) /\ IsFiniteSet(InFlight) /\ executions \in Nat
      /\ \A u \in InFlight : u \in Range(queue)
  BY InFlightType DEF IInv
<1>6. \A u \in InFlight : u.order.id # k
  <2> SUFFICES ASSUME NEW u \in InFlight, u.order.id = k
               PROVE  FALSE
    OBVIOUS
  <2>1. PICK j \in DOMAIN queue : queue[j] = u
    BY <1>5 DEF Range
  <2>2. \E first \in 1 .. 1 - 1 : queue[first] = u
    BY <1>2, <2>1 DEF OfferInv, EndsInv
  <2> QED
    BY <2>2
<1>7. Filled(InFlight, k) = 0
  BY <1>5, <1>6, NothingFilled
<1>8. Booked(k) \in Nat
  BY <1>1, <1>4, SlackType, TradedIsReady
<1> QED
  BY <1>4, <1>7, <1>8 DEF Over

\* A status change books nothing; one that ends the order comes when it is over.
LEMMA LifecycleKeepsOffers ==
  ASSUME IInv, AgreeInv, OfferInv, HandleLifecycleUpdate
  PROVE  OfferInv'
<1> DEFINE u      == Head(queue)
           status == ToLifecycleStatus(u)
           id     == orderIds[u.order.id]
<1>1. /\ HandlerRuns /\ IsTracked(u) /\ ~IsFillUpdate(u)
      /\ UNCHANGED << book, shares, user >>
      /\ IF ApplyStatusRaises(account, id, status)
         THEN HandlerRaises
         ELSE /\ account' = ApplyStatus(account, id, status)
              /\ HandlerReturns
              /\ UNCHANGED << orderIds, seen >>
  BY DEF HandleLifecycleUpdate
<1>2. status \in PythonStatus /\ TradedAccount(account) /\ Tracks(orderIds, account, book)
  BY <1>1, HandlerFacts, LifecycleStatusConverted
<1>3. PICK k \in DOMAIN orderIds : k = u.order.id
  BY <1>1 DEF IsTracked
<1>4. CASE ApplyStatusRaises(account, id, status)
  BY <1>1, <1>4, HandlerRaisesKeepsOffers
<1>5. CASE ~ApplyStatusRaises(account, id, status)
  <2>1. /\ \/ IsStaleStatus(GetOrder(account.orders, id).status, status)
           \/ CanSetAccountOrderStatus(account, id, ToDafnyOrderStatus[status])
        /\ status \notin {"partially_filled", "filled"}
    BY <1>5 DEF ApplyStatusRaises, IsFillStatus
  <2>2. account' = ApplyStatus(account, id, status) /\ HandlerReturns /\ UNCHANGED << orderIds, seen >>
    BY <1>1, <1>5
  <2>3. ExistsOrder(account.orders, id) /\ id = orderIds[k]
    BY <1>2, <1>3 DEF Tracks
  <2> DEFINE old == GetOrder(account.orders, id)
             new == GetOrder(account'.orders, id)
  <2>4. /\ account'.positions = account.positions
        /\ \A other : other # id /\ ExistsOrder(account.orders, other) =>
             GetOrder(account'.orders, other) = GetOrder(account.orders, other)
        /\ new.filledQuantity = old.filledQuantity
        /\ new = old \/ new.status = ToDafnyOrderStatus[status]
        /\ \A symbol :
             /\ Promise(old, symbol) \in Int /\ Promise(new, symbol) \in Int
             /\ Promised(account'.orders, symbol)
                  = Promised(account.orders, symbol) - Promise(old, symbol) + Promise(new, symbol)
    <3> HIDE DEF id, status
    <3> DEFINE after == ApplyStatus(account, id, status)
    <3>1. /\ after.positions = account.positions
          /\ \A other : other # id /\ ExistsOrder(account.orders, other) =>
               GetOrder(after.orders, other) = GetOrder(account.orders, other)
          /\ GetOrder(after.orders, id).filledQuantity = old.filledQuantity
          /\ \/ GetOrder(after.orders, id) = old
             \/ GetOrder(after.orders, id).status = ToDafnyOrderStatus[status]
          /\ \A symbol :
               /\ Promise(old, symbol) \in Int /\ Promise(GetOrder(after.orders, id), symbol) \in Int
               /\ Promised(after.orders, symbol)
                    = Promised(account.orders, symbol)
                        - Promise(old, symbol) + Promise(GetOrder(after.orders, id), symbol)
      <4>1. TradedAccount(account) /\ ExistsOrder(account.orders, id) /\ status \in PythonStatus
        BY <1>2, <2>3
      <4>2. \/ IsStaleStatus(GetOrder(account.orders, id).status, status)
            \/ CanSetAccountOrderStatus(account, id, ToDafnyOrderStatus[status])
        BY <2>1
      <4> QED
        BY ONLY <4>1, <4>2, StatusMoves
    <3> HIDE DEF old, after
    <3>2. account' = after
      BY <2>2 DEF after
    <3> QED
      BY <3>1, <3>2
  <2>5. \A key \in DOMAIN orderIds : key # k =>
          GetOrder(account'.orders, orderIds[key]) = GetOrder(account.orders, orderIds[key])
    BY <1>2, <2>3, <2>4 DEF Tracks
  <2>6. /\ Booked(k) = old.filledQuantity /\ Booked(k)' = new.filledQuantity
        /\ \A symbol : /\ PromisedOf(k, symbol) = Promise(old, symbol)
                       /\ PromisedOf(k, symbol)' = Promise(new, symbol)
    BY <2>2, <2>3 DEF Booked, PromisedOf
  <2>7. ClientReady /\ k \in DOMAIN book /\ Booked(k) \in Nat
    BY <1>2, SlackType, TradedIsReady, SMTT(30) DEF Tracks
  <2>8. Booked(k)' = Booked(k) + 0
    BY <2>4, <2>6, <2>7
  <2>9. InFlight' = InFlight /\ u \notin InFlight
    BY <1>1, <2>2, RepetitionDropped DEF InFlight
  <2>10. \A key : Filled(InFlight, key) = Filled(InFlight', key) + (IF key = k THEN 0 ELSE 0)
    <3> SUFFICES ASSUME NEW key PROVE Filled(InFlight, key) = Filled(InFlight, key) + 0
      BY <2>9
    <3>1. Filled(InFlight, key) \in Nat
      BY InFlightType, TotalsType, SMTT(30) DEF IInv
    <3> QED
      BY <3>1
  <2>11. ~IsPromising(new) =>
           /\ Booked(k)' = book[k].filled_qty
           /\ IsLive(book[k]) => Remaining(book[k]) = 0
    <3> SUFFICES ASSUME ~IsPromising(new)
                 PROVE  /\ Booked(k) = book[k].filled_qty
                        /\ IsLive(book[k]) => Remaining(book[k]) = 0
      BY <2>7, <2>8
    <3>1. CASE new = old
      BY <2>3, <3>1 DEF OfferInv, EndedInv
    <3>2. CASE new.status = ToDafnyOrderStatus[status]
      <4>1. status \in {"cancelled", "rejected"}
        BY <1>2, <2>1, <3>2 DEF IsPromising, PythonStatus, ToDafnyOrderStatus
      <4>2. Ends(u)
        BY <1>1, <4>1 DEF Ends
      <4> QED
        BY <1>1, <1>3, <4>2, EndHeard
    <3> QED
      BY <2>4, <3>1, <3>2
  <2> HIDE DEF id, status, old, new, u
  <2>12. \A symbol \in Symbols :
           /\ PromisedOf(k, symbol)' \in Int
           /\ Promised(account'.orders, symbol)
                = Promised(account.orders, symbol)
                    - PromisedOf(k, symbol) + PromisedOf(k, symbol)'
           /\ Held(account'.positions, symbol)
                = Held(account.positions, symbol)
                    + (IF book[k].symbol # symbol THEN 0
                       ELSE IF book[k].side = "buy" THEN 0 ELSE 0 - 0)
    <3> TAKE symbol \in Symbols
    <3>1. Held(account.positions, symbol) \in Nat
      BY <2>7, AvailableType
    <3> QED
      BY <2>4, <2>6, <3>1
  <2>13. MarginInv'
    <3>1. 0 \in Nat
      OBVIOUS
    <3> QED
      BY <1>1, <2>2, <2>5, <2>7, <2>8, <2>12, <3>1, AccountMovesMargin DEF OfferInv
  <2> QED
    <3>1. 0 \in Nat /\ InFlight' \subseteq InFlight /\ Head(queue) \notin InFlight'
      BY <2>9 DEF u
    <3>2. ~IsPromising(GetOrder(account'.orders, orderIds[k])) =>
             /\ Booked(k)' = book[k].filled_qty
             /\ IsLive(book[k]) => Remaining(book[k]) = 0
      BY <2>3, <2>11 DEF new
    <3> QED
      BY <1>1, <2>2, <2>5, <2>8, <2>10, <2>13, <3>1, <3>2, HandledKeepsOffers
<1> QED
  BY <1>4, <1>5

\* A fill moves one order, and the promise with it; it ends the order when all is filled.
LEMMA FillMovesOne ==
  ASSUME NEW acct, TradedAccount(acct), NEW fill \in Fill, CanUpdate(acct, fill),
         NEW id, id = fill.orderId
  PROVE  LET after == UpdateCore(acct, fill)
             old   == GetOrder(acct.orders, id)
             new   == GetOrder(after.orders, id)
         IN  /\ ExistsOrder(acct.orders, id)
             /\ \A other : other # id /\ ExistsOrder(acct.orders, other) =>
                  GetOrder(after.orders, other) = GetOrder(acct.orders, other)
             /\ ~IsPromising(new) => new.filledQuantity = old.quantity
             /\ \A symbol :
                  /\ Promise(new, symbol) \in Int
                  /\ Promised(after.orders, symbol)
                       = Promised(acct.orders, symbol)
                           - Promise(old, symbol) + Promise(new, symbol)
<1> DEFINE old     == GetOrder(acct.orders, id)
           after   == UpdateCore(acct, fill)
           updated == ApplyFill(old, fill.quantity)
           new     == GetOrder(after.orders, id)
<1>1. acct.orders \in Seq(Order) /\ IsValidOrderSet(acct.orders)
  BY FieldsOfAccount DEF TradedAccount
<1>2. ExistsOrder(acct.orders, id) /\ CanApplyFill(old, fill.quantity) /\ fill.quantity \in Nat
  BY DEF CanUpdate, IsApplicableFill, Fill
<1>3. old \in Order /\ old.orderId = id
  <2>1. OrderIndex(acct.orders, id) \in DOMAIN acct.orders
    BY <1>2, OrderFound
  <2> QED
    BY <1>1, <1>2, <2>1, OrderFound DEF GetOrder
<1>4. after.orders = UpdateOrder(acct.orders, updated)
  BY DEF UpdateCore
<1>5. /\ updated \in Order /\ updated.orderId = id /\ IsValidOrder(updated)
      /\ updated.filledQuantity = old.filledQuantity + fill.quantity
  BY <1>2, <1>3, ApplyFillSound
<1>6. ~IsPromising(updated) => updated.filledQuantity = old.quantity
  <2> SUFFICES ASSUME ~IsPromising(updated) PROVE old.filledQuantity + fill.quantity = old.quantity
    BY <1>5
  <2>1. updated.status = IF old.filledQuantity + fill.quantity = old.quantity
                         THEN "Filled" ELSE "PartiallyFilled"
    BY <1>3 DEF ApplyFill, Order
  <2> QED
    BY <2>1 DEF IsPromising
<1> HIDE DEF updated, after, old
<1>7. ASSUME NEW other, ExistsOrder(acct.orders, other)
      PROVE  GetOrder(after.orders, other)
               = IF other = id THEN updated ELSE GetOrder(acct.orders, other)
  <2>1. GetOrder(after.orders, other)
          = IF other = updated.orderId THEN updated ELSE GetOrder(acct.orders, other)
    BY <1>1, <1>2, <1>4, <1>5, <1>7, OrderReplaced
  <2> QED
    BY <1>5, <2>1
<1>8. new = updated
  BY <1>2, <1>7
<1>9. GetOrder(acct.orders, updated.orderId) = old
  BY <1>5 DEF old
<1>10. \A symbol : /\ Promise(updated, symbol) \in Int
                   /\ Promised(after.orders, symbol)
                        = Promised(acct.orders, symbol)
                            - Promise(old, symbol) + Promise(updated, symbol)
  BY <1>1, <1>2, <1>4, <1>5, <1>9, PromiseIsNumber, PromisedReplaced
<1> HIDE DEF new
<1> QED
  BY <1>2, <1>6, <1>7, <1>8, <1>10 DEF old, after, new

\* A fill books what was in flight of its order, which it ends when all of it is filled.
LEMMA FillKeepsOffers ==
  ASSUME IInv, AgreeInv, OfferInv, HandlerRuns, HandlerReturns,
         IsTracked(Head(queue)), IsFillUpdate(Head(queue)), IsNewExecution(Head(queue)),
         NEW id, id = orderIds[Head(queue).order.id],
         CanUpdate(account, ToVQCFill(Head(queue), nextExecutionId, id)),
         account' = UpdateCore(account, ToVQCFill(Head(queue), nextExecutionId, id)),
         seen' = seen \cup {Head(queue).execution_id},
         UNCHANGED << book, shares, orderIds, user >>
  PROVE  OfferInv'
<1> DEFINE u    == Head(queue)
           fill == ToVQCFill(u, nextExecutionId, id)
           rest == InFlight'
           old  == GetOrder(account.orders, id)
           new  == GetOrder(account'.orders, id)
<1>1. /\ u \in Update(executions) /\ executions \in Nat
      /\ u.order.id \in DOMAIN orderIds
      /\ \A symbol :
           Held(account'.positions, symbol) = Held(account.positions, symbol)
             + (IF u.order.symbol = symbol THEN Signed(u) ELSE 0)
      /\ \A key : ExistsOrder(account.orders, key) =>
           /\ GetOrder(account.orders, key).filledQuantity \in Nat
           /\ GetOrder(account'.orders, key).filledQuantity
                = GetOrder(account.orders, key).filledQuantity + (IF key = id THEN u.qty ELSE 0)
      /\ rest \in SUBSET Update(executions) /\ IsFiniteSet(rest)
      /\ u \notin rest /\ InFlight = rest \cup {u}
  <2> HIDE DEF rest
  <2> QED
    BY FillHandled DEF rest
<1>2. PICK k \in DOMAIN orderIds : k = u.order.id
  BY <1>1
<1>3. id = orderIds[k] /\ TradedAccount(account) /\ Tracks(orderIds, account, book)
  BY <1>2, HandlerFacts
<1>4. /\ k \in DOMAIN book /\ ExistsOrder(account.orders, id)
      /\ old.quantity = book[k].qty
      /\ \A key \in DOMAIN orderIds : key # k =>
           orderIds[key] # id /\ ExistsOrder(account.orders, orderIds[key])
  BY <1>3 DEF Tracks, Mirrors
<1>5. book[k].symbol = u.order.symbol /\ book[k].side = u.order.side
  <2>1. IsCopy(u.order, book)
    BY AllHeardTracked DEF AgreeInv, HeardInv
  <2> QED
    BY <1>2, <2>1 DEF IsCopy, SameInstruction
<1>6. fill \in Fill /\ fill.orderId = id
  <2>1. fill \in Fill
    BY ExecutionConverted, SMTT(30)
  <2> QED
    BY <2>1 DEF ToVQCFill, FillRecord
<1>7. /\ \A other : other # id /\ ExistsOrder(account.orders, other) =>
           GetOrder(account'.orders, other) = GetOrder(account.orders, other)
      /\ ~IsPromising(new) => new.filledQuantity = old.quantity
      /\ \A symbol :
           /\ Promise(new, symbol) \in Int
           /\ Promised(account'.orders, symbol)
                = Promised(account.orders, symbol) - Promise(old, symbol) + Promise(new, symbol)
  <2> DEFINE after == UpdateCore(account, fill)
  <2>1. account' = after
    OBVIOUS
  <2> HIDE DEF fill
  <2>2. CanUpdate(account, fill)
    BY DEF fill
  <2>3. /\ \A other : other # id /\ ExistsOrder(account.orders, other) =>
             GetOrder(after.orders, other) = GetOrder(account.orders, other)
        /\ ~IsPromising(GetOrder(after.orders, id)) =>
             GetOrder(after.orders, id).filledQuantity = old.quantity
        /\ \A symbol :
             /\ Promise(GetOrder(after.orders, id), symbol) \in Int
             /\ Promised(after.orders, symbol)
                  = Promised(account.orders, symbol)
                      - Promise(old, symbol) + Promise(GetOrder(after.orders, id), symbol)
    BY ONLY <1>3, <1>6, <2>2, FillMovesOne, SMTT(30)
  <2> HIDE DEF after, old
  <2> QED
    BY <2>1, <2>3
<1> HIDE DEF fill, rest, old, new, u
<1>8. /\ u.qty \in Nat /\ Signed(u) \in Int
      /\ Signed(u) = IF book[k].side = "buy" THEN u.qty ELSE 0 - u.qty
  BY <1>1, <1>5, UpdateFields DEF Signed
<1>9. /\ Booked(k) = old.filledQuantity /\ Booked(k)' = new.filledQuantity
      /\ \A symbol : /\ PromisedOf(k, symbol) = Promise(old, symbol)
                     /\ PromisedOf(k, symbol)' = Promise(new, symbol)
  BY <1>3, SMTT(30) DEF Booked, PromisedOf, old, new
<1>10. Booked(k) \in Nat /\ Booked(k)' = Booked(k) + u.qty
  BY <1>1, <1>4, <1>9, ZenonT(60) DEF old, new
<1>11. \A key \in DOMAIN orderIds : key # k =>
         GetOrder(account'.orders, orderIds[key]) = GetOrder(account.orders, orderIds[key])
  BY <1>4, <1>7, SMTT(30)
<1>12. rest \subseteq InFlight /\ u \notin rest
  BY <1>1, SMTT(30)
<1>13. \A key : /\ Filled(InFlight, key) = Filled(rest, key) + (IF key = k THEN u.qty ELSE 0)
                /\ Filled(rest, key) \in Nat
  <2>1. \A key : Filled(rest \cup {u}, key)
                   = Filled(rest, key) + (IF u.order.id = key THEN u.qty ELSE 0)
    BY <1>1, OneMoreInFlight
  <2>2. \A key : Filled(rest, key) \in Nat
    BY <1>1, TotalsType
  <2> QED
    BY <1>1, <1>2, <2>1, <2>2
<1>14. ~IsPromising(new) =>
         /\ Booked(k)' = book[k].filled_qty
         /\ IsLive(book[k]) => Remaining(book[k]) = 0
  <2> SUFFICES ASSUME ~IsPromising(new)
               PROVE  Booked(k)' = book[k].filled_qty /\ book[k].qty - book[k].filled_qty = 0
    BY DEF Remaining
  <2>1. Booked(k)' = book[k].qty
    BY <1>4, <1>7, <1>9
  <2>2. Booked(k) + Filled(InFlight, k) <= book[k].filled_qty
    BY <1>4 DEF OfferInv, BookedInv, Known
  <2>3. book[k].filled_qty <= book[k].qty /\ book[k].filled_qty \in Nat /\ book[k].qty \in Nat
    BY <1>4, BookFields, BrokerOrderFields DEF IInv
  <2>4. Filled(InFlight, k) = Filled(rest, k) + u.qty /\ Filled(rest, k) \in Nat
    BY <1>13
  <2> QED
    BY <1>8, <1>10, <2>1, <2>2, <2>3, <2>4
<1>15. ClientReady
  BY <1>3, TradedIsReady, SMTT(30)
<1>16. \A symbol \in Symbols :
         /\ PromisedOf(k, symbol)' \in Int
         /\ Promised(account'.orders, symbol)
              = Promised(account.orders, symbol) - PromisedOf(k, symbol) + PromisedOf(k, symbol)'
         /\ Held(account'.positions, symbol)
              = Held(account.positions, symbol)
                  + (IF book[k].symbol # symbol THEN 0
                     ELSE IF book[k].side = "buy" THEN u.qty ELSE 0 - u.qty)
  BY <1>1, <1>5, <1>7, <1>8, <1>9, SMTT(30)
<1>17. MarginInv'
  BY <1>8, <1>10, <1>11, <1>15, <1>16, AccountMovesMargin DEF OfferInv
<1>18. /\ InFlight' \subseteq InFlight /\ Head(queue) \notin InFlight'
       /\ \A key : Filled(InFlight, key) = Filled(InFlight', key) + (IF key = k THEN u.qty ELSE 0)
       /\ ~IsPromising(GetOrder(account'.orders, orderIds[k])) =>
            /\ Booked(k)' = book[k].filled_qty
            /\ IsLive(book[k]) => Remaining(book[k]) = 0
  BY <1>3, <1>12, <1>13, <1>14 DEF rest, u, new
<1> QED
  BY <1>8, <1>10, <1>11, <1>17, <1>18, HandledKeepsOffers, SMTT(30)

\* A fill is applied, ignored as a repetition, or ends the stream.
LEMMA HandleFillKeepsOffers ==
  ASSUME IInv, AgreeInv, OfferInv, HandleFill
  PROVE  OfferInv'
<1> DEFINE u    == Head(queue)
           id   == orderIds[u.order.id]
           fill == ToVQCFill(u, nextExecutionId, id)
<1>1. /\ HandlerRuns /\ IsTracked(u) /\ IsFillUpdate(u)
      /\ UNCHANGED << book, shares, user >>
      /\ IF ~IsNewExecution(u)
         THEN HandlerReturns /\ UNCHANGED stateVars
         ELSE IF CanUpdate(account, fill)
         THEN /\ account' = UpdateCore(account, fill)
              /\ seen' = seen \cup {u.execution_id}
              /\ HandlerReturns
              /\ UNCHANGED orderIds
         ELSE HandlerRaises
  BY DEF HandleFill
<1>2. CASE ~IsNewExecution(u)
  BY <1>1, <1>2, RepetitionKeepsOffers
<1>3. CASE IsNewExecution(u) /\ CanUpdate(account, fill)
  BY <1>1, <1>3, FillKeepsOffers
<1>4. CASE IsNewExecution(u) /\ ~CanUpdate(account, fill)
  BY <1>1, <1>4, HandlerRaisesKeepsOffers
<1> QED
  BY <1>2, <1>3, <1>4

-----------------------------------------------------------------------------
(* Every step *)

\* The invariant of the offers is inductive on top of the agreement.
LEMMA NextKeepsOffers ==
  ASSUME QuietBroker, AnswersArrive, OrderlyBroker,
         IInv, IInv', CallPlaceable, AgreeInv, OfferInv, [Next]_vars
  PROVE  OfferInv'
<1>1. CASE SubmitOrder \/ Liquidate
  BY <1>1, SubmitKeepsOffers DEF SubmitOrder, Liquidate
<1>2. CASE CallerStep \/ AnswerWithoutStatus
  <2>1. CASE BrokerAccepts \/ BrokerRefuses
    BY <2>1, AcceptanceKeepsOffers, RefusalKeepsOffers
  <2>2. CASE TrackSubmittedOrder \/ AnswerWithoutStatus
    <3>1. PICK status \in FirstStatus : Register(status)
      BY <2>2, AnswerRegisters
    <3> QED
      BY <3>1, TrackKeepsOffers
  <2> QED
    BY <1>2, <2>1, <2>2 DEF CallerStep
<1>3. CASE AnswerLost \/ AnswerWithoutId
  BY <1>3 DEF AnswerLost, AnswerWithoutId, AnswersArrive, Fault
<1>4. CASE ReadPositions \/ ReadOrders \/ ReadCash \/ ReadFails \/ SnapshotWithoutId
  BY <1>4, SyncKeepsOffers
<1>5. CASE \/ Subscribe \/ StreamEnds \/ RecoverBrokerSnapshot \/ WorkerStops \/ Stop
           \/ UNCHANGED vars
  BY <1>5, PausesKeepOffers
<1>6. CASE HandleUntracked
  BY <1>6, AllHeardTracked DEF HandleUntracked
<1>7. CASE HandleLifecycleUpdate \/ HandleFill
  BY <1>7, LifecycleKeepsOffers, HandleFillKeepsOffers
<1>8. CASE HandleMalformed
  BY <1>8, HandlerRaisesKeepsOffers DEF HandleMalformed
<1>9. CASE BrokerMoves
  BY <1>9, BrokerKeepsOffers
<1>10. CASE OthersTrade
  BY <1>10 DEF OthersTrade, QuietBroker
<1>11. CASE StreamFault
  BY <1>11, StreamFaultKeepsOffers
<1>12. CASE Restart
  BY <1>12, RestartKeepsOffers
<1> QED
  BY <1>1, <1>2, <1>3, <1>4, <1>5, <1>6, <1>7, <1>8, <1>9, <1>10, <1>11, <1>12
     DEF Next, DaemonStep

\* The client's open sells never exceed the holding at the broker, although its guard
\* reads an account that lags behind: whatever is sold and cancelled meanwhile, however
\* updates are repeated or lost with the stream, whenever the worker synchronizes and
\* the process restarts, and even if the broker itself would accept more; provided the
\* stream keeps its order, an order that has ended stays so and does not end before its
\* answer, and nothing is oversold at the start, besides what InFlightAgrees asks for.
THEOREM NeverOversold ==
  ASSUME QuietBroker, AnswersArrive, WholeCentPrices, WholeCents, OrderlyBroker,
         CoveredAtStart
  PROVE  Spec => []NoOversell
<1>1. Init => CallPlaceable /\ AgreeInv /\ OfferInv
  BY InitAgrees, InitOffers DEF Init, CallPlaceable, Idle
<1>2. IInv /\ IInv' /\ CallPlaceable /\ AgreeInv /\ OfferInv /\ [Next]_vars
        => CallPlaceable' /\ AgreeInv' /\ OfferInv'
  BY NextKeepsPlaceable, NextKeepsAgreement, NextKeepsOffers
<1>3. OfferInv => NoOversell
  BY DEF OfferInv
<1> QED
  BY <1>1, <1>2, <1>3, AlwaysIInv, PTL DEF Spec
=============================================================================

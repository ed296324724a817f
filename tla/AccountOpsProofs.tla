-------------------------- MODULE AccountOpsProofs --------------------------
(***************************************************************************)
(* Lemmas about the pure account operations: what each lookup returns,     *)
(* what each helper preserves, and that every operation whose contract     *)
(* holds takes a good account to a good account.                           *)
(***************************************************************************)
EXTENDS AccountOps, TalliesProofs

-----------------------------------------------------------------------------
(* Lookups *)

\* A lookup of an order that exists finds an order with that id.
LEMMA OrderFound ==
  ASSUME NEW orders, NEW orderId, ExistsOrder(orders, orderId)
  PROVE  /\ OrderIndex(orders, orderId) \in DOMAIN orders
         /\ GetOrder(orders, orderId).orderId = orderId
  BY DEF ExistsOrder, OrderIndex, GetOrder

\* A lookup of a position that exists finds a position with that symbol.
LEMMA PositionFound ==
  ASSUME NEW positions, NEW symbol, ExistsPosition(positions, symbol)
  PROVE  /\ PositionIndex(positions, symbol) \in DOMAIN positions
         /\ GetPosition(positions, symbol).symbol = symbol
  BY DEF ExistsPosition, PositionIndex, GetPosition

\* With unique ids, the order at an index is the one a lookup of its id returns.
LEMMA OrderIndexUnique ==
  ASSUME NEW orders, IsValidOrderSet(orders), NEW i \in DOMAIN orders
  PROVE  OrderIndex(orders, orders[i].orderId) = i
  BY DEF IsValidOrderSet, OrderIndex

-----------------------------------------------------------------------------
(* Single orders and positions *)

\* What no operation ever changes in an order once it is placed.
IsSameOrder(before, after) ==
  /\ after.orderId = before.orderId
  /\ after.symbol = before.symbol
  /\ after.quantity = before.quantity
  /\ after.side = before.side
  /\ after.orderType = before.orderType

\* A legal status change keeps the order well formed, identified and consistent.
LEMMA SetStatusSound ==
  ASSUME NEW order \in Order, NEW newStatus \in OrderStatus,
         CanSetOrderStatus(order, newStatus)
  PROVE  /\ SetStatus(order, newStatus) \in Order
         /\ IsSameOrder(order, SetStatus(order, newStatus))
         /\ SetStatus(order, newStatus).orderId = order.orderId
         /\ SetStatus(order, newStatus).status = newStatus
         /\ SetStatus(order, newStatus).filledQuantity = order.filledQuantity
         /\ IsValidOrder(SetStatus(order, newStatus))
         /\ HasValidOrderStatus(SetStatus(order, newStatus))
  BY DEF SetStatus, CanSetOrderStatus, CanSetStatus, IsValidOrder, Order, IsSameOrder,
         HasValidOrderType, HasValidOrderStatus

\* An applicable fill raises the filled quantity by its own, moves the status
\* along a lifecycle edge, and leaves the order well formed and consistent.
LEMMA ApplyFillSound ==
  ASSUME NEW order \in Order, NEW n \in Nat, CanApplyFill(order, n)
  PROVE  /\ ApplyFill(order, n) \in Order
         /\ IsSameOrder(order, ApplyFill(order, n))
         /\ ApplyFill(order, n).orderId = order.orderId
         /\ ApplyFill(order, n).filledQuantity = order.filledQuantity + n
         /\ CanTransition(order.status, ApplyFill(order, n).status)
         /\ IsValidOrder(ApplyFill(order, n))
         /\ HasValidOrderStatus(ApplyFill(order, n))
<1> DEFINE filled == order.filledQuantity + n
           status == IF filled = order.quantity THEN "Filled" ELSE "PartiallyFilled"
           after == ApplyFill(order, n)
<1>1. /\ after \in Order
      /\ after.orderId = order.orderId
      /\ after.symbol = order.symbol
      /\ after.quantity = order.quantity
      /\ after.side = order.side
      /\ after.orderType = order.orderType
      /\ after.filledQuantity = filled
      /\ after.status = status
  <2> DEFINE mid == [order EXCEPT !.status = status]
  <2>1. /\ mid \in Order
        /\ mid.status = status
        /\ mid.orderId = order.orderId
        /\ mid.symbol = order.symbol
        /\ mid.quantity = order.quantity
        /\ mid.side = order.side
        /\ mid.orderType = order.orderType
    BY DEF Order, OrderStatus
  <2>2. after = [mid EXCEPT !.filledQuantity = filled]
    BY DEF ApplyFill
  <2>3. filled \in Nat
    BY DEF Order
  <2> HIDE DEF mid, filled
  <2> QED
    BY <2>1, <2>2, <2>3 DEF Order
<1>2. /\ IsValidOrder(order)
      /\ order.status \in {"Pending", "Open", "PartiallyFilled"}
      /\ n > 0
      /\ filled <= order.quantity
  BY DEF CanApplyFill, CanFill, CanAcceptFill, Order
<1>3. IsValidOrder(after)
  BY <1>1, <1>2 DEF IsValidOrder, HasValidOrderType
<1>4. HasValidOrderStatus(after)
  BY <1>1, <1>2 DEF HasValidOrderStatus, IsStatusCompatible, Order
<1>5. CanTransition(order.status, after.status)
  BY <1>1, <1>2 DEF CanTransition
<1> QED
  BY <1>1, <1>3, <1>4, <1>5 DEF IsSameOrder

\* The floor of a weighted mean lies between the two values it averages.
LEMMA WeightedMeanBounded ==
  ASSUME NEW a \in Int, NEW b \in Int, NEW m \in Nat, NEW n \in Nat, n > 0, a <= b
  PROVE  /\ (a * m + b * n) \div (m + n) \in Int
         /\ a <= (a * m + b * n) \div (m + n)
         /\ (a * m + b * n) \div (m + n) <= b
         /\ (b * m + a * n) \div (m + n) \in Int
         /\ a <= (b * m + a * n) \div (m + n)
         /\ (b * m + a * n) \div (m + n) <= b
<1>1. \A s, d, lo, hi \in Int :
        d > 0 /\ lo * d <= s /\ s <= hi * d => s \div d \in Int /\ lo <= s \div d /\ s \div d <= hi
  <2> SUFFICES ASSUME NEW s \in Int, NEW d \in Int, NEW lo \in Int, NEW hi \in Int,
                      d > 0, lo * d <= s, s <= hi * d
               PROVE  s \div d \in Int /\ lo <= s \div d /\ s \div d <= hi
    OBVIOUS
  <2> DEFINE q == s \div d
  <2>1. q \in Int /\ q * d <= s /\ s < (q + 1) * d
    BY Z3
  <2> HIDE DEF q
  <2>2. ~(q < lo)
    <3> SUFFICES ASSUME q + 1 <= lo PROVE FALSE
      BY <2>1
    <3>1. (q + 1) * d <= lo * d
      BY <2>1
    <3> QED
      BY <2>1, <3>1
  <2>3. ~(hi < q)
    <3> SUFFICES ASSUME hi + 1 <= q PROVE FALSE
      BY <2>1
    <3>1. (hi + 1) * d <= q * d
      BY <2>1
    <3> QED
      BY <2>1, <3>1
  <2> QED
    BY <2>1, <2>2, <2>3 DEF q
<1>2. a * m <= b * m /\ a * n <= b * n
  OBVIOUS
<1>3. /\ a * (m + n) = a * m + a * n
      /\ b * (m + n) = b * m + b * n
  OBVIOUS
<1>4. m + n \in Int /\ m + n > 0 /\ a * m + b * n \in Int /\ b * m + a * n \in Int
  OBVIOUS
<1>5. /\ a * (m + n) <= a * m + b * n
      /\ a * m + b * n <= b * (m + n)
      /\ a * (m + n) <= b * m + a * n
      /\ b * m + a * n <= b * (m + n)
  BY <1>2, <1>3
<1> QED
  BY <1>1, <1>4, <1>5

\* A buy keeps the position valid and open, adds the bought shares, and moves the
\* average price no further than the price paid.
LEMMA ApplyBuySound ==
  ASSUME NEW position \in Position, NEW fill \in Fill,
         IsValidPosition(position), IsValidFill(fill)
  PROVE  LET after == ApplyBuy(position, fill)
         IN  /\ after \in Position
             /\ after.symbol = position.symbol
             /\ after.quantity = position.quantity + fill.quantity
             /\ IsValidPosition(after)
             /\ IsOpen(after)
<1> DEFINE q == position.quantity
           avg == position.averagePrice
           n == fill.quantity
           p == fill.price
           mean == (avg * q + p * n) \div (q + n)
           after == ApplyBuy(position, fill)
<1>1. /\ q \in Nat /\ n \in Nat /\ avg \in Int /\ p \in Int
      /\ n > 0 /\ p > 0
      /\ q # 0 => avg > 0
      /\ position.symbol \in STRING /\ HasNonEmptySymbol(position.symbol)
  BY DEF Position, Fill, IsValidPosition, IsValidFill, IsOpen, IsClosed
<1>2. after = [symbol |-> position.symbol, quantity |-> q + n,
               averagePrice |-> IF q = 0 THEN p ELSE mean]
  BY DEF ApplyBuy
<1> HIDE DEF q, avg, n, p
<1>3. q # 0 => mean \in Int /\ mean > 0
  <2>1. CASE avg <= p
    BY <1>1, <2>1, WeightedMeanBounded
  <2>2. CASE p <= avg
    BY <1>1, <2>2, WeightedMeanBounded
  <2> QED
    BY <1>1, <2>1, <2>2
<1> HIDE DEF mean, after
<1>4. after \in Position
  BY <1>1, <1>2, <1>3 DEF Position
<1>5. IsValidPosition(after) /\ IsOpen(after)
  BY <1>1, <1>2, <1>3 DEF IsValidPosition, IsOpen
<1> QED
  BY <1>2, <1>4, <1>5 DEF after, q, n

\* A sell of shares that are held keeps the position valid, removes the sold
\* shares, and leaves it either open or closed with no average price.
LEMMA ApplySellSound ==
  ASSUME NEW position \in Position, NEW fill \in Fill,
         IsValidPosition(position), IsValidFill(fill),
         position.quantity >= fill.quantity
  PROVE  LET after == ApplySell(position, fill)
         IN  /\ after \in Position
             /\ after.symbol = position.symbol
             /\ after.quantity = position.quantity - fill.quantity
             /\ IsValidPosition(after)
  BY DEF ApplySell, Position, Fill, IsValidPosition, IsValidFill, IsOpen, IsClosed

-----------------------------------------------------------------------------
(* Collections *)

\* Replacing an order by a valid one with its id keeps the order set valid.
LEMMA UpdateOrderSound ==
  ASSUME NEW orders \in Seq(Order), NEW updated \in Order,
         IsValidOrderSet(orders), IsValidOrder(updated),
         ExistsOrder(orders, updated.orderId)
  PROVE  /\ UpdateOrder(orders, updated) \in Seq(Order)
         /\ IsValidOrderSet(UpdateOrder(orders, updated))
         /\ HasLifecycleConsistentOrders(orders) /\ HasValidOrderStatus(updated)
              => HasLifecycleConsistentOrders(UpdateOrder(orders, updated))
<1> DEFINE k == OrderIndex(orders, updated.orderId)
           after == UpdateOrder(orders, updated)
<1>1. k \in DOMAIN orders /\ orders[k].orderId = updated.orderId
  BY OrderFound DEF GetOrder
<1>2. after = [orders EXCEPT ![k] = updated]
  BY DEF UpdateOrder
<1>3. /\ after \in Seq(Order)
      /\ DOMAIN after = DOMAIN orders
      /\ \A i \in DOMAIN orders : after[i] = IF i = k THEN updated ELSE orders[i]
  BY <1>1, <1>2
<1> HIDE DEF k, after
<1>4. IsValidOrderSet(after)
  BY <1>1, <1>3 DEF IsValidOrderSet
<1>5. HasLifecycleConsistentOrders(orders) /\ HasValidOrderStatus(updated)
        => HasLifecycleConsistentOrders(after)
  BY <1>1, <1>3 DEF HasLifecycleConsistentOrders
<1> QED
  BY <1>3, <1>4, <1>5 DEF after

\* The update replaces exactly the order with the updated id.
LEMMA UpdateOrderElements ==
  ASSUME NEW orders \in Seq(Order), NEW updated \in Order,
         IsValidOrderSet(orders), ExistsOrder(orders, updated.orderId)
  PROVE  /\ DOMAIN UpdateOrder(orders, updated) = DOMAIN orders
         /\ \A i \in DOMAIN orders :
              UpdateOrder(orders, updated)[i]
                = IF orders[i].orderId = updated.orderId THEN updated ELSE orders[i]
<1> DEFINE k == OrderIndex(orders, updated.orderId)
<1>1. k \in DOMAIN orders /\ orders[k].orderId = updated.orderId
  BY OrderFound DEF GetOrder
<1> HIDE DEF k
<1>2. \A i \in DOMAIN orders : i = k <=> orders[i].orderId = updated.orderId
  BY <1>1 DEF IsValidOrderSet
<1>3. UpdateOrder(orders, updated) = [orders EXCEPT ![k] = updated]
  BY DEF UpdateOrder, k
<1> QED
  BY <1>1, <1>2, <1>3

\* Appending a valid order whose id is new keeps the order set valid.
LEMMA AppendOrderSound ==
  ASSUME NEW orders \in Seq(Order), NEW order \in Order,
         IsValidOrderSet(orders), IsValidOrder(order),
         ~ExistsOrder(orders, order.orderId)
  PROVE  /\ Append(orders, order) \in Seq(Order)
         /\ IsValidOrderSet(Append(orders, order))
         /\ HasLifecycleConsistentOrders(orders) /\ HasValidOrderStatus(order)
              => HasLifecycleConsistentOrders(Append(orders, order))
<1> DEFINE after == Append(orders, order)
<1>1. /\ after \in Seq(Order)
      /\ DOMAIN after = 1 .. Len(orders) + 1
      /\ DOMAIN orders = 1 .. Len(orders)
      /\ Len(orders) \in Nat
      /\ \A i \in DOMAIN orders : after[i] = orders[i]
      /\ after[Len(orders) + 1] = order
  OBVIOUS
<1> HIDE DEF after
<1>2. \A i \in DOMAIN after : i \in DOMAIN orders \/ i = Len(orders) + 1
  BY <1>1
<1>3. IsValidOrderSet(after)
  BY <1>1, <1>2 DEF IsValidOrderSet, ExistsOrder
<1>4. HasLifecycleConsistentOrders(orders) /\ HasValidOrderStatus(order)
        => HasLifecycleConsistentOrders(after)
  BY <1>1, <1>2 DEF HasLifecycleConsistentOrders
<1> QED
  BY <1>1, <1>3, <1>4 DEF after

\* Storing an open position under its symbol keeps the position set valid.
LEMMA UpsertPositionSound ==
  ASSUME NEW positions \in Seq(Position), NEW updated \in Position,
         IsValidPositionSet(positions), IsValidPosition(updated), IsOpen(updated)
  PROVE  /\ UpsertPosition(positions, updated) \in Seq(Position)
         /\ IsValidPositionSet(UpsertPosition(positions, updated))
<1> DEFINE after == UpsertPosition(positions, updated)
<1>1. CASE ExistsPosition(positions, updated.symbol)
  <2> DEFINE k == PositionIndex(positions, updated.symbol)
  <2>1. k \in DOMAIN positions /\ positions[k].symbol = updated.symbol
    BY <1>1, PositionFound DEF GetPosition
  <2>2. after = [positions EXCEPT ![k] = updated]
    BY <1>1 DEF UpsertPosition
  <2>3. /\ after \in Seq(Position)
        /\ DOMAIN after = DOMAIN positions
        /\ \A i \in DOMAIN positions : after[i] = IF i = k THEN updated ELSE positions[i]
    BY <2>1, <2>2
  <2> HIDE DEF k, after
  <2> QED
    BY <2>1, <2>3 DEF IsValidPositionSet, after
<1>2. CASE ~ExistsPosition(positions, updated.symbol)
  <2>1. after = Append(positions, updated)
    BY <1>2 DEF UpsertPosition
  <2>2. /\ after \in Seq(Position)
        /\ DOMAIN after = 1 .. Len(positions) + 1
        /\ DOMAIN positions = 1 .. Len(positions)
        /\ Len(positions) \in Nat
        /\ \A i \in DOMAIN positions : after[i] = positions[i]
        /\ after[Len(positions) + 1] = updated
    BY <2>1
  <2> HIDE DEF after
  <2>3. \A i \in DOMAIN after : i \in DOMAIN positions \/ i = Len(positions) + 1
    BY <2>2
  <2> QED
    BY <1>2, <2>2, <2>3 DEF IsValidPositionSet, ExistsPosition, after
<1> QED
  BY <1>1, <1>2

\* Removal keeps every position but the one of the symbol: index i of the
\* shorter list holds what index i or i + 1 held.
LEMMA RemovePositionElements ==
  ASSUME NEW positions \in Seq(Position), NEW symbol, ExistsPosition(positions, symbol)
  PROVE  LET k == PositionIndex(positions, symbol)
             after == RemovePosition(positions, symbol)
             At(i) == IF i < k THEN i ELSE i + 1
         IN  /\ after \in Seq(Position)
             /\ \A i \in DOMAIN after :
                  At(i) \in DOMAIN positions /\ At(i) # k /\ after[i] = positions[At(i)]
             /\ \A i, j \in DOMAIN after : i # j => At(i) # At(j)
             /\ \A j \in DOMAIN positions : j # k => \E i \in DOMAIN after : At(i) = j
<1> DEFINE k == PositionIndex(positions, symbol)
           front == SubSeq(positions, 1, k - 1)
           back == SubSeq(positions, k + 1, Len(positions))
           after == front \o back
           At(i) == IF i < k THEN i ELSE i + 1
<1>1. k \in DOMAIN positions /\ k \in 1 .. Len(positions) /\ Len(positions) \in Nat
  BY PositionFound
<1>2. RemovePosition(positions, symbol) = after
  BY DEF RemovePosition, RemoveAt
<1>3. /\ front \in Seq(Position) /\ Len(front) = k - 1
      /\ \A i \in 1 .. k - 1 : front[i] = positions[i]
  BY <1>1, SubSeqProperties
<1>4. /\ back \in Seq(Position) /\ Len(back) = Len(positions) - k
      /\ \A i \in 1 .. Len(positions) - k : back[i] = positions[k + i]
  BY <1>1, SubSeqProperties
<1> HIDE DEF k, front, back
<1>5. /\ after \in Seq(Position)
      /\ DOMAIN after = 1 .. Len(positions) - 1
      /\ \A i \in DOMAIN after : At(i) \in DOMAIN positions /\ after[i] = positions[At(i)]
  <2>1. /\ after \in Seq(Position)
        /\ Len(after) = Len(front) + Len(back)
        /\ \A i \in 1 .. Len(front) + Len(back) :
              after[i] = IF i <= Len(front) THEN front[i] ELSE back[i - Len(front)]
    BY <1>3, <1>4, ConcatProperties
  <2> HIDE DEF after
  <2>2. Len(front) + Len(back) = Len(positions) - 1
    BY <1>1, <1>3, <1>4
  <2>3. DOMAIN after = 1 .. Len(positions) - 1
    BY <2>1, <2>2
  <2>4. ASSUME NEW i \in 1 .. Len(positions) - 1
        PROVE  At(i) \in DOMAIN positions /\ after[i] = positions[At(i)]
    <3>1. CASE i < k
      BY <1>1, <1>3, <2>1, <2>2, <3>1
    <3>2. CASE ~(i < k)
      <4>1. i - (k - 1) \in 1 .. Len(positions) - k /\ k + (i - (k - 1)) = i + 1
        BY <1>1, <3>2
      <4>2. after[i] = back[i - (k - 1)]
        BY <1>1, <1>3, <2>1, <2>2, <3>2, SMTT(30)
      <4>3. after[i] = positions[i + 1]
        BY <1>4, <4>1, <4>2
      <4> QED
        BY <1>1, <3>2, <4>3
    <3> QED
      BY <3>1, <3>2
  <2> QED
    BY <2>1, <2>3, <2>4
<1> HIDE DEF after
<1>6. \A i, j \in DOMAIN after : i # j => At(i) # At(j)
  BY <1>1, <1>5
<1>7. \A i \in DOMAIN after : At(i) # k
  BY <1>1, <1>5
<1>8. ASSUME NEW j \in DOMAIN positions, j # k
      PROVE  \E i \in DOMAIN after : At(i) = j
  <2> DEFINE i == IF j < k THEN j ELSE j - 1
  <2>1. i \in DOMAIN after /\ At(i) = j
    BY <1>1, <1>5, <1>8
  <2> QED
    BY <2>1
<1> HIDE DEF At
<1> QED
  BY <1>2, <1>5, <1>6, <1>7, <1>8 DEF k, At

\* Removing the position of a symbol keeps the position set valid.
LEMMA RemovePositionSound ==
  ASSUME NEW positions \in Seq(Position), NEW symbol,
         IsValidPositionSet(positions), ExistsPosition(positions, symbol)
  PROVE  /\ RemovePosition(positions, symbol) \in Seq(Position)
         /\ IsValidPositionSet(RemovePosition(positions, symbol))
<1> DEFINE k == PositionIndex(positions, symbol)
           after == RemovePosition(positions, symbol)
           At(i) == IF i < k THEN i ELSE i + 1
<1>1. /\ after \in Seq(Position)
      /\ \A i \in DOMAIN after : At(i) \in DOMAIN positions /\ after[i] = positions[At(i)]
      /\ \A i, j \in DOMAIN after : i # j => At(i) # At(j)
  BY RemovePositionElements
<1> HIDE DEF after, At
<1> QED
  BY <1>1 DEF IsValidPositionSet, after

\* With one position per symbol, a lookup returns the position at each index.
LEMMA PositionAtIndex ==
  ASSUME NEW positions, IsValidPositionSet(positions), NEW i \in DOMAIN positions
  PROVE  PositionOrEmpty(positions, positions[i].symbol) = positions[i]
<1>1. ExistsPosition(positions, positions[i].symbol)
  BY DEF ExistsPosition
<1>2. PositionIndex(positions, positions[i].symbol) = i
  BY DEF IsValidPositionSet, PositionIndex
<1> QED
  BY <1>1, <1>2 DEF PositionOrEmpty, GetPosition

\* A position found in one list, and nowhere else under its symbol, is what the
\* lookup returns; a symbol found nowhere is held in no quantity.
LEMMA PositionLookup ==
  ASSUME NEW positions, NEW symbol
  PROVE  /\ \A i \in DOMAIN positions :
              /\ positions[i].symbol = symbol
              /\ \A j \in DOMAIN positions : positions[j].symbol = symbol => j = i
              => PositionOrEmpty(positions, symbol) = positions[i]
         /\ (\A i \in DOMAIN positions : positions[i].symbol # symbol)
              => PositionOrEmpty(positions, symbol)
                   = [symbol |-> symbol, quantity |-> 0, averagePrice |-> 0]
<1>1. ASSUME NEW i \in DOMAIN positions, positions[i].symbol = symbol,
             \A j \in DOMAIN positions : positions[j].symbol = symbol => j = i
      PROVE  PositionOrEmpty(positions, symbol) = positions[i]
  <2>1. PositionIndex(positions, symbol) = i /\ ExistsPosition(positions, symbol)
    BY <1>1 DEF PositionIndex, ExistsPosition
  <2> QED
    BY <2>1 DEF PositionOrEmpty, GetPosition
<1>2. ASSUME \A i \in DOMAIN positions : positions[i].symbol # symbol
      PROVE  PositionOrEmpty(positions, symbol)
               = [symbol |-> symbol, quantity |-> 0, averagePrice |-> 0]
  BY <1>2 DEF PositionOrEmpty, ExistsPosition
<1> QED
  BY <1>1, <1>2

\* Storing a position changes the lookup of its own symbol only.
LEMMA UpsertPositionLookup ==
  ASSUME NEW positions \in Seq(Position), IsValidPositionSet(positions),
         NEW updated \in Position, NEW symbol
  PROVE  PositionOrEmpty(UpsertPosition(positions, updated), symbol)
           = IF symbol = updated.symbol THEN updated ELSE PositionOrEmpty(positions, symbol)
<1> DEFINE after == UpsertPosition(positions, updated)
<1>0. \A i, j \in DOMAIN positions : positions[i].symbol = positions[j].symbol => i = j
  BY DEF IsValidPositionSet
<1>1. CASE ExistsPosition(positions, updated.symbol)
  <2> DEFINE k == PositionIndex(positions, updated.symbol)
  <2>1. k \in DOMAIN positions /\ positions[k].symbol = updated.symbol
    BY <1>1, PositionFound DEF GetPosition
  <2>2. after = [positions EXCEPT ![k] = updated]
    BY <1>1 DEF UpsertPosition
  <2>3. /\ DOMAIN after = DOMAIN positions
        /\ \A i \in DOMAIN positions : after[i] = IF i = k THEN updated ELSE positions[i]
    BY <2>1, <2>2
  <2> HIDE DEF k, after
  <2>4. \A i \in DOMAIN after : after[i].symbol = positions[i].symbol
    BY <2>1, <2>3
  <2>5. CASE symbol = updated.symbol
    <3>1. PositionOrEmpty(after, symbol) = after[k]
      BY <1>0, <2>1, <2>3, <2>4, <2>5, PositionLookup
    <3> QED
      BY <2>1, <2>3, <2>5, <3>1 DEF after
  <2>6. CASE symbol # updated.symbol /\ ExistsPosition(positions, symbol)
    <3>1. PICK i \in DOMAIN positions : positions[i].symbol = symbol
      BY <2>6 DEF ExistsPosition
    <3>2. after[i] = positions[i]
      BY <2>1, <2>3, <2>6, <3>1
    <3>3. PositionOrEmpty(after, symbol) = after[i]
      BY <1>0, <2>3, <2>4, <3>1, PositionLookup
    <3>4. PositionOrEmpty(positions, symbol) = positions[i]
      BY <1>0, <3>1, PositionLookup
    <3> QED
      BY <2>6, <3>2, <3>3, <3>4 DEF after
  <2>7. CASE symbol # updated.symbol /\ ~ExistsPosition(positions, symbol)
    <3>1. \A i \in DOMAIN positions : positions[i].symbol # symbol
      BY <2>7 DEF ExistsPosition
    <3>2. \A i \in DOMAIN after : after[i].symbol # symbol
      BY <2>3, <2>4, <3>1
    <3> QED
      BY <2>7, <3>1, <3>2, PositionLookup DEF after
  <2> QED
    BY <2>5, <2>6, <2>7
<1>2. CASE ~ExistsPosition(positions, updated.symbol)
  <2>1. after = Append(positions, updated)
    BY <1>2 DEF UpsertPosition
  <2>2. /\ DOMAIN after = 1 .. Len(positions) + 1
        /\ DOMAIN positions = 1 .. Len(positions)
        /\ Len(positions) \in Nat
        /\ \A i \in DOMAIN positions : after[i] = positions[i]
        /\ after[Len(positions) + 1] = updated
    BY <2>1
  <2> HIDE DEF after
  <2>3. \A i \in DOMAIN after : i \in DOMAIN positions \/ i = Len(positions) + 1
    BY <2>2
  <2>4. \A i \in DOMAIN positions : i \in DOMAIN after /\ positions[i].symbol # updated.symbol
    BY <1>2, <2>2 DEF ExistsPosition
  <2>5. CASE symbol = updated.symbol
    <3>1. Len(positions) + 1 \in DOMAIN after
      BY <2>2
    <3>2. PositionOrEmpty(after, symbol) = after[Len(positions) + 1]
      BY <2>2, <2>3, <2>4, <2>5, <3>1, PositionLookup
    <3> QED
      BY <2>2, <2>5, <3>2 DEF after
  <2>6. CASE symbol # updated.symbol /\ ExistsPosition(positions, symbol)
    <3>1. PICK i \in DOMAIN positions : positions[i].symbol = symbol
      BY <2>6 DEF ExistsPosition
    <3>2. PositionOrEmpty(after, symbol) = after[i]
      BY <1>0, <2>2, <2>3, <2>4, <2>6, <3>1, PositionLookup
    <3>3. PositionOrEmpty(positions, symbol) = positions[i]
      BY <1>0, <3>1, PositionLookup
    <3> QED
      BY <2>2, <2>6, <3>1, <3>2, <3>3 DEF after
  <2>7. CASE symbol # updated.symbol /\ ~ExistsPosition(positions, symbol)
    <3>1. \A i \in DOMAIN positions : positions[i].symbol # symbol
      BY <2>7 DEF ExistsPosition
    <3>2. \A i \in DOMAIN after : after[i].symbol # symbol
      BY <2>2, <2>3, <2>7, <3>1
    <3> QED
      BY <2>7, <3>1, <3>2, PositionLookup DEF after
  <2> QED
    BY <2>5, <2>6, <2>7
<1> QED
  BY <1>1, <1>2

\* Removing a position changes the lookup of its own symbol only.
LEMMA RemovePositionLookup ==
  ASSUME NEW positions \in Seq(Position), NEW removed, NEW symbol,
         IsValidPositionSet(positions), ExistsPosition(positions, removed)
  PROVE  PositionOrEmpty(RemovePosition(positions, removed), symbol)
           = IF symbol = removed
             THEN [symbol |-> removed, quantity |-> 0, averagePrice |-> 0]
             ELSE PositionOrEmpty(positions, symbol)
<1> DEFINE k == PositionIndex(positions, removed)
           after == RemovePosition(positions, removed)
           At(i) == IF i < k THEN i ELSE i + 1
<1>0. \A i, j \in DOMAIN positions : positions[i].symbol = positions[j].symbol => i = j
  BY DEF IsValidPositionSet
<1>1. /\ \A i \in DOMAIN after :
            At(i) \in DOMAIN positions /\ At(i) # k /\ after[i] = positions[At(i)]
      /\ \A i, j \in DOMAIN after : i # j => At(i) # At(j)
      /\ \A j \in DOMAIN positions : j # k => \E i \in DOMAIN after : At(i) = j
  BY RemovePositionElements
<1>2. k \in DOMAIN positions /\ positions[k].symbol = removed
  BY PositionFound DEF GetPosition
<1> HIDE DEF k, after, At
<1>3. \A i \in DOMAIN after : after[i].symbol # removed
  BY <1>0, <1>1, <1>2
<1>4. CASE symbol = removed
  BY <1>3, <1>4, PositionLookup DEF after
<1>5. CASE symbol # removed /\ ExistsPosition(positions, symbol)
  <2>1. PICK j \in DOMAIN positions : positions[j].symbol = symbol
    BY <1>5 DEF ExistsPosition
  <2>2. PICK i \in DOMAIN after : At(i) = j
    BY <1>1, <1>2, <1>5, <2>1
  <2>3. after[i] = positions[j]
    BY <1>1, <2>2
  <2>4. \A m \in DOMAIN after : after[m].symbol = symbol => m = i
    BY <1>0, <1>1, <2>1, <2>2
  <2>5. PositionOrEmpty(after, symbol) = after[i]
    BY <2>1, <2>3, <2>4, PositionLookup
  <2>6. PositionOrEmpty(positions, symbol) = positions[j]
    BY <1>0, <2>1, PositionLookup
  <2> QED
    BY <1>5, <2>3, <2>5, <2>6 DEF after
<1>6. CASE symbol # removed /\ ~ExistsPosition(positions, symbol)
  <2>1. \A j \in DOMAIN positions : positions[j].symbol # symbol
    BY <1>6 DEF ExistsPosition
  <2>2. \A i \in DOMAIN after : after[i].symbol # symbol
    BY <1>1, <2>1
  <2> QED
    BY <1>6, <2>1, <2>2, PositionLookup DEF after
<1> QED
  BY <1>4, <1>5, <1>6

-----------------------------------------------------------------------------
(* Ledger *)

\* The next ledger id is positive and belongs to no entry yet
\* (NextLedgerIdIsFresh in LedgerProof.dfy).
LEMMA NextLedgerIdFresh ==
  ASSUME NEW entries \in Seq(LedgerEntry)
  PROVE  /\ NextLedgerId(entries) \in Nat
         /\ NextLedgerId(entries) > 0
         /\ ~ContainsLedgerId(entries, NextLedgerId(entries))
<1> DEFINE ids == [i \in DOMAIN entries |-> entries[i].ledgerId]
           m == MaxLedgerId(entries)
<1>1. ids \in Seq(Nat) /\ DOMAIN ids = DOMAIN entries
  <2>1. \A i \in DOMAIN entries : entries[i].ledgerId \in Nat
    BY DEF LedgerEntry
  <2> QED
    BY <2>1
<1>2. m = Max({0} \cup {ids[i] : i \in DOMAIN ids})
  BY DEF MaxLedgerId
<1>3. \A i \in DOMAIN entries : entries[i].ledgerId = ids[i]
  OBVIOUS
<1> HIDE DEF m, ids
<1>4. m \in Nat /\ \A i \in DOMAIN ids : ids[i] \in Nat /\ ids[i] <= m
  BY <1>1, <1>2, MaxOfSequence
<1>5. ~ContainsLedgerId(entries, m + 1)
  BY <1>1, <1>3, <1>4 DEF ContainsLedgerId
<1> QED
  BY <1>4, <1>5 DEF NextLedgerId, m

\* Appending a valid entry whose id is new keeps the ledger valid.
LEMMA AppendEntrySound ==
  ASSUME NEW entries \in Seq(LedgerEntry), NEW entry \in LedgerEntry,
         IsValidLedger(entries),
         IsValidEntry(entry), ~IsOpeningEntry(entry),
         ~ContainsLedgerId(entries, entry.ledgerId)
  PROVE  /\ Append(entries, entry) \in Seq(LedgerEntry)
         /\ IsValidLedger(Append(entries, entry))
<1> DEFINE after == Append(entries, entry)
<1>1. /\ after \in Seq(LedgerEntry)
      /\ DOMAIN after = 1 .. Len(entries) + 1
      /\ DOMAIN entries = 1 .. Len(entries)
      /\ Len(entries) \in Nat
      /\ \A i \in DOMAIN entries : after[i] = entries[i]
      /\ after[Len(entries) + 1] = entry
  OBVIOUS
<1> HIDE DEF after
<1>2. \A i \in DOMAIN after : i \in DOMAIN entries \/ i = Len(entries) + 1
  BY <1>1
<1>3. IsValidLedger(after)
  <2>1. \A i \in DOMAIN after : IsValidEntry(after[i])
    BY <1>1, <1>2 DEF IsValidLedger
  <2>2. AllUniqueLedgerIds(after)
    BY <1>1, <1>2 DEF IsValidLedger, AllUniqueLedgerIds, ContainsLedgerId
  <2>3. HasOpeningOnlyAtStart(after)
    BY <1>1, <1>2 DEF IsValidLedger, HasOpeningOnlyAtStart
  <2> QED
    BY <2>1, <2>2, <2>3 DEF IsValidLedger
<1> QED
  BY <1>1, <1>3 DEF after

-----------------------------------------------------------------------------
(* The account operations *)

\* What every operation preserves.  It is stronger than IsValidAccount by the
\* type and the lifecycle consistency of the orders.
GoodAccount(account) ==
  /\ account \in Account
  /\ IsValidAccount(account)
  /\ HasLifecycleConsistentOrders(account.orders)

\* What a good account says of each of its fields.
LEMMA FieldsOfAccount ==
  ASSUME NEW account, GoodAccount(account)
  PROVE  /\ account.cash \in Int
         /\ account.ledger \in Seq(LedgerEntry) /\ IsValidLedger(account.ledger)
                /\ account.positions \in Seq(Position) /\ IsValidPositionSet(account.positions)
         /\ account.orders \in Seq(Order) /\ IsValidOrderSet(account.orders)
         /\ HasLifecycleConsistentOrders(account.orders)
  BY DEF GoodAccount, Account, IsValidAccount

\* An account assembled from fields like these is good.
LEMMA AccountFromFields ==
  ASSUME NEW cash \in Int, NEW ledger \in Seq(LedgerEntry),
         NEW positions \in Seq(Position), NEW orders \in Seq(Order),
         IsValidLedger(ledger),
         IsValidPositionSet(positions), IsValidOrderSet(orders),
         HasLifecycleConsistentOrders(orders)
  PROVE  GoodAccount([cash |-> cash, ledger |-> ledger,
                      positions |-> positions, orders |-> orders])
  BY DEF GoodAccount, Account, IsValidAccount

\* The empty account is good.
LEMMA NewAccountGood == GoodAccount(NewAccount)
  BY DEF GoodAccount, NewAccount, Account, IsValidAccount, IsValidLedger,
     AllUniqueLedgerIds, HasOpeningOnlyAtStart, IsValidPositionSet, IsValidOrderSet,
     HasLifecycleConsistentOrders

\* A snapshot that Bootstrap accepts opens a good account.
LEMMA BootstrapGood ==
  ASSUME NEW cash \in Int, NEW positions \in Seq(Position),
         NEW orders \in Seq(Order), NEW ledgerId \in Nat,
         CanBootstrap(cash, positions, orders, ledgerId)
  PROVE  GoodAccount(BootstrapCore(cash, positions, orders, ledgerId))
<1> DEFINE entry == [kind |-> "Opening", ledgerId |-> ledgerId, cash |-> cash,
                     positions |-> positions, orders |-> orders]
           ledger == << entry >>
<1>1. /\ ledgerId > 0
      /\ IsValidPositionSet(positions)
      /\ IsValidOrderSet(orders)
      /\ HasLifecycleConsistentOrders(orders)
  BY DEF CanBootstrap
<1>2. entry \in LedgerEntry /\ IsValidEntry(entry) /\ entry.ledgerId = ledgerId
  BY <1>1 DEF LedgerEntry, IsValidEntry
<1>3. BootstrapCore(cash, positions, orders, ledgerId)
        = [cash |-> cash, ledger |-> ledger, positions |-> positions, orders |-> orders]
  BY DEF BootstrapCore
<1> HIDE DEF entry
<1>4. /\ ledger \in Seq(LedgerEntry)
      /\ DOMAIN ledger = {1}
      /\ ledger[1] = entry
  BY <1>2
<1>5. IsValidLedger(ledger)
  BY <1>2, <1>4 DEF IsValidLedger, AllUniqueLedgerIds, HasOpeningOnlyAtStart
<1> HIDE DEF ledger
<1> QED
  BY <1>1, <1>3, <1>4, <1>5, AccountFromFields

\* A deposit under a fresh id keeps the account good.
LEMMA DepositGood ==
  ASSUME NEW account, GoodAccount(account), NEW id \in Nat, NEW amount \in Int,
         CanDeposit(account, id, amount)
  PROVE  GoodAccount(DepositCore(account, id, amount))
<1> DEFINE entry == [kind |-> "Deposit", ledgerId |-> id, amount |-> amount]
<1>1. /\ entry \in LedgerEntry /\ IsValidEntry(entry) /\ ~IsOpeningEntry(entry)
      /\ ~ContainsLedgerId(account.ledger, entry.ledgerId)
  BY DEF LedgerEntry, CanDeposit, IsValidEntry, IsOpeningEntry
<1> HIDE DEF entry
<1>2. DepositCore(account, id, amount)
        = [cash |-> account.cash + amount, ledger |-> Append(account.ledger, entry),
           positions |-> account.positions, orders |-> account.orders]
  BY DEF DepositCore, entry
<1>3. /\ Append(account.ledger, entry) \in Seq(LedgerEntry)
      /\ IsValidLedger(Append(account.ledger, entry))
  BY <1>1, FieldsOfAccount, AppendEntrySound
<1>4. account.cash + amount \in Int
  BY FieldsOfAccount
<1> QED
  BY <1>2, <1>3, <1>4, FieldsOfAccount, AccountFromFields

\* A covered withdrawal under a fresh id keeps the account good.
LEMMA WithdrawGood ==
  ASSUME NEW account, GoodAccount(account), NEW id \in Nat, NEW amount \in Int,
         CanWithdraw(account, id, amount)
  PROVE  GoodAccount(WithdrawCore(account, id, amount))
<1> DEFINE entry == [kind |-> "Withdrawal", ledgerId |-> id, amount |-> amount]
<1>1. /\ entry \in LedgerEntry /\ IsValidEntry(entry) /\ ~IsOpeningEntry(entry)
      /\ ~ContainsLedgerId(account.ledger, entry.ledgerId)
  BY DEF LedgerEntry, CanWithdraw, CanDeposit, IsValidEntry, IsOpeningEntry
<1> HIDE DEF entry
<1>2. WithdrawCore(account, id, amount)
        = [cash |-> account.cash - amount, ledger |-> Append(account.ledger, entry),
           positions |-> account.positions, orders |-> account.orders]
  BY DEF WithdrawCore, entry
<1>3. /\ Append(account.ledger, entry) \in Seq(LedgerEntry)
      /\ IsValidLedger(Append(account.ledger, entry))
  BY <1>1, FieldsOfAccount, AppendEntrySound
<1>4. account.cash - amount \in Int
  BY FieldsOfAccount
<1> QED
  BY <1>2, <1>3, <1>4, FieldsOfAccount, AccountFromFields

\* Placing a new pending order keeps the account good.
LEMMA PlaceOrderGood ==
  ASSUME NEW account, GoodAccount(account), NEW order \in Order,
         CanPlaceOrder(account, order)
  PROVE  GoodAccount(PlaceOrderCore(account, order))
<1>1. /\ IsValidOrder(order)
      /\ HasValidOrderStatus(order)
      /\ ~ExistsOrder(account.orders, order.orderId)
  BY DEF CanPlaceOrder
<1>2. PlaceOrderCore(account, order)
        = [cash |-> account.cash, ledger |-> account.ledger,
           positions |-> account.positions, orders |-> Append(account.orders, order)]
  BY DEF PlaceOrderCore
<1>3. /\ Append(account.orders, order) \in Seq(Order)
      /\ IsValidOrderSet(Append(account.orders, order))
      /\ HasLifecycleConsistentOrders(Append(account.orders, order))
  BY <1>1, FieldsOfAccount, AppendOrderSound
<1> QED
  BY <1>2, <1>3, FieldsOfAccount, AccountFromFields

\* A legal status change keeps the account good and replaces only the named order.
LEMMA SetOrderStatusGood ==
  ASSUME NEW account, GoodAccount(account), NEW id, NEW newStatus \in OrderStatus,
         CanSetAccountOrderStatus(account, id, newStatus)
  PROVE  LET order   == GetOrder(account.orders, id)
             updated == SetStatus(order, newStatus)
         IN  /\ order \in Order /\ order.orderId = id
             /\ ExistsOrder(account.orders, id)
             /\ CanSetOrderStatus(order, newStatus)
             /\ updated \in Order /\ updated.orderId = id
             /\ SetOrderStatusCore(account, id, newStatus)
                  = [cash |-> account.cash, ledger |-> account.ledger,
                     positions |-> account.positions,
                     orders |-> UpdateOrder(account.orders, updated)]
             /\ GoodAccount(SetOrderStatusCore(account, id, newStatus))
<1> DEFINE order == GetOrder(account.orders, id)
           updated == SetStatus(order, newStatus)
           after == SetOrderStatusCore(account, id, newStatus)
<1>1. /\ order \in Order /\ order.orderId = id
      /\ CanSetOrderStatus(order, newStatus)
      /\ ExistsOrder(account.orders, id)
  BY FieldsOfAccount, OrderFound DEF CanSetAccountOrderStatus, GetOrder
<1>2. /\ updated \in Order /\ updated.orderId = id
      /\ IsValidOrder(updated) /\ HasValidOrderStatus(updated)
  BY <1>1, SetStatusSound
<1>3. after = [cash |-> account.cash, ledger |-> account.ledger,
               positions |-> account.positions,
               orders |-> UpdateOrder(account.orders, updated)]
  BY DEF SetOrderStatusCore
<1> HIDE DEF order, updated, after
<1>4. /\ UpdateOrder(account.orders, updated) \in Seq(Order)
      /\ IsValidOrderSet(UpdateOrder(account.orders, updated))
      /\ HasLifecycleConsistentOrders(UpdateOrder(account.orders, updated))
  BY <1>1, <1>2, FieldsOfAccount, UpdateOrderSound
<1>5. GoodAccount(after)
  BY <1>3, <1>4, FieldsOfAccount, AccountFromFields
<1> QED
  BY <1>1, <1>2, <1>3, <1>5 DEF order, updated, after

\* The position an order starts from: the one held, or an empty one.
LEMMA PositionOrEmptySound ==
  ASSUME NEW positions \in Seq(Position), IsValidPositionSet(positions),
         NEW order \in Order, IsValidOrder(order)
  PROVE  LET base == PositionOrEmpty(positions, order.symbol)
         IN  base \in Position /\ base.symbol = order.symbol /\ IsValidPosition(base)
<1> DEFINE base == PositionOrEmpty(positions, order.symbol)
<1>1. CASE ExistsPosition(positions, order.symbol)
  <2>1. base = positions[PositionIndex(positions, order.symbol)]
    BY <1>1 DEF PositionOrEmpty, GetPosition
  <2> QED
    BY <1>1, <2>1, PositionFound DEF IsValidPositionSet, GetPosition
<1>2. CASE ~ExistsPosition(positions, order.symbol)
  <2>1. base = [symbol |-> order.symbol, quantity |-> 0, averagePrice |-> 0]
    BY <1>2 DEF PositionOrEmpty
  <2> QED
    BY <2>1 DEF Position, Order, IsValidPosition, IsValidOrder, IsClosed
<1> QED
  BY <1>1, <1>2

\* The position step of a fill: a buy opens or grows a position, a sell shrinks
\* one that is large enough and removes it when nothing is left.
LEMMA UpdatedPositionsSound ==
  ASSUME NEW positions \in Seq(Position), IsValidPositionSet(positions),
         NEW order \in Order, IsValidOrder(order),
         NEW fill \in Fill, IsValidFill(fill),
         order.side = "Sell" =>
           /\ ExistsPosition(positions, order.symbol)
           /\ GetPosition(positions, order.symbol).quantity >= fill.quantity
  PROVE  /\ UpdatedPositions(positions, order, fill) \in Seq(Position)
         /\ IsValidPositionSet(UpdatedPositions(positions, order, fill))
<1> DEFINE base == PositionOrEmpty(positions, order.symbol)
           next == IF order.side = "Buy" THEN ApplyBuy(base, fill) ELSE ApplySell(base, fill)
           after == UpdatedPositions(positions, order, fill)
<1>1. base \in Position /\ base.symbol = order.symbol /\ IsValidPosition(base)
  BY PositionOrEmptySound
<1>2. order.side = "Buy" \/ order.side = "Sell"
  BY DEF Order, OrderSide
<1>3. CASE order.side = "Buy"
  <2>1. next \in Position /\ IsValidPosition(next) /\ IsOpen(next)
    BY <1>1, <1>3, ApplyBuySound
  <2>2. after = UpsertPosition(positions, next)
    BY <1>3 DEF UpdatedPositions
  <2> QED
    BY <2>1, <2>2, UpsertPositionSound
<1>4. CASE order.side = "Sell"
  <2>1. base.quantity >= fill.quantity
    BY <1>4 DEF PositionOrEmpty
  <2>2. /\ next \in Position /\ IsValidPosition(next)
        /\ next.symbol = order.symbol
    BY <1>1, <1>4, <2>1, ApplySellSound
  <2> HIDE DEF base
  <2>3. CASE IsClosed(next)
    <3>1. after = RemovePosition(positions, order.symbol)
      BY <1>4, <2>2, <2>3 DEF UpdatedPositions, base
    <3> QED
      BY <1>4, <3>1, RemovePositionSound
  <2>4. CASE ~IsClosed(next)
    <3>1. after = UpsertPosition(positions, next)
      BY <1>4, <2>4 DEF UpdatedPositions, base
    <3> QED
      BY <2>2, <2>4, <3>1, UpsertPositionSound DEF IsValidPosition
  <2> QED
    BY <2>3, <2>4
<1> QED
  BY <1>2, <1>3, <1>4

\* The position step of a fill, symbol by symbol: that of the order gains the
\* shares bought or loses the shares sold, which are held, and every other symbol
\* is left alone.
LEMMA UpdatedPositionsLookup ==
  ASSUME NEW positions \in Seq(Position), IsValidPositionSet(positions),
         NEW order \in Order, IsValidOrder(order),
         NEW fill \in Fill, IsValidFill(fill),
         order.side = "Sell" =>
           /\ ExistsPosition(positions, order.symbol)
           /\ GetPosition(positions, order.symbol).quantity >= fill.quantity
  PROVE  LET base == PositionOrEmpty(positions, order.symbol)
             next == IF order.side = "Buy" THEN ApplyBuy(base, fill) ELSE ApplySell(base, fill)
         IN  /\ next \in Position
             /\ next.symbol = order.symbol
             /\ next.quantity = IF order.side = "Buy" THEN base.quantity + fill.quantity
                                ELSE base.quantity - fill.quantity
             /\ \A symbol :
                  PositionOrEmpty(UpdatedPositions(positions, order, fill), symbol)
                    = IF symbol = order.symbol THEN next ELSE PositionOrEmpty(positions, symbol)
<1> DEFINE base == PositionOrEmpty(positions, order.symbol)
           next == IF order.side = "Buy" THEN ApplyBuy(base, fill) ELSE ApplySell(base, fill)
           after == UpdatedPositions(positions, order, fill)
<1>1. base \in Position /\ base.symbol = order.symbol /\ IsValidPosition(base)
  BY PositionOrEmptySound
<1>2. order.side = "Buy" \/ order.side = "Sell"
  BY DEF Order, OrderSide
<1>3. CASE order.side = "Buy"
  <2>1. /\ next \in Position /\ next.symbol = order.symbol
        /\ next.quantity = base.quantity + fill.quantity
    BY <1>1, <1>3, ApplyBuySound
  <2>2. after = UpsertPosition(positions, next)
    BY <1>3 DEF UpdatedPositions
  <2> HIDE DEF next, base, after
  <2>3. \A symbol : PositionOrEmpty(after, symbol)
                     = IF symbol = order.symbol THEN next ELSE PositionOrEmpty(positions, symbol)
    BY <2>1, <2>2, UpsertPositionLookup
  <2> QED
    BY <1>3, <2>1, <2>3 DEF next, base, after
<1>4. CASE order.side = "Sell"
  <2>1. base.quantity >= fill.quantity
    BY <1>4 DEF PositionOrEmpty
  <2>2. /\ next \in Position /\ next.symbol = order.symbol
        /\ next.quantity = base.quantity - fill.quantity
    BY <1>1, <1>4, <2>1, ApplySellSound
  <2>3. IsClosed(next) =>
          next = [symbol |-> order.symbol, quantity |-> 0, averagePrice |-> 0]
    BY <1>1, <1>4, <2>1 DEF IsClosed, ApplySell, Position, Fill
  <2>4. after = IF IsClosed(next) THEN RemovePosition(positions, order.symbol)
                ELSE UpsertPosition(positions, next)
    BY <1>4, <2>2 DEF UpdatedPositions
  <2> HIDE DEF next, base, after
  <2>5. \A symbol : PositionOrEmpty(after, symbol)
                     = IF symbol = order.symbol THEN next ELSE PositionOrEmpty(positions, symbol)
    <3>1. CASE IsClosed(next)
      BY <1>4, <2>3, <2>4, <3>1, RemovePositionLookup
    <3>2. CASE ~IsClosed(next)
      BY <2>2, <2>4, <3>2, UpsertPositionLookup
    <3> QED
      BY <3>1, <3>2
  <2> QED
    BY <1>4, <2>2, <2>5 DEF next, base, after
<1> QED
  BY <1>2, <1>3, <1>4

\* A fill the contract accepts keeps the account good: the trade gets a fresh
\* id, the position step stays valid and the order stays consistent.
LEMMA UpdateGood ==
  ASSUME NEW account, GoodAccount(account), NEW fill \in Fill, CanUpdate(account, fill)
  PROVE  GoodAccount(UpdateCore(account, fill))
<1> DEFINE order == GetOrder(account.orders, fill.orderId)
           updated == ApplyFill(order, fill.quantity)
           entry == [kind |-> "Trade", ledgerId |-> NextLedgerId(account.ledger), fill |-> fill]
           cash == IF order.side = "Buy" THEN account.cash - ExecutionValue(fill)
                   ELSE account.cash + ExecutionValue(fill)
<1>2. fill.quantity \in Nat /\ fill.price \in Int
  BY DEF Fill
<1>3. /\ ExistsOrder(account.orders, fill.orderId)
      /\ IsValidFill(fill)
      /\ CanApplyFill(order, fill.quantity)
      /\ order.side = "Sell" =>
           /\ ExistsPosition(account.positions, order.symbol)
           /\ GetPosition(account.positions, order.symbol).quantity >= fill.quantity
  BY DEF CanUpdate, IsApplicableFill
<1>4. order \in Order /\ order.orderId = fill.orderId /\ IsValidOrder(order)
  BY <1>3, FieldsOfAccount, OrderFound DEF GetOrder, IsValidOrderSet
<1>5. UpdateCore(account, fill) = [cash |-> cash, ledger |-> Append(account.ledger, entry),
                  positions |-> UpdatedPositions(account.positions, order, fill),
                  orders |-> UpdateOrder(account.orders, updated)]
  BY DEF UpdateCore
<1>6. cash \in Int
  BY <1>2, FieldsOfAccount DEF ExecutionValue
<1>7. /\ Append(account.ledger, entry) \in Seq(LedgerEntry)
      /\ IsValidLedger(Append(account.ledger, entry))
  <2>1. /\ entry \in LedgerEntry /\ IsValidEntry(entry) /\ ~IsOpeningEntry(entry)
        /\ ~ContainsLedgerId(account.ledger, entry.ledgerId)
    BY <1>2, <1>3, FieldsOfAccount, NextLedgerIdFresh
       DEF LedgerEntry, IsValidEntry, IsOpeningEntry
  <2> HIDE DEF entry
  <2> QED
    BY <2>1, FieldsOfAccount, AppendEntrySound
<1>8. /\ UpdatedPositions(account.positions, order, fill) \in Seq(Position)
      /\ IsValidPositionSet(UpdatedPositions(account.positions, order, fill))
  <2> HIDE DEF order
  <2> QED
    BY <1>2, <1>3, <1>4, FieldsOfAccount, UpdatedPositionsSound
<1>9. /\ UpdateOrder(account.orders, updated) \in Seq(Order)
      /\ IsValidOrderSet(UpdateOrder(account.orders, updated))
      /\ HasLifecycleConsistentOrders(UpdateOrder(account.orders, updated))
  <2>1. /\ updated \in Order /\ updated.orderId = fill.orderId
        /\ IsValidOrder(updated) /\ HasValidOrderStatus(updated)
    BY <1>2, <1>3, <1>4, ApplyFillSound
  <2> HIDE DEF updated
  <2> QED
    BY <1>3, <2>1, FieldsOfAccount, UpdateOrderSound
<1> HIDE DEF cash, entry, order, updated
<1> QED
  BY <1>5, <1>6, <1>7, <1>8, <1>9, AccountFromFields
=============================================================================

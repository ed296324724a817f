-------------------------- MODULE BrokerSyncProofs --------------------------
(***************************************************************************)
(* The client and its worker, for every broker, every caller and every     *)
(* interleaving, and with every fault of the model: the account they share *)
(* stays valid and each local order stays the instruction the broker has.  *)
(***************************************************************************)
EXTENDS BrokerSync, AccountOpsProofs, FiniteSetTheorems

-----------------------------------------------------------------------------
(* The inductive invariant *)

\* The instruction an order gives, which nothing changes once it is accepted.
SameInstruction(a, b) ==
  /\ a.id = b.id /\ a.symbol = b.symbol /\ a.side = b.side /\ a.qty = b.qty
  /\ a.type = b.type /\ a.limit_price = b.limit_price /\ a.stop_price = b.stop_price

\* A record the broker has given out: an order of its book as it was then.
IsCopy(raw, orders) == raw.id \in DOMAIN orders /\ SameInstruction(raw, orders[raw.id])

\* What the broker reports of an order.
Events ==
  {"new", "rejected", "pending_cancel", "canceled", "done_for_day", "partial_fill", "fill"}

\* Updates sent while n executions had been made.
Update(n) ==
  {update \in [event : Events, order : BrokerOrder, qty : Nat, price : {Price},
               execution_id : 0 .. n] :
     IsFillUpdate(update) => update.execution_id > 0}

BrokerInv ==
  /\ book \in Seq(BrokerOrder) /\ \A k \in DOMAIN book : book[k].id = k
  /\ shares \in [Symbols -> Int] /\ cash \in Int
  /\ executions \in Nat
  /\ queue \in Seq(Update(executions))

\* A good account that names only instruments the broker trades.
TradedAccount(acct) ==
  /\ GoodAccount(acct)
  /\ \A i \in DOMAIN acct.orders : acct.orders[i].symbol \in Symbols
  /\ \A i \in DOMAIN acct.positions : acct.positions[i].symbol \in Symbols

\* A local order is the same instruction as a broker's.
Mirrors(order, raw) ==
  /\ order.symbol = raw.symbol
  /\ order.side = ToDafnyOrderSide[raw.side]
  /\ order.quantity = raw.qty
  /\ AsksTheSame(order.orderType, raw)

\* TrackedOrdersMatch of a map from the broker's orders to an account's.
Tracks(ids, acct, orders) ==
  /\ \A a, b \in DOMAIN ids : ids[a] = ids[b] => a = b
  /\ \A key \in DOMAIN ids :
       /\ key \in DOMAIN orders
       /\ ExistsOrder(acct.orders, ids[key])
       /\ Mirrors(GetOrder(acct.orders, ids[key]), orders[key])

ExecutionsInv ==
  /\ seen \subseteq 1 .. executions
  /\ nextExecutionId = Cardinality(seen) + 1

\* A call is under way only where there is an account.
UserInv ==
  /\ user = [pc |-> user.pc, request |-> user.request, key |-> user.key]
  /\ user.pc \in {"idle", "calling", "accepted"}
  /\ user.pc # "idle" => TradedAccount(account)
  /\ user.pc = "calling" => user.request \in CallerRequest /\ PassesClientChecks(user.request)
  /\ user.pc = "accepted" => user.key \in DOMAIN book

\* Past the constructor the worker has an account, and between its reads it holds
\* what the broker gave it.
DaemonInv ==
  /\ daemon = [pc |-> daemon.pc, within |-> daemon.within, positions |-> daemon.positions,
               orders |-> daemon.orders, stop |-> daemon.stop]
  /\ daemon.pc \in DaemonSteps
  /\ daemon.pc \in {"connect", "stream", "recover"} => TradedAccount(account)
  /\ daemon.pc \in SyncSteps /\ daemon.within # "start" => TradedAccount(account)
  /\ daemon.positions \in Seq(Position)
  /\ \A i \in DOMAIN daemon.positions : daemon.positions[i].symbol \in Symbols
  /\ daemon.orders \in Seq(BrokerOrder)
  /\ \A i \in DOMAIN daemon.orders : IsCopy(daemon.orders[i], book)

\* The lock excludes: no synchronization runs while a call waits for the broker.
LockInv == user.pc = "idle" \/ daemon.pc \notin SyncSteps

ClientInv ==
  /\ ClientReady => TradedAccount(account)
  /\ Tracks(orderIds, account, book)
  /\ ExecutionsInv /\ UserInv /\ DaemonInv /\ LockInv

IInv == BrokerInv /\ ClientInv

-----------------------------------------------------------------------------
(* Records of the broker *)

\* What a broker's record says of each of its fields.
LEMMA BrokerOrderFields ==
  ASSUME NEW raw \in BrokerOrder
  PROVE  /\ raw.id \in Nat /\ raw.symbol \in Symbols /\ raw.side \in {"buy", "sell"}
         /\ raw.qty \in Nat /\ raw.filled_qty \in Nat /\ raw.status \in BrokerStatuses
         /\ raw.filled_qty <= raw.qty
         /\ raw.type \in {"market", "limit", "stop", "stop_limit"}
         /\ raw.type \in {"limit", "stop_limit"} => raw.limit_price \in Int
         /\ raw.type \in {"stop", "stop_limit"} => raw.stop_price \in Int
BY DEF BrokerOrder, PythonSide, PythonType, NeedsLimitPrice, NeedsStopPrice

\* The broker moves an order's status and filled quantity, never its instruction.
LEMMA BrokerOrderMoved ==
  ASSUME NEW raw \in BrokerOrder, NEW filled \in Nat, filled <= raw.qty,
         NEW status \in BrokerStatuses
  PROVE  /\ [raw EXCEPT !.status = status] \in BrokerOrder
         /\ SameInstruction(raw, [raw EXCEPT !.status = status])
         /\ [raw EXCEPT !.filled_qty = filled, !.status = status] \in BrokerOrder
         /\ SameInstruction(raw, [raw EXCEPT !.filled_qty = filled, !.status = status])
<1> DEFINE Shape == [id : Nat, symbol : Symbols, side : PythonSide, qty : Nat,
                     type : PythonType, limit_price : OptionalPrice,
                     stop_price : OptionalPrice, time_in_force : OrderTimeInForce,
                     filled_qty : Nat, status : BrokerStatuses]
           Priced(r) == /\ NeedsLimitPrice(r.type) => r.limit_price \in Int
                        /\ NeedsStopPrice(r.type) => r.stop_price \in Int
           Bounded(r) == r.filled_qty <= r.qty
           OneField(r, s) == SameInstruction(r, s) /\ s \in Shape /\ (Priced(r) => Priced(s))
<1>1. \A r : r \in BrokerOrder <=> r \in Shape /\ Bounded(r) /\ Priced(r)
  BY DEF BrokerOrder
<1> DEFINE mid == [raw EXCEPT !.filled_qty = filled]
<1>2. OneField(raw, mid)
  BY <1>1 DEF SameInstruction
<1>3. \A r \in Shape : OneField(r, [r EXCEPT !.status = status])
                       /\ (Bounded(r) => Bounded([r EXCEPT !.status = status]))
  BY DEF SameInstruction
<1>4. [mid EXCEPT !.status = status] = [raw EXCEPT !.filled_qty = filled, !.status = status]
  BY <1>1
<1>5. \A a, b, c : SameInstruction(a, b) /\ SameInstruction(b, c) => SameInstruction(a, c)
  BY DEF SameInstruction
<1>6. Bounded(mid)
  BY <1>1
<1> HIDE DEF Shape, Priced, Bounded, mid
<1>7. OneField(mid, [mid EXCEPT !.status = status])
  BY <1>2, <1>3
<1> QED
  BY <1>1, <1>2, <1>3, <1>4, <1>5, <1>6, <1>7

\* What the client asks of the broker after its checks is a proper order
\* (vqc_client.py:90-135).
LEMMA NewOrderIsBrokerOrder ==
  ASSUME NEW request \in CallerRequest, PassesClientChecks(request),
         NEW id \in Nat, NEW status \in BrokerStatuses
  PROVE  /\ NewOrder(id, NativeOrder(request), status) \in BrokerOrder
         /\ NewOrder(id, NativeOrder(request), status).id = id
<1> DEFINE raw == NewOrder(id, NativeOrder(request), status)
<1>1. /\ request.symbol \in DOMAIN Spellings /\ request.quantity \in Int \cup {Invalid}
      /\ request.type \in PythonType /\ request.time_in_force \in OrderTimeInForce
      /\ request.limit_price \in OptionalPrice /\ request.stop_price \in OptionalPrice
  BY DEF CallerRequest
<1>2. Identifier(request.symbol) \in Symbols
  BY <1>1, InputAssumption DEF PassesClientChecks, Identifier
<1>3. OrderSideOf(request.quantity) \in PythonSide /\ AbsoluteQuantity(request.quantity) \in Nat
  <2> DEFINE q == request.quantity
  <2>1. q \in Int
    BY <1>1 DEF PassesClientChecks, IsOrderQuantity
  <2> HIDE DEF q
  <2>2. OrderSideOf(q) \in PythonSide /\ AbsoluteQuantity(q) \in Nat
    BY <2>1 DEF OrderSideOf, AbsoluteQuantity, PythonSide
  <2> QED
    BY <2>2 DEF q
<1>4. /\ NeedsLimitPrice(request.type) => request.limit_price \in Int
      /\ NeedsStopPrice(request.type) => request.stop_price \in Int
  BY <1>1 DEF PassesClientChecks, IsPositivePrice, OptionalPrice
<1>5. raw = [id |-> id, symbol |-> Identifier(request.symbol),
             side |-> OrderSideOf(request.quantity), qty |-> AbsoluteQuantity(request.quantity),
             type |-> request.type, limit_price |-> request.limit_price,
             stop_price |-> request.stop_price, time_in_force |-> request.time_in_force,
             filled_qty |-> 0, status |-> status]
  BY DEF NewOrder, NativeOrder
<1> HIDE DEF raw
<1> QED
  BY <1>1, <1>2, <1>3, <1>4, <1>5 DEF BrokerOrder, raw

-----------------------------------------------------------------------------
(* The adapter's conversions *)

\* Every status the broker has is one of the core's, also after it is reconciled
\* with the filled quantity (alpaca_adapter.py).
LEMMA StatusConverted ==
  ASSUME NEW raw \in BrokerOrder
  PROVE  ToVQCStatus(raw.status) \in PythonStatus /\ GetOrderStatus(raw) \in PythonStatus
<1>1. \A status \in BrokerStatuses : ToVQCStatus(status) \in PythonStatus
  BY DEF BrokerStatuses, LiveStatuses, ToVQCStatus, PythonStatus, PendingStatuses,
         OpenStatuses, PartialStatuses, CancelledStatuses
<1>2. ToVQCStatus(raw.status) \in PythonStatus
  BY <1>1, BrokerOrderFields
<1> QED
  BY <1>2 DEF GetOrderStatus, NormalizedStatus, PythonStatus

\* Reconciling a status with a fill gives one of the statuses.
LEMMA NormalizedIsStatus ==
  ASSUME NEW status \in PythonStatus, NEW filled, NEW quantity
  PROVE  NormalizedStatus(status, filled, quantity) \in PythonStatus
BY DEF NormalizedStatus, PythonStatus

\* A price is converted to whole cents, off by at most half a cent.
LEMMA PriceConverted ==
  ASSUME NEW n \in Int
  PROVE  /\ ToVQCMoney(n) \in Int
         /\ 2 * (ToVQCMoney(n) * UnitsPerCent - n) \in 0 - UnitsPerCent .. UnitsPerCent
<1> DEFINE floor == n \div 100
           rest  == n % 100
<1>1. floor \in Int /\ rest \in Int /\ 0 <= rest /\ rest < 100 /\ n = 100 * floor + rest
  BY Z3
<1>2. n # Missing
  BY InputAssumption
<1>3. ToVQCMoney(n) = IF 2 * rest < 100 \/ (2 * rest = 100 /\ floor % 2 = 0)
                      THEN floor ELSE floor + 1
  BY <1>2 DEF ToVQCMoney, FromDecimal, RoundHalfEven, UnitsPerCent
<1> HIDE DEF floor, rest
<1>4. /\ ToVQCMoney(n) \in Int
      /\ 2 * (ToVQCMoney(n) * 100 - n) <= 100 /\ 0 - 100 <= 2 * (ToVQCMoney(n) * 100 - n)
  BY <1>1, <1>3
<1> QED
  BY <1>4 DEF UnitsPerCent

\* The converted type is the broker's, at its prices to half a cent.
LEMMA TypeConverted ==
  ASSUME NEW raw \in BrokerOrder
  PROVE  LET type == ToDafnyOrderType(raw.type, ToVQCMoney(raw.limit_price),
                                      ToVQCMoney(raw.stop_price))
         IN  type \in OrderType /\ AsksTheSame(type, raw)
<1> DEFINE limit == ToVQCMoney(raw.limit_price)
           stop  == ToVQCMoney(raw.stop_price)
           type  == ToDafnyOrderType(raw.type, limit, stop)
           Close(m, n) == 2 * (m * UnitsPerCent - n) \in 0 - UnitsPerCent .. UnitsPerCent
           Terms == {<< "limitPrice", raw.limit_price >>, << "stopPrice", raw.stop_price >>}
<1>1. /\ raw.type \in {"limit", "stop_limit"} => limit \in Int /\ Close(limit, raw.limit_price)
      /\ raw.type \in {"stop", "stop_limit"} => stop \in Int /\ Close(stop, raw.stop_price)
  BY BrokerOrderFields, PriceConverted
<1>2. AsksTheSame(type, raw) <=>
        /\ type.kind = [market |-> "Market", limit |-> "Limit", stop |-> "Stop",
                        stop_limit |-> "StopLimit"][raw.type]
        /\ "limitPrice" \in DOMAIN type => Close(type["limitPrice"], raw.limit_price)
        /\ "stopPrice" \in DOMAIN type => Close(type["stopPrice"], raw.stop_price)
  <2> HIDE DEF Close, type
  <2>1. AsksTheSame(type, raw) <=>
        /\ type.kind = [market |-> "Market", limit |-> "Limit", stop |-> "Stop",
                        stop_limit |-> "StopLimit"][raw.type]
        /\ \A terms \in Terms : terms[1] \in DOMAIN type => Close(type[terms[1]], terms[2])
    BY DEF AsksTheSame, Close
  <2>2. (\A terms \in Terms : terms[1] \in DOMAIN type => Close(type[terms[1]], terms[2]))
        <=> /\ "limitPrice" \in DOMAIN type => Close(type["limitPrice"], raw.limit_price)
            /\ "stopPrice" \in DOMAIN type => Close(type["stopPrice"], raw.stop_price)
    OBVIOUS
  <2> HIDE DEF Terms
  <2> QED
    BY <2>1, <2>2
<1> HIDE DEF Close, limit, stop
<1>3. CASE raw.type = "market"
  <2>1. type = [kind |-> "Market"]
    BY <1>3 DEF ToDafnyOrderType
  <2> HIDE DEF type
  <2>2. type \in OrderType /\ DOMAIN type = {"kind"} /\ type.kind = "Market"
    BY <2>1 DEF OrderType
  <2> QED
    BY <1>2, <1>3, <2>2 DEF type, limit, stop
<1>4. CASE raw.type = "limit"
  <2>1. type = [kind |-> "Limit", limitPrice |-> limit]
    BY <1>4 DEF ToDafnyOrderType
  <2> HIDE DEF type
  <2>2. /\ type \in OrderType /\ DOMAIN type = {"kind", "limitPrice"} /\ type.kind = "Limit"
        /\ type["limitPrice"] = limit
    BY <1>1, <1>4, <2>1 DEF OrderType
  <2> QED
    BY <1>1, <1>2, <1>4, <2>2 DEF type, limit, stop
<1>5. CASE raw.type = "stop"
  <2>1. type = [kind |-> "Stop", stopPrice |-> stop]
    BY <1>5 DEF ToDafnyOrderType
  <2> HIDE DEF type
  <2>2. /\ type \in OrderType /\ DOMAIN type = {"kind", "stopPrice"} /\ type.kind = "Stop"
        /\ type["stopPrice"] = stop
    BY <1>1, <1>5, <2>1 DEF OrderType
  <2> QED
    BY <1>1, <1>2, <1>5, <2>2 DEF type, limit, stop
<1>6. CASE raw.type = "stop_limit"
  <2>1. type = [kind |-> "StopLimit", stopPrice |-> stop, limitPrice |-> limit]
    BY <1>6 DEF ToDafnyOrderType
  <2> HIDE DEF type
  <2>2. /\ type \in OrderType /\ DOMAIN type = {"kind", "stopPrice", "limitPrice"}
        /\ type.kind = "StopLimit"
        /\ type["stopPrice"] = stop /\ type["limitPrice"] = limit
    BY <1>1, <1>6, <2>1 DEF OrderType
  <2> QED
    BY <1>1, <1>2, <1>6, <2>2 DEF type, limit, stop
<1> QED
  BY <1>3, <1>4, <1>5, <1>6, BrokerOrderFields

\* A converted order has the type of the core's and is the broker's instruction.
LEMMA OrderConverted ==
  ASSUME NEW raw \in BrokerOrder, NEW id \in Nat, NEW filled \in Nat,
         NEW status \in PythonStatus
  PROVE  LET order == ToVQCOrder(raw, id, filled, status)
         IN  /\ order \in Order /\ order.orderId = id
             /\ order.symbol \in Symbols /\ Mirrors(order, raw)
<1> DEFINE order == ToVQCOrder(raw, id, filled, status)
           type == ToDafnyOrderType(raw.type, ToVQCMoney(raw.limit_price),
                                    ToVQCMoney(raw.stop_price))
           state == ToDafnyOrderStatus[NormalizedStatus(status, filled, raw.qty)]
           side == ToDafnyOrderSide[raw.side]
<1>1. type \in OrderType /\ AsksTheSame(type, raw)
  BY TypeConverted
<1>2. state \in OrderStatus
  BY NormalizedIsStatus DEF PythonStatus, ToDafnyOrderStatus, OrderStatus
<1>3. side \in OrderSide /\ raw.symbol \in Symbols /\ raw.symbol \in STRING /\ raw.qty \in Nat
  <2>1. raw.side \in {"buy", "sell"} /\ raw.symbol \in Symbols /\ raw.qty \in Nat
    BY BrokerOrderFields
  <2>2. raw.symbol \in STRING
    BY <2>1, InputAssumption
  <2>3. \A s \in {"buy", "sell"} : ToDafnyOrderSide[s] \in OrderSide
    BY DEF ToDafnyOrderSide, OrderSide
  <2> QED
    BY <2>1, <2>2, <2>3
<1>4. order = [orderId |-> id, symbol |-> raw.symbol, quantity |-> raw.qty, side |-> side,
               orderType |-> type, status |-> state, filledQuantity |-> filled]
  BY DEF ToVQCOrder, OrderRecord
<1>5. side = ToDafnyOrderSide[raw.side]
  OBVIOUS
<1> HIDE DEF order, type, state, side
<1> QED
  BY <1>1, <1>2, <1>3, <1>4, <1>5 DEF Order, Mirrors, order

\* A converted execution has the type of the core's.
LEMMA FillConverted ==
  ASSUME NEW n \in Nat, NEW update \in Update(n), NEW executionId \in Nat, NEW orderId \in Nat
  PROVE  ToVQCFill(update, executionId, orderId) \in Fill
<1>1. /\ update.order \in BrokerOrder /\ update.qty \in Nat /\ update.price = Price
  BY DEF Update
<1>2. update.order.symbol \in STRING /\ ToVQCMoney(update.price) \in Int
  BY <1>1, BrokerOrderFields, PriceConverted, InputAssumption
<1> QED
  BY <1>1, <1>2 DEF ToVQCFill, FillRecord, Fill

\* A lifecycle event asks for a status the core has.
LEMMA LifecycleStatusConverted ==
  ASSUME NEW n \in Nat, NEW update \in Update(n)
  PROVE  ToLifecycleStatus(update) \in PythonStatus
<1>1. update.order \in BrokerOrder
  BY DEF Update
<1> QED
  BY <1>1, StatusConverted DEF ToLifecycleStatus, PythonStatus

-----------------------------------------------------------------------------
(* What the broker does *)

\* A book that grows keeps every instruction at its id.
Grows(before, after) ==
  \A k \in DOMAIN before : k \in DOMAIN after /\ SameInstruction(before[k], after[k])

\* A step of the broker, or of its stream, that keeps the instructions and
\* makes no execution undone.
BrokerGoesOn == BrokerInv' /\ Grows(book, book') /\ executions <= executions'

\* An order is found in the broker's book under its number.
LEMMA BookFields ==
  ASSUME BrokerInv, NEW k \in DOMAIN book
  PROVE  k \in Nat /\ book[k] \in BrokerOrder /\ book[k].id = k
BY DEF BrokerInv

\* A book that does not change grows from itself.
LEMMA GrowsReflexive ==
  ASSUME NEW orders
  PROVE  Grows(orders, orders)
BY DEF Grows, SameInstruction

\* More executions allow more updates, and what is in flight stays in flight.
LEMMA UpdatesGrow ==
  ASSUME NEW n \in Nat, NEW m \in Nat, n <= m, NEW s \in Seq(Update(n))
  PROVE  s \in Seq(Update(m))
<1>1. Update(n) \subseteq Update(m)
  <2>1. 0 .. n \subseteq 0 .. m
    OBVIOUS
  <2> QED
    BY <2>1 DEF Update
<1> QED
  BY <1>1

\* An update that is published joins the ones in flight.
LEMMA PublishKeepsQueue ==
  ASSUME BrokerInv, executions' \in Nat, executions <= executions',
         NEW order \in BrokerOrder, NEW quantity \in Nat, NEW event \in Events,
         event \in {"partial_fill", "fill"} => executions' > 0,
         Publish(event, order, quantity)
  PROVE  queue' \in Seq(Update(executions'))
<1> DEFINE n == executions'
           update == [event |-> event, order |-> order, qty |-> quantity,
                      price |-> Price, execution_id |-> n]
<1>1. queue \in Seq(Update(n))
  BY UpdatesGrow DEF BrokerInv
<1>2. n \in 0 .. n /\ (event \in {"partial_fill", "fill"} => n > 0)
  OBVIOUS
<1>3. queue' = IF connected THEN Append(queue, update) ELSE queue
  BY DEF Publish
<1> HIDE DEF n
<1>4. update \in Update(n)
  <2>1. update \in [event : Events, order : BrokerOrder, qty : Nat, price : {Price},
                    execution_id : 0 .. n]
    BY <1>2
  <2>2. IsFillUpdate(update) => update.execution_id > 0
    BY <1>2 DEF IsFillUpdate, TradeUpdateKind
  <2> HIDE DEF update
  <2> QED
    BY <2>1, <2>2 DEF Update
<1> HIDE DEF update
<1>5. queue' \in Seq(Update(n))
  BY <1>1, <1>3, <1>4
<1> QED
  BY <1>5 DEF n

\* An order that keeps its instruction replaces the one in the book.
LEMMA ReplacedInBook ==
  ASSUME BrokerInv, NEW k \in DOMAIN book, NEW order \in BrokerOrder,
         SameInstruction(book[k], order), book' = [book EXCEPT ![k] = order]
  PROVE  /\ book' \in Seq(BrokerOrder) /\ \A i \in DOMAIN book' : book'[i].id = i
         /\ Grows(book, book')
<1>1. book \in Seq(BrokerOrder) /\ \A i \in DOMAIN book : book[i].id = i
  BY DEF BrokerInv
<1>2. book' \in Seq(BrokerOrder) /\ DOMAIN book' = DOMAIN book
  BY <1>1
<1>3. \A i \in DOMAIN book : book'[i] = IF i = k THEN order ELSE book[i]
  BY <1>1
<1>4. order.id = k
  BY <1>1 DEF SameInstruction
<1>5. \A i \in DOMAIN book : SameInstruction(book[i], book[i])
  BY DEF SameInstruction
<1> QED
  BY <1>1, <1>2, <1>3, <1>4, <1>5 DEF Grows

\* A move without an execution.
LEMMA MoveGoesOn ==
  ASSUME BrokerInv, NEW k \in DOMAIN book,
         NEW status \in {"new", "rejected", "pending_cancel", "canceled", "done_for_day"},
         Move(k, [book[k] EXCEPT !.status = status], status)
  PROVE  BrokerGoesOn
<1> DEFINE order == [book[k] EXCEPT !.status = status]
<1>1. order \in BrokerOrder /\ SameInstruction(book[k], order)
  <2>1. status \in BrokerStatuses
    BY DEF BrokerStatuses, LiveStatuses
  <2>2. /\ book[k] \in BrokerOrder
        /\ book[k].filled_qty \in Nat /\ book[k].filled_qty <= book[k].qty
    BY BookFields, BrokerOrderFields
  <2> QED
    BY <2>1, <2>2, BrokerOrderMoved
<1>2. /\ book' = [book EXCEPT ![k] = order]
      /\ shares' = shares /\ cash' = cash /\ executions' = executions
      /\ Publish(status, order, 0)
  BY DEF Move
<1> HIDE DEF order
<1>3. executions \in Nat /\ executions' \in Nat /\ executions <= executions'
  BY <1>2 DEF BrokerInv
<1>4. queue' \in Seq(Update(executions'))
  <2>1. status \in Events /\ status \notin {"partial_fill", "fill"} /\ 0 \in Nat
    BY DEF Events
  <2> QED
    BY <1>1, <1>2, <1>3, <2>1, PublishKeepsQueue
<1>5. /\ book' \in Seq(BrokerOrder) /\ \A i \in DOMAIN book' : book'[i].id = i
      /\ Grows(book, book')
  BY <1>1, <1>2, ReplacedInBook
<1> QED
  BY <1>2, <1>3, <1>4, <1>5 DEF BrokerInv, BrokerGoesOn

\* An execution moves shares and cash, and the order's filled quantity.
LEMMA ExecuteGoesOn ==
  ASSUME BrokerInv, NEW k \in DOMAIN book, Execute(k)
  PROVE  BrokerGoesOn
<1>1. /\ book[k] \in BrokerOrder /\ book[k].qty \in Nat /\ book[k].filled_qty \in Nat
      /\ book[k].symbol \in Symbols
  BY BookFields, BrokerOrderFields
<1>2. PICK n \in 1 .. Remaining(book[k]) :
        LET done   == Remaining(book[k]) = n
            signed == IF book[k].side = "buy" THEN n ELSE 0 - n
            order  == [book[k] EXCEPT !.filled_qty = book[k].filled_qty + n,
                                      !.status = IF done THEN "filled"
                                                 ELSE IF book[k].status = "pending_cancel"
                                                 THEN "pending_cancel"
                                                 ELSE "partially_filled"]
        IN  /\ book' = [book EXCEPT ![k] = order]
            /\ shares' = [shares EXCEPT ![order.symbol] = shares[order.symbol] + signed]
            /\ cash' = cash - signed * Price
            /\ executions' = executions + 1
            /\ Publish(IF done THEN "fill" ELSE "partial_fill", order, n)
  BY DEF Execute
<1> DEFINE done   == Remaining(book[k]) = n
           signed == IF book[k].side = "buy" THEN n ELSE 0 - n
           filled == book[k].filled_qty + n
           status == IF done THEN "filled"
                     ELSE IF book[k].status = "pending_cancel" THEN "pending_cancel"
                     ELSE "partially_filled"
           order  == [book[k] EXCEPT !.filled_qty = filled, !.status = status]
           event  == IF done THEN "fill" ELSE "partial_fill"
<1>3. n \in Nat /\ signed \in Int /\ filled \in Nat /\ filled <= book[k].qty
  BY <1>1 DEF Remaining
<1>4. status \in BrokerStatuses /\ event \in Events
  <2>1. {"filled", "pending_cancel", "partially_filled"} \subseteq BrokerStatuses
    BY DEF BrokerStatuses, LiveStatuses
  <2>2. status \in {"filled", "pending_cancel", "partially_filled"}
    BY Zenon
  <2>3. event \in {"fill", "partial_fill"}
    BY Zenon
  <2>4. {"fill", "partial_fill"} \subseteq Events
    BY DEF Events
  <2> QED
    BY <2>1, <2>2, <2>3, <2>4
<1>5. /\ book' = [book EXCEPT ![k] = order]
      /\ shares' = [shares EXCEPT ![order.symbol] = shares[order.symbol] + signed]
      /\ cash' = cash - signed * Price
      /\ executions' = executions + 1
      /\ Publish(event, order, n)
  BY <1>2
<1> HIDE DEF signed, filled, status, event
<1>6. order \in BrokerOrder /\ SameInstruction(book[k], order)
  BY <1>1, <1>3, <1>4, BrokerOrderMoved
<1> HIDE DEF order, done
<1>7. executions' \in Nat /\ executions <= executions' /\ executions' > 0
  BY <1>5 DEF BrokerInv
<1>8. queue' \in Seq(Update(executions'))
  BY <1>3, <1>4, <1>5, <1>6, <1>7, PublishKeepsQueue
<1>9. shares' \in [Symbols -> Int]
  <2>1. order.symbol \in Symbols /\ shares \in [Symbols -> Int]
    BY <1>6, BrokerOrderFields DEF BrokerInv
  <2>2. shares[order.symbol] + signed \in Int
    BY <1>3, <2>1
  <2> QED
    BY <1>5, <2>1, <2>2
<1>10. cash' \in Int
  <2>1. cash \in Int
    BY DEF BrokerInv
  <2>2. Price \in Int
    BY InputAssumption
  <2>3. signed * Price \in Int
    BY <1>3, <2>2
  <2> QED
    BY <1>5, <2>1, <2>3
<1>11. /\ book' \in Seq(BrokerOrder) /\ \A i \in DOMAIN book' : book'[i].id = i
       /\ Grows(book, book')
  BY <1>5, <1>6, ReplacedInBook
<1> QED
  BY <1>7, <1>8, <1>9, <1>10, <1>11 DEF BrokerInv, BrokerGoesOn

\* Every move of the broker's own keeps the instructions.
LEMMA BrokerMovesGoOn ==
  ASSUME BrokerInv, BrokerMoves
  PROVE  BrokerGoesOn
<1>1. PICK k \in DOMAIN book :
        OpenOrder(k) \/ RejectOrder(k) \/ RequestCancel(k) \/ CancelOrder(k)
          \/ CloseDay(k) \/ Execute(k)
  BY DEF BrokerMoves
<1>2. CASE OpenOrder(k)
  <2>1. Move(k, [book[k] EXCEPT !.status = "new"], "new")
    BY <1>2 DEF OpenOrder
  <2> QED
    BY <2>1, MoveGoesOn
<1>3. CASE RejectOrder(k)
  <2>1. Move(k, [book[k] EXCEPT !.status = "rejected"], "rejected")
    BY <1>3 DEF RejectOrder
  <2> QED
    BY <2>1, MoveGoesOn
<1>4. CASE RequestCancel(k)
  <2>1. Move(k, [book[k] EXCEPT !.status = "pending_cancel"], "pending_cancel")
    BY <1>4 DEF RequestCancel
  <2> QED
    BY <2>1, MoveGoesOn
<1>5. CASE CancelOrder(k)
  <2>1. Move(k, [book[k] EXCEPT !.status = "canceled"], "canceled")
    BY <1>5 DEF CancelOrder
  <2> QED
    BY <2>1, MoveGoesOn
<1>6. CASE CloseDay(k)
  <2>1. Move(k, [book[k] EXCEPT !.status = "done_for_day"], "done_for_day")
    BY <1>6 DEF CloseDay
  <2> QED
    BY <2>1, MoveGoesOn
<1> QED
  BY <1>1, <1>2, <1>3, <1>4, <1>5, <1>6, ExecuteGoesOn

\* A new order takes the next id.
LEMMA AppendedToBook ==
  ASSUME BrokerInv, NEW order \in BrokerOrder, order.id = Len(book) + 1,
         book' = Append(book, order)
  PROVE  /\ book' \in Seq(BrokerOrder) /\ \A i \in DOMAIN book' : book'[i].id = i
         /\ Grows(book, book')
         /\ Len(book') \in DOMAIN book'
<1>1. book \in Seq(BrokerOrder) /\ \A i \in DOMAIN book : book[i].id = i
  BY DEF BrokerInv
<1>2. book' \in Seq(BrokerOrder) /\ Len(book') = Len(book) + 1 /\ Len(book) \in Nat
  BY <1>1
<1>3. \A i \in DOMAIN book : i \in DOMAIN book' /\ book'[i] = book[i]
  BY <1>1, <1>2
<1>4. \A i \in DOMAIN book' : i \in DOMAIN book \/ (i = Len(book) + 1 /\ book'[i] = order)
  BY <1>1, <1>2
<1>5. Len(book') \in DOMAIN book'
  BY <1>2
<1>6. \A i \in DOMAIN book : SameInstruction(book[i], book[i])
  BY DEF SameInstruction
<1>7. \A i \in DOMAIN book' : book'[i].id = i
  BY <1>1, <1>3, <1>4
<1> QED
  BY <1>2, <1>3, <1>5, <1>6, <1>7 DEF Grows

\* Orders the broker takes from the client and from elsewhere.
LEMMA EntryGoesOn ==
  ASSUME BrokerInv, NEW request \in CallerRequest, PassesClientChecks(request),
         EnterOrder(NativeOrder(request)) \/ ForeignOrder(NativeOrder(request))
  PROVE  BrokerGoesOn /\ Len(book') \in DOMAIN book'
<1>1. /\ book \in Seq(BrokerOrder) /\ Len(book) + 1 \in Nat /\ executions \in Nat
      /\ queue \in Seq(Update(executions))
  BY DEF BrokerInv
<1>2. {"pending_new", "new"} \subseteq BrokerStatuses
  BY DEF BrokerStatuses, LiveStatuses
<1>3. PICK status \in {"pending_new", "new"} :
        /\ book' = Append(book, NewOrder(Len(book) + 1, NativeOrder(request), status))
        /\ \/ queue' = queue
           \/ Publish("new", NewOrder(Len(book) + 1, NativeOrder(request), status), 0)
  BY DEF EnterOrder, ForeignOrder
<1>4. shares' = shares /\ cash' = cash /\ executions' = executions
  BY DEF EnterOrder, ForeignOrder
<1> DEFINE order == NewOrder(Len(book) + 1, NativeOrder(request), status)
<1>5. order \in BrokerOrder /\ order.id = Len(book) + 1
  BY <1>1, <1>2, <1>3, NewOrderIsBrokerOrder
<1>6. book' = Append(book, order) /\ (queue' = queue \/ Publish("new", order, 0))
  BY <1>3
<1> HIDE DEF order
<1>7. /\ book' \in Seq(BrokerOrder) /\ \A i \in DOMAIN book' : book'[i].id = i
      /\ Grows(book, book') /\ Len(book') \in DOMAIN book'
  BY <1>5, <1>6, AppendedToBook
<1>8. queue' \in Seq(Update(executions'))
  <2>1. executions' \in Nat /\ executions <= executions'
    BY <1>1, <1>4
  <2>2. CASE queue' = queue
    BY <1>1, <1>4, <2>2
  <2>3. CASE Publish("new", order, 0)
    <3>1. "new" \in Events /\ "new" \notin {"partial_fill", "fill"} /\ 0 \in Nat
      BY DEF Events
    <3> QED
      BY <1>5, <2>1, <2>3, <3>1, PublishKeepsQueue
  <2> QED
    BY <1>6, <2>2, <2>3
<1> QED
  BY <1>1, <1>4, <1>7, <1>8 DEF BrokerInv, BrokerGoesOn

\* A step that only takes updates from the stream, or none.
LEMMA QueueGoesOn ==
  ASSUME BrokerInv, UNCHANGED << book, shares, cash, executions >>,
         queue' \in Seq(Update(executions))
  PROVE  BrokerGoesOn
<1>1. executions <= executions' /\ Grows(book, book')
  BY GrowsReflexive DEF BrokerInv
<1> QED
  BY <1>1 DEF BrokerInv, BrokerGoesOn

\* Faults of the stream lose, repeat and reorder updates and make none.
LEMMA StreamFaultGoesOn ==
  ASSUME BrokerInv, Disconnect \/ Duplicate \/ Reorder
  PROVE  BrokerGoesOn
<1>1. queue \in Seq(Update(executions)) /\ UNCHANGED << book, shares, cash, executions >>
  BY DEF BrokerInv, Disconnect, Duplicate, Reorder
<1>2. queue' \in Seq(Update(executions))
  <2> DEFINE S == Update(executions)
  <2>1. queue \in Seq(S)
    BY <1>1
  <2> HIDE DEF S
  <2>2. CASE Disconnect
    <3>1. PICK n \in 0 .. Len(queue) : queue' = SubSeq(queue, 1, n)
      BY <2>2 DEF Disconnect
    <3> QED
      BY <2>1, <3>1 DEF S
  <2>3. CASE Duplicate
    BY <2>1, <2>3 DEF Duplicate, S
  <2>4. CASE Reorder
    <3>1. PICK i \in 1 .. Len(queue) - 1 :
            queue' = [queue EXCEPT ![i] = queue[i + 1], ![i + 1] = queue[i]]
      BY <2>4 DEF Reorder
    <3>2. i \in DOMAIN queue /\ i + 1 \in DOMAIN queue
      BY <2>1, <3>1
    <3> QED
      BY <2>1, <3>1, <3>2 DEF S
  <2> QED
    BY <2>2, <2>3, <2>4
<1> QED
  BY <1>1, <1>2, QueueGoesOn

-----------------------------------------------------------------------------
(* What the operations of the core do to a traded account *)

\* Every order of one list is there in another, as the same instruction.
Keeps(before, after) ==
  \A id : ExistsOrder(before, id) =>
    ExistsOrder(after, id) /\ IsSameOrder(GetOrder(before, id), GetOrder(after, id))

\* Orders that stay at their positions are kept.
LEMMA KeptInPlace ==
  ASSUME NEW before, NEW after, IsValidOrderSet(before), IsValidOrderSet(after),
         \A i \in DOMAIN before : i \in DOMAIN after /\ IsSameOrder(before[i], after[i])
  PROVE  Keeps(before, after)
<1> SUFFICES ASSUME NEW id, ExistsOrder(before, id)
             PROVE  /\ ExistsOrder(after, id)
                    /\ IsSameOrder(GetOrder(before, id), GetOrder(after, id))
  BY DEF Keeps
<1>1. PICK i \in DOMAIN before : before[i].orderId = id
  BY DEF ExistsOrder
<1>2. i \in DOMAIN after /\ after[i].orderId = id /\ IsSameOrder(before[i], after[i])
  BY <1>1 DEF IsSameOrder
<1>3. OrderIndex(before, id) = i /\ OrderIndex(after, id) = i
  BY <1>1, <1>2, OrderIndexUnique
<1> QED
  BY <1>2, <1>3 DEF ExistsOrder, GetOrder

\* An account that does not change keeps its orders.
LEMMA KeepsReflexive ==
  ASSUME NEW orders
  PROVE  Keeps(orders, orders)
BY DEF Keeps, IsSameOrder

\* What each of two operations keeps, both of them keep.
LEMMA KeepsTransitive ==
  ASSUME NEW a, NEW b, NEW c, Keeps(a, b), Keeps(b, c)
  PROVE  Keeps(a, c)
BY DEF Keeps, IsSameOrder

\* Tracking survives every account operation and every move of the broker.
LEMMA TracksKept ==
  ASSUME NEW ids, NEW acct, NEW orders, NEW after, NEW grown,
         Tracks(ids, acct, orders), Keeps(acct.orders, after.orders), Grows(orders, grown)
  PROVE  Tracks(ids, after, grown)
<1>1. ASSUME NEW a, NEW b, NEW raw, NEW next,
             Mirrors(a, raw), IsSameOrder(a, b), SameInstruction(raw, next)
      PROVE  Mirrors(b, next)
  <2>1. AsksTheSame(b.orderType, next) <=> AsksTheSame(a.orderType, raw)
    BY <1>1 DEF IsSameOrder, SameInstruction, AsksTheSame
  <2> QED
    BY <1>1, <2>1 DEF Mirrors, IsSameOrder, SameInstruction
<1> QED
  BY <1>1 DEF Tracks, Keeps, Grows

\* A traded account with one of its orders replaced by the same instruction.
LEMMA ReplacedOrderKept ==
  ASSUME NEW orders \in Seq(Order), NEW updated \in Order,
         IsValidOrderSet(orders), IsValidOrder(updated),
         ExistsOrder(orders, updated.orderId),
         IsSameOrder(GetOrder(orders, updated.orderId), updated),
         \A i \in DOMAIN orders : orders[i].symbol \in Symbols
  PROVE  LET after == UpdateOrder(orders, updated)
         IN  Keeps(orders, after) /\ \A i \in DOMAIN after : after[i].symbol \in Symbols
<1> DEFINE after == UpdateOrder(orders, updated)
<1>1. IsValidOrderSet(after)
  BY UpdateOrderSound
<1>2. /\ DOMAIN after = DOMAIN orders
      /\ \A i \in DOMAIN orders :
           after[i] = IF orders[i].orderId = updated.orderId THEN updated ELSE orders[i]
  BY UpdateOrderElements
<1> HIDE DEF after
<1>3. \A i \in DOMAIN orders : IsSameOrder(orders[i], after[i])
  <2> SUFFICES ASSUME NEW i \in DOMAIN orders PROVE IsSameOrder(orders[i], after[i])
    OBVIOUS
  <2>1. CASE orders[i].orderId = updated.orderId
    <3>1. GetOrder(orders, updated.orderId) = orders[i]
      BY <2>1, OrderIndexUnique DEF GetOrder
    <3> QED
      BY <1>2, <2>1, <3>1
  <2>2. CASE orders[i].orderId # updated.orderId
    BY <1>2, <2>2 DEF IsSameOrder
  <2> QED
    BY <2>1, <2>2
<1>4. Keeps(orders, after)
  BY <1>1, <1>2, <1>3, KeptInPlace
<1>5. \A i \in DOMAIN after : after[i].symbol \in Symbols
  BY <1>2, <1>3 DEF IsSameOrder
<1> QED
  BY <1>4, <1>5 DEF after

\* A legal status change.
LEMMA SetStatusKeeps ==
  ASSUME NEW acct, TradedAccount(acct), NEW id, NEW status \in OrderStatus,
         CanSetAccountOrderStatus(acct, id, status)
  PROVE  /\ TradedAccount(SetOrderStatusCore(acct, id, status))
         /\ Keeps(acct.orders, SetOrderStatusCore(acct, id, status).orders)
<1> DEFINE order   == GetOrder(acct.orders, id)
           updated == SetStatus(order, status)
           after   == SetOrderStatusCore(acct, id, status)
<1>1. GoodAccount(acct)
  BY DEF TradedAccount
<1>2. /\ order \in Order /\ order.orderId = id /\ ExistsOrder(acct.orders, id)
      /\ CanSetOrderStatus(order, status)
      /\ updated \in Order /\ updated.orderId = id
      /\ after.orders = UpdateOrder(acct.orders, updated)
      /\ after.positions = acct.positions
      /\ GoodAccount(after)
  BY <1>1, SetOrderStatusGood
<1>3. IsSameOrder(order, updated) /\ IsValidOrder(updated)
  BY <1>2, SetStatusSound
<1> HIDE DEF updated, after
<1>4. /\ Keeps(acct.orders, after.orders)
      /\ \A i \in DOMAIN after.orders : after.orders[i].symbol \in Symbols
  BY <1>1, <1>2, <1>3, FieldsOfAccount, ReplacedOrderKept DEF TradedAccount
<1> QED
  BY <1>2, <1>4 DEF TradedAccount, after

\* A status change that the lifecycle path lets through, or that does nothing.
LEMMA ApplyStatusKeeps ==
  ASSUME NEW acct, TradedAccount(acct), NEW id, NEW status \in PythonStatus,
         \/ IsStaleStatus(GetOrder(acct.orders, id).status, status)
         \/ CanSetAccountOrderStatus(acct, id, ToDafnyOrderStatus[status])
  PROVE  /\ TradedAccount(ApplyStatus(acct, id, status))
         /\ Keeps(acct.orders, ApplyStatus(acct, id, status).orders)
<1>1. CASE IsStaleStatus(GetOrder(acct.orders, id).status, status)
  BY <1>1, KeepsReflexive DEF ApplyStatus
<1>2. CASE ~IsStaleStatus(GetOrder(acct.orders, id).status, status)
  <2>1. ToDafnyOrderStatus[status] \in OrderStatus
    BY DEF PythonStatus, ToDafnyOrderStatus, OrderStatus
  <2>2. ApplyStatus(acct, id, status) = SetOrderStatusCore(acct, id, ToDafnyOrderStatus[status])
    BY <1>2 DEF ApplyStatus
  <2> QED
    BY <1>2, <2>1, <2>2, SetStatusKeeps
<1> QED
  BY <1>1, <1>2

\* An order the core accepts.
LEMMA PlaceOrderKeeps ==
  ASSUME NEW acct, TradedAccount(acct), NEW order \in Order, order.symbol \in Symbols,
         CanPlaceOrder(acct, order)
  PROVE  LET after == PlaceOrderCore(acct, order)
         IN  /\ TradedAccount(after)
             /\ Keeps(acct.orders, after.orders)
             /\ ExistsOrder(after.orders, order.orderId)
             /\ GetOrder(after.orders, order.orderId) = order
<1> DEFINE after == PlaceOrderCore(acct, order)
           n     == Len(acct.orders) + 1
<1>1. GoodAccount(acct)
  BY DEF TradedAccount
<1>2. GoodAccount(after)
  BY <1>1, PlaceOrderGood
<1>3. /\ acct.orders \in Seq(Order) /\ IsValidOrderSet(acct.orders)
      /\ IsValidOrderSet(after.orders)
  BY <1>1, <1>2, FieldsOfAccount
<1>4. after.orders = Append(acct.orders, order) /\ after.positions = acct.positions
  BY DEF PlaceOrderCore
<1> HIDE DEF after
<1>5. /\ DOMAIN after.orders = DOMAIN acct.orders \cup {n} /\ n \in DOMAIN after.orders
      /\ after.orders[n] = order
      /\ \A i \in DOMAIN acct.orders : after.orders[i] = acct.orders[i]
  BY <1>3, <1>4
<1> HIDE DEF n
<1>6. Keeps(acct.orders, after.orders)
  BY <1>3, <1>5, KeptInPlace DEF IsSameOrder
<1>7. ExistsOrder(after.orders, order.orderId) /\ GetOrder(after.orders, order.orderId) = order
  <2>1. OrderIndex(after.orders, order.orderId) = n
    BY <1>3, <1>5, OrderIndexUnique
  <2> QED
    BY <1>5, <2>1 DEF ExistsOrder, GetOrder
<1>8. TradedAccount(after)
  BY <1>2, <1>4, <1>5 DEF TradedAccount
<1> QED
  BY <1>6, <1>7, <1>8 DEF after

\* The positions after a fill name what was held before and what the order names.
LEMMA UpdatedPositionsTraded ==
  ASSUME NEW positions \in Seq(Position), IsValidPositionSet(positions),
         NEW order \in Order, IsValidOrder(order), order.symbol \in Symbols,
         NEW fill \in Fill, IsValidFill(fill),
         order.side = "Sell" =>
           /\ ExistsPosition(positions, order.symbol)
           /\ GetPosition(positions, order.symbol).quantity >= fill.quantity,
         \A i \in DOMAIN positions : positions[i].symbol \in Symbols
  PROVE  \A i \in DOMAIN UpdatedPositions(positions, order, fill) :
           UpdatedPositions(positions, order, fill)[i].symbol \in Symbols
<1> DEFINE after == UpdatedPositions(positions, order, fill)
<1>1. after \in Seq(Position) /\ IsValidPositionSet(after)
  BY UpdatedPositionsSound
<1>2. \A symbol : symbol # order.symbol =>
        PositionOrEmpty(after, symbol) = PositionOrEmpty(positions, symbol)
  BY UpdatedPositionsLookup
<1> HIDE DEF after
<1> SUFFICES ASSUME NEW i \in DOMAIN after, after[i].symbol # order.symbol
             PROVE  after[i].symbol \in Symbols
  BY DEF after
<1> DEFINE held == after[i]
<1>3. PositionOrEmpty(after, held.symbol) = held
  BY <1>1, PositionAtIndex
<1>4. held.quantity # 0
  <2>1. IsOpen(held)
    BY <1>1 DEF IsValidPositionSet
  <2> QED
    BY <2>1 DEF IsOpen
<1> HIDE DEF held
<1>5. held.symbol # order.symbol
  BY DEF held
<1>6. held = PositionOrEmpty(positions, held.symbol)
  BY <1>2, <1>3, <1>5
<1>7. ExistsPosition(positions, held.symbol)
  BY <1>4, <1>6 DEF PositionOrEmpty
<1> QED
  BY <1>7 DEF ExistsPosition, held

\* An execution the core accepts.
LEMMA UpdateKeeps ==
  ASSUME NEW acct, TradedAccount(acct), NEW fill \in Fill, CanUpdate(acct, fill)
  PROVE  /\ TradedAccount(UpdateCore(acct, fill))
         /\ Keeps(acct.orders, UpdateCore(acct, fill).orders)
<1> DEFINE order   == GetOrder(acct.orders, fill.orderId)
           updated == ApplyFill(order, fill.quantity)
           after   == UpdateCore(acct, fill)
<1>1. /\ GoodAccount(acct) /\ acct.orders \in Seq(Order) /\ IsValidOrderSet(acct.orders)
      /\ acct.positions \in Seq(Position) /\ IsValidPositionSet(acct.positions)
      /\ \A i \in DOMAIN acct.orders : acct.orders[i].symbol \in Symbols
      /\ \A i \in DOMAIN acct.positions : acct.positions[i].symbol \in Symbols
  BY FieldsOfAccount DEF TradedAccount
<1>2. GoodAccount(after)
  BY <1>1, UpdateGood
<1>3. /\ ExistsOrder(acct.orders, fill.orderId)
      /\ IsValidFill(fill) /\ fill.quantity \in Nat
      /\ CanApplyFill(order, fill.quantity)
      /\ order.side = "Sell" =>
           /\ ExistsPosition(acct.positions, order.symbol)
           /\ GetPosition(acct.positions, order.symbol).quantity >= fill.quantity
  BY DEF CanUpdate, IsApplicableFill, Fill
<1>4. /\ order \in Order /\ order.orderId = fill.orderId /\ IsValidOrder(order)
      /\ order.symbol \in Symbols
  BY <1>1, <1>3, OrderFound DEF GetOrder, IsValidOrderSet
<1>5. /\ after.orders = UpdateOrder(acct.orders, updated)
      /\ after.positions = UpdatedPositions(acct.positions, order, fill)
  BY DEF UpdateCore
<1> HIDE DEF order, after
<1>6. /\ updated \in Order /\ updated.orderId = fill.orderId
      /\ IsValidOrder(updated) /\ IsSameOrder(order, updated)
  BY <1>3, <1>4, ApplyFillSound
<1> HIDE DEF updated
<1>7. /\ Keeps(acct.orders, after.orders)
      /\ \A i \in DOMAIN after.orders : after.orders[i].symbol \in Symbols
  <2>1. IsSameOrder(GetOrder(acct.orders, updated.orderId), updated)
    BY <1>6 DEF order
  <2> QED
    BY <1>1, <1>3, <1>5, <1>6, <2>1, ReplacedOrderKept
<1>8. \A i \in DOMAIN after.positions : after.positions[i].symbol \in Symbols
  BY <1>1, <1>3, <1>4, <1>5, UpdatedPositionsTraded
<1> QED
  BY <1>2, <1>7, <1>8 DEF TradedAccount, after

-----------------------------------------------------------------------------
(* What the client reads, and the ids it gives *)

\* The elements of a finite set, listed.
LEMMA ListedSet ==
  ASSUME NEW S, IsFiniteSet(S)
  PROVE  SetToSeq(S) \in Seq(S)
<1>1. Cardinality(S) \in Nat /\ ExistsBijection(1 .. Cardinality(S), S)
  BY FS_CardinalityType
<1>2. PICK f \in [1 .. Cardinality(S) -> S] : IsInjective(f)
  BY <1>1 DEF ExistsBijection, Bijection, Injection, IsInjective
<1>3. SetToSeq(S) \in [1 .. Cardinality(S) -> S]
  BY <1>2 DEF SetToSeq
<1> QED
  BY <1>1, <1>3

\* The holdings, read while nothing is sold short, are positions of the core.
LEMMA PositionsRead ==
  ASSUME BrokerInv, \A i \in DOMAIN GetPositions : ~(GetPositions[i].qty < 0)
  PROVE  LET read == [i \in DOMAIN GetPositions |-> ToVQCPosition(GetPositions[i])]
         IN  read \in Seq(Position) /\ \A i \in DOMAIN read : read[i].symbol \in Symbols
<1> DEFINE S == {s \in Symbols : shares[s] # 0}
           held == SetToSeq(S)
           read == [i \in DOMAIN GetPositions |-> ToVQCPosition(GetPositions[i])]
           cents == ToVQCMoney(Price)
<1>1. IsFiniteSet(S)
  <2>1. IsFiniteSet(Symbols) /\ S \in SUBSET Symbols
    BY InputAssumption
  <2> HIDE DEF S
  <2> QED
    BY <2>1, FS_Subset
<1>2. held \in Seq(Symbols)
  <2>1. held \in Seq(S)
    BY <1>1, ListedSet
  <2>2. S \subseteq Symbols
    OBVIOUS
  <2> HIDE DEF S
  <2> HIDE DEF held
  <2> QED
    BY <2>1, <2>2
<1>3. GetPositions = [i \in DOMAIN held |-> [symbol |-> held[i], qty |-> shares[held[i]],
                                            avg_entry_price |-> Price]]
  BY DEF GetPositions
<1>4. cents \in Int
  BY PriceConverted, InputAssumption
<1> HIDE DEF S, held, cents
<1>5. ASSUME NEW i \in DOMAIN held
      PROVE  /\ read[i] = [symbol |-> held[i], quantity |-> shares[held[i]],
                           averagePrice |-> cents]
             /\ held[i] \in Symbols /\ held[i] \in STRING /\ shares[held[i]] \in Nat
  <2>1. held[i] \in Symbols
    BY <1>2
  <2>2. shares[held[i]] \in Int /\ held[i] \in STRING
    BY <2>1, InputAssumption DEF BrokerInv
  <2>3. ~(shares[held[i]] < 0)
    BY <1>3
  <2>4. read[i] = [symbol |-> held[i], quantity |-> shares[held[i]], averagePrice |-> cents]
    BY <1>3 DEF ToVQCPosition, PositionRecord, cents
  <2> QED
    BY <2>1, <2>2, <2>3, <2>4
<1>6. \A i \in DOMAIN held : read[i] \in Position /\ read[i].symbol \in Symbols
  <2>1. \A symbol \in STRING, quantity \in Nat :
          [symbol |-> symbol, quantity |-> quantity, averagePrice |-> cents] \in Position
    BY <1>4 DEF Position
  <2> HIDE DEF read
  <2> SUFFICES ASSUME NEW i \in DOMAIN held
               PROVE  read[i] \in Position /\ read[i].symbol \in Symbols
    OBVIOUS
  <2>2. /\ read[i] = [symbol |-> held[i], quantity |-> shares[held[i]], averagePrice |-> cents]
        /\ held[i] \in Symbols /\ held[i] \in STRING /\ shares[held[i]] \in Nat
    BY <1>5
  <2> QED
    BY <2>1, <2>2
<1>7. DOMAIN read = DOMAIN held /\ read = [i \in DOMAIN held |-> read[i]]
  BY <1>3
<1> HIDE DEF read
<1>8. read \in Seq(Position)
  <2>1. DOMAIN held = 1 .. Len(held) /\ Len(held) \in Nat
    BY <1>2
  <2>2. read \in [1 .. Len(held) -> Position]
    BY <1>6, <1>7, <2>1
  <2> QED
    BY <2>1, <2>2
<1>9. read \in Seq(Position) /\ \A i \in DOMAIN read : read[i].symbol \in Symbols
  BY <1>6, <1>7, <1>8
<1> QED
  BY <1>9 DEF read

\* The open orders read are copies of orders in the book.
LEMMA OrdersRead ==
  ASSUME BrokerInv
  PROVE  /\ GetOpenOrders \in Seq(BrokerOrder)
         /\ \A i \in DOMAIN GetOpenOrders : IsCopy(GetOpenOrders[i], book)
<1> DEFINE T == {order \in Range(book) : IsLive(order)}
           r == GetOpenOrders
<1>1. book \in Seq(BrokerOrder) /\ \A k \in DOMAIN book : book[k].id = k
  BY DEF BrokerInv
<1>2. r = SelectIn(book, T)
  BY DEF GetOpenOrders
<1> HIDE DEF T, r
<1>3. r \in Seq(BrokerOrder) /\ \E m : IsSelection(book, T, Len(book), r, m)
  BY <1>1, <1>2, SelectInSound
<1>4. PICK m : IsSelection(book, T, Len(book), r, m)
  BY <1>3
<1>5. \A i \in DOMAIN r : m[i] \in DOMAIN book /\ r[i] = book[m[i]]
  <2>1. DOMAIN r = 1 .. Len(r) /\ DOMAIN book = 1 .. Len(book)
    BY <1>1, <1>3
  <2> QED
    BY <1>4, <2>1 DEF IsSelection
<1>6. \A i \in DOMAIN r : IsCopy(r[i], book)
  BY <1>1, <1>5 DEF IsCopy, SameInstruction
<1> QED
  BY <1>3, <1>6 DEF r

\* The next local order id is positive and belongs to no order yet.
LEMMA NextOrderIdFresh ==
  ASSUME NEW orders \in Seq(Order)
  PROVE  /\ NextOrderId(orders) \in Nat /\ NextOrderId(orders) > 0
         /\ ~ExistsOrder(orders, NextOrderId(orders))
<1> DEFINE ids == [i \in DOMAIN orders |-> orders[i].orderId]
           m == Max({0} \cup {orders[i].orderId : i \in DOMAIN orders})
<1>1. ids \in Seq(Nat) /\ DOMAIN ids = DOMAIN orders
  <2>1. \A order \in Order : order.orderId \in Nat
    BY DEF Order
  <2>2. \A i \in DOMAIN orders : orders[i] \in Order
    OBVIOUS
  <2>3. \A i \in DOMAIN orders : orders[i].orderId \in Nat
    BY <2>1, <2>2
  <2> QED
    BY <2>3
<1>2. m = Max({0} \cup {ids[i] : i \in DOMAIN ids})
  OBVIOUS
<1>3. \A i \in DOMAIN orders : orders[i].orderId = ids[i]
  OBVIOUS
<1>4. NextOrderId(orders) = m + 1
  BY DEF NextOrderId
<1> HIDE DEF m, ids
<1>5. m \in Nat /\ \A i \in DOMAIN ids : ids[i] \in Nat /\ ids[i] <= m
  BY <1>1, <1>2, MaxOfSequence
<1> QED
  BY <1>1, <1>3, <1>4, <1>5 DEF ExistsOrder

\* One execution more has been seen.
LEMMA SeenOneMore ==
  ASSUME NEW n \in Nat, NEW S \in SUBSET (1 .. n), NEW x \in 1 .. n, x \notin S
  PROVE  /\ S \cup {x} \subseteq 1 .. n
         /\ Cardinality(S \cup {x}) = Cardinality(S) + 1
<1>1. IsFiniteSet(1 .. n)
  BY FS_Interval
<1>2. IsFiniteSet(S)
  BY <1>1, FS_Subset
<1> QED
  BY <1>2, FS_AddElement

\* No more executions can have been seen than were made.
LEMMA SeenAtMostMade ==
  ASSUME NEW n \in Nat, NEW S \in SUBSET (1 .. n)
  PROVE  Cardinality(S) \in 0 .. n
<1>1. IsFiniteSet(1 .. n) /\ Cardinality(1 .. n) = IF 1 > n THEN 0 ELSE n - 1 + 1
  BY FS_Interval
<1>2. IsFiniteSet(S) /\ Cardinality(S) <= Cardinality(1 .. n)
  BY <1>1, FS_Subset
<1>3. Cardinality(S) \in Nat
  BY <1>2, FS_CardinalityType
<1> QED
  BY <1>1, <1>2, <1>3

-----------------------------------------------------------------------------
(* What the parts of the client keep while the broker goes on *)

\* A local order that mirrors a broker's still does when either is moved.
LEMMA MirrorsMoved ==
  ASSUME NEW order, NEW raw, NEW next, Mirrors(order, raw), SameInstruction(raw, next)
  PROVE  Mirrors(order, next)
<1>1. AsksTheSame(order.orderType, next) <=> AsksTheSame(order.orderType, raw)
  BY DEF SameInstruction, AsksTheSame
<1> QED
  BY <1>1 DEF Mirrors, SameInstruction

\* A copy of an order is still one after the book has moved on.
LEMMA CopyMoved ==
  ASSUME NEW raw, NEW orders, NEW grown, IsCopy(raw, orders), Grows(orders, grown)
  PROVE  IsCopy(raw, grown)
BY DEF IsCopy, Grows, SameInstruction

\* The executions counted are still among those made.
LEMMA ExecutionsKept ==
  ASSUME ExecutionsInv, executions \in Nat, executions' \in Nat, executions <= executions',
         UNCHANGED << seen, nextExecutionId >>
  PROVE  ExecutionsInv'
<1>1. 1 .. executions \subseteq 1 .. executions'
  OBVIOUS
<1> QED
  BY <1>1 DEF ExecutionsInv

\* A caller that waits keeps an account and the order it was given.
LEMMA UserKept ==
  ASSUME UserInv, UNCHANGED user, Grows(book, book'),
         TradedAccount(account) => TradedAccount(account')
  PROVE  UserInv'
BY DEF UserInv, Grows

\* With no call under way there is nothing to keep of one.
LEMMA UserIdle ==
  ASSUME user' = Idle
  PROVE  UserInv'
BY DEF UserInv, Idle

\* A worker that waits keeps an account and copies of the book.
LEMMA DaemonKept ==
  ASSUME DaemonInv, UNCHANGED daemon, Grows(book, book'),
         TradedAccount(account) => TradedAccount(account')
  PROVE  DaemonInv'
<1>1. \A i \in DOMAIN daemon.orders : IsCopy(daemon.orders[i], book')
  BY CopyMoved DEF DaemonInv
<1> QED
  BY <1>1 DEF DaemonInv

\* Outside a synchronization the worker holds nothing.
LEMMA DaemonSet ==
  ASSUME NEW pc \in DaemonSteps \ SyncSteps, daemon' = Daemon(pc),
         pc \in {"connect", "stream", "recover"} => TradedAccount(account')
  PROVE  DaemonInv'
<1>1. /\ daemon'.pc = pc /\ daemon'.positions = <<>> /\ daemon'.orders = <<>>
      /\ daemon' = [pc |-> pc, within |-> "", positions |-> <<>>, orders |-> <<>>,
                    stop |-> daemon.stop]
  BY DEF Daemon
<1>2. <<>> \in Seq(Position) /\ <<>> \in Seq(BrokerOrder) /\ DOMAIN <<>> = {}
  OBVIOUS
<1> QED
  BY <1>1, <1>2 DEF DaemonInv

\* A synchronization after the first starts from an account and with nothing read.
LEMMA SyncSet ==
  ASSUME NEW within, StartSync(within), TradedAccount(account')
  PROVE  DaemonInv'
<1>1. daemon' = [pc |-> "positions", within |-> within, positions |-> <<>>,
                 orders |-> <<>>, stop |-> daemon.stop]
  BY DEF StartSync, Daemon
<1>2. <<>> \in Seq(Position) /\ <<>> \in Seq(BrokerOrder) /\ DOMAIN <<>> = {}
  OBVIOUS
<1>3. "positions" \in DaemonSteps
  BY DEF DaemonSteps, SyncSteps
<1> QED
  BY <1>1, <1>2, <1>3 DEF DaemonInv

\* What a step that leaves the client alone keeps.
LEMMA ClientKept ==
  ASSUME IInv, BrokerGoesOn, UNCHANGED clientVars
  PROVE  IInv'
<1>1. BrokerInv' /\ Grows(book, book') /\ executions <= executions'
  BY DEF BrokerGoesOn
<1>2. executions \in Nat /\ executions' \in Nat
  BY <1>1 DEF IInv, BrokerInv
<1>3. Tracks(orderIds', account', book')
  BY <1>1, KeepsReflexive, TracksKept DEF IInv, ClientInv, clientVars
<1>4. ExecutionsInv' /\ UserInv' /\ DaemonInv'
  BY <1>1, <1>2, ExecutionsKept, UserKept, DaemonKept DEF IInv, ClientInv, clientVars
<1> QED
  BY <1>1, <1>3, <1>4 DEF IInv, ClientInv, LockInv, ClientReady, clientVars

\* The broker, the others who trade on its account, and its stream.
LEMMA EnvironmentKeepsIInv ==
  ASSUME IInv, BrokerMoves \/ OthersTrade \/ StreamFault
  PROVE  IInv'
<1>1. BrokerInv
  BY DEF IInv
<1>2. CASE BrokerMoves
  BY <1>1, <1>2, BrokerMovesGoOn, ClientKept DEF BrokerMoves, clientVars
<1>3. CASE OthersTrade
  <2>1. PICK request \in Requests :
          PassesClientChecks(request) /\ ForeignOrder(NativeOrder(request))
    BY <1>3 DEF OthersTrade
  <2>2. request \in CallerRequest
    BY InputAssumption
  <2>3. BrokerGoesOn
    BY <1>1, <2>1, <2>2, EntryGoesOn
  <2> QED
    BY <1>3, <2>3, ClientKept DEF OthersTrade
<1>4. CASE StreamFault
  BY <1>1, <1>4, StreamFaultGoesOn, ClientKept DEF StreamFault
<1> QED
  BY <1>2, <1>3, <1>4

-----------------------------------------------------------------------------
(* The caller *)

\* A step that changes nothing but the caller's place, away from a synchronization.
LEMMA CallerMoves ==
  ASSUME IInv, UNCHANGED << book, shares, cash, executions, queue, stateVars, daemon >>,
         UserInv', user'.pc = "idle" \/ daemon.pc \notin SyncSteps
  PROVE  IInv'
<1>1. BrokerGoesOn /\ BrokerInv' /\ Grows(book, book')
  BY QueueGoesOn DEF IInv, BrokerInv, BrokerGoesOn
<1>2. Tracks(orderIds', account', book')
  BY <1>1, KeepsReflexive, TracksKept DEF IInv, ClientInv, stateVars
<1>3. ExecutionsInv' /\ DaemonInv'
  BY <1>1, DaemonKept DEF IInv, ClientInv, ExecutionsInv, stateVars
<1> QED
  BY <1>1, <1>2, <1>3 DEF IInv, ClientInv, LockInv, ClientReady, stateVars

\* A request that has passed the client's checks takes the lock.
LEMMA SubmitKeepsIInv ==
  ASSUME IInv, NEW request \in CallerRequest, Submit(request)
  PROVE  IInv'
<1>1. /\ ClientReady /\ ~DaemonHoldsLock /\ PassesClientChecks(request)
      /\ user' = [pc |-> "calling", request |-> request, key |-> 0]
      /\ UNCHANGED << brokerVars, stateVars, daemon, faults >>
  BY DEF Submit
<1>2. TradedAccount(account')
  BY <1>1 DEF IInv, ClientInv, stateVars
<1>3. UserInv'
  BY <1>1, <1>2 DEF UserInv
<1> QED
  BY <1>1, <1>3, CallerMoves DEF DaemonHoldsLock, brokerVars

\* The whole of a position can be asked for: its instrument can be spelled.
LEMMA LiquidationIsRequest ==
  ASSUME NEW acct, TradedAccount(acct), NEW i \in DOMAIN acct.positions
  PROVE  MarketOrder(acct.positions[i].symbol, 0 - acct.positions[i].quantity, "day")
           \in CallerRequest
<1> DEFINE symbol   == acct.positions[i].symbol
           quantity == 0 - acct.positions[i].quantity
<1>1. symbol \in DOMAIN Spellings
  BY InputAssumption DEF TradedAccount
<1>2. quantity \in Int
  <2>1. acct.positions \in Seq(Position)
    BY FieldsOfAccount DEF TradedAccount
  <2>2. \A position \in Position : position.quantity \in Nat
    BY DEF Position
  <2>3. acct.positions[i] \in Position
    BY <2>1
  <2> QED
    BY <2>2, <2>3
<1>3. "market" \in PythonType /\ "day" \in OrderTimeInForce /\ Missing \in OptionalPrice
  BY DEF PythonType, OrderTimeInForce, OptionalPrice
<1> HIDE DEF symbol, quantity
<1>4. MarketOrder(symbol, quantity, "day") \in CallerRequest
  BY <1>1, <1>2, <1>3 DEF MarketOrder, Request, CallerRequest
<1> QED
  BY <1>4 DEF symbol, quantity

\* Both calls that start a submission are orders of a caller.
LEMMA CallKeepsIInv ==
  ASSUME IInv, SubmitOrder \/ Liquidate
  PROVE  IInv'
<1>1. CASE SubmitOrder
  <2>1. PICK request \in Requests : Submit(request)
    BY <1>1 DEF SubmitOrder
  <2>2. request \in CallerRequest
    BY InputAssumption
  <2> QED
    BY <2>1, <2>2, SubmitKeepsIInv
<1>2. CASE Liquidate
  <2>1. ClientReady
    BY <1>2 DEF Liquidate
  <2>2. PICK i \in DOMAIN account.positions :
          Submit(MarketOrder(account.positions[i].symbol,
                             0 - account.positions[i].quantity, "day"))
    BY <1>2 DEF Liquidate
  <2>3. TradedAccount(account)
    BY <2>1 DEF IInv, ClientInv
  <2>4. MarketOrder(account.positions[i].symbol, 0 - account.positions[i].quantity, "day")
          \in CallerRequest
    BY <2>3, LiquidationIsRequest
  <2> QED
    BY <2>2, <2>4, SubmitKeepsIInv
<1> QED
  BY <1>1, <1>2

\* The order enters the book while the caller waits for the answer.
LEMMA BrokerAcceptsKeepsIInv ==
  ASSUME IInv, BrokerAccepts
  PROVE  IInv'
<1>1. /\ user.pc = "calling" /\ EnterOrder(NativeOrder(user.request))
      /\ user' = [user EXCEPT !.pc = "accepted", !.key = Len(book')]
      /\ UNCHANGED << stateVars, daemon, faults >>
  BY DEF BrokerAccepts
<1>2. /\ user = [pc |-> user.pc, request |-> user.request, key |-> user.key]
      /\ user.request \in CallerRequest /\ PassesClientChecks(user.request)
      /\ TradedAccount(account) /\ daemon.pc \notin SyncSteps
  BY <1>1 DEF IInv, ClientInv, UserInv, LockInv
<1>3. BrokerGoesOn /\ Len(book') \in DOMAIN book'
  BY <1>1, <1>2, EntryGoesOn DEF IInv
<1>4. BrokerInv' /\ Grows(book, book') /\ executions <= executions'
      /\ executions \in Nat /\ executions' \in Nat
  BY <1>3 DEF BrokerGoesOn, IInv, BrokerInv
<1>5. Tracks(orderIds', account', book')
  BY <1>1, <1>4, KeepsReflexive, TracksKept DEF IInv, ClientInv, stateVars
<1>6. ExecutionsInv' /\ DaemonInv'
  BY <1>1, <1>4, ExecutionsKept, DaemonKept DEF IInv, ClientInv, stateVars
<1>7. UserInv'
  <2>1. user' = [pc |-> "accepted", request |-> user.request, key |-> Len(book')]
    BY <1>1, <1>2
  <2> QED
    BY <1>1, <1>2, <1>3, <2>1 DEF UserInv, stateVars
<1> QED
  BY <1>1, <1>2, <1>4, <1>5, <1>6, <1>7 DEF IInv, ClientInv, LockInv, ClientReady, stateVars

\* A call that fails leaves everything but the caller's place.
LEMMA CallFailsKeepsIInv ==
  ASSUME IInv, BrokerRefuses \/ AnswerLost
  PROVE  IInv'
<1>1. user' = Idle /\ UNCHANGED << brokerVars, stateVars, daemon >>
  BY DEF BrokerRefuses, AnswerLost
<1> QED
  BY <1>1, UserIdle, CallerMoves DEF Idle, brokerVars

\* What placing a broker's order under the next id does: it is traded, keeps what
\* was there, and the new order mirrors the broker's.
LEMMA PlacedOrder ==
  ASSUME NEW acct, TradedAccount(acct), NEW raw \in BrokerOrder,
         CanPlaceOrder(acct, ToVQCOrder(raw, NextOrderId(acct.orders), 0, "pending"))
  PROVE  LET id     == NextOrderId(acct.orders)
             order  == ToVQCOrder(raw, id, 0, "pending")
             placed == PlaceOrderCore(acct, order)
         IN  /\ TradedAccount(placed) /\ Keeps(acct.orders, placed.orders)
             /\ ExistsOrder(placed.orders, id) /\ ~ExistsOrder(acct.orders, id)
             /\ GetOrder(placed.orders, id) = order
             /\ Mirrors(order, raw)
<1> DEFINE id     == NextOrderId(acct.orders)
           order  == ToVQCOrder(raw, id, 0, "pending")
           placed == PlaceOrderCore(acct, order)
<1>1. acct.orders \in Seq(Order)
  BY FieldsOfAccount DEF TradedAccount
<1>2. id \in Nat /\ ~ExistsOrder(acct.orders, id)
  BY <1>1, NextOrderIdFresh
<1> HIDE DEF id
<1>3. "pending" \in PythonStatus /\ 0 \in Nat
  BY DEF PythonStatus
<1>4. order \in Order /\ order.orderId = id /\ order.symbol \in Symbols /\ Mirrors(order, raw)
  BY <1>2, <1>3, OrderConverted
<1>5. CanPlaceOrder(acct, order)
  BY DEF id
<1> HIDE DEF order
<1>6. /\ TradedAccount(placed) /\ Keeps(acct.orders, placed.orders)
      /\ ExistsOrder(placed.orders, id) /\ GetOrder(placed.orders, id) = order
  BY <1>4, <1>5, PlaceOrderKeeps
<1> QED
  BY <1>2, <1>4, <1>6 DEF id, order

\* The broker's first answer is never refused: the order was just placed.
LEMMA ResponseApplies ==
  ASSUME NEW acct, TradedAccount(acct), NEW id, ExistsOrder(acct.orders, id),
         GetOrder(acct.orders, id).status = "Pending",
         GetOrder(acct.orders, id).filledQuantity = 0,
         NEW status \in PythonStatus, ResponseStatusApplies(status)
  PROVE  CanSetAccountOrderStatus(acct, id, ToDafnyOrderStatus[status])
<1> DEFINE order == GetOrder(acct.orders, id)
           next  == ToDafnyOrderStatus[status]
<1>1. next \in {"Open", "Cancelled", "Rejected"}
  BY DEF ResponseStatusApplies, PythonStatus, ToDafnyOrderStatus
<1>2. acct.orders \in Seq(Order) /\ IsValidOrderSet(acct.orders) /\ IsValidAccount(acct)
  BY FieldsOfAccount DEF TradedAccount, GoodAccount
<1>3. order \in Order /\ IsValidOrder(order)
  BY <1>2, OrderFound DEF GetOrder, IsValidOrderSet
<1>4. order.quantity \in Nat /\ order.quantity > 0
  BY <1>3 DEF Order, IsValidOrder
<1> HIDE DEF order, next
<1>5. order.status = "Pending" /\ order.filledQuantity = 0
  BY DEF order
<1>6. CanSetStatus(order.status, order.filledQuantity, order.quantity, next)
  BY <1>1, <1>4, <1>5 DEF CanSetStatus, IsStatusCompatible, CanTransition
<1> QED
  BY <1>2, <1>3, <1>6 DEF CanSetAccountOrderStatus, CanSetOrderStatus, order, next

\* The map gains the order just placed, under a local id no other order has.
LEMMA TracksOneMore ==
  ASSUME NEW ids, NEW acct, NEW orders, Tracks(ids, acct, orders),
         NEW placed, Keeps(acct.orders, placed.orders),
         NEW key \in DOMAIN orders, NEW id,
         ExistsOrder(placed.orders, id), ~ExistsOrder(acct.orders, id),
         Mirrors(GetOrder(placed.orders, id), orders[key])
  PROVE  Tracks([k \in DOMAIN ids \cup {key} |-> IF k = key THEN id ELSE ids[k]],
                placed, orders)
<1> DEFINE after == [k \in DOMAIN ids \cup {key} |-> IF k = key THEN id ELSE ids[k]]
<1>1. Tracks(ids, placed, orders)
  BY TracksKept, GrowsReflexive
<1>2. \A k \in DOMAIN ids : ids[k] # id
  BY DEF Tracks
<1>3. /\ DOMAIN after = DOMAIN ids \cup {key} /\ after[key] = id
      /\ \A k \in DOMAIN ids : k # key => after[k] = ids[k]
  OBVIOUS
<1> HIDE DEF after
<1>4. \A a, b \in DOMAIN after : after[a] = after[b] => a = b
  BY <1>1, <1>2, <1>3 DEF Tracks
<1>5. ASSUME NEW k \in DOMAIN after
      PROVE  /\ k \in DOMAIN orders /\ ExistsOrder(placed.orders, after[k])
             /\ Mirrors(GetOrder(placed.orders, after[k]), orders[k])
  <2>1. CASE k = key
    BY <1>3, <2>1
  <2>2. CASE k # key
    BY <1>1, <1>3, <1>5, <2>2 DEF Tracks
  <2> QED
    BY <2>1, <2>2
<1> QED
  BY <1>4, <1>5 DEF Tracks, after

\* What a call that ends with a new account has to show.
LEMMA CallReturns ==
  ASSUME IInv, user.pc = "accepted", user' = Idle,
         UNCHANGED << book, shares, cash, executions, queue, seen, nextExecutionId, daemon >>,
         TradedAccount(account'), Tracks(orderIds', account', book)
  PROVE  IInv'
<1>1. BrokerInv' /\ Grows(book, book')
  BY QueueGoesOn DEF IInv, BrokerInv, BrokerGoesOn
<1>2. Tracks(orderIds', account', book')
  OBVIOUS
<1>3. ExecutionsInv' /\ UserInv' /\ DaemonInv'
  BY <1>1, UserIdle, DaemonKept DEF IInv, ClientInv, ExecutionsInv
<1> QED
  BY <1>1, <1>2, <1>3 DEF IInv, ClientInv, LockInv, ClientReady, Idle

\* The statuses an answer can register its order with: its own, or none.
FirstStatus == {GetOrderStatus(book[user.key]), "pending"}

\* Both answers that carry the order's id register it.
LEMMA AnswerRegisters ==
  ASSUME TrackSubmittedOrder \/ AnswerWithoutStatus
  PROVE  \E status \in FirstStatus : Register(status)
BY DEF TrackSubmittedOrder, AnswerWithoutStatus, FirstStatus

\* A first status is one the client knows.
LEMMA FirstStatusKnown ==
  ASSUME book[user.key] \in BrokerOrder
  PROVE  FirstStatus \subseteq PythonStatus
<1>1. GetOrderStatus(book[user.key]) \in PythonStatus
  BY StatusConverted
<1>2. "pending" \in PythonStatus
  BY DEF PythonStatus
<1> QED
  BY <1>1, <1>2 DEF FirstStatus

\* The answer registers the order under the next id, with its first status.
LEMMA TrackKeepsIInv ==
  ASSUME IInv, NEW status \in FirstStatus, Register(status)
  PROVE  IInv'
<1> DEFINE raw    == book[user.key]
           id     == NextOrderId(account.orders)
           order  == ToVQCOrder(raw, id, 0, "pending")
           placed == PlaceOrderCore(account, order)
           ids    == [key \in DOMAIN orderIds \cup {user.key} |->
                        IF key = user.key THEN id ELSE orderIds[key]]
<1>1. /\ user.pc = "accepted" /\ user' = Idle
      /\ UNCHANGED << brokerVars, seen, nextExecutionId, daemon >>
      /\ IF CanPlaceOrder(account, order)
         THEN /\ account' = IF ResponseStatusApplies(status)
                            THEN ApplyStatus(placed, id, status) ELSE placed
              /\ orderIds' = ids
         ELSE UNCHANGED << account, orderIds >>
  BY DEF Register
<1>2. /\ TradedAccount(account) /\ user.key \in DOMAIN book /\ raw \in BrokerOrder
      /\ Tracks(orderIds, account, book)
  BY <1>1, BookFields DEF IInv, ClientInv, UserInv
<1>3. CASE ~CanPlaceOrder(account, order)
  BY <1>1, <1>2, <1>3, CallReturns DEF brokerVars
<1>4. CASE CanPlaceOrder(account, order)
  <2>1. /\ TradedAccount(placed) /\ Keeps(account.orders, placed.orders)
        /\ ExistsOrder(placed.orders, id) /\ ~ExistsOrder(account.orders, id)
        /\ GetOrder(placed.orders, id) = order /\ Mirrors(order, raw)
    BY <1>2, <1>4, PlacedOrder
  <2>2. order.status = "Pending" /\ order.filledQuantity = 0
    BY <1>4 DEF CanPlaceOrder
  <2>3. status \in PythonStatus
    BY <1>2, FirstStatusKnown
  <2>4. account' = IF ResponseStatusApplies(status)
                   THEN ApplyStatus(placed, id, status) ELSE placed
    BY <1>1, <1>4
  <2> HIDE DEF placed, order, id, raw
  <2>5. TradedAccount(account') /\ Keeps(placed.orders, account'.orders)
    <3>1. CASE ResponseStatusApplies(status)
      <4>1. CanSetAccountOrderStatus(placed, id, ToDafnyOrderStatus[status])
        BY <2>1, <2>2, <2>3, <3>1, ResponseApplies
      <4> QED
        BY <2>1, <2>3, <2>4, <3>1, <4>1, ApplyStatusKeeps
    <3>2. CASE ~ResponseStatusApplies(status)
      BY <2>1, <2>4, <3>2, KeepsReflexive
    <3> QED
      BY <3>1, <3>2
  <2>6. Tracks(ids, placed, book)
    BY <1>2, <2>1, TracksOneMore DEF raw
  <2>7. Tracks(ids, account', book)
    <3> HIDE DEF ids
    <3> QED
      BY <2>5, <2>6, TracksKept, GrowsReflexive
  <2> QED
    BY <1>1, <1>4, <2>5, <2>7, CallReturns DEF brokerVars
<1> QED
  BY <1>3, <1>4

\* An answer without an id leaves an order that nothing tracks.
LEMMA AnswerWithoutIdKeepsIInv ==
  ASSUME IInv, AnswerWithoutId
  PROVE  IInv'
<1> DEFINE raw    == book[user.key]
           order  == ToVQCOrder(raw, NextOrderId(account.orders), 0, "pending")
           placed == PlaceOrderCore(account, order)
<1>1. /\ user.pc = "accepted" /\ user' = Idle
      /\ UNCHANGED << brokerVars, orderIds, seen, nextExecutionId, daemon >>
      /\ account' = IF CanPlaceOrder(account, order) THEN placed ELSE account
  BY DEF AnswerWithoutId
<1>2. /\ TradedAccount(account) /\ raw \in BrokerOrder /\ Tracks(orderIds, account, book)
  BY <1>1, BookFields DEF IInv, ClientInv, UserInv
<1>3. TradedAccount(account') /\ Keeps(account.orders, account'.orders)
  <2>1. CASE CanPlaceOrder(account, order)
    BY <1>1, <1>2, <2>1, PlacedOrder
  <2>2. CASE ~CanPlaceOrder(account, order)
    BY <1>1, <1>2, <2>2, KeepsReflexive
  <2> QED
    BY <2>1, <2>2
<1>4. Tracks(orderIds', account', book)
  BY <1>1, <1>2, <1>3, TracksKept, GrowsReflexive
<1> QED
  BY <1>1, <1>3, <1>4, CallReturns DEF brokerVars

-----------------------------------------------------------------------------
(* The worker: synchronization *)

\* What a step of the worker that leaves the account alone has to show.
LEMMA WorkerMoves ==
  ASSUME IInv, UNCHANGED << book, shares, cash, executions, stateVars, user >>,
         queue' = queue \/ queue' = <<>> \/ (queue' = Tail(queue) /\ queue # <<>>),
         DaemonInv', LockInv'
  PROVE  IInv'
<1>1. queue' \in Seq(Update(executions))
  <2> DEFINE S == Update(executions)
  <2>1. queue \in Seq(S)
    BY DEF IInv, BrokerInv
  <2> HIDE DEF S
  <2>2. <<>> \in Seq(S) /\ (queue # <<>> => Tail(queue) \in Seq(S))
    BY <2>1
  <2>3. queue' \in Seq(S)
    BY <2>1, <2>2
  <2> QED
    BY <2>3 DEF S
<1>2. BrokerInv' /\ Grows(book, book')
  BY <1>1, QueueGoesOn DEF IInv, BrokerGoesOn
<1>3. Tracks(orderIds', account', book')
  BY DEF IInv, ClientInv, stateVars
<1>4. ExecutionsInv' /\ UserInv'
  BY <1>2, UserKept DEF IInv, ClientInv, ExecutionsInv, stateVars
<1> QED
  BY <1>2, <1>3, <1>4 DEF IInv, ClientInv, ClientReady, stateVars

\* A synchronization that raises: the next one recovers, unless it was the first.
LEMMA SyncRaisesKeepsIInv ==
  ASSUME IInv, daemon.pc \in SyncSteps, SyncRaises
  PROVE  IInv'
<1> DEFINE pc == IF daemon.within = "start" THEN "failed" ELSE "recover"
<1>1. /\ daemon' = Daemon(pc) /\ queue' = <<>>
      /\ UNCHANGED << book, shares, cash, executions, stateVars, user >>
  BY DEF SyncRaises
<1>2. pc \in DaemonSteps \ SyncSteps
  BY DEF DaemonSteps, SyncSteps
<1>3. pc \in {"connect", "stream", "recover"} => TradedAccount(account')
  BY <1>1 DEF IInv, ClientInv, DaemonInv, stateVars
<1> HIDE DEF pc
<1>4. DaemonInv'
  BY <1>1, <1>2, <1>3, DaemonSet
<1>5. LockInv'
  BY <1>1, <1>2 DEF Daemon, LockInv
<1> QED
  BY <1>1, <1>4, <1>5, WorkerMoves

\* Read positions are of the symbols and held in shares; a short one raises.
LEMMA ReadPositionsKeepsIInv ==
  ASSUME IInv, ReadPositions
  PROVE  IInv'
<1> DEFINE held == GetPositions
           read == [i \in DOMAIN GetPositions |-> ToVQCPosition(GetPositions[i])]
<1>1. daemon.pc = "positions" /\ "positions" \in SyncSteps /\ "orders" \in SyncSteps
  BY DEF ReadPositions, SyncSteps
<1>2. CASE \E i \in DOMAIN held : held[i].qty < 0
  BY <1>1, <1>2, SyncRaisesKeepsIInv DEF ReadPositions
<1>3. CASE ~\E i \in DOMAIN held : held[i].qty < 0
  <2>1. /\ daemon' = [daemon EXCEPT !.pc = "orders", !.positions = read]
        /\ UNCHANGED << brokerVars, stateVars, user >>
    BY <1>3 DEF ReadPositions
  <2>2. read \in Seq(Position) /\ \A i \in DOMAIN read : read[i].symbol \in Symbols
    BY <1>3, PositionsRead DEF IInv
  <2> HIDE DEF read, held
  <2>3. /\ daemon' = [pc |-> "orders", within |-> daemon.within, positions |-> read,
                      orders |-> daemon.orders, stop |-> daemon.stop]
        /\ daemon.within # "start" => TradedAccount(account)
    BY <1>1, <2>1 DEF IInv, ClientInv, DaemonInv
  <2>4. DaemonInv'
    <3>1. "orders" \in DaemonSteps
      BY DEF DaemonSteps, SyncSteps
    <3> QED
      BY <2>1, <2>2, <2>3, <3>1 DEF IInv, ClientInv, DaemonInv, brokerVars, stateVars
  <2>5. LockInv'
    BY <1>1, <2>1 DEF IInv, ClientInv, LockInv
  <2> QED
    BY <2>1, <2>4, <2>5, WorkerMoves DEF brokerVars
<1> QED
  BY <1>2, <1>3

\* An answer that is not full is not cut: it has every open order.
LEMMA AnswerIsComplete ==
  ASSUME Len(OrdersAnswered) # SnapshotLimit
  PROVE  OrdersAnswered = GetOpenOrders
<1>1. CASE Len(GetOpenOrders) <= SnapshotLimit
  BY <1>1 DEF OrdersAnswered
<1>2. CASE ~(Len(GetOpenOrders) <= SnapshotLimit)
  <2>1. OrdersAnswered = SubSeq(GetOpenOrders, 1, SnapshotLimit)
    BY <1>2 DEF OrdersAnswered
  <2>2. SnapshotLimit \in Nat
    BY EnvAssumption
  <2>3. Len(OrdersAnswered) = SnapshotLimit
    BY <2>1, <2>2
  <2> QED
    BY <2>3
<1> QED
  BY <1>1, <1>2

\* A read of the orders takes all that are open, or raises.
LEMMA ReadOrdersIsComplete ==
  ASSUME ReadOrders, ~SyncRaises
  PROVE  /\ daemon.pc = "orders"
         /\ daemon' = [daemon EXCEPT !.pc = "cash", !.orders = GetOpenOrders]
         /\ UNCHANGED << brokerVars, stateVars, user, faults >>
BY AnswerIsComplete DEF ReadOrders

\* Read orders are copies of the book; a full page of them raises.
LEMMA ReadOrdersKeepsIInv ==
  ASSUME IInv, ReadOrders
  PROVE  IInv'
<1> DEFINE read == GetOpenOrders
<1>1. daemon.pc = "orders" /\ "orders" \in SyncSteps /\ "cash" \in SyncSteps
  BY DEF ReadOrders, SyncSteps
<1>2. CASE SyncRaises
  BY <1>1, <1>2, SyncRaisesKeepsIInv
<1>3. CASE ~SyncRaises
  <2>1. /\ daemon' = [daemon EXCEPT !.pc = "cash", !.orders = read]
        /\ UNCHANGED << brokerVars, stateVars, user >>
    BY <1>3, ReadOrdersIsComplete
  <2>2. read \in Seq(BrokerOrder) /\ \A i \in DOMAIN read : IsCopy(read[i], book)
    BY OrdersRead DEF IInv
  <2> HIDE DEF read
  <2>3. /\ daemon' = [pc |-> "cash", within |-> daemon.within,
                      positions |-> daemon.positions, orders |-> read, stop |-> daemon.stop]
        /\ daemon.within # "start" => TradedAccount(account)
    BY <1>1, <2>1 DEF IInv, ClientInv, DaemonInv
  <2>4. DaemonInv'
    <3>1. "cash" \in DaemonSteps
      BY DEF DaemonSteps, SyncSteps
    <3> QED
      BY <2>1, <2>2, <2>3, <3>1 DEF IInv, ClientInv, DaemonInv, brokerVars, stateVars
  <2>5. LockInv'
    BY <1>1, <2>1 DEF IInv, ClientInv, LockInv
  <2> QED
    BY <2>1, <2>4, <2>5, WorkerMoves DEF brokerVars
<1> QED
  BY <1>2, <1>3

\* A snapshot that Bootstrap accepts: its account is traded, and its map finds the
\* order it made of each of the broker's.
LEMMA SnapshotOpens ==
  ASSUME DaemonInv, cash \in Int,
         CanBootstrap(FromDecimal(cash), daemon.positions, SnapshotOrders, 1)
  PROVE  LET acct == BootstrapCore(FromDecimal(cash), daemon.positions, SnapshotOrders, 1)
         IN  TradedAccount(acct) /\ Tracks(SnapshotOrderIds, acct, book)
<1> DEFINE balance   == FromDecimal(cash)
           positions == daemon.positions
           raws      == daemon.orders
           orders    == SnapshotOrders
           acct      == BootstrapCore(balance, positions, orders, 1)
           ids       == SnapshotOrderIds
<1>1. balance \in Int
  <2>1. ToVQCMoney(cash) \in Int /\ cash # Missing
    BY PriceConverted, InputAssumption
  <2> QED
    BY <2>1 DEF ToVQCMoney
<1>2. /\ positions \in Seq(Position)
      /\ \A i \in DOMAIN positions : positions[i].symbol \in Symbols
      /\ raws \in Seq(BrokerOrder) /\ \A i \in DOMAIN raws : IsCopy(raws[i], book)
  BY DEF DaemonInv
<1>3. orders = [i \in DOMAIN raws |-> ToVQCOrder(raws[i], i, raws[i].filled_qty,
                                                ToVQCStatus(raws[i].status))]
  BY DEF SnapshotOrders
<1>4. DOMAIN raws = 1 .. Len(raws) /\ Len(raws) \in Nat
  BY <1>2
<1>5. CanBootstrap(balance, positions, orders, 1)
  OBVIOUS
<1>6. /\ acct.orders = orders /\ acct.positions = positions
  BY DEF BootstrapCore
<1>7. /\ ids = [key \in {raws[i].id : i \in DOMAIN raws} |->
                  CHOOSE i \in DOMAIN raws : raws[i].id = key]
  BY DEF SnapshotOrderIds
<1> HIDE DEF balance, positions, raws, orders, ids
<1>8. ASSUME NEW i \in DOMAIN raws
      PROVE  /\ orders[i] \in Order /\ orders[i].orderId = i
             /\ orders[i].symbol \in Symbols /\ Mirrors(orders[i], raws[i])
  <2>1. raws[i] \in BrokerOrder /\ i \in Nat
    BY <1>2, <1>4
  <2>2. raws[i].filled_qty \in Nat /\ ToVQCStatus(raws[i].status) \in PythonStatus
    BY <2>1, BrokerOrderFields, StatusConverted
  <2>3. orders[i] = ToVQCOrder(raws[i], i, raws[i].filled_qty, ToVQCStatus(raws[i].status))
    BY <1>3
  <2> QED
    BY <2>1, <2>2, <2>3, OrderConverted
<1>9. orders \in Seq(Order) /\ DOMAIN orders = DOMAIN raws
  <2>1. DOMAIN orders = DOMAIN raws
    BY <1>3
  <2>2. orders \in [1 .. Len(raws) -> Order]
    <3>1. orders = [i \in DOMAIN raws |-> orders[i]]
      BY <1>3
    <3> QED
      BY <1>4, <1>8, <3>1
  <2> QED
    BY <1>4, <2>1, <2>2
<1>10. TradedAccount(acct)
  <2>1. 1 \in Nat
    OBVIOUS
  <2>2. GoodAccount(acct)
    BY <1>1, <1>2, <1>5, <1>9, <2>1, BootstrapGood
  <2> QED
    BY <1>2, <1>6, <1>8, <1>9, <2>2 DEF TradedAccount
<1>11. ASSUME NEW key \in DOMAIN ids
       PROVE  ids[key] \in DOMAIN raws /\ raws[ids[key]].id = key
  <2>1. \E i \in DOMAIN raws : raws[i].id = key
    BY <1>7
  <2>2. ids[key] = CHOOSE i \in DOMAIN raws : raws[i].id = key
    BY <1>7
  <2> QED
    BY <2>1, <2>2
<1>12. ASSUME NEW key \in DOMAIN ids
       PROVE  /\ key \in DOMAIN book /\ ExistsOrder(orders, ids[key])
              /\ Mirrors(GetOrder(orders, ids[key]), book[key])
  <2> DEFINE i == ids[key]
  <2>1. i \in DOMAIN raws /\ raws[i].id = key
    BY <1>11, <1>12
  <2> HIDE DEF i
  <2>2. key \in DOMAIN book /\ SameInstruction(raws[i], book[key])
    BY <1>2, <2>1 DEF IsCopy
  <2>3. i \in DOMAIN orders /\ orders[i].orderId = i
    BY <1>8, <1>9, <2>1
  <2>4. GetOrder(orders, i) = orders[i]
    <3>1. IsValidOrderSet(orders)
      BY <1>5 DEF CanBootstrap
    <3> QED
      BY <2>3, <3>1, OrderIndexUnique DEF GetOrder
  <2>5. Mirrors(orders[i], book[key])
    BY <1>8, <2>1, <2>2, MirrorsMoved
  <2>6. ExistsOrder(orders, i)
    BY <2>3 DEF ExistsOrder
  <2> QED
    BY <2>2, <2>4, <2>5, <2>6 DEF i
<1>13. \A a, b \in DOMAIN ids : ids[a] = ids[b] => a = b
  BY <1>11
<1>14. Tracks(ids, acct, book)
  BY <1>6, <1>12, <1>13 DEF Tracks
<1> QED
  BY <1>10, <1>14 DEF balance, positions, orders, ids

\* What a step that replaces the account from a snapshot has to show.
LEMMA AccountReplaced ==
  ASSUME IInv, daemon.pc \in SyncSteps, NEW pc \in DaemonSteps \ SyncSteps,
         daemon' = Daemon(pc), pc \in {"connect", "stream", "recover"} => TradedAccount(account'),
         UNCHANGED << book, shares, cash, executions, seen, nextExecutionId, user >>,
         queue' = queue \/ queue' = <<>>,
         ClientReady' => TradedAccount(account'), Tracks(orderIds', account', book)
  PROVE  IInv'
<1>1. queue' \in Seq(Update(executions))
  <2> DEFINE S == Update(executions)
  <2>1. queue \in Seq(S)
    BY DEF IInv, BrokerInv
  <2> HIDE DEF S
  <2>2. <<>> \in Seq(S)
    OBVIOUS
  <2>3. queue' \in Seq(S)
    BY <2>1, <2>2, Zenon
  <2> QED
    BY <2>3 DEF S
<1>2. BrokerInv'
  BY <1>1, QueueGoesOn DEF IInv, BrokerGoesOn
<1>3. DaemonInv'
  BY DaemonSet
<1>4. user.pc = "idle" /\ user = [pc |-> user.pc, request |-> user.request, key |-> user.key]
  BY DEF IInv, ClientInv, LockInv, UserInv
<1>5. UserInv' /\ LockInv' /\ ExecutionsInv'
  BY <1>4 DEF UserInv, LockInv, IInv, ClientInv, ExecutionsInv
<1> QED
  BY <1>2, <1>3, <1>5 DEF IInv, ClientInv

\* The last read replaces the account and the map, or the synchronization raises.
LEMMA ReadCashKeepsIInv ==
  ASSUME IInv, ReadCash
  PROVE  IInv'
<1> DEFINE acct == BootstrapCore(FromDecimal(cash), daemon.positions, SnapshotOrders, 1)
           pc   == IF daemon.within = "handler" THEN "stream" ELSE "connect"
<1>1. daemon.pc = "cash" /\ "cash" \in SyncSteps
  BY DEF ReadCash, SyncSteps
<1>2. CASE CanBootstrap(FromDecimal(cash), daemon.positions, SnapshotOrders, 1)
  <2>1. /\ account' = acct /\ orderIds' = SnapshotOrderIds /\ daemon' = Daemon(pc)
        /\ UNCHANGED << brokerVars, seen, nextExecutionId, user >>
    BY <1>2 DEF ReadCash
  <2>2. TradedAccount(acct) /\ Tracks(SnapshotOrderIds, acct, book)
    BY <1>2, SnapshotOpens DEF IInv, BrokerInv, ClientInv
  <2>3. pc \in DaemonSteps \ SyncSteps
    BY DEF DaemonSteps, SyncSteps
  <2> HIDE DEF pc, acct
  <2> QED
    BY <1>1, <2>1, <2>2, <2>3, AccountReplaced DEF brokerVars
<1>3. CASE ~CanBootstrap(FromDecimal(cash), daemon.positions, SnapshotOrders, 1)
  BY <1>1, <1>3, SyncRaisesKeepsIInv DEF ReadCash
<1> QED
  BY <1>2, <1>3

\* An order without an id: the account is replaced and the map stays empty.
LEMMA SnapshotWithoutIdKeepsIInv ==
  ASSUME IInv, SnapshotWithoutId
  PROVE  IInv'
<1> DEFINE acct == BootstrapCore(FromDecimal(cash), daemon.positions, SnapshotOrders, 1)
           pc   == IF daemon.within = "start" THEN "failed" ELSE "recover"
<1>1. daemon.pc = "cash" /\ "cash" \in SyncSteps
  BY DEF SnapshotWithoutId, SyncSteps
<1>2. /\ CanBootstrap(FromDecimal(cash), daemon.positions, SnapshotOrders, 1)
      /\ account' = IF daemon.within = "start" THEN NoAccount ELSE acct
      /\ orderIds' = <<>> /\ daemon' = Daemon(pc) /\ queue' = <<>>
      /\ UNCHANGED << book, shares, cash, executions, seen, nextExecutionId, user >>
  BY DEF SnapshotWithoutId
<1>3. TradedAccount(acct)
  BY <1>2, SnapshotOpens DEF IInv, BrokerInv, ClientInv
<1> HIDE DEF acct
<1>4. pc \in DaemonSteps \ SyncSteps
  BY DEF DaemonSteps, SyncSteps
<1>5. /\ pc \in {"connect", "stream", "recover"} => TradedAccount(account')
      /\ ClientReady' => TradedAccount(account')
  BY <1>2, <1>3 DEF ClientReady
<1> HIDE DEF pc
<1>6. Tracks(orderIds', account', book)
  <2>1. DOMAIN orderIds' = {}
    BY <1>2
  <2> QED
    BY <2>1 DEF Tracks
<1> QED
  BY <1>1, <1>2, <1>4, <1>5, <1>6, AccountReplaced

-----------------------------------------------------------------------------
(* The worker: the trade stream *)

\* The worker moves between its streams, its attempts and its end.
LEMMA WorkerStepKeepsIInv ==
  ASSUME IInv, Subscribe \/ StreamEnds \/ RecoverBrokerSnapshot \/ WorkerStops
  PROVE  IInv'
<1>1. /\ daemon.pc \in {"connect", "stream", "recover"}
      /\ UNCHANGED << book, shares, cash, executions, stateVars, user >>
      /\ queue' = queue \/ queue' = <<>>
      /\ TradedAccount(account')
  BY DEF Subscribe, StreamEnds, RecoverBrokerSnapshot, WorkerStops, brokerVars, IInv,
         ClientInv, DaemonInv, stateVars
<1>2. {"stream", "recover", "stopped"} \subseteq DaemonSteps \ SyncSteps
  BY DEF DaemonSteps, SyncSteps
<1>3. CASE RecoverBrokerSnapshot
  <2>1. DaemonInv'
    BY <1>1, <1>3, SyncSet DEF RecoverBrokerSnapshot
  <2>2. LockInv'
    BY <1>3 DEF RecoverBrokerSnapshot, CallerHoldsLock, LockInv
  <2> QED
    BY <1>1, <2>1, <2>2, WorkerMoves
<1>4. CASE ~RecoverBrokerSnapshot
  <2>1. PICK pc \in {"stream", "recover", "stopped"} : daemon' = Daemon(pc)
    BY <1>4 DEF Subscribe, StreamEnds, WorkerStops
  <2>2. DaemonInv'
    BY <1>1, <1>2, <2>1, DaemonSet
  <2>3. LockInv'
    BY <1>2, <2>1 DEF Daemon, LockInv
  <2> QED
    BY <1>1, <2>2, <2>3, WorkerMoves
<1> QED
  BY <1>3, <1>4

\* What a running handler knows: its update, and the account and lock it has.
LEMMA HandlerFacts ==
  ASSUME IInv, HandlerRuns
  PROVE  /\ daemon.pc = "stream" /\ user.pc = "idle" /\ queue # <<>>
         /\ TradedAccount(account) /\ Tracks(orderIds, account, book)
         /\ Head(queue) \in Update(executions) /\ executions \in Nat
         /\ Tail(queue) \in Seq(Update(executions))
<1>1. queue # <<>> /\ queue \in Seq(Update(executions)) /\ executions \in Nat
  BY DEF HandlerRuns, IInv, BrokerInv
<1>2. Head(queue) \in Update(executions) /\ Tail(queue) \in Seq(Update(executions))
  <2> DEFINE S == Update(executions)
  <2>1. queue \in Seq(S)
    BY <1>1
  <2> HIDE DEF S
  <2>2. Head(queue) \in S /\ Tail(queue) \in Seq(S)
    BY <1>1, <2>1
  <2> QED
    BY <2>2 DEF S
<1> QED
  BY <1>1, <1>2 DEF HandlerRuns, CallerHoldsLock, IInv, ClientInv, DaemonInv

\* A handler that raises ends the stream.
LEMMA HandlerRaisesKeepsIInv ==
  ASSUME IInv, HandlerRuns, HandlerRaises,
         UNCHANGED << book, shares, cash, executions, user >>
  PROVE  IInv'
<1>1. daemon' = Daemon("recover") /\ queue' = <<>> /\ UNCHANGED stateVars
  BY DEF HandlerRaises
<1>2. "recover" \in DaemonSteps \ SyncSteps
  BY DEF DaemonSteps, SyncSteps
<1>3. TradedAccount(account')
  BY <1>1, HandlerFacts DEF stateVars
<1>4. DaemonInv' /\ LockInv'
  BY <1>1, <1>2, <1>3, DaemonSet DEF Daemon, LockInv
<1> QED
  BY <1>1, <1>4, WorkerMoves

\* An update of an order that is not tracked starts a synchronization.
LEMMA HandleUntrackedKeepsIInv ==
  ASSUME IInv, HandleUntracked
  PROVE  IInv'
<1>1. /\ HandlerRuns /\ queue' = Tail(queue) /\ StartSync("handler")
      /\ UNCHANGED << book, shares, cash, executions, connected, stateVars, user, faults >>
  BY DEF HandleUntracked
<1>2. user.pc = "idle" /\ queue # <<>> /\ TradedAccount(account')
  BY <1>1, HandlerFacts DEF stateVars
<1>3. DaemonInv' /\ LockInv'
  BY <1>1, <1>2, SyncSet DEF LockInv
<1> QED
  BY <1>1, <1>2, <1>3, WorkerMoves

\* What a handler that applies its update has to show.
LEMMA HandlerApplied ==
  ASSUME IInv, HandlerRuns, HandlerReturns,
         UNCHANGED << book, shares, cash, executions, orderIds, user >>,
         TradedAccount(account'), Keeps(account.orders, account'.orders), ExecutionsInv'
  PROVE  IInv'
<1>1. queue' = Tail(queue) /\ UNCHANGED << connected, daemon >>
  BY DEF HandlerReturns
<1>2. queue' \in Seq(Update(executions))
  BY <1>1, HandlerFacts
<1>3. BrokerInv' /\ Grows(book, book')
  BY <1>2, QueueGoesOn DEF IInv, BrokerGoesOn
<1>4. Tracks(orderIds', account', book')
  BY <1>3, TracksKept DEF IInv, ClientInv
<1>5. UserInv' /\ DaemonInv'
  BY <1>1, <1>3, UserKept, DaemonKept DEF IInv, ClientInv
<1> QED
  BY <1>1, <1>3, <1>4, <1>5 DEF IInv, ClientInv, LockInv

\* A status change is applied, or refused by the core.
LEMMA HandleLifecycleKeepsIInv ==
  ASSUME IInv, HandleLifecycleUpdate
  PROVE  IInv'
<1> DEFINE status == ToLifecycleStatus(Head(queue))
           id     == orderIds[Head(queue).order.id]
<1>1. /\ HandlerRuns
      /\ UNCHANGED << book, shares, cash, executions, user, faults >>
      /\ IF ApplyStatusRaises(account, id, status)
         THEN HandlerRaises
         ELSE /\ account' = ApplyStatus(account, id, status)
              /\ HandlerReturns
              /\ UNCHANGED << orderIds, seen, nextExecutionId >>
  BY DEF HandleLifecycleUpdate
<1>2. status \in PythonStatus /\ TradedAccount(account)
  BY <1>1, HandlerFacts, LifecycleStatusConverted
<1> HIDE DEF status, id
<1>3. CASE ApplyStatusRaises(account, id, status)
  BY <1>1, <1>3, HandlerRaisesKeepsIInv
<1>4. CASE ~ApplyStatusRaises(account, id, status)
  <2>1. \/ IsStaleStatus(GetOrder(account.orders, id).status, status)
        \/ CanSetAccountOrderStatus(account, id, ToDafnyOrderStatus[status])
    BY <1>4 DEF ApplyStatusRaises
  <2>2. TradedAccount(account') /\ Keeps(account.orders, account'.orders)
    BY <1>1, <1>2, <1>4, <2>1, ApplyStatusKeeps
  <2>3. ExecutionsInv'
    BY <1>1, <1>4 DEF IInv, ClientInv, ExecutionsInv
  <2> QED
    BY <1>1, <1>4, <2>2, <2>3, HandlerApplied
<1> QED
  BY <1>3, <1>4

\* What the handler makes of an execution of a tracked order is a fill of the core's.
LEMMA ExecutionConverted ==
  ASSUME IInv, HandlerRuns, IsTracked(Head(queue))
  PROVE  ToVQCFill(Head(queue), nextExecutionId, orderIds[Head(queue).order.id]) \in Fill
<1> DEFINE update == Head(queue)
           id     == orderIds[update.order.id]
<1>1. /\ TradedAccount(account) /\ Tracks(orderIds, account, book)
      /\ update \in Update(executions) /\ executions \in Nat
  BY HandlerFacts
<1>2. nextExecutionId \in Nat
  <2>1. seen \in SUBSET (1 .. executions) /\ nextExecutionId = Cardinality(seen) + 1
    BY DEF IInv, ClientInv, ExecutionsInv
  <2> QED
    BY <1>1, <2>1, SeenAtMostMade
<1>3. id \in Nat
  <2>1. ExistsOrder(account.orders, id)
    BY <1>1 DEF Tracks, IsTracked
  <2>2. account.orders \in Seq(Order)
    BY <1>1, FieldsOfAccount DEF TradedAccount
  <2>3. PICK i \in DOMAIN account.orders : account.orders[i].orderId = id
    BY <2>1 DEF ExistsOrder
  <2>4. account.orders[i] \in Order
    BY <2>2
  <2>5. \A order \in Order : order.orderId \in Nat
    BY DEF Order
  <2> QED
    BY <2>3, <2>4, <2>5
<1> HIDE DEF id
<1>4. ToVQCFill(update, nextExecutionId, id) \in Fill
  BY <1>1, <1>2, <1>3, FillConverted
<1> QED
  BY <1>4 DEF id

\* An execution is ignored if it was seen, applied if the core takes it, and
\* ends the stream otherwise.
LEMMA HandleFillKeepsIInv ==
  ASSUME IInv, HandleFill
  PROVE  IInv'
<1> DEFINE update == Head(queue)
           fill   == ToVQCFill(update, nextExecutionId, orderIds[update.order.id])
<1>1. /\ HandlerRuns /\ IsTracked(update) /\ IsFillUpdate(update)
      /\ UNCHANGED << book, shares, cash, executions, user, faults >>
      /\ IF ~IsNewExecution(update)
         THEN HandlerReturns /\ UNCHANGED stateVars
         ELSE IF CanUpdate(account, fill)
         THEN /\ account' = UpdateCore(account, fill)
              /\ seen' = seen \cup {update.execution_id}
              /\ nextExecutionId' = nextExecutionId + 1
              /\ HandlerReturns
              /\ UNCHANGED orderIds
         ELSE HandlerRaises
  BY DEF HandleFill
<1>2. /\ TradedAccount(account) /\ Tracks(orderIds, account, book)
      /\ update \in Update(executions) /\ executions \in Nat
  BY <1>1, HandlerFacts
<1>3. update.execution_id \in 1 .. executions
  <2>1. update.execution_id \in 0 .. executions
        /\ (IsFillUpdate(update) => update.execution_id > 0)
    BY <1>2 DEF Update
  <2> QED
    BY <1>1, <1>2, <2>1
<1>4. /\ seen \in SUBSET (1 .. executions) /\ nextExecutionId = Cardinality(seen) + 1
      /\ nextExecutionId \in Nat
  <2>1. seen \in SUBSET (1 .. executions) /\ nextExecutionId = Cardinality(seen) + 1
    BY DEF IInv, ClientInv, ExecutionsInv
  <2> QED
    BY <1>2, <2>1, SeenAtMostMade
<1>5. fill \in Fill
  BY <1>1, ExecutionConverted
<1> HIDE DEF fill
<1>6. CASE ~IsNewExecution(update)
  <2>1. HandlerReturns /\ UNCHANGED stateVars
    BY <1>1, <1>6
  <2>2. ExecutionsInv' /\ TradedAccount(account') /\ Keeps(account.orders, account'.orders)
    BY <1>1, <1>2, <2>1, KeepsReflexive DEF IInv, ClientInv, ExecutionsInv, stateVars
  <2> QED
    BY <1>1, <2>1, <2>2, HandlerApplied DEF stateVars
<1>7. CASE IsNewExecution(update) /\ CanUpdate(account, fill)
  <2>1. /\ account' = UpdateCore(account, fill) /\ HandlerReturns /\ UNCHANGED orderIds
        /\ seen' = seen \cup {update.execution_id}
        /\ nextExecutionId' = nextExecutionId + 1
    BY <1>1, <1>7
  <2>2. TradedAccount(account') /\ Keeps(account.orders, account'.orders)
    BY <1>2, <1>5, <1>7, <2>1, UpdateKeeps
  <2>3. ExecutionsInv'
    <3> DEFINE x == update.execution_id
    <3>1. x \notin seen /\ x \in 1 .. executions /\ seen' = seen \cup {x}
      BY <1>3, <1>7, <2>1 DEF IsNewExecution
    <3> HIDE DEF x, update
    <3>2. seen' \subseteq 1 .. executions /\ Cardinality(seen') = Cardinality(seen) + 1
      BY <1>2, <1>4, <3>1, SeenOneMore
    <3> QED
      BY <1>1, <1>4, <2>1, <3>2 DEF ExecutionsInv
  <2> QED
    BY <1>1, <2>1, <2>2, <2>3, HandlerApplied
<1>8. CASE IsNewExecution(update) /\ ~CanUpdate(account, fill)
  BY <1>1, <1>8, HandlerRaisesKeepsIInv
<1> QED
  BY <1>6, <1>7, <1>8

\* An update that lacks a field changes nothing before it ends the stream.
LEMMA HandleMalformedKeepsIInv ==
  ASSUME IInv, HandleMalformed
  PROVE  IInv'
BY HandlerRaisesKeepsIInv DEF HandleMalformed

\* A read that fails raises like a refused snapshot.
LEMMA ReadFailsKeepsIInv ==
  ASSUME IInv, ReadFails
  PROVE  IInv'
BY SyncRaisesKeepsIInv DEF ReadFails

\* A new client has no account, maps nothing and has read nothing.
LEMMA NewClient ==
  ASSUME BrokerInv, account = NoAccount, orderIds = <<>>, seen = {}, nextExecutionId = 1,
         user = Idle, daemon = NewDaemon
  PROVE  IInv
<1>1. Tracks(orderIds, account, book)
  <2>1. DOMAIN orderIds = {}
    OBVIOUS
  <2> QED
    BY <2>1 DEF Tracks
<1>2. ExecutionsInv
  <2>1. Cardinality({}) = 0
    BY FS_EmptySet
  <2> QED
    BY <2>1 DEF ExecutionsInv
<1>3. UserInv /\ LockInv
  BY DEF UserInv, LockInv, Idle
<1>4. DaemonInv
  <2>1. <<>> \in Seq(Position) /\ <<>> \in Seq(BrokerOrder) /\ DOMAIN <<>> = {}
    OBVIOUS
  <2>2. "positions" \in DaemonSteps
    BY DEF DaemonSteps, SyncSteps
  <2> QED
    BY <2>1, <2>2 DEF DaemonInv, NewDaemon
<1> QED
  BY <1>1, <1>2, <1>3, <1>4 DEF IInv, ClientInv, ClientReady

\* The client's process starts again on the broker's account.
LEMMA RestartKeepsIInv ==
  ASSUME IInv, Restart
  PROVE  IInv'
<1>1. /\ account' = NoAccount /\ orderIds' = <<>> /\ seen' = {} /\ nextExecutionId' = 1
      /\ user' = Idle /\ daemon' = NewDaemon /\ queue' = <<>>
      /\ UNCHANGED << book, shares, cash, executions >>
  BY DEF Restart
<1>2. BrokerInv'
  <2>1. queue' \in Seq(Update(executions))
    BY <1>1
  <2> QED
    BY <1>1, <2>1, QueueGoesOn DEF IInv, BrokerGoesOn
<1>3. Tracks(orderIds', account', book')
  <2>1. DOMAIN orderIds' = {}
    BY <1>1
  <2> QED
    BY <2>1 DEF Tracks
<1>4. ExecutionsInv'
  <2>1. Cardinality({}) = 0
    BY FS_EmptySet
  <2> QED
    BY <1>1, <2>1 DEF ExecutionsInv
<1>5. UserInv' /\ LockInv'
  BY <1>1 DEF UserInv, LockInv, Idle
<1>6. DaemonInv'
  <2>1. <<>> \in Seq(Position) /\ <<>> \in Seq(BrokerOrder) /\ DOMAIN <<>> = {}
    OBVIOUS
  <2>2. "positions" \in DaemonSteps
    BY DEF DaemonSteps, SyncSteps
  <2> QED
    BY <1>1, <2>1, <2>2 DEF DaemonInv, NewDaemon
<1> QED
  BY <1>1, <1>2, <1>3, <1>4, <1>5, <1>6 DEF IInv, ClientInv, ClientReady

\* The worker is told to stop.
LEMMA StopKeepsIInv ==
  ASSUME IInv, Stop
  PROVE  IInv'
<1>1. /\ daemon' = [daemon EXCEPT !.stop = TRUE]
      /\ UNCHANGED << brokerVars, stateVars, user, faults >>
  BY DEF Stop
<1>2. daemon' = [pc |-> daemon.pc, within |-> daemon.within, positions |-> daemon.positions,
                 orders |-> daemon.orders, stop |-> TRUE]
  BY <1>1 DEF IInv, ClientInv, DaemonInv
<1>3. DaemonInv' /\ LockInv'
  BY <1>1, <1>2 DEF IInv, ClientInv, DaemonInv, LockInv, brokerVars, stateVars
<1> QED
  BY <1>1, <1>3, WorkerMoves DEF brokerVars

-----------------------------------------------------------------------------
(* The theorems *)

\* The accounts a client may start with satisfy the invariant.
LEMMA InitIInv == Init => IInv
<1> SUFFICES ASSUME Init PROVE IInv
  OBVIOUS
<1>1. BrokerInv
  <2>1. PICK a \in Accounts : book = a.book /\ shares = a.shares /\ cash = a.cash
    BY DEF Init, BrokerInit
  <2>2. executions = 0 /\ queue = <<>>
    BY DEF Init, BrokerInit
  <2>3. /\ a.book \in Seq(BrokerOrder) /\ \A k \in DOMAIN a.book : a.book[k].id = k
        /\ a.shares \in [Symbols -> Int] /\ a.cash \in Int
    BY InputAssumption, Zenon
  <2>4. executions \in Nat /\ queue \in Seq(Update(executions))
    BY <2>2
  <2>5. /\ book \in Seq(BrokerOrder) /\ \A k \in DOMAIN book : book[k].id = k
        /\ shares \in [Symbols -> Int] /\ cash \in Int
    BY <2>1, <2>3, Zenon
  <2> QED
    BY <2>4, <2>5, Zenon DEF BrokerInv
<1> QED
  BY <1>1, NewClient DEF Init

\* The invariant is inductive: one case for each action of Next.
LEMMA NextKeepsIInv == IInv /\ [Next]_vars => IInv'
<1> SUFFICES ASSUME IInv, [Next]_vars PROVE IInv'
  OBVIOUS
<1>1. CASE SubmitOrder \/ Liquidate
  BY <1>1, CallKeepsIInv
<1>2. CASE BrokerAccepts
  BY <1>2, BrokerAcceptsKeepsIInv
<1>3. CASE BrokerRefuses \/ AnswerLost
  BY <1>3, CallFailsKeepsIInv
<1>4. CASE TrackSubmittedOrder \/ AnswerWithoutStatus
  <2>1. PICK status \in FirstStatus : Register(status)
    BY <1>4, AnswerRegisters
  <2> QED
    BY <2>1, TrackKeepsIInv
<1>5. CASE AnswerWithoutId
  BY <1>5, AnswerWithoutIdKeepsIInv
<1>6. CASE ReadPositions
  BY <1>6, ReadPositionsKeepsIInv
<1>7. CASE ReadOrders
  BY <1>7, ReadOrdersKeepsIInv
<1>8. CASE ReadCash
  BY <1>8, ReadCashKeepsIInv
<1>9. CASE ReadFails
  BY <1>9, ReadFailsKeepsIInv
<1>10. CASE SnapshotWithoutId
  BY <1>10, SnapshotWithoutIdKeepsIInv
<1>11. CASE Subscribe \/ StreamEnds \/ RecoverBrokerSnapshot \/ WorkerStops
  BY <1>11, WorkerStepKeepsIInv
<1>12. CASE HandleUntracked
  BY <1>12, HandleUntrackedKeepsIInv
<1>13. CASE HandleLifecycleUpdate
  BY <1>13, HandleLifecycleKeepsIInv
<1>14. CASE HandleFill
  BY <1>14, HandleFillKeepsIInv
<1>15. CASE HandleMalformed
  BY <1>15, HandleMalformedKeepsIInv
<1>16. CASE BrokerMoves \/ OthersTrade \/ StreamFault
  BY <1>16, EnvironmentKeepsIInv
<1>17. CASE Restart
  BY <1>17, RestartKeepsIInv
<1>18. CASE Stop
  BY <1>18, StopKeepsIInv
<1>19. CASE UNCHANGED vars
  <2>1. UNCHANGED << book, shares, cash, executions, queue, clientVars >>
    BY <1>19 DEF vars, brokerVars
  <2>2. BrokerGoesOn
    BY <2>1, QueueGoesOn DEF IInv, BrokerInv
  <2> QED
    BY <2>1, <2>2, ClientKept
<1> QED
  BY <1>1, <1>2, <1>3, <1>4, <1>5, <1>6, <1>7, <1>8, <1>9, <1>10, <1>11, <1>12, <1>13,
     <1>14, <1>15, <1>16, <1>17, <1>18, <1>19 DEF Next, CallerStep, DaemonStep

\* Every reachable state satisfies the invariant.
LEMMA AlwaysIInv == Spec => []IInv
  BY InitIInv, NextKeepsIInv, PTL DEF Spec

\* The account, the map from the broker's orders and the execution ids are what
\* the code takes them for, for every broker, caller and fault (vqc_client.py:46-61).
THEOREM SyncTypeCorrect == Spec => []TypeOK
<1>1. IInv => TypeOK
  <2> SUFFICES ASSUME IInv PROVE TypeOK
    OBVIOUS
  <2>1. ClientReady => account \in Account
    BY DEF IInv, ClientInv, TradedAccount, GoodAccount
  <2>2. DOMAIN orderIds \subseteq DOMAIN book
    BY DEF IInv, ClientInv, Tracks
  <2>3. /\ executions \in Nat /\ seen \in SUBSET (1 .. executions)
        /\ nextExecutionId = Cardinality(seen) + 1
    BY DEF IInv, BrokerInv, ClientInv, ExecutionsInv
  <2>4. Cardinality(seen) \in 0 .. executions
    BY <2>3, SeenAtMostMade
  <2>5. nextExecutionId \in Nat \ {0}
    BY <2>3, <2>4
  <2> QED
    BY <2>1, <2>2, <2>3, <2>5 DEF TypeOK, IInv, ClientInv, UserInv, DaemonInv
<1> QED
  BY <1>1, AlwaysIInv, PTL

\* No client applies an execution twice: it remembers each one it applies in the
\* step that does, and a snapshot that replaces the account forgets none of them
\* (vqc_daemon.py:104-129).
THEOREM ExecutionsAppliedOnce == Spec => []NoExecutionTwice
<1>1. IInv => NoExecutionTwice
  <2> SUFFICES ASSUME IInv PROVE NoExecutionTwice
    OBVIOUS
  <2>1. /\ executions \in Nat /\ seen \in SUBSET (1 .. executions)
        /\ nextExecutionId = Cardinality(seen) + 1
    BY DEF IInv, BrokerInv, ClientInv, ExecutionsInv
  <2>2. Cardinality(seen) \in 0 .. executions
    BY <2>1, SeenAtMostMade
  <2> QED
    BY <2>1, <2>2 DEF NoExecutionTwice
<1> QED
  BY <1>1, AlwaysIInv, PTL

\* Whatever the broker and the network do, the client's account is valid and its
\* orders are consistent: every operation is guarded by its contract, and a
\* snapshot the contract of Bootstrap refuses is not taken.
THEOREM AccountAlwaysValid == Spec => []AccountStaysValid
<1>1. IInv => AccountStaysValid
  BY DEF IInv, ClientInv, TradedAccount, GoodAccount, AccountStaysValid
<1> QED
  BY <1>1, AlwaysIInv, PTL

\* A local order found through the map is the instruction the broker has under
\* that id, and no two broker orders share one, across renumbering, submissions
\* that race the worker, lost answers and restarts.
THEOREM TrackingFaithful == Spec => []TrackedOrdersMatch
<1>1. IInv => TrackedOrdersMatch
  BY DEF IInv, ClientInv, Tracks, Mirrors, TrackedOrdersMatch, IsInjective
<1> QED
  BY <1>1, AlwaysIInv, PTL

-----------------------------------------------------------------------------
(* Promises to sell: what they add up to *)

\* The shares of a symbol that an order of the account promises to the market.
Promise(order, symbol) ==
  IF /\ order.symbol = symbol
     /\ order.side = "Sell"
     /\ order.status \in {"Pending", "Open", "PartiallyFilled"}
  THEN RemainingQuantity(order) ELSE 0

\* Reserved of any list of orders.
Promised(orders, symbol) == SumSeq([i \in DOMAIN orders |-> Promise(orders[i], symbol)])

Held(positions, symbol) == PositionOrEmpty(positions, symbol).quantity

\* No more is promised than is held.
Covered(positions, orders) ==
  \A symbol \in Symbols : Promised(orders, symbol) <= Held(positions, symbol)

\* The shares of a symbol that an order offers at the broker.
Offer(raw, symbol) ==
  IF IsLive(raw) /\ raw.side = "sell" /\ raw.symbol = symbol THEN Remaining(raw) ELSE 0

\* The client's reservation is the promise of its account's orders.
LEMMA ReservedIsPromised ==
  ASSUME NEW symbol
  PROVE  /\ Reserved(symbol) = Promised(account.orders, symbol)
         /\ AvailableToSell(symbol)
              = Held(account.positions, symbol) - Promised(account.orders, symbol)
BY DEF Reserved, Promised, Promise, AvailableToSell, Held

\* What the broker has committed is the offer of its book's orders.
LEMMA CommittedIsOffered ==
  ASSUME NEW orders, NEW symbol
  PROVE  Committed(orders, symbol) = SumSeq([k \in DOMAIN orders |-> Offer(orders[k], symbol)])
BY DEF Committed, Offer

\* An order promises a number of shares, and a valid one no negative number.
LEMMA PromiseIsNumber ==
  ASSUME NEW order \in Order, NEW symbol
  PROVE  /\ Promise(order, symbol) \in Int
         /\ IsValidOrder(order) => Promise(order, symbol) >= 0
BY DEF Promise, RemainingQuantity, Order, IsValidOrder

\* An order offers some number of shares, never less than none.
LEMMA OfferIsNumber ==
  ASSUME NEW raw \in BrokerOrder, NEW symbol
  PROVE  Offer(raw, symbol) \in Nat
<1>1. raw.qty \in Nat /\ raw.filled_qty \in Nat /\ raw.filled_qty <= raw.qty
  BY BrokerOrderFields
<1>2. Remaining(raw) \in Nat
  BY <1>1 DEF Remaining
<1> QED
  BY <1>2 DEF Offer

\* The promises of a list, one number for each order.
LEMMA PromisedType ==
  ASSUME NEW orders \in Seq(Order), NEW symbol
  PROVE  /\ [i \in DOMAIN orders |-> Promise(orders[i], symbol)] \in Seq(Int)
         /\ Promised(orders, symbol) \in Int
<1> DEFINE v == [i \in DOMAIN orders |-> Promise(orders[i], symbol)]
<1>1. \A i \in DOMAIN orders : Promise(orders[i], symbol) \in Int
  BY PromiseIsNumber
<1>2. v \in Seq(Int)
  BY <1>1
<1> HIDE DEF v
<1> QED
  BY <1>2, SumSeqType DEF Promised, v

\* The shares offered in a book are the sum of a sequence of numbers.
LEMMA CommittedType ==
  ASSUME NEW orders \in Seq(BrokerOrder), NEW symbol
  PROVE  /\ [k \in DOMAIN orders |-> Offer(orders[k], symbol)] \in Seq(Int)
         /\ Committed(orders, symbol) \in Int
<1> DEFINE v == [k \in DOMAIN orders |-> Offer(orders[k], symbol)]
<1>1. \A k \in DOMAIN orders : Offer(orders[k], symbol) \in Int
  BY OfferIsNumber
<1>2. v \in Seq(Int)
  BY <1>1
<1> HIDE DEF v
<1> QED
  BY <1>2, SumSeqType, CommittedIsOffered DEF v

\* A further order adds its promise.
LEMMA PromisedAppended ==
  ASSUME NEW orders \in Seq(Order), NEW order \in Order, NEW symbol
  PROVE  Promised(Append(orders, order), symbol)
           = Promised(orders, symbol) + Promise(order, symbol)
<1> DEFINE v == [i \in DOMAIN orders |-> Promise(orders[i], symbol)]
           more == Append(orders, order)
           w == [i \in DOMAIN more |-> Promise(more[i], symbol)]
           x == Promise(order, symbol)
<1>1. v \in Seq(Int) /\ w \in Seq(Int) /\ x \in Int
  <2>1. more \in Seq(Order)
    OBVIOUS
  <2> HIDE DEF more
  <2> QED
    BY <2>1, PromisedType, PromiseIsNumber
<1>2. Len(w) = Len(v) + 1 /\ w[Len(v) + 1] = x /\ \A i \in 1 .. Len(v) : w[i] = v[i]
  <2>1. Len(v) = Len(orders) /\ Len(w) = Len(more) /\ Len(more) = Len(orders) + 1
    OBVIOUS
  <2>2. more[Len(orders) + 1] = order /\ \A i \in 1 .. Len(orders) : more[i] = orders[i]
    OBVIOUS
  <2>3. DOMAIN more = 1 .. Len(orders) + 1 /\ DOMAIN orders = 1 .. Len(orders) /\ Len(orders) \in Nat
    OBVIOUS
  <2> HIDE DEF more
  <2> QED
    BY <2>1, <2>2, <2>3
<1>3. Promised(orders, symbol) = SumSeq(v) /\ Promised(more, symbol) = SumSeq(w)
  BY DEF Promised
<1> HIDE DEF v, w, x
<1> QED
  BY <1>1, <1>2, <1>3, SumSeqExtended DEF x

\* A new order adds its own offer.
LEMMA CommittedAppended ==
  ASSUME NEW orders \in Seq(BrokerOrder), NEW raw \in BrokerOrder, NEW symbol
  PROVE  Committed(Append(orders, raw), symbol)
           = Committed(orders, symbol) + Offer(raw, symbol)
<1> DEFINE v == [i \in DOMAIN orders |-> Offer(orders[i], symbol)]
           more == Append(orders, raw)
           w == [i \in DOMAIN more |-> Offer(more[i], symbol)]
           x == Offer(raw, symbol)
<1>1. v \in Seq(Int) /\ w \in Seq(Int) /\ x \in Int
  <2>1. more \in Seq(BrokerOrder)
    OBVIOUS
  <2>2. x \in Int
    BY OfferIsNumber
  <2> HIDE DEF more
  <2> QED
    BY <2>1, <2>2, CommittedType
<1>2. Len(w) = Len(v) + 1 /\ w[Len(v) + 1] = x /\ \A i \in 1 .. Len(v) : w[i] = v[i]
  <2>1. Len(v) = Len(orders) /\ Len(w) = Len(more) /\ Len(more) = Len(orders) + 1
    OBVIOUS
  <2>2. more[Len(orders) + 1] = raw /\ \A i \in 1 .. Len(orders) : more[i] = orders[i]
    OBVIOUS
  <2>3. DOMAIN more = 1 .. Len(orders) + 1 /\ DOMAIN orders = 1 .. Len(orders) /\ Len(orders) \in Nat
    OBVIOUS
  <2> HIDE DEF more
  <2> QED
    BY <2>1, <2>2, <2>3
<1>3. Committed(orders, symbol) = SumSeq(v) /\ Committed(more, symbol) = SumSeq(w)
  BY CommittedIsOffered
<1> HIDE DEF v, w, x
<1> QED
  BY <1>1, <1>2, <1>3, SumSeqExtended DEF x

\* An order that changes changes the sum by the difference of its promises.
LEMMA PromisedReplaced ==
  ASSUME NEW orders \in Seq(Order), IsValidOrderSet(orders), NEW updated \in Order,
         ExistsOrder(orders, updated.orderId), NEW symbol
  PROVE  Promised(UpdateOrder(orders, updated), symbol)
           = Promised(orders, symbol)
               - Promise(GetOrder(orders, updated.orderId), symbol) + Promise(updated, symbol)
<1> DEFINE k == OrderIndex(orders, updated.orderId)
           after == UpdateOrder(orders, updated)
           v == [i \in DOMAIN orders |-> Promise(orders[i], symbol)]
           w == [i \in DOMAIN after |-> Promise(after[i], symbol)]
<1>1. k \in DOMAIN orders /\ GetOrder(orders, updated.orderId) = orders[k]
  BY OrderFound DEF GetOrder
<1>2. after = [orders EXCEPT ![k] = updated]
  BY DEF UpdateOrder
<1> HIDE DEF k, after
<1>3. /\ after \in Seq(Order) /\ DOMAIN after = DOMAIN orders /\ Len(after) = Len(orders)
      /\ after[k] = updated
      /\ \A i \in DOMAIN orders : i # k => after[i] = orders[i]
  BY <1>1, <1>2
<1>4. v \in Seq(Int) /\ w \in Seq(Int)
  BY <1>3, PromisedType
<1>5. /\ Len(w) = Len(v) /\ k \in DOMAIN v /\ v[k] = Promise(orders[k], symbol)
      /\ w[k] = Promise(updated, symbol)
      /\ \A i \in DOMAIN v : i # k => w[i] = v[i]
  BY <1>1, <1>3
<1>6. Promised(orders, symbol) = SumSeq(v) /\ Promised(after, symbol) = SumSeq(w)
  BY DEF Promised
<1> HIDE DEF v, w
<1>7. SumSeq(w) = SumSeq(v) - v[k] + w[k]
  BY <1>4, <1>5, SumSeqReplaced
<1> QED
  BY <1>1, <1>5, <1>6, <1>7 DEF after

\* A changed order exchanges its old offer for its new one.
LEMMA CommittedReplaced ==
  ASSUME NEW orders \in Seq(BrokerOrder), NEW k \in DOMAIN orders,
         NEW updated \in BrokerOrder, NEW symbol
  PROVE  Committed([orders EXCEPT ![k] = updated], symbol)
           = Committed(orders, symbol) - Offer(orders[k], symbol) + Offer(updated, symbol)
<1> DEFINE after == [orders EXCEPT ![k] = updated]
           v == [i \in DOMAIN orders |-> Offer(orders[i], symbol)]
           w == [i \in DOMAIN after |-> Offer(after[i], symbol)]
<1>3. /\ after \in Seq(BrokerOrder) /\ DOMAIN after = DOMAIN orders /\ Len(after) = Len(orders)
      /\ after[k] = updated
      /\ \A i \in DOMAIN orders : i # k => after[i] = orders[i]
  OBVIOUS
<1> HIDE DEF after
<1>4. v \in Seq(Int) /\ w \in Seq(Int)
  BY <1>3, CommittedType
<1>5. /\ Len(w) = Len(v) /\ k \in DOMAIN v /\ v[k] = Offer(orders[k], symbol)
      /\ w[k] = Offer(updated, symbol)
      /\ \A i \in DOMAIN v : i # k => w[i] = v[i]
  BY <1>3
<1>6. Committed(orders, symbol) = SumSeq(v) /\ Committed(after, symbol) = SumSeq(w)
  BY CommittedIsOffered
<1> HIDE DEF v, w
<1>7. SumSeq(w) = SumSeq(v) - v[k] + w[k]
  BY <1>4, <1>5, SumSeqReplaced
<1> QED
  BY <1>5, <1>6, <1>7 DEF after

-----------------------------------------------------------------------------
(* What the broker's moves do to what it has committed *)

\* The offers shrink and the shares nobody has offered do not become fewer.
Releases ==
  \A symbol \in Symbols :
    /\ Committed(book', symbol) <= Committed(book, symbol)
    /\ Uncommitted(symbol) <= Uncommitted(symbol)'

\* Symbols have a number of committed shares and a number of shares held.
LEMMA CommittedInBook ==
  ASSUME BrokerInv, NEW symbol \in Symbols
  PROVE  /\ Committed(book, symbol) \in Int /\ shares[symbol] \in Int
         /\ Uncommitted(symbol) = shares[symbol] - Committed(book, symbol)
BY CommittedType DEF BrokerInv, Uncommitted

\* A change of a live order's status keeps its offer or withdraws it.
LEMMA StatusReleases ==
  ASSUME BrokerInv, NEW k \in DOMAIN book, IsLive(book[k]), NEW status \in BrokerStatuses,
         book' = [book EXCEPT ![k] = [book[k] EXCEPT !.status = status]], shares' = shares
  PROVE  Releases
<1> DEFINE raw == book[k]
           next == [raw EXCEPT !.status = status]
<1>1. raw \in BrokerOrder /\ raw.filled_qty \in Nat /\ raw.filled_qty <= raw.qty
  BY BookFields, BrokerOrderFields
<1>2. next \in BrokerOrder
  BY <1>1, BrokerOrderMoved
<1>3. /\ next.side = raw.side /\ next.symbol = raw.symbol /\ next.qty = raw.qty
      /\ next.filled_qty = raw.filled_qty
  <2>1. \A r \in BrokerOrder : LET s == [r EXCEPT !.status = status]
                               IN  /\ s.side = r.side /\ s.symbol = r.symbol /\ s.qty = r.qty
                                   /\ s.filled_qty = r.filled_qty
    BY DEF BrokerOrder
  <2> QED
    BY <1>1, <2>1
<1>4. book \in Seq(BrokerOrder) /\ book' = [book EXCEPT ![k] = next]
  BY DEF BrokerInv
<1> HIDE DEF next
<1> SUFFICES ASSUME NEW symbol \in Symbols
             PROVE  /\ Committed(book', symbol) <= Committed(book, symbol)
                    /\ Uncommitted(symbol) <= Uncommitted(symbol)'
  BY DEF Releases
<1>5. Committed(book', symbol)
        = Committed(book, symbol) - Offer(raw, symbol) + Offer(next, symbol)
  <2>0. book \in Seq(BrokerOrder) /\ next \in BrokerOrder /\ k \in DOMAIN book
    BY <1>2, <1>4
  <2>1. Committed([book EXCEPT ![k] = next], symbol)
          = Committed(book, symbol) - Offer(book[k], symbol) + Offer(next, symbol)
    BY ONLY <2>0, CommittedReplaced, Zenon
  <2> QED
    BY <1>4, <2>1
<1>6. Offer(next, symbol) \in {0, Offer(raw, symbol)}
  BY <1>3 DEF Offer, Remaining
<1>7. Offer(raw, symbol) \in Nat
  BY <1>1, OfferIsNumber
<1>8. /\ Committed(book, symbol) \in Int /\ shares[symbol] \in Int
      /\ Uncommitted(symbol) = shares[symbol] - Committed(book, symbol)
      /\ Uncommitted(symbol)' = shares[symbol] - Committed(book', symbol)
  BY CommittedInBook DEF Uncommitted
<1> HIDE DEF raw
<1> QED
  BY <1>5, <1>6, <1>7, <1>8

\* An execution takes as many shares from the holding as from the offer of a
\* sell, and a purchase adds to the holding.
LEMMA ExecuteReleases ==
  ASSUME BrokerInv, NEW k \in DOMAIN book, Execute(k)
  PROVE  Releases
<1> DEFINE raw == book[k]
<1>1. /\ raw \in BrokerOrder /\ raw.qty \in Nat /\ raw.filled_qty \in Nat
      /\ raw.filled_qty <= raw.qty /\ raw.symbol \in Symbols /\ raw.side \in {"buy", "sell"}
  BY BookFields, BrokerOrderFields
<1>2. IsLive(raw)
  BY DEF Execute
<1>3. PICK n \in 1 .. Remaining(raw) :
        LET done   == Remaining(raw) = n
            signed == IF raw.side = "buy" THEN n ELSE 0 - n
            order  == [raw EXCEPT !.filled_qty = raw.filled_qty + n,
                                  !.status = IF done THEN "filled"
                                             ELSE IF raw.status = "pending_cancel"
                                             THEN "pending_cancel"
                                             ELSE "partially_filled"]
        IN  /\ book' = [book EXCEPT ![k] = order]
            /\ shares' = [shares EXCEPT ![order.symbol] = shares[order.symbol] + signed]
  BY DEF Execute
<1> DEFINE rest == Remaining(raw)
           signed == IF raw.side = "buy" THEN n ELSE 0 - n
           filled == raw.filled_qty + n
           status == IF rest = n THEN "filled"
                     ELSE IF raw.status = "pending_cancel" THEN "pending_cancel"
                     ELSE "partially_filled"
           next == [raw EXCEPT !.filled_qty = filled, !.status = status]
<1>4. /\ rest = raw.qty - raw.filled_qty /\ n \in Nat /\ n <= rest
      /\ filled \in Nat /\ filled <= raw.qty
      /\ rest \in Nat
  BY <1>1 DEF Remaining
<1>5. status \in BrokerStatuses
  <2>1. {"filled", "pending_cancel", "partially_filled"} \subseteq BrokerStatuses
    BY DEF BrokerStatuses, LiveStatuses
  <2>2. status \in {"filled", "pending_cancel", "partially_filled"}
    BY Zenon
  <2> QED
    BY <2>1, <2>2
<1>6. status \in LiveStatuses <=> rest # n
  <2>1. /\ "filled" \notin LiveStatuses
        /\ "pending_cancel" \in LiveStatuses /\ "partially_filled" \in LiveStatuses
    BY DEF LiveStatuses
  <2> HIDE DEF rest
  <2> QED
    BY <2>1, Zenon
<1>7. /\ book' = [book EXCEPT ![k] = next]
      /\ shares' = [shares EXCEPT ![next.symbol] = shares[next.symbol] + signed]
  BY <1>3
<1> HIDE DEF status, rest, filled
<1>8. next \in BrokerOrder
  BY <1>1, <1>4, <1>5, BrokerOrderMoved
<1>9. /\ next.side = raw.side /\ next.symbol = raw.symbol /\ next.qty = raw.qty
      /\ next.filled_qty = filled /\ next.status = status
  <2>1. \A r \in BrokerOrder : \A f, t :
          LET s == [r EXCEPT !.filled_qty = f, !.status = t]
          IN  /\ s.side = r.side /\ s.symbol = r.symbol /\ s.qty = r.qty
              /\ s.filled_qty = f /\ s.status = t
    BY DEF BrokerOrder
  <2> QED
    BY <1>1, <2>1
<1>10. book \in Seq(BrokerOrder) /\ shares \in [Symbols -> Int]
  BY DEF BrokerInv
<1>11. Remaining(next) = rest - n
  BY <1>1, <1>4, <1>9 DEF Remaining, filled
<1> HIDE DEF next
<1> SUFFICES ASSUME NEW symbol \in Symbols
             PROVE  /\ Committed(book', symbol) <= Committed(book, symbol)
                    /\ Uncommitted(symbol) <= Uncommitted(symbol)'
  BY DEF Releases
<1> DEFINE moved == IF symbol = raw.symbol THEN signed ELSE 0
<1>12. shares'[symbol] = shares[symbol] + moved
  BY <1>1, <1>4, <1>7, <1>9, <1>10
<1>13. Committed(book', symbol)
         = Committed(book, symbol) - Offer(raw, symbol) + Offer(next, symbol)
  BY <1>7, <1>8, <1>10, CommittedReplaced
<1>14. Offer(next, symbol) <= Offer(raw, symbol)
         /\ Offer(next, symbol) - Offer(raw, symbol) <= moved
         /\ Offer(raw, symbol) \in Int /\ Offer(next, symbol) \in Int
  <2>1. CASE raw.side = "sell" /\ raw.symbol = symbol
    <3>1. Offer(raw, symbol) = rest
      BY <1>2, <2>1 DEF Offer, rest
    <3>2. Offer(next, symbol) = rest - n
      <4>1. IsLive(next) <=> rest # n
        BY <1>6, <1>9 DEF IsLive
      <4> QED
        BY <1>4, <1>9, <1>11, <2>1, <4>1 DEF Offer
    <3>3. moved = 0 - n
      BY <2>1
    <3> QED
      BY <1>4, <3>1, <3>2, <3>3
  <2>2. CASE ~(raw.side = "sell" /\ raw.symbol = symbol)
    <3>1. Offer(raw, symbol) = 0 /\ Offer(next, symbol) = 0
      BY <1>9, <2>2 DEF Offer
    <3>2. moved \in Nat
      BY <1>1, <1>4, <2>2
    <3> QED
      BY <3>1, <3>2
  <2> QED
    BY <2>1, <2>2
<1>15. /\ Committed(book, symbol) \in Int /\ shares[symbol] \in Int
       /\ Uncommitted(symbol) = shares[symbol] - Committed(book, symbol)
       /\ Uncommitted(symbol)' = shares'[symbol] - Committed(book', symbol)
  BY CommittedInBook DEF Uncommitted
<1>16. moved \in Int
  BY <1>4
<1> HIDE DEF raw, moved
<1> QED
  BY <1>12, <1>13, <1>14, <1>15, <1>16

\* Whatever the broker does of its own with the orders it has.
LEMMA BrokerMovesRelease ==
  ASSUME BrokerInv, BrokerMoves
  PROVE  Releases
<1>1. PICK k \in DOMAIN book :
        OpenOrder(k) \/ RejectOrder(k) \/ RequestCancel(k) \/ CancelOrder(k)
          \/ CloseDay(k) \/ Execute(k)
  BY DEF BrokerMoves
<1>2. CASE Execute(k)
  BY <1>2, ExecuteReleases
<1>3. CASE OpenOrder(k) \/ RejectOrder(k) \/ RequestCancel(k) \/ CancelOrder(k) \/ CloseDay(k)
  <2>1. IsLive(book[k])
    BY <1>3 DEF OpenOrder, RejectOrder, RequestCancel, CancelOrder, CloseDay, IsLive,
                LiveStatuses
  <2>2. PICK status \in {"new", "rejected", "pending_cancel", "canceled", "done_for_day"} :
          Move(k, [book[k] EXCEPT !.status = status], status)
    BY <1>3 DEF OpenOrder, RejectOrder, RequestCancel, CancelOrder, CloseDay
  <2>3. status \in BrokerStatuses
    BY DEF BrokerStatuses, LiveStatuses
  <2>4. book' = [book EXCEPT ![k] = [book[k] EXCEPT !.status = status]] /\ shares' = shares
    BY <2>2 DEF Move
  <2> QED
    BY <2>1, <2>3, <2>4, StatusReleases
<1> QED
  BY <1>1, <1>2, <1>3

-----------------------------------------------------------------------------
(* What the client's steps do to its promises *)

\* The shares held of a symbol are a number.
LEMMA HeldType ==
  ASSUME NEW positions \in Seq(Position), NEW symbol
  PROVE  Held(positions, symbol) \in Nat
<1>1. CASE ExistsPosition(positions, symbol)
  <2>1. GetPosition(positions, symbol) \in Position
    BY <1>1, PositionFound DEF GetPosition
  <2> QED
    BY <1>1, <2>1 DEF Held, PositionOrEmpty, Position
<1>2. CASE ~ExistsPosition(positions, symbol)
  BY <1>2 DEF Held, PositionOrEmpty
<1> QED
  BY <1>1, <1>2

\* A legal status change never promises more: no order comes back to life.
LEMMA StatusPromisesLess ==
  ASSUME NEW order \in Order, NEW status \in OrderStatus, CanSetOrderStatus(order, status),
         NEW symbol
  PROVE  Promise(SetStatus(order, status), symbol) <= Promise(order, symbol)
<1> DEFINE after == SetStatus(order, status)
<1>1. /\ after.symbol = order.symbol /\ after.side = order.side
      /\ after.quantity = order.quantity
      /\ after.filledQuantity = order.filledQuantity /\ after.status = status
  BY SetStatusSound DEF IsSameOrder
<1>2. CanTransition(order.status, status)
  BY DEF CanSetOrderStatus, CanSetStatus
<1>3. status \in {"Pending", "Open", "PartiallyFilled"}
        => order.status \in {"Pending", "Open", "PartiallyFilled"}
  BY <1>2 DEF CanTransition, OrderStatus
<1>4. Promise(order, symbol) \in Int /\ Promise(order, symbol) >= 0
  BY PromiseIsNumber DEF CanSetOrderStatus
<1> HIDE DEF after
<1>5. Promise(after, symbol) \in {0, Promise(order, symbol)}
  BY <1>1, <1>3 DEF Promise, RemainingQuantity
<1> QED
  BY <1>4, <1>5 DEF after

\* What is covered stays covered when the status of an order changes.
LEMMA StatusCovered ==
  ASSUME NEW acct, TradedAccount(acct), NEW id, NEW status \in OrderStatus,
         CanSetAccountOrderStatus(acct, id, status), Covered(acct.positions, acct.orders)
  PROVE  LET after == SetOrderStatusCore(acct, id, status)
         IN  Covered(after.positions, after.orders)
<1> DEFINE order   == GetOrder(acct.orders, id)
           updated == SetStatus(order, status)
           after   == SetOrderStatusCore(acct, id, status)
<1>1. /\ GoodAccount(acct) /\ acct.orders \in Seq(Order) /\ IsValidOrderSet(acct.orders)
      /\ acct.positions \in Seq(Position)
  BY FieldsOfAccount DEF TradedAccount
<1>2. /\ order \in Order /\ order.orderId = id /\ ExistsOrder(acct.orders, id)
      /\ CanSetOrderStatus(order, status)
      /\ updated \in Order /\ updated.orderId = id
      /\ after.orders = UpdateOrder(acct.orders, updated)
      /\ after.positions = acct.positions
  BY <1>1, SetOrderStatusGood
<1>3. \A symbol : Promise(updated, symbol) <= Promise(order, symbol)
  BY <1>2, StatusPromisesLess
<1> HIDE DEF order, updated, after
<1>4. ASSUME NEW symbol \in Symbols
      PROVE  Promised(after.orders, symbol) <= Held(after.positions, symbol)
  <2>1. Promised(after.orders, symbol)
          = Promised(acct.orders, symbol) - Promise(order, symbol) + Promise(updated, symbol)
    <3>1. GetOrder(acct.orders, updated.orderId) = order
      BY <1>2 DEF order
    <3> QED
      BY <1>1, <1>2, <3>1, PromisedReplaced
  <2>2. /\ Promised(acct.orders, symbol) \in Int /\ Promise(order, symbol) \in Int
        /\ Promise(updated, symbol) \in Int
    BY <1>1, <1>2, PromisedType, PromiseIsNumber
  <2>3. Promised(after.orders, symbol) <= Promised(acct.orders, symbol)
    BY <1>3, <2>1, <2>2
  <2>4. Promised(acct.orders, symbol) <= Held(acct.positions, symbol)
    BY DEF Covered
  <2>5. Held(acct.positions, symbol) \in Int
    BY <1>1, HeldType
  <2>6. Promised(after.orders, symbol) \in Int
    BY <2>1, <2>2
  <2> QED
    BY <1>2, <2>2, <2>3, <2>4, <2>5, <2>6
<1> QED
  BY <1>4 DEF Covered, after

\* The same for a status that the lifecycle path applies, or leaves as it is.
LEMMA ApplyStatusCovered ==
  ASSUME NEW acct, TradedAccount(acct), NEW id, NEW status \in PythonStatus,
         \/ IsStaleStatus(GetOrder(acct.orders, id).status, status)
         \/ CanSetAccountOrderStatus(acct, id, ToDafnyOrderStatus[status]),
         Covered(acct.positions, acct.orders)
  PROVE  LET after == ApplyStatus(acct, id, status)
         IN  Covered(after.positions, after.orders)
<1>1. ToDafnyOrderStatus[status] \in OrderStatus
  BY DEF PythonStatus, ToDafnyOrderStatus, OrderStatus
<1>2. CASE IsStaleStatus(GetOrder(acct.orders, id).status, status)
  BY <1>2 DEF ApplyStatus
<1>3. CASE ~IsStaleStatus(GetOrder(acct.orders, id).status, status)
  <2>1. ApplyStatus(acct, id, status)
          = SetOrderStatusCore(acct, id, ToDafnyOrderStatus[status])
    BY <1>3 DEF ApplyStatus
  <2>2. CanSetAccountOrderStatus(acct, id, ToDafnyOrderStatus[status])
    BY <1>3
  <2> HIDE <1>3
  <2> QED
    BY <1>1, <2>1, <2>2, StatusCovered
<1> QED
  BY <1>2, <1>3

\* An account can afford an order if it has the shares that a sell would take.
Affords(acct, order) ==
  order.side = "sell" =>
    order.qty <= Held(acct.positions, order.symbol) - Promised(acct.orders, order.symbol)

\* An order that can be afforded is placed without promising what is not there.
LEMMA PlacedCovered ==
  ASSUME NEW acct, TradedAccount(acct), Covered(acct.positions, acct.orders),
         NEW raw \in BrokerOrder, NEW id \in Nat, Affords(acct, raw)
  PROVE  LET after == PlaceOrderCore(acct, ToVQCOrder(raw, id, 0, "pending"))
         IN  Covered(after.positions, after.orders)
<1> DEFINE order == ToVQCOrder(raw, id, 0, "pending")
           after == PlaceOrderCore(acct, order)
<1>1. acct.orders \in Seq(Order) /\ acct.positions \in Seq(Position)
  BY FieldsOfAccount DEF TradedAccount
<1>2. order \in Order
  BY OrderConverted DEF PythonStatus
<1>3. raw.qty \in Nat /\ raw.side \in {"buy", "sell"}
  BY BrokerOrderFields
<1>4. /\ order.symbol = raw.symbol /\ order.side = ToDafnyOrderSide[raw.side]
      /\ order.quantity = raw.qty /\ order.filledQuantity = 0
  BY DEF ToVQCOrder, OrderRecord
<1>5. after.positions = acct.positions /\ after.orders = Append(acct.orders, order)
  BY DEF PlaceOrderCore
<1> HIDE DEF order, after
<1>6. ASSUME NEW symbol \in Symbols
      PROVE  Promised(after.orders, symbol) <= Held(after.positions, symbol)
  <2>1. Promised(after.orders, symbol) = Promised(acct.orders, symbol) + Promise(order, symbol)
    BY <1>1, <1>2, <1>5, PromisedAppended
  <2>2. /\ Promised(acct.orders, symbol) \in Int /\ Promise(order, symbol) \in Int
        /\ Held(acct.positions, symbol) \in Int
    <3>1. Held(acct.positions, symbol) \in Nat
      BY <1>1, HeldType
    <3>2. Promised(acct.orders, symbol) \in Int
      BY <1>1, PromisedType
    <3>3. Promise(order, symbol) \in Int
      BY <1>2, PromiseIsNumber
    <3> QED
      BY <3>1, <3>2, <3>3
  <2>3. Promised(acct.orders, symbol) <= Held(acct.positions, symbol)
    BY DEF Covered
  <2>4. Promise(order, symbol) = 0
          \/ (raw.side = "sell" /\ raw.symbol = symbol /\ Promise(order, symbol) = raw.qty)
    <3>1. order.side = "Sell" => raw.side = "sell"
      BY <1>3, <1>4 DEF ToDafnyOrderSide
    <3>2. RemainingQuantity(order) = raw.qty
      BY <1>3, <1>4 DEF RemainingQuantity
    <3> QED
      BY <1>4, <3>1, <3>2 DEF Promise
  <2>5. Promised(acct.orders, symbol) + Promise(order, symbol) <= Held(acct.positions, symbol)
    <3>1. CASE Promise(order, symbol) = 0
      BY <2>2, <2>3, <3>1
    <3>2. CASE raw.side = "sell" /\ raw.symbol = symbol /\ Promise(order, symbol) = raw.qty
      <4>1. raw.qty <= Held(acct.positions, symbol) - Promised(acct.orders, symbol)
        BY <3>2 DEF Affords
      <4> QED
        BY <2>2, <3>2, <4>1
    <3> QED
      BY <2>4, <3>1, <3>2
  <2> QED
    BY <1>5, <2>1, <2>5
<1> QED
  BY <1>6 DEF Covered, after, order

\* A fill takes as many shares from the position as from the promise.
LEMMA FillCovered ==
  ASSUME NEW acct, TradedAccount(acct), NEW fill \in Fill, CanUpdate(acct, fill),
         Covered(acct.positions, acct.orders)
  PROVE  LET after == UpdateCore(acct, fill)
         IN  Covered(after.positions, after.orders)
<1> DEFINE order   == GetOrder(acct.orders, fill.orderId)
           n       == fill.quantity
           updated == ApplyFill(order, n)
           after   == UpdateCore(acct, fill)
           base    == PositionOrEmpty(acct.positions, order.symbol)
           next    == IF order.side = "Buy" THEN ApplyBuy(base, fill) ELSE ApplySell(base, fill)
<1>1. /\ acct.orders \in Seq(Order) /\ IsValidOrderSet(acct.orders)
      /\ acct.positions \in Seq(Position) /\ IsValidPositionSet(acct.positions)
  BY FieldsOfAccount DEF TradedAccount
<1>2. /\ ExistsOrder(acct.orders, fill.orderId) /\ IsValidFill(fill)
      /\ CanApplyFill(order, n)
      /\ order.side = "Sell" =>
           /\ ExistsPosition(acct.positions, order.symbol)
           /\ GetPosition(acct.positions, order.symbol).quantity >= n
  BY DEF CanUpdate, IsApplicableFill
<1>3. order \in Order /\ order.orderId = fill.orderId /\ IsValidOrder(order)
  <2>1. OrderIndex(acct.orders, fill.orderId) \in DOMAIN acct.orders
    BY <1>2, OrderFound
  <2> QED
    BY <1>1, <1>2, <2>1, OrderFound DEF GetOrder, CanApplyFill
<1>4. n \in Nat /\ n > 0
  BY <1>2 DEF Fill, IsValidFill
<1>5. /\ after.orders = UpdateOrder(acct.orders, updated)
      /\ after.positions = UpdatedPositions(acct.positions, order, fill)
  BY DEF UpdateCore
<1>6. /\ updated \in Order /\ updated.orderId = order.orderId
      /\ updated.symbol = order.symbol /\ updated.side = order.side
      /\ updated.quantity = order.quantity
      /\ updated.filledQuantity = order.filledQuantity + n
  BY <1>2, <1>3, <1>4, ApplyFillSound DEF IsSameOrder
<1>7. /\ order.side \in {"Buy", "Sell"} /\ order.quantity \in Nat /\ order.filledQuantity \in Nat
      /\ order.status \in {"Pending", "Open", "PartiallyFilled"}
      /\ n <= order.quantity - order.filledQuantity
  BY <1>2, <1>3 DEF Order, OrderSide, CanApplyFill, CanFill, CanAcceptFill
<1>8. ASSUME NEW symbol
      PROVE  Promise(updated, symbol) <= Promise(order, symbol)
               - (IF order.side = "Sell" /\ order.symbol = symbol THEN n ELSE 0)
  <2>1. RemainingQuantity(updated) = RemainingQuantity(order) - n
        /\ RemainingQuantity(order) \in Int /\ RemainingQuantity(order) >= n
    BY <1>4, <1>6, <1>7 DEF RemainingQuantity
  <2>2. CASE order.side = "Sell" /\ order.symbol = symbol
    <3>1. Promise(order, symbol) = RemainingQuantity(order)
      BY <1>7, <2>2 DEF Promise
    <3>2. Promise(updated, symbol) \in {0, RemainingQuantity(updated)}
      BY DEF Promise
    <3> QED
      BY <1>4, <2>1, <2>2, <3>1, <3>2
  <2>3. CASE ~(order.side = "Sell" /\ order.symbol = symbol)
    <3>1. Promise(order, symbol) = 0 /\ Promise(updated, symbol) = 0
      BY <1>6, <2>3 DEF Promise
    <3> QED
      BY <2>3, <3>1
  <2> QED
    BY <2>2, <2>3
<1>9. ASSUME NEW symbol
      PROVE  Held(after.positions, symbol) >= Held(acct.positions, symbol)
               - (IF order.side = "Sell" /\ order.symbol = symbol THEN n ELSE 0)
  <2>1. /\ next.quantity = IF order.side = "Buy" THEN base.quantity + n ELSE base.quantity - n
        /\ PositionOrEmpty(after.positions, symbol)
             = IF symbol = order.symbol THEN next ELSE PositionOrEmpty(acct.positions, symbol)
    BY <1>1, <1>2, <1>3, <1>5, UpdatedPositionsLookup
  <2> HIDE DEF next
  <2>2. Held(acct.positions, symbol) \in Nat
    BY <1>1, HeldType
  <2>3. base.quantity = Held(acct.positions, order.symbol)
    BY DEF Held
  <2>4. CASE symbol = order.symbol
    <3>1. Held(after.positions, symbol) = next.quantity
          /\ base.quantity = Held(acct.positions, symbol)
      BY <2>1, <2>3, <2>4 DEF Held
    <3> HIDE DEF base, after
    <3> QED
      BY <1>4, <1>7, <2>1, <2>2, <2>4, <3>1
  <2>5. CASE symbol # order.symbol
    <3>1. Held(after.positions, symbol) = Held(acct.positions, symbol)
      BY <2>1, <2>5 DEF Held
    <3> HIDE DEF base, after
    <3> QED
      BY <2>2, <2>5, <3>1
  <2> QED
    BY <2>4, <2>5
<1>10. after.positions \in Seq(Position)
  BY <1>1, <1>2, <1>3, <1>5, UpdatedPositionsSound
<1> HIDE DEF order, updated, after, base, next
<1>11. ASSUME NEW symbol \in Symbols
       PROVE  Promised(after.orders, symbol) <= Held(after.positions, symbol)
  <2> DEFINE sold == IF order.side = "Sell" /\ order.symbol = symbol THEN n ELSE 0
  <2>1. Promised(after.orders, symbol)
          = Promised(acct.orders, symbol) - Promise(order, symbol) + Promise(updated, symbol)
    <3>1. GetOrder(acct.orders, updated.orderId) = order
      BY <1>3, <1>6 DEF order
    <3> QED
      BY <1>1, <1>2, <1>3, <1>5, <1>6, <3>1, PromisedReplaced
  <2>2. /\ Promised(acct.orders, symbol) \in Int /\ Promise(order, symbol) \in Int
        /\ Promise(updated, symbol) \in Int
    BY <1>1, <1>3, <1>6, PromisedType, PromiseIsNumber
  <2>3. Held(acct.positions, symbol) \in Nat /\ Held(after.positions, symbol) \in Nat
    BY <1>1, <1>10, HeldType
  <2>4. Promise(updated, symbol) <= Promise(order, symbol) - sold
    BY <1>8
  <2>5. Held(after.positions, symbol) >= Held(acct.positions, symbol) - sold
    BY <1>9
  <2>6. Promised(acct.orders, symbol) <= Held(acct.positions, symbol)
    BY DEF Covered
  <2>7. sold \in Int
    BY <1>4
  <2> HIDE DEF sold
  <2> QED
    BY <2>1, <2>2, <2>3, <2>4, <2>5, <2>6, <2>7
<1> QED
  BY <1>11 DEF Covered, after

\* A set written as a list has every element once.
LEMMA ListedOnce ==
  ASSUME NEW S, IsFiniteSet(S)
  PROVE  /\ \A i, j \in DOMAIN SetToSeq(S) : SetToSeq(S)[i] = SetToSeq(S)[j] => i = j
         /\ \A x \in S : \E i \in DOMAIN SetToSeq(S) : SetToSeq(S)[i] = x
<1> DEFINE n == Cardinality(S)
           f == SetToSeq(S)
<1>1. n \in Nat /\ ExistsBijection(1 .. n, S)
  BY FS_CardinalityType
<1>2. PICK g \in [1 .. n -> S] : IsInjective(g)
  BY <1>1 DEF ExistsBijection, Bijection, Injection, IsInjective
<1>3. f \in [1 .. n -> S] /\ IsInjective(f)
  BY <1>2 DEF SetToSeq
<1> HIDE DEF f
<1>4. f \in Injection(1 .. n, S)
  BY <1>3 DEF Injection
<1>5. Cardinality(1 .. n) = n /\ IsFiniteSet(1 .. n)
  BY <1>1, FS_Interval
<1> HIDE DEF n
<1>6. f \in Surjection(1 .. n, S)
  BY <1>4, <1>5, FS_Injection DEF n
<1>7. \A x \in S : \E i \in 1 .. n : f[i] = x
  BY <1>6 DEF Surjection
<1>8. DOMAIN f = 1 .. n
  BY <1>3
<1> QED
  BY <1>3, <1>7, <1>8 DEF IsInjective, f

\* What the client reads of the holdings is what the broker holds.
LEMMA HoldingsRead ==
  ASSUME BrokerInv, \A i \in DOMAIN GetPositions : ~(GetPositions[i].qty < 0),
         NEW symbol \in Symbols
  PROVE  Held([i \in DOMAIN GetPositions |-> ToVQCPosition(GetPositions[i])], symbol)
           = shares[symbol]
<1> DEFINE S == {s \in Symbols : shares[s] # 0}
           held == SetToSeq(S)
           read == [i \in DOMAIN GetPositions |-> ToVQCPosition(GetPositions[i])]
<1>1. IsFiniteSet(S)
  <2>1. IsFiniteSet(Symbols) /\ S \in SUBSET Symbols
    BY InputAssumption
  <2> HIDE DEF S
  <2> QED
    BY <2>1, FS_Subset
<1>2. /\ held \in Seq(S)
      /\ \A i, j \in DOMAIN held : held[i] = held[j] => i = j
      /\ \A x \in S : \E i \in DOMAIN held : held[i] = x
  <2> HIDE DEF S
  <2> QED
    BY <1>1, ListedSet, ListedOnce
<1>3. \A i \in DOMAIN held : held[i] \in S
  <2> HIDE DEF S, held
  <2> QED
    BY <1>2
<1>4. GetPositions = [i \in DOMAIN held |-> [symbol |-> held[i], qty |-> shares[held[i]],
                                            avg_entry_price |-> Price]]
  BY DEF GetPositions
<1> HIDE DEF held
<1>5. DOMAIN read = DOMAIN held
      /\ \A i \in DOMAIN held : read[i].symbol = held[i] /\ read[i].quantity = shares[held[i]]
  BY <1>4 DEF ToVQCPosition, PositionRecord
<1> HIDE DEF read
<1>6. CASE symbol \in S
  <2>1. PICK i \in DOMAIN held : held[i] = symbol
    BY <1>2, <1>6
  <2>2. \A j \in DOMAIN read : read[j].symbol = symbol => j = i
    BY <1>2, <1>5, <2>1
  <2>3. i \in DOMAIN read /\ read[i].symbol = symbol
    BY <1>5, <2>1
  <2>4. PositionOrEmpty(read, symbol) = read[i]
    BY <2>2, <2>3, PositionLookup
  <2> QED
    BY <1>5, <2>1, <2>4 DEF Held, read
<1>7. CASE symbol \notin S
  <2>1. \A i \in DOMAIN read : read[i].symbol # symbol
    BY <1>3, <1>5, <1>7
  <2>2. PositionOrEmpty(read, symbol) = [symbol |-> symbol, quantity |-> 0, averagePrice |-> 0]
    BY <2>1, PositionLookup
  <2>3. shares[symbol] = 0
    BY <1>7
  <2> QED
    BY <2>2, <2>3 DEF Held, read
<1> QED
  BY <1>6, <1>7

\* An order of a snapshot promises at most what it offers at the broker.
LEMMA SnapshotOrderPromises ==
  ASSUME NEW raw \in BrokerOrder, NEW id \in Nat, NEW symbol
  PROVE  Promise(ToVQCOrder(raw, id, raw.filled_qty, ToVQCStatus(raw.status)), symbol)
           <= Offer(raw, symbol)
<1> DEFINE status == NormalizedStatus(ToVQCStatus(raw.status), raw.filled_qty, raw.qty)
           order  == ToVQCOrder(raw, id, raw.filled_qty, ToVQCStatus(raw.status))
<1>1. /\ raw.qty \in Nat /\ raw.filled_qty \in Nat /\ raw.side \in {"buy", "sell"}
      /\ raw.status \in BrokerStatuses
  BY BrokerOrderFields
<1>2. /\ order.symbol = raw.symbol /\ order.side = ToDafnyOrderSide[raw.side]
      /\ order.quantity = raw.qty /\ order.filledQuantity = raw.filled_qty
      /\ order.status = ToDafnyOrderStatus[status]
  BY DEF ToVQCOrder, OrderRecord
<1>3. Offer(raw, symbol) \in Nat
  BY OfferIsNumber
<1>4. order.side = "Sell" => raw.side = "sell"
  BY <1>1, <1>2 DEF ToDafnyOrderSide
<1>5. order.status \in {"Pending", "Open", "PartiallyFilled"} => IsLive(raw)
  <2>1. status \in PythonStatus
    BY StatusConverted, NormalizedIsStatus
  <2>2. order.status \in {"Pending", "Open", "PartiallyFilled"}
          => status \in {"pending", "open", "partially_filled"}
    <3> HIDE DEF status
    <3> QED
      BY <1>2, <2>1 DEF ToDafnyOrderStatus, PythonStatus
  <2>3. status \in {"pending", "open", "partially_filled"}
          => ToVQCStatus(raw.status) \in {"pending", "open", "partially_filled"}
    BY DEF NormalizedStatus
  <2>4. \A s \in BrokerStatuses :
          ToVQCStatus(s) \in {"pending", "open", "partially_filled"} => s \in LiveStatuses
    BY DEF BrokerStatuses, LiveStatuses, ToVQCStatus, PendingStatuses, OpenStatuses,
           PartialStatuses, CancelledStatuses
  <2> QED
    BY <1>1, <2>2, <2>3, <2>4 DEF IsLive
<1> HIDE DEF order, status
<1>6. RemainingQuantity(order) = Remaining(raw)
  BY <1>2 DEF RemainingQuantity, Remaining
<1>7. Promise(order, symbol) = 0 \/ Promise(order, symbol) = Offer(raw, symbol)
  BY <1>2, <1>4, <1>5, <1>6 DEF Promise, Offer
<1> QED
  BY <1>3, <1>7 DEF order

\* The orders of a snapshot promise at most what the broker has committed.
LEMMA SnapshotPromises ==
  ASSUME BrokerInv, NEW symbol \in Symbols
  PROVE  Promised([i \in DOMAIN GetOpenOrders |->
                     ToVQCOrder(GetOpenOrders[i], i, GetOpenOrders[i].filled_qty,
                                ToVQCStatus(GetOpenOrders[i].status))], symbol)
           <= Committed(book, symbol)
<1> DEFINE T == {order \in Range(book) : IsLive(order)}
           f == [raw \in BrokerOrder |-> IF raw \in T THEN Offer(raw, symbol) ELSE 0]
           r == GetOpenOrders
           snap == [i \in DOMAIN r |-> ToVQCOrder(r[i], i, r[i].filled_qty, ToVQCStatus(r[i].status))]
           promises == [i \in DOMAIN snap |-> Promise(snap[i], symbol)]
           offers == [i \in DOMAIN r |-> f[r[i]]]
<1>1. book \in Seq(BrokerOrder)
  BY DEF BrokerInv
<1>2. r = SelectIn(book, T)
  BY DEF GetOpenOrders
<1>3. \A k \in DOMAIN book : book[k] \in T <=> IsLive(book[k])
  BY DEF Range
<1> HIDE DEF T, r
<1>4. r \in Seq(BrokerOrder) /\ \A i \in DOMAIN r : r[i] \in T
  <2>1. r \in Seq(BrokerOrder) /\ \E m : IsSelection(book, T, Len(book), r, m)
    BY <1>1, <1>2, SelectInSound
  <2>2. DOMAIN r = 1 .. Len(r)
    BY <2>1
  <2> QED
    BY <2>1, <2>2 DEF IsSelection
<1>5. f \in [BrokerOrder -> Int] /\ \A raw \in BrokerOrder : raw \notin T => f[raw] = 0
  <2>1. \A raw \in BrokerOrder : Offer(raw, symbol) \in Nat
    BY OfferIsNumber
  <2> QED
    BY <2>1
<1>6. SumSeq(offers) = SumSeq([k \in DOMAIN book |-> f[book[k]]])
  <2> HIDE DEF f
  <2> QED
    BY <1>1, <1>2, <1>5, SumOfSelection
<1>7. [k \in DOMAIN book |-> f[book[k]]] = [k \in DOMAIN book |-> Offer(book[k], symbol)]
  <2>1. \A k \in DOMAIN book : book[k] \in BrokerOrder
    BY <1>1
  <2>2. \A k \in DOMAIN book : f[book[k]] = Offer(book[k], symbol)
    BY <1>3, <2>1 DEF Offer
  <2> HIDE DEF f
  <2> QED
    BY <2>2
<1>8. SumSeq(offers) = Committed(book, symbol)
  BY <1>6, <1>7, CommittedIsOffered
<1>9. \A i \in DOMAIN r : /\ r[i] \in BrokerOrder /\ i \in Nat
                          /\ snap[i] \in Order
                          /\ f[r[i]] = Offer(r[i], symbol)
                          /\ f[r[i]] \in Int
                          /\ Promise(snap[i], symbol) <= Offer(r[i], symbol)
                          /\ Promise(snap[i], symbol) \in Int
  <2> SUFFICES ASSUME NEW i \in DOMAIN r
               PROVE  /\ r[i] \in BrokerOrder /\ i \in Nat
                      /\ snap[i] \in Order
                      /\ f[r[i]] = Offer(r[i], symbol)
                      /\ f[r[i]] \in Int
                      /\ Promise(snap[i], symbol) <= Offer(r[i], symbol)
                      /\ Promise(snap[i], symbol) \in Int
    OBVIOUS
  <2>1. r[i] \in BrokerOrder /\ i \in Nat /\ r[i] \in T
    BY <1>4
  <2>2. r[i].filled_qty \in Nat /\ ToVQCStatus(r[i].status) \in PythonStatus
    BY <2>1, BrokerOrderFields, StatusConverted
  <2>3. snap[i] \in Order
    BY <2>1, <2>2, OrderConverted
  <2>4. f[r[i]] = Offer(r[i], symbol) /\ f[r[i]] \in Int
    BY <1>5, <2>1
  <2>5. Promise(snap[i], symbol) <= Offer(r[i], symbol)
    BY <2>1, SnapshotOrderPromises
  <2>6. Promise(snap[i], symbol) \in Int
    <3> HIDE DEF snap
    <3> QED
      BY <2>3, PromiseIsNumber
  <2> QED
    BY <2>1, <2>3, <2>4, <2>5, <2>6
<1>10. DOMAIN snap = DOMAIN r
  OBVIOUS
<1> HIDE DEF f, snap
<1>11. /\ promises \in Seq(Int) /\ offers \in Seq(Int) /\ Len(promises) = Len(offers)
       /\ \A i \in DOMAIN promises : promises[i] <= offers[i]
  <2>1. DOMAIN r = 1 .. Len(r) /\ Len(r) \in Nat
    BY <1>4
  <2>2. \A i \in DOMAIN r : /\ promises[i] = Promise(snap[i], symbol) /\ promises[i] \in Int
                            /\ offers[i] = f[r[i]] /\ offers[i] \in Int
                            /\ promises[i] <= offers[i]
    BY <1>9, <1>10
  <2>3. /\ promises = [i \in 1 .. Len(r) |-> promises[i]]
        /\ offers = [i \in 1 .. Len(r) |-> offers[i]]
    BY <1>10, <2>1
  <2> HIDE DEF promises, offers
  <2>4. promises \in [1 .. Len(r) -> Int] /\ offers \in [1 .. Len(r) -> Int]
    BY <2>1, <2>2, <2>3
  <2> QED
    BY <2>1, <2>2, <2>4
<1>12. SumSeq(promises) <= SumSeq(offers)
  <2> HIDE DEF promises, offers
  <2> QED
    BY <1>11, SumSeqMonotone
<1>13. Promised(snap, symbol) = SumSeq(promises)
  BY DEF Promised
<1> QED
  BY <1>8, <1>12, <1>13 DEF snap, r

-----------------------------------------------------------------------------
(* The invariant of the promises *)

\* Nobody sells short: the broker has no margin and the account no other users.
NoShortSales == "margin" \notin Env /\ "foreign" \notin Env

AccountBacked == ClientReady => Covered(account.positions, account.orders)

\* A sell on its way to the broker or back takes shares nothing else has taken.
CallBacked ==
  /\ user.pc = "calling" => Affords(account, NativeOrder(user.request))
  /\ user.pc = "accepted" => Affords(account, book[user.key])

\* Between the reads of a snapshot the broker's offers only shrink, so the
\* holdings read first cover the orders read later.
ReadBacked ==
  /\ daemon.pc = "orders" =>
       \A symbol \in Symbols : Committed(book, symbol) <= Held(daemon.positions, symbol)
  /\ daemon.pc = "cash" => Covered(daemon.positions, SnapshotOrders)

\* Nothing is promised twice: every share offered at the broker is held there, the
\* account holds what its own orders promise, and so do the order on its way and
\* the snapshot being read.
PromiseInv == NoOversell /\ AccountBacked /\ CallBacked /\ ReadBacked

\* A traded account is one a ready client has.
LEMMA TradedIsReady ==
  ASSUME TradedAccount(account)
  PROVE  ClientReady
<1>1. account \in Account
  BY DEF TradedAccount, GoodAccount
<1> QED
  BY <1>1, InputAssumption, Zenon DEF ClientReady

\* Moves of the broker keep what is backed, and so does a step without any.
LEMMA ReleasesBacks ==
  ASSUME BrokerInv, BrokerInv', NoOversell, Releases
  PROVE  NoOversell'
<1> SUFFICES ASSUME NEW symbol \in Symbols PROVE Uncommitted(symbol)' >= 0
  BY DEF NoOversell
<1>1. Uncommitted(symbol) \in Int /\ Uncommitted(symbol)' \in Int
  <2>1. Uncommitted(symbol) \in Int
    BY CommittedInBook
  <2>2. Committed(book', symbol) \in Int /\ shares'[symbol] \in Int
    BY CommittedType DEF BrokerInv
  <2> QED
    BY <2>1, <2>2 DEF Uncommitted
<1> QED
  BY <1>1 DEF NoOversell, Releases

\* Nothing is oversold by a step the broker takes no part in.
LEMMA SameNoOversell ==
  ASSUME NoOversell, UNCHANGED << book, shares >>
  PROVE  NoOversell'
BY DEF NoOversell, Uncommitted

\* The order a call waits for keeps its side, symbol and quantity.
LEMMA CallStaysBacked ==
  ASSUME CallBacked, UserInv, UNCHANGED << user, account >>, Grows(book, book')
  PROVE  CallBacked'
<1>1. ASSUME user.pc = "accepted"
      PROVE  Affords(account, book'[user.key])
  <2>1. SameInstruction(book[user.key], book'[user.key])
    BY <1>1 DEF UserInv, Grows
  <2> QED
    BY <1>1, <2>1 DEF CallBacked, Affords, SameInstruction
<1> QED
  BY <1>1 DEF CallBacked

\* With no call under way nothing waits to be backed.
LEMMA IdleIsBacked ==
  ASSUME user'.pc = "idle"
  PROVE  CallBacked'
BY DEF CallBacked

\* A worker that reads nothing holds nothing that need be backed.
LEMMA NoReadIsBacked ==
  ASSUME daemon'.pc \notin {"orders", "cash"}
  PROVE  ReadBacked'
BY DEF ReadBacked

\* What the worker has read stays backed while the broker's offers shrink.
LEMMA ReadStaysBacked ==
  ASSUME ReadBacked, BrokerInv, BrokerInv', DaemonInv,
         daemon'.pc = daemon.pc, daemon'.positions = daemon.positions,
         daemon'.orders = daemon.orders, Releases
  PROVE  ReadBacked'
<1>1. ASSUME daemon.pc = "orders", NEW symbol \in Symbols
      PROVE  Committed(book', symbol) <= Held(daemon.positions, symbol)
  <2>1. /\ Committed(book, symbol) \in Int /\ Committed(book', symbol) \in Int
        /\ Held(daemon.positions, symbol) \in Nat
    BY CommittedType, HeldType DEF BrokerInv, DaemonInv
  <2> QED
    BY <1>1, <2>1 DEF ReadBacked, Releases
<1>2. SnapshotOrders' = SnapshotOrders
  BY DEF SnapshotOrders
<1> QED
  BY <1>1, <1>2 DEF ReadBacked

\* A step without a move of the broker.
LEMMA SameBookReleases ==
  ASSUME BrokerInv, UNCHANGED << book, shares >>
  PROVE  Releases
<1> SUFFICES ASSUME NEW symbol \in Symbols
             PROVE  /\ Committed(book', symbol) <= Committed(book, symbol)
                    /\ Uncommitted(symbol) <= Uncommitted(symbol)'
  BY DEF Releases
<1>1. Committed(book, symbol) \in Int /\ Uncommitted(symbol) \in Int
  BY CommittedInBook
<1>2. Committed(book', symbol) = Committed(book, symbol)
      /\ Uncommitted(symbol)' = Uncommitted(symbol)
  BY DEF Uncommitted
<1> QED
  BY <1>1, <1>2

\* A step of the worker that leaves the account or makes it a covered one.
LEMMA WorkerKeepsPromises ==
  ASSUME IInv, PromiseInv, UNCHANGED << book, shares, user >>,
         account' = account
           \/ (user.pc = "idle" /\ (ClientReady' => Covered(account'.positions, account'.orders))),
         daemon'.pc \notin {"orders", "cash"}
  PROVE  PromiseInv'
<1>1. NoOversell'
  BY SameNoOversell DEF PromiseInv
<1>2. AccountBacked'
  BY DEF PromiseInv, AccountBacked, ClientReady
<1>3. CallBacked'
  <2>1. CASE account' = account
    BY <2>1, GrowsReflexive, CallStaysBacked DEF PromiseInv, IInv, ClientInv
  <2>2. CASE user.pc = "idle"
    BY <2>2, IdleIsBacked
  <2> QED
    BY <2>1, <2>2
<1> QED
  BY <1>1, <1>2, <1>3, NoReadIsBacked DEF PromiseInv

\* A step of the caller that leaves the worker where it is.
LEMMA CallerKeepsPromises ==
  ASSUME IInv, PromiseInv, UNCHANGED << book, shares, daemon >>,
         ClientReady' => Covered(account'.positions, account'.orders), CallBacked'
  PROVE  PromiseInv'
<1>1. NoOversell'
  BY SameNoOversell DEF PromiseInv
<1>2. AccountBacked'
  BY DEF AccountBacked
<1>3. ReadBacked'
  BY DEF PromiseInv, ReadBacked, SnapshotOrders
<1> QED
  BY <1>1, <1>2, <1>3 DEF PromiseInv

\* The guard of a submission lets through only sells that can be afforded.
LEMMA SubmitKeepsPromises ==
  ASSUME IInv, PromiseInv, NEW request, Submit(request)
  PROVE  PromiseInv'
<1>1. /\ ClientReady
      /\ LET order == NativeOrder(request)
         IN  order.side = "sell" => order.qty <= AvailableToSell(order.symbol)
      /\ user' = [pc |-> "calling", request |-> request, key |-> 0]
      /\ UNCHANGED << brokerVars, stateVars, daemon, faults >>
  BY DEF Submit
<1>2. Affords(account, NativeOrder(request))
  <2> DEFINE order == NativeOrder(request)
  <2>1. order.side = "sell" => order.qty <= AvailableToSell(order.symbol)
    BY <1>1
  <2> HIDE DEF order
  <2>2. Affords(account, order)
    BY <2>1, ReservedIsPromised DEF Affords
  <2> QED
    BY <2>2 DEF order
<1>3. CallBacked'
  BY <1>1, <1>2 DEF CallBacked, stateVars
<1> QED
  BY <1>1, <1>3, CallerKeepsPromises DEF brokerVars, stateVars, PromiseInv, AccountBacked,
     ClientReady

\* Without margin the broker takes only what nobody has offered yet.
LEMMA BrokerAcceptsKeepsPromises ==
  ASSUME NoShortSales, IInv, PromiseInv, BrokerAccepts
  PROVE  PromiseInv'
<1> DEFINE asked == NativeOrder(user.request)
           raw == NewOrder(Len(book) + 1, asked, "pending_new")
<1>1. /\ user.pc = "calling" /\ IsSubmittable(user.request)
      /\ book' = Append(book, raw)
      /\ user' = [user EXCEPT !.pc = "accepted", !.key = Len(book')]
      /\ UNCHANGED << shares, stateVars, daemon >>
  BY DEF BrokerAccepts, EnterOrder
<1>2. user.request \in CallerRequest /\ PassesClientChecks(user.request)
  BY <1>1 DEF IInv, ClientInv, UserInv
<1>3. book \in Seq(BrokerOrder) /\ Len(book) + 1 \in Nat
  BY DEF IInv, BrokerInv
<1>4. raw \in BrokerOrder
  <2>1. "pending_new" \in BrokerStatuses
    BY DEF BrokerStatuses, LiveStatuses
  <2> QED
    BY <1>2, <1>3, <2>1, NewOrderIsBrokerOrder
<1>5. /\ raw.side = asked.side /\ raw.qty = asked.qty /\ raw.symbol = asked.symbol
      /\ raw.filled_qty = 0
  BY DEF NewOrder
<1>6. asked.side = "sell" => asked.qty <= Uncommitted(asked.symbol)
  BY <1>1 DEF IsSubmittable, BrokerTakes, NoShortSales
<1> HIDE DEF raw, asked
<1>7. raw.qty \in Nat
  BY <1>4, BrokerOrderFields
<1>8. NoOversell'
  <2> SUFFICES ASSUME NEW symbol \in Symbols PROVE Uncommitted(symbol)' >= 0
    BY DEF NoOversell
  <2>1. Committed(book', symbol) = Committed(book, symbol) + Offer(raw, symbol)
    BY <1>1, <1>3, <1>4, CommittedAppended
  <2>2. /\ Committed(book, symbol) \in Int /\ shares[symbol] \in Int
        /\ Uncommitted(symbol) = shares[symbol] - Committed(book, symbol)
        /\ Uncommitted(symbol)' = shares[symbol] - Committed(book', symbol)
    BY <1>1, CommittedInBook DEF IInv, Uncommitted
  <2>3. Uncommitted(symbol) >= 0
    BY DEF PromiseInv, NoOversell
  <2>4. Offer(raw, symbol) = 0
          \/ (asked.side = "sell" /\ asked.symbol = symbol /\ Offer(raw, symbol) = asked.qty)
    BY <1>5, <1>7 DEF Offer, Remaining
  <2>5. Offer(raw, symbol) \in Nat /\ Offer(raw, symbol) <= Uncommitted(symbol)
    <3>1. CASE Offer(raw, symbol) = 0
      BY <2>2, <2>3, <3>1
    <3>2. CASE asked.side = "sell" /\ asked.symbol = symbol /\ Offer(raw, symbol) = asked.qty
      BY <1>5, <1>6, <1>7, <3>2
    <3> QED
      BY <2>4, <3>1, <3>2
  <2> QED
    BY <2>1, <2>2, <2>5
<1>9. CallBacked'
  <2>1. user' = [pc |-> "accepted", request |-> user.request, key |-> Len(book')]
    BY <1>1 DEF IInv, ClientInv, UserInv
  <2>2. Len(book') = Len(book) + 1 /\ book'[Len(book')] = raw
    BY <1>1, <1>3, <1>4
  <2>3. Affords(account, asked)
    BY <1>1 DEF PromiseInv, CallBacked, asked
  <2>4. Affords(account, raw)
    BY <1>5, <2>3 DEF Affords
  <2> QED
    BY <1>1, <2>1, <2>2, <2>4 DEF CallBacked, stateVars
<1>10. ReadBacked'
  <2>1. daemon.pc \notin SyncSteps
    BY <1>1 DEF IInv, ClientInv, LockInv
  <2> QED
    BY <1>1, <2>1, NoReadIsBacked DEF SyncSteps
<1>11. AccountBacked'
  BY <1>1 DEF PromiseInv, AccountBacked, ClientReady, stateVars
<1> QED
  BY <1>8, <1>9, <1>10, <1>11 DEF PromiseInv

\* A call that fails leaves everything as it was.
LEMMA CallFailsKeepsPromises ==
  ASSUME IInv, PromiseInv, BrokerRefuses \/ AnswerLost
  PROVE  PromiseInv'
<1>1. user' = Idle /\ UNCHANGED << brokerVars, stateVars, daemon >>
  BY DEF BrokerRefuses, AnswerLost
<1>2. CallBacked'
  BY <1>1, IdleIsBacked DEF Idle
<1> QED
  BY <1>1, <1>2, CallerKeepsPromises DEF brokerVars, stateVars, PromiseInv, AccountBacked,
     ClientReady

\* What is placed when the answer arrives is what was afforded when it was asked.
LEMMA TrackKeepsPromises ==
  ASSUME IInv, PromiseInv, NEW status \in FirstStatus, Register(status)
  PROVE  PromiseInv'
<1> DEFINE raw    == book[user.key]
           id     == NextOrderId(account.orders)
           order  == ToVQCOrder(raw, id, 0, "pending")
           placed == PlaceOrderCore(account, order)
<1>1. /\ user.pc = "accepted" /\ user' = Idle
      /\ UNCHANGED << brokerVars, daemon >>
      /\ IF CanPlaceOrder(account, order)
         THEN account' = IF ResponseStatusApplies(status)
                         THEN ApplyStatus(placed, id, status) ELSE placed
         ELSE account' = account
  BY DEF Register
<1>2. TradedAccount(account) /\ raw \in BrokerOrder
  BY <1>1, BookFields DEF IInv, ClientInv, UserInv
<1>3. Covered(account.positions, account.orders) /\ Affords(account, raw)
  BY <1>1, <1>2, TradedIsReady DEF PromiseInv, AccountBacked, CallBacked
<1>4. Covered(account'.positions, account'.orders)
  <2>1. CASE ~CanPlaceOrder(account, order)
    BY <1>1, <1>3, <2>1
  <2>2. CASE CanPlaceOrder(account, order)
    <3>1. id \in Nat
      BY <1>2, NextOrderIdFresh, FieldsOfAccount DEF TradedAccount
    <3>2. /\ TradedAccount(placed) /\ ExistsOrder(placed.orders, id)
          /\ GetOrder(placed.orders, id) = order
      BY <1>2, <2>2, PlacedOrder
    <3>3. Covered(placed.positions, placed.orders)
      BY <1>2, <1>3, <3>1, PlacedCovered
    <3>4. order.status = "Pending" /\ order.filledQuantity = 0
      BY <2>2 DEF CanPlaceOrder
    <3>5. status \in PythonStatus
      BY <1>2, FirstStatusKnown
    <3>6. account' = IF ResponseStatusApplies(status)
                     THEN ApplyStatus(placed, id, status) ELSE placed
      BY <1>1, <2>2
    <3> HIDE DEF placed, order, id, raw
    <3>7. CASE ResponseStatusApplies(status)
      <4>1. CanSetAccountOrderStatus(placed, id, ToDafnyOrderStatus[status])
        BY <3>2, <3>4, <3>5, <3>7, ResponseApplies
      <4> QED
        BY <3>2, <3>3, <3>5, <3>6, <3>7, <4>1, ApplyStatusCovered
    <3>8. CASE ~ResponseStatusApplies(status)
      BY <3>3, <3>6, <3>8
    <3> QED
      BY <3>7, <3>8
  <2> QED
    BY <2>1, <2>2
<1>5. CallBacked'
  BY <1>1, IdleIsBacked DEF Idle
<1> QED
  BY <1>1, <1>4, <1>5, CallerKeepsPromises DEF brokerVars

\* The same for an answer without an id.
LEMMA AnswerWithoutIdKeepsPromises ==
  ASSUME IInv, PromiseInv, AnswerWithoutId
  PROVE  PromiseInv'
<1> DEFINE raw   == book[user.key]
           id    == NextOrderId(account.orders)
           order == ToVQCOrder(raw, id, 0, "pending")
<1>1. /\ user.pc = "accepted" /\ user' = Idle
      /\ UNCHANGED << brokerVars, daemon >>
      /\ account' = IF CanPlaceOrder(account, order)
                    THEN PlaceOrderCore(account, order) ELSE account
  BY DEF AnswerWithoutId
<1>2. TradedAccount(account) /\ raw \in BrokerOrder
  BY <1>1, BookFields DEF IInv, ClientInv, UserInv
<1>3. Covered(account.positions, account.orders) /\ Affords(account, raw)
  BY <1>1, <1>2, TradedIsReady DEF PromiseInv, AccountBacked, CallBacked
<1>4. id \in Nat
  BY <1>2, NextOrderIdFresh, FieldsOfAccount DEF TradedAccount
<1>5. Covered(account'.positions, account'.orders)
  BY <1>1, <1>2, <1>3, <1>4, PlacedCovered
<1>6. CallBacked'
  BY <1>1, IdleIsBacked DEF Idle
<1> QED
  BY <1>1, <1>5, <1>6, CallerKeepsPromises DEF brokerVars

\* The step a worker that starts over is at.
LEMMA DaemonAt ==
  /\ \A pc : Daemon(pc).pc = pc
  /\ \A within : StartSync(within) => daemon'.pc = "positions"
BY DEF Daemon, StartSync

\* A synchronization that raises leaves the account as it was.
LEMMA SyncRaisesKeepsPromises ==
  ASSUME IInv, PromiseInv, SyncRaises
  PROVE  PromiseInv'
<1>1. /\ daemon'.pc \in {"failed", "recover"}
      /\ UNCHANGED << book, shares, user, account >>
  BY DEF SyncRaises, Daemon, stateVars
<1> QED
  BY <1>1, WorkerKeepsPromises

\* The holdings cover what is committed when they are read.
LEMMA ReadPositionsKeepsPromises ==
  ASSUME IInv, PromiseInv, ReadPositions
  PROVE  PromiseInv'
<1> DEFINE held == GetPositions
           read == [i \in DOMAIN held |-> ToVQCPosition(held[i])]
<1>1. CASE \E i \in DOMAIN held : held[i].qty < 0
  BY <1>1, SyncRaisesKeepsPromises DEF ReadPositions
<1>2. CASE ~(\E i \in DOMAIN held : held[i].qty < 0)
  <2>1. /\ daemon' = [daemon EXCEPT !.pc = "orders", !.positions = read]
        /\ UNCHANGED << brokerVars, stateVars, user >>
    BY <1>2 DEF ReadPositions
  <2>2. ASSUME NEW symbol \in Symbols
        PROVE  Committed(book, symbol) <= Held(read, symbol)
    <3>1. Held(read, symbol) = shares[symbol]
      BY <1>2, HoldingsRead DEF IInv
    <3>2. /\ Committed(book, symbol) \in Int /\ shares[symbol] \in Int
          /\ Uncommitted(symbol) = shares[symbol] - Committed(book, symbol)
      BY CommittedInBook DEF IInv
    <3>3. Uncommitted(symbol) >= 0
      BY DEF PromiseInv, NoOversell
    <3> HIDE DEF read
    <3> QED
      BY <3>1, <3>2, <3>3
  <2> HIDE DEF read
  <2>3. daemon'.pc = "orders" /\ daemon'.positions = read
    BY <2>1 DEF IInv, ClientInv, DaemonInv
  <2>4. ReadBacked'
    BY <2>1, <2>2, <2>3 DEF ReadBacked, brokerVars
  <2>5. UNCHANGED << book, shares, user, account >>
    BY <2>1 DEF brokerVars, stateVars
  <2>6. CallBacked' /\ NoOversell' /\ AccountBacked'
    BY <2>5, GrowsReflexive, CallStaysBacked, SameNoOversell
       DEF PromiseInv, AccountBacked, ClientReady, IInv, ClientInv
  <2> QED
    BY <2>4, <2>6 DEF PromiseInv
<1> QED
  BY <1>1, <1>2

\* The orders read later promise at most what was covered then.
LEMMA ReadOrdersKeepsPromises ==
  ASSUME IInv, PromiseInv, ReadOrders
  PROVE  PromiseInv'
<1> DEFINE read == GetOpenOrders
           snap == [i \in DOMAIN read |-> ToVQCOrder(read[i], i, read[i].filled_qty,
                                                     ToVQCStatus(read[i].status))]
<1>1. CASE SyncRaises
  BY <1>1, SyncRaisesKeepsPromises
<1>2. CASE ~SyncRaises
  <2>1. /\ daemon.pc = "orders"
        /\ daemon' = [daemon EXCEPT !.pc = "cash", !.orders = read]
        /\ UNCHANGED << brokerVars, stateVars, user >>
    BY <1>2, ReadOrdersIsComplete
  <2>2. \A symbol \in Symbols : Promised(snap, symbol) <= Committed(book, symbol)
    BY SnapshotPromises DEF IInv
  <2>3. snap \in Seq(Order)
    <3>1. read \in Seq(BrokerOrder)
      BY OrdersRead DEF IInv
    <3> HIDE DEF read
    <3>2. ASSUME NEW i \in DOMAIN read PROVE snap[i] \in Order
      <4>1. i \in Nat /\ read[i] \in BrokerOrder
        BY <3>1
      <4>2. read[i].filled_qty \in Nat /\ ToVQCStatus(read[i].status) \in PythonStatus
        BY <4>1, BrokerOrderFields, StatusConverted
      <4> QED
        BY <4>1, <4>2, OrderConverted
    <3>3. DOMAIN read = 1 .. Len(read) /\ Len(read) \in Nat
      BY <3>1
    <3>4. snap = [i \in 1 .. Len(read) |-> snap[i]]
      BY <3>3
    <3> HIDE DEF snap
    <3>5. snap \in [1 .. Len(read) -> Order]
      BY <3>2, <3>3, <3>4
    <3> QED
      BY <3>3, <3>5
  <2> HIDE DEF read
  <2>4. daemon'.pc = "cash" /\ daemon'.positions = daemon.positions /\ daemon'.orders = read
    BY <2>1 DEF IInv, ClientInv, DaemonInv
  <2>5. SnapshotOrders' = snap
    BY <2>4 DEF SnapshotOrders
  <2> HIDE DEF snap
  <2>6. ASSUME NEW symbol \in Symbols
        PROVE  Promised(snap, symbol) <= Held(daemon.positions, symbol)
    <3>1. Committed(book, symbol) <= Held(daemon.positions, symbol)
      BY <2>1 DEF PromiseInv, ReadBacked
    <3>2. /\ Promised(snap, symbol) \in Int /\ Committed(book, symbol) \in Int
          /\ Held(daemon.positions, symbol) \in Nat
      <4>1. Promised(snap, symbol) \in Int
        BY <2>3, PromisedType
      <4>2. Committed(book, symbol) \in Int
        BY CommittedInBook DEF IInv
      <4>3. Held(daemon.positions, symbol) \in Nat
        BY HeldType DEF IInv, ClientInv, DaemonInv
      <4> QED
        BY <4>1, <4>2, <4>3
    <3>3. Promised(snap, symbol) <= Committed(book, symbol)
      BY <2>2
    <3> QED
      BY <3>1, <3>2, <3>3
  <2>7. ReadBacked'
    BY <2>4, <2>5, <2>6 DEF ReadBacked, Covered
  <2>8. UNCHANGED << book, shares, user, account >>
    BY <2>1 DEF brokerVars, stateVars
  <2>9. CallBacked' /\ NoOversell' /\ AccountBacked'
    BY <2>8, GrowsReflexive, CallStaysBacked, SameNoOversell
       DEF PromiseInv, AccountBacked, ClientReady, IInv, ClientInv
  <2> QED
    BY <2>7, <2>9 DEF PromiseInv
<1> QED
  BY <1>1, <1>2

\* The account that a snapshot becomes is the one its reads cover.
LEMMA SnapshotKeepsPromises ==
  ASSUME IInv, PromiseInv, ReadCash \/ SnapshotWithoutId
  PROVE  PromiseInv'
<1> DEFINE acct == BootstrapCore(FromDecimal(cash), daemon.positions, SnapshotOrders, 1)
<1>1. daemon.pc = "cash" /\ user.pc = "idle"
  <2>1. daemon.pc = "cash"
    BY DEF ReadCash, SnapshotWithoutId
  <2> QED
    BY <2>1 DEF SyncSteps, IInv, ClientInv, LockInv
<1>2. Covered(acct.positions, acct.orders)
  BY <1>1 DEF PromiseInv, ReadBacked, BootstrapCore
<1>3. CASE ReadCash /\ ~CanBootstrap(FromDecimal(cash), daemon.positions, SnapshotOrders, 1)
  BY <1>3, SyncRaisesKeepsPromises DEF ReadCash
<1>4. CASE ReadCash /\ CanBootstrap(FromDecimal(cash), daemon.positions, SnapshotOrders, 1)
  <2> DEFINE pc == IF daemon.within = "handler" THEN "stream" ELSE "connect"
  <2>1. /\ account' = acct /\ daemon' = Daemon(pc) /\ UNCHANGED << book, shares, user >>
    BY <1>4 DEF ReadCash, brokerVars
  <2>2. daemon'.pc = pc /\ pc \notin {"orders", "cash"}
    BY <2>1, DaemonAt
  <2> HIDE DEF acct
  <2> QED
    BY <1>1, <1>2, <2>1, <2>2, WorkerKeepsPromises
<1>5. CASE SnapshotWithoutId
  <2>1. /\ account' \in {NoAccount, acct} /\ daemon'.pc \in {"failed", "recover"}
        /\ UNCHANGED << book, shares, user >>
    BY <1>5 DEF SnapshotWithoutId, Daemon
  <2> HIDE DEF acct
  <2> QED
    BY <1>1, <1>2, <2>1, WorkerKeepsPromises DEF ClientReady
<1> QED
  BY <1>3, <1>4, <1>5

\* The worker's steps outside a synchronization read nothing.
LEMMA WorkerStepKeepsPromises ==
  ASSUME IInv, PromiseInv,
         Subscribe \/ StreamEnds \/ RecoverBrokerSnapshot \/ WorkerStops \/ HandleUntracked
  PROVE  PromiseInv'
<1>1. daemon'.pc \in {"stream", "recover", "positions", "stopped"}
  <2>1. \/ \E pc \in {"stream", "recover", "stopped"} : daemon' = Daemon(pc)
        \/ \E within \in {"recover", "handler"} : StartSync(within)
    BY DEF Subscribe, StreamEnds, RecoverBrokerSnapshot, WorkerStops, HandleUntracked
  <2> QED
    BY <2>1, DaemonAt
<1>2. UNCHANGED << book, shares, user, account >>
  BY DEF Subscribe, StreamEnds, RecoverBrokerSnapshot, WorkerStops, HandleUntracked,
         brokerVars, stateVars
<1> QED
  BY <1>1, <1>2, WorkerKeepsPromises

\* A handler runs while no call is under way.
LEMMA HandlerKeepsPromises ==
  ASSUME IInv, PromiseInv, HandlerRuns, UNCHANGED << book, shares, user >>,
         HandlerRaises \/ HandlerReturns,
         ClientReady' => Covered(account'.positions, account'.orders)
  PROVE  PromiseInv'
<1>1. daemon.pc = "stream" /\ user.pc = "idle"
  BY HandlerFacts
<1>2. daemon'.pc \in {"stream", "recover"}
  BY <1>1, DaemonAt DEF HandlerRaises, HandlerReturns
<1> QED
  BY <1>1, <1>2, WorkerKeepsPromises

\* A handler that raises leaves the account as it was.
LEMMA HandlerRaisesKeepsPromises ==
  ASSUME IInv, PromiseInv, HandlerRuns, HandlerRaises, UNCHANGED << book, shares, user >>
  PROVE  PromiseInv'
<1>1. ClientReady' => Covered(account'.positions, account'.orders)
  BY DEF HandlerRaises, stateVars, PromiseInv, AccountBacked, ClientReady
<1> QED
  BY <1>1, HandlerKeepsPromises

\* No status an update asks for brings an order back to life.
LEMMA LifecycleKeepsPromises ==
  ASSUME IInv, PromiseInv, HandleLifecycleUpdate
  PROVE  PromiseInv'
<1> DEFINE status == ToLifecycleStatus(Head(queue))
           id     == orderIds[Head(queue).order.id]
<1>1. /\ HandlerRuns
      /\ UNCHANGED << book, shares, user >>
      /\ IF ApplyStatusRaises(account, id, status)
         THEN HandlerRaises
         ELSE /\ account' = ApplyStatus(account, id, status)
              /\ HandlerReturns
  BY DEF HandleLifecycleUpdate
<1>2. status \in PythonStatus /\ TradedAccount(account)
  BY <1>1, HandlerFacts, LifecycleStatusConverted
<1>3. Covered(account.positions, account.orders)
  BY <1>2, TradedIsReady DEF PromiseInv, AccountBacked
<1> HIDE DEF status, id
<1>4. CASE ApplyStatusRaises(account, id, status)
  BY <1>1, <1>4, HandlerRaisesKeepsPromises
<1>5. CASE ~ApplyStatusRaises(account, id, status)
  <2>1. \/ IsStaleStatus(GetOrder(account.orders, id).status, status)
        \/ CanSetAccountOrderStatus(account, id, ToDafnyOrderStatus[status])
    BY <1>5 DEF ApplyStatusRaises
  <2>2. account' = ApplyStatus(account, id, status) /\ HandlerReturns
    BY <1>1, <1>5
  <2>3. Covered(account'.positions, account'.orders)
    BY <1>2, <1>3, <2>1, <2>2, ApplyStatusCovered
  <2> QED
    BY <1>1, <2>2, <2>3, HandlerKeepsPromises
<1> QED
  BY <1>4, <1>5

\* A fill is applied once and takes its shares from both sides.
LEMMA HandleFillKeepsPromises ==
  ASSUME IInv, PromiseInv, HandleFill
  PROVE  PromiseInv'
<1> DEFINE update == Head(queue)
           fill   == ToVQCFill(update, nextExecutionId, orderIds[update.order.id])
<1>1. /\ HandlerRuns /\ IsTracked(update) /\ IsFillUpdate(update)
      /\ UNCHANGED << book, shares, user >>
      /\ IF ~IsNewExecution(update)
         THEN HandlerReturns /\ UNCHANGED stateVars
         ELSE IF CanUpdate(account, fill)
         THEN account' = UpdateCore(account, fill) /\ HandlerReturns
         ELSE HandlerRaises
  BY DEF HandleFill
<1>2. TradedAccount(account)
  BY <1>1, HandlerFacts
<1>3. Covered(account.positions, account.orders)
  BY <1>2, TradedIsReady DEF PromiseInv, AccountBacked
<1>4. fill \in Fill
  BY <1>1, ExecutionConverted
<1> HIDE DEF fill, update
<1>5. CASE ~IsNewExecution(update)
  <2>1. HandlerReturns /\ account' = account
    BY <1>1, <1>5 DEF stateVars
  <2> QED
    BY <1>1, <1>3, <2>1, HandlerKeepsPromises
<1>6. CASE IsNewExecution(update) /\ CanUpdate(account, fill)
  <2>1. account' = UpdateCore(account, fill) /\ HandlerReturns
    BY <1>1, <1>6
  <2>2. Covered(account'.positions, account'.orders)
    BY <1>2, <1>3, <1>4, <1>6, <2>1, FillCovered
  <2> QED
    BY <1>1, <2>1, <2>2, HandlerKeepsPromises
<1>7. CASE IsNewExecution(update) /\ ~CanUpdate(account, fill)
  BY <1>1, <1>7, HandlerRaisesKeepsPromises
<1> QED
  BY <1>5, <1>6, <1>7

\* The broker's own moves, and the faults of its stream.
LEMMA EnvironmentKeepsPromises ==
  ASSUME NoShortSales, IInv, PromiseInv, BrokerMoves \/ OthersTrade \/ StreamFault
  PROVE  PromiseInv'
<1>1. ~OthersTrade
  BY DEF OthersTrade, NoShortSales
<1>2. UNCHANGED clientVars /\ BrokerGoesOn /\ Releases
  <2>1. CASE BrokerMoves
    BY <2>1, BrokerMovesGoOn, BrokerMovesRelease DEF BrokerMoves, IInv
  <2>2. CASE StreamFault
    <3>1. Disconnect \/ Duplicate \/ Reorder
      BY <2>2 DEF StreamFault
    <3>2. UNCHANGED << book, shares >> /\ UNCHANGED clientVars
      BY <2>2, <3>1 DEF StreamFault, Disconnect, Duplicate, Reorder
    <3> QED
      BY <3>1, <3>2, StreamFaultGoesOn, SameBookReleases DEF IInv
  <2> QED
    BY <1>1, <2>1, <2>2
<1>3. NoOversell' /\ ReadBacked'
  BY <1>2, ReleasesBacks, ReadStaysBacked
     DEF PromiseInv, IInv, BrokerGoesOn, ClientInv, clientVars
<1>4. CallBacked' /\ AccountBacked'
  BY <1>2, CallStaysBacked
     DEF PromiseInv, IInv, BrokerGoesOn, ClientInv, clientVars, AccountBacked, ClientReady
<1> QED
  BY <1>3, <1>4 DEF PromiseInv

\* A new process has no account and has promised nothing.
LEMMA RestartKeepsPromises ==
  ASSUME IInv, PromiseInv, Restart
  PROVE  PromiseInv'
<1>1. /\ UNCHANGED << book, shares >> /\ account' = NoAccount
      /\ user'.pc = "idle" /\ daemon'.pc = "positions"
  BY DEF Restart, Idle, NewDaemon
<1> QED
  BY <1>1, SameNoOversell, IdleIsBacked, NoReadIsBacked
     DEF PromiseInv, AccountBacked, ClientReady

\* Being told to stop changes nothing else.
LEMMA StopKeepsPromises ==
  ASSUME IInv, PromiseInv, Stop
  PROVE  PromiseInv'
<1>1. /\ daemon' = [daemon EXCEPT !.stop = TRUE]
      /\ UNCHANGED << brokerVars, stateVars, user >>
  BY DEF Stop
<1>2. /\ daemon'.pc = daemon.pc /\ daemon'.positions = daemon.positions
      /\ daemon'.orders = daemon.orders
  BY <1>1 DEF IInv, ClientInv, DaemonInv
<1>3. UNCHANGED << book, shares, user, account >>
  BY <1>1 DEF brokerVars, stateVars
<1>4. BrokerInv /\ BrokerInv'
  BY <1>1, StopKeepsIInv DEF IInv
<1>5. ReadBacked'
  BY <1>2, <1>3, <1>4, SameBookReleases, ReadStaysBacked DEF PromiseInv, IInv, ClientInv
<1>6. CallBacked' /\ NoOversell' /\ AccountBacked'
  BY <1>3, GrowsReflexive, CallStaysBacked, SameNoOversell
     DEF PromiseInv, AccountBacked, ClientReady, IInv, ClientInv
<1> QED
  BY <1>5, <1>6 DEF PromiseInv

\* The accounts a client may find have offered no more than they hold.
LEMMA InitPromises ==
  ASSUME NoShortSales, Init
  PROVE  PromiseInv
<1>1. PICK a \in Accounts : book = a.book /\ shares = a.shares
  BY DEF Init, BrokerInit
<1>2. \A symbol \in Symbols : Committed(a.book, symbol) <= a.shares[symbol]
  BY InputAssumption DEF NoShortSales
<1>3. NoOversell
  <2> SUFFICES ASSUME NEW symbol \in Symbols PROVE Uncommitted(symbol) >= 0
    BY DEF NoOversell
  <2>1. /\ Committed(book, symbol) \in Int /\ shares[symbol] \in Int
        /\ Uncommitted(symbol) = shares[symbol] - Committed(book, symbol)
    BY InitIInv, CommittedInBook DEF IInv
  <2>2. Committed(book, symbol) <= shares[symbol]
    BY <1>1, <1>2
  <2> QED
    BY <2>1, <2>2
<1>4. account = NoAccount /\ user.pc = "idle" /\ daemon.pc = "positions"
  BY DEF Init, Idle, NewDaemon
<1> QED
  BY <1>3, <1>4 DEF PromiseInv, AccountBacked, ClientReady, CallBacked, ReadBacked

\* The invariant of the promises is inductive on top of IInv.
LEMMA NextKeepsPromises ==
  ASSUME NoShortSales, IInv, PromiseInv, [Next]_vars
  PROVE  PromiseInv'
<1>1. CASE SubmitOrder \/ Liquidate
  BY <1>1, SubmitKeepsPromises DEF SubmitOrder, Liquidate
<1>2. CASE BrokerAccepts
  BY <1>2, BrokerAcceptsKeepsPromises
<1>3. CASE BrokerRefuses \/ AnswerLost
  BY <1>3, CallFailsKeepsPromises
<1>4. CASE TrackSubmittedOrder \/ AnswerWithoutStatus
  <2>1. PICK status \in FirstStatus : Register(status)
    BY <1>4, AnswerRegisters
  <2> QED
    BY <2>1, TrackKeepsPromises
<1>5. CASE AnswerWithoutId
  BY <1>5, AnswerWithoutIdKeepsPromises
<1>6. CASE ReadPositions
  BY <1>6, ReadPositionsKeepsPromises
<1>7. CASE ReadOrders
  BY <1>7, ReadOrdersKeepsPromises
<1>8. CASE ReadCash \/ SnapshotWithoutId
  BY <1>8, SnapshotKeepsPromises
<1>9. CASE ReadFails
  BY <1>9, SyncRaisesKeepsPromises DEF ReadFails
<1>10. CASE Subscribe \/ StreamEnds \/ RecoverBrokerSnapshot \/ WorkerStops \/ HandleUntracked
  BY <1>10, WorkerStepKeepsPromises
<1>11. CASE HandleLifecycleUpdate
  BY <1>11, LifecycleKeepsPromises
<1>12. CASE HandleFill
  BY <1>12, HandleFillKeepsPromises
<1>13. CASE HandleMalformed
  BY <1>13, HandlerRaisesKeepsPromises DEF HandleMalformed
<1>14. CASE BrokerMoves \/ OthersTrade \/ StreamFault
  BY <1>14, EnvironmentKeepsPromises
<1>15. CASE Restart
  BY <1>15, RestartKeepsPromises
<1>16. CASE Stop
  BY <1>16, StopKeepsPromises
<1>17. CASE UNCHANGED vars
  <2>1. UNCHANGED << book, shares, account, user, daemon >>
    BY <1>17 DEF vars, brokerVars, clientVars
  <2>2. CallBacked'
    BY <2>1, GrowsReflexive, CallStaysBacked DEF PromiseInv, IInv, ClientInv
  <2>3. ReadBacked'
    BY <2>1 DEF PromiseInv, ReadBacked, SnapshotOrders
  <2> QED
    BY <2>1, <2>2, <2>3, SameNoOversell DEF PromiseInv, AccountBacked, ClientReady
<1> QED
  BY <1>1, <1>2, <1>3, <1>4, <1>5, <1>6, <1>7, <1>8, <1>9, <1>10, <1>11, <1>12, <1>13,
     <1>14, <1>15, <1>16, <1>17 DEF Next, CallerStep, DaemonStep

\* With a broker that sells nothing short, the shares the client promises to open
\* sells are shares it holds, although its account comes from reads at different
\* moments and lags behind the broker, and whatever is lost, repeated or restarted.
THEOREM ReservationKept ==
  ASSUME NoShortSales
  PROVE  Spec => []ReservationHolds
<1>1. Init => PromiseInv
  BY InitPromises
<1>2. IInv /\ PromiseInv /\ [Next]_vars => PromiseInv'
  BY NextKeepsPromises
<1>3. PromiseInv => ReservationHolds
  BY ReservedIsPromised DEF PromiseInv, AccountBacked, Covered, Held, ReservationHolds
<1> QED
  BY <1>1, <1>2, <1>3, AlwaysIInv, PTL DEF Spec

-----------------------------------------------------------------------------
(* No accepted order is left out *)

\* The prices an order needs are at least a cent once they are rounded to cents,
\* and it is for some shares: the core will take it.
Placeable(raw) ==
  /\ raw.qty > 0
  /\ NeedsLimitPrice(raw.type) => FromDecimal(raw.limit_price) > 0
  /\ NeedsStopPrice(raw.type) => FromDecimal(raw.stop_price) > 0

\* Callers ask for no price that the client's check passes and rounding makes nothing.
WholeCentPrices ==
  \A request \in Requests :
    PassesClientChecks(request) =>
      /\ NeedsLimitPrice(request.type) => FromDecimal(request.limit_price) > 0
      /\ NeedsStopPrice(request.type) => FromDecimal(request.stop_price) > 0

\* The answer to a submission arrives, and names its order.
AnswersArrive == Env \cap {"lost_answer", "answer_no_id"} = {}

CallPlaceable ==
  /\ user.pc = "calling" => Placeable(NativeOrder(user.request))
  /\ user.pc = "accepted" => Placeable(book[user.key])

\* What passes the client's checks is for some shares.
LEMMA CheckedIsPlaceable ==
  ASSUME NEW request \in CallerRequest, PassesClientChecks(request),
         NeedsLimitPrice(request.type) => FromDecimal(request.limit_price) > 0,
         NeedsStopPrice(request.type) => FromDecimal(request.stop_price) > 0
  PROVE  Placeable(NativeOrder(request))
<1> DEFINE q == request.quantity
<1>1. q \in Int /\ q # 0
  BY DEF CallerRequest, PassesClientChecks, IsOrderQuantity
<1> HIDE DEF q
<1>2. AbsoluteQuantity(q) > 0
  BY <1>1 DEF AbsoluteQuantity
<1> QED
  BY <1>2 DEF Placeable, NativeOrder, q

\* The core takes a placeable order under the next id, whatever the account holds.
LEMMA PlaceableIsPlaced ==
  ASSUME NEW acct, TradedAccount(acct), NEW raw \in BrokerOrder, Placeable(raw)
  PROVE  CanPlaceOrder(acct, ToVQCOrder(raw, NextOrderId(acct.orders), 0, "pending"))
<1> DEFINE id    == NextOrderId(acct.orders)
           order == ToVQCOrder(raw, id, 0, "pending")
           limit == ToVQCMoney(raw.limit_price)
           stop  == ToVQCMoney(raw.stop_price)
           type  == ToDafnyOrderType(raw.type, limit, stop)
<1>1. id \in Nat /\ id > 0 /\ ~ExistsOrder(acct.orders, id)
  BY NextOrderIdFresh, FieldsOfAccount DEF TradedAccount
<1>2. /\ raw.qty \in Nat /\ raw.symbol \in Symbols
      /\ raw.type \in {"market", "limit", "stop", "stop_limit"}
      /\ raw.type \in {"limit", "stop_limit"} => raw.limit_price \in Int
      /\ raw.type \in {"stop", "stop_limit"} => raw.stop_price \in Int
  BY BrokerOrderFields
<1>3. raw.qty > 0 /\ raw.symbol # ""
  BY <1>2, InputAssumption DEF Placeable
<1>4. NormalizedStatus("pending", 0, raw.qty) = "pending"
  <2> DEFINE q == raw.qty
  <2>1. q \in Nat /\ q > 0
    BY ONLY <1>2, <1>3
  <2> HIDE DEF q
  <2>a. q # 0 /\ ~(0 > 0)
    BY ONLY <2>1
  <2>2. NormalizedStatus("pending", 0, q) = "pending"
    BY ONLY <2>a DEF NormalizedStatus
  <2> QED
    BY <2>2 DEF q
<1>5. /\ raw.type \in {"limit", "stop_limit"} => limit > 0
      /\ raw.type \in {"stop", "stop_limit"} => stop > 0
  <2>1. \A n \in Int : ToVQCMoney(n) = FromDecimal(n)
    BY InputAssumption DEF ToVQCMoney
  <2> QED
    BY <1>2, <2>1 DEF Placeable, NeedsLimitPrice, NeedsStopPrice
<1>6. /\ order.orderId = id /\ order.quantity = raw.qty /\ order.filledQuantity = 0
      /\ order.symbol = raw.symbol /\ order.status = "Pending" /\ order.orderType = type
  BY <1>4 DEF ToVQCOrder, OrderRecord, ToDafnyOrderStatus
<1> HIDE DEF limit, stop
<1>7. /\ type.kind \in {"Limit", "StopLimit"} => type.limitPrice > 0
      /\ type.kind \in {"Stop", "StopLimit"} => type.stopPrice > 0
  <2>1. CASE raw.type = "market"
    BY <2>1 DEF ToDafnyOrderType
  <2>2. CASE raw.type = "limit"
    BY <1>5, <2>2 DEF ToDafnyOrderType
  <2>3. CASE raw.type = "stop"
    BY <1>5, <2>3 DEF ToDafnyOrderType
  <2>4. CASE raw.type = "stop_limit"
    BY <1>5, <2>4 DEF ToDafnyOrderType
  <2> QED
    BY <1>2, <2>1, <2>2, <2>3, <2>4
<1> HIDE DEF order, type, id
<1>8. IsValidOrder(order)
  <2>1. HasValidOrderType(order)
    BY <1>6, <1>7 DEF HasValidOrderType
  <2> DEFINE q == order.quantity
             filled == order.filledQuantity
  <2>a. q \in Nat /\ q > 0 /\ filled = 0
    BY ONLY <1>2, <1>3, <1>6, Zenon
  <2> HIDE DEF q, filled
  <2>b. q > 0 /\ filled <= q
    BY ONLY <2>a
  <2>2. order.quantity > 0 /\ order.filledQuantity <= order.quantity
    BY ONLY <2>b DEF q, filled
  <2>3. order.orderId > 0 /\ order.symbol # ""
    BY <1>1, <1>3, <1>6
  <2> QED
    BY <2>1, <2>2, <2>3 DEF IsValidOrder, HasNonEmptySymbol
<1>9. HasValidOrderStatus(order)
  BY <1>6 DEF HasValidOrderStatus, IsStatusCompatible
<1>10. IsValidAccount(acct)
  BY DEF TradedAccount, GoodAccount
<1> QED
  BY <1>1, <1>6, <1>8, <1>9, <1>10 DEF CanPlaceOrder, order, id

\* The worker's steps leave the caller and the broker's book alone.
LEMMA WorkerLeavesCaller ==
  ASSUME DaemonStep \/ ReadFails \/ SnapshotWithoutId \/ HandleMalformed \/ Stop
           \/ UNCHANGED vars
  PROVE  UNCHANGED << book, user >>
<1>1. CASE ReadPositions \/ ReadOrders \/ ReadCash \/ ReadFails \/ SnapshotWithoutId
  BY <1>1 DEF ReadPositions, ReadOrders, ReadCash, ReadFails, SnapshotWithoutId, SyncRaises,
     brokerVars
<1>2. CASE Subscribe \/ StreamEnds \/ RecoverBrokerSnapshot \/ WorkerStops \/ Stop
           \/ UNCHANGED vars
  BY <1>2 DEF Subscribe, StreamEnds, RecoverBrokerSnapshot, WorkerStops, Stop, vars,
     brokerVars, clientVars
<1>3. CASE HandleUntracked \/ HandleLifecycleUpdate \/ HandleFill \/ HandleMalformed
  BY <1>3 DEF HandleUntracked, HandleLifecycleUpdate, HandleFill, HandleMalformed
<1> QED
  BY <1>1, <1>2, <1>3 DEF DaemonStep

\* The environment keeps every instruction of the book.
LEMMA EnvironmentGrows ==
  ASSUME IInv, BrokerMoves \/ OthersTrade \/ StreamFault
  PROVE  Grows(book, book')
<1>1. CASE BrokerMoves
  BY <1>1, BrokerMovesGoOn DEF IInv, BrokerGoesOn
<1>2. CASE OthersTrade
  <2>1. PICK request \in Requests :
          PassesClientChecks(request) /\ ForeignOrder(NativeOrder(request))
    BY <1>2 DEF OthersTrade
  <2>2. request \in CallerRequest
    BY InputAssumption
  <2> QED
    BY <2>1, <2>2, EntryGoesOn DEF IInv, BrokerGoesOn
<1>3. CASE StreamFault
  BY <1>3, StreamFaultGoesOn DEF StreamFault, IInv, BrokerGoesOn
<1> QED
  BY <1>1, <1>2, <1>3

\* Every order that waits for the broker or for its answer is placeable.
LEMMA NextKeepsPlaceable ==
  ASSUME WholeCentPrices, IInv, CallPlaceable, [Next]_vars
  PROVE  CallPlaceable'
<1>1. ASSUME NEW request, Submit(request), request \in CallerRequest,
             NeedsLimitPrice(request.type) => FromDecimal(request.limit_price) > 0,
             NeedsStopPrice(request.type) => FromDecimal(request.stop_price) > 0
      PROVE  CallPlaceable'
  <2>1. user'.pc = "calling" /\ user'.request = request /\ PassesClientChecks(request)
    BY <1>1 DEF Submit
  <2> QED
    BY <1>1, <2>1, CheckedIsPlaceable DEF CallPlaceable
<1>2. CASE SubmitOrder
  <2>1. PICK request \in Requests : Submit(request)
    BY <1>2 DEF SubmitOrder
  <2>2. request \in CallerRequest
    BY InputAssumption
  <2>3. PassesClientChecks(request)
    BY <2>1 DEF Submit
  <2> QED
    BY <1>1, <2>1, <2>2, <2>3 DEF WholeCentPrices
<1>3. CASE Liquidate
  <2>1. /\ ClientReady
        /\ \E i \in DOMAIN account.positions :
             Submit(MarketOrder(account.positions[i].symbol,
                                0 - account.positions[i].quantity, "day"))
    BY <1>3 DEF Liquidate
  <2>2. PICK i \in DOMAIN account.positions :
          Submit(MarketOrder(account.positions[i].symbol,
                             0 - account.positions[i].quantity, "day"))
    BY <2>1
  <2> DEFINE request == MarketOrder(account.positions[i].symbol,
                                    0 - account.positions[i].quantity, "day")
  <2>3. request \in CallerRequest
    BY <2>1, LiquidationIsRequest DEF IInv, ClientInv
  <2>4. ~NeedsLimitPrice(request.type) /\ ~NeedsStopPrice(request.type)
    BY DEF MarketOrder, Request, NeedsLimitPrice, NeedsStopPrice
  <2> HIDE DEF request
  <2>5. Submit(request)
    BY <2>2 DEF request
  <2> QED
    BY <1>1, <2>3, <2>4, <2>5
<1>4. CASE BrokerAccepts
  <2> DEFINE asked == NativeOrder(user.request)
             raw == NewOrder(Len(book) + 1, asked, "pending_new")
  <2>1. /\ user.pc = "calling" /\ book' = Append(book, raw)
        /\ user' = [user EXCEPT !.pc = "accepted", !.key = Len(book')]
    BY <1>4 DEF BrokerAccepts, EnterOrder
  <2>2. Placeable(raw)
    BY <2>1 DEF CallPlaceable, Placeable, NewOrder
  <2> HIDE DEF raw
  <2>3. book \in Seq(BrokerOrder)
    BY DEF IInv, BrokerInv
  <2>4. Len(book') = Len(book) + 1 /\ book'[Len(book')] = raw
    BY <2>1, <2>3
  <2>5. user'.pc = "accepted" /\ user'.key = Len(book')
    BY <2>1 DEF IInv, ClientInv, UserInv
  <2> QED
    BY <2>2, <2>4, <2>5 DEF CallPlaceable
<1>5. ASSUME user'.pc = "idle" PROVE CallPlaceable'
  BY <1>5 DEF CallPlaceable
<1>6. CASE (CallerStep /\ ~BrokerAccepts) \/ AnswerLost \/ AnswerWithoutId
           \/ AnswerWithoutStatus \/ Restart
  BY <1>5, <1>6 DEF CallerStep, BrokerRefuses, TrackSubmittedOrder, AnswerLost,
     AnswerWithoutId, AnswerWithoutStatus, Register, Restart, Idle
<1>7. ASSUME UNCHANGED user, Grows(book, book') PROVE CallPlaceable'
  <2>1. ASSUME user.pc = "accepted" PROVE Placeable(book'[user.key])
    <3>1. SameInstruction(book[user.key], book'[user.key])
      BY <1>7, <2>1 DEF IInv, ClientInv, UserInv, Grows
    <3> QED
      BY <2>1, <3>1 DEF CallPlaceable, Placeable, SameInstruction
  <2> QED
    BY <1>7, <2>1 DEF CallPlaceable
<1>8. CASE BrokerMoves \/ OthersTrade \/ StreamFault
  <2>1. UNCHANGED user
    BY <1>8 DEF BrokerMoves, OthersTrade, StreamFault, clientVars
  <2>2. Grows(book, book')
    BY <1>8, EnvironmentGrows
  <2> QED
    BY <1>7, <2>1, <2>2
<1>9. CASE DaemonStep \/ ReadFails \/ SnapshotWithoutId \/ HandleMalformed \/ Stop
           \/ UNCHANGED vars
  <2>1. UNCHANGED << book, user >>
    BY <1>9, WorkerLeavesCaller
  <2> QED
    BY <1>7, <2>1, GrowsReflexive
<1> QED
  BY <1>2, <1>3, <1>4, <1>6, <1>8, <1>9 DEF Next, CallerStep

\* When the broker has accepted an order and the submission returns, the order is
\* tracked: the core never refuses it, provided the answer arrives with its id and
\* no price vanishes when it is rounded to cents.
THEOREM AcceptedAreTracked ==
  ASSUME AnswersArrive, WholeCentPrices
  PROVE  Spec => AcceptedOrdersAreTracked
<1>1. Init => CallPlaceable
  BY DEF Init, CallPlaceable, Idle
<1>2. IInv /\ CallPlaceable /\ [Next]_vars => CallPlaceable'
  BY NextKeepsPlaceable
<1> DEFINE Tracked == user.pc = "accepted" /\ user'.pc = "idle" /\ account' # NoAccount
                        => user.key \in DOMAIN orderIds'
<1>3. IInv /\ CallPlaceable /\ [Next]_vars => [Tracked]_vars
  <2> SUFFICES ASSUME IInv, CallPlaceable, Next, user.pc = "accepted", user'.pc = "idle",
                      account' # NoAccount
               PROVE  user.key \in DOMAIN orderIds'
    OBVIOUS
  <2>1. CASE TrackSubmittedOrder \/ AnswerWithoutStatus
    <3> DEFINE raw == book[user.key]
    <3>1. TradedAccount(account) /\ raw \in BrokerOrder /\ Placeable(raw)
      BY BookFields DEF IInv, ClientInv, UserInv, CallPlaceable
    <3>2. CanPlaceOrder(account, ToVQCOrder(raw, NextOrderId(account.orders), 0, "pending"))
      BY <3>1, PlaceableIsPlaced
    <3>3. orderIds' = [key \in DOMAIN orderIds \cup {user.key} |->
                         IF key = user.key THEN NextOrderId(account.orders) ELSE orderIds[key]]
      BY <2>1, <3>2 DEF TrackSubmittedOrder, AnswerWithoutStatus, Register
    <3> QED
      BY <3>3
  <2>2. CASE SubmitOrder \/ Liquidate
    BY <2>2 DEF SubmitOrder, Liquidate, Submit
  <2>3. CASE BrokerAccepts \/ BrokerRefuses
    BY <2>3 DEF BrokerAccepts, BrokerRefuses
  <2>4. CASE AnswerLost \/ AnswerWithoutId
    BY <2>4 DEF AnswerLost, AnswerWithoutId, Fault, AnswersArrive
  <2>5. CASE BrokerMoves \/ OthersTrade \/ StreamFault
    BY <2>5 DEF BrokerMoves, OthersTrade, StreamFault, clientVars
  <2>6. CASE Restart
    BY <2>6 DEF Restart
  <2>7. CASE DaemonStep \/ ReadFails \/ SnapshotWithoutId \/ HandleMalformed \/ Stop
    BY <2>7, WorkerLeavesCaller
  <2> QED
    BY <2>1, <2>2, <2>3, <2>4, <2>5, <2>6, <2>7 DEF Next, CallerStep
<1> QED
  BY <1>1, <1>2, <1>3, AlwaysIInv, PTL DEF Spec, AcceptedOrdersAreTracked
=============================================================================

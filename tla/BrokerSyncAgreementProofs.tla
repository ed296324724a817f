---------------------- MODULE BrokerSyncAgreementProofs ----------------------
(***************************************************************************)
(* The client and its broker agree: what the account shows and what is in  *)
(* flight add up to what the broker has, for every caller, every number of *)
(* orders and every interleaving with faults of the stream, failed reads,  *)
(* malformed updates and restarts.                                         *)
(***************************************************************************)
EXTENDS BrokerSyncProofs, BrokerSyncToSynced

-----------------------------------------------------------------------------
(* The inductive invariant of the agreement *)

\* Nobody else trades on the account, and the broker rests while nobody listens.
QuietBroker == Env \cap {"foreign", "unquiet"} = {}

\* The broker deals in whole cents.
WholeCents ==
  /\ Price % UnitsPerCent = 0
  /\ \A a \in Accounts : a.cash % UnitsPerCent = 0

\* The orders the client knows of: it tracks them or waits for the answer.
Known(key) == key \in DOMAIN orderIds \/ (user.pc = "accepted" /\ user.key = key)

\* The worker only listens while its stream runs, and synchronizes only without one.
LineInv ==
  /\ daemon.pc # "stream" => ~connected /\ queue = <<>>
  /\ daemon.pc \in SyncSteps => daemon.within \in {"start", "recover"}

\* What the worker has read is what the broker still has: nothing moves meanwhile.
ReadInv ==
  /\ daemon.pc \in {"orders", "cash"} =>
       \A symbol \in Symbols : Held(daemon.positions, symbol) = shares[symbol]
  /\ daemon.pc = "cash" => daemon.orders = GetOpenOrders

\* Two updates of one execution are the same.
OneOfEach(q) ==
  \A u, v \in Range(q) :
    IsFillUpdate(u) /\ IsFillUpdate(v) /\ u.execution_id = v.execution_id => u = v

\* Every update on its way is of an order the client knows, and an execution has
\* one, however often it is repeated.
HeardInv ==
  /\ \A u \in Range(queue) : IsCopy(u.order, book) /\ Known(u.order.id)
  /\ OneOfEach(queue)

\* The order a call waits for is not tracked yet.
AcceptedInv == user.pc = "accepted" => user.key \notin DOMAIN orderIds

\* The account and the executions in flight add up to the broker's cash and
\* holdings, and the orders the client knows to what the broker has filled.
HoldingsAgree ==
  \A symbol \in Symbols :
    shares[symbol] = Held(account.positions, symbol) + Moved(InFlight, symbol)

CashAgrees == FromDecimal(cash) = account.cash - Paid(InFlight)

FillsAgree ==
  /\ \A key \in DOMAIN orderIds :
       book[key].filled_qty =
         GetOrder(account.orders, orderIds[key]).filledQuantity + Filled(InFlight, key)
  /\ user.pc = "accepted" => book[user.key].filled_qty = Filled(InFlight, user.key)

LiveKnown == \A key \in DOMAIN book : IsLive(book[key]) => Known(key)

\* From the end of a synchronization to the loss of the stream.
InStep == daemon.pc = "connect" \/ (daemon.pc = "stream" /\ connected)

AgreeInv ==
  /\ LineInv /\ ReadInv /\ HeardInv /\ AcceptedInv
  /\ cash % UnitsPerCent = 0
  /\ InStep => HoldingsAgree /\ CashAgrees /\ FillsAgree /\ LiveKnown

-----------------------------------------------------------------------------
(* What is in flight *)

\* An update of the broker's and what it says.
LEMMA UpdateFields ==
  ASSUME NEW n \in Nat, NEW u \in Update(n)
  PROVE  /\ u.order \in BrokerOrder /\ u.order.symbol \in Symbols
         /\ u.order.side \in {"buy", "sell"} /\ u.qty \in Nat
         /\ u.execution_id \in 0 .. n /\ u.price = Price /\ u.event \in Events
         /\ Signed(u) \in Int
<1>1. /\ u.order \in BrokerOrder /\ u.qty \in Nat /\ u.execution_id \in 0 .. n
      /\ u.price = Price /\ u.event \in Events
  BY DEF Update
<1>2. u.order.symbol \in Symbols /\ u.order.side \in {"buy", "sell"}
  BY <1>1, BrokerOrderFields
<1> QED
  BY <1>1, <1>2 DEF Signed

\* The price of an execution in cents.
LEMMA PriceInCents == FromDecimal(Price) \in Int
<1>1. Price \in Int
  BY InputAssumption
<1>2. ToVQCMoney(Price) \in Int
  BY <1>1, PriceConverted
<1> QED
  BY <1>1, <1>2, InputAssumption DEF ToVQCMoney

\* The functions that are summed over a set of executions.
LEMMA Summands ==
  ASSUME NEW n \in Nat, NEW S \in SUBSET Update(n)
  PROVE  /\ \A symbol :
              [u \in S |-> IF u.order.symbol = symbol THEN Signed(u) ELSE 0] \in [S -> Int]
         /\ [u \in S |-> Signed(u) * FromDecimal(u.price)] \in [S -> Int]
         /\ \A key : [u \in S |-> IF u.order.id = key THEN u.qty ELSE 0] \in [S -> Nat]
<1>1. \A u \in S : Signed(u) \in Int /\ u.qty \in Nat /\ u.price = Price
  BY UpdateFields
<1>2. \A u \in S : Signed(u) * FromDecimal(u.price) \in Int
  BY <1>1, PriceInCents
<1> QED
  BY <1>1, <1>2

\* The totals of a set of executions are numbers.
LEMMA TotalsType ==
  ASSUME NEW n \in Nat, NEW S \in SUBSET Update(n), IsFiniteSet(S)
  PROVE  /\ \A symbol : Moved(S, symbol) \in Int
         /\ Paid(S) \in Int
         /\ \A key : Filled(S, key) \in Nat
<1>1. \A symbol : Moved(S, symbol) \in Int
  BY Summands, SumFunctionType DEF Moved
<1>2. Paid(S) \in Int
  BY Summands, SumFunctionType DEF Paid
<1>3. ASSUME NEW key PROVE Filled(S, key) \in Nat
  <2> DEFINE f == [u \in S |-> IF u.order.id = key THEN u.qty ELSE 0]
             none == [u \in {} |-> 0]
  <2>1. f \in [S -> Nat] /\ f \in [S -> Int] /\ none \in [{} -> Int] /\ {} \in SUBSET S
    BY Summands
  <2>2. \A u \in S : f[u] >= 0
    BY <2>1
  <2>3. SumFunction(none) = 0
    BY SumFunctionEmpty
  <2> HIDE DEF f, none
  <2>4. SumFunction(f) \in Int
    BY <2>1, SumFunctionType
  <2>5. SumFunction(none) <= SumFunction(f)
    BY <2>1, <2>2, SumFunctionMonotone
  <2>6. SumFunction(f) \in Nat
    BY <2>3, <2>4, <2>5
  <2> QED
    BY <2>6 DEF Filled, f
<1> QED
  BY <1>1, <1>2, <1>3

\* Nothing in flight adds nothing.
LEMMA NothingInFlight ==
  /\ \A symbol : Moved({}, symbol) = 0
  /\ Paid({}) = 0
  /\ \A key : Filled({}, key) = 0
BY SumFunctionEmpty DEF Moved, Paid, Filled

\* One more execution adds what it moves, pays and fills.
LEMMA OneMoreInFlight ==
  ASSUME NEW n \in Nat, NEW S \in SUBSET Update(n), IsFiniteSet(S),
         NEW u \in Update(n), u \notin S
  PROVE  /\ \A symbol : Moved(S \cup {u}, symbol)
                          = Moved(S, symbol)
                              + (IF u.order.symbol = symbol THEN Signed(u) ELSE 0)
         /\ Paid(S \cup {u}) = Paid(S) + Signed(u) * FromDecimal(Price)
         /\ \A key : Filled(S \cup {u}, key)
                       = Filled(S, key) + (IF u.order.id = key THEN u.qty ELSE 0)
<1> DEFINE R == S \cup {u}
<1>1. R \in SUBSET Update(n) /\ u \in R
  OBVIOUS
<1>2. u.price = Price /\ Signed(u) \in Int /\ u.qty \in Nat
  BY UpdateFields
<1>3. ASSUME NEW symbol
      PROVE  Moved(R, symbol) = Moved(S, symbol)
                                  + (IF u.order.symbol = symbol THEN Signed(u) ELSE 0)
  <2> DEFINE f == [v \in R |-> IF v.order.symbol = symbol THEN Signed(v) ELSE 0]
             h == [v \in S |-> IF v.order.symbol = symbol THEN Signed(v) ELSE 0]
  <2>1. f \in [R -> Int]
    BY <1>1, Summands
  <2>2. h = [v \in S |-> f[v]] /\ f[u] = IF u.order.symbol = symbol THEN Signed(u) ELSE 0
    BY <1>1
  <2>3. f[u] \in Int
    BY <1>1, <2>1
  <2> HIDE DEF f, h
  <2>4. SumFunction(f) = f[u] + SumFunction(h) /\ SumFunction(h) \in Int
    BY <2>1, <2>2, SumFunctionExtended
  <2>5. Moved(R, symbol) = SumFunction(f) /\ Moved(S, symbol) = SumFunction(h)
    BY DEF Moved, f, h
  <2> QED
    BY <2>2, <2>3, <2>4, <2>5
<1>4. Paid(R) = Paid(S) + Signed(u) * FromDecimal(Price)
  <2> DEFINE f == [v \in R |-> Signed(v) * FromDecimal(v.price)]
             h == [v \in S |-> Signed(v) * FromDecimal(v.price)]
  <2>1. f \in [R -> Int]
    BY <1>1, Summands
  <2>2. h = [v \in S |-> f[v]] /\ f[u] = Signed(u) * FromDecimal(Price)
    BY <1>1, <1>2
  <2>3. f[u] \in Int
    BY <1>1, <2>1
  <2> HIDE DEF f, h
  <2>4. SumFunction(f) = f[u] + SumFunction(h) /\ SumFunction(h) \in Int
    BY <2>1, <2>2, SumFunctionExtended
  <2>5. Paid(R) = SumFunction(f) /\ Paid(S) = SumFunction(h)
    BY DEF Paid, f, h
  <2> QED
    BY <2>2, <2>3, <2>4, <2>5
<1>5. ASSUME NEW key
      PROVE  Filled(R, key) = Filled(S, key) + (IF u.order.id = key THEN u.qty ELSE 0)
  <2> DEFINE f == [v \in R |-> IF v.order.id = key THEN v.qty ELSE 0]
             h == [v \in S |-> IF v.order.id = key THEN v.qty ELSE 0]
  <2>1. f \in [R -> Int]
    <3>1. f \in [R -> Nat]
      BY <1>1, Summands
    <3> QED
      BY <3>1
  <2>2. h = [v \in S |-> f[v]] /\ f[u] = IF u.order.id = key THEN u.qty ELSE 0
    BY <1>1
  <2>3. f[u] \in Int
    BY <1>1, <2>1
  <2> HIDE DEF f, h
  <2>4. SumFunction(f) = f[u] + SumFunction(h) /\ SumFunction(h) \in Int
    BY <2>1, <2>2, SumFunctionExtended
  <2>5. Filled(R, key) = SumFunction(f) /\ Filled(S, key) = SumFunction(h)
    BY DEF Filled, f, h
  <2> QED
    BY <2>2, <2>3, <2>4, <2>5
<1> QED
  BY <1>3, <1>4, <1>5

\* The elements of a list: finitely many, and those of a longer or a shorter one.
LEMMA ListElements ==
  ASSUME NEW T, NEW q \in Seq(T)
  PROVE  /\ Range(q) \in SUBSET T /\ IsFiniteSet(Range(q))
         /\ \A u \in T : Range(Append(q, u)) = Range(q) \cup {u}
         /\ q # <<>> => Range(q) = Range(Tail(q)) \cup {Head(q)}
<1>1. Len(q) \in Nat /\ q \in [1 .. Len(q) -> T] /\ DOMAIN q = 1 .. Len(q)
  OBVIOUS
<1>2. Range(q) \in SUBSET T
  BY <1>1 DEF Range
<1>3. IsFiniteSet(Range(q))
  <2>1. q \in Surjection(1 .. Len(q), Range(q))
    BY <1>1 DEF Surjection, Range
  <2>2. IsFiniteSet(1 .. Len(q))
    BY <1>1, FS_Interval
  <2> QED
    BY <2>1, <2>2, FS_Surjection
<1>4. ASSUME NEW u \in T PROVE Range(Append(q, u)) = Range(q) \cup {u}
  <2> DEFINE r == Append(q, u)
             n == Len(q)
  <2>1. /\ DOMAIN r = 1 .. n + 1 /\ r[n + 1] = u
        /\ \A i \in 1 .. n : r[i] = q[i]
    BY <1>1
  <2>2. n + 1 \in 1 .. n + 1 /\ \A i \in 1 .. n + 1 : i \in 1 .. n \/ i = n + 1
    BY <1>1
  <2>3. 1 .. n \subseteq 1 .. n + 1
    BY <1>1
  <2> HIDE DEF r, n
  <2>4. Range(r) = {r[i] : i \in 1 .. n + 1} /\ Range(q) = {q[i] : i \in 1 .. n}
    BY <1>1, <2>1 DEF Range, n
  <2>5. Range(r) = Range(q) \cup {u}
    BY <2>1, <2>2, <2>3, <2>4
  <2> QED
    BY <2>5 DEF r
<1>5. ASSUME q # <<>> PROVE Range(q) = Range(Tail(q)) \cup {Head(q)}
  <2> DEFINE r == Tail(q)
             n == Len(q)
  <2>1. n > 0
    BY <1>1, <1>5
  <2>2. /\ DOMAIN r = 1 .. n - 1 /\ \A i \in 1 .. n - 1 : r[i] = q[i + 1]
        /\ Head(q) = q[1]
    BY <1>1, <1>5, <2>1
  <2>3. \A i \in 1 .. n : i = 1 \/ (i - 1 \in 1 .. n - 1 /\ (i - 1) + 1 = i)
    BY <1>1
  <2>4. 1 \in 1 .. n /\ \A i \in 1 .. n - 1 : i + 1 \in 1 .. n
    BY <1>1, <2>1
  <2> HIDE DEF r, n
  <2>5. Range(r) = {r[i] : i \in 1 .. n - 1} /\ Range(q) = {q[i] : i \in 1 .. n}
    BY <1>1, <2>2 DEF Range, n
  <2>6. ASSUME NEW x \in Range(q) PROVE x \in Range(r) \cup {Head(q)}
    <3>1. PICK i \in 1 .. n : x = q[i]
      BY <2>5
    <3>2. CASE i = 1
      BY <2>2, <3>1, <3>2
    <3>3. CASE i # 1
      <4>1. i - 1 \in 1 .. n - 1 /\ q[i] = r[i - 1]
        BY <2>2, <2>3, <3>3
      <4> QED
        BY <2>5, <3>1, <4>1
    <3> QED
      BY <3>2, <3>3
  <2>7. ASSUME NEW x \in Range(r) \cup {Head(q)} PROVE x \in Range(q)
    <3>1. CASE x = Head(q)
      BY <2>2, <2>4, <2>5, <3>1
    <3>2. CASE x \in Range(r)
      <4>1. PICK i \in 1 .. n - 1 : x = r[i]
        BY <2>5, <3>2
      <4>2. x = q[i + 1] /\ i + 1 \in 1 .. n
        BY <2>2, <2>4, <4>1
      <4> QED
        BY <2>5, <4>2
    <3> QED
      BY <3>1, <3>2
  <2>8. Range(q) = Range(r) \cup {Head(q)}
    BY <2>6, <2>7
  <2> QED
    BY <2>8 DEF r
<1> QED
  BY <1>2, <1>3, <1>4, <1>5

\* The executions of a queue that have not been seen.
FlightOf(q, s) == {u \in Range(q) : IsFillUpdate(u) /\ u.execution_id \notin s}

\* What is in flight, by that name.
LEMMA FlightOfQueue == InFlight = FlightOf(queue, seen)
BY DEF InFlight, FlightOf, IsNewExecution

\* One more update on its way.
LEMMA FlightAppended ==
  ASSUME NEW T, NEW q \in Seq(T), NEW u \in T, NEW s
  PROVE  FlightOf(Append(q, u), s)
           = IF IsFillUpdate(u) /\ u.execution_id \notin s
             THEN FlightOf(q, s) \cup {u} ELSE FlightOf(q, s)
<1>1. Range(Append(q, u)) = Range(q) \cup {u}
  BY ListElements
<1> QED
  BY <1>1 DEF FlightOf

\* An update that changes nothing is not in flight.
LEMMA FlightDropped ==
  ASSUME NEW T, NEW q \in Seq(T), q # <<>>, NEW s,
         ~(IsFillUpdate(Head(q)) /\ Head(q).execution_id \notin s)
  PROVE  FlightOf(Tail(q), s) = FlightOf(q, s)
<1>1. Range(q) = Range(Tail(q)) \cup {Head(q)}
  BY ListElements
<1> QED
  BY <1>1 DEF FlightOf

\* An execution that is applied is in flight no more, not even its repetitions.
LEMMA FlightHandled ==
  ASSUME NEW T, NEW q \in Seq(T), q # <<>>, OneOfEach(q), NEW s,
         IsFillUpdate(Head(q)), Head(q).execution_id \notin s
  PROVE  /\ Head(q) \in FlightOf(q, s)
         /\ FlightOf(Tail(q), s \cup {Head(q).execution_id}) = FlightOf(q, s) \ {Head(q)}
<1> DEFINE u == Head(q)
<1>1. Range(q) = Range(Tail(q)) \cup {u}
  BY ListElements
<1>2. \A v, w \in Range(q) :
        IsFillUpdate(v) /\ IsFillUpdate(w) /\ v.execution_id = w.execution_id => v = w
  BY DEF OneOfEach
<1> HIDE DEF u
<1>3. IsFillUpdate(u) /\ u.execution_id \notin s
  BY DEF u
<1>4. u \in FlightOf(q, s)
  BY <1>1, <1>3 DEF FlightOf
<1>5. FlightOf(Tail(q), s \cup {u.execution_id}) = FlightOf(q, s) \ {u}
  BY <1>1, <1>2, <1>3 DEF FlightOf
<1> QED
  BY <1>4, <1>5 DEF u

\* What is in flight are updates of the broker's, finitely many.
LEMMA InFlightType ==
  ASSUME BrokerInv
  PROVE  /\ InFlight \in SUBSET Update(executions) /\ IsFiniteSet(InFlight)
         /\ executions \in Nat
         /\ \A u \in InFlight : u \in Range(queue) /\ IsFillUpdate(u) /\ u.execution_id \notin seen
<1> DEFINE T == Update(executions)
<1>1. queue \in Seq(T) /\ executions \in Nat
  BY DEF BrokerInv
<1> HIDE DEF T
<1>2. Range(queue) \in SUBSET T /\ IsFiniteSet(Range(queue))
  BY <1>1, ListElements
<1>3. InFlight \in SUBSET Range(queue)
  BY DEF InFlight
<1>4. IsFiniteSet(InFlight)
  BY <1>2, <1>3, FS_Subset
<1> QED
  BY <1>1, <1>2, <1>3, <1>4 DEF T, InFlight, IsNewExecution


-----------------------------------------------------------------------------
(* What the operations of the core do to the balances *)

\* An order in a list of which one is replaced.
LEMMA OrderReplaced ==
  ASSUME NEW orders \in Seq(Order), IsValidOrderSet(orders), NEW updated \in Order,
         IsValidOrder(updated), ExistsOrder(orders, updated.orderId),
         NEW id, ExistsOrder(orders, id)
  PROVE  GetOrder(UpdateOrder(orders, updated), id)
           = IF id = updated.orderId THEN updated ELSE GetOrder(orders, id)
<1> DEFINE after == UpdateOrder(orders, updated)
<1>1. IsValidOrderSet(after)
  BY UpdateOrderSound
<1>2. /\ DOMAIN after = DOMAIN orders
      /\ \A i \in DOMAIN orders :
           after[i] = IF orders[i].orderId = updated.orderId THEN updated ELSE orders[i]
  BY UpdateOrderElements
<1> HIDE DEF after
<1>3. PICK i \in DOMAIN orders : orders[i].orderId = id
  BY DEF ExistsOrder
<1>4. i \in DOMAIN after /\ after[i].orderId = id
  BY <1>2, <1>3
<1>5. OrderIndex(orders, id) = i
  BY <1>3, OrderIndexUnique
<1>6. OrderIndex(after, id) = i
  BY <1>1, <1>4, OrderIndexUnique
<1>7. GetOrder(after, id) = after[i] /\ GetOrder(orders, id) = orders[i]
  BY <1>5, <1>6 DEF GetOrder
<1> QED
  BY <1>2, <1>3, <1>7 DEF after

\* An order that was there before another is appended.
LEMMA OrderBefore ==
  ASSUME NEW orders \in Seq(Order), NEW order \in Order, IsValidOrderSet(orders),
         IsValidOrder(order), ~ExistsOrder(orders, order.orderId),
         NEW id, ExistsOrder(orders, id)
  PROVE  GetOrder(Append(orders, order), id) = GetOrder(orders, id)
<1> DEFINE after == Append(orders, order)
<1>1. IsValidOrderSet(after)
  BY AppendOrderSound
<1>2. \A i \in DOMAIN orders : i \in DOMAIN after /\ after[i] = orders[i]
  OBVIOUS
<1> HIDE DEF after
<1>3. PICK i \in DOMAIN orders : orders[i].orderId = id
  BY DEF ExistsOrder
<1>4. i \in DOMAIN after /\ after[i].orderId = id
  BY <1>2, <1>3
<1>5. OrderIndex(orders, id) = i
  BY <1>3, OrderIndexUnique
<1>6. OrderIndex(after, id) = i
  BY <1>1, <1>4, OrderIndexUnique
<1>7. GetOrder(after, id) = after[i] /\ GetOrder(orders, id) = orders[i]
  BY <1>5, <1>6 DEF GetOrder
<1> QED
  BY <1>2, <1>3, <1>7 DEF after

\* Nothing is paid, moved or filled.
SameBalances(before, after) ==
  /\ after.cash = before.cash
  /\ after.positions = before.positions
  /\ \A id : ExistsOrder(before.orders, id) =>
       GetOrder(after.orders, id).filledQuantity = GetOrder(before.orders, id).filledQuantity

\* A status change leaves the balances.
LEMMA StatusLeavesBalances ==
  ASSUME NEW acct, TradedAccount(acct), NEW id, NEW status \in PythonStatus,
         \/ IsStaleStatus(GetOrder(acct.orders, id).status, status)
         \/ CanSetAccountOrderStatus(acct, id, ToDafnyOrderStatus[status])
  PROVE  SameBalances(acct, ApplyStatus(acct, id, status))
<1>1. CASE IsStaleStatus(GetOrder(acct.orders, id).status, status)
  BY <1>1 DEF ApplyStatus, SameBalances
<1>2. CASE ~IsStaleStatus(GetOrder(acct.orders, id).status, status)
  <2> DEFINE new     == ToDafnyOrderStatus[status]
             order   == GetOrder(acct.orders, id)
             updated == SetStatus(order, new)
             after   == SetOrderStatusCore(acct, id, new)
  <2>1. new \in OrderStatus /\ CanSetAccountOrderStatus(acct, id, new)
    BY <1>2 DEF PythonStatus, ToDafnyOrderStatus, OrderStatus
  <2>2. ApplyStatus(acct, id, status) = after
    BY <1>2 DEF ApplyStatus
  <2>3. GoodAccount(acct) /\ acct.orders \in Seq(Order) /\ IsValidOrderSet(acct.orders)
    BY FieldsOfAccount DEF TradedAccount
  <2> HIDE DEF new
  <2>4. /\ order \in Order /\ order.orderId = id /\ ExistsOrder(acct.orders, id)
        /\ CanSetOrderStatus(order, new)
        /\ updated \in Order /\ updated.orderId = id
        /\ after.orders = UpdateOrder(acct.orders, updated)
        /\ after.positions = acct.positions /\ after.cash = acct.cash
    BY <2>1, <2>3, SetOrderStatusGood
  <2>5. updated.filledQuantity = order.filledQuantity /\ IsValidOrder(updated)
    BY <2>1, <2>4, SetStatusSound
  <2> HIDE DEF updated, after
  <2>6. ASSUME NEW key, ExistsOrder(acct.orders, key)
        PROVE  GetOrder(after.orders, key).filledQuantity
                 = GetOrder(acct.orders, key).filledQuantity
    <3>1. GetOrder(after.orders, key)
            = IF key = updated.orderId THEN updated ELSE GetOrder(acct.orders, key)
      BY <2>3, <2>4, <2>5, <2>6, OrderReplaced
    <3> QED
      BY <2>4, <2>5, <3>1
  <2> QED
    BY <2>2, <2>4, <2>6 DEF SameBalances
<1> QED
  BY <1>1, <1>2

\* An order placed leaves the balances, and nothing of it is filled yet.
LEMMA PlacingLeavesBalances ==
  ASSUME NEW acct, TradedAccount(acct), NEW order \in Order, CanPlaceOrder(acct, order)
  PROVE  SameBalances(acct, PlaceOrderCore(acct, order)) /\ order.filledQuantity = 0
<1> DEFINE after == PlaceOrderCore(acct, order)
<1>1. /\ IsValidOrder(order) /\ ~ExistsOrder(acct.orders, order.orderId)
      /\ order.filledQuantity = 0
  BY DEF CanPlaceOrder
<1>2. acct.orders \in Seq(Order) /\ IsValidOrderSet(acct.orders)
  BY FieldsOfAccount DEF TradedAccount
<1>3. /\ after.orders = Append(acct.orders, order) /\ after.positions = acct.positions
      /\ after.cash = acct.cash
  BY DEF PlaceOrderCore
<1> HIDE DEF after
<1>4. ASSUME NEW key, ExistsOrder(acct.orders, key)
      PROVE  GetOrder(after.orders, key) = GetOrder(acct.orders, key)
  BY <1>1, <1>2, <1>3, <1>4, OrderBefore
<1> QED
  BY <1>1, <1>3, <1>4 DEF SameBalances, after

\* The signed quantity of a fill of an order.
SignedFill(order, fill) == IF order.side = "Buy" THEN fill.quantity ELSE 0 - fill.quantity

\* A fill is paid, moved and filled once, and of nothing but its order.
LEMMA FillMovesBalances ==
  ASSUME NEW acct, TradedAccount(acct), NEW fill \in Fill, CanUpdate(acct, fill)
  PROVE  LET order == GetOrder(acct.orders, fill.orderId)
             after == UpdateCore(acct, fill)
         IN  /\ fill.quantity \in Nat /\ fill.price \in Int /\ order.symbol = fill.symbol
             /\ acct.cash \in Int
             /\ after.cash = acct.cash - SignedFill(order, fill) * fill.price
             /\ \A symbol :
                  /\ Held(acct.positions, symbol) \in Nat
                  /\ Held(after.positions, symbol) = Held(acct.positions, symbol)
                       + (IF symbol = fill.symbol THEN SignedFill(order, fill) ELSE 0)
             /\ \A id : ExistsOrder(acct.orders, id) =>
                  /\ GetOrder(acct.orders, id).filledQuantity \in Nat
                  /\ GetOrder(after.orders, id).filledQuantity
                       = GetOrder(acct.orders, id).filledQuantity
                           + (IF id = fill.orderId THEN fill.quantity ELSE 0)
<1> DEFINE order   == GetOrder(acct.orders, fill.orderId)
           n       == fill.quantity
           updated == ApplyFill(order, n)
           after   == UpdateCore(acct, fill)
           base    == PositionOrEmpty(acct.positions, order.symbol)
           next    == IF order.side = "Buy" THEN ApplyBuy(base, fill) ELSE ApplySell(base, fill)
<1>1. /\ acct.orders \in Seq(Order) /\ IsValidOrderSet(acct.orders)
      /\ acct.positions \in Seq(Position) /\ IsValidPositionSet(acct.positions)
      /\ acct.cash \in Int
  BY FieldsOfAccount DEF TradedAccount
<1>2. /\ ExistsOrder(acct.orders, fill.orderId) /\ IsValidFill(fill)
      /\ order.symbol = fill.symbol
      /\ CanApplyFill(order, n)
      /\ order.side = "Sell" =>
           /\ ExistsPosition(acct.positions, order.symbol)
           /\ GetPosition(acct.positions, order.symbol).quantity >= n
  BY DEF CanUpdate, IsApplicableFill, BelongsToOrder
<1>3. order \in Order /\ order.orderId = fill.orderId /\ IsValidOrder(order)
  <2>1. OrderIndex(acct.orders, fill.orderId) \in DOMAIN acct.orders
    BY <1>2, OrderFound
  <2> QED
    BY <1>1, <1>2, <2>1, OrderFound DEF GetOrder, CanApplyFill
<1>4. n \in Nat /\ n > 0 /\ fill.price \in Int
  BY <1>2 DEF Fill, IsValidFill
<1>5. /\ after.orders = UpdateOrder(acct.orders, updated)
      /\ after.positions = UpdatedPositions(acct.positions, order, fill)
      /\ after.cash = IF order.side = "Buy" THEN acct.cash - n * fill.price
                      ELSE acct.cash + n * fill.price
  BY DEF UpdateCore, ExecutionValue
<1>6. /\ updated \in Order /\ updated.orderId = order.orderId /\ IsValidOrder(updated)
      /\ updated.filledQuantity = order.filledQuantity + n
  BY <1>2, <1>3, <1>4, ApplyFillSound DEF IsSameOrder
<1>7. after.cash = acct.cash - SignedFill(order, fill) * fill.price
  <2>1. CASE order.side = "Buy"
    <3>1. SignedFill(order, fill) = n
      BY <2>1 DEF SignedFill
    <3> QED
      BY <1>5, <2>1, <3>1
  <2>2. CASE order.side # "Buy"
    <3>1. SignedFill(order, fill) = 0 - n /\ after.cash = acct.cash + n * fill.price
      BY <1>5, <2>2 DEF SignedFill
    <3>2. (0 - n) * fill.price = 0 - n * fill.price
      BY <1>4
    <3>3. n * fill.price \in Int
      BY <1>4
    <3> HIDE DEF order, after, n
    <3> QED
      BY <1>1, <3>1, <3>2, <3>3
  <2> QED
    BY <2>1, <2>2
<1>8. ASSUME NEW symbol
      PROVE  /\ Held(acct.positions, symbol) \in Nat
             /\ Held(after.positions, symbol) = Held(acct.positions, symbol)
                  + (IF symbol = fill.symbol THEN SignedFill(order, fill) ELSE 0)
  <2>1. /\ next.quantity = IF order.side = "Buy" THEN base.quantity + n ELSE base.quantity - n
        /\ PositionOrEmpty(after.positions, symbol)
             = IF symbol = order.symbol THEN next ELSE PositionOrEmpty(acct.positions, symbol)
    BY <1>1, <1>2, <1>3, <1>5, UpdatedPositionsLookup
  <2> HIDE DEF next
  <2>2. Held(acct.positions, symbol) \in Nat
    BY <1>1, HeldType
  <2>3. base.quantity = Held(acct.positions, order.symbol)
    BY DEF Held
  <2>4. CASE symbol = order.symbol
    <3>1. Held(after.positions, symbol) = next.quantity
          /\ base.quantity = Held(acct.positions, symbol)
      BY <2>1, <2>3, <2>4 DEF Held
    <3> HIDE DEF base, after
    <3> QED
      BY <1>2, <1>4, <2>1, <2>2, <2>4, <3>1 DEF SignedFill
  <2>5. CASE symbol # order.symbol
    <3>1. Held(after.positions, symbol) = Held(acct.positions, symbol)
      BY <2>1, <2>5 DEF Held
    <3> HIDE DEF base, after
    <3> QED
      BY <1>2, <2>2, <2>5, <3>1
  <2> QED
    BY <2>4, <2>5
<1>9. ASSUME NEW id, ExistsOrder(acct.orders, id)
      PROVE  /\ GetOrder(acct.orders, id).filledQuantity \in Nat
             /\ GetOrder(after.orders, id).filledQuantity
                  = GetOrder(acct.orders, id).filledQuantity
                      + (IF id = fill.orderId THEN n ELSE 0)
  <2> HIDE DEF updated, after, base, next
  <2>1. OrderIndex(acct.orders, id) \in DOMAIN acct.orders
    BY <1>9, OrderFound
  <2>2. GetOrder(acct.orders, id) \in Order
    BY <1>1, <2>1 DEF GetOrder
  <2>3. GetOrder(acct.orders, id).filledQuantity \in Nat
    BY <2>2 DEF Order
  <2>4. GetOrder(after.orders, id)
          = IF id = updated.orderId THEN updated ELSE GetOrder(acct.orders, id)
    <3>1. ExistsOrder(acct.orders, updated.orderId)
      BY <1>2, <1>3, <1>6
    <3> HIDE DEF order
    <3> QED
      BY <1>1, <1>5, <1>6, <1>9, <3>1, OrderReplaced
  <2>5. CASE id = fill.orderId
    <3>1. GetOrder(after.orders, id) = updated /\ order = GetOrder(acct.orders, id)
      BY <1>3, <1>6, <2>4, <2>5
    <3> QED
      BY <1>6, <2>3, <2>5, <3>1
  <2>6. CASE id # fill.orderId
    <3>1. GetOrder(after.orders, id) = GetOrder(acct.orders, id)
      BY <1>3, <1>6, <2>4, <2>6
    <3> HIDE DEF order
    <3> QED
      BY <2>3, <2>6, <3>1
  <2> QED
    BY <2>3, <2>5, <2>6
<1> QED
  BY <1>1, <1>2, <1>4, <1>7, <1>8, <1>9

\* Whole cents are converted exactly.
LEMMA WholeCentsConverted ==
  ASSUME NEW n \in Int
  PROVE  /\ n % UnitsPerCent = 0 => FromDecimal(n) \in Int /\ n = 100 * FromDecimal(n)
         /\ (100 * n) % UnitsPerCent = 0 /\ FromDecimal(100 * n) = n
<1>1. ASSUME NEW m \in Int, m % 100 = 0
      PROVE  FromDecimal(m) = m \div 100 /\ m \div 100 \in Int /\ m = 100 * (m \div 100)
  BY <1>1 DEF FromDecimal, RoundHalfEven, UnitsPerCent
<1>2. 100 * n \in Int /\ (100 * n) % 100 = 0 /\ (100 * n) \div 100 = n
  OBVIOUS
<1>3. n % UnitsPerCent = 0 => FromDecimal(n) \in Int /\ n = 100 * FromDecimal(n)
  BY <1>1 DEF UnitsPerCent
<1>4. FromDecimal(100 * n) = n
  BY <1>1, <1>2
<1> QED
  BY <1>2, <1>3, <1>4 DEF UnitsPerCent

\* Cash of whole cents that an execution moves, before and after the conversion.
LEMMA CashConverted ==
  ASSUME NEW n \in Int, NEW p \in Int, NEW q \in Int,
         n % UnitsPerCent = 0, p % UnitsPerCent = 0
  PROVE  /\ (n - q * p) % UnitsPerCent = 0
         /\ FromDecimal(n - q * p) = FromDecimal(n) - q * FromDecimal(p)
<1> DEFINE c == FromDecimal(n)
           m == FromDecimal(p)
<1>1. c \in Int /\ m \in Int /\ n = 100 * c /\ p = 100 * m
  BY WholeCentsConverted
<1> HIDE DEF c, m
<1>2. q * m \in Int /\ q * p = 100 * (q * m)
  BY <1>1
<1>3. c - q * m \in Int /\ n - q * p = 100 * (c - q * m)
  BY <1>1, <1>2
<1>4. (n - q * p) % UnitsPerCent = 0 /\ FromDecimal(n - q * p) = c - q * m
  BY <1>3, WholeCentsConverted
<1> QED
  BY <1>4 DEF c, m

-----------------------------------------------------------------------------
(* The broker's moves *)

Agreed == HoldingsAgree /\ CashAgrees /\ FillsAgree /\ LiveKnown

\* A subscribed worker listens, in step with the broker.
LEMMA SubscribedInStep ==
  ASSUME AgreeInv, connected
  PROVE  daemon.pc = "stream" /\ InStep /\ Agreed
<1>1. daemon.pc = "stream"
  BY DEF AgreeInv, LineInv
<1> QED
  BY <1>1 DEF AgreeInv, InStep, Agreed

\* What a worker that listens and goes on listening has to keep.
LEMMA ListensOn ==
  ASSUME daemon'.pc = "stream", HeardInv', AcceptedInv', (cash % UnitsPerCent = 0)',
         InStep' => Agreed'
  PROVE  AgreeInv'
<1>1. LineInv' /\ ReadInv'
  BY DEF LineInv, ReadInv, SyncSteps
<1> QED
  BY <1>1 DEF AgreeInv, Agreed

\* No order is filled meanwhile and none comes to life.
BookSteady ==
  /\ DOMAIN book' = DOMAIN book
  /\ \A k \in DOMAIN book :
       book'[k].filled_qty = book[k].filled_qty /\ (IsLive(book'[k]) => IsLive(book[k]))

\* While nothing is paid, moved or filled on either side, and what is in flight
\* stays, the agreement stays.
LEMMA StaysAgreed ==
  ASSUME Agreed, Tracks(orderIds, account, book), UserInv,
         BookSteady, SameBalances(account, account'), InFlight' = InFlight,
         UNCHANGED << shares, cash, orderIds, user >>
  PROVE  Agreed'
<1>1. HoldingsAgree'
  BY DEF Agreed, HoldingsAgree, SameBalances
<1>2. CashAgrees'
  BY DEF Agreed, CashAgrees, SameBalances
<1>3. FillsAgree'
  <2>1. ASSUME NEW key \in DOMAIN orderIds
        PROVE  book'[key].filled_qty =
                 GetOrder(account'.orders, orderIds[key]).filledQuantity + Filled(InFlight, key)
    <3>1. key \in DOMAIN book /\ ExistsOrder(account.orders, orderIds[key])
      BY DEF Tracks
    <3>2. book'[key].filled_qty = book[key].filled_qty
      BY <3>1 DEF BookSteady
    <3>3. GetOrder(account'.orders, orderIds[key]).filledQuantity
            = GetOrder(account.orders, orderIds[key]).filledQuantity
      BY <3>1 DEF SameBalances
    <3> QED
      BY <3>2, <3>3 DEF Agreed, FillsAgree
  <2>2. ASSUME user.pc = "accepted"
        PROVE  book'[user.key].filled_qty = Filled(InFlight, user.key)
    BY <2>2 DEF UserInv, BookSteady, Agreed, FillsAgree
  <2> QED
    BY <2>1, <2>2 DEF FillsAgree
<1>4. LiveKnown'
  BY DEF Agreed, LiveKnown, Known, BookSteady
<1> QED
  BY <1>1, <1>2, <1>3, <1>4 DEF Agreed

\* Updates lost, repeated or in another order are still of orders the client knows.
LEMMA HeardFewer ==
  ASSUME HeardInv, Range(queue') \subseteq Range(queue), Grows(book, book'),
         \A key : Known(key) => Known(key)'
  PROVE  HeardInv'
<1>1. ASSUME NEW u \in Range(queue') PROVE IsCopy(u.order, book') /\ Known(u.order.id)'
  <2>1. IsCopy(u.order, book) /\ Known(u.order.id)
    BY DEF HeardInv
  <2> QED
    BY <2>1, CopyMoved
<1>2. OneOfEach(queue')
  BY DEF HeardInv, OneOfEach
<1> QED
  BY <1>1, <1>2 DEF HeardInv

\* A new update of an order the client knows.
LEMMA HeardOneMore ==
  ASSUME BrokerInv, HeardInv, Grows(book, book'), NEW u \in Update(executions'),
         executions' \in Nat, executions <= executions',
         queue' = Append(queue, u), IsCopy(u.order, book'), Known(u.order.id)',
         \A key : Known(key) => Known(key)',
         IsFillUpdate(u) => u.execution_id > executions
  PROVE  HeardInv' /\ Range(queue') = Range(queue) \cup {u}
<1>1. queue \in Seq(Update(executions)) /\ executions \in Nat
  BY DEF BrokerInv
<1>2. queue \in Seq(Update(executions'))
  BY <1>1, UpdatesGrow
<1>3. Range(queue') = Range(queue) \cup {u}
  BY <1>2, ListElements
<1>4. ASSUME NEW v \in Range(queue) PROVE v.execution_id \in 0 .. executions
  <2>1. v \in Update(executions)
    BY <1>1, ListElements
  <2> QED
    BY <1>1, <2>1, UpdateFields
<1>5. ASSUME NEW v \in Range(queue) PROVE IsCopy(v.order, book') /\ Known(v.order.id)'
  <2>1. IsCopy(v.order, book) /\ Known(v.order.id)
    BY DEF HeardInv
  <2> QED
    BY <2>1, CopyMoved
<1>6. ASSUME NEW v \in Range(queue), IsFillUpdate(u)
      PROVE  v.execution_id # u.execution_id
  <2>1. u.execution_id > executions /\ u.execution_id \in Int
    BY <1>6, UpdateFields
  <2> QED
    BY <1>1, <1>4, <2>1
<1>7. OneOfEach(queue')
  BY <1>3, <1>6 DEF HeardInv, OneOfEach
<1>8. \A v \in Range(queue') : IsCopy(v.order, book') /\ Known(v.order.id)'
  BY <1>3, <1>5
<1> QED
  BY <1>3, <1>7, <1>8 DEF HeardInv

\* What a subscriber is sent.
LEMMA SentUpdate ==
  ASSUME connected, executions' \in Nat,
         NEW order \in BrokerOrder, NEW quantity \in Nat, NEW event \in Events,
         event \in {"partial_fill", "fill"} => executions' > 0,
         Publish(event, order, quantity)
  PROVE  \E u \in Update(executions') :
           /\ queue' = Append(queue, u)
           /\ u.order = order /\ u.qty = quantity /\ u.event = event
           /\ u.execution_id = executions'
           /\ IsFillUpdate(u) <=> event \in {"partial_fill", "fill"}
<1> DEFINE n == executions'
           u == [event |-> event, order |-> order, qty |-> quantity,
                 price |-> Price, execution_id |-> n]
<1>1. queue' = Append(queue, u)
  BY DEF Publish
<1>2. n \in 0 .. n /\ (event \in {"partial_fill", "fill"} => n > 0)
  OBVIOUS
<1> HIDE DEF n
<1>3. u \in [event : Events, order : BrokerOrder, qty : Nat, price : {Price},
             execution_id : 0 .. n]
  BY <1>2
<1>4. /\ u.order = order /\ u.qty = quantity /\ u.event = event /\ u.execution_id = n
      /\ IsFillUpdate(u) <=> event \in {"partial_fill", "fill"}
  BY DEF IsFillUpdate, TradeUpdateKind
<1> HIDE DEF u
<1>5. u \in Update(n)
  BY <1>2, <1>3, <1>4 DEF Update
<1> QED
  BY <1>1, <1>4, <1>5 DEF n

\* An update of a move without an execution is sent, and adds nothing in flight.
LEMMA MoveSent ==
  ASSUME IInv, connected, UNCHANGED clientVars, NEW k \in DOMAIN book,
         NEW status \in {"new", "rejected", "pending_cancel", "canceled", "done_for_day"},
         Move(k, [book[k] EXCEPT !.status = status], status)
  PROVE  /\ InFlight' = InFlight
         /\ \E u \in Update(executions') :
              /\ queue' = Append(queue, u) /\ ~IsFillUpdate(u)
              /\ u.order = [book[k] EXCEPT !.status = status] /\ u.event = status
<1> DEFINE order == [book[k] EXCEPT !.status = status]
<1>1. order \in BrokerOrder
  <2>1. status \in BrokerStatuses
    BY DEF BrokerStatuses, LiveStatuses
  <2>2. /\ book[k] \in BrokerOrder
        /\ book[k].filled_qty \in Nat /\ book[k].filled_qty <= book[k].qty
    BY BookFields, BrokerOrderFields DEF IInv
  <2> QED
    BY <2>1, <2>2, BrokerOrderMoved DEF BrokerOrder
<1>2. executions' = executions /\ Publish(status, order, 0)
  BY DEF Move
<1> HIDE DEF order
<1>3. executions' \in Nat /\ queue \in Seq(Update(executions'))
  BY <1>2 DEF IInv, BrokerInv
<1>4. status \in Events /\ status \notin {"partial_fill", "fill"} /\ 0 \in Nat
  BY DEF Events
<1>5. PICK u \in Update(executions') :
        queue' = Append(queue, u) /\ u.order = order /\ ~IsFillUpdate(u) /\ u.event = status
  <2>1. \E u \in Update(executions') :
          queue' = Append(queue, u) /\ u.order = order /\ u.event = status
    <3> DEFINE ev == status
               none == 0
    <3>1. /\ Publish(ev, order, none) /\ ev \in Events /\ none \in Nat
          /\ ev \in {"partial_fill", "fill"} => executions' > 0
      BY <1>2, <1>4
    <3> HIDE DEF ev, none
    <3>2. \E u \in Update(executions') :
            queue' = Append(queue, u) /\ u.order = order /\ u.event = ev
      BY ONLY connected, <1>1, <1>3, <3>1, SentUpdate
    <3> QED
      BY <3>2 DEF ev
  <2> QED
    BY <1>4, <2>1 DEF IsFillUpdate, TradeUpdateKind
<1>6. FlightOf(queue', seen) = FlightOf(queue, seen)
  BY <1>3, <1>5, FlightAppended
<1>7. seen' = seen
  BY DEF clientVars
<1>8. InFlight' = InFlight
  BY <1>6, <1>7 DEF InFlight, FlightOf, IsNewExecution
<1> QED
  BY <1>5, <1>8 DEF order

\* A move without an execution tells the client and changes none of its balances.
LEMMA MoveAgrees ==
  ASSUME IInv, AgreeInv, connected, UNCHANGED clientVars,
         NEW k \in DOMAIN book, IsLive(book[k]),
         NEW status \in {"new", "rejected", "pending_cancel", "canceled", "done_for_day"},
         Move(k, [book[k] EXCEPT !.status = status], status)
  PROVE  AgreeInv'
<1> DEFINE order == [book[k] EXCEPT !.status = status]
<1>1. order \in BrokerOrder /\ SameInstruction(book[k], order)
      /\ order.filled_qty = book[k].filled_qty
  <2>1. status \in BrokerStatuses
    BY DEF BrokerStatuses, LiveStatuses
  <2>2. /\ book[k] \in BrokerOrder
        /\ book[k].filled_qty \in Nat /\ book[k].filled_qty <= book[k].qty
    BY BookFields, BrokerOrderFields DEF IInv
  <2> QED
    BY <2>1, <2>2, BrokerOrderMoved DEF BrokerOrder
<1>2. /\ book' = [book EXCEPT ![k] = order]
      /\ shares' = shares /\ cash' = cash /\ executions' = executions /\ connected' = connected
      /\ Publish(status, order, 0)
  BY DEF Move
<1> HIDE DEF order
<1>3. daemon.pc = "stream" /\ Agreed /\ HeardInv /\ AcceptedInv /\ cash % UnitsPerCent = 0
  BY SubscribedInStep DEF AgreeInv
<1>4. /\ account' = account /\ orderIds' = orderIds /\ user' = user /\ daemon' = daemon
      /\ seen' = seen
  BY DEF clientVars
<1>5. executions \in Nat /\ executions' \in Nat /\ executions <= executions'
  BY <1>2 DEF IInv, BrokerInv
<1>6. status \in Events /\ status \notin {"partial_fill", "fill"} /\ 0 \in Nat
  BY DEF Events
<1>7. PICK u \in Update(executions') :
        queue' = Append(queue, u) /\ u.order = order /\ ~IsFillUpdate(u)
  BY MoveSent DEF order
<1>8. book \in Seq(BrokerOrder) /\ order.id = k
  BY <1>1, BookFields DEF IInv, BrokerInv, SameInstruction
<1>9. Grows(book, book') /\ IsCopy(order, book')
  <2>1. Grows(book, book')
    BY <1>1, <1>2, ReplacedInBook DEF IInv
  <2>2. k \in DOMAIN book' /\ book'[k] = order
    BY <1>2, <1>8
  <2> QED
    BY <1>8, <2>1, <2>2 DEF IsCopy, SameInstruction
<1>10. BookSteady
  BY <1>1, <1>2, <1>8 DEF BookSteady
<1>11. \A key : Known(key) <=> Known(key)'
  BY <1>4 DEF Known
<1>12. Known(k)
  BY <1>3 DEF Agreed, LiveKnown
<1>13. HeardInv'
  BY <1>3, <1>5, <1>6, <1>7, <1>8, <1>9, <1>11, <1>12, HeardOneMore DEF IInv
<1>14. InFlight' = InFlight
  BY MoveSent
<1>15. Agreed'
  <2>1. Tracks(orderIds, account, book) /\ UserInv /\ SameBalances(account, account')
    BY <1>4 DEF IInv, ClientInv, SameBalances
  <2> QED
    BY <1>2, <1>3, <1>4, <1>10, <1>14, <2>1, StaysAgreed
<1>16. AcceptedInv' /\ daemon'.pc = "stream" /\ (cash % UnitsPerCent = 0)'
  BY <1>2, <1>3, <1>4 DEF AcceptedInv
<1> QED
  BY <1>13, <1>15, <1>16, ListensOn

\* An execution that a subscriber is told of.
LEMMA Executed ==
  ASSUME BrokerInv, NEW k \in DOMAIN book, Execute(k), connected
  PROVE  \E u \in Update(executions') :
           /\ IsLive(book[k])
           /\ IsFillUpdate(u) /\ u.execution_id = executions + 1 /\ u.qty > 0
           /\ SameInstruction(book[k], u.order)
           /\ u.order.filled_qty = book[k].filled_qty + u.qty
           /\ u.qty <= Remaining(book[k])
           /\ book' = [book EXCEPT ![k] = u.order]
           /\ shares' = [shares EXCEPT ![u.order.symbol] = shares[u.order.symbol] + Signed(u)]
           /\ cash' = cash - Signed(u) * Price
           /\ executions' = executions + 1 /\ connected' = connected
           /\ queue' = Append(queue, u)
           /\ u.order.status = IF Remaining(book[k]) = u.qty THEN "filled"
                               ELSE IF book[k].status = "pending_cancel" THEN "pending_cancel"
                               ELSE "partially_filled"
<1>1. /\ book[k] \in BrokerOrder /\ book[k].qty \in Nat /\ book[k].filled_qty \in Nat
      /\ book[k].symbol \in Symbols
  BY BookFields, BrokerOrderFields
<1>2. PICK n \in 1 .. Remaining(book[k]) :
        LET done   == Remaining(book[k]) = n
            signed == IF book[k].side = "buy" THEN n ELSE 0 - n
            order  == [book[k] EXCEPT !.filled_qty = book[k].filled_qty + n,
                                      !.status = IF done THEN "filled"
                                                 ELSE IF book[k].status = "pending_cancel"
                                                 THEN "pending_cancel"
                                                 ELSE "partially_filled"]
        IN  /\ book' = [book EXCEPT ![k] = order]
            /\ shares' = [shares EXCEPT ![order.symbol] = shares[order.symbol] + signed]
            /\ cash' = cash - signed * Price
            /\ executions' = executions + 1
            /\ UNCHANGED connected
            /\ Publish(IF done THEN "fill" ELSE "partial_fill", order, n)
  BY DEF Execute
<1> DEFINE done   == Remaining(book[k]) = n
           signed == IF book[k].side = "buy" THEN n ELSE 0 - n
           filled == book[k].filled_qty + n
           status == IF done THEN "filled"
                     ELSE IF book[k].status = "pending_cancel" THEN "pending_cancel"
                     ELSE "partially_filled"
           order  == [book[k] EXCEPT !.filled_qty = filled, !.status = status]
           event  == IF done THEN "fill" ELSE "partial_fill"
<1>3. /\ n \in Nat /\ n > 0 /\ n <= Remaining(book[k])
      /\ signed \in Int /\ filled \in Nat /\ filled <= book[k].qty
  BY <1>1 DEF Remaining
<1>4. status \in BrokerStatuses /\ event \in Events /\ event \in {"partial_fill", "fill"}
  <2>1. {"filled", "pending_cancel", "partially_filled"} \subseteq BrokerStatuses
    BY DEF BrokerStatuses, LiveStatuses
  <2>2. status \in {"filled", "pending_cancel", "partially_filled"}
    BY Zenon
  <2>3. event \in {"partial_fill", "fill"}
    BY Zenon
  <2>4. {"partial_fill", "fill"} \subseteq Events
    BY DEF Events
  <2> QED
    BY <2>1, <2>2, <2>3, <2>4
<1>5. /\ book' = [book EXCEPT ![k] = order]
      /\ shares' = [shares EXCEPT ![order.symbol] = shares[order.symbol] + signed]
      /\ cash' = cash - signed * Price
      /\ executions' = executions + 1
      /\ connected' = connected
      /\ Publish(event, order, n)
  BY <1>2
<1>6. order.side = book[k].side
  BY <1>1 DEF BrokerOrder
<1> HIDE DEF filled, status, event
<1>7. order.filled_qty = filled /\ order.status = status
  BY <1>1 DEF BrokerOrder
<1>8. order \in BrokerOrder /\ SameInstruction(book[k], order)
  BY <1>1, <1>3, <1>4, BrokerOrderMoved
<1> HIDE DEF order, done
<1>9. executions' \in Nat /\ executions' > 0
  BY <1>5 DEF BrokerInv
<1>10. PICK u \in Update(executions') :
         /\ queue' = Append(queue, u) /\ u.order = order /\ u.qty = n
         /\ u.execution_id = executions' /\ IsFillUpdate(u)
  BY <1>3, <1>4, <1>5, <1>8, <1>9, SentUpdate
<1>11. Signed(u) = signed
  BY <1>6, <1>10 DEF Signed
<1>12. IsLive(book[k])
  BY DEF Execute
<1>13. status = IF Remaining(book[k]) = n THEN "filled"
                ELSE IF book[k].status = "pending_cancel" THEN "pending_cancel"
                ELSE "partially_filled"
  BY DEF status, done
<1> HIDE DEF signed
<1> WITNESS u \in Update(executions')
<1> QED
  BY <1>3, <1>5, <1>7, <1>8, <1>10, <1>11, <1>12, <1>13 DEF filled

\* An execution that is sent is one more in flight.
LEMMA ExecutionSent ==
  ASSUME IInv, UNCHANGED clientVars, NEW u \in Update(executions'), IsFillUpdate(u),
         executions' = executions + 1, u.execution_id = executions + 1,
         queue' = Append(queue, u)
  PROVE  /\ InFlight \in SUBSET Update(executions') /\ IsFiniteSet(InFlight)
         /\ u \notin InFlight /\ InFlight' = InFlight \cup {u}
<1>1. /\ executions \in Nat /\ executions' \in Nat /\ executions <= executions'
      /\ executions' > executions /\ seen \subseteq 1 .. executions /\ seen' = seen
  BY DEF IInv, BrokerInv, ClientInv, ExecutionsInv, clientVars
<1>2. /\ InFlight \in SUBSET Update(executions) /\ IsFiniteSet(InFlight)
      /\ queue \in Seq(Update(executions))
  BY InFlightType DEF IInv, BrokerInv
<1>3. \A v \in Update(executions) : v \in Update(executions')
  BY <1>1 DEF Update
<1>4. u \notin InFlight
  <2>1. ASSUME u \in Update(executions) PROVE FALSE
    <3>1. u.execution_id \in 0 .. executions
      BY <1>1, <2>1, UpdateFields
    <3> QED
      BY <1>1, <3>1
  <2> QED
    BY <1>2, <2>1
<1>5. u.execution_id \notin seen
  BY <1>1
<1>6. queue \in Seq(Update(executions'))
  BY <1>1, <1>2, UpdatesGrow
<1>7. FlightOf(queue', seen) = FlightOf(queue, seen) \cup {u}
  BY <1>5, <1>6, FlightAppended
<1>8. InFlight' = InFlight \cup {u}
  BY <1>1, <1>7 DEF InFlight, FlightOf, IsNewExecution
<1> QED
  BY <1>2, <1>3, <1>4, <1>8

\* An execution moves the broker's balances and what is in flight alike.
LEMMA ExecuteAgrees ==
  ASSUME WholeCents, IInv, AgreeInv, connected, UNCHANGED clientVars,
         NEW k \in DOMAIN book, Execute(k)
  PROVE  AgreeInv'
<1>1. PICK u \in Update(executions') :
        /\ IsLive(book[k])
        /\ IsFillUpdate(u) /\ u.execution_id = executions + 1 /\ u.qty > 0
        /\ SameInstruction(book[k], u.order)
        /\ u.order.filled_qty = book[k].filled_qty + u.qty
        /\ book' = [book EXCEPT ![k] = u.order]
        /\ shares' = [shares EXCEPT ![u.order.symbol] = shares[u.order.symbol] + Signed(u)]
        /\ cash' = cash - Signed(u) * Price
        /\ executions' = executions + 1 /\ connected' = connected
        /\ queue' = Append(queue, u)
  BY Executed DEF IInv
<1>2. daemon.pc = "stream" /\ Agreed /\ HeardInv /\ AcceptedInv /\ cash % UnitsPerCent = 0
  BY SubscribedInStep DEF AgreeInv
<1>3. /\ account' = account /\ orderIds' = orderIds /\ user' = user /\ daemon' = daemon
      /\ seen' = seen
  BY DEF clientVars
<1>4. /\ executions \in Nat /\ executions' \in Nat /\ executions <= executions'
      /\ executions' > executions
  BY <1>1 DEF IInv, BrokerInv
<1>5. /\ book \in Seq(BrokerOrder) /\ book[k].id = k /\ u.order.id = k
      /\ shares \in [Symbols -> Int] /\ cash \in Int /\ seen \subseteq 1 .. executions
  BY <1>1, BookFields DEF IInv, BrokerInv, SameInstruction, ClientInv, ExecutionsInv
<1>6. /\ u.order \in BrokerOrder /\ u.order.symbol \in Symbols /\ u.qty \in Nat
      /\ Signed(u) \in Int
  BY <1>4, UpdateFields
<1>7. /\ DOMAIN book' = DOMAIN book
      /\ \A i \in DOMAIN book : book'[i] = IF i = k THEN u.order ELSE book[i]
  BY <1>1, <1>5
<1>8. Grows(book, book') /\ IsCopy(u.order, book')
  <2>1. Grows(book, book')
    BY <1>1, <1>6, ReplacedInBook DEF IInv
  <2> QED
    BY <1>5, <1>7, <2>1 DEF IsCopy, SameInstruction
<1>9. \A key : Known(key) <=> Known(key)'
  BY <1>3 DEF Known
<1>10. Known(k)
  BY <1>1, <1>2 DEF Agreed, LiveKnown
<1>11. HeardInv'
  <2>1. u.execution_id > executions
    BY <1>1, <1>4
  <2> QED
    BY <1>1, <1>2, <1>4, <1>5, <1>8, <1>9, <1>10, <2>1, HeardOneMore DEF IInv
<1>12. /\ InFlight \in SUBSET Update(executions') /\ IsFiniteSet(InFlight)
       /\ u \notin InFlight /\ InFlight' = InFlight \cup {u}
  BY <1>1, ExecutionSent
<1>13. /\ \A symbol : Moved(InFlight', symbol)
                        = Moved(InFlight, symbol)
                            + (IF u.order.symbol = symbol THEN Signed(u) ELSE 0)
       /\ Paid(InFlight') = Paid(InFlight) + Signed(u) * FromDecimal(Price)
       /\ \A key : Filled(InFlight', key)
                     = Filled(InFlight, key) + (IF u.order.id = key THEN u.qty ELSE 0)
       /\ \A symbol : Moved(InFlight, symbol) \in Int
       /\ Paid(InFlight) \in Int
       /\ \A key : Filled(InFlight, key) \in Nat
  <2> DEFINE S == InFlight
             n == executions'
  <2>1. n \in Nat /\ S \in SUBSET Update(n) /\ IsFiniteSet(S) /\ u \in Update(n) /\ u \notin S
        /\ InFlight' = S \cup {u}
    BY <1>4, <1>12
  <2> HIDE DEF S, n
  <2>2. /\ \A symbol : Moved(S \cup {u}, symbol)
                         = Moved(S, symbol)
                              + (IF u.order.symbol = symbol THEN Signed(u) ELSE 0)
        /\ Paid(S \cup {u}) = Paid(S) + Signed(u) * FromDecimal(Price)
        /\ \A key : Filled(S \cup {u}, key)
                       = Filled(S, key) + (IF u.order.id = key THEN u.qty ELSE 0)
    BY <2>1, OneMoreInFlight
  <2>3. /\ \A symbol : Moved(S, symbol) \in Int
        /\ Paid(S) \in Int
        /\ \A key : Filled(S, key) \in Nat
    BY <2>1, TotalsType
  <2> QED
    BY <2>1, <2>2, <2>3 DEF S
<1>14. HoldingsAgree'
  <2> SUFFICES ASSUME NEW symbol \in Symbols
               PROVE  shares'[symbol] = Held(account.positions, symbol) + Moved(InFlight', symbol)
    BY <1>3 DEF HoldingsAgree
  <2>1. shares[symbol] = Held(account.positions, symbol) + Moved(InFlight, symbol)
    BY <1>2 DEF Agreed, HoldingsAgree
  <2>2. Held(account.positions, symbol) \in Int
    <3>1. account.positions \in Seq(Position)
      BY <1>2, FieldsOfAccount DEF IInv, ClientInv, DaemonInv, TradedAccount
    <3>2. Held(account.positions, symbol) \in Nat
      BY <3>1, HeldType
    <3> QED
      BY <3>2
  <2>3. shares'[symbol] = shares[symbol] + (IF u.order.symbol = symbol THEN Signed(u) ELSE 0)
    BY <1>1, <1>5, <1>6
  <2>4. Moved(InFlight', symbol) = Moved(InFlight, symbol)
          + (IF u.order.symbol = symbol THEN Signed(u) ELSE 0) /\ Moved(InFlight, symbol) \in Int
    BY <1>13
  <2> QED
    BY <1>6, <2>1, <2>2, <2>3, <2>4
<1>15. CashAgrees' /\ (cash % UnitsPerCent = 0)'
  <2> DEFINE q == Signed(u)
             p == FromDecimal(Price)
             c == FromDecimal(cash)
             s == Paid(InFlight)
             a == account.cash
  <2>1. Price \in Int /\ Price % UnitsPerCent = 0 /\ cash % UnitsPerCent = 0
    BY <1>2, InputAssumption DEF WholeCents
  <2>2. cash' % UnitsPerCent = 0 /\ FromDecimal(cash') = FromDecimal(cash) - q * FromDecimal(Price)
    BY <1>1, <1>5, <1>6, <2>1, CashConverted
  <2>3. c = a - s /\ q \in Int /\ p \in Int /\ s \in Int /\ Paid(InFlight') = s + q * p
    BY <1>2, <1>6, <1>13, PriceInCents DEF Agreed, CashAgrees
  <2>4. FromDecimal(cash') = c - q * p /\ q * p \in Int
    BY <2>2, <2>3
  <2>5. a \in Int
    BY <1>2, FieldsOfAccount DEF IInv, ClientInv, DaemonInv, TradedAccount
  <2> HIDE DEF q, p, c, s, a
  <2>6. FromDecimal(cash') = a - (s + q * p)
    BY <2>3, <2>4, <2>5
  <2> QED
    BY <1>3, <2>2, <2>3, <2>6 DEF CashAgrees, a
<1>16. FillsAgree'
  <2>1. ASSUME NEW key \in DOMAIN book, NEW filled \in Nat,
               book[key].filled_qty = filled + Filled(InFlight, key)
        PROVE  book'[key].filled_qty = filled + Filled(InFlight', key)
    <3>1. Filled(InFlight, key) \in Nat /\ Filled(InFlight', key)
            = Filled(InFlight, key) + (IF k = key THEN u.qty ELSE 0)
      BY <1>5, <1>13
    <3>2. CASE key = k
      <4>1. book'[key].filled_qty = book[key].filled_qty + u.qty
        BY <1>1, <1>7, <3>2
      <4> QED
        BY <1>6, <2>1, <3>1, <3>2, <4>1
    <3>3. CASE key # k
      <4>1. book'[key].filled_qty = book[key].filled_qty
        BY <1>7, <3>3
      <4> QED
        BY <2>1, <3>1, <3>3, <4>1
    <3> QED
      BY <3>2, <3>3
  <2>2. ASSUME NEW key \in DOMAIN orderIds
        PROVE  book'[key].filled_qty = GetOrder(account.orders, orderIds[key]).filledQuantity
                 + Filled(InFlight', key)
    <3>1. key \in DOMAIN book /\ ExistsOrder(account.orders, orderIds[key])
      BY DEF IInv, ClientInv, Tracks
    <3>2. GetOrder(account.orders, orderIds[key]).filledQuantity \in Nat
      <4>1. account.orders \in Seq(Order)
        BY <1>2, FieldsOfAccount DEF IInv, ClientInv, DaemonInv, TradedAccount
      <4>2. GetOrder(account.orders, orderIds[key]) \in Order
        BY <3>1, <4>1, OrderFound DEF GetOrder
      <4> QED
        BY <4>2 DEF Order
    <3>3. book[key].filled_qty = GetOrder(account.orders, orderIds[key]).filledQuantity
            + Filled(InFlight, key)
      BY <1>2 DEF Agreed, FillsAgree
    <3> QED
      BY <2>1, <3>1, <3>2, <3>3
  <2>3. ASSUME user.pc = "accepted"
        PROVE  book'[user.key].filled_qty = Filled(InFlight', user.key)
    <3>1. user.key \in DOMAIN book /\ book[user.key].filled_qty = Filled(InFlight, user.key)
      BY <1>2, <2>3 DEF IInv, ClientInv, UserInv, Agreed, FillsAgree
    <3>2. Filled(InFlight, user.key) \in Nat /\ Filled(InFlight', user.key) \in Int
      <4>1. Filled(InFlight, user.key) \in Nat
              /\ Filled(InFlight', user.key) = Filled(InFlight, user.key)
                   + (IF u.order.id = user.key THEN u.qty ELSE 0)
        BY <1>13
      <4> QED
        BY <1>6, <4>1
    <3>3. book'[user.key].filled_qty = 0 + Filled(InFlight', user.key)
      BY <2>1, <3>1, <3>2
    <3> QED
      BY <3>2, <3>3
  <2> QED
    BY <1>3, <2>2, <2>3 DEF FillsAgree
<1>17. LiveKnown'
  <2>1. ASSUME NEW i \in DOMAIN book, IsLive(book'[i]) PROVE Known(i)
    <3>1. i # k => book'[i] = book[i]
      BY <1>7
    <3> QED
      BY <1>2, <1>10, <2>1, <3>1 DEF Agreed, LiveKnown
  <2> QED
    BY <1>7, <1>9, <2>1 DEF LiveKnown
<1>18. AcceptedInv' /\ daemon'.pc = "stream"
  BY <1>2, <1>3 DEF AcceptedInv
<1> QED
  BY <1>11, <1>14, <1>15, <1>16, <1>17, <1>18, ListensOn DEF Agreed

\* The stream cut, an update repeated, two exchanged.
LEMMA FaultyElements ==
  ASSUME NEW T, queue \in Seq(T)
  PROVE  /\ Disconnect => Range(queue') \subseteq Range(queue)
         /\ Duplicate \/ Reorder => Range(queue') = Range(queue)
<1>1. ASSUME Disconnect PROVE Range(queue') \subseteq Range(queue)
  <2>1. PICK n \in 0 .. Len(queue) : queue' = SubSeq(queue, 1, n)
    BY <1>1 DEF Disconnect
  <2>2. /\ DOMAIN queue' = 1 .. n /\ 1 .. n \subseteq DOMAIN queue
        /\ \A i \in 1 .. n : queue'[i] = queue[i]
    BY <2>1
  <2> QED
    BY <2>2 DEF Range
<1>2. ASSUME Duplicate PROVE Range(queue') = Range(queue)
  <2>1. PICK i \in DOMAIN queue : queue' = Append(queue, queue[i])
    BY <1>2 DEF Duplicate
  <2>2. queue[i] \in T /\ queue[i] \in Range(queue)
    BY <2>1 DEF Range
  <2>3. Range(queue') = Range(queue) \cup {queue[i]}
    BY <2>1, <2>2, ListElements
  <2> QED
    BY <2>2, <2>3
<1>3. ASSUME Reorder PROVE Range(queue') = Range(queue)
  <2>1. PICK i \in 1 .. Len(queue) - 1 :
          queue' = [queue EXCEPT ![i] = queue[i + 1], ![i + 1] = queue[i]]
    BY <1>3 DEF Reorder
  <2>2. /\ i \in DOMAIN queue /\ i + 1 \in DOMAIN queue /\ i # i + 1
        /\ DOMAIN queue' = DOMAIN queue
    BY <2>1
  <2>3. \A j \in DOMAIN queue :
          queue'[j] = IF j = i + 1 THEN queue[i] ELSE IF j = i THEN queue[i + 1] ELSE queue[j]
    BY <2>1, <2>2
  <2> DEFINE k == i + 1
  <2>4. /\ i \in DOMAIN queue /\ k \in DOMAIN queue /\ i # k
        /\ \A j \in DOMAIN queue :
             queue'[j] = IF j = k THEN queue[i] ELSE IF j = i THEN queue[k] ELSE queue[j]
    BY <2>2, <2>3
  <2> HIDE DEF k
  <2>5. \A x \in Range(queue) : x \in Range(queue')
    <3> SUFFICES ASSUME NEW j \in DOMAIN queue PROVE queue[j] \in Range(queue')
      BY DEF Range
    <3>1. queue[j] = IF j = k THEN queue'[i] ELSE IF j = i THEN queue'[k] ELSE queue'[j]
      BY <2>4
    <3> QED
      BY <2>2, <2>4, <3>1 DEF Range
  <2>6. \A x \in Range(queue') : x \in Range(queue)
    BY <2>2, <2>4 DEF Range
  <2> QED
    BY <2>5, <2>6
<1> QED
  BY <1>1, <1>2, <1>3

\* A fault of the stream loses updates, and then the client does not listen any
\* more, or repeats or exchanges some.
LEMMA StreamFaultAgrees ==
  ASSUME IInv, AgreeInv, StreamFault
  PROVE  AgreeInv'
<1>1. connected /\ (Disconnect \/ Duplicate \/ Reorder) /\ UNCHANGED clientVars
  BY DEF StreamFault
<1>2. daemon.pc = "stream" /\ Agreed /\ HeardInv /\ AcceptedInv /\ cash % UnitsPerCent = 0
  BY <1>1, SubscribedInStep DEF AgreeInv
<1>3. /\ account' = account /\ orderIds' = orderIds /\ user' = user /\ daemon' = daemon
      /\ seen' = seen /\ UNCHANGED << book, shares, cash, executions >>
  BY <1>1 DEF clientVars, Disconnect, Duplicate, Reorder
<1>4. /\ Disconnect => Range(queue') \subseteq Range(queue)
      /\ Duplicate \/ Reorder => Range(queue') = Range(queue)
  BY FaultyElements DEF IInv, BrokerInv
<1>5. HeardInv'
  <2>1. Range(queue') \subseteq Range(queue)
    BY <1>1, <1>4
  <2>2. Grows(book, book') /\ \A key : Known(key) => Known(key)'
    BY <1>3, GrowsReflexive DEF Known
  <2> QED
    BY <1>2, <2>1, <2>2, HeardFewer
<1>6. InStep' => Agreed'
  <2>1. ASSUME Disconnect PROVE ~InStep'
    BY <1>2, <1>3, <2>1 DEF Disconnect, InStep
  <2>2. ASSUME Duplicate \/ Reorder PROVE Agreed'
    <3>1. InFlight' = InFlight
      BY <1>3, <1>4, <2>2 DEF InFlight, IsNewExecution
    <3>2. BookSteady /\ SameBalances(account, account')
      BY <1>3 DEF BookSteady, SameBalances
    <3> QED
      BY <1>2, <1>3, <3>1, <3>2, StaysAgreed DEF IInv, ClientInv
  <2> QED
    BY <1>1, <2>1, <2>2
<1> QED
  BY <1>2, <1>3, <1>5, <1>6, ListensOn DEF AcceptedInv

\* The broker's moves and the stream's faults.
LEMMA EnvironmentAgrees ==
  ASSUME QuietBroker, WholeCents, IInv, AgreeInv, BrokerMoves \/ OthersTrade \/ StreamFault
  PROVE  AgreeInv'
<1>1. CASE BrokerMoves
  <2>1. connected /\ UNCHANGED clientVars
    BY <1>1 DEF BrokerMoves, QuietBroker, Quiet
  <2>2. PICK k \in DOMAIN book :
          OpenOrder(k) \/ RejectOrder(k) \/ RequestCancel(k) \/ CancelOrder(k)
            \/ CloseDay(k) \/ Execute(k)
    BY <1>1 DEF BrokerMoves
  <2>3. CASE OpenOrder(k)
    <3>1. Move(k, [book[k] EXCEPT !.status = "new"], "new") /\ IsLive(book[k])
      BY <2>3 DEF OpenOrder, IsLive, LiveStatuses
    <3> QED
      BY <2>1, <3>1, MoveAgrees
  <2>4. CASE RejectOrder(k)
    <3>1. Move(k, [book[k] EXCEPT !.status = "rejected"], "rejected") /\ IsLive(book[k])
      BY <2>4 DEF RejectOrder, IsLive, LiveStatuses
    <3> QED
      BY <2>1, <3>1, MoveAgrees
  <2>5. CASE RequestCancel(k)
    <3>1. Move(k, [book[k] EXCEPT !.status = "pending_cancel"], "pending_cancel")
          /\ IsLive(book[k])
      BY <2>5 DEF RequestCancel, IsLive, LiveStatuses
    <3> QED
      BY <2>1, <3>1, MoveAgrees
  <2>6. CASE CancelOrder(k)
    <3>1. Move(k, [book[k] EXCEPT !.status = "canceled"], "canceled") /\ IsLive(book[k])
      BY <2>6 DEF CancelOrder
    <3> QED
      BY <2>1, <3>1, MoveAgrees
  <2>7. CASE CloseDay(k)
    <3>1. Move(k, [book[k] EXCEPT !.status = "done_for_day"], "done_for_day")
          /\ IsLive(book[k])
      BY <2>7 DEF CloseDay, IsLive, LiveStatuses
    <3> QED
      BY <2>1, <3>1, MoveAgrees
  <2> QED
    BY <2>1, <2>2, <2>3, <2>4, <2>5, <2>6, <2>7, ExecuteAgrees
<1>2. CASE OthersTrade
  BY <1>2 DEF OthersTrade, QuietBroker
<1> QED
  BY <1>1, <1>2, StreamFaultAgrees

-----------------------------------------------------------------------------
(* The caller *)

\* Nothing is in flight of an order that no update is of.
LEMMA NothingFilled ==
  ASSUME NEW n \in Nat, NEW S \in SUBSET Update(n), IsFiniteSet(S), NEW key,
         \A u \in S : u.order.id # key
  PROVE  Filled(S, key) = 0
<1> DEFINE D == {R \in SUBSET S : Filled(R, key) = 0}
<1>1. {} \in D
  BY NothingInFlight
<1>2. ASSUME NEW R \in SUBSET S, NEW u \in S \ R, R \in D
      PROVE  R \cup {u} \in D
  <2>1. IsFiniteSet(R) /\ R \in SUBSET Update(n) /\ u \in Update(n) /\ u \notin R
        /\ u.order.id # key /\ Filled(R, key) = 0
    BY <1>2, FS_Subset
  <2>2. Filled(R \cup {u}, key) = Filled(R, key) + (IF u.order.id = key THEN u.qty ELSE 0)
    BY <2>1, OneMoreInFlight, ZenonT(30)
  <2>3. Filled(R \cup {u}, key) = 0
    BY <2>1, <2>2
  <2> QED
    BY <1>2, <2>3
<1> HIDE DEF D
<1>3. SUBSET S \subseteq D
  BY <1>1, <1>2, SubsetInduction
<1> QED
  BY <1>3 DEF D

\* A step that leaves the broker, the account and what the worker has read.
LEMMA OnlyPlacesChange ==
  ASSUME IInv, AgreeInv, UNCHANGED << brokerVars, stateVars >>,
         daemon'.pc = daemon.pc, daemon'.within = daemon.within,
         daemon'.positions = daemon.positions, daemon'.orders = daemon.orders,
         user' = user \/ (user.pc # "accepted" /\ user'.pc # "accepted")
  PROVE  AgreeInv'
<1>1. /\ UNCHANGED << book, shares, cash, executions, connected, queue >>
      /\ UNCHANGED << account, orderIds, seen, nextExecutionId >>
  BY DEF brokerVars, stateVars
<1>2. LineInv'
  BY <1>1 DEF AgreeInv, LineInv
<1>3. ReadInv'
  BY <1>1 DEF AgreeInv, ReadInv, GetOpenOrders
<1>4. \A key : Known(key) <=> Known(key)'
  BY <1>1 DEF Known
<1>5. HeardInv'
  BY <1>1, <1>4, GrowsReflexive, HeardFewer DEF AgreeInv
<1>6. AcceptedInv'
  BY <1>1 DEF AgreeInv, AcceptedInv
<1>7. InFlight' = InFlight
  BY <1>1 DEF InFlight, IsNewExecution
<1>8. InStep' => InStep
  BY <1>1 DEF InStep
<1>9. HoldingsAgree => HoldingsAgree'
  BY <1>1, <1>7 DEF HoldingsAgree
<1>10. CashAgrees => CashAgrees'
  BY <1>1, <1>7 DEF CashAgrees
<1>11. FillsAgree => FillsAgree'
  BY <1>1, <1>7 DEF FillsAgree
<1>12. LiveKnown => LiveKnown'
  BY <1>1, <1>4 DEF LiveKnown
<1>13. (cash % UnitsPerCent = 0)'
  BY <1>1 DEF AgreeInv
<1> QED
  BY <1>2, <1>3, <1>5, <1>6, <1>8, <1>9, <1>10, <1>11, <1>12, <1>13 DEF AgreeInv

\* An order the broker has accepted is the client's business before it is tracked.
LEMMA BrokerAcceptsAgrees ==
  ASSUME IInv, AgreeInv, BrokerAccepts
  PROVE  AgreeInv'
<1> DEFINE raw == NewOrder(Len(book) + 1, NativeOrder(user.request), "pending_new")
           k   == Len(book')
<1>1. /\ user.pc = "calling" /\ book' = Append(book, raw)
      /\ user' = [user EXCEPT !.pc = "accepted", !.key = k]
      /\ UNCHANGED << shares, cash, executions, connected, queue >>
      /\ UNCHANGED << account, orderIds, seen, nextExecutionId, daemon >>
  BY DEF BrokerAccepts, EnterOrder, stateVars
<1>2. /\ user.request \in CallerRequest /\ PassesClientChecks(user.request)
      /\ daemon.pc \notin SyncSteps /\ EnterOrder(NativeOrder(user.request))
  BY <1>1 DEF IInv, ClientInv, UserInv, LockInv, BrokerAccepts
<1>3. Grows(book, book')
  BY <1>2, EntryGoesOn DEF IInv, BrokerGoesOn
<1>4. raw.filled_qty = 0
  BY DEF NewOrder
<1> HIDE DEF raw
<1>5. /\ k \notin DOMAIN book /\ DOMAIN book' = DOMAIN book \cup {k}
      /\ book'[k] = raw /\ \A i \in DOMAIN book : book'[i] = book[i]
  <2>1. book \in Seq(BrokerOrder)
    BY DEF IInv, BrokerInv
  <2> QED
    BY <1>1, <2>1
<1>6. user'.pc = "accepted" /\ user'.key = k
  BY <1>1 DEF IInv, ClientInv, UserInv
<1> HIDE DEF k
<1>7. \A key : Known(key)' <=> Known(key) \/ key = k
  BY <1>1, <1>6 DEF Known
<1>8. HeardInv'
  BY <1>1, <1>3, <1>7, HeardFewer DEF AgreeInv
<1>9. AcceptedInv'
  <2>1. DOMAIN orderIds \subseteq DOMAIN book
    BY DEF IInv, ClientInv, Tracks
  <2> QED
    BY <1>1, <1>5, <1>6, <2>1 DEF AcceptedInv
<1>10. LineInv' /\ ReadInv' /\ (cash % UnitsPerCent = 0)'
  BY <1>1, <1>2 DEF AgreeInv, LineInv, ReadInv, SyncSteps
<1>11. InFlight' = InFlight
  BY <1>1 DEF InFlight, IsNewExecution
<1>12. ASSUME InStep' PROVE Agreed'
  <2>1. Agreed
    BY <1>1, <1>12 DEF AgreeInv, InStep, Agreed
  <2>2. HoldingsAgree' /\ CashAgrees'
    BY <1>1, <1>11, <2>1 DEF Agreed, HoldingsAgree, CashAgrees
  <2>3. FillsAgree'
    <3>1. ASSUME NEW key \in DOMAIN orderIds
          PROVE  book'[key].filled_qty =
                   GetOrder(account.orders, orderIds[key]).filledQuantity
                     + Filled(InFlight, key)
      <4>1. key \in DOMAIN book
        BY DEF IInv, ClientInv, Tracks
      <4> QED
        BY <1>5, <2>1, <4>1 DEF Agreed, FillsAgree
    <3>2. book'[k].filled_qty = Filled(InFlight, k)
      <4>1. /\ InFlight \in SUBSET Update(executions) /\ IsFiniteSet(InFlight)
            /\ executions \in Nat /\ \A u \in InFlight : u \in Range(queue)
        BY InFlightType DEF IInv
      <4>2. \A u \in InFlight : u.order.id # k
        BY <1>5, <4>1 DEF AgreeInv, HeardInv, IsCopy
      <4>3. Filled(InFlight, k) = 0
        BY <4>1, <4>2, NothingFilled
      <4> QED
        BY <1>4, <1>5, <4>3
    <3> QED
      BY <1>1, <1>6, <1>11, <3>1, <3>2 DEF FillsAgree
  <2>4. LiveKnown'
    BY <1>5, <1>7, <2>1 DEF Agreed, LiveKnown
  <2> QED
    BY <2>2, <2>3, <2>4 DEF Agreed
<1> QED
  BY <1>8, <1>9, <1>10, <1>12 DEF AgreeInv, Agreed

\* The answer places one order, with nothing filled yet.
LEMMA OrderTracked ==
  ASSUME IInv, CallPlaceable, NEW status \in FirstStatus, Register(status)
  PROVE  /\ TradedAccount(account) /\ TradedAccount(account')
         /\ account'.cash = account.cash /\ account'.positions = account.positions
         /\ \A key \in DOMAIN orderIds :
              GetOrder(account'.orders, orderIds[key]).filledQuantity
                = GetOrder(account.orders, orderIds[key]).filledQuantity
         /\ \E id : /\ GetOrder(account'.orders, id).filledQuantity = 0
                    /\ orderIds' = [key \in DOMAIN orderIds \cup {user.key} |->
                                      IF key = user.key THEN id ELSE orderIds[key]]
<1> DEFINE raw    == book[user.key]
           id     == NextOrderId(account.orders)
           order  == ToVQCOrder(raw, id, 0, "pending")
           placed == PlaceOrderCore(account, order)
           ids    == [key \in DOMAIN orderIds \cup {user.key} |->
                        IF key = user.key THEN id ELSE orderIds[key]]
<1>1. user.pc = "accepted" /\ user' = Idle /\ UNCHANGED << brokerVars, seen, daemon >>
  BY DEF Register
<1>2. /\ TradedAccount(account) /\ user.key \in DOMAIN book /\ raw \in BrokerOrder
      /\ Tracks(orderIds, account, book) /\ Placeable(raw) /\ daemon.pc \notin SyncSteps
  BY <1>1, BookFields DEF IInv, ClientInv, UserInv, CallPlaceable, LockInv
<1>3. CanPlaceOrder(account, order)
  BY <1>2, PlaceableIsPlaced
<1>4. /\ account' = IF ResponseStatusApplies(status)
                    THEN ApplyStatus(placed, id, status) ELSE placed
      /\ orderIds' = ids
  BY <1>3 DEF Register
<1>5. /\ TradedAccount(placed) /\ ExistsOrder(placed.orders, id)
      /\ GetOrder(placed.orders, id) = order /\ Keeps(account.orders, placed.orders)
      /\ ~ExistsOrder(account.orders, id)
  BY <1>2, <1>3, PlacedOrder
<1>6. order.status = "Pending" /\ order.filledQuantity = 0
  BY <1>3 DEF CanPlaceOrder
<1>7. status \in PythonStatus
  BY <1>2, FirstStatusKnown
<1>8. order \in Order
  BY <1>2, NextOrderIdFresh, OrderConverted, FieldsOfAccount DEF TradedAccount, PythonStatus
<1>9. SameBalances(account, placed)
  BY <1>2, <1>3, <1>8, PlacingLeavesBalances
<1> HIDE DEF placed, order, id, raw
<1>10. SameBalances(placed, account') /\ TradedAccount(account')
  <2>1. CASE ResponseStatusApplies(status)
    <3>1. CanSetAccountOrderStatus(placed, id, ToDafnyOrderStatus[status])
      BY <1>5, <1>6, <1>7, <2>1, ResponseApplies
    <3> QED
      BY <1>4, <1>5, <1>7, <2>1, <3>1, StatusLeavesBalances, ApplyStatusKeeps
  <2>2. CASE ~ResponseStatusApplies(status)
    BY <1>4, <1>5, <2>2 DEF SameBalances
  <2> QED
    BY <2>1, <2>2
<1>11. /\ account'.cash = account.cash /\ account'.positions = account.positions
       /\ \A key \in DOMAIN orderIds :
            GetOrder(account'.orders, orderIds[key]).filledQuantity
              = GetOrder(account.orders, orderIds[key]).filledQuantity
       /\ GetOrder(account'.orders, id).filledQuantity = 0
  <2>1. \A key \in DOMAIN orderIds : ExistsOrder(account.orders, orderIds[key])
                                      /\ ExistsOrder(placed.orders, orderIds[key])
    BY <1>2, <1>5 DEF Tracks, Keeps
  <2> QED
    BY <1>5, <1>6, <1>9, <1>10, <2>1 DEF SameBalances
<1> QED
  BY <1>2, <1>4, <1>10, <1>11

\* The answer makes a known order a tracked one, with nothing filled yet.
LEMMA TrackAgrees ==
  ASSUME IInv, CallPlaceable, AgreeInv, NEW status \in FirstStatus, Register(status)
  PROVE  AgreeInv'
<1>1. user.pc = "accepted" /\ user' = Idle /\ UNCHANGED << brokerVars, seen, daemon >>
  BY DEF Register
<1>2. daemon.pc \notin SyncSteps
  BY <1>1 DEF IInv, ClientInv, LockInv
<1>3. PICK id :
        /\ GetOrder(account'.orders, id).filledQuantity = 0
        /\ orderIds' = [key \in DOMAIN orderIds \cup {user.key} |->
                          IF key = user.key THEN id ELSE orderIds[key]]
  BY OrderTracked
<1>4. /\ account'.cash = account.cash /\ account'.positions = account.positions
      /\ \A key \in DOMAIN orderIds :
           GetOrder(account'.orders, orderIds[key]).filledQuantity
             = GetOrder(account.orders, orderIds[key]).filledQuantity
  BY OrderTracked
<1>5. UNCHANGED << book, shares, cash, executions, connected, queue, seen >>
  BY <1>1 DEF brokerVars
<1>6. DOMAIN orderIds' = DOMAIN orderIds \cup {user.key} /\ user'.pc = "idle"
  BY <1>1, <1>3 DEF Idle
<1>7. \A key : Known(key)' <=> Known(key)
  BY <1>1, <1>6 DEF Known
<1>8. HeardInv'
  BY <1>5, <1>7, GrowsReflexive, HeardFewer DEF AgreeInv
<1>9. LineInv' /\ ReadInv' /\ AcceptedInv' /\ (cash % UnitsPerCent = 0)'
  BY <1>1, <1>2, <1>5, <1>6 DEF AgreeInv, LineInv, ReadInv, AcceptedInv, SyncSteps
<1>10. InFlight' = InFlight
  BY <1>5 DEF InFlight, IsNewExecution
<1>11. ASSUME InStep' PROVE Agreed'
  <2>1. Agreed
    BY <1>1, <1>5, <1>11 DEF AgreeInv, InStep, Agreed
  <2>2. HoldingsAgree' /\ CashAgrees'
    BY <1>4, <1>5, <1>10, <2>1 DEF Agreed, HoldingsAgree, CashAgrees
  <2>3. FillsAgree'
    <3>1. ASSUME NEW key \in DOMAIN orderIds
          PROVE  book'[key].filled_qty =
                   GetOrder(account'.orders, orderIds'[key]).filledQuantity
                     + Filled(InFlight', key)
      <4>1. orderIds'[key] = orderIds[key]
        <5>1. user.key \notin DOMAIN orderIds
          BY <1>1 DEF AgreeInv, AcceptedInv
        <5> QED
          BY <1>3, <5>1
      <4> QED
        BY <1>4, <1>5, <1>10, <2>1, <4>1 DEF Agreed, FillsAgree
    <3>2. book'[user.key].filled_qty =
            GetOrder(account'.orders, orderIds'[user.key]).filledQuantity
              + Filled(InFlight', user.key)
      <4>1. orderIds'[user.key] = id
        BY <1>3
      <4>2. book[user.key].filled_qty = Filled(InFlight, user.key)
        BY <1>1, <2>1 DEF Agreed, FillsAgree
      <4>3. Filled(InFlight, user.key) \in Nat
        BY InFlightType, TotalsType DEF IInv
      <4> QED
        BY <1>3, <1>4, <1>5, <1>10, <4>1, <4>2, <4>3
    <3> QED
      BY <1>6, <3>1, <3>2 DEF FillsAgree
  <2>4. LiveKnown'
    BY <1>5, <1>7, <2>1 DEF Agreed, LiveKnown
  <2> QED
    BY <2>2, <2>3, <2>4 DEF Agreed
<1> QED
  BY <1>8, <1>9, <1>11 DEF AgreeInv, Agreed

\* Calls begin, fail and return.
LEMMA CallerAgrees ==
  ASSUME AnswersArrive, IInv, CallPlaceable, AgreeInv,
         \/ SubmitOrder \/ Liquidate \/ CallerStep
         \/ AnswerLost \/ AnswerWithoutId \/ AnswerWithoutStatus
  PROVE  AgreeInv'
<1>1. ASSUME NEW request, Submit(request) PROVE AgreeInv'
  <2>1. /\ user.pc = "idle" /\ user'.pc = "calling" /\ UNCHANGED << brokerVars, stateVars, daemon >>
    BY <1>1 DEF Submit, CallerHoldsLock
  <2> QED
    BY <2>1, OnlyPlacesChange
<1>2. CASE SubmitOrder
  BY <1>1, <1>2 DEF SubmitOrder
<1>3. CASE Liquidate
  BY <1>1, <1>3 DEF Liquidate
<1>4. CASE BrokerRefuses
  <2>1. /\ user.pc = "calling" /\ user'.pc = "idle" /\ UNCHANGED << brokerVars, stateVars, daemon >>
    BY <1>4 DEF BrokerRefuses, Idle
  <2> QED
    BY <2>1, OnlyPlacesChange
<1>5. CASE AnswerLost \/ AnswerWithoutId
  BY <1>5 DEF AnswerLost, AnswerWithoutId, Fault, AnswersArrive
<1>6. CASE TrackSubmittedOrder \/ AnswerWithoutStatus
  <2>1. PICK status \in FirstStatus : Register(status)
    BY <1>6, AnswerRegisters
  <2> QED
    BY <2>1, TrackAgrees
<1> QED
  BY <1>2, <1>3, <1>4, <1>5, <1>6, BrokerAcceptsAgrees DEF CallerStep

-----------------------------------------------------------------------------
(* Synchronization *)

\* The client does not listen any more, and nothing is on its way.
LEMMA LineCut ==
  ASSUME AgreeInv, ~connected', queue' = <<>>, cash' = cash, AcceptedInv',
         daemon'.pc \in {"recover", "failed", "stopped"}
  PROVE  AgreeInv'
<1>1. LineInv' /\ ReadInv' /\ ~InStep'
  BY DEF LineInv, ReadInv, InStep, SyncSteps
<1>2. HeardInv'
  <2>1. Range(queue') = {}
    BY DEF Range
  <2> QED
    BY <2>1 DEF HeardInv, OneOfEach
<1> QED
  BY <1>1, <1>2 DEF AgreeInv

\* A synchronization that fails; nobody listens meanwhile.
LEMMA SyncRaisesAgrees ==
  ASSUME AgreeInv, SyncRaises
  PROVE  AgreeInv'
<1>1. /\ connected' = FALSE /\ queue' = <<>> /\ cash' = cash
      /\ daemon'.pc \in {"recover", "failed"} /\ UNCHANGED << orderIds, user >>
  BY DEF SyncRaises, Daemon, stateVars
<1>2. AcceptedInv'
  BY <1>1 DEF AgreeInv, AcceptedInv
<1> QED
  BY <1>1, <1>2, LineCut

\* What holds while the worker reads.
LEMMA WhileReading ==
  ASSUME IInv, AgreeInv, daemon.pc \in SyncSteps
  PROVE  /\ user.pc = "idle" /\ ~connected /\ queue = <<>>
         /\ daemon.within \in {"start", "recover"} /\ cash % UnitsPerCent = 0
BY DEF IInv, ClientInv, LockInv, AgreeInv, LineInv, SyncSteps

\* A read that goes well.
LEMMA ReadsOn ==
  ASSUME IInv, AgreeInv, daemon.pc \in SyncSteps, ReadInv', daemon'.pc \in SyncSteps,
         daemon'.within = daemon.within, UNCHANGED << brokerVars, user >>
  PROVE  AgreeInv'
<1>1. /\ user.pc = "idle" /\ ~connected /\ queue = <<>>
      /\ daemon.within \in {"start", "recover"} /\ cash % UnitsPerCent = 0
  BY WhileReading
<1>2. /\ user'.pc = "idle" /\ ~connected' /\ queue' = <<>>
      /\ daemon'.within \in {"start", "recover"} /\ (cash % UnitsPerCent = 0)'
  BY <1>1 DEF brokerVars
<1>3. LineInv' /\ ~InStep' /\ AcceptedInv'
  BY <1>2 DEF LineInv, InStep, AcceptedInv, SyncSteps
<1>4. HeardInv'
  <2>1. Range(queue') = {}
    BY <1>2 DEF Range
  <2> QED
    BY <2>1 DEF HeardInv, OneOfEach
<1> QED
  BY <1>2, <1>3, <1>4 DEF AgreeInv

\* The holdings read are the broker's.
LEMMA ReadPositionsAgrees ==
  ASSUME IInv, AgreeInv, ReadPositions
  PROVE  AgreeInv'
<1> DEFINE held == GetPositions
           read == [i \in DOMAIN GetPositions |-> ToVQCPosition(GetPositions[i])]
<1>1. daemon.pc = "positions"
  BY DEF ReadPositions
<1>2. CASE \E i \in DOMAIN held : held[i].qty < 0
  BY <1>2, SyncRaisesAgrees DEF ReadPositions
<1>3. CASE ~\E i \in DOMAIN held : held[i].qty < 0
  <2>1. /\ daemon' = [daemon EXCEPT !.pc = "orders", !.positions = read]
        /\ UNCHANGED << brokerVars, user >>
    BY <1>3 DEF ReadPositions
  <2>2. \A symbol \in Symbols : Held(read, symbol) = shares[symbol]
    BY <1>3, HoldingsRead DEF IInv
  <2> HIDE DEF read, held
  <2>3. daemon'.pc = "orders" /\ daemon'.positions = read /\ daemon'.within = daemon.within
    <3>1. daemon = [pc |-> daemon.pc, within |-> daemon.within, positions |-> daemon.positions,
                    orders |-> daemon.orders, stop |-> daemon.stop]
      BY DEF IInv, ClientInv, DaemonInv
    <3> QED
      BY <2>1, <3>1
  <2>4. ReadInv'
    BY <2>1, <2>2, <2>3 DEF ReadInv, brokerVars
  <2> QED
    BY <1>1, <2>1, <2>3, <2>4, ReadsOn DEF SyncSteps
<1> QED
  BY <1>2, <1>3

\* The orders read are the broker's open ones.
LEMMA ReadOrdersAgrees ==
  ASSUME IInv, AgreeInv, ReadOrders
  PROVE  AgreeInv'
<1>1. daemon.pc = "orders"
  BY DEF ReadOrders
<1>2. CASE SyncRaises
  BY <1>2, SyncRaisesAgrees
<1>3. CASE ~SyncRaises
  <2>1. /\ daemon' = [daemon EXCEPT !.pc = "cash", !.orders = GetOpenOrders]
        /\ UNCHANGED << brokerVars, user >>
    BY <1>3, ReadOrdersIsComplete
  <2>2. /\ daemon'.pc = "cash" /\ daemon'.orders = GetOpenOrders
        /\ daemon'.positions = daemon.positions /\ daemon'.within = daemon.within
    <3>1. daemon = [pc |-> daemon.pc, within |-> daemon.within, positions |-> daemon.positions,
                    orders |-> daemon.orders, stop |-> daemon.stop]
      BY DEF IInv, ClientInv, DaemonInv
    <3> QED
      BY <2>1, <3>1
  <2>3. ReadInv'
    BY <1>1, <2>1, <2>2 DEF AgreeInv, ReadInv, GetOpenOrders, brokerVars
  <2> QED
    BY <1>1, <2>1, <2>2, <2>3, ReadsOn DEF SyncSteps
<1> QED
  BY <1>2, <1>3

\* The open orders, all of them, as they are in the book.
LEMMA OpenOrdersRead ==
  ASSUME BrokerInv
  PROVE  /\ \A i \in DOMAIN GetOpenOrders :
              /\ GetOpenOrders[i].id \in DOMAIN book
              /\ book[GetOpenOrders[i].id] = GetOpenOrders[i] /\ IsLive(GetOpenOrders[i])
         /\ \A k \in DOMAIN book :
              IsLive(book[k]) => \E i \in DOMAIN GetOpenOrders : GetOpenOrders[i] = book[k]
<1> DEFINE T == {order \in Range(book) : IsLive(order)}
           r == GetOpenOrders
<1>1. book \in Seq(BrokerOrder) /\ \A k \in DOMAIN book : book[k].id = k
  BY DEF BrokerInv
<1>2. r = SelectIn(book, T)
  BY DEF GetOpenOrders
<1>3. \A k \in DOMAIN book : book[k] \in T <=> IsLive(book[k])
  BY DEF Range
<1> HIDE DEF T, r
<1>4. r \in Seq(BrokerOrder) /\ \E m : IsSelection(book, T, Len(book), r, m)
  BY <1>1, <1>2, SelectInSound
<1>5. PICK m : IsSelection(book, T, Len(book), r, m)
  BY <1>4
<1>6. DOMAIN r = 1 .. Len(r) /\ DOMAIN book = 1 .. Len(book)
  BY <1>1, <1>4
<1>7. /\ \A i \in DOMAIN r : m[i] \in DOMAIN book /\ r[i] = book[m[i]] /\ IsLive(r[i])
      /\ \A k \in DOMAIN book : IsLive(book[k]) => \E i \in DOMAIN r : m[i] = k
  BY <1>3, <1>5, <1>6 DEF IsSelection
<1>8. \A i \in DOMAIN r : r[i].id = m[i]
  BY <1>1, <1>7
<1>9. \A k \in DOMAIN book : IsLive(book[k]) => \E i \in DOMAIN r : r[i] = book[k]
  BY <1>7
<1>10. \A i \in DOMAIN r : r[i].id \in DOMAIN book /\ book[r[i].id] = r[i] /\ IsLive(r[i])
  BY <1>7, <1>8
<1> QED
  BY <1>9, <1>10 DEF r

\* The id and the filled quantity of a converted order are the given ones.
LEMMA ConvertedFields ==
  ASSUME NEW raw, NEW id, NEW filled, NEW status
  PROVE  /\ ToVQCOrder(raw, id, filled, status).orderId = id
         /\ ToVQCOrder(raw, id, filled, status).filledQuantity = filled
<1> DEFINE type  == ToDafnyOrderType(raw.type, ToVQCMoney(raw.limit_price),
                                     ToVQCMoney(raw.stop_price))
           state == ToDafnyOrderStatus[NormalizedStatus(status, filled, raw.qty)]
           side  == ToDafnyOrderSide[raw.side]
<1>1. ToVQCOrder(raw, id, filled, status)
        = [orderId |-> id, symbol |-> raw.symbol, quantity |-> raw.qty, side |-> side,
           orderType |-> type, status |-> state, filledQuantity |-> filled]
  BY DEF ToVQCOrder, OrderRecord
<1> HIDE DEF type, state, side
<1> QED
  BY <1>1

\* The order a snapshot makes of each of the broker's: the map finds it.
LEMMA SnapshotMap ==
  ASSUME DaemonInv, CanBootstrap(FromDecimal(cash), daemon.positions, SnapshotOrders, 1)
  PROVE  /\ DOMAIN SnapshotOrderIds = {daemon.orders[i].id : i \in DOMAIN daemon.orders}
         /\ \A key \in DOMAIN SnapshotOrderIds :
              LET i   == SnapshotOrderIds[key]
                  raw == daemon.orders[i]
              IN  /\ i \in DOMAIN daemon.orders /\ raw.id = key
                  /\ GetOrder(SnapshotOrders, i) = SnapshotOrders[i]
                  /\ SnapshotOrders[i].filledQuantity = raw.filled_qty
<1> DEFINE raws   == daemon.orders
           orders == SnapshotOrders
           ids    == SnapshotOrderIds
<1>1. DOMAIN ids = {raws[i].id : i \in DOMAIN raws}
  BY DEF SnapshotOrderIds
<1> SUFFICES ASSUME NEW key \in DOMAIN ids
             PROVE  /\ ids[key] \in DOMAIN raws /\ raws[ids[key]].id = key
                    /\ GetOrder(orders, ids[key]) = orders[ids[key]]
                    /\ orders[ids[key]].filledQuantity = raws[ids[key]].filled_qty
  BY <1>1
<1>2. ids[key] \in DOMAIN raws /\ raws[ids[key]].id = key
  <2>1. \E i \in DOMAIN raws : raws[i].id = key
    BY <1>1
  <2>2. ids[key] = CHOOSE i \in DOMAIN raws : raws[i].id = key
    BY <1>1 DEF SnapshotOrderIds
  <2> QED
    BY <2>1, <2>2
<1>3. \A i \in DOMAIN raws :
        orders[i] = ToVQCOrder(raws[i], i, raws[i].filled_qty, ToVQCStatus(raws[i].status))
  BY DEF SnapshotOrders
<1>4. DOMAIN orders = DOMAIN raws
  BY DEF SnapshotOrders
<1>5. \A i \in DOMAIN raws : orders[i].orderId = i /\ orders[i].filledQuantity = raws[i].filled_qty
  <2>1. \A raw, id, filled, status :
          /\ ToVQCOrder(raw, id, filled, status).orderId = id
          /\ ToVQCOrder(raw, id, filled, status).filledQuantity = filled
    BY ConvertedFields
  <2> QED
    BY <1>3, <2>1
<1>6. IsValidOrderSet(orders)
  BY DEF CanBootstrap
<1> HIDE DEF orders, ids, raws
<1>7. GetOrder(orders, ids[key]) = orders[ids[key]]
  BY <1>2, <1>4, <1>5, <1>6, OrderIndexUnique DEF GetOrder
<1> QED
  BY <1>2, <1>5, <1>7

\* A snapshot taken while the broker rests is in step with it.
LEMMA ReadCashAgrees ==
  ASSUME IInv, AgreeInv, ReadCash
  PROVE  AgreeInv'
<1> DEFINE acct == BootstrapCore(FromDecimal(cash), daemon.positions, SnapshotOrders, 1)
<1>1. daemon.pc = "cash" /\ "cash" \in SyncSteps
  BY DEF ReadCash, SyncSteps
<1>2. CASE ~CanBootstrap(FromDecimal(cash), daemon.positions, SnapshotOrders, 1)
  BY <1>2, SyncRaisesAgrees DEF ReadCash
<1>3. CASE CanBootstrap(FromDecimal(cash), daemon.positions, SnapshotOrders, 1)
  <2>1. /\ user.pc = "idle" /\ ~connected /\ queue = <<>>
        /\ daemon.within \in {"start", "recover"} /\ cash % UnitsPerCent = 0
    BY <1>1, WhileReading
  <2>2. /\ account' = acct /\ orderIds' = SnapshotOrderIds /\ daemon' = Daemon("connect")
        /\ UNCHANGED << book, shares, cash, executions, connected, queue, user >>
    BY <1>3, <2>1 DEF ReadCash, brokerVars
  <2>3. /\ acct.cash = FromDecimal(cash) /\ acct.positions = daemon.positions
        /\ acct.orders = SnapshotOrders
    BY DEF BootstrapCore
  <2>4. /\ \A symbol \in Symbols : Held(daemon.positions, symbol) = shares[symbol]
        /\ daemon.orders = GetOpenOrders
    BY <1>1 DEF AgreeInv, ReadInv
  <2> HIDE DEF acct
  <2>5. daemon'.pc = "connect" /\ user'.pc = "idle"
    BY <2>1, <2>2 DEF Daemon
  <2>6. InFlight' = {}
    BY <2>1, <2>2 DEF InFlight, Range
  <2>7. HoldingsAgree'
    <3> SUFFICES ASSUME NEW symbol \in Symbols
                 PROVE  shares[symbol] = Held(acct.positions, symbol) + Moved({}, symbol)
      BY <2>2, <2>6 DEF HoldingsAgree
    <3>1. shares[symbol] \in Int
      BY DEF IInv, BrokerInv
    <3> QED
      BY <2>3, <2>4, <3>1, NothingInFlight
  <2>8. CashAgrees'
    <3>1. FromDecimal(cash) \in Int
      BY <2>1, WholeCentsConverted DEF IInv, BrokerInv
    <3>2. FromDecimal(cash) = acct.cash - Paid({})
      BY <2>3, <3>1, NothingInFlight
    <3> QED
      BY <2>2, <2>6, <3>2 DEF CashAgrees
  <2>9. FillsAgree'
    <3> SUFFICES ASSUME NEW key \in DOMAIN SnapshotOrderIds
                 PROVE  book[key].filled_qty =
                          GetOrder(acct.orders, SnapshotOrderIds[key]).filledQuantity
                            + Filled({}, key)
      BY <2>2, <2>5, <2>6 DEF FillsAgree
    <3> DEFINE i   == SnapshotOrderIds[key]
               raw == daemon.orders[i]
    <3>1. /\ i \in DOMAIN daemon.orders /\ raw.id = key
          /\ GetOrder(acct.orders, i).filledQuantity = raw.filled_qty
      BY <1>3, <2>3, SnapshotMap DEF IInv, ClientInv
    <3>2. key \in DOMAIN book /\ book[key] = raw
      BY <2>4, <3>1, OpenOrdersRead DEF IInv
    <3>3. raw.filled_qty \in Nat
      BY <3>2, BookFields, BrokerOrderFields DEF IInv
    <3> HIDE DEF i, raw
    <3> QED
      BY <3>1, <3>2, <3>3, NothingInFlight DEF i
  <2>10. LiveKnown'
    <3> SUFFICES ASSUME NEW key \in DOMAIN book, IsLive(book[key])
                 PROVE  key \in DOMAIN SnapshotOrderIds
      BY <2>2 DEF LiveKnown, Known
    <3>1. PICK i \in DOMAIN daemon.orders : daemon.orders[i] = book[key]
      BY <2>4, OpenOrdersRead DEF IInv
    <3>2. daemon.orders[i].id = key
      BY <3>1 DEF IInv, BrokerInv
    <3> QED
      BY <1>3, <3>1, <3>2, SnapshotMap DEF IInv, ClientInv
  <2>11. LineInv' /\ ReadInv' /\ AcceptedInv' /\ (cash % UnitsPerCent = 0)'
    BY <2>1, <2>2, <2>5 DEF LineInv, ReadInv, AcceptedInv, SyncSteps
  <2>12. HeardInv'
    BY <2>1, <2>2 DEF HeardInv, OneOfEach, Range
  <2> QED
    BY <2>7, <2>8, <2>9, <2>10, <2>11, <2>12 DEF AgreeInv
<1> QED
  BY <1>2, <1>3

\* A snapshot that lacks an id.
LEMMA SnapshotWithoutIdAgrees ==
  ASSUME IInv, AgreeInv, SnapshotWithoutId
  PROVE  AgreeInv'
<1>1. /\ daemon.pc = "cash" /\ connected' = FALSE /\ queue' = <<>> /\ cash' = cash
      /\ daemon'.pc \in {"recover", "failed"} /\ user' = user
  BY DEF SnapshotWithoutId, Daemon
<1>2. user.pc = "idle"
  BY <1>1, WhileReading DEF SyncSteps
<1>3. AcceptedInv'
  BY <1>1, <1>2 DEF AcceptedInv
<1> QED
  BY <1>1, <1>3, LineCut

\* Every step of a synchronization keeps the agreement.
LEMMA SyncAgrees ==
  ASSUME IInv, AgreeInv,
         ReadPositions \/ ReadOrders \/ ReadCash \/ ReadFails \/ SnapshotWithoutId
  PROVE  AgreeInv'
BY ReadPositionsAgrees, ReadOrdersAgrees, ReadCashAgrees, SyncRaisesAgrees,
   SnapshotWithoutIdAgrees DEF ReadFails

-----------------------------------------------------------------------------
(* The stream *)

\* The worker subscribes to a broker that has rested since the snapshot.
LEMMA SubscribeAgrees ==
  ASSUME IInv, AgreeInv, Subscribe
  PROVE  AgreeInv'
<1>1. /\ daemon.pc = "connect" /\ daemon'.pc = "stream" /\ queue' = <<>>
      /\ UNCHANGED << book, shares, cash, executions, account, orderIds, seen, user >>
  BY DEF Subscribe, Daemon, stateVars
<1>2. queue = <<>> /\ Agreed
  BY <1>1 DEF AgreeInv, LineInv, InStep, Agreed
<1>3. InFlight' = InFlight
  BY <1>1, <1>2 DEF InFlight, IsNewExecution
<1>4. HeardInv'
  BY <1>1 DEF HeardInv, OneOfEach, Range
<1>5. BookSteady /\ SameBalances(account, account')
  BY <1>1 DEF BookSteady, SameBalances
<1>6. Agreed'
  BY <1>1, <1>2, <1>3, <1>5, StaysAgreed DEF IInv, ClientInv
<1>7. AcceptedInv' /\ (cash % UnitsPerCent = 0)'
  BY <1>1 DEF AgreeInv, AcceptedInv
<1> QED
  BY <1>1, <1>4, <1>6, <1>7, ListensOn

\* The worker notices that the stream is down, or that it is to stop.
LEMMA StreamDownAgrees ==
  ASSUME IInv, AgreeInv, StreamEnds \/ WorkerStops
  PROVE  AgreeInv'
<1>1. UNCHANGED << cash, connected, queue, orderIds, user >>
  BY DEF StreamEnds, WorkerStops, brokerVars, stateVars
<1>2. ~connected /\ queue = <<>>
  BY DEF StreamEnds, WorkerStops, AgreeInv, LineInv
<1>3. daemon'.pc \in {"recover", "stopped"}
  BY DaemonAt DEF StreamEnds, WorkerStops
<1>4. ~connected' /\ queue' = <<>>
  BY <1>1, <1>2, Zenon
<1>5. AcceptedInv'
  BY <1>1 DEF AgreeInv, AcceptedInv
<1> QED
  BY <1>1, <1>3, <1>4, <1>5, LineCut

\* A new attempt to synchronize begins.
LEMMA RecoverAgrees ==
  ASSUME IInv, AgreeInv, RecoverBrokerSnapshot
  PROVE  AgreeInv'
<1>1. /\ daemon.pc = "recover" /\ daemon'.pc = "positions" /\ daemon'.within = "recover"
      /\ UNCHANGED << brokerVars, stateVars, user >>
  BY DEF RecoverBrokerSnapshot, StartSync, Daemon
<1>2. UNCHANGED << book, cash, connected, queue, orderIds, user >>
  BY <1>1 DEF brokerVars, stateVars
<1>3. ~connected /\ queue = <<>>
  BY <1>1 DEF AgreeInv, LineInv
<1>4. LineInv' /\ ReadInv' /\ ~InStep'
  BY <1>1, <1>2, <1>3 DEF LineInv, ReadInv, InStep, SyncSteps
<1>5. HeardInv'
  BY <1>2, <1>3 DEF HeardInv, OneOfEach, Range
<1>6. AcceptedInv' /\ (cash % UnitsPerCent = 0)'
  BY <1>2 DEF AgreeInv, AcceptedInv
<1> QED
  BY <1>4, <1>5, <1>6 DEF AgreeInv

\* No update comes of an order the client does not know.
LEMMA AllHeardTracked ==
  ASSUME IInv, AgreeInv, HandlerRuns
  PROVE  IsTracked(Head(queue)) /\ Head(queue) \in Range(queue)
<1>1. queue # <<>> /\ user.pc = "idle" /\ queue \in Seq(Update(executions))
  BY HandlerFacts DEF IInv, BrokerInv
<1>2. Head(queue) \in Range(queue)
  BY <1>1, ListElements
<1>3. Known(Head(queue).order.id)
  BY <1>2 DEF AgreeInv, HeardInv
<1> QED
  BY <1>1, <1>2, <1>3 DEF Known, IsTracked

\* What a handler that returns leaves to be heard.
LEMMA HandlerHears ==
  ASSUME IInv, AgreeInv, HandlerRuns, HandlerReturns,
         UNCHANGED << book, cash, orderIds, user >>
  PROVE  /\ HeardInv' /\ AcceptedInv' /\ (cash % UnitsPerCent = 0)'
         /\ daemon'.pc = "stream" /\ InStep' = InStep
<1>1. queue \in Seq(Update(executions)) /\ queue # <<>> /\ daemon.pc = "stream"
  BY HandlerFacts DEF IInv, BrokerInv
<1>2. Range(queue') \subseteq Range(queue)
  BY <1>1, ListElements DEF HandlerReturns
<1>3. Grows(book, book') /\ \A key : Known(key) => Known(key)'
  BY GrowsReflexive DEF Known
<1>4. HeardInv'
  BY <1>2, <1>3, HeardFewer DEF AgreeInv
<1> QED
  BY <1>1, <1>4 DEF AgreeInv, AcceptedInv, InStep, HandlerReturns

\* A handler that raises ends the stream.
LEMMA HandlerRaisesAgrees ==
  ASSUME IInv, AgreeInv, HandlerRuns, HandlerRaises, UNCHANGED << cash, user >>
  PROVE  AgreeInv'
<1>1. /\ connected' = FALSE /\ queue' = <<>> /\ daemon'.pc = "recover"
      /\ UNCHANGED << cash, orderIds, user >>
  BY DEF HandlerRaises, Daemon, stateVars
<1>2. AcceptedInv'
  BY <1>1 DEF AgreeInv, AcceptedInv
<1> QED
  BY <1>1, <1>2, LineCut

\* A status change leaves what is in flight and what has been applied.
LEMMA LifecycleAgrees ==
  ASSUME IInv, AgreeInv, HandleLifecycleUpdate
  PROVE  AgreeInv'
<1> DEFINE status == ToLifecycleStatus(Head(queue))
           id     == orderIds[Head(queue).order.id]
<1>1. /\ HandlerRuns /\ ~IsFillUpdate(Head(queue))
      /\ UNCHANGED << book, shares, cash, executions, user >>
      /\ IF ApplyStatusRaises(account, id, status)
         THEN HandlerRaises
         ELSE /\ account' = ApplyStatus(account, id, status)
              /\ HandlerReturns
              /\ UNCHANGED << orderIds, seen >>
  BY DEF HandleLifecycleUpdate
<1>2. status \in PythonStatus /\ TradedAccount(account)
  BY <1>1, HandlerFacts, LifecycleStatusConverted
<1> HIDE DEF status, id
<1>3. CASE ApplyStatusRaises(account, id, status)
  BY <1>1, <1>3, HandlerRaisesAgrees
<1>4. CASE ~ApplyStatusRaises(account, id, status)
  <2>1. \/ IsStaleStatus(GetOrder(account.orders, id).status, status)
        \/ CanSetAccountOrderStatus(account, id, ToDafnyOrderStatus[status])
    BY <1>4 DEF ApplyStatusRaises
  <2>2. /\ account' = ApplyStatus(account, id, status) /\ HandlerReturns
        /\ UNCHANGED << orderIds, seen >>
    BY <1>1, <1>4
  <2>3. SameBalances(account, account')
    BY <1>2, <2>1, <2>2, StatusLeavesBalances
  <2>4. InFlight' = InFlight
    <3>1. queue \in Seq(Update(executions)) /\ queue # <<>> /\ queue' = Tail(queue)
      BY <1>1, <2>2, HandlerFacts DEF IInv, BrokerInv, HandlerReturns
    <3>2. FlightOf(Tail(queue), seen) = FlightOf(queue, seen)
      BY <1>1, <3>1, FlightDropped
    <3> QED
      BY <2>2, <3>1, <3>2 DEF InFlight, FlightOf, IsNewExecution
  <2>5. InStep' => Agreed'
    <3>1. BookSteady
      BY <1>1 DEF BookSteady
    <3>2. InStep' => Agreed
      BY <1>1, <2>2, HandlerHears DEF AgreeInv, Agreed
    <3> QED
      BY <1>1, <2>2, <2>3, <2>4, <3>1, <3>2, StaysAgreed DEF IInv, ClientInv
  <2> QED
    BY <1>1, <2>2, <2>5, HandlerHears, ListensOn
<1> QED
  BY <1>3, <1>4

\* What the client's balances and the executions in flight become when one is applied.
LEMMA FillHandled ==
  ASSUME IInv, AgreeInv, HandlerRuns, HandlerReturns,
         IsTracked(Head(queue)), IsFillUpdate(Head(queue)), IsNewExecution(Head(queue)),
         NEW id, id = orderIds[Head(queue).order.id],
         CanUpdate(account, ToVQCFill(Head(queue), nextExecutionId, id)),
         account' = UpdateCore(account, ToVQCFill(Head(queue), nextExecutionId, id)),
         seen' = seen \cup {Head(queue).execution_id}
  PROVE  LET u == Head(queue)
         IN  /\ u \in Update(executions) /\ executions \in Nat
             /\ u.order.id \in DOMAIN orderIds
             /\ \A key \in DOMAIN orderIds : orderIds[key] = id <=> key = u.order.id
             /\ account.cash \in Int
             /\ account'.cash = account.cash - Signed(u) * FromDecimal(Price)
             /\ \A symbol :
                  /\ Held(account.positions, symbol) \in Nat
                  /\ Held(account'.positions, symbol) = Held(account.positions, symbol)
                       + (IF u.order.symbol = symbol THEN Signed(u) ELSE 0)
             /\ \A key : ExistsOrder(account.orders, key) =>
                  /\ GetOrder(account.orders, key).filledQuantity \in Nat
                  /\ GetOrder(account'.orders, key).filledQuantity
                       = GetOrder(account.orders, key).filledQuantity
                           + (IF key = id THEN u.qty ELSE 0)
             /\ InFlight' \in SUBSET Update(executions) /\ IsFiniteSet(InFlight')
             /\ u \notin InFlight' /\ InFlight = InFlight' \cup {u}
<1> DEFINE u     == Head(queue)
           fill  == ToVQCFill(u, nextExecutionId, id)
           order == GetOrder(account.orders, id)
           k     == u.order.id
           rest  == InFlight'
<1>1. /\ TradedAccount(account) /\ Tracks(orderIds, account, book)
      /\ u \in Update(executions) /\ executions \in Nat
      /\ queue \in Seq(Update(executions)) /\ queue # <<>> /\ queue' = Tail(queue)
  BY HandlerFacts DEF IInv, BrokerInv, HandlerReturns
<1>2. fill \in Fill
  BY ExecutionConverted
<1>3. /\ fill.orderId = id /\ fill.symbol = u.order.symbol /\ fill.quantity = u.qty
      /\ fill.price = FromDecimal(Price)
  <2>1. u.price = Price /\ Price \in Int
    BY <1>1, UpdateFields, InputAssumption
  <2>2. ToVQCMoney(Price) = FromDecimal(Price)
    BY <2>1, InputAssumption DEF ToVQCMoney
  <2> QED
    BY <2>1, <2>2 DEF ToVQCFill, FillRecord
<1>4. /\ k \in DOMAIN orderIds /\ k \in DOMAIN book /\ ExistsOrder(account.orders, id)
      /\ order.side = ToDafnyOrderSide[u.order.side]
      /\ \A key \in DOMAIN orderIds : orderIds[key] = id <=> key = k
  <2>1. k \in DOMAIN orderIds
    BY DEF IsTracked
  <2>2. IsCopy(u.order, book)
    BY AllHeardTracked DEF AgreeInv, HeardInv
  <2> QED
    BY <1>1, <2>1, <2>2 DEF Tracks, Mirrors, IsCopy, SameInstruction
<1>5. SignedFill(order, fill) = Signed(u) /\ u.qty \in Nat /\ Signed(u) \in Int
  <2>1. u.order.side \in {"buy", "sell"} /\ u.qty \in Nat /\ Signed(u) \in Int
    BY <1>1, UpdateFields
  <2>2. order.side = "Buy" <=> u.order.side = "buy"
    BY <1>4, <2>1, SMTT(30) DEF ToDafnyOrderSide
  <2> QED
    BY <1>3, <2>1, <2>2 DEF SignedFill, Signed
<1>6. /\ account.cash \in Int
      /\ account'.cash = account.cash - Signed(u) * FromDecimal(Price)
      /\ \A symbol :
           /\ Held(account.positions, symbol) \in Nat
           /\ Held(account'.positions, symbol) = Held(account.positions, symbol)
                + (IF u.order.symbol = symbol THEN Signed(u) ELSE 0)
      /\ \A key : ExistsOrder(account.orders, key) =>
           /\ GetOrder(account.orders, key).filledQuantity \in Nat
           /\ GetOrder(account'.orders, key).filledQuantity
                = GetOrder(account.orders, key).filledQuantity
                    + (IF key = id THEN u.qty ELSE 0)
  <2> HIDE DEF fill, u
  <2>1. account' = UpdateCore(account, fill) /\ CanUpdate(account, fill)
    BY DEF fill, u
  <2>2. LET o == GetOrder(account.orders, fill.orderId)
            after == UpdateCore(account, fill)
        IN  /\ fill.quantity \in Nat /\ fill.price \in Int /\ o.symbol = fill.symbol
            /\ account.cash \in Int
            /\ after.cash = account.cash - SignedFill(o, fill) * fill.price
            /\ \A symbol :
                 /\ Held(account.positions, symbol) \in Nat
                 /\ Held(after.positions, symbol) = Held(account.positions, symbol)
                      + (IF symbol = fill.symbol THEN SignedFill(o, fill) ELSE 0)
            /\ \A i : ExistsOrder(account.orders, i) =>
                 /\ GetOrder(account.orders, i).filledQuantity \in Nat
                 /\ GetOrder(after.orders, i).filledQuantity
                      = GetOrder(account.orders, i).filledQuantity
                          + (IF i = fill.orderId THEN fill.quantity ELSE 0)
    BY <1>1, <1>2, <2>1, FillMovesBalances
  <2>3. GetOrder(account.orders, fill.orderId) = order
    BY <1>3
  <2> HIDE DEF order
  <2> QED
    BY <1>3, <1>5, <2>1, <2>2, <2>3
<1>7. /\ rest \in SUBSET Update(executions) /\ IsFiniteSet(rest) /\ u \notin rest
      /\ InFlight = rest \cup {u}
  <2>1. InFlight \in SUBSET Update(executions) /\ IsFiniteSet(InFlight)
    BY InFlightType DEF IInv
  <2>2. OneOfEach(queue)
    BY DEF AgreeInv, HeardInv
  <2>3. u \in FlightOf(queue, seen)
        /\ FlightOf(Tail(queue), seen \cup {u.execution_id}) = FlightOf(queue, seen) \ {u}
    BY <1>1, <2>2, FlightHandled DEF IsNewExecution
  <2>4. rest = InFlight \ {u} /\ u \in InFlight
    BY <1>1, <2>3 DEF InFlight, FlightOf, IsNewExecution
  <2> QED
    BY <2>1, <2>4, FS_Subset
<1> QED
  BY <1>1, <1>4, <1>6, <1>7

\* An execution that is applied moves the client's balances by what is in flight less.
LEMMA FillApplied ==
  ASSUME WholeCents, IInv, AgreeInv, Agreed, HandlerRuns, HandlerReturns,
         IsTracked(Head(queue)), IsFillUpdate(Head(queue)), IsNewExecution(Head(queue)),
         NEW id, id = orderIds[Head(queue).order.id],
         CanUpdate(account, ToVQCFill(Head(queue), nextExecutionId, id)),
         account' = UpdateCore(account, ToVQCFill(Head(queue), nextExecutionId, id)),
         seen' = seen \cup {Head(queue).execution_id},
         UNCHANGED << book, shares, cash, executions, user, orderIds >>
  PROVE  Agreed'
<1> DEFINE u    == Head(queue)
           k    == u.order.id
           rest == InFlight'
<1>1. /\ u \in Update(executions) /\ executions \in Nat /\ k \in DOMAIN orderIds
      /\ \A key \in DOMAIN orderIds : orderIds[key] = id <=> key = k
      /\ rest \in SUBSET Update(executions) /\ IsFiniteSet(rest) /\ u \notin rest
      /\ InFlight = rest \cup {u}
  BY FillHandled, SMTT(30)
<1>2. /\ account.cash \in Int
      /\ account'.cash = account.cash - Signed(u) * FromDecimal(Price)
      /\ \A symbol :
           /\ Held(account.positions, symbol) \in Nat
           /\ Held(account'.positions, symbol) = Held(account.positions, symbol)
                + (IF u.order.symbol = symbol THEN Signed(u) ELSE 0)
      /\ \A key : ExistsOrder(account.orders, key) =>
           /\ GetOrder(account.orders, key).filledQuantity \in Nat
           /\ GetOrder(account'.orders, key).filledQuantity
                = GetOrder(account.orders, key).filledQuantity
                    + (IF key = id THEN u.qty ELSE 0)
  BY FillHandled, ZenonT(30)
<1>3. Tracks(orderIds, account, book) /\ user'.pc = "idle"
  BY HandlerFacts
<1>4. u.qty \in Nat /\ Signed(u) \in Int
  BY <1>1, UpdateFields
<1> HIDE DEF rest
<1>5. /\ \A symbol : Moved(InFlight, symbol)
                       = Moved(rest, symbol) + (IF u.order.symbol = symbol THEN Signed(u) ELSE 0)
      /\ Paid(InFlight) = Paid(rest) + Signed(u) * FromDecimal(Price)
      /\ \A key : Filled(InFlight, key) = Filled(rest, key) + (IF k = key THEN u.qty ELSE 0)
  <2> HIDE DEF u
  <2>1. u \in Update(executions) /\ executions \in Nat
    BY <1>1
  <2>2. /\ \A symbol : Moved(rest \cup {u}, symbol)
                         = Moved(rest, symbol)
                             + (IF u.order.symbol = symbol THEN Signed(u) ELSE 0)
        /\ Paid(rest \cup {u}) = Paid(rest) + Signed(u) * FromDecimal(Price)
        /\ \A key : Filled(rest \cup {u}, key)
                      = Filled(rest, key) + (IF u.order.id = key THEN u.qty ELSE 0)
    BY <1>1, <2>1, OneMoreInFlight
  <2> QED
    BY <1>1, <2>2
<1>6. /\ \A symbol : Moved(rest, symbol) \in Int
      /\ Paid(rest) \in Int
      /\ \A key : Filled(rest, key) \in Nat
  BY <1>1, TotalsType
<1> HIDE DEF u, k
<1>7. HoldingsAgree'
  <2> SUFFICES ASSUME NEW symbol \in Symbols
               PROVE  shares[symbol] = Held(account'.positions, symbol) + Moved(rest, symbol)
    BY DEF HoldingsAgree, rest
  <2> DEFINE h == Held(account.positions, symbol)
             d == IF u.order.symbol = symbol THEN Signed(u) ELSE 0
             m == Moved(rest, symbol)
  <2>1. shares[symbol] = h + Moved(InFlight, symbol)
    BY SMTT(30) DEF Agreed, HoldingsAgree
  <2>2. h \in Int /\ m \in Int /\ d \in Int /\ Held(account'.positions, symbol) = h + d
        /\ Moved(InFlight, symbol) = m + d
    BY <1>4, <1>2, <1>5, <1>6
  <2> HIDE DEF h, d, m
  <2>3. shares[symbol] = (h + d) + m
    BY <2>1, <2>2
  <2> QED
    BY <2>2, <2>3 DEF m
<1>8. CashAgrees'
  <2> DEFINE a == account.cash
             d == Signed(u) * FromDecimal(Price)
             p == Paid(rest)
  <2>1. FromDecimal(cash) = a - Paid(InFlight)
    BY DEF Agreed, CashAgrees
  <2>2. d \in Int
    BY <1>4, PriceInCents, SMTT(30)
  <2>3. a \in Int /\ p \in Int /\ account'.cash = a - d /\ Paid(InFlight) = p + d
    BY <1>2, <1>5, <1>6
  <2> HIDE DEF a, d, p
  <2>4. FromDecimal(cash) = (a - d) - p
    BY <2>1, <2>2, <2>3, SMTT(30)
  <2> QED
    BY <2>3, <2>4 DEF CashAgrees, p, rest
<1>9. FillsAgree'
  <2>1. ASSUME NEW key \in DOMAIN orderIds
        PROVE  book[key].filled_qty =
                 GetOrder(account'.orders, orderIds[key]).filledQuantity + Filled(rest, key)
    <3> DEFINE f == GetOrder(account.orders, orderIds[key]).filledQuantity
               d == IF k = key THEN u.qty ELSE 0
               r == Filled(rest, key)
    <3>1. ExistsOrder(account.orders, orderIds[key]) /\ (orderIds[key] = id <=> k = key)
      BY <1>1, <1>3, SMTT(30) DEF Tracks
    <3>2. /\ f \in Nat
          /\ GetOrder(account'.orders, orderIds[key]).filledQuantity
               = f + (IF orderIds[key] = id THEN u.qty ELSE 0)
      BY <1>2, <3>1
    <3>3. GetOrder(account'.orders, orderIds[key]).filledQuantity = f + d
      BY <3>1, <3>2
    <3>4. book[key].filled_qty = f + Filled(InFlight, key)
      BY DEF Agreed, FillsAgree
    <3>5. Filled(InFlight, key) = r + d /\ r \in Nat /\ d \in Nat
      BY <1>4, <1>5, <1>6
    <3> HIDE DEF f, d, r
    <3>6. book[key].filled_qty = (f + d) + r
      BY <3>2, <3>4, <3>5
    <3> QED
      BY <3>3, <3>6 DEF r
  <2> QED
    BY <1>3, <2>1 DEF FillsAgree, rest
<1>10. LiveKnown'
  <2>1. \A key : Known(key) <=> Known(key)'
    BY DEF Known
  <2> QED
    BY <2>1 DEF Agreed, LiveKnown
<1> QED
  BY <1>7, <1>8, <1>9, <1>10, SMTT(30) DEF Agreed

\* A fill is applied once.
LEMMA HandleFillAgrees ==
  ASSUME WholeCents, IInv, AgreeInv, HandleFill
  PROVE  AgreeInv'
<1> DEFINE u    == Head(queue)
           id   == orderIds[u.order.id]
           fill == ToVQCFill(u, nextExecutionId, id)
<1>1. /\ HandlerRuns /\ IsTracked(u) /\ IsFillUpdate(u)
      /\ UNCHANGED << book, shares, cash, executions, user >>
      /\ IF ~IsNewExecution(u)
         THEN HandlerReturns /\ UNCHANGED stateVars
         ELSE IF CanUpdate(account, fill)
         THEN /\ account' = UpdateCore(account, fill)
              /\ seen' = seen \cup {u.execution_id}
              /\ HandlerReturns
              /\ UNCHANGED orderIds
         ELSE HandlerRaises
  BY DEF HandleFill
<1>2. queue \in Seq(Update(executions)) /\ queue # <<>>
  BY <1>1, HandlerFacts DEF IInv, BrokerInv
<1>3. CASE ~IsNewExecution(u)
  <2>1. HandlerReturns /\ UNCHANGED << account, orderIds, seen >> /\ queue' = Tail(queue)
    BY <1>1, <1>3 DEF stateVars, HandlerReturns
  <2>2. FlightOf(Tail(queue), seen) = FlightOf(queue, seen)
    BY <1>2, <1>3, FlightDropped DEF IsNewExecution
  <2>3. InFlight' = InFlight
    BY <2>1, <2>2 DEF InFlight, FlightOf, IsNewExecution
  <2>4. BookSteady /\ SameBalances(account, account')
    BY <1>1, <2>1 DEF BookSteady, SameBalances
  <2>5. InStep' => Agreed'
    <3>1. InStep' => Agreed
      BY <1>1, <2>1, HandlerHears DEF AgreeInv, Agreed
    <3> QED
      BY <1>1, <2>1, <2>3, <2>4, <3>1, StaysAgreed DEF IInv, ClientInv
  <2> QED
    BY <1>1, <2>1, <2>5, HandlerHears, ListensOn
<1>4. CASE IsNewExecution(u) /\ CanUpdate(account, fill)
  <2>1. /\ account' = UpdateCore(account, fill)
        /\ seen' = seen \cup {u.execution_id}
        /\ HandlerReturns /\ UNCHANGED orderIds
    BY <1>1, <1>4
  <2>2. InStep' => Agreed'
    <3>1. InStep' => Agreed
      BY <1>1, <2>1, HandlerHears DEF AgreeInv, Agreed
    <3> QED
      BY <1>1, <1>4, <2>1, <3>1, FillApplied
  <2> QED
    BY <1>1, <2>1, <2>2, HandlerHears, ListensOn
<1>5. CASE IsNewExecution(u) /\ ~CanUpdate(account, fill)
  BY <1>1, <1>5, HandlerRaisesAgrees
<1> QED
  BY <1>3, <1>4, <1>5

\* Every step of the worker on its stream keeps the agreement.
LEMMA StreamAgrees ==
  ASSUME WholeCents, IInv, AgreeInv,
         \/ Subscribe \/ StreamEnds \/ RecoverBrokerSnapshot \/ WorkerStops
         \/ HandleUntracked \/ HandleLifecycleUpdate \/ HandleFill \/ HandleMalformed
  PROVE  AgreeInv'
<1>1. ~HandleUntracked
  BY AllHeardTracked DEF HandleUntracked
<1>2. CASE HandleMalformed
  BY <1>2, HandlerRaisesAgrees DEF HandleMalformed
<1> QED
  BY <1>1, <1>2, SubscribeAgrees, StreamDownAgrees, RecoverAgrees, LifecycleAgrees,
     HandleFillAgrees

-----------------------------------------------------------------------------
(* The theorems *)

\* A new process knows nothing and has read nothing.
LEMMA FreshAgrees ==
  ASSUME (cash % UnitsPerCent = 0)', connected' = FALSE, queue' = <<>>,
         user' = Idle, daemon' = NewDaemon
  PROVE  AgreeInv'
<1>1. user'.pc = "idle" /\ daemon'.pc = "positions" /\ daemon'.within = "start"
  BY DEF Idle, NewDaemon
<1>2. LineInv' /\ ReadInv' /\ AcceptedInv' /\ ~InStep'
  BY <1>1 DEF LineInv, ReadInv, AcceptedInv, InStep, SyncSteps
<1>3. HeardInv'
  BY DEF HeardInv, OneOfEach, Range
<1> QED
  BY <1>2, <1>3 DEF AgreeInv

\* At the start nothing has been read and nothing is on its way.
LEMMA InitAgrees ==
  ASSUME WholeCents, Init
  PROVE  AgreeInv
<1>1. /\ cash % UnitsPerCent = 0 /\ connected = FALSE /\ queue = <<>>
      /\ user.pc = "idle" /\ daemon.pc = "positions" /\ daemon.within = "start"
  BY DEF Init, BrokerInit, WholeCents, Idle, NewDaemon
<1>2. LineInv /\ ReadInv /\ AcceptedInv /\ ~InStep
  BY <1>1 DEF LineInv, ReadInv, AcceptedInv, InStep, SyncSteps
<1>3. HeardInv
  BY <1>1 DEF HeardInv, OneOfEach, Range
<1> QED
  BY <1>1, <1>2, <1>3 DEF AgreeInv

\* The invariant of the agreement is inductive on top of the client's.
LEMMA NextKeepsAgreement ==
  ASSUME QuietBroker, AnswersArrive, WholeCents, IInv, CallPlaceable, AgreeInv, [Next]_vars
  PROVE  AgreeInv'
<1>1. CASE \/ SubmitOrder \/ Liquidate \/ CallerStep
           \/ AnswerLost \/ AnswerWithoutId \/ AnswerWithoutStatus
  BY <1>1, CallerAgrees
<1>2. CASE ReadPositions \/ ReadOrders \/ ReadCash \/ ReadFails \/ SnapshotWithoutId
  BY <1>2, SyncAgrees
<1>3. CASE \/ Subscribe \/ StreamEnds \/ RecoverBrokerSnapshot \/ WorkerStops
           \/ HandleUntracked \/ HandleLifecycleUpdate \/ HandleFill \/ HandleMalformed
  BY <1>3, StreamAgrees
<1>4. CASE BrokerMoves \/ OthersTrade \/ StreamFault
  BY <1>4, EnvironmentAgrees
<1>5. CASE Restart
  <2>1. /\ cash' = cash /\ connected' = FALSE /\ queue' = <<>>
        /\ user' = Idle /\ daemon' = NewDaemon
    BY <1>5 DEF Restart
  <2> QED
    BY <2>1, FreshAgrees DEF AgreeInv
<1>6. CASE Stop
  <2>1. /\ UNCHANGED << brokerVars, stateVars >> /\ user' = user
        /\ daemon'.pc = daemon.pc /\ daemon'.within = daemon.within
        /\ daemon'.positions = daemon.positions /\ daemon'.orders = daemon.orders
    BY <1>6 DEF Stop, IInv, ClientInv, DaemonInv
  <2> QED
    BY <2>1, OnlyPlacesChange
<1>7. CASE UNCHANGED vars
  <2>1. /\ UNCHANGED << brokerVars, stateVars >> /\ user' = user /\ daemon' = daemon
    BY <1>7 DEF vars, clientVars, stateVars
  <2> QED
    BY <2>1, OnlyPlacesChange
<1> QED
  BY <1>1, <1>2, <1>3, <1>4, <1>5, <1>6, <1>7 DEF Next, DaemonStep

\* What the invariant says of a client that listens.
LEMMA AgreementFollows == IInv /\ AgreeInv => InFlightAgreement
<1> SUFFICES ASSUME IInv, AgreeInv, Streaming
             PROVE  /\ \A symbol \in Symbols :
                         shares[symbol] =
                           PositionOrEmpty(account.positions, symbol).quantity
                             + Moved(InFlight, symbol)
                    /\ FromDecimal(cash) = account.cash - Paid(InFlight)
                    /\ \A key \in DOMAIN orderIds :
                         book[key].filled_qty =
                           GetOrder(account.orders, orderIds[key]).filledQuantity
                             + Filled(InFlight, key)
                    /\ \A key \in DOMAIN book :
                         IsLive(book[key]) => key \in DOMAIN orderIds \cup {user.key}
  BY DEF InFlightAgreement
<1>1. HoldingsAgree /\ CashAgrees /\ FillsAgree /\ LiveKnown
  BY DEF AgreeInv, InStep, Streaming
<1> QED
  BY <1>1 DEF HoldingsAgree, CashAgrees, FillsAgree, LiveKnown, Known, Held

\* While the worker listens, the account and the executions still on their way add
\* up to the broker's cash, holdings and fills, whatever the broker does, however
\* updates are repeated, reordered or lost with the stream, whenever the worker
\* synchronizes and the process restarts: provided the broker rests while nobody
\* listens and nobody else trades, answers arrive, and amounts are in whole cents.
THEOREM InFlightAgrees ==
  ASSUME QuietBroker, AnswersArrive, WholeCentPrices, WholeCents
  PROVE  Spec => []InFlightAgreement
<1>1. Init => CallPlaceable /\ AgreeInv
  BY InitAgrees DEF Init, CallPlaceable, Idle
<1>2. IInv /\ CallPlaceable /\ AgreeInv /\ [Next]_vars => CallPlaceable' /\ AgreeInv'
  BY NextKeepsPlaceable, NextKeepsAgreement
<1>3. IInv /\ AgreeInv => InFlightAgreement
  BY AgreementFollows
<1> QED
  BY <1>1, <1>2, <1>3, AlwaysIInv, PTL DEF Spec

\* When the last update has been handled and no call is under way, the cash and
\* the holdings the client shows are the broker's.
THEOREM QuiescentAgrees ==
  ASSUME QuietBroker, AnswersArrive, WholeCentPrices, WholeCents
  PROVE  Spec => []QuiescentAgreement
<1>1. IInv /\ InFlightAgreement => QuiescentAgreement
  <2> SUFFICES ASSUME IInv, InFlightAgreement, Streaming, queue = <<>>
               PROVE  /\ account.cash = FromDecimal(cash)
                      /\ \A symbol \in Symbols :
                           PositionOrEmpty(account.positions, symbol).quantity = shares[symbol]
    BY DEF QuiescentAgreement
  <2>1. InFlight = {}
    BY DEF InFlight, Range
  <2>2. /\ account.cash \in Int
        /\ \A symbol : PositionOrEmpty(account.positions, symbol).quantity \in Nat
    <3>1. account.positions \in Seq(Position) /\ account.cash \in Int
      BY FieldsOfAccount DEF Streaming, IInv, ClientInv, TradedAccount
    <3> QED
      BY <3>1, HeldType DEF Held
  <2>3. /\ \A symbol \in Symbols :
             shares[symbol] = PositionOrEmpty(account.positions, symbol).quantity + Moved({}, symbol)
        /\ FromDecimal(cash) = account.cash - Paid({})
    BY <2>1 DEF InFlightAgreement
  <2> QED
    BY <2>2, <2>3, NothingInFlight
<1> QED
  BY <1>1, InFlightAgrees, AlwaysIInv, PTL

-----------------------------------------------------------------------------
(* No live order is left out *)

\* Nobody else trades on the account.
OnlyClientTrades == "foreign" \notin Env

\* Each live order is among those the worker has read.
LiveRead ==
  \A key \in DOMAIN book :
    IsLive(book[key]) => \E i \in DOMAIN daemon.orders : daemon.orders[i].id = key

\* Between a snapshot and the next, the client knows every live order; between the
\* last two reads of one, the worker does.
LiveInv ==
  /\ daemon.pc \in {"connect", "stream"} => LiveKnown
  /\ daemon.pc = "cash" => LiveRead

\* No order comes to life, and none comes in.
NoneRevived ==
  DOMAIN book' = DOMAIN book /\ \A key \in DOMAIN book : IsLive(book'[key]) => IsLive(book[key])

\* A live order that becomes another is all that one move of the broker changes.
LEMMA MoveRevivesNone ==
  ASSUME NEW k \in DOMAIN book, NEW order, IsLive(book[k]), book' = [book EXCEPT ![k] = order]
  PROVE  NoneRevived
BY DEF NoneRevived

\* The broker only moves live orders.
LEMMA BrokerRevivesNone ==
  ASSUME BrokerMoves
  PROVE  NoneRevived
<1>1. PICK k \in DOMAIN book :
        OpenOrder(k) \/ RejectOrder(k) \/ RequestCancel(k) \/ CancelOrder(k)
          \/ CloseDay(k) \/ Execute(k)
  BY DEF BrokerMoves
<1>2. ASSUME NEW order, NEW event, IsLive(book[k]), Move(k, order, event) PROVE NoneRevived
  BY <1>2, MoveRevivesNone DEF Move
<1>3. CASE OpenOrder(k)
  BY <1>2, <1>3 DEF OpenOrder, IsLive, LiveStatuses
<1>4. CASE RejectOrder(k)
  BY <1>2, <1>4 DEF RejectOrder, IsLive, LiveStatuses
<1>5. CASE RequestCancel(k)
  BY <1>2, <1>5 DEF RequestCancel, IsLive, LiveStatuses
<1>6. CASE CancelOrder(k)
  BY <1>2, <1>6 DEF CancelOrder
<1>7. CASE CloseDay(k)
  BY <1>2, <1>7 DEF CloseDay, IsLive, LiveStatuses
<1>8. CASE Execute(k)
  <2>1. IsLive(book[k]) /\ \E order : book' = [book EXCEPT ![k] = order]
    BY <1>8 DEF Execute
  <2> QED
    BY <2>1, MoveRevivesNone
<1> QED
  BY <1>1, <1>3, <1>4, <1>5, <1>6, <1>7, <1>8

\* Where the client and the worker stay, so does what they know.
LEMMA KnownStays ==
  ASSUME LiveInv, NoneRevived, UNCHANGED << orderIds, user >>,
         daemon'.pc \in {"connect", "stream"} => daemon.pc \in {"connect", "stream"},
         daemon'.pc = "cash" => daemon.pc = "cash" /\ daemon'.orders = daemon.orders
  PROVE  LiveInv'
<1>1. daemon.pc \in {"connect", "stream"} => LiveKnown'
  BY DEF LiveInv, LiveKnown, NoneRevived, Known
<1>2. daemon'.pc = "cash" => LiveRead'
  BY DEF LiveInv, LiveRead, NoneRevived
<1> QED
  BY <1>1, <1>2 DEF LiveInv

\* A step that leaves the orders alone revives none.
LEMMA SameBookRevivesNone ==
  ASSUME book' = book
  PROVE  NoneRevived
BY DEF NoneRevived

\* A call waits outside every synchronization, and the order it waits for is known.
LEMMA CallerKeepsLive ==
  ASSUME AnswersArrive, IInv, CallPlaceable, LiveInv,
         \/ SubmitOrder \/ Liquidate \/ CallerStep
         \/ AnswerLost \/ AnswerWithoutId \/ AnswerWithoutStatus
  PROVE  LiveInv'
<1>1. ASSUME UNCHANGED << book, orderIds, daemon >>, user.pc # "accepted"
      PROVE  LiveInv'
  <2>1. LiveKnown => LiveKnown'
    BY <1>1 DEF LiveKnown, Known
  <2>2. LiveRead => LiveRead'
    BY <1>1, SMTT(30) DEF LiveRead
  <2> QED
    BY <1>1, <2>1, <2>2 DEF LiveInv
<1>2. CASE SubmitOrder \/ Liquidate \/ BrokerRefuses
  BY <1>1, <1>2 DEF SubmitOrder, Liquidate, Submit, CallerHoldsLock, BrokerRefuses,
     brokerVars, stateVars
<1>3. CASE BrokerAccepts
  <2> DEFINE raw == NewOrder(Len(book) + 1, NativeOrder(user.request), "pending_new")
  <2>1. /\ user.pc = "calling" /\ book' = Append(book, raw)
        /\ user' = [user EXCEPT !.pc = "accepted", !.key = Len(book')]
        /\ UNCHANGED << orderIds, daemon >>
    BY <1>3 DEF BrokerAccepts, EnterOrder, stateVars
  <2>2. user'.pc = "accepted" /\ user'.key = Len(book') /\ daemon.pc \notin SyncSteps
    BY <2>1 DEF IInv, ClientInv, UserInv, LockInv
  <2>3. book \in Seq(BrokerOrder)
    BY DEF IInv, BrokerInv
  <2> HIDE DEF raw
  <2>4. \A key \in DOMAIN book' :
          (key \in DOMAIN book /\ book'[key] = book[key]) \/ key = Len(book')
    BY <2>1, <2>3
  <2>5. LiveKnown => LiveKnown'
    BY <2>1, <2>2, <2>4 DEF LiveKnown, Known
  <2> QED
    BY <2>1, <2>2, <2>5 DEF LiveInv, SyncSteps
<1>4. CASE TrackSubmittedOrder \/ AnswerWithoutStatus
  <2> PICK status \in FirstStatus : Register(status)
    BY <1>4, AnswerRegisters
  <2>1. user.pc = "accepted" /\ UNCHANGED << book, daemon >>
    BY DEF Register, brokerVars
  <2>2. daemon.pc \notin SyncSteps
    BY <2>1 DEF IInv, ClientInv, LockInv
  <2>3. DOMAIN orderIds' = DOMAIN orderIds \cup {user.key}
    BY OrderTracked
  <2>4. LiveKnown => LiveKnown'
    BY <2>1, <2>3 DEF LiveKnown, Known
  <2> QED
    BY <2>1, <2>2, <2>4 DEF LiveInv, SyncSteps
<1>5. ~(AnswerLost \/ AnswerWithoutId)
  BY DEF AnswerLost, AnswerWithoutId, Fault, AnswersArrive
<1> QED
  BY <1>2, <1>3, <1>4, <1>5 DEF CallerStep

\* A snapshot that is taken has every order that was live when they were read, and
\* none has come to life since.
LEMMA SyncKeepsLive ==
  ASSUME IInv, LiveInv,
         ReadPositions \/ ReadOrders \/ ReadCash \/ ReadFails \/ SnapshotWithoutId
  PROVE  LiveInv'
<1>1. CASE SyncRaises
  <2>1. daemon'.pc \in {"failed", "recover"}
    BY <1>1 DEF SyncRaises, Daemon
  <2> QED
    BY <2>1 DEF LiveInv
<1>2. CASE ReadPositions /\ ~SyncRaises
  <2>1. daemon'.pc = "orders"
    BY <1>2 DEF ReadPositions, IInv, ClientInv, DaemonInv
  <2> QED
    BY <2>1 DEF LiveInv
<1>3. CASE ReadOrders /\ ~SyncRaises
  <2>1. book' = book /\ daemon' = [daemon EXCEPT !.pc = "cash", !.orders = GetOpenOrders]
    BY <1>3, ReadOrdersIsComplete DEF brokerVars
  <2>2. daemon'.pc = "cash" /\ daemon'.orders = GetOpenOrders
    BY <2>1 DEF IInv, ClientInv, DaemonInv
  <2>3. \A key \in DOMAIN book :
          IsLive(book[key]) => \E i \in DOMAIN GetOpenOrders : GetOpenOrders[i].id = key
    BY OpenOrdersRead DEF IInv, BrokerInv
  <2> QED
    BY <2>1, <2>2, <2>3 DEF LiveInv, LiveRead
<1>4. CASE ReadCash /\ ~SyncRaises
  <2>1. /\ daemon.pc = "cash" /\ book' = book /\ orderIds' = SnapshotOrderIds
        /\ daemon' = Daemon(IF daemon.within = "handler" THEN "stream" ELSE "connect")
    BY <1>4 DEF ReadCash, brokerVars
  <2>2. daemon'.pc # "cash"
    BY <2>1 DEF Daemon
  <2>3. LiveRead /\ DOMAIN orderIds' = {daemon.orders[i].id : i \in DOMAIN daemon.orders}
    BY <2>1 DEF LiveInv, SnapshotOrderIds
  <2>4. LiveKnown'
    BY <2>1, <2>3 DEF LiveRead, LiveKnown, Known
  <2> QED
    BY <2>2, <2>4 DEF LiveInv
<1>5. CASE ReadFails
  BY <1>1, <1>5 DEF ReadFails
<1>6. CASE SnapshotWithoutId
  <2>1. daemon'.pc \in {"failed", "recover"}
    BY <1>6 DEF SnapshotWithoutId, Daemon
  <2> QED
    BY <2>1 DEF LiveInv
<1> QED
  BY <1>1, <1>2, <1>3, <1>4, <1>5, <1>6

\* The stream's worker forgets no order until it has read them all again.
LEMMA StreamKeepsLive ==
  ASSUME IInv, LiveInv,
         \/ Subscribe \/ StreamEnds \/ RecoverBrokerSnapshot \/ WorkerStops
         \/ HandleUntracked \/ HandleLifecycleUpdate \/ HandleFill \/ HandleMalformed
  PROVE  LiveInv'
<1>1. book' = book
  BY WorkerLeavesCaller DEF DaemonStep
<1>2. ASSUME daemon'.pc \notin {"connect", "stream", "cash"} PROVE LiveInv'
  BY <1>2 DEF LiveInv
<1>3. CASE StreamEnds \/ RecoverBrokerSnapshot \/ WorkerStops \/ HandleUntracked
  <2>1. CASE StreamEnds
    <3>1. daemon' = Daemon("recover")
      BY <2>1 DEF StreamEnds
    <3> QED
      BY <1>2, <3>1 DEF Daemon
  <2>2. CASE WorkerStops
    <3>1. daemon' = Daemon("stopped")
      BY <2>2 DEF WorkerStops
    <3> QED
      BY <1>2, <3>1 DEF Daemon
  <2>3. CASE RecoverBrokerSnapshot \/ HandleUntracked
    <3>1. daemon'.pc = "positions"
      BY <2>3 DEF RecoverBrokerSnapshot, HandleUntracked, StartSync, Daemon
    <3> QED
      BY <1>2, <3>1
  <2> QED
    BY <1>3, <2>1, <2>2, <2>3
<1>4. CASE HandlerRaises
  BY <1>2, <1>4 DEF HandlerRaises, Daemon
<1>5. CASE Subscribe
  <2>1. /\ daemon.pc = "connect" /\ daemon'.pc = "stream"
        /\ UNCHANGED << orderIds, user >>
    BY <1>5 DEF Subscribe, Daemon, stateVars
  <2> QED
    BY <1>1, <2>1, SameBookRevivesNone, KnownStays
<1>6. CASE (HandleLifecycleUpdate \/ HandleFill) /\ ~HandlerRaises
  <2>1. UNCHANGED << orderIds, user, daemon >>
    BY <1>6 DEF HandleLifecycleUpdate, HandleFill, HandlerReturns, stateVars
  <2> QED
    BY <1>1, <2>1, SameBookRevivesNone, KnownStays
<1>7. CASE HandleMalformed
  BY <1>4, <1>7 DEF HandleMalformed
<1> QED
  BY <1>3, <1>4, <1>5, <1>6, <1>7

\* What the client and its worker know of live orders is inductive on top of the
\* client's invariant, though the broker moves between the reads.
LEMMA NextKeepsLive ==
  ASSUME OnlyClientTrades, AnswersArrive, IInv, CallPlaceable, LiveInv, [Next]_vars
  PROVE  LiveInv'
<1>1. CASE \/ SubmitOrder \/ Liquidate \/ CallerStep
           \/ AnswerLost \/ AnswerWithoutId \/ AnswerWithoutStatus
  BY <1>1, CallerKeepsLive
<1>2. CASE ReadPositions \/ ReadOrders \/ ReadCash \/ ReadFails \/ SnapshotWithoutId
  BY <1>2, SyncKeepsLive
<1>3. CASE \/ Subscribe \/ StreamEnds \/ RecoverBrokerSnapshot \/ WorkerStops
           \/ HandleUntracked \/ HandleLifecycleUpdate \/ HandleFill \/ HandleMalformed
  BY <1>3, StreamKeepsLive
<1>4. CASE BrokerMoves
  <2>1. UNCHANGED << orderIds, user, daemon >>
    BY <1>4 DEF BrokerMoves, clientVars
  <2> QED
    BY <1>4, <2>1, BrokerRevivesNone, KnownStays
<1>5. CASE OthersTrade
  BY <1>5 DEF OthersTrade, OnlyClientTrades
<1>6. CASE StreamFault \/ Stop \/ UNCHANGED vars
  <2>1. /\ UNCHANGED << book, orderIds, user >>
        /\ daemon'.pc = daemon.pc /\ daemon'.orders = daemon.orders
    <3>1. CASE StreamFault
      BY <3>1 DEF StreamFault, Disconnect, Duplicate, Reorder, clientVars
    <3>2. CASE Stop
      BY <3>2 DEF Stop, brokerVars, stateVars, IInv, ClientInv, DaemonInv
    <3>3. CASE UNCHANGED vars
      BY <3>3 DEF vars, brokerVars, clientVars
    <3> QED
      BY <1>6, <3>1, <3>2, <3>3
  <2> QED
    BY <2>1, SameBookRevivesNone, KnownStays
<1>7. CASE Restart
  <2>1. daemon'.pc = "positions"
    BY <1>7 DEF Restart, NewDaemon
  <2> QED
    BY <2>1 DEF LiveInv
<1> QED
  BY <1>1, <1>2, <1>3, <1>4, <1>5, <1>6, <1>7 DEF Next, DaemonStep

\* A client that listens tracks every live order, or waits for its answer, for every
\* limit of the broker's answers and although the broker goes on between the reads of
\* a snapshot and before the subscription: provided nobody else trades, answers
\* arrive, and no price vanishes when it is rounded to cents.
THEOREM LiveOrdersTracked ==
  ASSUME OnlyClientTrades, AnswersArrive, WholeCentPrices
  PROVE  Spec => []LiveOrdersAreTracked
<1>1. Init => CallPlaceable /\ LiveInv
  BY DEF Init, CallPlaceable, Idle, NewDaemon, LiveInv
<1>2. IInv /\ CallPlaceable /\ LiveInv /\ [Next]_vars => CallPlaceable' /\ LiveInv'
  BY NextKeepsPlaceable, NextKeepsLive
<1>3. LiveInv => LiveOrdersAreTracked
  BY DEF LiveInv, LiveOrdersAreTracked, Streaming, LiveKnown, Known
<1> QED
  BY <1>1, <1>2, <1>3, AlwaysIInv, PTL DEF Spec

-----------------------------------------------------------------------------
(* The client implements SyncedAccount *)

\* A client in construction, or whose construction failed, has no account yet.
StartInv ==
  /\ connected \in BOOLEAN
  /\ daemon.pc = "failed" => account = NoAccount
  /\ daemon.pc \in SyncSteps /\ daemon.within = "start" => account = NoAccount

\* A step that leaves the worker where it is, or takes it past its construction.
LEMMA StartKept ==
  ASSUME StartInv, connected' \in BOOLEAN,
         \/ daemon'.pc = daemon.pc /\ daemon'.within = daemon.within
              /\ (account' = account \/ account # NoAccount)
         \/ daemon'.pc \notin SyncSteps \cup {"failed"}
         \/ account' = NoAccount
         \/ daemon'.pc # "failed" /\ daemon'.within # "start"
  PROVE  StartInv'
BY DEF StartInv

\* A step the caller of the abstract client does not see.
LEMMA Unseen ==
  ASSUME UNCHANGED << cash, shares, executions, connected >>, InFlight' = InFlight,
         Shown' = Shown, daemon'.pc = "failed" <=> daemon.pc = "failed"
  PROVE  UNCHANGED Synced!vars
<1>1. (daemon'.pc = "failed") = (daemon.pc = "failed")
  OBVIOUS
<1> QED
  BY <1>1 DEF Synced!vars

\* A traded account is one.
LEMMA TradedIsAccount ==
  ASSUME NEW acct, TradedAccount(acct)
  PROVE  acct # NoAccount
<1>1. acct \in Account
  BY DEF TradedAccount, GoodAccount
<1> QED
  BY <1>1, InputAssumption, Zenon

\* The balance shown is the account's cash and holdings.
LEMMA ShownKept ==
  ASSUME account' = account \/
           /\ TradedAccount(account) /\ TradedAccount(account')
           /\ account'.cash = account.cash /\ account'.positions = account.positions
  PROVE  Shown' = Shown
<1>1. CASE account' = account
  BY <1>1 DEF Shown, ClientReady
<1>2. CASE account' # account
  <2>1. ClientReady /\ ClientReady'
    BY <1>2, TradedIsAccount DEF ClientReady
  <2> QED
    BY <1>2, <2>1 DEF Shown
<1> QED
  BY <1>1, <1>2

\* A step that leaves the broker, its updates and the account.
LEMMA OnlyPlacesSeen ==
  ASSUME UNCHANGED << brokerVars, stateVars >>,
         daemon'.pc = "failed" <=> daemon.pc = "failed"
  PROVE  UNCHANGED Synced!vars
<1>1. /\ UNCHANGED << cash, shares, executions, connected, queue >>
      /\ UNCHANGED << account, seen >>
  BY DEF brokerVars, stateVars
<1>2. InFlight' = InFlight
  BY <1>1 DEF InFlight, IsNewExecution
<1> QED
  BY <1>1, <1>2, ShownKept, Unseen

\* Calls are not seen: an order placed moves no cash and no shares.
LEMMA CallerUnseen ==
  ASSUME AnswersArrive, IInv, CallPlaceable, StartInv,
         \/ SubmitOrder \/ Liquidate \/ CallerStep
         \/ AnswerLost \/ AnswerWithoutId \/ AnswerWithoutStatus
  PROVE  UNCHANGED Synced!vars /\ StartInv'
<1>1. ASSUME UNCHANGED << brokerVars, stateVars, daemon >>
      PROVE  UNCHANGED Synced!vars /\ StartInv'
  <2>1. UNCHANGED Synced!vars
    BY <1>1, OnlyPlacesSeen
  <2>2. UNCHANGED << connected, account, daemon >>
    BY <1>1 DEF brokerVars, stateVars
  <2> QED
    BY <2>1, <2>2, StartKept DEF StartInv
<1>2. CASE SubmitOrder \/ Liquidate \/ BrokerRefuses
  <2>1. UNCHANGED << brokerVars, stateVars, daemon >>
    BY <1>2 DEF SubmitOrder, Liquidate, Submit, BrokerRefuses
  <2> QED
    BY <1>1, <2>1, SMTT(30)
<1>3. CASE BrokerAccepts
  <2>1. UNCHANGED << cash, shares, executions, connected, queue, account, seen, daemon >>
    BY <1>3 DEF BrokerAccepts, EnterOrder, stateVars
  <2>2. InFlight' = InFlight
    BY <2>1 DEF InFlight, IsNewExecution
  <2> QED
    BY <2>1, <2>2, ShownKept, Unseen, StartKept DEF StartInv
<1>4. CASE TrackSubmittedOrder \/ AnswerWithoutStatus
  <2> PICK status \in FirstStatus : Register(status)
    BY <1>4, AnswerRegisters
  <2>1. UNCHANGED << brokerVars, seen, daemon >> /\ user.pc = "accepted"
    BY DEF Register
  <2>2. UNCHANGED << cash, shares, executions, connected, queue >>
    BY <2>1 DEF brokerVars
  <2>3. InFlight' = InFlight
    BY <2>1, <2>2 DEF InFlight, IsNewExecution
  <2>4. /\ TradedAccount(account) /\ TradedAccount(account')
        /\ account'.cash = account.cash /\ account'.positions = account.positions
    BY OrderTracked
  <2>5. account # NoAccount
    BY <2>4, TradedIsAccount
  <2> QED
    BY <2>1, <2>2, <2>3, <2>4, <2>5, ShownKept, Unseen, StartKept DEF StartInv
<1>5. ~(AnswerLost \/ AnswerWithoutId)
  BY DEF AnswerLost, AnswerWithoutId, Fault, AnswersArrive
<1> QED
  BY <1>2, <1>3, <1>4, <1>5 DEF CallerStep

\* Nothing is in flight while the worker reads.
LEMMA NothingWhileReading ==
  ASSUME IInv, AgreeInv, daemon.pc \in SyncSteps
  PROVE  ~connected /\ queue = <<>> /\ InFlight = {}
<1>1. ~connected /\ queue = <<>>
  BY WhileReading
<1> QED
  BY <1>1 DEF InFlight, Range

\* A synchronization that fails leaves no client, or the balance shown before.
LEMMA SyncRaisesSeen ==
  ASSUME IInv, AgreeInv, StartInv, daemon.pc \in SyncSteps, SyncRaises
  PROVE  [Synced!Next]_(Synced!vars) /\ StartInv'
<1>1. /\ connected' = FALSE /\ queue' = <<>>
      /\ daemon' = Daemon(IF daemon.within = "start" THEN "failed" ELSE "recover")
      /\ UNCHANGED << cash, shares, executions, account, seen >>
  BY DEF SyncRaises, stateVars
<1>2. ~connected /\ InFlight = {} /\ InFlight' = {}
  BY <1>1, NothingWhileReading DEF InFlight, Range
<1>3. UNCHANGED connected
  BY <1>1, <1>2 DEF StartInv
<1>4. Shown' = Shown
  BY <1>1, ShownKept
<1>5. CASE daemon.within = "start"
  <2>1. daemon'.pc = "failed" /\ account = NoAccount
    BY <1>1, <1>5, DaemonAt DEF StartInv
  <2>2. Synced!Close
    <3>1. Shown = NoAccount
      BY <2>1 DEF Shown, ClientReady
    <3>2. (daemon'.pc = "failed") = TRUE
      BY <2>1
    <3> QED
      BY <1>1, <1>2, <1>3, <1>4, <3>1, <3>2 DEF Synced!Close
  <2> QED
    BY <1>1, <2>1, <2>2 DEF Synced!Next, StartInv
<1>6. CASE daemon.within # "start"
  <2>1. daemon'.pc = "recover" /\ daemon.pc # "failed"
    BY <1>1, <1>6, DaemonAt DEF SyncSteps
  <2>2. UNCHANGED Synced!vars
    BY <1>1, <1>2, <1>3, <1>4, <2>1, Unseen
  <2>3. StartInv'
    BY <1>1, <2>1, StartKept DEF SyncSteps
  <2> QED
    BY <2>2, <2>3
<1> QED
  BY <1>5, <1>6

\* A snapshot shows the broker's balance.
LEMMA SnapshotSeen ==
  ASSUME IInv, AgreeInv, daemon.pc = "cash", UNCHANGED << cash, shares, executions >>,
         ~connected', queue' = <<>>, StartInv, connected' \in BOOLEAN,
         CanBootstrap(FromDecimal(cash), daemon.positions, SnapshotOrders, 1),
         account' = BootstrapCore(FromDecimal(cash), daemon.positions, SnapshotOrders, 1),
         daemon'.pc # "failed"
  PROVE  Synced!Refresh
<1> DEFINE acct == BootstrapCore(FromDecimal(cash), daemon.positions, SnapshotOrders, 1)
<1>1. ~connected /\ InFlight = {} /\ InFlight' = {}
  BY NothingWhileReading DEF SyncSteps, InFlight, Range
<1>2. UNCHANGED connected
  BY <1>1 DEF StartInv
<1>3. acct.cash = FromDecimal(cash) /\ acct.positions = daemon.positions
  BY DEF BootstrapCore
<1>4. \A symbol \in Symbols : Held(acct.positions, symbol) = shares[symbol]
  BY <1>3 DEF AgreeInv, ReadInv
<1>5. acct # NoAccount
  BY SnapshotOpens, TradedIsAccount DEF IInv, ClientInv, BrokerInv
<1> HIDE DEF acct
<1>6. Shown' = [cash |-> FromDecimal(cash), shares |-> shares]
  <2>1. [s \in Symbols |-> PositionOrEmpty(acct.positions, s).quantity] = shares
    <3>1. shares \in [Symbols -> Int]
      BY DEF IInv, BrokerInv
    <3> QED
      BY <1>4, <3>1 DEF Held
  <2>2. account' = acct
    BY DEF acct
  <2> QED
    BY <1>3, <1>5, <2>1, <2>2 DEF Shown, ClientReady
<1>7. (daemon'.pc = "failed") = (daemon.pc = "failed")
  OBVIOUS
<1> QED
  BY <1>1, <1>2, <1>6, <1>7 DEF Synced!Refresh

\* Every step of a synchronization is one of the abstract client's, or none.
LEMMA SyncSeen ==
  ASSUME IInv, AgreeInv, StartInv,
         ReadPositions \/ ReadOrders \/ ReadCash \/ ReadFails \/ SnapshotWithoutId
  PROVE  [Synced!Next]_(Synced!vars) /\ StartInv'
<1>1. daemon.pc \in SyncSteps
  BY DEF ReadPositions, ReadOrders, ReadCash, ReadFails, SnapshotWithoutId, SyncSteps
<1>2. CASE SyncRaises
  BY <1>1, <1>2, SyncRaisesSeen
<1>3. ASSUME NEW next \in {"orders", "cash"}, daemon'.pc = next,
             daemon'.within = daemon.within, daemon.pc # "failed",
             UNCHANGED << brokerVars, stateVars >>
      PROVE  [Synced!Next]_(Synced!vars) /\ StartInv'
  <2>1. UNCHANGED Synced!vars
    BY <1>3, OnlyPlacesSeen
  <2>2. StartInv'
    <3>1. UNCHANGED << connected, account >>
      BY <1>3 DEF brokerVars, stateVars
    <3> QED
      BY <1>1, <1>3, <3>1 DEF StartInv, SyncSteps
  <2> QED
    BY <2>1, <2>2
<1>4. daemon = [pc |-> daemon.pc, within |-> daemon.within, positions |-> daemon.positions,
                orders |-> daemon.orders, stop |-> daemon.stop]
  BY DEF IInv, ClientInv, DaemonInv
<1>5. CASE ReadPositions /\ ~SyncRaises
  <2>1. /\ daemon.pc = "positions" /\ daemon'.pc = "orders" /\ daemon'.within = daemon.within
        /\ UNCHANGED << brokerVars, stateVars >>
    BY <1>4, <1>5 DEF ReadPositions
  <2> QED
    BY <1>3, <2>1
<1>6. CASE ReadOrders /\ ~SyncRaises
  <2>1. /\ daemon.pc = "orders" /\ daemon'.pc = "cash" /\ daemon'.within = daemon.within
        /\ UNCHANGED << brokerVars, stateVars >>
    BY <1>4, <1>6, ReadOrdersIsComplete
  <2> QED
    BY <1>3, <2>1
<1>7. CASE ReadCash /\ ~SyncRaises
  <2>1. /\ daemon.pc = "cash"
        /\ CanBootstrap(FromDecimal(cash), daemon.positions, SnapshotOrders, 1)
        /\ account' = BootstrapCore(FromDecimal(cash), daemon.positions, SnapshotOrders, 1)
        /\ daemon' = Daemon(IF daemon.within = "handler" THEN "stream" ELSE "connect")
        /\ UNCHANGED brokerVars
    BY <1>7 DEF ReadCash
  <2>2. daemon'.pc \in {"stream", "connect"}
    BY <2>1, DaemonAt
  <2>3. /\ UNCHANGED << cash, shares, executions, connected, queue >>
        /\ ~connected /\ queue = <<>>
    BY <1>1, <2>1, NothingWhileReading DEF brokerVars
  <2>4. ~connected' /\ connected' \in BOOLEAN /\ queue' = <<>>
    BY <2>3, Zenon DEF StartInv
  <2>5. Synced!Refresh
    BY <2>1, <2>2, <2>3, <2>4, SnapshotSeen
  <2> QED
    BY <2>2, <2>4, <2>5, StartKept DEF Synced!Next, SyncSteps
<1>8. CASE SnapshotWithoutId
  <2>1. /\ daemon.pc = "cash" /\ connected' = FALSE /\ queue' = <<>>
        /\ CanBootstrap(FromDecimal(cash), daemon.positions, SnapshotOrders, 1)
        /\ account' = IF daemon.within = "start" THEN NoAccount
             ELSE BootstrapCore(FromDecimal(cash), daemon.positions, SnapshotOrders, 1)
        /\ daemon' = Daemon(IF daemon.within = "start" THEN "failed" ELSE "recover")
        /\ UNCHANGED << cash, shares, executions, seen >>
    BY <1>8 DEF SnapshotWithoutId
  <2>2. ~connected /\ InFlight = {} /\ InFlight' = {}
    BY <1>1, <2>1, NothingWhileReading DEF InFlight, Range
  <2>3. CASE daemon.within = "start"
    <3>1. daemon'.pc = "failed" /\ account = NoAccount /\ account' = NoAccount
      BY <1>1, <2>1, <2>3, DaemonAt DEF StartInv
    <3>2. UNCHANGED connected /\ Shown' = Shown
      BY <2>1, <2>2, <3>1, ShownKept DEF StartInv
    <3>3. Shown = NoAccount
      BY <3>1 DEF Shown, ClientReady
    <3>4. (daemon'.pc = "failed") = TRUE
      BY <3>1
    <3>5. Synced!Close
      BY <2>1, <2>2, <3>2, <3>3, <3>4 DEF Synced!Close
    <3> QED
      BY <2>1, <3>1, <3>5 DEF Synced!Next, StartInv
  <2>4. CASE daemon.within # "start"
    <3>1. daemon'.pc = "recover"
      BY <2>1, <2>4, DaemonAt
    <3>2. Synced!Refresh
      BY <2>1, <2>4, <3>1, SnapshotSeen
    <3> QED
      BY <2>1, <3>1, <3>2, StartKept DEF Synced!Next, SyncSteps
  <2> QED
    BY <2>3, <2>4
<1> QED
  BY <1>2, <1>5, <1>6, <1>7, <1>8 DEF ReadFails

\* The worker subscribes to the balance it shows.
LEMMA SubscribeSeen ==
  ASSUME IInv, AgreeInv, StartInv, Subscribe
  PROVE  Synced!Listen /\ StartInv'
<1>1. /\ daemon.pc = "connect" /\ daemon'.pc = "stream" /\ queue' = <<>> /\ connected' = TRUE
      /\ UNCHANGED << cash, shares, executions, account, seen >>
  BY DEF Subscribe, Daemon, stateVars
<1>2. queue = <<>> /\ HoldingsAgree /\ CashAgrees
  BY <1>1 DEF AgreeInv, LineInv, InStep
<1>3. InFlight = {} /\ InFlight' = {}
  BY <1>1, <1>2 DEF InFlight, Range
<1>4. TradedAccount(account)
  BY <1>1 DEF IInv, ClientInv, DaemonInv, SyncSteps
<1>5. /\ account.cash \in Int /\ shares \in [Symbols -> Int]
      /\ \A symbol : Held(account.positions, symbol) \in Nat
  <2>1. account.positions \in Seq(Position) /\ account.cash \in Int
    BY <1>4, FieldsOfAccount DEF TradedAccount
  <2> QED
    BY <2>1, HeldType DEF IInv, BrokerInv
<1>6. account.cash = FromDecimal(cash) /\ \A s \in Symbols : Held(account.positions, s) = shares[s]
  <2>1. /\ FromDecimal(cash) = account.cash - Paid({})
        /\ \A s \in Symbols : shares[s] = Held(account.positions, s) + Moved({}, s)
    BY <1>2, <1>3 DEF HoldingsAgree, CashAgrees
  <2> QED
    BY <1>5, <2>1, NothingInFlight
<1>7. Shown = [cash |-> FromDecimal(cash), shares |-> shares]
  <2>1. [s \in Symbols |-> PositionOrEmpty(account.positions, s).quantity] = shares
    BY <1>5, <1>6 DEF Held
  <2> QED
    BY <1>4, <1>6, <2>1, TradedIsAccount DEF Shown, ClientReady
<1>8. Shown' = Shown
  BY <1>1, ShownKept
<1>9. (daemon'.pc = "failed") = (daemon.pc = "failed")
  BY <1>1
<1>10. Synced!Listen
  BY <1>1, <1>3, <1>7, <1>8, <1>9 DEF Synced!Listen
<1> QED
  BY <1>1, <1>10, StartKept DEF SyncSteps

\* A stream that ends, an attempt that begins and a worker that stops are not seen.
LEMMA PausesUnseen ==
  ASSUME StartInv, StreamEnds \/ RecoverBrokerSnapshot \/ WorkerStops
  PROVE  UNCHANGED Synced!vars /\ StartInv'
<1>1. /\ UNCHANGED << brokerVars, stateVars >>
      /\ daemon.pc \in {"stream", "connect", "recover"}
      /\ daemon'.pc \in {"recover", "positions", "stopped"}
      /\ daemon'.pc = "positions" => daemon'.within = "recover"
  BY DaemonAt DEF StreamEnds, RecoverBrokerSnapshot, WorkerStops, StartSync, Daemon
<1>2. UNCHANGED connected
  BY <1>1 DEF brokerVars
<1>3. StartInv'
  BY <1>1, <1>2, StartKept DEF StartInv, SyncSteps
<1> QED
  BY <1>1, <1>3, OnlyPlacesSeen

\* Updates that are lost with the stream are forgotten.
LEMMA LossIsInterrupt ==
  ASSUME connected' = FALSE, InFlight' \subseteq InFlight,
         UNCHANGED << cash, shares, executions >>, Shown' = Shown,
         daemon'.pc = "failed" <=> daemon.pc = "failed"
  PROVE  Synced!Interrupt
<1>1. (daemon'.pc = "failed") = (daemon.pc = "failed")
  OBVIOUS
<1>2. {Execution(u) : u \in InFlight'} \in SUBSET {Execution(u) : u \in InFlight}
  OBVIOUS
<1> QED
  BY <1>1, <1>2 DEF Synced!Interrupt

\* A handler that raises ends the stream.
LEMMA HandlerRaisesSeen ==
  ASSUME IInv, StartInv, HandlerRuns, HandlerRaises, UNCHANGED << cash, shares, executions >>
  PROVE  Synced!Interrupt /\ StartInv'
<1>1. /\ connected' = FALSE /\ queue' = <<>> /\ daemon'.pc = "recover"
      /\ account' = account /\ daemon.pc = "stream"
  BY DaemonAt DEF HandlerRaises, HandlerRuns, stateVars
<1>2. InFlight' = {} /\ Shown' = Shown
  BY <1>1, ShownKept DEF InFlight, Range
<1>3. StartInv'
  BY <1>1, StartKept DEF SyncSteps
<1> QED
  BY <1>1, <1>2, <1>3, LossIsInterrupt

\* A handler that returns leaves the worker on its stream.
LEMMA HandlerStays ==
  ASSUME StartInv, HandlerRuns, HandlerReturns
  PROVE  UNCHANGED << connected, daemon >> /\ daemon.pc = "stream" /\ StartInv'
<1>1. UNCHANGED << connected, daemon >> /\ daemon.pc = "stream"
  BY DEF HandlerRuns, HandlerReturns
<1> QED
  BY <1>1, StartKept DEF StartInv, SyncSteps

\* An update that carries no new execution leaves what is in flight when it goes.
LEMMA RepetitionDropped ==
  ASSUME IInv, HandlerRuns, HandlerReturns, seen' = seen,
         ~(IsFillUpdate(Head(queue)) /\ IsNewExecution(Head(queue)))
  PROVE  InFlight' = InFlight
<1>1. queue \in Seq(Update(executions)) /\ queue # <<>> /\ queue' = Tail(queue)
  BY HandlerFacts DEF IInv, BrokerInv, HandlerReturns
<1>2. FlightOf(Tail(queue), seen) = FlightOf(queue, seen)
  BY <1>1, FlightDropped DEF IsNewExecution
<1> QED
  BY <1>1, <1>2 DEF InFlight, FlightOf, IsNewExecution

\* A status change is not seen, one that is refused interrupts.
LEMMA LifecycleSeen ==
  ASSUME IInv, AgreeInv, StartInv, HandleLifecycleUpdate
  PROVE  [Synced!Next]_(Synced!vars) /\ StartInv'
<1> DEFINE status == ToLifecycleStatus(Head(queue))
           id     == orderIds[Head(queue).order.id]
<1>1. /\ HandlerRuns /\ ~IsFillUpdate(Head(queue))
      /\ UNCHANGED << cash, shares, executions >>
      /\ IF ApplyStatusRaises(account, id, status)
         THEN HandlerRaises
         ELSE /\ account' = ApplyStatus(account, id, status)
              /\ HandlerReturns
              /\ UNCHANGED seen
  BY DEF HandleLifecycleUpdate
<1>2. status \in PythonStatus /\ TradedAccount(account)
  BY <1>1, HandlerFacts, LifecycleStatusConverted
<1> HIDE DEF status, id
<1>3. CASE ApplyStatusRaises(account, id, status)
  BY <1>1, <1>3, HandlerRaisesSeen DEF Synced!Next
<1>4. CASE ~ApplyStatusRaises(account, id, status)
  <2>1. \/ IsStaleStatus(GetOrder(account.orders, id).status, status)
        \/ CanSetAccountOrderStatus(account, id, ToDafnyOrderStatus[status])
    BY <1>4 DEF ApplyStatusRaises
  <2>2. account' = ApplyStatus(account, id, status) /\ HandlerReturns /\ UNCHANGED seen
    BY <1>1, <1>4
  <2>3. Shown' = Shown
    <3>1. SameBalances(account, account') /\ TradedAccount(account')
      BY <1>2, <2>1, <2>2, StatusLeavesBalances, ApplyStatusKeeps
    <3> QED
      BY <1>2, <3>1, ShownKept DEF SameBalances
  <2>4. InFlight' = InFlight
    BY <1>1, <2>2, RepetitionDropped
  <2> QED
    BY <1>1, <2>2, <2>3, <2>4, Unseen, HandlerStays
<1> QED
  BY <1>3, <1>4

\* An execution that is applied is one the client was told of, and is pending no more.
LEMMA FillSeen ==
  ASSUME IInv, AgreeInv, HandlerRuns, HandlerReturns,
         IsTracked(Head(queue)), IsFillUpdate(Head(queue)), IsNewExecution(Head(queue)),
         NEW id, id = orderIds[Head(queue).order.id],
         CanUpdate(account, ToVQCFill(Head(queue), nextExecutionId, id)),
         account' = UpdateCore(account, ToVQCFill(Head(queue), nextExecutionId, id)),
         seen' = seen \cup {Head(queue).execution_id},
         UNCHANGED << cash, shares, executions >>
  PROVE  Synced!Apply
<1> DEFINE u    == Head(queue)
           e    == Execution(u)
           rest == InFlight'
           q    == Signed(u)
<1>1. /\ u \in Update(executions) /\ executions \in Nat
      /\ account'.cash = account.cash - q * FromDecimal(Price)
      /\ \A symbol :
           /\ Held(account.positions, symbol) \in Nat
           /\ Held(account'.positions, symbol) = Held(account.positions, symbol)
                + (IF u.order.symbol = symbol THEN q ELSE 0)
      /\ u \notin rest /\ InFlight = rest \cup {u}
  <2> HIDE DEF rest
  <2> QED
    BY FillHandled DEF rest
<1>2. TradedAccount(account) /\ TradedAccount(account')
  <2>1. TradedAccount(account) /\ u \in Update(executions) /\ executions \in Nat
    BY HandlerFacts
  <2> QED
    BY <2>1, ExecutionConverted, UpdateKeeps
<1>3. ClientReady /\ ClientReady'
  BY <1>2, TradedIsAccount DEF ClientReady
<1>4. e.id = u.execution_id /\ e.symbol = u.order.symbol /\ e.qty = q
  BY DEF Execution
<1>5. u.order.symbol \in Symbols /\ q \in Int
  BY <1>1, UpdateFields
<1>6. \A v \in rest : Execution(v) # e
  <2> SUFFICES ASSUME NEW v \in rest, Execution(v) = e PROVE FALSE
    OBVIOUS
  <2>1. Execution(v).id = v.execution_id
    BY DEF Execution
  <2>2. v \in InFlight /\ u \in InFlight
    BY <1>1
  <2>3. /\ v \in Range(queue) /\ IsFillUpdate(v) /\ u \in Range(queue) /\ IsFillUpdate(u)
        /\ v.execution_id = u.execution_id
    BY <1>4, <2>1, <2>2 DEF InFlight
  <2>4. v = u
    BY <2>3 DEF AgreeInv, HeardInv, OneOfEach
  <2> QED
    BY <1>1, <2>4
<1>7. {Execution(v) : v \in rest} = {Execution(v) : v \in InFlight} \ {e}
  <2> HIDE DEF rest, e
  <2>1. InFlight = rest \cup {u} /\ e = Execution(u)
    BY <1>1 DEF e
  <2> QED
    BY <1>6, <2>1
<1>8. e \in {Execution(v) : v \in InFlight}
  BY <1>1
<1>9. Shown = [cash   |-> account.cash,
               shares |-> [s \in Symbols |-> Held(account.positions, s)]]
  BY <1>3 DEF Shown, Held
<1>10. Shown' = [cash   |-> account'.cash,
                 shares |-> [s \in Symbols |-> Held(account'.positions, s)]]
  BY <1>3, SMTT(30) DEF Shown, Held
<1>11. Shown' = Synced!After(Shown, e)
  <2> HIDE DEF u, e, q, rest
  <2> DEFINE held == [s \in Symbols |-> Held(account.positions, s)]
  <2>1. [s \in Symbols |-> Held(account'.positions, s)]
          = [held EXCEPT ![e.symbol] = held[e.symbol] + e.qty]
    <3>1. \A s \in Symbols :
            Held(account'.positions, s)
              = IF s = e.symbol THEN Held(account.positions, s) + e.qty
                ELSE Held(account.positions, s)
      BY <1>1, <1>4, <1>5
    <3> QED
      BY <1>4, <1>5, <3>1
  <2>2. Shown.cash = account.cash /\ Shown.shares = held
    BY <1>9
  <2> QED
    BY <1>1, <1>4, <1>10, <2>1, <2>2, ZenonT(30) DEF Synced!After
<1>12. UNCHANGED << connected, daemon >>
  BY DEF HandlerReturns
<1>13. (daemon'.pc = "failed") = (daemon.pc = "failed")
  BY <1>12
<1> HIDE DEF u, e, q
<1> QED
  BY <1>7, <1>8, <1>11, <1>12, <1>13, SMTT(30) DEF Synced!Apply, rest

\* A fill is applied, ignored as a repetition, or interrupts.
LEMMA HandleFillSeen ==
  ASSUME IInv, AgreeInv, StartInv, HandleFill
  PROVE  [Synced!Next]_(Synced!vars) /\ StartInv'
<1> DEFINE u    == Head(queue)
           id   == orderIds[u.order.id]
           fill == ToVQCFill(u, nextExecutionId, id)
<1>1. /\ HandlerRuns /\ IsTracked(u) /\ IsFillUpdate(u)
      /\ UNCHANGED << cash, shares, executions >>
      /\ IF ~IsNewExecution(u)
         THEN HandlerReturns /\ UNCHANGED << account, seen >>
         ELSE IF CanUpdate(account, fill)
         THEN /\ account' = UpdateCore(account, fill)
              /\ seen' = seen \cup {u.execution_id}
              /\ HandlerReturns
         ELSE HandlerRaises
  BY DEF HandleFill, stateVars
<1>2. CASE ~IsNewExecution(u)
  <2>1. HandlerReturns /\ UNCHANGED << account, seen >>
    BY <1>1, <1>2
  <2>2. InFlight' = InFlight
    BY <1>1, <1>2, <2>1, RepetitionDropped
  <2> QED
    BY <1>1, <2>1, <2>2, Unseen, ShownKept, HandlerStays
<1>3. CASE IsNewExecution(u) /\ CanUpdate(account, fill)
  BY <1>1, <1>3, FillSeen, HandlerStays DEF Synced!Next
<1>4. CASE IsNewExecution(u) /\ ~CanUpdate(account, fill)
  BY <1>1, <1>4, HandlerRaisesSeen DEF Synced!Next
<1> QED
  BY <1>2, <1>3, <1>4

\* An execution at the broker is one of the abstract broker's.
LEMMA ExecuteSeen ==
  ASSUME WholeCents, IInv, AgreeInv, connected, UNCHANGED clientVars,
         NEW k \in DOMAIN book, Execute(k)
  PROVE  Synced!Execute
<1>1. PICK u \in Update(executions') :
        /\ IsFillUpdate(u) /\ u.execution_id = executions + 1 /\ u.qty > 0
        /\ shares' = [shares EXCEPT ![u.order.symbol] = shares[u.order.symbol] + Signed(u)]
        /\ cash' = cash - Signed(u) * Price
        /\ executions' = executions + 1 /\ connected' = connected
        /\ queue' = Append(queue, u)
  BY Executed DEF IInv
<1>2. /\ executions' \in Nat /\ cash \in Int /\ shares \in [Symbols -> Int]
      /\ cash % UnitsPerCent = 0 /\ Price \in Int /\ Price % UnitsPerCent = 0
  <2>1. executions' \in Nat /\ cash \in Int /\ shares \in [Symbols -> Int]
    BY <1>1 DEF IInv, BrokerInv
  <2>2. cash % UnitsPerCent = 0 /\ Price \in Int /\ Price % UnitsPerCent = 0
    BY InputAssumption DEF AgreeInv, WholeCents
  <2> QED
    BY <2>1, <2>2
<1>3. account' = account /\ daemon' = daemon
  BY DEF clientVars
<1>4. u.order.symbol \in Symbols /\ Signed(u) \in Int /\ Signed(u) # 0
  <2>1. u.order.symbol \in Symbols /\ Signed(u) \in Int /\ u.qty \in Nat
    BY <1>2, UpdateFields
  <2> QED
    BY <1>1, <2>1 DEF Signed
<1>5. InFlight' = InFlight \cup {u}
  BY <1>1, ExecutionSent
<1> DEFINE e == Execution(u)
<1>6. e.id = executions' /\ e.symbol = u.order.symbol /\ e.qty = Signed(u)
  BY <1>1 DEF Execution
<1>7. FromDecimal(cash') = FromDecimal(cash) - e.qty * FromDecimal(Price)
  <2> DEFINE q == Signed(u)
  <2>1. q \in Int /\ cash' = cash - q * Price /\ e.qty = q
    BY <1>1, <1>4, <1>6
  <2> HIDE DEF q, e
  <2> QED
    BY <1>2, <2>1, CashConverted
<1> HIDE DEF e
<1>8. [cash |-> FromDecimal(cash), shares |-> shares]'
        = Synced!After([cash |-> FromDecimal(cash), shares |-> shares], e)
  BY <1>1, <1>2, <1>6, <1>7 DEF Synced!After
<1>9. /\ e \in {Execution(v) : v \in InFlight'}
      /\ {Execution(v) : v \in InFlight'} = {Execution(v) : v \in InFlight} \cup {e}
  BY <1>5 DEF e
<1>10. Shown' = Shown
  BY <1>3, ShownKept
<1>11. (daemon'.pc = "failed") = (daemon.pc = "failed")
  BY <1>3
<1>12. e.symbol \in Symbols /\ e.qty \in Int \ {0}
  BY <1>4, <1>6
<1>13. connected' = connected /\ executions' = executions + 1
  BY <1>1
<1> QED
  BY <1>6, <1>8, <1>9, <1>10, <1>11, <1>12, <1>13 DEF Synced!Execute

\* Of the broker's moves only executions are seen.
LEMMA BrokerSeen ==
  ASSUME QuietBroker, WholeCents, IInv, AgreeInv, StartInv, BrokerMoves
  PROVE  [Synced!Next]_(Synced!vars) /\ StartInv'
<1>1. connected /\ UNCHANGED clientVars
  BY DEF BrokerMoves, QuietBroker, Quiet
<1>2. account' = account /\ daemon' = daemon
  BY <1>1 DEF clientVars
<1>3. ASSUME NEW k \in DOMAIN book,
             NEW status \in {"new", "rejected", "pending_cancel", "canceled", "done_for_day"},
             Move(k, [book[k] EXCEPT !.status = status], status)
      PROVE  UNCHANGED Synced!vars /\ connected' = connected
  <2>1. InFlight' = InFlight
    BY <1>1, <1>3, MoveSent
  <2>2. UNCHANGED << cash, shares, executions, connected >>
    BY <1>3 DEF Move
  <2> QED
    BY <1>2, <2>1, <2>2, ShownKept, Unseen
<1>4. ASSUME NEW k \in DOMAIN book, Execute(k)
      PROVE  Synced!Execute /\ connected' = connected
  BY <1>1, <1>4, ExecuteSeen DEF Execute
<1>5. PICK k \in DOMAIN book :
        OpenOrder(k) \/ RejectOrder(k) \/ RequestCancel(k) \/ CancelOrder(k)
          \/ CloseDay(k) \/ Execute(k)
  BY DEF BrokerMoves
<1>6. CASE Execute(k)
  BY <1>2, <1>4, <1>6, StartKept DEF StartInv, Synced!Next
<1>7. CASE OpenOrder(k) \/ RejectOrder(k) \/ RequestCancel(k) \/ CancelOrder(k) \/ CloseDay(k)
  <2>1. \E status \in {"new", "rejected", "pending_cancel", "canceled", "done_for_day"} :
          Move(k, [book[k] EXCEPT !.status = status], status)
    BY <1>7 DEF OpenOrder, RejectOrder, RequestCancel, CancelOrder, CloseDay
  <2>2. UNCHANGED Synced!vars /\ connected' = connected
    BY <1>3, <2>1
  <2> QED
    BY <1>2, <2>2, StartKept DEF StartInv
<1> QED
  BY <1>5, <1>6, <1>7

\* A stream that is lost interrupts; repetitions and changes of order are not seen.
LEMMA StreamFaultSeen ==
  ASSUME IInv, StartInv, StreamFault
  PROVE  [Synced!Next]_(Synced!vars) /\ StartInv'
<1>1. /\ Disconnect \/ Duplicate \/ Reorder
      /\ UNCHANGED << account, seen, daemon >>
  BY DEF StreamFault, clientVars
<1>2. /\ UNCHANGED << cash, shares, executions >> /\ Shown' = Shown
      /\ Disconnect => connected' = FALSE
      /\ Duplicate \/ Reorder => connected' = connected
  BY <1>1, ShownKept DEF Disconnect, Duplicate, Reorder
<1>3. /\ Disconnect => Range(queue') \subseteq Range(queue)
      /\ Duplicate \/ Reorder => Range(queue') = Range(queue)
  BY FaultyElements DEF IInv, BrokerInv
<1>4. StartInv'
  BY <1>1, <1>2, StartKept DEF StartInv
<1>5. CASE Disconnect
  <2>1. InFlight' \subseteq InFlight
    BY <1>1, <1>3, <1>5 DEF InFlight, IsNewExecution
  <2> QED
    BY <1>1, <1>2, <1>4, <1>5, <2>1, LossIsInterrupt DEF Synced!Next
<1>6. CASE Duplicate \/ Reorder
  <2>1. InFlight' = InFlight
    BY <1>1, <1>3, <1>6 DEF InFlight, IsNewExecution
  <2> QED
    BY <1>1, <1>2, <1>4, <1>6, <2>1, Unseen
<1> QED
  BY <1>1, <1>5, <1>6

\* A new process shows nothing.
LEMMA RestartSeen ==
  ASSUME Restart
  PROVE  Synced!Restart /\ StartInv'
<1>1. /\ account' = NoAccount /\ connected' = FALSE /\ queue' = <<>> /\ daemon' = NewDaemon
      /\ UNCHANGED << cash, shares, executions >>
  BY DEF Restart
<1>2. (daemon'.pc = "failed") = FALSE
  BY <1>1 DEF NewDaemon
<1>3. InFlight' = {} /\ Shown' = NoAccount
  BY <1>1 DEF InFlight, Range, Shown, ClientReady
<1> QED
  BY <1>1, <1>2, <1>3 DEF Synced!Restart, StartInv

\* Every step of the client, its broker and the stream is one of the abstract
\* client's, or one its caller does not see.
LEMMA NextSeen ==
  ASSUME QuietBroker, AnswersArrive, WholeCents, IInv, CallPlaceable, AgreeInv, StartInv,
         [Next]_vars
  PROVE  [Synced!Next]_(Synced!vars) /\ StartInv'
<1>1. CASE \/ SubmitOrder \/ Liquidate \/ CallerStep
           \/ AnswerLost \/ AnswerWithoutId \/ AnswerWithoutStatus
  BY <1>1, CallerUnseen
<1>2. CASE ReadPositions \/ ReadOrders \/ ReadCash \/ ReadFails \/ SnapshotWithoutId
  BY <1>2, SyncSeen
<1>3. CASE Subscribe
  BY <1>3, SubscribeSeen DEF Synced!Next
<1>4. CASE StreamEnds \/ RecoverBrokerSnapshot \/ WorkerStops
  BY <1>4, PausesUnseen
<1>5. ~HandleUntracked
  BY AllHeardTracked DEF HandleUntracked
<1>6. CASE HandleMalformed
  BY <1>6, HandlerRaisesSeen DEF HandleMalformed, Synced!Next
<1>7. CASE OthersTrade
  BY <1>7 DEF OthersTrade, QuietBroker
<1>8. CASE Restart
  BY <1>8, RestartSeen DEF Synced!Next
<1>9. CASE Stop \/ UNCHANGED vars
  <2>1. /\ UNCHANGED << brokerVars, stateVars >>
        /\ daemon'.pc = daemon.pc /\ daemon'.within = daemon.within
    <3>1. CASE Stop
      BY <3>1 DEF Stop, IInv, ClientInv, DaemonInv
    <3>2. CASE UNCHANGED vars
      BY <3>2 DEF vars, clientVars, stateVars
    <3> QED
      BY <1>9, <3>1, <3>2
  <2>2. UNCHANGED << connected, account >>
    BY <2>1 DEF brokerVars, stateVars
  <2> QED
    BY <2>1, <2>2, OnlyPlacesSeen, StartKept DEF StartInv
<1> QED
  BY <1>1, <1>2, <1>3, <1>4, <1>5, <1>6, <1>7, <1>8, <1>9, LifecycleSeen, HandleFillSeen,
     BrokerSeen, StreamFaultSeen DEF Next, DaemonStep

\* A client starts as an abstract one: it shows nothing and listens to nothing.
LEMMA InitSeen ==
  ASSUME WholeCents, Init
  PROVE  Synced!Init /\ StartInv
<1>1. PICK a \in Accounts : shares = a.shares /\ cash = a.cash
  BY DEF Init, BrokerInit
<1>2. /\ executions = 0 /\ connected = FALSE /\ queue = <<>> /\ account = NoAccount
      /\ daemon = NewDaemon
  BY DEF Init, BrokerInit
<1>3. shares \in [Symbols -> Int] /\ FromDecimal(cash) \in Int
  BY <1>1, InputAssumption, WholeCentsConverted, ZenonT(30) DEF WholeCents
<1>4. (daemon.pc = "failed") = FALSE
  BY <1>2 DEF NewDaemon
<1>5. InFlight = {} /\ Shown = NoAccount
  BY <1>2 DEF InFlight, Range, Shown, ClientReady
<1> QED
  BY <1>2, <1>3, <1>4, <1>5 DEF Synced!Init, Synced!Balance, StartInv

\* The client implements SyncedAccount: whatever calls are made, however the broker
\* moves the orders and the network loses, repeats or reorders the updates, whenever
\* reads fail, records are malformed and the process dies, the balance shown is one
\* the broker had and every execution is applied to it once; provided the broker
\* rests while nobody listens and nobody else trades, answers arrive, and amounts
\* are in whole cents.
THEOREM ClientImplementsSynced ==
  ASSUME QuietBroker, AnswersArrive, WholeCentPrices, WholeCents
  PROVE  Spec => ImplementsSyncedAccount
<1>1. Init => CallPlaceable /\ AgreeInv /\ StartInv /\ Synced!Init
  BY InitAgrees, InitSeen DEF Init, CallPlaceable, Idle
<1>2. IInv /\ CallPlaceable /\ AgreeInv /\ StartInv /\ [Next]_vars
        => CallPlaceable' /\ AgreeInv' /\ StartInv' /\ [Synced!Next]_(Synced!vars)
  BY NextKeepsPlaceable, NextKeepsAgreement, NextSeen
<1> QED
  BY <1>1, <1>2, AlwaysIInv, PTL DEF Spec, ImplementsSyncedAccount, Synced!Safety
=============================================================================

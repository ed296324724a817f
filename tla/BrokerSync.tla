----------------------------- MODULE BrokerSync -----------------------------
(***************************************************************************)
(* The broker-backed client: the caller's thread (vqc_client.py), the      *)
(* synchronization worker (vqc_daemon.py), the order lifecycle they share  *)
(* (vqc_lifecycle.py) and the broker.  The two threads share one account   *)
(* under a re-entrant lock that a submission holds across the broker's     *)
(* answer and a synchronization across its three reads, so the broker can  *)
(* move between the steps of either while the other thread waits.  The     *)
(* account itself is only touched through the verified operations; one     *)
(* whose contract fails raises.                                            *)
(***************************************************************************)
EXTENDS AccountOps, OrderSubmission, BrokerAdapter, Broker, Functions, FiniteSetsExt

CONSTANTS
  Requests,       \* orders a caller may ask for
  NoAccount,      \* the account before the first synchronization
  SnapshotLimit,  \* open orders asked for at most, and refused as perhaps too few
  Env,            \* what the environment may do besides the plain case
  MaxOrders,      \* bound: orders in the broker's book
  MaxFaults,      \* bound: faults in one behaviour
  MaxQueue        \* bound: updates sent and not handled while the broker moves on

\* "foreign": orders from elsewhere; "unquiet": the broker moves while nobody
\* listens or while a snapshot is read; "early_cancel": an order is cancelled
\* before its submission is answered; "margin": the broker accepts sells of
\* shares the account does not hold; "next_day": an order that is done for the
\* day goes on the day after; "stop": the worker is told to stop.
Circumstances == {"foreign", "unquiet", "early_cancel", "margin", "next_day", "stop"}

\* "lost_answer": a submission fails after the broker has accepted it, or its
\* answer cannot be converted; "answer_no_id", "snapshot_no_id": such a record
\* lacks its order's id; "answer_no_status": the answer's status is missing or
\* none the adapter knows; "malformed": an update lacks a required field, or one
\* cannot be converted.
FaultKinds == {"disconnect", "duplicate", "reorder", "read_error", "refuse",
               "lost_answer", "answer_no_id", "answer_no_status", "snapshot_no_id",
               "malformed", "restart"}

ASSUME EnvAssumption ==
  /\ Env \subseteq Circumstances \cup FaultKinds
  /\ SnapshotLimit \in Nat /\ MaxOrders \in Nat /\ MaxFaults \in Nat /\ MaxQueue \in Nat

OptionalPrice == Int \cup {Missing, Invalid}

\* The orders the broker keeps: none is filled beyond its quantity, and a type
\* that needs a price has one.
BrokerOrder ==
  {raw \in [id : Nat, symbol : Symbols, side : PythonSide, qty : Nat, type : PythonType,
            limit_price : OptionalPrice, stop_price : OptionalPrice,
            time_in_force : OrderTimeInForce, filled_qty : Nat, status : BrokerStatuses] :
     /\ raw.filled_qty <= raw.qty
     /\ NeedsLimitPrice(raw.type) => raw.limit_price \in Int
     /\ NeedsStopPrice(raw.type) => raw.stop_price \in Int}

\* What a caller may pass, good or bad.
CallerRequest ==
  [symbol : DOMAIN Spellings, quantity : Int \cup {Invalid}, type : PythonType,
   limit_price : OptionalPrice, stop_price : OptionalPrice, extended_hours : BOOLEAN,
   time_in_force : OrderTimeInForce]

\* Callers spell instruments the broker trades, or nothing; the broker numbers
\* its orders and moves cash and whole shares; without margin it has let nobody
\* offer more shares than are held.
ASSUME InputAssumption ==
  /\ IsFiniteSet(Symbols) /\ Symbols \subseteq STRING \ {""}
  /\ Symbols \subseteq DOMAIN Spellings
  /\ \A symbol \in DOMAIN Spellings : Spellings[symbol] \in Symbols \cup {""}
  /\ Price \in Int /\ Missing \notin Int /\ NoAccount \notin Account
  /\ Requests \subseteq CallerRequest
  /\ \A a \in Accounts :
       /\ a.book \in Seq(BrokerOrder) /\ \A k \in DOMAIN a.book : a.book[k].id = k
       /\ a.shares \in [Symbols -> Int] /\ a.cash \in Int
       /\ "margin" \notin Env =>
            \A symbol \in Symbols : Committed(a.book, symbol) <= a.shares[symbol]

VARIABLES
  account,          \* the client's verified account
  orderIds,         \* broker order id -> local order id
  seen,             \* execution ids applied
  nextExecutionId,  \* local id of the next execution
  user,             \* [pc, request, key]: the caller's thread
  daemon,           \* [pc, within, positions, orders, stop]: the worker
  faults            \* faults so far

stateVars == << account, orderIds, seen, nextExecutionId >>
clientVars == << account, orderIds, seen, nextExecutionId, user, daemon >>
vars == << brokerVars, clientVars, faults >>

-----------------------------------------------------------------------------
(* The lock and the two threads *)

SyncSteps == {"positions", "orders", "cash"}
DaemonSteps == SyncSteps \cup {"connect", "stream", "recover", "stopped", "failed"}

\* _state_lock is held from the first step of a call to its last.
CallerHoldsLock == user.pc # "idle"
DaemonHoldsLock == daemon.pc \in SyncSteps

\* The constructor has returned, so the caller has a client to call.
ClientReady == account # NoAccount

Idle == [pc |-> "idle", request |-> <<>>, key |-> 0]

\* The worker at a step, its stop event as it was.
Daemon(pc) ==
  [pc |-> pc, within |-> "", positions |-> <<>>, orders |-> <<>>, stop |-> daemon.stop]

StartSync(within) == daemon' = [Daemon("positions") EXCEPT !.within = within]

NewDaemon == [pc |-> "positions", within |-> "start", positions |-> <<>>, orders |-> <<>>,
              stop |-> FALSE]

Init ==
  /\ BrokerInit
  /\ account = NoAccount
  /\ orderIds = <<>>
  /\ seen = {}
  /\ nextExecutionId = 1
  /\ user = Idle
  /\ daemon = NewDaemon
  /\ faults = 0

\* A fault of a kind the environment has, while the bound allows one more.
Fault(kind) ==
  /\ kind \in Env
  /\ faults < MaxFaults
  /\ faults' = faults + 1

-----------------------------------------------------------------------------
(* Status changes without economics: OrderLifecycle.ApplyStatus *)

IsFillStatus(status) == status \in {"partially_filled", "filled"}

\* A status change that does nothing: a repetition, or a late return to pending.
IsStaleStatus(current, status) == StatusName[current] = status \/ status = "pending"

\* The path refuses fill statuses, and the core refuses illegal transitions.
ApplyStatusRaises(acct, id, status) ==
  \/ IsFillStatus(status)
  \/ /\ ~IsStaleStatus(GetOrder(acct.orders, id).status, status)
     /\ ~CanSetAccountOrderStatus(acct, id, ToDafnyOrderStatus[status])

ApplyStatus(acct, id, status) ==
  IF IsStaleStatus(GetOrder(acct.orders, id).status, status)
  THEN acct
  ELSE SetOrderStatusCore(acct, id, ToDafnyOrderStatus[status])

-----------------------------------------------------------------------------
(* The caller *)

\* Mutant: a sell reserves nothing until the broker has opened it.
Reserved_OpenOnly(symbol) ==
  SumSeq([i \in DOMAIN account.orders |->
            LET order == account.orders[i]
            IN  IF order.symbol = symbol /\ order.side = "Sell" /\ order.status = "Open"
                THEN RemainingQuantity(order) ELSE 0])

\* Shares of open sells not yet filled, which further sells may not use.
Reserved(symbol) ==
  SumSeq([i \in DOMAIN account.orders |->
            LET order == account.orders[i]
            IN  IF /\ order.symbol = symbol
                   /\ order.side = "Sell"
                   /\ order.status \in {"Pending", "Open", "PartiallyFilled"}
                THEN RemainingQuantity(order) ELSE 0])

\* Mutant: open sells reserve nothing.
AvailableToSell_Unreserved(symbol) == PositionOrEmpty(account.positions, symbol).quantity

AvailableToSell(symbol) ==
  PositionOrEmpty(account.positions, symbol).quantity - Reserved(symbol)

\* The guards of a submission; past them the lock is held and the broker called.
Submit(request) ==
  /\ ClientReady /\ ~CallerHoldsLock /\ ~DaemonHoldsLock
  /\ Len(book) < MaxOrders
  /\ PassesClientChecks(request)
  /\ LET order == NativeOrder(request)
     IN  order.side = "sell" => order.qty <= AvailableToSell(order.symbol)
  /\ user' = [pc |-> "calling", request |-> request, key |-> 0]
  /\ UNCHANGED << brokerVars, stateVars, daemon, faults >>

SubmitOrder == \E request \in Requests : Submit(request)

\* The whole position is offered in one market sell, through the same guards.
Liquidate ==
  /\ ClientReady
  /\ \E i \in DOMAIN account.positions :
       Submit(MarketOrder(account.positions[i].symbol, 0 - account.positions[i].quantity, "day"))

\* A broker without margin takes a sell only of shares no other sell has taken.
BrokerTakes(order) ==
  order.side = "sell" /\ "margin" \notin Env => order.qty <= Uncommitted(order.symbol)

IsSubmittable(request) == PassesAdapterChecks(request) /\ BrokerTakes(NativeOrder(request))

BrokerAccepts ==
  /\ user.pc = "calling"
  /\ IsSubmittable(user.request)
  /\ EnterOrder(NativeOrder(user.request))
  /\ user' = [user EXCEPT !.pc = "accepted", !.key = Len(book')]
  /\ UNCHANGED << stateVars, daemon, faults >>

\* The adapter or the broker rejects the request, or the call fails: SubmitOrder raises.
BrokerRefuses ==
  /\ user.pc = "calling"
  /\ IF IsSubmittable(user.request) THEN Fault("refuse") ELSE UNCHANGED faults
  /\ user' = Idle
  /\ UNCHANGED << brokerVars, stateVars, daemon >>

NextOrderId(orders) == Max({0} \cup {orders[i].orderId : i \in DOMAIN orders}) + 1

\* The response's fills are left to the stream; any other status is applied.
ResponseStatusApplies(status) == status \notin {"pending", "partially_filled", "filled"}

\* The answer is registered without its fills, and its status is applied; a status
\* change of an order just placed is never refused.  If the core refuses the order
\* the caller gets the exception and nothing is registered.
Register(status) ==
  /\ user.pc = "accepted"
  /\ user' = Idle
  /\ LET raw    == book[user.key]
         id     == NextOrderId(account.orders)
         order  == ToVQCOrder(raw, id, 0, "pending")
         placed == PlaceOrderCore(account, order)
     IN  IF CanPlaceOrder(account, order)
         THEN /\ account' = IF ResponseStatusApplies(status)
                            THEN ApplyStatus(placed, id, status)
                            ELSE placed
              /\ orderIds' = [key \in DOMAIN orderIds \cup {user.key} |->
                                IF key = user.key THEN id ELSE orderIds[key]]
         ELSE UNCHANGED << account, orderIds >>
  /\ UNCHANGED << brokerVars, seen, nextExecutionId, daemon >>

TrackSubmittedOrder == Register(GetOrderStatus(book[user.key])) /\ UNCHANGED faults

\* The answer's status cannot be converted, which is only noticed once the order is
\* placed, as pending, and its key is known: the caller gets the exception.
AnswerWithoutStatus == Register("pending") /\ Fault("answer_no_status")

\* The call fails although the broker has accepted, or ToVQCOrder refuses its answer.
AnswerLost ==
  /\ user.pc = "accepted"
  /\ Fault("lost_answer")
  /\ user' = Idle
  /\ UNCHANGED << brokerVars, stateVars, daemon >>

\* The answer has no id: the order is placed before its key is asked for.
AnswerWithoutId ==
  /\ user.pc = "accepted"
  /\ Fault("answer_no_id")
  /\ user' = Idle
  /\ LET order == ToVQCOrder(book[user.key], NextOrderId(account.orders), 0, "pending")
     IN  account' = IF CanPlaceOrder(account, order)
                    THEN PlaceOrderCore(account, order) ELSE account
  /\ UNCHANGED << brokerVars, orderIds, seen, nextExecutionId, daemon >>

-----------------------------------------------------------------------------
(* Synchronization from a broker snapshot: three reads, then Bootstrap *)

\* An exception out of a trade-update handler ends the stream; one out of the
\* constructor leaves no client; one during recovery is retried after a pause.
SyncRaises ==
  /\ daemon' = Daemon(IF daemon.within = "start" THEN "failed" ELSE "recover")
  /\ connected' = FALSE
  /\ queue' = <<>>
  /\ UNCHANGED << book, shares, cash, executions, stateVars, user >>

ReadPositions ==
  /\ daemon.pc = "positions"
  /\ UNCHANGED faults
  /\ LET held == GetPositions
     IN  IF \E i \in DOMAIN held : held[i].qty < 0
         THEN SyncRaises
         ELSE /\ daemon' = [daemon EXCEPT !.pc = "orders",
                              !.positions = [i \in DOMAIN held |-> ToVQCPosition(held[i])]]
              /\ UNCHANGED << brokerVars, stateVars, user >>

\* Mutant: one order fewer is asked for than is taken for a full answer.
OrdersAnswered_Fewer ==
  IF Len(GetOpenOrders) < SnapshotLimit THEN GetOpenOrders
  ELSE SubSeq(GetOpenOrders, 1, SnapshotLimit - 1)

\* The broker's answer to a read of the open orders: no more than it is asked for.
OrdersAnswered ==
  IF Len(GetOpenOrders) <= SnapshotLimit THEN GetOpenOrders
  ELSE SubSeq(GetOpenOrders, 1, SnapshotLimit)

\* A full answer may be part of the orders and is refused.
ReadOrders ==
  /\ daemon.pc = "orders"
  /\ UNCHANGED faults
  /\ IF Len(OrdersAnswered) = SnapshotLimit
     THEN SyncRaises
     ELSE /\ daemon' = [daemon EXCEPT !.pc = "cash", !.orders = OrdersAnswered]
          /\ UNCHANGED << brokerVars, stateVars, user >>

\* Local ids count the snapshot's orders from one.
SnapshotOrders ==
  [i \in DOMAIN daemon.orders |->
     LET raw == daemon.orders[i]
     IN  ToVQCOrder(raw, i, raw.filled_qty, ToVQCStatus(raw.status))]

\* Mutant: the ids of earlier snapshots are kept.
SnapshotOrderIds_Kept ==
  orderIds @@ [key \in {daemon.orders[i].id : i \in DOMAIN daemon.orders} |->
                 CHOOSE i \in DOMAIN daemon.orders : daemon.orders[i].id = key]

SnapshotOrderIds ==
  [key \in {daemon.orders[i].id : i \in DOMAIN daemon.orders} |->
     CHOOSE i \in DOMAIN daemon.orders : daemon.orders[i].id = key]

\* Mutant: a new account forgets which executions it contains.
ReadCash_Forgets ==
  /\ daemon.pc = "cash"
  /\ UNCHANGED faults
  /\ LET balance == FromDecimal(cash)
     IN  IF CanBootstrap(balance, daemon.positions, SnapshotOrders, 1)
         THEN /\ account' = BootstrapCore(balance, daemon.positions, SnapshotOrders, 1)
              /\ orderIds' = SnapshotOrderIds
              /\ seen' = {}
              /\ daemon' = Daemon(IF daemon.within = "handler" THEN "stream" ELSE "connect")
              /\ UNCHANGED << brokerVars, nextExecutionId, user >>
         ELSE SyncRaises

ReadCash ==
  /\ daemon.pc = "cash"
  /\ UNCHANGED faults
  /\ LET balance == FromDecimal(cash)
     IN  IF CanBootstrap(balance, daemon.positions, SnapshotOrders, 1)
         THEN /\ account' = BootstrapCore(balance, daemon.positions, SnapshotOrders, 1)
              /\ orderIds' = SnapshotOrderIds
              /\ daemon' = Daemon(IF daemon.within = "handler" THEN "stream" ELSE "connect")
              /\ UNCHANGED << brokerVars, seen, nextExecutionId, user >>
         ELSE SyncRaises

\* A read fails, or one of its records cannot be converted.
ReadFails ==
  /\ daemon.pc \in SyncSteps
  /\ Fault("read_error")
  /\ SyncRaises

\* An order of the snapshot has no id, which is only noticed once the account is
\* replaced and the map is empty; in the constructor no client is left to tell.
SnapshotWithoutId ==
  /\ daemon.pc = "cash"
  /\ daemon.orders # <<>>
  /\ Fault("snapshot_no_id")
  /\ LET balance == FromDecimal(cash)
     IN  /\ CanBootstrap(balance, daemon.positions, SnapshotOrders, 1)
         /\ account' = IF daemon.within = "start" THEN NoAccount
                       ELSE BootstrapCore(balance, daemon.positions, SnapshotOrders, 1)
  /\ orderIds' = <<>>
  /\ daemon' = Daemon(IF daemon.within = "start" THEN "failed" ELSE "recover")
  /\ connected' = FALSE
  /\ queue' = <<>>
  /\ UNCHANGED << book, shares, cash, executions, seen, nextExecutionId, user >>

-----------------------------------------------------------------------------
(* The trade stream *)

\* Mutant: a told worker goes on.
GoesOn_Always == TRUE

GoesOn == ~daemon.stop

Subscribe ==
  /\ daemon.pc = "connect" /\ GoesOn
  /\ daemon' = Daemon("stream")
  /\ connected' = TRUE
  /\ queue' = <<>>
  /\ UNCHANGED << book, shares, cash, executions, stateVars, user, faults >>

StreamEnds ==
  /\ daemon.pc = "stream" /\ ~connected /\ queue = <<>>
  /\ daemon' = Daemon("recover")
  /\ UNCHANGED << brokerVars, stateVars, user, faults >>

\* The first attempt follows the loss of the stream, a later one the pause.
RecoverBrokerSnapshot ==
  /\ daemon.pc = "recover" /\ GoesOn /\ ~CallerHoldsLock
  /\ StartSync("recover")
  /\ UNCHANGED << brokerVars, stateVars, user, faults >>

\* A worker told to stop notices it between two streams or two attempts.
WorkerStops ==
  /\ daemon.pc \in {"connect", "recover"} /\ ~GoesOn
  /\ daemon' = Daemon("stopped")
  /\ UNCHANGED << brokerVars, stateVars, user, faults >>

HandlerRuns == daemon.pc = "stream" /\ queue # <<>> /\ ~CallerHoldsLock

HandlerRaises ==
  /\ daemon' = Daemon("recover")
  /\ connected' = FALSE
  /\ queue' = <<>>
  /\ UNCHANGED stateVars

HandlerReturns ==
  /\ queue' = Tail(queue)
  /\ UNCHANGED << connected, daemon >>

IsTracked(update) == update.order.id \in DOMAIN orderIds

\* Mutant: an update of an untracked order is dropped.
HandleUntracked_Dropped ==
  /\ HandlerRuns /\ ~IsTracked(Head(queue))
  /\ HandlerReturns
  /\ UNCHANGED << book, shares, cash, executions, stateVars, user, faults >>

HandleUntracked ==
  /\ HandlerRuns /\ ~IsTracked(Head(queue))
  /\ queue' = Tail(queue)
  /\ StartSync("handler")
  /\ UNCHANGED << book, shares, cash, executions, connected, stateVars, user, faults >>

HandleLifecycleUpdate ==
  /\ HandlerRuns /\ IsTracked(Head(queue)) /\ ~IsFillUpdate(Head(queue))
  /\ LET status == ToLifecycleStatus(Head(queue))
         id     == orderIds[Head(queue).order.id]
     IN  IF ApplyStatusRaises(account, id, status)
         THEN HandlerRaises
         ELSE /\ account' = ApplyStatus(account, id, status)
              /\ HandlerReturns
              /\ UNCHANGED << orderIds, seen, nextExecutionId >>
  /\ UNCHANGED << book, shares, cash, executions, user, faults >>

\* Mutant: executions are not remembered.
IsNewExecution_Always(update) == TRUE

IsNewExecution(update) == update.execution_id \notin seen

HandleFill ==
  /\ HandlerRuns /\ IsTracked(Head(queue)) /\ IsFillUpdate(Head(queue))
  /\ LET update == Head(queue)
         fill   == ToVQCFill(update, nextExecutionId, orderIds[update.order.id])
     IN  IF ~IsNewExecution(update)
         THEN HandlerReturns /\ UNCHANGED stateVars
         ELSE IF CanUpdate(account, fill)
         THEN /\ account' = UpdateCore(account, fill)
              /\ seen' = seen \cup {update.execution_id}
              /\ nextExecutionId' = nextExecutionId + 1
              /\ HandlerReturns
              /\ UNCHANGED orderIds
         ELSE HandlerRaises
  /\ UNCHANGED << book, shares, cash, executions, user, faults >>

\* The update lacks a field the handler needs, or its order's id: every field is
\* read before anything is changed.
HandleMalformed ==
  /\ HandlerRuns
  /\ Fault("malformed")
  /\ HandlerRaises
  /\ UNCHANGED << book, shares, cash, executions, user >>

-----------------------------------------------------------------------------
(* The broker's own moves and the faults *)

Quiet == connected /\ ~DaemonHoldsLock

MayCancel(k) == "early_cancel" \in Env \/ user.key # k

BrokerMoves ==
  /\ "unquiet" \in Env \/ Quiet
  /\ Len(queue) < MaxQueue
  /\ \E k \in DOMAIN book :
       \/ OpenOrder(k)
       \/ RejectOrder(k)
       \/ RequestCancel(k)
       \/ MayCancel(k) /\ CancelOrder(k)
       \/ "next_day" \in Env /\ CloseDay(k)
       \/ Execute(k)
  /\ UNCHANGED << clientVars, faults >>

OthersTrade ==
  /\ "foreign" \in Env
  /\ "unquiet" \in Env \/ Quiet
  /\ Len(book) < MaxOrders /\ Len(queue) < MaxQueue
  /\ \E request \in Requests :
       PassesClientChecks(request) /\ ForeignOrder(NativeOrder(request))
  /\ UNCHANGED << clientVars, faults >>

StreamFault ==
  /\ connected
  /\ \/ Fault("disconnect") /\ Disconnect
     \/ Fault("duplicate") /\ Duplicate
     \/ Fault("reorder") /\ Reorder
  /\ UNCHANGED clientVars

\* The client's process dies and a new one is constructed: it keeps nothing.
Restart ==
  /\ Fault("restart")
  /\ account' = NoAccount
  /\ orderIds' = <<>>
  /\ seen' = {}
  /\ nextExecutionId' = 1
  /\ user' = Idle
  /\ daemon' = NewDaemon
  /\ connected' = FALSE
  /\ queue' = <<>>
  /\ UNCHANGED << book, shares, cash, executions >>

\* The stop event is set.
Stop ==
  /\ "stop" \in Env
  /\ daemon' = [daemon EXCEPT !.stop = TRUE]
  /\ UNCHANGED << brokerVars, stateVars, user, faults >>

CallerStep == BrokerAccepts \/ BrokerRefuses \/ TrackSubmittedOrder

DaemonStep ==
  \/ ReadPositions \/ ReadOrders \/ ReadCash
  \/ Subscribe \/ StreamEnds \/ RecoverBrokerSnapshot \/ WorkerStops
  \/ HandleUntracked \/ HandleLifecycleUpdate \/ HandleFill

Next ==
  \/ SubmitOrder \/ Liquidate
  \/ CallerStep \/ AnswerLost \/ AnswerWithoutId \/ AnswerWithoutStatus
  \/ DaemonStep \/ ReadFails \/ SnapshotWithoutId \/ HandleMalformed
  \/ BrokerMoves \/ OthersTrade \/ StreamFault \/ Restart \/ Stop

\* A call to the broker returns or raises and a runnable thread runs; nothing obliges the
\* caller to submit, the broker to move or a fault to happen.
Fairness == WF_vars(CallerStep) /\ WF_vars(DaemonStep)

Spec == Init /\ [][Next]_vars /\ Fairness

-----------------------------------------------------------------------------
(* Invariants *)

\* Each component keeps its type; the maps only speak of orders and executions
\* the broker really has.
TypeOK ==
  /\ ClientReady => account \in Account
  /\ DOMAIN orderIds \subseteq DOMAIN book
  /\ seen \subseteq 1 .. executions
  /\ nextExecutionId \in Nat \ {0}
  /\ user.pc \in {"idle", "calling", "accepted"}
  /\ daemon.pc \in DaemonSteps

\* Whatever the broker and the network do, the account the client shows is one
\* the verified core calls valid, with consistent orders (README.md:9-19).
AccountStaysValid ==
  ClientReady => IsValidAccount(account) /\ HasLifecycleConsistentOrders(account.orders)

\* An order type of the core and a broker's, at the same prices to half a cent.
AsksTheSame(orderType, raw) ==
  /\ orderType.kind = [market |-> "Market", limit |-> "Limit", stop |-> "Stop",
                       stop_limit |-> "StopLimit"][raw.type]
  /\ \A terms \in {<< "limitPrice", raw.limit_price >>, << "stopPrice", raw.stop_price >>} :
       terms[1] \in DOMAIN orderType =>
         2 * (orderType[terms[1]] * UnitsPerCent - terms[2]) \in 0 - UnitsPerCent .. UnitsPerCent

\* The map from broker orders to local orders survives resynchronizations, which
\* renumber the orders, and submissions made between them: two broker orders
\* never share a local one and the local one is the same instruction at the
\* same prices (vqc_daemon.py:49-55, 73-74).
TrackedOrdersMatch ==
  ClientReady =>
    /\ IsInjective(orderIds)
    /\ \A key \in DOMAIN orderIds :
         /\ ExistsOrder(account.orders, orderIds[key])
         /\ LET order == GetOrder(account.orders, orderIds[key])
            IN  /\ order.symbol = book[key].symbol
                /\ order.side = ToDafnyOrderSide[book[key].side]
                /\ order.quantity = book[key].qty
                /\ AsksTheSame(order.orderType, book[key])

\* Shares promised to open sells never exceed the shares held, so no sell fill of
\* a tracked order is ever refused for want of shares, even when positions and
\* orders come from different moments of a snapshot and updates are lost between
\* it and the subscription (vqc_client.py:137-165).  The broker sells nothing
\* short here: a short sale is beyond what any local account can promise.
ReservationHolds ==
  ClientReady =>
    \A symbol \in Symbols :
      Reserved(symbol) <= PositionOrEmpty(account.positions, symbol).quantity

\* At the broker, the client's open sells never exceed the holding: the guard
\* reads the local account, which lags behind the broker.
NoOversell ==
  \A symbol \in Symbols : Uncommitted(symbol) >= 0

\* A client never applies more executions than the broker has made: none twice, also
\* when the account is replaced by a snapshot between an update and its repetition
\* (vqc_daemon.py:120-122).
NoExecutionTwice == nextExecutionId - 1 <= executions

\* Executions sent and neither applied nor to be ignored as repetitions.
InFlight == {update \in Range(queue) : IsFillUpdate(update) /\ IsNewExecution(update)}

Signed(update) == IF update.order.side = "buy" THEN update.qty ELSE 0 - update.qty

Streaming == ClientReady /\ daemon.pc = "stream" /\ connected

\* The shares of a symbol a set of executions moves, what it pays, and what it
\* fills of an order.
Moved(fills, symbol) ==
  SumFunction([u \in fills |-> IF u.order.symbol = symbol THEN Signed(u) ELSE 0])

Paid(fills) == SumFunction([u \in fills |-> Signed(u) * FromDecimal(u.price)])

Filled(fills, key) == SumFunction([u \in fills |-> IF u.order.id = key THEN u.qty ELSE 0])

\* While the stream runs, the account and the updates still in flight add up to
\* the broker's state: no execution is lost or counted twice by a submission, a
\* repetition, a failed update, a reconnection or a restart, and every live
\* order is tracked.
InFlightAgreement ==
  Streaming =>
    /\ \A symbol \in Symbols :
         shares[symbol] =
           PositionOrEmpty(account.positions, symbol).quantity + Moved(InFlight, symbol)
    /\ FromDecimal(cash) = account.cash - Paid(InFlight)
    /\ \A key \in DOMAIN orderIds :
         book[key].filled_qty =
           GetOrder(account.orders, orderIds[key]).filledQuantity + Filled(InFlight, key)
    /\ \A key \in DOMAIN book :
         IsLive(book[key]) => key \in DOMAIN orderIds \cup {user.key}

\* A client that listens tracks every live order, or is about to: no snapshot leaves
\* one out, though the broker moves between the reads and its answer has a limit
\* (alpaca_adapter.py:266-276, vqc_daemon.py:39-55).
LiveOrdersAreTracked ==
  Streaming =>
    \A key \in DOMAIN book :
      IsLive(book[key]) => key \in DOMAIN orderIds \cup {user.key}

\* With nothing in flight and no call under way, the balances the client shows
\* are the broker's.
QuiescentAgreement ==
  Streaming /\ queue = <<>> /\ user = Idle =>
    /\ account.cash = FromDecimal(cash)
    /\ \A symbol \in Symbols :
         PositionOrEmpty(account.positions, symbol).quantity = shares[symbol]

\* A record made from an event that carries no execution asks for no fill status.
LifecycleUpdatesAreNonEconomic ==
  \A update \in Range(queue) :
    ~IsFillUpdate(update) => ~IsFillStatus(ToLifecycleStatus(update))

-----------------------------------------------------------------------------
(* Action and liveness properties *)

\* An order the broker has accepted is never left out of the local account when
\* its submission returns, with a result or with an exception.
AcceptedOrdersAreTracked ==
  [][user.pc = "accepted" /\ user'.pc = "idle" /\ account' # NoAccount
       => user.key \in DOMAIN orderIds']_vars

\* The local picture of the broker is complete and up to date.
Agreement ==
  /\ QuiescentAgreement
  /\ Streaming /\ queue = <<>> /\ user = Idle
  /\ \A key \in DOMAIN book :
       IsLive(book[key]) =>
         /\ key \in DOMAIN orderIds
         /\ GetOrder(account.orders, orderIds[key])
              = ToVQCOrder(book[key], orderIds[key], book[key].filled_qty,
                           ToVQCStatus(book[key].status))
  /\ \A key \in DOMAIN orderIds :
       ~IsLive(book[key]) =>
         ~CanAcceptFill(GetOrder(account.orders, orderIds[key]).status)

\* Once the callers and the broker rest, every interruption is recovered from and
\* the client settles on the broker's cash, holdings and open orders; unless its
\* construction failed or the worker was told to stop.
EventuallyAgrees ==
  <>[](user = Idle) => <>[](Agreement \/ daemon.pc = "failed" \/ daemon.stop)

\* An order the client does not know, because it was placed elsewhere, lost with
\* the answer to its submission, or missed between a snapshot and the
\* subscription, is tracked once any update of it has been sent to the client
\* and the callers rest, unless it ends before (vqc_daemon.py:108-114).
EveryHeardOrderIsTracked ==
  <>[](user = Idle) =>
    \A key \in 1 .. MaxOrders :
      (\E update \in Range(queue) : update.order.id = key)
        ~> \/ key \in DOMAIN orderIds
           \/ key \in DOMAIN book /\ ~IsLive(book[key])
           \/ daemon.pc = "failed"

\* A worker told to stop does so as soon as its stream is down, unless the process
\* is restarted before: it neither subscribes nor retries a refresh for ever
\* (vqc_daemon.py:141-183).
StopIsObeyed ==
  daemon.stop /\ ~connected ~> daemon.pc \in {"stopped", "failed"} \/ ~daemon.stop
=============================================================================

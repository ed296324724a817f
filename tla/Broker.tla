------------------------------- MODULE Broker -------------------------------
(***************************************************************************)
(* The broker a client talks to, as src/ uses it: a book of orders that    *)
(* the broker alone moves, holdings and cash, and a stream of trade        *)
(* updates that carries every move made while it is connected.  The broker *)
(* is not part of the repository: this module is its environment.          *)
(***************************************************************************)
EXTENDS Integers, Sequences, Tallies, FiniteSetsExt

CONSTANTS
  Symbols,      \* instruments traded
  Price,        \* the price of every execution, in ten-thousandths
  Accounts      \* [book, shares, cash]: accounts the client may find at start

VARIABLES
  book,         \* every order ever accepted, at the index that is its id
  shares,       \* shares held of each symbol
  cash,         \* cash held, in ten-thousandths
  executions,   \* executions made: the last execution id
  connected,    \* a client is subscribed to the trade updates
  queue         \* trade updates sent and not yet handled

brokerVars == << book, shares, cash, executions, connected, queue >>

\* An order that is done for the day goes on the next trading day.
LiveStatuses ==
  {"pending_new", "new", "partially_filled", "pending_cancel", "done_for_day"}

BrokerStatuses == LiveStatuses \cup {"filled", "canceled", "rejected"}

IsLive(order) == order.status \in LiveStatuses

Remaining(order) == order.qty - order.filled_qty

\* Shares of a symbol that open sells offer.
Committed(orders, symbol) ==
  SumSeq([k \in DOMAIN orders |->
            IF IsLive(orders[k]) /\ orders[k].side = "sell" /\ orders[k].symbol = symbol
            THEN Remaining(orders[k]) ELSE 0])

\* Shares held and not offered by an open sell; negative when sold short.
Uncommitted(symbol) == shares[symbol] - Committed(book, symbol)

\* What the client reads: the open orders and the holdings, as lists.
GetOpenOrders == SelectIn(book, {order \in Range(book) : IsLive(order)})

GetPositions ==
  LET held == SetToSeq({s \in Symbols : shares[s] # 0})
  IN  [i \in DOMAIN held |->
         [symbol |-> held[i], qty |-> shares[held[i]], avg_entry_price |-> Price]]

-----------------------------------------------------------------------------
(* Moves *)

BrokerInit ==
  /\ \E a \in Accounts : book = a.book /\ shares = a.shares /\ cash = a.cash
  /\ executions = 0
  /\ connected = FALSE
  /\ queue = <<>>

\* An update reaches the stream only while somebody is subscribed to it.
Publish(event, order, quantity) ==
  queue' = IF connected
           THEN Append(queue, [event |-> event, order |-> order, qty |-> quantity,
                               price |-> Price, execution_id |-> executions'])
           ELSE queue

\* The order at an index becomes `order` and an event without an execution is sent.
Move(k, order, event) ==
  /\ book' = [book EXCEPT ![k] = order]
  /\ UNCHANGED << shares, cash, executions, connected >>
  /\ Publish(event, order, 0)

OpenOrder(k) ==
  /\ book[k].status = "pending_new"
  /\ Move(k, [book[k] EXCEPT !.status = "new"], "new")

RejectOrder(k) ==
  /\ book[k].status = "pending_new"
  /\ Move(k, [book[k] EXCEPT !.status = "rejected"], "rejected")

RequestCancel(k) ==
  /\ book[k].status \in {"new", "partially_filled"}
  /\ Move(k, [book[k] EXCEPT !.status = "pending_cancel"], "pending_cancel")

\* Only an order good till cancelled outlives the day.
CloseDay(k) ==
  /\ book[k].time_in_force = "gtc"
  /\ book[k].status \in {"new", "partially_filled"}
  /\ Move(k, [book[k] EXCEPT !.status = "done_for_day"], "done_for_day")

CancelOrder(k) ==
  /\ IsLive(book[k])
  /\ Move(k, [book[k] EXCEPT !.status = "canceled"], "canceled")

IsMarketable(order) ==
  order.type \in {"limit", "stop_limit"} =>
    IF order.side = "buy" THEN Price <= order.limit_price ELSE Price >= order.limit_price

Execute(k) ==
  /\ IsLive(book[k])
  /\ IsMarketable(book[k])
  /\ \E n \in 1 .. Remaining(book[k]) :
       LET done   == Remaining(book[k]) = n
           signed == IF book[k].side = "buy" THEN n ELSE 0 - n
           order  == [book[k] EXCEPT !.filled_qty = book[k].filled_qty + n,
                                     !.status = IF done THEN "filled"
                                                ELSE IF book[k].status = "pending_cancel"
                                                THEN "pending_cancel"
                                                ELSE "partially_filled"]
       IN  /\ book' = [book EXCEPT ![k] = order]
           /\ shares' = [shares EXCEPT ![order.symbol] = shares[order.symbol] + signed]
           /\ cash' = cash - signed * Price
           /\ executions' = executions + 1
           /\ UNCHANGED connected
           /\ Publish(IF done THEN "fill" ELSE "partial_fill", order, n)

\* The record the broker keeps of an order it accepts.
NewOrder(id, request, status) ==
  [id |-> id, symbol |-> request.symbol, side |-> request.side, qty |-> request.qty,
   type |-> request.type, limit_price |-> request.limit_price,
   stop_price |-> request.stop_price, time_in_force |-> request.time_in_force,
   filled_qty |-> 0, status |-> status]

\* The client's own submission is entered; its first update is still to come.
EnterOrder(request) ==
  /\ book' = Append(book, NewOrder(Len(book) + 1, request, "pending_new"))
  /\ UNCHANGED << shares, cash, executions, connected, queue >>

\* An order placed on the same account by somebody else.
ForeignOrder(request) ==
  LET order == NewOrder(Len(book) + 1, request, "new")
  IN  /\ book' = Append(book, order)
      /\ UNCHANGED << shares, cash, executions, connected >>
      /\ Publish("new", order, 0)

\* The stream drops its subscriber: updates it has received can still be
\* handled, those on the way are lost.
Disconnect ==
  /\ connected' = FALSE
  /\ \E n \in 0 .. Len(queue) : queue' = SubSeq(queue, 1, n)
  /\ UNCHANGED << book, shares, cash, executions >>

\* An update is delivered once more, after everything sent so far.
Duplicate ==
  /\ \E i \in DOMAIN queue : queue' = Append(queue, queue[i])
  /\ UNCHANGED << book, shares, cash, executions, connected >>

\* Two updates change places on their way.
Reorder ==
  /\ \E i \in 1 .. Len(queue) - 1 :
       queue' = [queue EXCEPT ![i] = queue[i + 1], ![i + 1] = queue[i]]
  /\ UNCHANGED << book, shares, cash, executions, connected >>
=============================================================================

----------------------------- MODULE TradingBook -----------------------------
(***************************************************************************)
(* What an account promises its owner, without its ledger, its lists and   *)
(* its lifecycle statuses: cash, the shares held of each symbol, and orders *)
(* that are live until all their shares have been executed or they are     *)
(* given up.                                                               *)
(***************************************************************************)
EXTENDS Integers

CONSTANTS
  Symbols,     \* instruments traded
  OrderIds,    \* names for orders
  Quantities,  \* shares an order may ask for
  Amounts,     \* amounts that may be paid in or out
  Prices       \* prices executions are made at

VARIABLES
  cash,
  holdings,    \* symbol -> shares held
  orders       \* name -> [symbol, side, left, state], for the orders placed

vars == << cash, holdings, orders >>

BookOrder == [symbol : Symbols, side : {"Buy", "Sell"}, left : Nat,
              state : {"live", "completed", "abandoned"}]

Init ==
  /\ cash \in Int
  /\ holdings \in [Symbols -> Nat]
  /\ \E ids \in SUBSET OrderIds : orders \in [ids -> BookOrder]

Deposit ==
  \E amount \in Amounts :
    /\ amount > 0
    /\ cash' = cash + amount
    /\ UNCHANGED << holdings, orders >>

Withdraw ==
  \E amount \in Amounts :
    /\ 0 < amount /\ amount <= cash
    /\ cash' = cash - amount
    /\ UNCHANGED << holdings, orders >>

Place ==
  \E id \in OrderIds \ DOMAIN orders, symbol \in Symbols, side \in {"Buy", "Sell"},
     quantity \in Quantities :
    /\ quantity > 0
    /\ orders' = [i \in DOMAIN orders \cup {id} |->
                    IF i = id
                    THEN [symbol |-> symbol, side |-> side, left |-> quantity, state |-> "live"]
                    ELSE orders[i]]
    /\ UNCHANGED << cash, holdings >>

Abandon ==
  \E id \in DOMAIN orders :
    /\ orders[id].state = "live"
    /\ orders' = [orders EXCEPT ![id].state = "abandoned"]
    /\ UNCHANGED << cash, holdings >>

\* Shares of a live order change hands, never more than it has left nor, of a
\* sell, than are held; the last ones complete it.
Execute ==
  \E id \in DOMAIN orders, price \in Prices :
    \E n \in 1 .. orders[id].left :
      LET order  == orders[id]
          signed == IF order.side = "Buy" THEN n ELSE 0 - n
      IN  /\ order.state = "live"
          /\ price > 0
          /\ holdings[order.symbol] + signed >= 0
          /\ cash' = cash - signed * price
          /\ holdings' = [holdings EXCEPT ![order.symbol] = holdings[order.symbol] + signed]
          /\ orders' = [orders EXCEPT
                          ![id].left = order.left - n,
                          ![id].state = IF order.left = n THEN "completed" ELSE "live"]

Next == Deposit \/ Withdraw \/ Place \/ Abandon \/ Execute

Spec == Init /\ [][Next]_vars
=============================================================================

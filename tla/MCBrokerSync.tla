---------------------------- MODULE MCBrokerSync ----------------------------
(***************************************************************************)
(* Finite environments for BrokerSync: one instrument, executions at one   *)
(* currency unit, accounts found empty-handed or with two shares, and at   *)
(* most one order already open.                                            *)
(***************************************************************************)
EXTENDS BrokerSync

Unit == 10000

Buy(qty) == MarketOrder("A", qty, "day")
Sell(qty) == MarketOrder("A", 0 - qty, "day")
GoodTillCancelled(qty) == LimitOrder("A", qty, Unit, FALSE, "gtc")
LimitBuy(qty, price) == LimitOrder("A", qty, price, FALSE, "day")

BrokerAccount(orders, held) ==
  [book |-> orders, shares |-> [s \in {"A"} |-> held], cash |-> 9 * Unit]

RestingBuy == NewOrder(1, NativeOrder(LimitBuy(1, Unit - 100)), "new")
OpenSell == NewOrder(1, NativeOrder(GoodTillCancelled(-2)), "new")

\* How callers write the symbol: plainly, in small letters, as blanks.
MCSpellings == [A |-> "A", a |-> "A", blanks |-> ""]

MCSymbols == {"A"}
TwoShares == { BrokerAccount(<<>>, 2) }
RestingBuyAndTwo == { BrokerAccount(<< RestingBuy >>, 2) }
OpenSellOfTwo == { BrokerAccount(<< OpenSell >>, 2) }
NoShares == { BrokerAccount(<<>>, 0) }

SellTwo == {Sell(2)}
BuyOne == {Buy(1)}
BuyOneAtLimit == {GoodTillCancelled(1)}
BuyTwo == {Buy(2)}
BuyAndSells == {Buy(1), GoodTillCancelled(-1), GoodTillCancelled(-2)}

\* Half a cent is rounded to the even number of cents: none.
HalfCent == LimitBuy(1, 50)
PennyStock == {HalfCent}
HalfCentOrSellTwo == {Sell(2), HalfCent}

\* What callers may try: every public call with good and bad arguments; the
\* smallest good price is just above half a cent.
SomeQuantities == {Invalid, -3, -2, 0, 1}
SomePrices == {Missing, Invalid, -100, 51, Unit}
AnyRequest ==
  {MarketOrder(symbol, qty, "gtc") : symbol \in DOMAIN MCSpellings, qty \in SomeQuantities}
    \cup {LimitOrder("a", qty, price, extended, tif) :
             qty \in SomeQuantities, price \in SomePrices, extended \in BOOLEAN,
             tif \in {"day", "gtc"}}
    \cup {StopOrder("A", qty, price, "day") : qty \in SomeQuantities, price \in SomePrices}
    \cup {StopLimitOrder("A", qty, stop, limit, "gtc") :
             qty \in SomeQuantities, stop \in SomePrices, limit \in SomePrices}
=============================================================================

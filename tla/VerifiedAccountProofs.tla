----------------------- MODULE VerifiedAccountProofs -----------------------
(***************************************************************************)
(* Theorems about the verified core, for every set of inputs and every     *)
(* bound: it keeps its type, its contracts and its lifecycle, and its      *)
(* ledger explains its cash, its holdings, its filled quantities and its   *)
(* average prices.  Last, it implements TradingBook.                       *)
(***************************************************************************)
EXTENDS VerifiedAccountToBook, AccountOpsProofs

-----------------------------------------------------------------------------
(* The inductive invariant *)

IInv == GoodAccount(account)

\* What the invariant says of each field of the account.
LEMMA FieldsOfIInv ==
  ASSUME IInv
  PROVE  /\ account.cash \in Int
         /\ account.ledger \in Seq(LedgerEntry) /\ IsValidLedger(account.ledger)
         /\ account.positions \in Seq(Position) /\ IsValidPositionSet(account.positions)
         /\ account.orders \in Seq(Order) /\ IsValidOrderSet(account.orders)
         /\ HasLifecycleConsistentOrders(account.orders)
         /\ IsValidAccount(account)
  BY FieldsOfAccount DEF IInv, GoodAccount

\* A new account and an accepted snapshot both satisfy the invariant.
LEMMA InitEstablishesIInv == Init => IInv
<1>1. ASSUME NEW s \in Snapshots, Bootstrap(s)
      PROVE  IInv
  <2>1. /\ s.cash \in Int /\ s.positions \in Seq(Position)
        /\ s.orders \in Seq(Order) /\ s.ledgerId \in Nat
    BY InputAssumption DEF Snapshot
  <2> QED
    BY <1>1, <2>1, BootstrapGood DEF Bootstrap, IInv
<1> QED
  BY <1>1, NewAccountGood DEF Init, IInv

\* A ledger id offered to a deposit or a withdrawal is a natural number.
LEMMA OfferedIdsNatural ==
  ASSUME IInv
  PROVE  OfferedLedgerIds \subseteq Nat
  BY FieldsOfIInv, NextLedgerIdFresh, InputAssumption DEF OfferedLedgerIds, IInv

\* Every call, accepted or refused, preserves the invariant.
LEMMA NextKeepsIInv == IInv /\ [Next]_account => IInv'
<1> SUFFICES ASSUME IInv, [Next]_account
             PROVE  IInv'
  OBVIOUS
<1>1. CASE Deposit
  BY <1>1, OfferedIdsNatural, InputAssumption, DepositGood DEF Deposit, IInv
<1>2. CASE Withdraw
  BY <1>2, OfferedIdsNatural, InputAssumption, WithdrawGood DEF Withdraw, IInv
<1>3. CASE PlaceOrder
  BY <1>3, InputAssumption, PlaceOrderGood DEF PlaceOrder, IInv
<1>4. CASE SetOrderStatus
  BY <1>4, SetOrderStatusGood DEF SetOrderStatus, IInv
<1>5. CASE Update
  BY <1>5, InputAssumption, UpdateGood DEF Update, IInv
<1>6. CASE UNCHANGED account
  BY <1>6 DEF IInv
<1> QED
  BY <1>1, <1>2, <1>3, <1>4, <1>5, <1>6 DEF Next

\* The strengthened invariant holds in every reachable state.
LEMMA IInvHolds == Spec => []IInv
  BY InitEstablishesIInv, NextKeepsIInv, PTL DEF Spec

-----------------------------------------------------------------------------
(* Theorems *)

\* No sequence of calls takes an account out of its datatype.
THEOREM TypeCorrect == Spec => []TypeOK
<1>1. IInv => TypeOK
  BY DEF IInv, GoodAccount, TypeOK, ValidAccount, OrdersLifecycleConsistent
<1> QED
  BY <1>1, IInvHolds, PTL

\* Every account any sequence of calls can produce is valid: the promise of
\* IsValidAccount, carried through every operation.
THEOREM AlwaysValid == Spec => []ValidAccount
<1>1. IInv => ValidAccount
  BY DEF IInv, GoodAccount, TypeOK, ValidAccount, OrdersLifecycleConsistent
<1> QED
  BY <1>1, IInvHolds, PTL

\* The lifecycle consistency that Bootstrap checks once survives every later
\* operation, although no operation checks it again.
THEOREM AlwaysLifecycleConsistent == Spec => []OrdersLifecycleConsistent
<1>1. IInv => OrdersLifecycleConsistent
  BY DEF IInv, GoodAccount, TypeOK, ValidAccount, OrdersLifecycleConsistent
<1> QED
  BY <1>1, IInvHolds, PTL

\* In every reachable account, no live order is stuck: it has shares left to
\* fill and both cancellation routes accept it.
THEOREM LiveOrdersNeverStuck == Spec => []LiveOrdersCanFinish
<1>1. IInv => LiveOrdersCanFinish
  <2> SUFFICES ASSUME IInv, NEW i \in DOMAIN account.orders,
                      CanAcceptFill(account.orders[i].status)
               PROVE  /\ CanApplyFill(account.orders[i], RemainingQuantity(account.orders[i]))
                      /\ CanCancelOrder(account.orders[i])
                      /\ CanSetAccountOrderStatus(account, account.orders[i].orderId, "Cancelled")
    BY DEF LiveOrdersCanFinish
  <2> DEFINE order == account.orders[i]
  <2>1. /\ order \in Order
        /\ IsValidOrder(order)
        /\ HasValidOrderStatus(order)
        /\ IsValidAccount(account)
    BY FieldsOfIInv DEF IsValidOrderSet, HasLifecycleConsistentOrders, IInv, ValidAccount
  <2>2. GetOrder(account.orders, order.orderId) = order /\ ExistsOrder(account.orders, order.orderId)
    BY FieldsOfIInv, OrderIndexUnique DEF GetOrder, ExistsOrder
  <2> HIDE DEF order
  <2>3. /\ CanAcceptFill(order.status)
        /\ order.filledQuantity \in Nat /\ order.quantity \in Nat
        /\ order.filledQuantity < order.quantity
    BY <2>1 DEF order, CanAcceptFill, HasValidOrderStatus, IsStatusCompatible, IsValidOrder, Order
  <2>4. CanApplyFill(order, RemainingQuantity(order))
    BY <2>1, <2>3 DEF CanApplyFill, CanFill, RemainingQuantity
  <2>5. CanCancelOrder(order)
    BY <2>1, <2>3 DEF CanCancelOrder, CanCancel
  <2>6. CanSetOrderStatus(order, "Cancelled")
    BY <2>1, <2>3 DEF CanSetOrderStatus, CanSetStatus, CanTransition, CanAcceptFill, IsStatusCompatible
  <2> QED
    BY <2>1, <2>2, <2>4, <2>5, <2>6 DEF CanSetAccountOrderStatus, order
<1> QED
  BY <1>1, IInvHolds, PTL

\* What a status change does to each order.
LEMMA SetOrderStatusElements ==
  ASSUME IInv, SetOrderStatus, NEW i \in DOMAIN account.orders
  PROVE  /\ OrderStepIsLegal(i)
         /\ account'.orders[i].filledQuantity = account.orders[i].filledQuantity
         /\ account'.ledger = account.ledger
         /\ account'.cash = account.cash
         /\ account'.positions = account.positions
<1>1. PICK named \in OrderInputs \cup Range(account.orders), newStatus \in OrderStatus :
        /\ CanSetAccountOrderStatus(account, named.orderId, newStatus)
        /\ account' = SetOrderStatusCore(account, named.orderId, newStatus)
  BY DEF SetOrderStatus
<1> DEFINE id == named.orderId
           order == GetOrder(account.orders, id)
           updated == SetStatus(order, newStatus)
<1>2. /\ order \in Order /\ order.orderId = id
      /\ CanSetOrderStatus(order, newStatus)
      /\ ExistsOrder(account.orders, id)
  BY <1>1, FieldsOfIInv, OrderFound DEF CanSetAccountOrderStatus, GetOrder
<1>3. /\ updated \in Order /\ updated.orderId = id
      /\ updated.status = newStatus
      /\ updated.filledQuantity = order.filledQuantity
  BY <1>2, SetStatusSound
<1>4. /\ account'.orders = UpdateOrder(account.orders, updated)
      /\ account'.ledger = account.ledger
      /\ account'.cash = account.cash
      /\ account'.positions = account.positions
  BY <1>1 DEF SetOrderStatusCore, IInv, GoodAccount, Account
<1>5. /\ CanTransition(order.status, newStatus)
      /\ ~CanAcceptFill(order.status) => updated = order
  <2>1. CanTransition(order.status, newStatus)
    BY <1>2 DEF CanSetOrderStatus, CanSetStatus
  <2>2. ~CanAcceptFill(order.status) => newStatus = order.status
    BY <2>1 DEF CanTransition, CanAcceptFill
  <2>3. updated = [order EXCEPT !.status = newStatus]
    BY DEF SetStatus
  <2> QED
    BY <1>2, <2>1, <2>2, <2>3 DEF Order
<1>6. account.orders[i].orderId = id => order = account.orders[i]
  BY <1>2, FieldsOfIInv, OrderIndexUnique DEF GetOrder
<1> HIDE DEF id, order, updated
<1>7. /\ i \in DOMAIN account'.orders
      /\ account'.orders[i] = IF account.orders[i].orderId = id THEN updated ELSE account.orders[i]
  <2>1. ExistsOrder(account.orders, updated.orderId)
    BY <1>2, <1>3
  <2>2. account.orders \in Seq(Order) /\ IsValidOrderSet(account.orders)
    BY FieldsOfIInv
  <2>3. /\ DOMAIN UpdateOrder(account.orders, updated) = DOMAIN account.orders
        /\ UpdateOrder(account.orders, updated)[i]
             = IF account.orders[i].orderId = updated.orderId THEN updated ELSE account.orders[i]
    BY <1>3, <2>1, <2>2, UpdateOrderElements
  <2> QED
    BY <1>3, <1>4, <2>3
<1> QED
  BY <1>2, <1>3, <1>4, <1>5, <1>6, <1>7 DEF OrderStepIsLegal, CanTransition

\* What a fill does to each order and to the ledger.
LEMMA UpdateElements ==
  ASSUME IInv, Update, NEW i \in DOMAIN account.orders
  PROVE  /\ OrderStepIsLegal(i)
         /\ \E fill \in Fill, entry \in LedgerEntry :
              /\ entry.kind = "Trade" /\ entry.fill = fill
              /\ account'.ledger = Append(account.ledger, entry)
              /\ account'.orders[i].filledQuantity =
                   IF account.orders[i].orderId = fill.orderId
                   THEN account.orders[i].filledQuantity + fill.quantity
                   ELSE account.orders[i].filledQuantity
<1>1. PICK fill \in FillInputs :
        /\ CanUpdate(account, fill)
        /\ account' = UpdateCore(account, fill)
  BY DEF Update
<1> DEFINE order == GetOrder(account.orders, fill.orderId)
           updated == ApplyFill(order, fill.quantity)
           entry == [kind |-> "Trade", ledgerId |-> NextLedgerId(account.ledger), fill |-> fill]
<1>2. fill \in Fill /\ fill.quantity \in Nat
  BY InputAssumption DEF Fill
<1>3. /\ ExistsOrder(account.orders, fill.orderId)
      /\ CanApplyFill(order, fill.quantity)
  BY <1>1 DEF CanUpdate, IsApplicableFill
<1>4. order \in Order /\ order.orderId = fill.orderId
  BY <1>3, FieldsOfIInv, OrderFound DEF GetOrder
<1>5. /\ account'.orders = UpdateOrder(account.orders, updated)
      /\ account'.ledger = Append(account.ledger, entry)
  BY <1>1 DEF UpdateCore
<1>6. /\ updated \in Order /\ updated.orderId = fill.orderId
      /\ updated.filledQuantity = order.filledQuantity + fill.quantity
      /\ CanTransition(order.status, updated.status)
      /\ CanAcceptFill(order.status)
  BY <1>2, <1>3, <1>4, ApplyFillSound DEF CanApplyFill, CanFill
<1>7. entry \in LedgerEntry /\ entry.kind = "Trade" /\ entry.fill = fill
  BY <1>2, FieldsOfIInv, NextLedgerIdFresh DEF LedgerEntry
<1>8. account.orders[i].orderId = fill.orderId => order = account.orders[i]
  BY FieldsOfIInv, OrderIndexUnique DEF GetOrder
<1> HIDE DEF order, updated, entry
<1>9. /\ i \in DOMAIN account'.orders
      /\ account'.orders[i] = IF account.orders[i].orderId = fill.orderId
                              THEN updated ELSE account.orders[i]
  <2>1. account.orders \in Seq(Order) /\ IsValidOrderSet(account.orders)
    BY FieldsOfIInv
  <2>2. ExistsOrder(account.orders, updated.orderId)
    BY <1>3, <1>6
  <2>3. /\ DOMAIN UpdateOrder(account.orders, updated) = DOMAIN account.orders
        /\ UpdateOrder(account.orders, updated)[i]
             = IF account.orders[i].orderId = updated.orderId THEN updated ELSE account.orders[i]
    BY <1>6, <2>1, <2>2, UpdateOrderElements
  <2> QED
    BY <1>5, <1>6, <2>3
<1>10. OrderStepIsLegal(i)
  BY <1>6, <1>8, <1>9 DEF OrderStepIsLegal, CanTransition
<1> QED
  BY <1>2, <1>5, <1>6, <1>7, <1>8, <1>9, <1>10

\* Calls other than a status change or a fill leave every order in place.
LEMMA OtherCallsKeepOrders ==
  ASSUME IInv, Deposit \/ Withdraw \/ PlaceOrder \/ UNCHANGED account,
         NEW i \in DOMAIN account.orders
  PROVE  i \in DOMAIN account'.orders /\ account'.orders[i] = account.orders[i]
<1>1. account.orders \in Seq(Order)
  BY FieldsOfIInv
<1>2. CASE Deposit
  BY <1>2 DEF Deposit, DepositCore
<1>3. CASE Withdraw
  BY <1>3 DEF Withdraw, WithdrawCore
<1>4. CASE PlaceOrder
  <2>1. PICK order \in OrderInputs : account' = PlaceOrderCore(account, order)
    BY <1>4 DEF PlaceOrder
  <2>2. account'.orders = Append(account.orders, order) /\ order \in Order
    BY <2>1, InputAssumption DEF PlaceOrderCore, IInv, GoodAccount, Account
  <2> QED
    BY <1>1, <2>2
<1>5. CASE UNCHANGED account
  BY <1>5
<1> QED
  BY <1>2, <1>3, <1>4, <1>5

\* In every behaviour each step moves every order along the lifecycle graph:
\* no call, fill or not, revives a terminal order or loses one.
THEOREM LifecycleRespected == Spec => OrdersFollowLifecycle
<1>1. ASSUME IInv, [Next]_account, NEW i \in DOMAIN account.orders
      PROVE  OrderStepIsLegal(i)
  <2>1. CASE Deposit \/ Withdraw \/ PlaceOrder \/ UNCHANGED account
    BY <1>1, <2>1, OtherCallsKeepOrders DEF OrderStepIsLegal, CanTransition
  <2>2. CASE SetOrderStatus
    BY <1>1, <2>2, SetOrderStatusElements
  <2>3. CASE Update
    BY <1>1, <2>3, UpdateElements
  <2> QED
    BY <1>1, <2>1, <2>2, <2>3 DEF Next
<1>2. IInv /\ [Next]_account => \A i \in DOMAIN account.orders : OrderStepIsLegal(i)
  BY <1>1
<1> QED
  BY <1>2, IInvHolds, PTL DEF Spec, OrdersFollowLifecycle

\* In every behaviour an order's filled quantity is raised only by a step that
\* books a trade of exactly that order and quantity.
THEOREM FillsAreBooked == Spec => FilledOnlyByExecution
<1> DEFINE Gained(i) == account'.orders[i].filledQuantity - account.orders[i].filledQuantity
           Booked(i) ==
             Gained(i) # 0 =>
               /\ Len(account'.ledger) = Len(account.ledger) + 1
               /\ LET entry == Last(account'.ledger)
                  IN  /\ entry.kind = "Trade"
                      /\ entry.fill.orderId = account.orders[i].orderId
                      /\ entry.fill.quantity = Gained(i)
<1>1. ASSUME IInv, [Next]_account, NEW i \in DOMAIN account.orders
      PROVE  Booked(i)
  <2>1. account.orders[i] \in Order /\ account.orders[i].filledQuantity \in Nat
    <3>1. account.orders \in Seq(Order)
      BY <1>1, FieldsOfIInv
    <3>2. account.orders[i] \in Order
      BY <1>1, <3>1
    <3> QED
      BY <3>2 DEF Order
  <2>2. CASE Deposit \/ Withdraw \/ PlaceOrder \/ UNCHANGED account
    BY <1>1, <2>1, <2>2, OtherCallsKeepOrders
  <2>3. CASE SetOrderStatus
    BY <1>1, <2>1, <2>3, SetOrderStatusElements
  <2>4. CASE Update
    <3>1. PICK fill \in Fill, entry \in LedgerEntry :
              /\ entry.kind = "Trade" /\ entry.fill = fill
              /\ account'.ledger = Append(account.ledger, entry)
              /\ account'.orders[i].filledQuantity =
                   IF account.orders[i].orderId = fill.orderId
                   THEN account.orders[i].filledQuantity + fill.quantity
                   ELSE account.orders[i].filledQuantity
      BY <1>1, <2>4, UpdateElements
    <3>2. /\ Len(account'.ledger) = Len(account.ledger) + 1
          /\ Last(account'.ledger) = entry
      BY <1>1, <3>1, FieldsOfIInv DEF Last
    <3>3. fill.quantity \in Nat
      BY DEF Fill
    <3> QED
      BY <2>1, <3>1, <3>2, <3>3
  <2> QED
    BY <1>1, <2>2, <2>3, <2>4 DEF Next
<1>2. IInv /\ [Next]_account => \A i \in DOMAIN account.orders : Booked(i)
  BY <1>1
<1> QED
  BY <1>2, IInvHolds, PTL DEF Spec, FilledOnlyByExecution

\* What an appended entry must look like for a step to be on the books.
Ledgered(entry) ==
  /\ account'.ledger = Append(account.ledger, entry)
  /\ ~IsOpeningEntry(entry)
  /\ account'.cash = account.cash + EntryCashEffect(entry)
  /\ entry.kind # "Trade" => account'.positions = account.positions

\* A deposit is on the books.
LEMMA DepositLedgered ==
  ASSUME IInv, Deposit
  PROVE  \E entry : Ledgered(entry)
<1>1. PICK id \in OfferedLedgerIds, amount \in Amounts : account' = DepositCore(account, id, amount)
  BY DEF Deposit
<1> DEFINE entry == [kind |-> "Deposit", ledgerId |-> id, amount |-> amount]
<1>2. Ledgered(entry)
  BY <1>1, InputAssumption, FieldsOfIInv
     DEF Ledgered, DepositCore, IsOpeningEntry, EntryCashEffect
<1> QED
  BY <1>2

\* A withdrawal is on the books.
LEMMA WithdrawLedgered ==
  ASSUME IInv, Withdraw
  PROVE  \E entry : Ledgered(entry)
<1>1. PICK id \in OfferedLedgerIds, amount \in Amounts : account' = WithdrawCore(account, id, amount)
  BY DEF Withdraw
<1> DEFINE entry == [kind |-> "Withdrawal", ledgerId |-> id, amount |-> amount]
<1>2. account.cash \in Int /\ amount \in Int
  BY InputAssumption, FieldsOfIInv
<1>3. Ledgered(entry)
  BY <1>1, <1>2 DEF Ledgered, WithdrawCore, IsOpeningEntry, EntryCashEffect
<1> QED
  BY <1>3

\* A fill is on the books.
LEMMA UpdateLedgered ==
  ASSUME IInv, Update
  PROVE  \E entry : Ledgered(entry)
<1>1. PICK fill \in FillInputs :
        /\ CanUpdate(account, fill)
        /\ account' = UpdateCore(account, fill)
  BY DEF Update
<1> DEFINE order == GetOrder(account.orders, fill.orderId)
           entry == [kind |-> "Trade", ledgerId |-> NextLedgerId(account.ledger), fill |-> fill]
           value == ExecutionValue(fill)
<1>2. /\ account'.ledger = Append(account.ledger, entry)
      /\ account'.cash = IF order.side = "Buy" THEN account.cash - value ELSE account.cash + value
  BY <1>1 DEF UpdateCore
<1>3. order.side = "Buy" \/ order.side = "Sell"
  <2>1. ExistsOrder(account.orders, fill.orderId)
    BY <1>1 DEF CanUpdate
  <2>2. order \in Order
    BY <2>1, FieldsOfIInv, OrderFound DEF GetOrder
  <2> QED
    BY <2>2 DEF Order, OrderSide
<1>4. value \in Int /\ account.cash \in Int
  <2>1. fill.quantity \in Nat /\ fill.price \in Int
    BY InputAssumption DEF Fill
  <2> QED
    BY <2>1, FieldsOfIInv DEF ExecutionValue
<1>5. EntryCashEffect(entry) = IF order.side = "Sell" THEN value ELSE 0 - value
  BY DEF EntryCashEffect, FillCash, SideOf
<1> HIDE DEF order, value
<1>6. Ledgered(entry)
  BY <1>2, <1>3, <1>4, <1>5 DEF Ledgered, IsOpeningEntry
<1> QED
  BY <1>6

\* In every behaviour cash and positions move only together with exactly one new
\* ledger entry that accounts for the whole cash movement, and no entry is ever
\* rewritten or dropped.
THEOREM MovementsAreLedgered == Spec => EveryMovementIsLedgered
<1>1. ASSUME IInv, \E entry : Ledgered(entry)
      PROVE  MovementIsLedgered
  <2>1. PICK entry : Ledgered(entry)
    BY <1>1
  <2>2. account'.ledger = Append(account.ledger, entry)
    BY <2>1 DEF Ledgered
  <2>3. account.ledger \in Seq(LedgerEntry)
    BY <1>1, FieldsOfIInv
  <2>4. Last(account'.ledger) = entry /\ account'.ledger # account.ledger
    BY <2>2, <2>3 DEF Last
  <2> QED
    BY <2>1, <2>4 DEF Ledgered, MovementIsLedgered
<1>2. ASSUME IInv, PlaceOrder
      PROVE  MovementIsLedgered
  BY <1>2 DEF MovementIsLedgered, PlaceOrder, PlaceOrderCore, IInv, GoodAccount, Account
<1>3. ASSUME IInv, SetOrderStatus
      PROVE  MovementIsLedgered
  BY <1>3 DEF MovementIsLedgered, SetOrderStatus, SetOrderStatusCore, IInv, GoodAccount, Account
<1>4. ASSUME UNCHANGED account
      PROVE  MovementIsLedgered
  BY <1>4 DEF MovementIsLedgered
<1>5. IInv /\ [Next]_account => MovementIsLedgered
  BY <1>1, <1>2, <1>3, <1>4, DepositLedgered, WithdrawLedgered, UpdateLedgered DEF Next
<1> QED
  BY <1>5, IInvHolds, PTL DEF Spec, EveryMovementIsLedgered

-----------------------------------------------------------------------------
(* What one more entry does to the history *)

TradesOf(ledger) == {e \in Range(ledger) : e.kind = "Trade"}

\* An entry is a trade or has no fill; its amount is a number.
LEMMA EntryKinds ==
  ASSUME NEW e \in LedgerEntry
  PROVE  /\ e.kind \in {"Opening", "Deposit", "Withdrawal", "Trade"}
         /\ e.kind = "Trade" => e.fill \in Fill
         /\ e.kind \in {"Deposit", "Withdrawal"} => e.amount \in Int
         /\ e.kind = "Opening" =>
              e.cash \in Int /\ e.positions \in Seq(Position) /\ e.orders \in Seq(Order)
  BY DEF LedgerEntry

\* The executions of a ledger are fills.
LEMMA FillsType ==
  ASSUME NEW ledger \in Seq(LedgerEntry)
  PROVE  Fills(ledger) \in Seq(Fill)
<1> DEFINE trades == SelectIn(ledger, TradesOf(ledger))
<1>1. trades \in Seq(LedgerEntry) /\ \E m : IsSelection(ledger, TradesOf(ledger), Len(ledger), trades, m)
  BY SelectInSound
<1> HIDE DEF trades
<1>2. PICK m : IsSelection(ledger, TradesOf(ledger), Len(ledger), trades, m)
  BY <1>1
<1>3. ASSUME NEW i \in 1 .. Len(trades) PROVE trades[i].fill \in Fill
  <2>1. trades[i] \in TradesOf(ledger) /\ trades[i] \in LedgerEntry
    BY <1>1, <1>2 DEF IsSelection
  <2> QED
    BY <2>1, EntryKinds DEF TradesOf
<1>4. DOMAIN trades = 1 .. Len(trades) /\ Len(trades) \in Nat
  BY <1>1
<1>5. Fills(ledger) = [i \in DOMAIN trades |-> trades[i].fill]
  BY DEF Fills, trades, TradesOf
<1> QED
  BY <1>3, <1>4, <1>5

\* A new entry leaves the opening alone, and adds its execution if it is a trade.
LEMMA FillsAppend ==
  ASSUME NEW ledger \in Seq(LedgerEntry), NEW e \in LedgerEntry
  PROVE  Fills(Append(ledger, e)) =
           IF e.kind = "Trade" THEN Append(Fills(ledger), e.fill) ELSE Fills(ledger)
<1> DEFINE after == Append(ledger, e)
           old == SelectIn(ledger, TradesOf(ledger))
           new == SelectIn(after, TradesOf(after))
<1>1. /\ after \in Seq(LedgerEntry)
      /\ Len(after) = Len(ledger) + 1
      /\ Len(ledger) \in Nat
      /\ after[Len(after)] = e
      /\ \A i \in 1 .. Len(ledger) : after[i] = ledger[i]
      /\ DOMAIN ledger = 1 .. Len(ledger)
      /\ DOMAIN after = 1 .. Len(after)
  OBVIOUS
<1> HIDE DEF after
<1>2. \A i \in 1 .. Len(ledger) : ledger[i] \in TradesOf(ledger) <=> ledger[i] \in TradesOf(after)
  BY <1>1 DEF TradesOf, Range
<1>3. e \in TradesOf(after) <=> e.kind = "Trade"
  BY <1>1 DEF TradesOf, Range
<1>4. new = IF e.kind = "Trade" THEN Append(old, e) ELSE old
  BY <1>1, <1>2, <1>3, SelectInExtended
<1>5. old \in Seq(LedgerEntry)
  BY SelectInSound
<1>6. /\ Fills(ledger) = [i \in DOMAIN old |-> old[i].fill]
      /\ Fills(after) = [i \in DOMAIN new |-> new[i].fill]
  BY DEF Fills, TradesOf
<1> HIDE DEF old, new
<1>7. CASE e.kind = "Trade"
  <2>0. Fills(ledger) \in Seq(Fill) /\ e.fill \in Fill
    BY <1>7, FillsType, EntryKinds
  <2>1. /\ Fills(ledger) \in Seq(Fill) /\ e.fill \in Fill
        /\ Len(Fills(ledger)) = Len(old)
    <3>1. DOMAIN Fills(ledger) = DOMAIN old
      BY <1>6
    <3>2. DOMAIN old = 1 .. Len(old) /\ Len(old) \in Nat
      BY <1>5
    <3>3. DOMAIN Fills(ledger) = 1 .. Len(Fills(ledger)) /\ Len(Fills(ledger)) \in Nat
      BY <2>0
    <3> QED
      BY <2>0, <3>1, <3>2, <3>3
  <2>2. /\ DOMAIN new = 1 .. Len(old) + 1
        /\ \A i \in 1 .. Len(old) : new[i] = old[i]
        /\ new[Len(old) + 1] = e
        /\ Len(old) \in Nat
        /\ DOMAIN old = 1 .. Len(old)
    BY <1>4, <1>5, <1>7
  <2>3. Append(Fills(ledger), e.fill)
          = [i \in 1 .. Len(old) + 1 |->
               IF i = Len(old) + 1 THEN e.fill ELSE Fills(ledger)[i]]
    BY <2>1, <2>2
  <2>4. \A i \in 1 .. Len(old) + 1 :
          new[i].fill = IF i = Len(old) + 1 THEN e.fill ELSE Fills(ledger)[i]
    BY <1>6, <2>2
  <2> QED
    BY <1>6, <1>7, <2>2, <2>3, <2>4 DEF after
<1>8. CASE e.kind # "Trade"
  BY <1>4, <1>6, <1>8 DEF after
<1> QED
  BY <1>7, <1>8

\* An entry that is not an opening leaves what the account opened with alone.
LEMMA OpenedWithAppend ==
  ASSUME NEW ledger \in Seq(LedgerEntry), NEW e \in LedgerEntry, ~IsOpeningEntry(e)
  PROVE  OpenedWith(Append(ledger, e)) = OpenedWith(ledger)
<1>1. /\ \A i \in 1 .. Len(ledger) : Append(ledger, e)[i] = ledger[i]
      /\ DOMAIN Append(ledger, e) = 1 .. Len(ledger) + 1
      /\ DOMAIN ledger = 1 .. Len(ledger)
      /\ Len(ledger) \in Nat
      /\ Append(ledger, e)[Len(ledger) + 1] = e
  OBVIOUS
<1>2. CASE Len(ledger) = 0
  BY <1>1, <1>2 DEF OpenedWith
<1>3. CASE Len(ledger) # 0
  <2>1. 1 \in DOMAIN ledger /\ 1 \in DOMAIN Append(ledger, e) /\ Append(ledger, e)[1] = ledger[1]
    BY <1>1, <1>3
  <2> QED
    BY <2>1 DEF OpenedWith
<1> QED
  BY <1>2, <1>3

\* What an account opened with has the types of an account.
LEMMA OpenedWithType ==
  ASSUME NEW ledger \in Seq(LedgerEntry)
  PROVE  /\ OpenedWith(ledger).cash \in Int
         /\ OpenedWith(ledger).positions \in Seq(Position)
         /\ OpenedWith(ledger).orders \in Seq(Order)
<1>1. CASE \E i \in DOMAIN ledger : i = 1 /\ IsOpeningEntry(ledger[i])
  <2>1. ledger[1] \in LedgerEntry /\ ledger[1].kind = "Opening"
    BY <1>1 DEF IsOpeningEntry
  <2>2. OpenedWith(ledger) = ledger[1]
    BY <1>1 DEF OpenedWith
  <2> QED
    BY <2>1, <2>2, EntryKinds
<1>2. CASE ~\E i \in DOMAIN ledger : i = 1 /\ IsOpeningEntry(ledger[i])
  BY <1>2 DEF OpenedWith, NewAccount
<1> QED
  BY <1>1, <1>2

-----------------------------------------------------------------------------
(* What one more entry or execution does to each total *)

\* A deposit raises the net cash flow, a withdrawal lowers it.
LEMMA NetCashFlowAppend ==
  ASSUME NEW ledger \in Seq(LedgerEntry), NEW e \in LedgerEntry
  PROVE  /\ NetCashFlow(ledger) \in Int
         /\ NetCashFlow(Append(ledger, e)) =
              NetCashFlow(ledger)
                + (IF e.kind = "Deposit" THEN e.amount
                   ELSE IF e.kind = "Withdrawal" THEN 0 - e.amount ELSE 0)
<1> DEFINE after == Append(ledger, e)
           In(entry) == IF entry.kind = "Deposit" THEN entry.amount ELSE 0
           Out(entry) == IF entry.kind = "Withdrawal" THEN entry.amount ELSE 0
           in == [i \in DOMAIN ledger |-> In(ledger[i])]
           out == [i \in DOMAIN ledger |-> Out(ledger[i])]
           inAfter == [i \in DOMAIN after |-> In(after[i])]
           outAfter == [i \in DOMAIN after |-> Out(after[i])]
<1>1. \A entry \in LedgerEntry : In(entry) \in Int /\ Out(entry) \in Int
  BY EntryKinds
<1>2. /\ after \in Seq(LedgerEntry)
      /\ \A i \in 1 .. Len(ledger) : after[i] = ledger[i] /\ ledger[i] \in LedgerEntry
      /\ DOMAIN after = 1 .. Len(ledger) + 1
      /\ DOMAIN ledger = 1 .. Len(ledger)
      /\ Len(ledger) \in Nat
      /\ after[Len(ledger) + 1] = e
  OBVIOUS
<1>3. /\ TotalDeposits(ledger) = SumSeq(in) /\ TotalDeposits(after) = SumSeq(inAfter)
      /\ TotalWithdrawals(ledger) = SumSeq(out) /\ TotalWithdrawals(after) = SumSeq(outAfter)
  BY DEF TotalDeposits, TotalWithdrawals
<1> HIDE DEF In, Out, after
<1>4. /\ in \in Seq(Int) /\ inAfter \in Seq(Int) /\ Len(in) = Len(ledger)
      /\ Len(inAfter) = Len(in) + 1 /\ inAfter[Len(in) + 1] = In(e)
      /\ \A i \in 1 .. Len(in) : inAfter[i] = in[i]
  BY <1>1, <1>2
<1>5. /\ out \in Seq(Int) /\ outAfter \in Seq(Int) /\ Len(out) = Len(ledger)
      /\ Len(outAfter) = Len(out) + 1 /\ outAfter[Len(out) + 1] = Out(e)
      /\ \A i \in 1 .. Len(out) : outAfter[i] = out[i]
  BY <1>1, <1>2
<1> HIDE DEF in, out, inAfter, outAfter
<1>6. /\ SumSeq(in) \in Int /\ SumSeq(inAfter) = SumSeq(in) + In(e) /\ In(e) \in Int
  BY <1>1, <1>4, SumSeqType, SumSeqExtended
<1>7. /\ SumSeq(out) \in Int /\ SumSeq(outAfter) = SumSeq(out) + Out(e) /\ Out(e) \in Int
  BY <1>1, <1>5, SumSeqType, SumSeqExtended
<1>8. In(e) - Out(e) = IF e.kind = "Deposit" THEN e.amount
                       ELSE IF e.kind = "Withdrawal" THEN 0 - e.amount ELSE 0
  BY EntryKinds DEF In, Out
<1> QED
  BY <1>3, <1>6, <1>7, <1>8 DEF NetCashFlow, after
\* The sum of what each element of a sequence contributes, and of one more.
LEMMA SumOfContributions ==
  ASSUME NEW S, NEW s \in Seq(S), NEW x \in S, NEW F \in [S -> Int]
  PROVE  /\ SumSeq([i \in DOMAIN s |-> F[s[i]]]) \in Int
         /\ SumSeq([i \in DOMAIN Append(s, x) |-> F[Append(s, x)[i]]])
              = SumSeq([i \in DOMAIN s |-> F[s[i]]]) + F[x]
<1> DEFINE t == Append(s, x)
           u == [i \in DOMAIN s |-> F[s[i]]]
           v == [i \in DOMAIN t |-> F[t[i]]]
<1>1. /\ t \in Seq(S)
      /\ \A i \in 1 .. Len(s) : t[i] = s[i] /\ s[i] \in S
      /\ DOMAIN t = 1 .. Len(s) + 1
      /\ DOMAIN s = 1 .. Len(s)
      /\ Len(s) \in Nat
      /\ t[Len(s) + 1] = x
  OBVIOUS
<1> HIDE DEF t
<1>2. /\ u \in Seq(Int) /\ v \in Seq(Int)
      /\ Len(u) = Len(s) /\ Len(v) = Len(u) + 1 /\ v[Len(u) + 1] = F[x]
      /\ \A i \in 1 .. Len(u) : v[i] = u[i]
      /\ F[x] \in Int
  BY <1>1
<1> HIDE DEF u, v
<1>3. SumSeq(u) \in Int /\ SumSeq(v) = SumSeq(u) + F[x]
  BY <1>2, SumSeqType, SumSeqExtended
<1> QED
  BY <1>3 DEF t, u, v

\* An execution moves the traded cash by its own effect.
LEMMA TradedCashAppend ==
  ASSUME NEW orders, NEW fills \in Seq(Fill), NEW fill \in Fill
  PROVE  /\ TradedCash(orders, fills) \in Int
         /\ FillCash(orders, fill) \in Int
         /\ TradedCash(orders, Append(fills, fill))
              = TradedCash(orders, fills) + FillCash(orders, fill)
<1> DEFINE F == [f \in Fill |-> FillCash(orders, f)]
<1>1. \A f \in Fill : FillCash(orders, f) \in Int
  BY DEF FillCash, ExecutionValue, Fill
<1>2. F \in [Fill -> Int] /\ F[fill] = FillCash(orders, fill)
  BY <1>1
<1>3. ASSUME NEW t \in Seq(Fill)
      PROVE  TradedCash(orders, t) = SumSeq([i \in DOMAIN t |-> F[t[i]]])
  <2>1. [i \in DOMAIN t |-> F[t[i]]] = [i \in DOMAIN t |-> FillCash(orders, t[i])]
    OBVIOUS
  <2> QED
    BY <2>1 DEF TradedCash
<1>4. Append(fills, fill) \in Seq(Fill)
  OBVIOUS
<1> HIDE DEF F
<1>5. /\ SumSeq([i \in DOMAIN fills |-> F[fills[i]]]) \in Int
      /\ SumSeq([i \in DOMAIN Append(fills, fill) |-> F[Append(fills, fill)[i]]])
           = SumSeq([i \in DOMAIN fills |-> F[fills[i]]]) + F[fill]
  BY <1>2, SumOfContributions, ZenonT(30)
<1> QED
  BY <1>1, <1>2, <1>3, <1>4, <1>5

\* An execution moves the traded shares of a symbol by its own effect.
LEMMA TradedSharesAppend ==
  ASSUME NEW orders, NEW fills \in Seq(Fill), NEW fill \in Fill, NEW symbol
  PROVE  /\ TradedShares(orders, fills, symbol) \in Int
         /\ FillShares(orders, fill, symbol) \in Int
         /\ TradedShares(orders, Append(fills, fill), symbol)
              = TradedShares(orders, fills, symbol) + FillShares(orders, fill, symbol)
<1> DEFINE F == [f \in Fill |-> FillShares(orders, f, symbol)]
<1>1. \A f \in Fill : FillShares(orders, f, symbol) \in Int
  BY DEF FillShares, Fill
<1>2. F \in [Fill -> Int] /\ F[fill] = FillShares(orders, fill, symbol)
  BY <1>1
<1>3. ASSUME NEW t \in Seq(Fill)
      PROVE  TradedShares(orders, t, symbol) = SumSeq([i \in DOMAIN t |-> F[t[i]]])
  <2>1. [i \in DOMAIN t |-> F[t[i]]] = [i \in DOMAIN t |-> FillShares(orders, t[i], symbol)]
    OBVIOUS
  <2> QED
    BY <2>1 DEF TradedShares
<1>4. Append(fills, fill) \in Seq(Fill)
  OBVIOUS
<1> HIDE DEF F
<1>5. /\ SumSeq([i \in DOMAIN fills |-> F[fills[i]]]) \in Int
      /\ SumSeq([i \in DOMAIN Append(fills, fill) |-> F[Append(fills, fill)[i]]])
           = SumSeq([i \in DOMAIN fills |-> F[fills[i]]]) + F[fill]
  BY <1>2, SumOfContributions, ZenonT(30)
<1> QED
  BY <1>1, <1>2, <1>3, <1>4, <1>5

\* An execution raises the executed quantity of its own order only.
LEMMA ExecutedQuantityAppend ==
  ASSUME NEW order, NEW fills \in Seq(Fill), NEW fill \in Fill
  PROVE  /\ TotalExecutedQuantityForOrder(fills, order) \in Int
         /\ fill.quantity \in Nat
         /\ TotalExecutedQuantityForOrder(Append(fills, fill), order)
              = TotalExecutedQuantityForOrder(fills, order)
                  + (IF BelongsToOrder(fill, order) THEN fill.quantity ELSE 0)
<1> DEFINE C(f) == IF BelongsToOrder(f, order) THEN f.quantity ELSE 0
           F == [f \in Fill |-> C(f)]
<1>1. fill.quantity \in Nat /\ \A f \in Fill : C(f) \in Int
  BY DEF Fill
<1> HIDE DEF C
<1>2. F \in [Fill -> Int] /\ F[fill] = C(fill)
  BY <1>1
<1>3. ASSUME NEW t \in Seq(Fill)
      PROVE  TotalExecutedQuantityForOrder(t, order) = SumSeq([i \in DOMAIN t |-> F[t[i]]])
  <2>1. [i \in DOMAIN t |-> F[t[i]]] = [i \in DOMAIN t |-> C(t[i])]
    OBVIOUS
  <2> QED
    BY <2>1 DEF TotalExecutedQuantityForOrder, C
<1>4. Append(fills, fill) \in Seq(Fill)
  OBVIOUS
<1> HIDE DEF F
<1>5. /\ SumSeq([i \in DOMAIN fills |-> F[fills[i]]]) \in Int
      /\ SumSeq([i \in DOMAIN Append(fills, fill) |-> F[Append(fills, fill)[i]]])
           = SumSeq([i \in DOMAIN fills |-> F[fills[i]]]) + F[fill]
  BY <1>2, SumOfContributions, ZenonT(30)
<1> QED
  BY <1>1, <1>2, <1>3, <1>4, <1>5 DEF C
-----------------------------------------------------------------------------
(* What no step changes: an order, once placed, keeps its identity *)

OrdersKept(before, after) ==
  \A i \in DOMAIN before : i \in DOMAIN after /\ IsSameOrder(before[i], after[i])

\* Every execution names an order that exists, of its own symbol.
FillsNamed(orders, fills) ==
  \A i \in DOMAIN fills :
    /\ ExistsOrder(orders, fills[i].orderId)
    /\ GetOrder(orders, fills[i].orderId).symbol = fills[i].symbol

\* A kept order is found under its id, with its identity.
LEMMA KeptOrderFound ==
  ASSUME NEW before, NEW after, NEW orderId,
         IsValidOrderSet(after), OrdersKept(before, after), ExistsOrder(before, orderId)
  PROVE  /\ ExistsOrder(after, orderId)
         /\ IsSameOrder(GetOrder(before, orderId), GetOrder(after, orderId))
<1> DEFINE k == OrderIndex(before, orderId)
<1>1. k \in DOMAIN before /\ before[k].orderId = orderId
  BY OrderFound DEF GetOrder
<1>2. k \in DOMAIN after /\ IsSameOrder(before[k], after[k]) /\ after[k].orderId = orderId
  BY <1>1 DEF OrdersKept, IsSameOrder
<1>3. OrderIndex(after, orderId) = k
  <2> HIDE DEF k
  <2> QED
    BY <1>2, OrderIndexUnique
<1> QED
  BY <1>2, <1>3 DEF ExistsOrder, GetOrder

\* With every order kept, the executions still add up to what they did.
LEMMA KeptOrdersKeepTotals ==
  ASSUME NEW before, NEW after, NEW fills,
         IsValidOrderSet(after), OrdersKept(before, after), FillsNamed(before, fills)
  PROVE  /\ FillsNamed(after, fills)
         /\ \A i \in DOMAIN fills : SideOf(after, fills[i]) = SideOf(before, fills[i])
         /\ TradedCash(after, fills) = TradedCash(before, fills)
         /\ \A symbol : TradedShares(after, fills, symbol) = TradedShares(before, fills, symbol)
<1>1. ASSUME NEW i \in DOMAIN fills
      PROVE  /\ ExistsOrder(after, fills[i].orderId)
             /\ GetOrder(after, fills[i].orderId).symbol = fills[i].symbol
             /\ SideOf(after, fills[i]) = SideOf(before, fills[i])
  BY KeptOrderFound DEF FillsNamed, IsSameOrder, SideOf
<1>2. TradedCash(after, fills) = TradedCash(before, fills)
  <2>1. \A i \in DOMAIN fills : FillCash(after, fills[i]) = FillCash(before, fills[i])
    BY <1>1 DEF FillCash
  <2> QED
    BY <2>1 DEF TradedCash
<1>3. ASSUME NEW symbol
      PROVE  TradedShares(after, fills, symbol) = TradedShares(before, fills, symbol)
  <2>1. \A i \in DOMAIN fills :
          FillShares(after, fills[i], symbol) = FillShares(before, fills[i], symbol)
    BY <1>1 DEF FillShares
  <2> QED
    BY <2>1 DEF TradedShares
<1> QED
  BY <1>1, <1>2, <1>3 DEF FillsNamed

\* A ledger without trades has no executions.
LEMMA FillsEmpty ==
  ASSUME NEW ledger \in Seq(LedgerEntry), \A i \in DOMAIN ledger : ledger[i].kind # "Trade"
  PROVE  Fills(ledger) = << >>
<1> DEFINE trades == SelectIn(ledger, TradesOf(ledger))
<1>1. trades \in Seq(LedgerEntry) /\ \E m : IsSelection(ledger, TradesOf(ledger), Len(ledger), trades, m)
  BY SelectInSound
<1> HIDE DEF trades
<1>2. PICK m : IsSelection(ledger, TradesOf(ledger), Len(ledger), trades, m)
  BY <1>1
<1>3. Len(trades) = 0
  <2> SUFFICES ASSUME Len(trades) # 0 PROVE FALSE
    OBVIOUS
  <2>1. 1 \in 1 .. Len(trades)
    BY <1>1
  <2>2. trades[1] \in TradesOf(ledger)
    BY <1>2, <2>1 DEF IsSelection
  <2> QED
    BY <2>2 DEF TradesOf, Range
<1>4. DOMAIN trades = {}
  BY <1>1, <1>3
<1>5. Fills(ledger) = [i \in DOMAIN trades |-> trades[i].fill]
  BY DEF Fills, trades, TradesOf
<1>6. Fills(ledger) \in Seq(Fill)
  BY FillsType
<1>7. Len(Fills(ledger)) = 0
  BY <1>4, <1>5, <1>6
<1> QED
  BY <1>6, <1>7

\* Nothing traded adds up to nothing.
LEMMA NothingTraded ==
  ASSUME NEW orders
  PROVE  /\ TradedCash(orders, << >>) = 0
         /\ \A symbol : TradedShares(orders, << >>, symbol) = 0
         /\ \A order : TotalExecutedQuantityForOrder(<< >>, order) = 0
<1>1. << >> \in Seq(Int) /\ Len(<< >>) = 0 /\ DOMAIN << >> = {}
  OBVIOUS
<1>2. SumSeq(<< >>) = 0
  BY <1>1, SumSeqEmpty
<1>3. [i \in DOMAIN << >> |-> FillCash(orders, << >>[i])] = << >>
  OBVIOUS
<1>4. ASSUME NEW symbol
      PROVE  [i \in DOMAIN << >> |-> FillShares(orders, << >>[i], symbol)] = << >>
  OBVIOUS
<1>5. ASSUME NEW order
      PROVE  [i \in DOMAIN << >> |->
                IF BelongsToOrder(<< >>[i], order) THEN << >>[i].quantity ELSE 0] = << >>
  OBVIOUS
<1> QED
  BY <1>2, <1>3, <1>4, <1>5 DEF TradedCash, TradedShares, TotalExecutedQuantityForOrder
-----------------------------------------------------------------------------
(* The inductive invariant *)

Executions == Fills(account.ledger)
Opening == OpenedWith(account.ledger)

\* Every execution in the ledger is of an order of the account, in its symbol.
ExecutionsNamed == FillsNamed(account.orders, Executions)

\* Every order the account opened with is still one of its orders.
OpeningOrdersKept ==
  \A i \in DOMAIN Opening.orders : ExistsOrder(account.orders, Opening.orders[i].orderId)

SharesExplained == \A symbol \in STRING : SharesMatchHistory(symbol)

HistoryInv ==
  /\ IInv
  /\ ExecutionsNamed
  /\ OpeningOrdersKept
  /\ CashMatchesHistory
  /\ SharesExplained
  /\ OrdersMatchHistory
  /\ AveragePriceWithinPaidPrices

\* The types behind the history.
LEMMA HistoryTypes ==
  ASSUME IInv
  PROVE  /\ Executions \in Seq(Fill)
         /\ Opening.cash \in Int
         /\ Opening.positions \in Seq(Position)
         /\ Opening.orders \in Seq(Order)
         /\ NetCashFlow(account.ledger) \in Int
  <1>1. account.ledger \in Seq(LedgerEntry)
    BY FieldsOfIInv
  <1>2. [kind |-> "Deposit", ledgerId |-> 0, amount |-> 0] \in LedgerEntry
    BY DEF LedgerEntry
  <1> QED
    BY <1>1, <1>2, FillsType, OpenedWithType, NetCashFlowAppend DEF Executions, Opening

\* A price is paid if the account opened with it or bought at it.
LEMMA PaidPricesAre ==
  ASSUME NEW symbol, NEW p
  PROVE  p \in PaidPrices(symbol) <=>
           \/ \E i \in DOMAIN Opening.positions :
                Opening.positions[i].symbol = symbol /\ Opening.positions[i].averagePrice = p
           \/ \E i \in DOMAIN Executions :
                /\ Executions[i].symbol = symbol
                /\ SideOf(account.orders, Executions[i]) = "Buy"
                /\ Executions[i].price = p
  BY DEF PaidPrices, Opening, Executions

\* The paid prices as an operator of the parts of the account they come from.
PaidPricesOf(opened, orders, fills, symbol) ==
  {opened[i].averagePrice : i \in {i \in DOMAIN opened : opened[i].symbol = symbol}}
    \cup {fills[i].price : i \in {i \in DOMAIN fills :
            fills[i].symbol = symbol /\ SideOf(orders, fills[i]) = "Buy"}}

\* Paid prices are numbers.
LEMMA PaidPricesType ==
  ASSUME IInv, NEW symbol
  PROVE  PaidPrices(symbol) \subseteq Int
<1> SUFFICES ASSUME NEW p \in PaidPrices(symbol) PROVE p \in Int
  OBVIOUS
<1>1. Executions \in Seq(Fill) /\ Opening.positions \in Seq(Position)
  BY HistoryTypes
<1>2. CASE \E i \in DOMAIN Opening.positions : Opening.positions[i].averagePrice = p
  <2>1. PICK i \in DOMAIN Opening.positions : Opening.positions[i].averagePrice = p
    BY <1>2
  <2>2. Opening.positions[i] \in Position
    BY <1>1
  <2> QED
    BY <2>1, <2>2 DEF Position
<1>3. CASE \E i \in DOMAIN Executions : Executions[i].price = p
  <2>1. PICK i \in DOMAIN Executions : Executions[i].price = p
    BY <1>3
  <2>2. Executions[i] \in Fill
    BY <1>1
  <2> QED
    BY <2>1, <2>2 DEF Fill
<1> QED
  BY <1>2, <1>3, PaidPricesAre

-----------------------------------------------------------------------------
(* An account opens explained *)

\* The account is explained when nothing has been executed yet, nothing deposited
\* and what it holds is what it opened with.
LEMMA FreshAccountExplained ==
  ASSUME IInv, Executions = << >>, NetCashFlow(account.ledger) = 0,
         Opening.cash = account.cash, Opening.positions = account.positions,
         Opening.orders = account.orders
  PROVE  HistoryInv
<1>1. ExecutionsNamed
  BY DEF ExecutionsNamed, FillsNamed
<1>2. OpeningOrdersKept
  BY DEF OpeningOrdersKept, ExistsOrder
<1>3. CashMatchesHistory
  BY FieldsOfIInv, NothingTraded DEF CashMatchesHistory, Opening, Executions
<1>4. ASSUME NEW symbol \in STRING PROVE SharesMatchHistory(symbol)
  <2>1. TradedShares(account.orders, Executions, symbol) = 0
    BY NothingTraded
  <2>2. PositionOrEmpty(account.positions, symbol).quantity \in Int
    <3>1. account.positions \in Seq(Position)
      BY FieldsOfIInv
    <3>2. CASE ExistsPosition(account.positions, symbol)
      <4>1. GetPosition(account.positions, symbol) \in Position
        BY <3>1, <3>2, PositionFound DEF GetPosition
      <4> QED
        BY <3>2, <4>1 DEF PositionOrEmpty, Position
    <3> QED
      BY <3>2 DEF PositionOrEmpty
  <2> QED
    BY <2>1, <2>2 DEF SharesMatchHistory, Opening, Executions
<1>5. ASSUME NEW i \in DOMAIN account.orders
      PROVE  account.orders[i].filledQuantity =
               FilledOf(Opening.orders, account.orders[i].orderId)
                 + TotalExecutedQuantityForOrder(Executions, account.orders[i])
  <2>1. GetOrder(account.orders, account.orders[i].orderId) = account.orders[i]
    BY FieldsOfIInv, OrderIndexUnique DEF GetOrder
  <2>2. FilledOf(Opening.orders, account.orders[i].orderId) = account.orders[i].filledQuantity
    BY <2>1 DEF FilledOf, ExistsOrder
  <2>3. account.orders[i] \in Order
    BY FieldsOfIInv
  <2>4. account.orders[i].filledQuantity \in Nat
    BY <2>3 DEF Order
  <2>5. TotalExecutedQuantityForOrder(Executions, account.orders[i]) = 0
    BY NothingTraded
  <2> QED
    BY <2>2, <2>4, <2>5
<1>6. ASSUME NEW i \in DOMAIN account.positions
      PROVE  LET held == account.positions[i]
             IN  \E low, high \in PaidPrices(held.symbol) :
                   low <= held.averagePrice /\ held.averagePrice <= high
  <2>1. account.positions[i] \in Position
    BY FieldsOfIInv
  <2>2. account.positions[i].averagePrice \in PaidPrices(account.positions[i].symbol)
    BY PaidPricesAre
  <2>3. account.positions[i].averagePrice \in Int
    BY <2>1 DEF Position
  <2> QED
    BY <2>2, <2>3
<1> QED
  BY <1>1, <1>2, <1>3, <1>4, <1>5, <1>6
     DEF HistoryInv, SharesExplained, OrdersMatchHistory, AveragePriceWithinPaidPrices,
         Opening, Executions

\* No entry but an opening: nothing has flowed in or out.
LEMMA OpeningHasNoFlow ==
  ASSUME NEW ledger \in Seq(LedgerEntry),
         \A i \in DOMAIN ledger : IsOpeningEntry(ledger[i])
  PROVE  Len(ledger) \in {0, 1} => NetCashFlow(ledger) = 0
<1>1. NetCashFlow(<< >>) = 0
  <2>1. << >> \in Seq(Int) /\ Len(<< >>) = 0
    OBVIOUS
  <2>2. SumSeq(<< >>) = 0
    BY <2>1, SumSeqEmpty
  <2>3. TotalDeposits(<< >>) = 0
    <3>1. [i \in DOMAIN << >> |->
            IF << >>[i].kind = "Deposit" THEN << >>[i].amount ELSE 0] = << >>
      OBVIOUS
    <3> QED
      BY <2>2, <3>1 DEF TotalDeposits
  <2>4. TotalWithdrawals(<< >>) = 0
    <3>1. [i \in DOMAIN << >> |->
            IF << >>[i].kind = "Withdrawal" THEN << >>[i].amount ELSE 0] = << >>
      OBVIOUS
    <3> QED
      BY <2>2, <3>1 DEF TotalWithdrawals
  <2> QED
    BY <2>3, <2>4 DEF NetCashFlow
<1>2. CASE Len(ledger) = 0
  <2>1. ledger = << >>
    BY <1>2
  <2> QED
    BY <1>1, <2>1
<1>3. CASE Len(ledger) = 1
  <2> DEFINE e == ledger[1]
             nothing == << >>
  <2>1. e \in LedgerEntry /\ e.kind = "Opening"
    BY <1>3, SMTT(30) DEF IsOpeningEntry
  <2>2. nothing \in Seq(LedgerEntry) /\ Len(nothing) = 0
    OBVIOUS
  <2> HIDE DEF e
  <2>3. /\ Append(nothing, e) \in Seq(LedgerEntry)
        /\ Len(Append(nothing, e)) = 1
        /\ Append(nothing, e)[1] = e
    BY <2>1, <2>2
  <2>4. ledger = Append(nothing, e)
    BY <1>3, <2>3 DEF e
  <2> HIDE DEF nothing
  <2>5. NetCashFlow(Append(nothing, e)) = NetCashFlow(nothing) + 0 /\ NetCashFlow(nothing) \in Int
    BY <2>1, <2>2, NetCashFlowAppend
  <2> QED
    BY <1>1, <2>4, <2>5 DEF nothing
<1> QED
  BY <1>2, <1>3

\* A new account and an accepted snapshot are both explained.
LEMMA InitExplained == Init => HistoryInv
<1>1. CASE account = NewAccount
  <2>1. IInv /\ account.ledger = << >> /\ << >> \in Seq(LedgerEntry)
    BY <1>1, NewAccountGood DEF NewAccount, IInv
  <2>2. Executions = << >>
    <3>1. \A i \in DOMAIN account.ledger : FALSE
      BY <2>1
    <3> QED
      BY <2>1, <3>1, FillsEmpty DEF Executions
  <2>3. Opening = NewAccount
    BY <2>1 DEF Opening, OpenedWith
  <2>4. NetCashFlow(account.ledger) = 0
    <3>1. Len(account.ledger) = 0 /\ \A i \in DOMAIN account.ledger : FALSE
      BY <2>1
    <3> QED
      BY <2>1, <3>1, OpeningHasNoFlow
  <2> QED
    BY <1>1, <2>1, <2>2, <2>3, <2>4, FreshAccountExplained
<1>2. ASSUME NEW s \in Snapshots, Bootstrap(s) PROVE HistoryInv
  <2> DEFINE entry == [kind |-> "Opening", ledgerId |-> s.ledgerId, cash |-> s.cash,
                       positions |-> s.positions, orders |-> s.orders]
  <2>1. IInv
    BY <1>2, InitEstablishesIInv DEF Init
  <2>2. /\ account.ledger = << entry >> /\ account.cash = entry.cash
        /\ account.positions = entry.positions /\ account.orders = entry.orders
        /\ entry.kind = "Opening"
    BY <1>2 DEF Bootstrap, BootstrapCore
  <2> HIDE DEF entry
  <2>3. /\ Len(account.ledger) = 1 /\ DOMAIN account.ledger = {1}
        /\ account.ledger[1] = entry
    BY <2>2
  <2>4. account.ledger \in Seq(LedgerEntry)
    BY <2>1, FieldsOfIInv
  <2>5. Executions = << >>
    BY <2>2, <2>3, <2>4, FillsEmpty DEF Executions
  <2>6. Opening = entry
    BY <2>2, <2>3 DEF Opening, OpenedWith, IsOpeningEntry
  <2>7. NetCashFlow(account.ledger) = 0
    BY <2>2, <2>3, <2>4, OpeningHasNoFlow DEF IsOpeningEntry
  <2> QED
    BY <2>1, <2>2, <2>5, <2>6, <2>7, FreshAccountExplained
<1> QED
  BY <1>1, <1>2 DEF Init
-----------------------------------------------------------------------------
(* Every call keeps the account explained *)

\* A call that touches only orders: it adds an order with no fills under a new
\* id, or changes an order's status.
OnlyOrdersMove ==
  /\ account'.ledger = account.ledger
  /\ account'.cash = account.cash
  /\ account'.positions = account.positions
  /\ OrdersKept(account.orders, account'.orders)
  /\ \A i \in DOMAIN account'.orders :
       \/ /\ i \in DOMAIN account.orders
          /\ account'.orders[i].filledQuantity = account.orders[i].filledQuantity
       \/ /\ account'.orders[i].filledQuantity = 0
          /\ ~ExistsOrder(account.orders, account'.orders[i].orderId)

\* A status change moves only the status of one order.
LEMMA SetOrderStatusMoves ==
  ASSUME IInv, SetOrderStatus
  PROVE  /\ OnlyOrdersMove
         /\ DOMAIN account'.orders = DOMAIN account.orders
         /\ \E k \in DOMAIN account.orders, newStatus \in OrderStatus :
              /\ CanSetOrderStatus(account.orders[k], newStatus)
              /\ account'.orders =
                   [account.orders EXCEPT ![k] = SetStatus(account.orders[k], newStatus)]
<1>1. PICK named \in OrderInputs \cup Range(account.orders), newStatus \in OrderStatus :
        /\ CanSetAccountOrderStatus(account, named.orderId, newStatus)
        /\ account' = SetOrderStatusCore(account, named.orderId, newStatus)
  BY DEF SetOrderStatus
<1> DEFINE id == named.orderId
           order == GetOrder(account.orders, id)
           updated == SetStatus(order, newStatus)
<1>2. /\ order \in Order /\ order.orderId = id
      /\ CanSetOrderStatus(order, newStatus)
      /\ ExistsOrder(account.orders, id)
      /\ updated \in Order /\ updated.orderId = id
      /\ account' = [cash |-> account.cash, ledger |-> account.ledger,
                     positions |-> account.positions,
                     orders |-> UpdateOrder(account.orders, updated)]
  BY <1>1, SetOrderStatusGood DEF IInv
<1>3. IsSameOrder(order, updated) /\ updated.filledQuantity = order.filledQuantity
  BY <1>2, SetStatusSound
<1>4. \A i \in DOMAIN account.orders :
        account.orders[i].orderId = id => order = account.orders[i]
  BY FieldsOfIInv, OrderIndexUnique DEF GetOrder
<1> HIDE DEF id, order, updated
<1>5. account.orders \in Seq(Order) /\ IsValidOrderSet(account.orders)
  BY FieldsOfIInv
<1>6. /\ DOMAIN account'.orders = DOMAIN account.orders
      /\ \A i \in DOMAIN account.orders :
           account'.orders[i] = IF account.orders[i].orderId = id
                                THEN updated ELSE account.orders[i]
  <2>1. ExistsOrder(account.orders, updated.orderId)
    BY <1>2
  <2>2. account'.orders = UpdateOrder(account.orders, updated)
    BY <1>2
  <2> QED
    BY <1>2, <1>5, <2>1, <2>2, UpdateOrderElements
<1>7. /\ account'.ledger = account.ledger
      /\ account'.cash = account.cash
      /\ account'.positions = account.positions
  BY <1>2
<1>8. OnlyOrdersMove
  BY <1>3, <1>4, <1>6, <1>7 DEF OnlyOrdersMove, OrdersKept, IsSameOrder
<1>9. /\ OrderIndex(account.orders, updated.orderId) \in DOMAIN account.orders
      /\ account.orders[OrderIndex(account.orders, updated.orderId)] = order
      /\ account'.orders =
           [account.orders EXCEPT ![OrderIndex(account.orders, updated.orderId)] = updated]
      /\ updated = SetStatus(order, newStatus)
  BY <1>2, OrderFound DEF UpdateOrder, GetOrder, order, updated
<1> QED
  BY <1>2, <1>6, <1>8, <1>9

\* An order whose id is new has neither been executed nor been there at the opening.
LEMMA NewOrderUntraded ==
  ASSUME IInv, ExecutionsNamed, OpeningOrdersKept,
         NEW order, ~ExistsOrder(account.orders, order.orderId)
  PROVE  /\ FilledOf(Opening.orders, order.orderId) = 0
         /\ TotalExecutedQuantityForOrder(Executions, order) = 0
<1>1. ~ExistsOrder(Opening.orders, order.orderId)
  BY DEF OpeningOrdersKept, ExistsOrder
<1> DEFINE parts == [i \in DOMAIN Executions |->
                       IF BelongsToOrder(Executions[i], order) THEN Executions[i].quantity ELSE 0]
<1>2. \A i \in DOMAIN Executions : ~BelongsToOrder(Executions[i], order)
  BY DEF ExecutionsNamed, FillsNamed, BelongsToOrder
<1>3. TotalExecutedQuantityForOrder(Executions, order) = SumSeq(parts)
  BY DEF TotalExecutedQuantityForOrder
<1>4. parts = [i \in DOMAIN Executions |-> 0]
  BY <1>2
<1>5. Executions \in Seq(Fill)
  BY HistoryTypes
<1>6. SumSeq([i \in DOMAIN Executions |-> 0]) = 0
  <2> DEFINE zeros == [i \in DOMAIN Executions |-> 0]
  <2>1. zeros \in Seq(Int) /\ \A i \in DOMAIN zeros : zeros[i] = 0
    BY <1>5
  <2>2. [i \in DOMAIN zeros |-> 0 - zeros[i]] = zeros
    BY <2>1
  <2> HIDE DEF zeros
  <2>3. SumSeq(zeros) \in Int /\ SumSeq(zeros) = 0 - SumSeq(zeros)
    BY <2>1, <2>2, SumSeqType, SumSeqNegated
  <2>4. SumSeq(zeros) = 0
    BY <2>3
  <2> QED
    BY <2>4 DEF zeros
<1> QED
  BY <1>1, <1>3, <1>4, <1>6 DEF FilledOf

\* An order keeps its place in the opening and in the executions.
LEMMA KeptOrderTotals ==
  ASSUME NEW before, NEW after, NEW fills, NEW opened, IsSameOrder(before, after)
  PROVE  /\ FilledOf(opened, after.orderId) = FilledOf(opened, before.orderId)
         /\ TotalExecutedQuantityForOrder(fills, after)
              = TotalExecutedQuantityForOrder(fills, before)
<1>1. \A fill : BelongsToOrder(fill, after) <=> BelongsToOrder(fill, before)
  BY DEF BelongsToOrder, IsSameOrder
<1>2. TotalExecutedQuantityForOrder(fills, after) = TotalExecutedQuantityForOrder(fills, before)
  BY <1>1 DEF TotalExecutedQuantityForOrder
<1> QED
  BY <1>2 DEF IsSameOrder

\* A placement or a status change keeps the account explained.
LEMMA OrderMovesExplained ==
  ASSUME HistoryInv, IInv', OnlyOrdersMove
  PROVE  HistoryInv'
<1>1. /\ IsValidOrderSet(account'.orders)
      /\ account'.ledger = account.ledger
      /\ account'.cash = account.cash
      /\ account'.positions = account.positions
      /\ OrdersKept(account.orders, account'.orders)
  <2>1. IsValidAccount(account')
    BY DEF IInv, GoodAccount
  <2> QED
    BY <2>1 DEF IsValidAccount, OnlyOrdersMove
<1>2. Executions' = Executions /\ Opening' = Opening
  BY <1>1 DEF Executions, Opening
<1>3. FillsNamed(account.orders, Executions)
  BY DEF HistoryInv, ExecutionsNamed
<1>4. /\ FillsNamed(account'.orders, Executions)
      /\ \A i \in DOMAIN Executions :
            SideOf(account'.orders, Executions[i]) = SideOf(account.orders, Executions[i])
      /\ TradedCash(account'.orders, Executions) = TradedCash(account.orders, Executions)
      /\ \A symbol : TradedShares(account'.orders, Executions, symbol)
                       = TradedShares(account.orders, Executions, symbol)
  BY <1>1, <1>3, KeptOrdersKeepTotals
<1>5. ExecutionsNamed'
  BY <1>2, <1>4 DEF ExecutionsNamed
<1>6. OpeningOrdersKept'
  BY <1>1, <1>2, KeptOrderFound DEF HistoryInv, OpeningOrdersKept
<1>7. CashMatchesHistory'
  BY <1>1, <1>2, <1>4 DEF HistoryInv, CashMatchesHistory, Executions, Opening
<1>8. SharesExplained'
  BY <1>1, <1>2, <1>4 DEF HistoryInv, SharesExplained, SharesMatchHistory, Executions, Opening
<1>9. ASSUME NEW i \in DOMAIN account'.orders
      PROVE  account'.orders[i].filledQuantity =
               FilledOf(Opening.orders, account'.orders[i].orderId)
                 + TotalExecutedQuantityForOrder(Executions, account'.orders[i])
  <2>1. CASE /\ i \in DOMAIN account.orders
             /\ account'.orders[i].filledQuantity = account.orders[i].filledQuantity
    <3>1. IsSameOrder(account.orders[i], account'.orders[i])
      BY <1>1, <2>1 DEF OrdersKept
    <3>2. account.orders[i].filledQuantity =
            FilledOf(Opening.orders, account.orders[i].orderId)
              + TotalExecutedQuantityForOrder(Executions, account.orders[i])
      BY <2>1 DEF HistoryInv, OrdersMatchHistory, Executions, Opening
    <3> QED
      BY <2>1, <3>1, <3>2, KeptOrderTotals
  <2>2. CASE /\ account'.orders[i].filledQuantity = 0
             /\ ~ExistsOrder(account.orders, account'.orders[i].orderId)
    <3>1. /\ FilledOf(Opening.orders, account'.orders[i].orderId) = 0
          /\ TotalExecutedQuantityForOrder(Executions, account'.orders[i]) = 0
      BY <2>2, NewOrderUntraded DEF HistoryInv
    <3> QED
      BY <2>2, <3>1
  <2> QED
    BY <2>1, <2>2 DEF OnlyOrdersMove
<1>10. OrdersMatchHistory'
  BY <1>2, <1>9 DEF OrdersMatchHistory, Executions, Opening
<1>11. \A symbol : PaidPrices(symbol)' = PaidPrices(symbol)
  BY <1>2, <1>4 DEF PaidPrices, Executions, Opening
<1>12. AveragePriceWithinPaidPrices'
  BY <1>1, <1>11 DEF HistoryInv, AveragePriceWithinPaidPrices
<1> QED
  BY <1>5, <1>6, <1>7, <1>8, <1>10, <1>12 DEF HistoryInv

\* A deposit or a withdrawal adds an entry and moves the cash by what it says.
OnlyCashMoves(e) ==
  /\ e.kind \in {"Deposit", "Withdrawal"}
  /\ account'.ledger = Append(account.ledger, e)
  /\ account'.cash = account.cash + (IF e.kind = "Deposit" THEN e.amount ELSE 0 - e.amount)
  /\ account'.positions = account.positions
  /\ account'.orders = account.orders

\* A deposit or a withdrawal keeps the account explained.
LEMMA CashMovesExplained ==
  ASSUME HistoryInv, IInv', NEW e \in LedgerEntry, OnlyCashMoves(e)
  PROVE  HistoryInv'
<1>1. /\ account.ledger \in Seq(LedgerEntry) /\ account.cash \in Int
      /\ e.kind \in {"Deposit", "Withdrawal"} /\ e.kind # "Trade" /\ e.amount \in Int
      /\ account'.ledger = Append(account.ledger, e)
      /\ account'.positions = account.positions
      /\ account'.orders = account.orders
      /\ ~IsOpeningEntry(e)
  BY FieldsOfIInv, EntryKinds DEF HistoryInv, OnlyCashMoves, IsOpeningEntry
<1>2. Executions' = Executions
  BY <1>1, FillsAppend DEF Executions
<1>3. Opening' = Opening
  BY <1>1, OpenedWithAppend DEF Opening
<1>4. NetCashFlow(account'.ledger) = NetCashFlow(account.ledger)
        + (IF e.kind = "Deposit" THEN e.amount ELSE 0 - e.amount)
  BY <1>1, NetCashFlowAppend
<1>5. CashMatchesHistory'
  <2>1. /\ NetCashFlow(account.ledger) \in Int /\ Opening.cash \in Int
        /\ TradedCash(account.orders, Executions) \in Int
    <3>1. Executions \in Seq(Fill)
      BY HistoryTypes DEF HistoryInv
    <3>2. CASE \E fill : fill \in Fill
      BY <3>1, <3>2, HistoryTypes, TradedCashAppend DEF HistoryInv
    <3>3. CASE Fill = {}
      <4>1. Executions = << >>
        BY <3>1, <3>3
      <4> QED
        BY <4>1, HistoryTypes, NothingTraded DEF HistoryInv
    <3> QED
      BY <3>2, <3>3
  <2>2. account.cash = Opening.cash + NetCashFlow(account.ledger)
                         + TradedCash(account.orders, Executions)
    BY DEF HistoryInv, CashMatchesHistory, Opening, Executions
  <2>3. account'.cash = account.cash + (IF e.kind = "Deposit" THEN e.amount ELSE 0 - e.amount)
    BY DEF OnlyCashMoves
  <2> DEFINE moved == IF e.kind = "Deposit" THEN e.amount ELSE 0 - e.amount
  <2>4. moved \in Int
    BY <1>1
  <2> HIDE DEF moved
  <2>5. account'.cash = Opening.cash + NetCashFlow(account'.ledger)
                          + TradedCash(account.orders, Executions)
    BY <1>4, <2>1, <2>2, <2>3, <2>4 DEF moved
  <2> QED
    BY <1>1, <1>2, <1>3, <2>5 DEF CashMatchesHistory, Opening, Executions
<1>6. ExecutionsNamed' /\ OpeningOrdersKept'
  BY <1>1, <1>2, <1>3 DEF HistoryInv, ExecutionsNamed, OpeningOrdersKept
<1>7. SharesExplained'
  BY <1>1, <1>2, <1>3 DEF HistoryInv, SharesExplained, SharesMatchHistory, Executions, Opening
<1>8. OrdersMatchHistory'
  BY <1>1, <1>2, <1>3 DEF HistoryInv, OrdersMatchHistory, Executions, Opening
<1>9. \A symbol : PaidPrices(symbol)' = PaidPrices(symbol)
  BY <1>1, <1>2, <1>3 DEF PaidPrices, Executions, Opening
<1>10. AveragePriceWithinPaidPrices'
  BY <1>1, <1>9 DEF HistoryInv, AveragePriceWithinPaidPrices
<1> QED
  BY <1>5, <1>6, <1>7, <1>8, <1>10 DEF HistoryInv
\* An execution books one trade, of an order of its symbol, and moves that order,
\* the cash and the position of that symbol by it.
OnlyTradeMoves(fill, order) ==
  LET base == PositionOrEmpty(account.positions, order.symbol)
      next == IF order.side = "Buy" THEN ApplyBuy(base, fill) ELSE ApplySell(base, fill)
  IN  /\ order \in Order /\ order = GetOrder(account.orders, fill.orderId)
      /\ ExistsOrder(account.orders, fill.orderId)
      /\ order.orderId = fill.orderId /\ order.symbol = fill.symbol
      /\ \E e \in LedgerEntry :
           /\ e.kind = "Trade" /\ e.fill = fill
           /\ account'.ledger = Append(account.ledger, e)
      /\ account'.cash = IF order.side = "Buy" THEN account.cash - ExecutionValue(fill)
                         ELSE account.cash + ExecutionValue(fill)
      /\ DOMAIN account'.orders = DOMAIN account.orders
      /\ \A i \in DOMAIN account.orders :
           /\ IsSameOrder(account.orders[i], account'.orders[i])
           /\ account'.orders[i].filledQuantity =
                account.orders[i].filledQuantity
                  + (IF account.orders[i].orderId = fill.orderId THEN fill.quantity ELSE 0)
      /\ base \in Position /\ next \in Position
      /\ next.quantity = IF order.side = "Buy" THEN base.quantity + fill.quantity
                         ELSE base.quantity - fill.quantity
      /\ \A symbol : PositionOrEmpty(account'.positions, symbol) =
                       IF symbol = order.symbol THEN next
                       ELSE PositionOrEmpty(account.positions, symbol)

\* A fill is such a trade.
LEMMA UpdateMovesTrade ==
  ASSUME IInv, Update
  PROVE  \E fill \in Fill : IsValidFill(fill) /\ \E order : OnlyTradeMoves(fill, order)
<1>1. PICK fill \in FillInputs :
        /\ CanUpdate(account, fill)
        /\ account' = UpdateCore(account, fill)
  BY DEF Update
<1> DEFINE order == GetOrder(account.orders, fill.orderId)
           updated == ApplyFill(order, fill.quantity)
           entry == [kind |-> "Trade", ledgerId |-> NextLedgerId(account.ledger), fill |-> fill]
<1>2. fill \in Fill /\ fill.quantity \in Nat
  BY InputAssumption DEF Fill
<1>3. /\ ExistsOrder(account.orders, fill.orderId)
      /\ IsApplicableFill(order, fill)
      /\ CanApplyFill(order, fill.quantity)
      /\ IsValidFill(fill)
      /\ BelongsToOrder(fill, order)
      /\ order.side = "Sell" =>
           /\ ExistsPosition(account.positions, order.symbol)
           /\ GetPosition(account.positions, order.symbol).quantity >= fill.quantity
  BY <1>1 DEF CanUpdate, IsApplicableFill
<1>4. order \in Order /\ order.orderId = fill.orderId /\ order.symbol = fill.symbol
      /\ IsValidOrder(order)
  BY <1>3, FieldsOfIInv, OrderFound DEF GetOrder, BelongsToOrder, CanApplyFill
<1>5. /\ account'.orders = UpdateOrder(account.orders, updated)
      /\ account'.ledger = Append(account.ledger, entry)
      /\ account'.positions = UpdatedPositions(account.positions, order, fill)
      /\ account'.cash = IF order.side = "Buy" THEN account.cash - ExecutionValue(fill)
                         ELSE account.cash + ExecutionValue(fill)
  BY <1>1 DEF UpdateCore
<1>6. /\ updated \in Order /\ updated.orderId = fill.orderId
      /\ IsSameOrder(order, updated)
      /\ updated.filledQuantity = order.filledQuantity + fill.quantity
  BY <1>2, <1>3, <1>4, ApplyFillSound
<1>7. entry \in LedgerEntry /\ entry.kind = "Trade" /\ entry.fill = fill
  BY <1>2, FieldsOfIInv, NextLedgerIdFresh DEF LedgerEntry
<1>8. \A i \in DOMAIN account.orders :
        account.orders[i].orderId = fill.orderId => order = account.orders[i]
  BY FieldsOfIInv, OrderIndexUnique DEF GetOrder
<1> HIDE DEF order, updated, entry
<1>9. /\ account.orders \in Seq(Order) /\ IsValidOrderSet(account.orders)
      /\ account.positions \in Seq(Position) /\ IsValidPositionSet(account.positions)
      /\ ExistsOrder(account.orders, updated.orderId)
  BY <1>3, <1>6, FieldsOfIInv
<1>10. /\ DOMAIN account'.orders = DOMAIN account.orders
       /\ \A i \in DOMAIN account.orders :
             account'.orders[i] = IF account.orders[i].orderId = fill.orderId
                                  THEN updated ELSE account.orders[i]
  BY <1>5, <1>6, <1>9, UpdateOrderElements
<1>11. ASSUME NEW i \in DOMAIN account.orders
       PROVE  /\ IsSameOrder(account.orders[i], account'.orders[i])
              /\ account'.orders[i].filledQuantity =
                   account.orders[i].filledQuantity
                     + (IF account.orders[i].orderId = fill.orderId THEN fill.quantity ELSE 0)
  <2>1. account.orders[i] \in Order
    BY <1>9
  <2>2. account.orders[i].filledQuantity \in Nat
    BY <2>1 DEF Order
  <2> QED
    BY <1>6, <1>8, <1>10, <2>2 DEF IsSameOrder
<1> DEFINE base == PositionOrEmpty(account.positions, order.symbol)
           next == IF order.side = "Buy" THEN ApplyBuy(base, fill) ELSE ApplySell(base, fill)
<1>12. base \in Position
  BY <1>4, <1>9, PositionOrEmptySound
<1>13. /\ next \in Position
       /\ next.quantity = IF order.side = "Buy" THEN base.quantity + fill.quantity
                          ELSE base.quantity - fill.quantity
       /\ \A symbol : PositionOrEmpty(account'.positions, symbol) =
                        IF symbol = order.symbol THEN next
                        ELSE PositionOrEmpty(account.positions, symbol)
  BY <1>2, <1>3, <1>4, <1>5, <1>9, UpdatedPositionsLookup
<1>14. OnlyTradeMoves(fill, order)
  <2>1. order = GetOrder(account.orders, fill.orderId)
    BY DEF order
  <2> HIDE DEF base, next
  <2> QED
    BY <1>3, <1>4, <1>5, <1>7, <1>10, <1>11, <1>12, <1>13, <2>1
       DEF OnlyTradeMoves, base, next
<1> QED
  BY <1>2, <1>3, <1>14
\* A price between two paid prices, and one more price paid: their weighted mean
\* is between two paid prices.
LEMMA MeanWithinPaid ==
  ASSUME NEW low \in Int, NEW high \in Int, NEW avg \in Int, NEW price \in Int,
         low <= avg, avg <= high, NEW m \in Nat, NEW n \in Nat, n > 0
  PROVE  \E l, h \in {low, high, price} :
           l <= (avg * m + price * n) \div (m + n) /\ (avg * m + price * n) \div (m + n) <= h
<1> DEFINE mean == (avg * m + price * n) \div (m + n)
<1>1. CASE avg <= price
  <2>1. mean \in Int /\ avg <= mean /\ mean <= price
    BY <1>1, WeightedMeanBounded
  <2> HIDE DEF mean
  <2>2. low <= mean /\ mean <= price
    BY <2>1
  <2> QED
    BY <2>2 DEF mean
<1>2. CASE price <= avg
  <2>1. mean \in Int /\ price <= mean /\ mean <= avg
    BY <1>2, WeightedMeanBounded
  <2> HIDE DEF mean
  <2>2. price <= mean /\ mean <= high
    BY <2>1
  <2> QED
    BY <2>2 DEF mean
<1> QED
  BY <1>1, <1>2

\* An execution keeps the account explained.
LEMMA TradeMovesExplained ==
  ASSUME HistoryInv, IInv', NEW fill \in Fill, IsValidFill(fill),
         NEW order, OnlyTradeMoves(fill, order)
  PROVE  HistoryInv'
<1> DEFINE base == PositionOrEmpty(account.positions, order.symbol)
           next == IF order.side = "Buy" THEN ApplyBuy(base, fill) ELSE ApplySell(base, fill)
           PaidAfter(s) == PaidPricesOf(Opening'.positions, account'.orders, Executions', s)
<1>1. /\ order \in Order /\ order = GetOrder(account.orders, fill.orderId)
      /\ ExistsOrder(account.orders, fill.orderId)
      /\ order.orderId = fill.orderId /\ order.symbol = fill.symbol
  BY DEF OnlyTradeMoves
<1>2. /\ order.side \in {"Buy", "Sell"} /\ order.symbol \in STRING
      /\ fill.quantity \in Nat /\ fill.quantity > 0 /\ fill.price \in Int
      /\ ExecutionValue(fill) \in Int
  BY <1>1 DEF Order, OrderSide, Fill, ExecutionValue, IsValidFill
<1>3. PICK e \in LedgerEntry :
        /\ e.kind = "Trade" /\ e.fill = fill
        /\ account'.ledger = Append(account.ledger, e)
  BY DEF OnlyTradeMoves
<1>4. /\ IInv /\ account.ledger \in Seq(LedgerEntry) /\ account.cash \in Int
      /\ account.orders \in Seq(Order) /\ IsValidOrderSet(account.orders)
      /\ account.positions \in Seq(Position) /\ IsValidPositionSet(account.positions)
  BY FieldsOfIInv DEF HistoryInv
<1>5. IsValidOrderSet(account'.orders) /\ IsValidPositionSet(account'.positions)
  <2>1. IsValidAccount(account')
    BY DEF IInv, GoodAccount
  <2> QED
    BY <2>1 DEF IsValidAccount
<1>6. Executions' = Append(Executions, fill)
  BY <1>3, <1>4, FillsAppend DEF Executions
<1>7. Opening' = Opening
  <2>1. ~IsOpeningEntry(e)
    BY <1>3 DEF IsOpeningEntry
  <2> QED
    BY <2>1, <1>3, <1>4, OpenedWithAppend DEF Opening
<1>8. NetCashFlow(account'.ledger) = NetCashFlow(account.ledger)
      /\ NetCashFlow(account.ledger) \in Int
  <2>1. NetCashFlow(account'.ledger) = NetCashFlow(account.ledger) + 0
        /\ NetCashFlow(account.ledger) \in Int
    BY <1>3, <1>4, NetCashFlowAppend
  <2> QED
    BY <2>1
<1>9. /\ OrdersKept(account.orders, account'.orders)
      /\ DOMAIN account'.orders = DOMAIN account.orders
  BY DEF OnlyTradeMoves, OrdersKept
<1>10. FillsNamed(account.orders, Executions) /\ Executions \in Seq(Fill)
  BY HistoryTypes DEF HistoryInv, ExecutionsNamed
<1>11. /\ FillsNamed(account'.orders, Executions)
       /\ \A i \in DOMAIN Executions :
             SideOf(account'.orders, Executions[i]) = SideOf(account.orders, Executions[i])
       /\ TradedCash(account'.orders, Executions) = TradedCash(account.orders, Executions)
       /\ \A symbol : TradedShares(account'.orders, Executions, symbol)
                        = TradedShares(account.orders, Executions, symbol)
  BY <1>5, <1>9, <1>10, KeptOrdersKeepTotals
<1>12. /\ ExistsOrder(account'.orders, fill.orderId)
       /\ GetOrder(account'.orders, fill.orderId).symbol = fill.symbol
       /\ SideOf(account'.orders, fill) = order.side
  BY <1>1, <1>5, <1>9, KeptOrderFound DEF IsSameOrder, SideOf
<1>13. /\ DOMAIN Append(Executions, fill) = 1 .. Len(Executions) + 1
       /\ DOMAIN Executions = 1 .. Len(Executions) /\ Len(Executions) \in Nat
       /\ \A i \in 1 .. Len(Executions) : Append(Executions, fill)[i] = Executions[i]
       /\ Append(Executions, fill)[Len(Executions) + 1] = fill
       /\ \A i \in 1 .. Len(Executions) + 1 : i \in 1 .. Len(Executions) \/ i = Len(Executions) + 1
  BY <1>10
<1>14. ExecutionsNamed'
  BY <1>6, <1>11, <1>12, <1>13 DEF ExecutionsNamed, FillsNamed
<1>15. OpeningOrdersKept'
  BY <1>5, <1>7, <1>9, KeptOrderFound DEF HistoryInv, OpeningOrdersKept
<1>16. CashMatchesHistory'
  <2> DEFINE moved == FillCash(account'.orders, fill)
  <2>1. /\ TradedCash(account'.orders, Append(Executions, fill))
              = TradedCash(account.orders, Executions) + moved
        /\ TradedCash(account.orders, Executions) \in Int
    BY <1>10, <1>11, TradedCashAppend
  <2>2. account'.cash = account.cash + moved /\ moved \in Int
    <3>1. moved = IF order.side = "Sell" THEN ExecutionValue(fill) ELSE 0 - ExecutionValue(fill)
      BY <1>12 DEF FillCash
    <3>2. account'.cash = IF order.side = "Buy" THEN account.cash - ExecutionValue(fill)
                          ELSE account.cash + ExecutionValue(fill)
      BY DEF OnlyTradeMoves
    <3> HIDE DEF moved
    <3> QED
      BY <1>2, <1>4, <3>1, <3>2, SMTT(30)
  <2>3. account.cash = Opening.cash + NetCashFlow(account.ledger)
                         + TradedCash(account.orders, Executions)
    BY DEF HistoryInv, CashMatchesHistory, Opening, Executions
  <2>4. Opening.cash \in Int
    BY <1>4, HistoryTypes
  <2> HIDE DEF moved
  <2>5. account'.cash = Opening.cash + NetCashFlow(account.ledger)
                          + (TradedCash(account.orders, Executions) + moved)
    BY <1>8, <2>1, <2>2, <2>3, <2>4
  <2>6. account'.cash = Opening'.cash + NetCashFlow(account'.ledger)
                          + TradedCash(account'.orders, Executions')
    BY <1>6, <1>7, <1>8, <2>1, <2>5
  <2> QED
    BY <2>6 DEF CashMatchesHistory, Opening, Executions
<1>17. ASSUME NEW symbol \in STRING PROVE SharesMatchHistory(symbol)'
  <2> DEFINE moved == FillShares(account'.orders, fill, symbol)
             held == PositionOrEmpty(account.positions, symbol)
             heldAfter == PositionOrEmpty(account'.positions, symbol)
  <2>1. /\ TradedShares(account'.orders, Append(Executions, fill), symbol)
              = TradedShares(account.orders, Executions, symbol) + moved
        /\ TradedShares(account.orders, Executions, symbol) \in Int
        /\ moved \in Int
    BY <1>10, <1>11, TradedSharesAppend
  <2>2. held.quantity \in Int
    <3>1. CASE ExistsPosition(account.positions, symbol)
      <4>1. GetPosition(account.positions, symbol) \in Position
        BY <1>4, <3>1, PositionFound DEF GetPosition
      <4> QED
        BY <3>1, <4>1 DEF PositionOrEmpty, Position
    <3> QED
      BY <3>1 DEF PositionOrEmpty
  <2>3. heldAfter.quantity = held.quantity + moved
    <3>1. heldAfter = IF symbol = order.symbol THEN next ELSE held
      BY DEF OnlyTradeMoves
    <3>2. next.quantity = IF order.side = "Buy" THEN base.quantity + fill.quantity
                          ELSE base.quantity - fill.quantity
      BY DEF OnlyTradeMoves
    <3>3. moved = IF fill.symbol # symbol THEN 0
                  ELSE IF order.side = "Buy" THEN fill.quantity ELSE 0 - fill.quantity
      BY <1>12 DEF FillShares
    <3>4. symbol = order.symbol => base = held
      OBVIOUS
    <3> HIDE DEF base, next, held, heldAfter, moved
    <3> QED
      BY <1>1, <1>2, <2>2, <3>1, <3>2, <3>3, <3>4
  <2>4. held.quantity = PositionOrEmpty(Opening.positions, symbol).quantity
                          + TradedShares(account.orders, Executions, symbol)
    BY DEF HistoryInv, SharesExplained, SharesMatchHistory, Opening, Executions
  <2>5. PositionOrEmpty(Opening.positions, symbol).quantity \in Int
    <3>1. Opening.positions \in Seq(Position)
      BY <1>4, HistoryTypes
    <3>2. CASE ExistsPosition(Opening.positions, symbol)
      <4>1. GetPosition(Opening.positions, symbol) \in Position
        BY <3>1, <3>2, PositionFound DEF GetPosition
      <4> QED
        BY <3>2, <4>1 DEF PositionOrEmpty, Position
    <3> QED
      BY <3>2 DEF PositionOrEmpty
  <2> HIDE DEF moved, held
  <2>6. heldAfter.quantity = PositionOrEmpty(Opening.positions, symbol).quantity
                          + (TradedShares(account.orders, Executions, symbol) + moved)
    BY <2>1, <2>2, <2>3, <2>4, <2>5
  <2>7. heldAfter.quantity = PositionOrEmpty(Opening'.positions, symbol).quantity
                          + TradedShares(account'.orders, Executions', symbol)
    BY <1>6, <1>7, <2>1, <2>6
  <2> QED
    BY <2>7 DEF SharesMatchHistory, Opening, Executions
<1>18. SharesExplained'
  BY <1>17 DEF SharesExplained
<1>19. ASSUME NEW i \in DOMAIN account'.orders
       PROVE  account'.orders[i].filledQuantity =
                FilledOf(Opening.orders, account'.orders[i].orderId)
                  + TotalExecutedQuantityForOrder(Append(Executions, fill), account'.orders[i])
  <2> DEFINE before == account.orders[i]
             after == account'.orders[i]
             gained == IF before.orderId = fill.orderId THEN fill.quantity ELSE 0
             executed == TotalExecutedQuantityForOrder(Executions, before)
             opened == FilledOf(Opening.orders, before.orderId)
  <2>1. i \in DOMAIN account.orders /\ before \in Order /\ before.filledQuantity \in Nat
    <3>1. i \in DOMAIN account.orders /\ before \in Order
      BY <1>4, <1>9
    <3> QED
      BY <3>1 DEF Order
  <2>2. IsSameOrder(before, after) /\ after.filledQuantity = before.filledQuantity + gained
    BY <2>1 DEF OnlyTradeMoves
  <2>3. before.orderId = fill.orderId => before = order
    BY <1>1, <1>4, <2>1, OrderIndexUnique DEF GetOrder
  <2>4. BelongsToOrder(fill, before) <=> before.orderId = fill.orderId
    BY <1>1, <2>3 DEF BelongsToOrder
  <2>5. before.filledQuantity = opened + executed
    BY <2>1 DEF HistoryInv, OrdersMatchHistory, Executions, Opening
  <2>6. TotalExecutedQuantityForOrder(Append(Executions, fill), before) = executed + gained
        /\ executed \in Int /\ gained \in Int
    BY <1>2, <1>10, <2>4, ExecutedQuantityAppend
  <2>7. opened \in Int
    <3>1. CASE ExistsOrder(Opening.orders, before.orderId)
      <4>1. Opening.orders \in Seq(Order)
        BY <1>4, HistoryTypes
      <4>2. GetOrder(Opening.orders, before.orderId) \in Order
        BY <3>1, <4>1, OrderFound DEF GetOrder
      <4> QED
        BY <3>1, <4>2 DEF FilledOf, Order
    <3> QED
      BY <3>1 DEF FilledOf
  <2>8. /\ FilledOf(Opening.orders, after.orderId) = opened
        /\ TotalExecutedQuantityForOrder(Append(Executions, fill), after)
              = TotalExecutedQuantityForOrder(Append(Executions, fill), before)
    BY <2>2, KeptOrderTotals
  <2> HIDE DEF gained, executed, opened, before, after
  <2>9. after.filledQuantity = opened + (executed + gained)
    BY <2>2, <2>5, <2>6, <2>7
  <2> QED
    BY <2>6, <2>8, <2>9 DEF after
<1>20. OrdersMatchHistory'
  <2>1. Executions' = Append(Executions, fill) /\ Opening' = Opening
    BY <1>6, <1>7
  <2>2. \A i \in DOMAIN account'.orders :
          account'.orders[i].filledQuantity =
            FilledOf(Opening'.orders, account'.orders[i].orderId)
              + TotalExecutedQuantityForOrder(Executions', account'.orders[i])
    BY <1>19, <2>1
  <2> QED
    BY <2>2 DEF OrdersMatchHistory, Executions, Opening
<1>21. \A symbol : PaidPrices(symbol) \subseteq PaidAfter(symbol)
  <2> SUFFICES ASSUME NEW symbol, NEW p \in PaidPrices(symbol) PROVE p \in PaidAfter(symbol)
    OBVIOUS
  <2>1. p \in PaidAfter(symbol) <=>
           \/ \E i \in DOMAIN Opening'.positions :
                Opening'.positions[i].symbol = symbol /\ Opening'.positions[i].averagePrice = p
           \/ \E i \in DOMAIN Executions' :
                /\ Executions'[i].symbol = symbol
                /\ SideOf(account'.orders, Executions'[i]) = "Buy"
                /\ Executions'[i].price = p
    BY DEF PaidPricesOf
  <2>2. CASE \E i \in DOMAIN Opening.positions :
               Opening.positions[i].symbol = symbol /\ Opening.positions[i].averagePrice = p
    BY <1>7, <2>1, <2>2
  <2>3. CASE \E i \in DOMAIN Executions :
                /\ Executions[i].symbol = symbol
                /\ SideOf(account.orders, Executions[i]) = "Buy"
                /\ Executions[i].price = p
    BY <1>6, <1>11, <1>13, <2>1, <2>3
  <2> QED
    BY <2>2, <2>3, PaidPricesAre
<1>22. order.side = "Buy" => fill.price \in PaidAfter(order.symbol)
  <2> SUFFICES ASSUME order.side = "Buy" PROVE fill.price \in PaidAfter(order.symbol)
    OBVIOUS
  <2>1. /\ Len(Executions) + 1 \in DOMAIN Executions'
        /\ Executions'[Len(Executions) + 1] = fill
        /\ fill.symbol = order.symbol
        /\ SideOf(account'.orders, fill) = "Buy"
    BY <1>1, <1>6, <1>12, <1>13
  <2> QED
    BY <2>1 DEF PaidPricesOf
<1> HIDE DEF PaidAfter
<1>23. ASSUME NEW symbol, PositionOrEmpty(account.positions, symbol).quantity # 0
       PROVE  LET held == PositionOrEmpty(account.positions, symbol)
              IN  /\ held \in Position
                  /\ \E low, high \in PaidPrices(symbol) :
                        low <= held.averagePrice /\ held.averagePrice <= high
  <2>1. ExistsPosition(account.positions, symbol)
    BY <1>23 DEF PositionOrEmpty
  <2>2. /\ PositionIndex(account.positions, symbol) \in DOMAIN account.positions
        /\ account.positions[PositionIndex(account.positions, symbol)]
             = PositionOrEmpty(account.positions, symbol)
        /\ PositionOrEmpty(account.positions, symbol).symbol = symbol
    BY <2>1, PositionFound DEF PositionOrEmpty, GetPosition
  <2>3. PositionOrEmpty(account.positions, symbol) \in Position
    BY <1>4, <2>2
  <2> QED
    BY <2>2, <2>3 DEF HistoryInv, AveragePriceWithinPaidPrices
<1>24. ASSUME NEW i \in DOMAIN account'.positions
       PROVE  LET held == account'.positions[i]
              IN  \E low, high \in PaidAfter(held.symbol) :
                    low <= held.averagePrice /\ held.averagePrice <= high
  <2> DEFINE held == account'.positions[i]
  <2>1. held = PositionOrEmpty(account'.positions, held.symbol) /\ held.quantity # 0
    BY <1>5, PositionAtIndex DEF IsValidPositionSet, IsOpen
  <2>2. held = IF held.symbol = order.symbol THEN next
               ELSE PositionOrEmpty(account.positions, held.symbol)
    BY <2>1 DEF OnlyTradeMoves
  <2> HIDE DEF held
  <2>3. CASE held.symbol # order.symbol
    BY <1>21, <1>23, <2>1, <2>2, <2>3 DEF held
  <2>4. CASE held.symbol = order.symbol /\ order.side = "Sell"
    <3>1. held = ApplySell(base, fill)
      BY <2>2, <2>4
    <3>2. held.quantity = base.quantity - fill.quantity
          /\ held.averagePrice = IF base.quantity = fill.quantity THEN 0 ELSE base.averagePrice
      BY <3>1 DEF ApplySell
    <3>3. base.quantity \in Nat
      BY DEF OnlyTradeMoves, Position
    <3>4. base.quantity # 0 /\ held.averagePrice = base.averagePrice
      <4>1. order.side # "Buy"
        BY <2>4
      <4>2. next \in Position /\ held = next
        BY <2>2, <2>4 DEF OnlyTradeMoves
      <4>3. held.quantity \in Nat
        BY <4>2 DEF Position
      <4> HIDE DEF base, next
      <4> QED
        BY <1>2, <2>1, <3>2, <3>3, <4>3
    <3> QED
      BY <1>21, <1>23, <2>4, <3>4 DEF held
  <2>5. CASE held.symbol = order.symbol /\ order.side = "Buy"
    <3>1. held = ApplyBuy(base, fill)
      BY <2>2, <2>5
    <3>2. held.averagePrice =
            IF base.quantity = 0 THEN fill.price
            ELSE (base.averagePrice * base.quantity + fill.price * fill.quantity)
                   \div (base.quantity + fill.quantity)
      BY <3>1 DEF ApplyBuy
    <3>3. base.quantity \in Nat /\ base.averagePrice \in Int
      BY DEF OnlyTradeMoves, Position
    <3>4. fill.price \in PaidAfter(held.symbol)
      BY <1>22, <2>5
    <3>5. CASE base.quantity = 0
      BY <1>2, <3>2, <3>4, <3>5 DEF held
    <3>6. CASE base.quantity # 0
      <4>1. PICK low \in PaidPrices(order.symbol), high \in PaidPrices(order.symbol) :
              low <= base.averagePrice /\ base.averagePrice <= high
        BY <1>23, <3>6
      <4>2. low \in Int /\ high \in Int
        BY <1>4, PaidPricesType
      <4>3. {low, high, fill.price} \subseteq PaidAfter(held.symbol)
        BY <1>21, <2>5, <3>4
      <4> DEFINE m == base.quantity
                 avg == base.averagePrice
                 n == fill.quantity
                 price == fill.price
                 mean == (avg * m + price * n) \div (m + n)
      <4>4. \E l, h \in {low, high, price} : l <= mean /\ mean <= h
        <5>1. /\ m \in Nat /\ avg \in Int /\ n \in Nat /\ n > 0 /\ price \in Int
              /\ low <= avg /\ avg <= high
          BY <1>2, <3>3, <4>1
        <5> HIDE DEF m, avg, n, price
        <5> QED
          BY <4>2, <5>1, MeanWithinPaid
      <4>5. held.averagePrice = mean
        BY <3>2, <3>6
      <4> HIDE DEF mean
      <4>6. \E l, h \in PaidAfter(held.symbol) :
              l <= held.averagePrice /\ held.averagePrice <= h
        BY <4>3, <4>4, <4>5
      <4> QED
        BY <4>6 DEF held
    <3> QED
      BY <3>5, <3>6
  <2> QED
    BY <1>2, <2>3, <2>4, <2>5
<1>25. AveragePriceWithinPaidPrices'
  BY <1>24 DEF AveragePriceWithinPaidPrices, PaidPrices, PaidAfter, PaidPricesOf,
               Opening, Executions
<1> QED
  BY <1>14, <1>15, <1>16, <1>18, <1>20, <1>25 DEF HistoryInv
-----------------------------------------------------------------------------
(* Theorems *)

\* Every call, accepted or refused, keeps the account explained by its ledger.
LEMMA NextKeepsHistory == HistoryInv /\ [Next]_account => HistoryInv'
<1> SUFFICES ASSUME HistoryInv, [Next]_account
             PROVE  HistoryInv'
  OBVIOUS
<1>1. IInv /\ IInv'
  BY NextKeepsIInv DEF HistoryInv
<1>2. CASE Deposit
  <2>1. PICK id \in OfferedLedgerIds, amount \in Amounts : account' = DepositCore(account, id, amount)
    BY <1>2 DEF Deposit
  <2> DEFINE e == [kind |-> "Deposit", ledgerId |-> id, amount |-> amount]
  <2>2. e \in LedgerEntry
    BY <1>1, OfferedIdsNatural, InputAssumption DEF LedgerEntry
  <2>3. OnlyCashMoves(e)
    BY <2>1 DEF OnlyCashMoves, DepositCore
  <2> QED
    BY <1>1, <2>2, <2>3, CashMovesExplained
<1>3. CASE Withdraw
  <2>1. PICK id \in OfferedLedgerIds, amount \in Amounts : account' = WithdrawCore(account, id, amount)
    BY <1>3 DEF Withdraw
  <2> DEFINE e == [kind |-> "Withdrawal", ledgerId |-> id, amount |-> amount]
  <2>2. e \in LedgerEntry
    BY <1>1, OfferedIdsNatural, InputAssumption DEF LedgerEntry
  <2>3. amount \in Int /\ account.cash \in Int
    BY <1>1, InputAssumption, FieldsOfIInv
  <2>4. OnlyCashMoves(e)
    BY <2>1, <2>3 DEF OnlyCashMoves, WithdrawCore
  <2> QED
    BY <1>1, <2>2, <2>4, CashMovesExplained
<1>4. CASE PlaceOrder
  <2>1. PICK order \in OrderInputs :
          CanPlaceOrder(account, order) /\ account' = PlaceOrderCore(account, order)
    BY <1>4 DEF PlaceOrder
  <2>2. /\ account.orders \in Seq(Order) /\ order \in Order
        /\ order.filledQuantity = 0
        /\ ~ExistsOrder(account.orders, order.orderId)
    BY <1>1, <2>1, FieldsOfIInv, InputAssumption DEF CanPlaceOrder
  <2>3. /\ account'.orders = Append(account.orders, order)
        /\ account'.ledger = account.ledger
        /\ account'.cash = account.cash
        /\ account'.positions = account.positions
    BY <2>1 DEF PlaceOrderCore
  <2>4. /\ DOMAIN account'.orders = 1 .. Len(account.orders) + 1
        /\ DOMAIN account.orders = 1 .. Len(account.orders)
        /\ Len(account.orders) \in Nat
        /\ \A i \in DOMAIN account.orders : account'.orders[i] = account.orders[i]
        /\ account'.orders[Len(account.orders) + 1] = order
    BY <2>2, <2>3
  <2>5. \A i \in DOMAIN account'.orders :
          i \in DOMAIN account.orders \/ i = Len(account.orders) + 1
    BY <2>4
  <2>6. OnlyOrdersMove
    BY <2>2, <2>3, <2>4, <2>5 DEF OnlyOrdersMove, OrdersKept, IsSameOrder
  <2> QED
    BY <1>1, <2>6, OrderMovesExplained
<1>5. CASE SetOrderStatus
  <2>1. OnlyOrdersMove
    BY <1>1, <1>5, SetOrderStatusMoves
  <2> QED
    BY <1>1, <2>1, OrderMovesExplained
<1>6. CASE Update
  BY <1>1, <1>6, UpdateMovesTrade, TradeMovesExplained
<1>7. CASE UNCHANGED account
  <2>1. OnlyOrdersMove
    BY <1>7 DEF OnlyOrdersMove, OrdersKept, IsSameOrder
  <2> QED
    BY <1>1, <2>1, OrderMovesExplained
<1> QED
  BY <1>2, <1>3, <1>4, <1>5, <1>6, <1>7 DEF Next

\* Every reachable account is explained.
LEMMA HistoryInvHolds == Spec => []HistoryInv
  BY InitExplained, NextKeepsHistory, PTL DEF Spec

\* Not a cent appears or disappears: in every reachable account the cash is what
\* the opening, the deposits, the withdrawals and the trades add up to.
THEOREM CashExplained == Spec => []CashMatchesHistory
<1>1. HistoryInv => CashMatchesHistory
  BY DEF HistoryInv
<1> QED
  BY <1>1, HistoryInvHolds, PTL

\* Not a share appears or disappears: in every reachable account each holding is
\* what was held at the opening and traded since.
THEOREM PositionsExplained == Spec => []PositionsMatchHistory
<1>1. HistoryInv => PositionsMatchHistory
  <2> SUFFICES ASSUME HistoryInv PROVE PositionsMatchHistory
    OBVIOUS
  <2>1. account.positions \in Seq(Position) /\ account.orders \in Seq(Order)
    BY FieldsOfIInv DEF HistoryInv
  <2>2. \A i \in DOMAIN account.positions : account.positions[i].symbol \in STRING
    <3>1. \A p \in Position : p.symbol \in STRING
      BY DEF Position
    <3> QED
      BY <2>1, <3>1
  <2>3. \A i \in DOMAIN account.orders : account.orders[i].symbol \in STRING
    <3>1. \A o \in Order : o.symbol \in STRING
      BY DEF Order
    <3> QED
      BY <2>1, <3>1
  <2> QED
    BY <2>2, <2>3 DEF HistoryInv, SharesExplained, PositionsMatchHistory
<1> QED
  BY <1>1, HistoryInvHolds, PTL

\* In every reachable account each order has been filled by exactly the executions
\* the ledger records for it.
THEOREM OrdersExplained == Spec => []OrdersMatchHistory
<1>1. HistoryInv => OrdersMatchHistory
  BY DEF HistoryInv
<1> QED
  BY <1>1, HistoryInvHolds, PTL

\* In every reachable account an average price lies between two prices that were
\* really paid for the symbol, however often it was rounded down.
THEOREM AveragePricesPaid == Spec => []AveragePriceWithinPaidPrices
<1>1. HistoryInv => AveragePriceWithinPaidPrices
  BY DEF HistoryInv
<1> QED
  BY <1>1, HistoryInvHolds, PTL

-----------------------------------------------------------------------------
(* The book's view of a list of orders *)

AsBook(order) ==
  [symbol |-> order.symbol, side |-> order.side,
   left |-> RemainingQuantity(order), state |-> BookState(order.status)]

IdsOf(orders) == {orders[i].orderId : i \in DOMAIN orders}

BookOf(orders) == [id \in IdsOf(orders) |-> AsBook(GetOrder(orders, id))]

HeldOf(positions) == [s \in BookSymbols |-> PositionOrEmpty(positions, s).quantity]

\* The refinement mapping is these views of the account's lists.
LEMMA MappingIsView ==
  /\ BookOrders = BookOf(account.orders)
  /\ BookOrders' = BookOf(account'.orders)
  BY DEF BookOrders, BookOf, IdsOf, AsBook

\* The book shows each order under its id.
LEMMA BookOfOrder ==
  ASSUME NEW orders, IsValidOrderSet(orders), NEW i \in DOMAIN orders
  PROVE  /\ orders[i].orderId \in IdsOf(orders)
         /\ DOMAIN BookOf(orders) = IdsOf(orders)
         /\ BookOf(orders)[orders[i].orderId] = AsBook(orders[i])
<1>1. GetOrder(orders, orders[i].orderId) = orders[i]
  BY OrderIndexUnique DEF GetOrder
<1> QED
  BY <1>1 DEF BookOf, IdsOf

\* Replacing an order by one with its id replaces one entry of the book.
LEMMA BookOfReplaced ==
  ASSUME NEW orders \in Seq(Order), IsValidOrderSet(orders), NEW k \in DOMAIN orders,
         NEW updated, updated.orderId = orders[k].orderId,
         IsValidOrderSet([orders EXCEPT ![k] = updated])
  PROVE  BookOf([orders EXCEPT ![k] = updated])
           = [BookOf(orders) EXCEPT ![orders[k].orderId] = AsBook(updated)]
<1> DEFINE after == [orders EXCEPT ![k] = updated]
           id == orders[k].orderId
<1>1. /\ DOMAIN after = DOMAIN orders
      /\ \A i \in DOMAIN orders : after[i] = IF i = k THEN updated ELSE orders[i]
  OBVIOUS
<1> HIDE DEF after
<1>2. IdsOf(after) = IdsOf(orders)
  BY <1>1 DEF IdsOf
<1>3. /\ BookOf(after) = [x \in IdsOf(after) |-> BookOf(after)[x]]
      /\ BookOf(orders) = [x \in IdsOf(orders) |-> BookOf(orders)[x]]
  BY DEF BookOf
<1>4. ASSUME NEW x \in IdsOf(orders)
      PROVE  BookOf(after)[x] = IF x = id THEN AsBook(updated) ELSE BookOf(orders)[x]
  <2>1. PICK i \in DOMAIN orders : orders[i].orderId = x
    BY DEF IdsOf
  <2>2. after[i].orderId = x
    BY <1>1, <2>1
  <2>3. i = k <=> x = id
    BY <2>1 DEF IsValidOrderSet
  <2>4. BookOf(after)[x] = AsBook(after[i])
    BY <1>1, <2>2, BookOfOrder DEF after
  <2>5. BookOf(orders)[x] = AsBook(orders[i])
    BY <2>1, BookOfOrder
  <2> QED
    BY <1>1, <2>3, <2>4, <2>5
<1>5. BookOf(after) = [x \in IdsOf(orders) |-> IF x = id THEN AsBook(updated) ELSE BookOf(orders)[x]]
  BY <1>2, <1>3, <1>4
<1>6. [BookOf(orders) EXCEPT ![id] = AsBook(updated)]
        = [x \in IdsOf(orders) |-> IF x = id THEN AsBook(updated) ELSE BookOf(orders)[x]]
  BY <1>3
<1> QED
  BY <1>5, <1>6 DEF after

\* Placing an order with a new id adds one entry to the book.
LEMMA BookOfAppended ==
  ASSUME NEW orders \in Seq(Order), IsValidOrderSet(orders), NEW order \in Order,
         ~ExistsOrder(orders, order.orderId), IsValidOrderSet(Append(orders, order))
  PROVE  /\ order.orderId \notin IdsOf(orders)
         /\ BookOf(Append(orders, order))
              = [x \in IdsOf(orders) \cup {order.orderId} |->
                   IF x = order.orderId THEN AsBook(order) ELSE BookOf(orders)[x]]
<1> DEFINE after == Append(orders, order)
           id == order.orderId
           n == Len(orders) + 1
<1>1. /\ DOMAIN after = DOMAIN orders \cup {n}
      /\ n \notin DOMAIN orders
      /\ \A i \in DOMAIN orders : after[i] = orders[i]
      /\ after[n] = order
  OBVIOUS
<1> HIDE DEF after, n
<1>2. id \notin IdsOf(orders)
  BY DEF IdsOf, ExistsOrder
<1>3. IdsOf(after) = IdsOf(orders) \cup {id}
  BY <1>1 DEF IdsOf
<1>4. BookOf(after)[id] = AsBook(order)
  <2>1. IsValidOrderSet(after) /\ n \in DOMAIN after /\ after[n].orderId = id
    BY <1>1 DEF after
  <2> QED
    BY <1>1, <2>1, BookOfOrder
<1>5. ASSUME NEW x \in IdsOf(orders)
      PROVE  BookOf(after)[x] = BookOf(orders)[x]
  <2>1. PICK i \in DOMAIN orders : orders[i].orderId = x
    BY DEF IdsOf
  <2>2. i \in DOMAIN after /\ after[i] = orders[i]
    BY <1>1
  <2> QED
    BY <2>1, <2>2, BookOfOrder DEF after
<1>6. BookOf(after) = [x \in IdsOf(after) |-> BookOf(after)[x]]
  BY DEF BookOf
<1>7. BookOf(after) = [x \in IdsOf(orders) \cup {id} |->
                         IF x = id THEN AsBook(order) ELSE BookOf(orders)[x]]
  BY <1>2, <1>3, <1>4, <1>5, <1>6
<1> QED
  BY <1>2, <1>7 DEF after

-----------------------------------------------------------------------------
(* The account never leaves the names of its inputs *)

NamesInBook ==
  /\ \A i \in DOMAIN account.orders :
       account.orders[i].orderId \in BookIds /\ account.orders[i].symbol \in BookSymbols
  /\ \A i \in DOMAIN account.positions : account.positions[i].symbol \in BookSymbols

BookInv == IInv /\ NamesInBook

\* A new account and every bootstrapped one hold names of the book only.
LEMMA InitNames == Init => BookInv
<1>1. Init => IInv
  BY InitEstablishesIInv
<1>2. CASE account = NewAccount
  BY <1>2, NewAccountGood DEF NewAccount, NamesInBook, BookInv, IInv
<1>3. ASSUME NEW s \in Snapshots, Bootstrap(s) PROVE BookInv
  <2>1. account.orders = s.orders /\ account.positions = s.positions
    BY <1>3 DEF Bootstrap, BootstrapCore
  <2>2. /\ \A i \in DOMAIN s.positions : s.positions[i].symbol \in BookSymbols
        /\ \A i \in DOMAIN s.orders : s.orders[i].symbol \in BookSymbols
    BY <1>3 DEF BookSymbols
  <2>3. \A i \in DOMAIN s.orders : s.orders[i].orderId \in BookIds
    BY <1>3 DEF BookIds
  <2>4. NamesInBook
    BY <2>1, <2>2, <2>3 DEF NamesInBook
  <2> QED
    BY <1>1, <1>3, <2>4 DEF BookInv, Init
<1> QED
  BY <1>2, <1>3 DEF Init

\* No operation brings in a name the book does not know.
LEMMA NextKeepsNames == BookInv /\ [Next]_account => BookInv'
<1> SUFFICES ASSUME BookInv, [Next]_account PROVE NamesInBook'
  BY NextKeepsIInv DEF BookInv
<1>1. IInv /\ account.orders \in Seq(Order) /\ account.positions \in Seq(Position)
  BY FieldsOfIInv DEF BookInv
<1>2. CASE Deposit \/ Withdraw \/ UNCHANGED account
  <2>1. account'.orders = account.orders /\ account'.positions = account.positions
    <3>1. CASE Deposit
      BY <3>1 DEF Deposit, DepositCore
    <3>2. CASE Withdraw
      BY <3>2 DEF Withdraw, WithdrawCore
    <3>3. CASE UNCHANGED account
      BY <3>3
    <3> QED
      BY <1>2, <3>1, <3>2, <3>3
  <2> QED
    BY <2>1 DEF BookInv, NamesInBook
<1>3. CASE PlaceOrder
  <2>1. PICK order \in OrderInputs :
          CanPlaceOrder(account, order) /\ account' = PlaceOrderCore(account, order)
    BY <1>3 DEF PlaceOrder
  <2>2. /\ account'.orders = Append(account.orders, order)
        /\ account'.positions = account.positions
        /\ order \in Order
        /\ order.orderId \in BookIds /\ order.symbol \in BookSymbols
    BY <2>1, InputAssumption DEF PlaceOrderCore, BookIds, BookSymbols
  <2>3. /\ DOMAIN account'.orders = DOMAIN account.orders \cup {Len(account.orders) + 1}
        /\ \A i \in DOMAIN account.orders : account'.orders[i] = account.orders[i]
        /\ account'.orders[Len(account.orders) + 1] = order
    BY <1>1, <2>2
  <2> QED
    BY <2>2, <2>3 DEF BookInv, NamesInBook
<1>4. CASE SetOrderStatus
  <2>1. /\ account'.positions = account.positions
        /\ DOMAIN account'.orders = DOMAIN account.orders
        /\ \A i \in DOMAIN account.orders : IsSameOrder(account.orders[i], account'.orders[i])
    BY <1>1, <1>4, SetOrderStatusMoves DEF OnlyOrdersMove, OrdersKept
  <2> QED
    BY <2>1 DEF BookInv, NamesInBook, IsSameOrder
<1>5. CASE Update
  <2>a. PICK fill \in Fill : IsValidFill(fill) /\ \E order : OnlyTradeMoves(fill, order)
    BY <1>1, <1>5, UpdateMovesTrade
  <2>1. PICK order : OnlyTradeMoves(fill, order)
    BY <2>a
  <2>2. \A i \in DOMAIN account'.orders :
          /\ i \in DOMAIN account.orders
          /\ IsSameOrder(account.orders[i], account'.orders[i])
    BY <2>1 DEF OnlyTradeMoves
  <2>3. order.symbol \in BookSymbols
    BY <2>1, OrderFound DEF OnlyTradeMoves, BookInv, NamesInBook, GetOrder
  <2>4. ASSUME NEW i \in DOMAIN account'.positions
        PROVE  account'.positions[i].symbol \in BookSymbols
    <3> DEFINE held == account'.positions[i]
    <3>1. IsValidPositionSet(account'.positions)
      <4>1. IInv'
        BY <1>1, NextKeepsIInv
      <4> QED
        BY <4>1 DEF IInv, GoodAccount, IsValidAccount
    <3>2. PositionOrEmpty(account'.positions, held.symbol) = held
      BY <3>1, PositionAtIndex
    <3>3. held.quantity # 0
      <4>1. IsOpen(held)
        BY <3>1 DEF IsValidPositionSet
      <4> QED
        BY <4>1 DEF IsOpen
    <3> HIDE DEF held
    <3>4. CASE held.symbol # order.symbol
      <4>1. held = PositionOrEmpty(account.positions, held.symbol)
        BY <2>1, <3>2, <3>4 DEF OnlyTradeMoves
      <4>2. ExistsPosition(account.positions, held.symbol)
        BY <3>3, <4>1 DEF PositionOrEmpty
      <4> QED
        BY <4>2, PositionFound DEF BookInv, NamesInBook, ExistsPosition, held
    <3> QED
      BY <2>3, <3>4 DEF held
  <2> QED
    BY <2>2, <2>4 DEF BookInv, NamesInBook, IsSameOrder
<1> QED
  BY <1>2, <1>3, <1>4, <1>5 DEF Next
-----------------------------------------------------------------------------
(* Each call is a move of the book, or none *)

bookVars == << account.cash, HeldOf(account.positions), BookOrders >>

\* A step that leaves the book's view alone is a stutter of the book.
LEMMA BookVars == UNCHANGED bookVars => UNCHANGED Book!vars
  BY DEF Book!vars, bookVars, HeldOf

\* What the book holds of a symbol is a number of shares.
LEMMA HeldIsNatural ==
  ASSUME NEW positions \in Seq(Position), NEW symbol
  PROVE  PositionOrEmpty(positions, symbol).quantity \in Nat
<1>1. CASE ExistsPosition(positions, symbol)
  <2>1. GetPosition(positions, symbol) \in Position
    BY <1>1, PositionFound DEF GetPosition
  <2> QED
    BY <1>1, <2>1 DEF PositionOrEmpty, Position
<1> QED
  BY <1>1 DEF PositionOrEmpty

\* A valid order of a known symbol is an order of the book.
LEMMA AsBookType ==
  ASSUME NEW order \in Order, IsValidOrder(order), order.symbol \in BookSymbols
  PROVE  AsBook(order) \in Book!BookOrder
<1>1. /\ order.quantity \in Nat /\ order.filledQuantity \in Nat
      /\ order.filledQuantity <= order.quantity
      /\ order.side \in {"Buy", "Sell"}
  BY DEF Order, OrderSide, IsValidOrder
<1>2. RemainingQuantity(order) \in Nat
  BY <1>1 DEF RemainingQuantity
<1>3. BookState(order.status) \in {"live", "completed", "abandoned"}
  BY DEF BookState
<1> QED
  BY <1>1, <1>2, <1>3 DEF AsBook, Book!BookOrder

\* Every account the core starts from is an initial book (VerifiedAccount.dfy).
LEMMA InitIsBookInit == Init => Book!Init
<1> SUFFICES ASSUME Init PROVE Book!Init
  OBVIOUS
<1>1. BookInv /\ IInv
  BY InitNames DEF BookInv
<1>2. /\ account.cash \in Int
      /\ account.positions \in Seq(Position)
      /\ account.orders \in Seq(Order) /\ IsValidOrderSet(account.orders)
  BY <1>1, FieldsOfIInv
<1>3. [s \in BookSymbols |-> PositionOrEmpty(account.positions, s).quantity]
        \in [BookSymbols -> Nat]
  BY <1>2, HeldIsNatural
<1>4. IdsOf(account.orders) \in SUBSET BookIds
  BY <1>1 DEF IdsOf, BookInv, NamesInBook
<1>5. BookOrders \in [IdsOf(account.orders) -> Book!BookOrder]
  <2>1. ASSUME NEW id \in IdsOf(account.orders)
        PROVE  AsBook(GetOrder(account.orders, id)) \in Book!BookOrder
    <3>1. PICK i \in DOMAIN account.orders : account.orders[i].orderId = id
      BY DEF IdsOf
    <3>2. GetOrder(account.orders, id) = account.orders[i]
      BY <1>2, <3>1, OrderIndexUnique DEF GetOrder
    <3>3. /\ account.orders[i] \in Order /\ IsValidOrder(account.orders[i])
          /\ account.orders[i].symbol \in BookSymbols
      BY <1>1, <1>2 DEF IsValidOrderSet, BookInv, NamesInBook
    <3> QED
      BY <3>2, <3>3, AsBookType
  <2>2. BookOrders = [id \in IdsOf(account.orders) |-> AsBook(GetOrder(account.orders, id))]
    BY MappingIsView DEF BookOf
  <2> QED
    BY <2>1, <2>2
<1> QED
  BY <1>2, <1>3, <1>4, <1>5 DEF Book!Init

\* A deposit in the core is a deposit in the book.
LEMMA DepositIsMove ==
  ASSUME BookInv, Deposit
  PROVE  Book!Deposit
<1>1. PICK id \in OfferedLedgerIds, amount \in Amounts :
        CanDeposit(account, id, amount) /\ account' = DepositCore(account, id, amount)
  BY DEF Deposit
<1>2. /\ amount > 0 /\ account'.cash = account.cash + amount
      /\ account'.positions = account.positions /\ account'.orders = account.orders
  BY <1>1 DEF CanDeposit, DepositCore
<1>3. BookOrders' = BookOrders
  BY <1>2, MappingIsView
<1> QED
  BY <1>2, <1>3 DEF Book!Deposit

\* A withdrawal in the core is a withdrawal in the book.
LEMMA WithdrawIsMove ==
  ASSUME BookInv, Withdraw
  PROVE  Book!Withdraw
<1>1. PICK id \in OfferedLedgerIds, amount \in Amounts :
        CanWithdraw(account, id, amount) /\ account' = WithdrawCore(account, id, amount)
  BY DEF Withdraw
<1>2. /\ amount > 0 /\ account.cash >= amount /\ account'.cash = account.cash - amount
      /\ account'.positions = account.positions /\ account'.orders = account.orders
  BY <1>1 DEF CanWithdraw, CanDeposit, WithdrawCore
<1>3. amount \in Int /\ account.cash \in Int
  BY InputAssumption, FieldsOfIInv DEF BookInv
<1>4. BookOrders' = BookOrders
  BY <1>2, MappingIsView
<1> QED
  BY <1>2, <1>3, <1>4 DEF Book!Withdraw

\* An order the core accepts is placed in the book.
LEMMA PlaceOrderIsMove ==
  ASSUME BookInv, PlaceOrder
  PROVE  Book!Place
<1>1. PICK order \in OrderInputs :
        CanPlaceOrder(account, order) /\ account' = PlaceOrderCore(account, order)
  BY DEF PlaceOrder
<1>2. /\ account'.cash = account.cash
      /\ account'.positions = account.positions
      /\ account'.orders = Append(account.orders, order)
  BY <1>1 DEF PlaceOrderCore
<1>3. /\ order \in Order /\ order.quantity \in Nat /\ order.quantity > 0
      /\ order.filledQuantity = 0 /\ order.status = "Pending"
      /\ order.side \in {"Buy", "Sell"}
      /\ ~ExistsOrder(account.orders, order.orderId)
  BY <1>1, InputAssumption DEF CanPlaceOrder, IsValidOrder, Order, OrderSide
<1>4. /\ account.orders \in Seq(Order) /\ IsValidOrderSet(account.orders)
      /\ IsValidOrderSet(Append(account.orders, order))
  <2>1. IInv /\ IInv'
    BY NextKeepsIInv DEF BookInv, Next
  <2>2. IsValidOrderSet(account'.orders)
    BY <2>1 DEF IInv, GoodAccount, IsValidAccount
  <2> QED
    BY <1>2, <2>1, <2>2, FieldsOfIInv
<1>5. /\ order.orderId \in BookIds /\ order.symbol \in BookSymbols
      /\ order.quantity \in {o.quantity : o \in OrderInputs}
  BY DEF BookIds, BookSymbols
<1>6. /\ order.orderId \notin IdsOf(account.orders)
      /\ BookOrders' = [x \in IdsOf(account.orders) \cup {order.orderId} |->
                          IF x = order.orderId THEN AsBook(order) ELSE BookOrders[x]]
      /\ DOMAIN BookOrders = IdsOf(account.orders)
  <2>1. DOMAIN BookOf(account.orders) = IdsOf(account.orders)
    BY DEF BookOf
  <2>2. /\ order.orderId \notin IdsOf(account.orders)
        /\ BookOf(account'.orders) =
             [x \in IdsOf(account.orders) \cup {order.orderId} |->
                IF x = order.orderId THEN AsBook(order) ELSE BookOf(account.orders)[x]]
    BY <1>2, <1>3, <1>4, BookOfAppended
  <2> QED
    BY <2>1, <2>2, MappingIsView
<1>7. AsBook(order) = [symbol |-> order.symbol, side |-> order.side,
                       left |-> order.quantity, state |-> "live"]
  BY <1>3 DEF AsBook, RemainingQuantity, BookState
<1>8. order.orderId \in BookIds \ DOMAIN BookOrders
  BY <1>5, <1>6
<1>9. BookOrders' = [x \in DOMAIN BookOrders \cup {order.orderId} |->
                       IF x = order.orderId
                       THEN [symbol |-> order.symbol, side |-> order.side,
                             left |-> order.quantity, state |-> "live"]
                       ELSE BookOrders[x]]
  BY <1>6, <1>7
<1> QED
  BY <1>2, <1>3, <1>5, <1>8, <1>9 DEF Book!Place

\* A status change that the book can see gives up a live order: an order is
\* called filled by a status change only if it was filled already.
LEMMA SetOrderStatusIsMove ==
  ASSUME BookInv, SetOrderStatus
  PROVE  Book!Abandon \/ UNCHANGED bookVars
<1>0. IInv /\ IInv'
  BY NextKeepsIInv DEF BookInv, Next
<1>1. PICK k \in DOMAIN account.orders, newStatus \in OrderStatus :
        /\ CanSetOrderStatus(account.orders[k], newStatus)
        /\ account'.orders = [account.orders EXCEPT ![k] = SetStatus(account.orders[k], newStatus)]
  BY <1>0, SetOrderStatusMoves
<1> DEFINE order == account.orders[k]
           updated == SetStatus(order, newStatus)
<1>2. account'.cash = account.cash /\ account'.positions = account.positions
  BY <1>0, SetOrderStatusMoves DEF OnlyOrdersMove
<1>3. /\ account.orders \in Seq(Order) /\ IsValidOrderSet(account.orders)
      /\ IsValidOrderSet(account'.orders)
      /\ order \in Order /\ IsValidOrder(order) /\ HasValidOrderStatus(order)
  <2>1. IsValidOrderSet(account'.orders)
    BY <1>0 DEF IInv, GoodAccount, IsValidAccount
  <2>2. /\ account.orders \in Seq(Order) /\ IsValidOrderSet(account.orders)
        /\ HasLifecycleConsistentOrders(account.orders)
    BY <1>0, FieldsOfIInv
  <2> QED
    BY <2>1, <2>2 DEF IsValidOrderSet, HasLifecycleConsistentOrders
<1>4. /\ updated \in Order /\ IsSameOrder(order, updated)
      /\ updated.orderId = order.orderId
      /\ updated.status = newStatus /\ updated.filledQuantity = order.filledQuantity
  BY <1>1, <1>3, SetStatusSound
<1>5. /\ BookOrders' = [BookOrders EXCEPT ![order.orderId] = AsBook(updated)]
      /\ order.orderId \in DOMAIN BookOrders
      /\ BookOrders[order.orderId] = AsBook(order)
  <2>1. IsValidOrderSet([account.orders EXCEPT ![k] = updated])
        /\ account'.orders = [account.orders EXCEPT ![k] = updated]
    BY <1>1, <1>3
  <2>2. BookOf(account'.orders) = [BookOf(account.orders) EXCEPT ![order.orderId] = AsBook(updated)]
    <3> HIDE DEF updated
    <3> QED
      BY <1>3, <1>4, <2>1, BookOfReplaced
  <2> QED
    BY <1>3, <2>2, BookOfOrder, MappingIsView
<1>6. \/ newStatus = order.status
      \/ BookState(newStatus) = "live" /\ BookState(order.status) = "live"
      \/ BookState(newStatus) = "abandoned" /\ BookState(order.status) = "live"
  <2>1. /\ CanTransition(order.status, newStatus)
        /\ IsStatusCompatible(newStatus, order.filledQuantity, order.quantity)
        /\ IsStatusCompatible(order.status, order.filledQuantity, order.quantity)
        /\ order.quantity > 0 /\ order.quantity \in Nat /\ order.filledQuantity \in Nat
    BY <1>1, <1>3 DEF CanSetOrderStatus, CanSetStatus, HasValidOrderStatus, IsValidOrder, Order
  <2> HIDE DEF order
  <2> QED
    BY <2>1 DEF CanTransition, IsStatusCompatible, BookState
<1> DEFINE seen == AsBook(order)
<1>7. AsBook(updated) = [symbol |-> seen.symbol, side |-> seen.side, left |-> seen.left,
                         state |-> BookState(newStatus)]
      /\ seen = [symbol |-> seen.symbol, side |-> seen.side, left |-> seen.left,
                 state |-> seen.state]
      /\ seen.state = BookState(order.status)
  BY <1>4 DEF AsBook, IsSameOrder, RemainingQuantity
<1> HIDE DEF order, updated, seen
<1>8. CASE BookState(newStatus) = BookState(order.status)
  <2>1. AsBook(updated) = seen
    BY <1>7, <1>8
  <2>2. BookOrders' = BookOrders
    BY <1>5, <2>1 DEF seen, BookOrders
  <2> QED
    BY <1>2, <2>2 DEF bookVars
<1>9. CASE BookState(newStatus) = "abandoned" /\ BookState(order.status) = "live"
  <2>1. AsBook(updated) = [seen EXCEPT !.state = "abandoned"]
    BY <1>7, <1>9
  <2>2. /\ BookOrders[order.orderId].state = "live"
        /\ BookOrders' = [BookOrders EXCEPT ![order.orderId].state = "abandoned"]
    BY <1>5, <1>7, <1>9, <2>1 DEF seen
  <2> QED
    BY <1>2, <1>5, <2>2 DEF Book!Abandon
<1> QED
  BY <1>6, <1>8, <1>9
\* A fill that Update accepts is an execution of a live order, no larger than what
\* the order has left or, of a sell, than what is held.
LEMMA UpdateIsMove ==
  ASSUME BookInv, Update
  PROVE  Book!Execute
<1>0. IInv /\ IInv'
  BY NextKeepsIInv DEF BookInv, Next
<1>1. PICK fill \in FillInputs :
        /\ CanUpdate(account, fill)
        /\ account' = UpdateCore(account, fill)
  BY DEF Update
<1> DEFINE k == OrderIndex(account.orders, fill.orderId)
           order == account.orders[k]
           n == fill.quantity
           updated == ApplyFill(order, n)
           base == PositionOrEmpty(account.positions, order.symbol)
           signed == IF order.side = "Buy" THEN n ELSE 0 - n
           next == IF order.side = "Buy" THEN ApplyBuy(base, fill) ELSE ApplySell(base, fill)
<1>2. /\ fill \in Fill /\ n \in Nat /\ fill.price \in Int
      /\ fill.price \in {f.price : f \in FillInputs}
  BY InputAssumption DEF Fill
<1>3. /\ account.orders \in Seq(Order) /\ IsValidOrderSet(account.orders)
      /\ account.positions \in Seq(Position) /\ IsValidPositionSet(account.positions)
      /\ account.cash \in Int
      /\ IsValidOrderSet(account'.orders)
  <2>1. IsValidOrderSet(account'.orders)
    BY <1>0 DEF IInv, GoodAccount, IsValidAccount
  <2> QED
    BY <1>0, <2>1, FieldsOfIInv
<1>4. /\ ExistsOrder(account.orders, fill.orderId)
      /\ order = GetOrder(account.orders, fill.orderId)
      /\ IsValidFill(fill) /\ n > 0 /\ fill.price > 0
      /\ BelongsToOrder(fill, order)
      /\ CanApplyFill(order, n)
      /\ order.side = "Sell" =>
           /\ ExistsPosition(account.positions, order.symbol)
           /\ GetPosition(account.positions, order.symbol).quantity >= n
  BY <1>1 DEF CanUpdate, IsApplicableFill, GetOrder, IsValidFill
<1>5. k \in DOMAIN account.orders /\ order.orderId = fill.orderId
  BY <1>4, OrderFound DEF GetOrder
<1>6. /\ order \in Order /\ IsValidOrder(order)
      /\ order.symbol \in BookSymbols
      /\ order.side \in {"Buy", "Sell"}
      /\ order.quantity \in Nat /\ order.filledQuantity \in Nat
      /\ order.status \in {"Pending", "Open", "PartiallyFilled"}
      /\ n <= order.quantity - order.filledQuantity
  <2>1. order \in Order /\ order.symbol \in BookSymbols
    BY <1>3, <1>5 DEF BookInv, NamesInBook
  <2> HIDE DEF order, n
  <2> QED
    BY <1>4, <2>1 DEF CanApplyFill, CanFill, CanAcceptFill, Order, OrderSide
<1>7. /\ updated \in Order /\ IsSameOrder(order, updated)
      /\ updated.orderId = order.orderId
      /\ updated.filledQuantity = order.filledQuantity + n
      /\ updated.status = IF order.filledQuantity + n = order.quantity
                          THEN "Filled" ELSE "PartiallyFilled"
  <2>1. updated.status = IF order.filledQuantity + n = order.quantity
                          THEN "Filled" ELSE "PartiallyFilled"
    BY <1>6 DEF ApplyFill, Order
  <2> HIDE DEF updated
  <2> QED
    BY <1>2, <1>4, <1>6, <2>1, ApplyFillSound DEF updated
<1>8. /\ account'.orders = [account.orders EXCEPT ![k] = updated]
      /\ account'.positions = UpdatedPositions(account.positions, order, fill)
      /\ account'.cash = IF order.side = "Buy" THEN account.cash - ExecutionValue(fill)
                         ELSE account.cash + ExecutionValue(fill)
  <2>1. UpdateOrder(account.orders, updated)
          = [account.orders EXCEPT ![OrderIndex(account.orders, updated.orderId)] = updated]
    BY DEF UpdateOrder
  <2>2. OrderIndex(account.orders, updated.orderId) = k
    BY <1>5, <1>7
  <2>3. /\ account'.orders = UpdateOrder(account.orders, updated)
        /\ account'.positions = UpdatedPositions(account.positions, order, fill)
        /\ account'.cash = IF order.side = "Buy" THEN account.cash - ExecutionValue(fill)
                           ELSE account.cash + ExecutionValue(fill)
    BY <1>1, <1>4 DEF UpdateCore
  <2> QED
    BY <2>1, <2>2, <2>3
<1>9. /\ BookOrders' = [BookOrders EXCEPT ![order.orderId] = AsBook(updated)]
      /\ order.orderId \in DOMAIN BookOrders
      /\ BookOrders[order.orderId] = AsBook(order)
  <2>1. IsValidOrderSet([account.orders EXCEPT ![k] = updated])
        /\ account'.orders = [account.orders EXCEPT ![k] = updated]
    BY <1>3, <1>8
  <2>2. BookOf(account'.orders) = [BookOf(account.orders) EXCEPT ![order.orderId] = AsBook(updated)]
    <3> HIDE DEF updated, k
    <3> QED
      BY <1>3, <1>5, <1>7, <2>1, BookOfReplaced
  <2> HIDE DEF k, updated
  <2>3. /\ order.orderId \in DOMAIN BookOf(account.orders)
        /\ BookOf(account.orders)[order.orderId] = AsBook(order)
    BY <1>3, <1>5, BookOfOrder
  <2> QED
    BY <2>2, <2>3, MappingIsView
<1>10. /\ base \in Position
       /\ next.quantity = IF order.side = "Buy" THEN base.quantity + n ELSE base.quantity - n
       /\ \A symbol : PositionOrEmpty(account'.positions, symbol) =
                        IF symbol = order.symbol THEN next
                        ELSE PositionOrEmpty(account.positions, symbol)
  <2> HIDE DEF order
  <2> QED
    BY <1>2, <1>3, <1>4, <1>6, <1>8, PositionOrEmptySound, UpdatedPositionsLookup
<1> DEFINE seen == AsBook(order)
           left == RemainingQuantity(order)
<1>11. /\ seen = [symbol |-> order.symbol, side |-> order.side, left |-> left, state |-> "live"]
       /\ left \in Nat /\ n \in 1 .. left
  BY <1>2, <1>4, <1>6 DEF AsBook, RemainingQuantity, BookState
<1>12. AsBook(updated) = [symbol |-> order.symbol, side |-> order.side, left |-> left - n,
                          state |-> IF left = n THEN "completed" ELSE "live"]
  <2>1. RemainingQuantity(updated) = left - n
    BY <1>2, <1>6, <1>7 DEF RemainingQuantity, IsSameOrder
  <2>2. order.filledQuantity + n = order.quantity <=> left = n
    BY <1>2, <1>6 DEF RemainingQuantity
  <2> HIDE DEF updated, order, left, n
  <2> QED
    BY <1>7, <2>1, <2>2 DEF AsBook, BookState, IsSameOrder
<1>13. base.quantity \in Nat /\ base.quantity + signed >= 0 /\ signed \in Int
  <2>1. order.side = "Sell" => base = GetPosition(account.positions, order.symbol)
    BY <1>4, SMTT(30) DEF PositionOrEmpty
  <2>2. base.quantity \in Nat
    BY <1>10 DEF Position
  <2> HIDE DEF base, order, n
  <2> QED
    BY <1>2, <1>4, <1>6, <2>1, <2>2
<1>14. account'.cash = account.cash - signed * fill.price
  <2>1. ExecutionValue(fill) = n * fill.price
    BY DEF ExecutionValue
  <2>2. (0 - n) * fill.price = 0 - n * fill.price
    BY <1>2
  <2>3. n * fill.price \in Int
    BY <1>2
  <2> HIDE DEF n, order
  <2> QED
    BY <1>3, <1>6, <1>8, <2>1, <2>2, <2>3
<1> DEFINE holdings == [s \in BookSymbols |-> PositionOrEmpty(account.positions, s).quantity]
           holdingsAfter == [s \in BookSymbols |-> PositionOrEmpty(account'.positions, s).quantity]
<1>15. /\ holdingsAfter = [holdings EXCEPT ![order.symbol] = holdings[order.symbol] + signed]
       /\ holdings[order.symbol] + signed >= 0
  <2>1. next.quantity = base.quantity + signed
    <3> HIDE DEF next, base, order, n
    <3> QED
      BY <1>2, <1>6, <1>10, <1>13
  <2>2. holdings[order.symbol] = base.quantity
    BY <1>6
  <2> HIDE DEF next, order, signed
  <2>3. ASSUME NEW s \in BookSymbols
        PROVE  holdingsAfter[s] = IF s = order.symbol THEN holdings[order.symbol] + signed
                                  ELSE holdings[s]
    BY <1>10, <2>1, <2>2
  <2> QED
    BY <1>13, <2>2, <2>3
<1> HIDE DEF k, order, n, updated, base, next, left, signed, seen, holdings, holdingsAfter
<1>16. /\ seen.symbol = order.symbol /\ seen.side = order.side
       /\ seen.left = left /\ seen.state = "live"
  BY <1>11
<1>17. BookOrders' = [BookOrders EXCEPT
                        ![order.orderId].left = seen.left - n,
                        ![order.orderId].state = IF seen.left = n THEN "completed" ELSE "live"]
  <2>1. BookOrders[order.orderId] = seen
    BY <1>9 DEF seen
  <2>2. AsBook(updated) = [[seen EXCEPT !.left = seen.left - n]
                             EXCEPT !.state = IF seen.left = n THEN "completed" ELSE "live"]
    <3>1. [seen EXCEPT !.left = seen.left - n]
            = [symbol |-> order.symbol, side |-> order.side, left |-> left - n, state |-> "live"]
      BY <1>11, <1>16
    <3>2. \A st : [[symbol |-> order.symbol, side |-> order.side, left |-> left - n, state |-> "live"]
                     EXCEPT !.state = st]
                   = [symbol |-> order.symbol, side |-> order.side, left |-> left - n, state |-> st]
      OBVIOUS
    <3> QED
      BY <1>12, <1>16, <3>1, <3>2
  <2> QED
    BY <1>9, <2>1, <2>2
<1>18. signed = IF seen.side = "Buy" THEN n ELSE 0 - n
  BY <1>16 DEF signed
<1>19. \E id \in DOMAIN BookOrders, price \in {f.price : f \in FillInputs} :
         \E m \in 1 .. BookOrders[id].left :
           /\ BookOrders[id].state = "live"
           /\ price > 0
           /\ holdings[BookOrders[id].symbol] + (IF BookOrders[id].side = "Buy" THEN m ELSE 0 - m) >= 0
           /\ account'.cash = account.cash
                 - (IF BookOrders[id].side = "Buy" THEN m ELSE 0 - m) * price
           /\ holdingsAfter = [holdings EXCEPT ![BookOrders[id].symbol] =
                 holdings[BookOrders[id].symbol] + (IF BookOrders[id].side = "Buy" THEN m ELSE 0 - m)]
           /\ BookOrders' = [BookOrders EXCEPT
                 ![id].left = BookOrders[id].left - m,
                 ![id].state = IF BookOrders[id].left = m THEN "completed" ELSE "live"]
  <2>1. BookOrders[order.orderId] = seen
    BY <1>9 DEF seen
  <2>2. seen.left = left /\ n \in 1 .. seen.left
    BY <1>11, <1>16
  <2> DEFINE Executed(id, price, m) ==
           /\ BookOrders[id].state = "live"
           /\ price > 0
           /\ holdings[BookOrders[id].symbol] + (IF BookOrders[id].side = "Buy" THEN m ELSE 0 - m) >= 0
           /\ account'.cash = account.cash
                 - (IF BookOrders[id].side = "Buy" THEN m ELSE 0 - m) * price
           /\ holdingsAfter = [holdings EXCEPT ![BookOrders[id].symbol] =
                 holdings[BookOrders[id].symbol] + (IF BookOrders[id].side = "Buy" THEN m ELSE 0 - m)]
           /\ BookOrders' = [BookOrders EXCEPT
                 ![id].left = BookOrders[id].left - m,
                 ![id].state = IF BookOrders[id].left = m THEN "completed" ELSE "live"]
  <2>3. Executed(order.orderId, fill.price, n)
    BY <1>4, <1>14, <1>15, <1>16, <1>17, <1>18, <2>1 DEF n
  <2> SUFFICES \E id \in DOMAIN BookOrders, price \in {f.price : f \in FillInputs} :
                 \E m \in 1 .. BookOrders[id].left : Executed(id, price, m)
    OBVIOUS
  <2> HIDE DEF Executed
  <2> QED
    BY <1>2, <1>9, <2>1, <2>2, <2>3
<1> QED
  BY <1>19, Zenon DEF Book!Execute, holdings, holdingsAfter

\* Every step of the core is a step of the book, or one the book does not see.
LEMMA NextIsMove ==
  ASSUME BookInv, [Next]_account
  PROVE  [Book!Next]_(Book!vars)
<1>1. CASE UNCHANGED account
  <2>1. UNCHANGED bookVars
    BY <1>1, MappingIsView DEF bookVars
  <2> QED
    BY <2>1, BookVars
<1>2. CASE SetOrderStatus
  <2>1. Book!Abandon \/ UNCHANGED bookVars
    BY <1>2, SetOrderStatusIsMove
  <2> QED
    BY <2>1, BookVars DEF Book!Next
<1> QED
  BY <1>1, <1>2, DepositIsMove, WithdrawIsMove, PlaceOrderIsMove, UpdateIsMove
     DEF Next, Book!Next

\* The verified account implements the book: every behaviour of the core, seen
\* through its holdings and its orders, is a behaviour of TradingBook.
THEOREM AccountImplementsBook == Spec => ImplementsTradingBook
<1>1. Spec => []BookInv
  BY InitNames, NextKeepsNames, PTL DEF Spec
<1>2. BookInv /\ [Next]_account => [Book!Next]_(Book!vars)
  BY NextIsMove
<1> QED
  BY <1>1, <1>2, InitIsBookInit, PTL DEF Spec, ImplementsTradingBook, Book!Spec
=============================================================================

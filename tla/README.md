# VQC: specifications, model checks and proofs

VQC is a financial state-transition core verified in Dafny, wrapped by Python and
TypeScript bindings, and a Python client that keeps one verified account in step
with a broker. This directory holds TLA+ models of the core and of the
broker-backed client, the TLC runs that check them, and TLAPS proofs about the
core, the client, the money arithmetic and the strategies. Paths below are relative to `src/`.

## 1. Inventory

### The parts

| part | state | operations | correct when |
|---|---|---|---|
| Order lifecycle (`dafny/Lifecycle.dfy`) | none | predicates on statuses and fills | terminal orders stay terminal; live orders can finish |
| Validation and types (`dafny/Types.dfy`, `Validation.dfy`) | none | what a valid order, position, ledger, account is | it is enough for every later operation's contract |
| Orders, positions, ledger, executions (`dafny/Orders.dfy`, `Positions.dfy`, `Ledger.dfy`, `Execution.dfy`, `AccountUtility.dfy`) | none (values) | search, replace, upsert, remove, append, sums | uniqueness of ids and symbols survives; averages stay within prices paid |
| Account operations (`dafny/Account.dfy`, `AccountProof.dfy`) | the account value the caller keeps | NewAccount, Bootstrap, Deposit, Withdraw, PlaceOrder, SetOrderStatus, Update | the account stays valid and its ledger explains cash, holdings and fills |
| Money (`python/bindings/vqc_currency.py`, `dafny/Currency.dfy`) | none (values) | decimal to cents, half to even; arithmetic on operands of every type | no amount is silently dropped or moved |
| Type bindings (`python/bindings/vqc_types.py`, `vqc_account.py`) | none | enums and record constructors | nothing changes its meaning at the language boundary |
| Lifecycle reporting (`python/bindings/vqc_lifecycle.py`) | none | Place, ApplyStatus, ApplyFill | only executions carry economics |
| Client (`python/vqc_client.py`) | `_account`, `_state_lock` | constructor, four order calls, `_submit_order`, `Liquidate`, `MarketIsOpen` | never promises a share twice; every order the broker took is in the account |
| Worker (`python/vqc_daemon.py`) | `_order_ids`, `_seen_execution_keys`, `_next_execution_id`, the stream thread, the stop event | snapshot, track, handle update, run stream, recover | account and updates in flight equal the broker; recovery ends |
| Alpaca adapter (`python/bindings/alpaca_adapter.py`) | credentials | conversions, reads, submission, stream | statuses and quantities keep their meaning |
| Example strategies (`python/examples/`) | the schedule, the market clock read | one round of orders per interval | limits cover the quote; a failed order spoils no other |
| TypeScript bindings, tests, build scripts | none | - | - |

### How they interact

Two threads of the client share the account under one re-entrant lock.
The caller's thread submits: it checks the sell reservation, calls the broker and
registers the answer, all under the lock. The worker's thread runs the trade
stream: every update is handled under the lock, an update of an untracked order
replaces the whole account by a fresh snapshot, and when the stream ends or a
handler raises, the worker retries a snapshot until one succeeds and subscribes
again. The broker is not bound by the lock. Every change of the account goes
through a verified operation, whose contract is a runtime `expect`: a call that
violates it raises `HaltException` and changes nothing.

### What is hard here

A snapshot is three reads at three moments, and the subscription is a fourth.
Fills queue up behind a lock that a submission or a refresh holds. An update can
be lost, repeated, or already contained in the snapshot. Snapshots renumber the
orders. The broker's answer and the stream describe the same order along two
paths. The core may refuse what the broker has already accepted. The core itself
is sequential: its hazards are long call sequences, fresh ledger ids and floor
division. `PROJECT.json` lists each hazard at its line with the properties that
are aimed at it. Around the client, prices are quoted finer than a cent, requests
pass two layers of checks, and a strategy acts on a clock it read some time ago.

## 2. Modules

| module | models | composed of |
|---|---|---|
| `OrderLifecycle` | the predicates of `Lifecycle.dfy` | |
| `Validation` | the datatypes and validity predicates | `OrderLifecycle` |
| `AccountOps` | every helper, contract (`Can...`) and result (`...Core`) of the account operations | `Validation` |
| `VerifiedAccount` | one account driven by any sequence of calls | `AccountOps` |
| `TradingBook` | abstract: what an account promises its owner | |
| `VerifiedAccountToBook` | the refinement of `TradingBook` by `VerifiedAccount` | both |
| `Tallies` | the sum of a sequence and the elements of a sequence in a set | |
| `Money` | conversions and overloaded operators | |
| `MoneyTotals` | a caller that keeps a total and a list of amounts | `Money` |
| `TypeBindings` | enums and record constructors | `Validation` |
| `OrderSubmission` | the order calls and their two layers of checks | `TypeBindings` |
| `BrokerAdapter` | the Alpaca conversions | `TypeBindings`, `Money` |
| `Broker` | external: order book, holdings, cash, trade updates | |
| `BrokerSync` | client, worker, lifecycle and broker together | `AccountOps`, `OrderSubmission`, `BrokerAdapter`, `Broker` |
| `SyncedAccount` | abstract: what a synchronized client promises its caller | |
| `BrokerSyncToSynced` | the refinement of `SyncedAccount` by `BrokerSync` | both |
| `Strategies` | the two example jobs and their schedule | `OrderSubmission`, `Money` |
| `MC...` | finite inputs for TLC | |
| `TalliesProofs` | what the folds of `Tallies` compute | `Tallies` |
| `AccountOpsProofs` | lemmas on the helpers and the operations of the core | `AccountOps`, `TalliesProofs` |
| `VerifiedAccountProofs` | type, validity, lifecycle, bookkeeping; the ledger explains the account; the refinement of `TradingBook` | `VerifiedAccountToBook`, `AccountOpsProofs` |
| `MoneyTotalsProofs`, `StrategiesProofs` | rounding and totals; limits and clock | `MoneyTotals`, `TalliesProofs`; `Strategies` |
| `BrokerSyncProofs` | the client, its worker and the broker: type, validity, tracking, promises | `BrokerSync`, `AccountOpsProofs` |
| `BrokerSyncAgreementProofs` | the client and the broker agree; the refinement of `SyncedAccount` | `BrokerSyncProofs`, `BrokerSyncToSynced` |
| `BrokerSyncOffersProofs` | the client never oversells | `BrokerSyncAgreementProofs` |

A definition whose name ends in `_Something` after the name of another, with a
comment that starts "Mutant:", is a plausible mistake in the code it stands beside;
no specification uses it.

### The core

`VerifiedAccount` has one variable, `account`, and one action per public
operation. An action is enabled exactly when the operation's contract holds; a
refused call halts and leaves the account alone, so it is not a step. `Init`
covers `NewAccount` and every snapshot `Bootstrap` accepts. Timestamps are left
out: no operation reads them. `RECURSIVE` is avoided: sums are folds and searches
choose an index, which the uniqueness of ids makes the same one.

### The client

`BrokerSync` keeps the code's variables under the same ideas:

| variable | code |
|---|---|
| `account` | `VQCClient._account`, `NoAccount` until the constructor has synchronized |
| `orderIds`, `seen`, `nextExecutionId` | `_order_ids`, `_seen_execution_keys`, `_next_execution_id` |
| `user` | where the caller's thread is: idle, waiting for the broker, or holding its answer |
| `daemon` | where the worker is, in which of its three synchronizations (constructor, handler, recovery), what it has read so far, and whether the stop event is set |
| `queue`, `connected` | updates the stream has sent, and whether anyone is subscribed |
| `book`, `shares`, `cash`, `executions` | the broker |

`_state_lock` is not a variable: the caller holds it whenever `user` is not idle,
the worker while it reads a snapshot; every other critical section is one action.
A broker call ends a step, so the broker can move between any two calls even while
the lock is held. The order key is the index in the broker's book and the
execution key a counter, both unique as the broker's UUIDs are.

An exception in a handler ends `RunTradeStream`, which is what
`_RunTradeStream`'s `except` clause (`vqc_daemon.py:147`) is written for. An
exception in the constructor leaves no client: the worker is `failed` for good,
until a restart. Raising discards what is left of the stream, as leaving
`stream.run()` does.

A request is what a caller passes: any quantity, spelling or price, also ones that
are no number. `PassesClientChecks` is what `_submit_order` tests before it takes
the lock, `PassesAdapterChecks` what `SubmitOrder` tests under it, and
`NativeOrder` the order sent. Prices are in ten-thousandths at the broker and in
cents in the account; an execution has one price, `Price`.

The faults are: the stream ends, losing some of what it had sent; an update is
repeated, or changes places with its neighbour; a read fails or holds a record that
cannot be converted; a submission is refused, or its answer is lost after the
broker has accepted it; the answer, or an order of the snapshot, has no id; the
answer has no status, or one the adapter does not know; an update lacks a field; the
process restarts. Missing fields are told apart because the code notices each at
another point: an order of a snapshot without an id after the account is replaced
(`vqc_daemon.py:49`), an answer without one after the order is placed
(`vqc_daemon.py:73`), an answer without a status after its key is stored too
(`vqc_daemon.py:76`), an update before anything has changed.

The broker answers a read of the open orders with as many as it is asked for
(`OrdersAnswered`, `SnapshotLimit`), and the adapter refuses an answer of that length
(`alpaca_adapter.py:271`).

### The abstractions

`TradingBook` knows cash, holdings and orders that are live, completed or given up;
it has no ledger, no lists and no statuses. Under the mapping of
`VerifiedAccountToBook` every operation of the core is one of its moves.

`SyncedAccount` knows the broker's balance, the balance shown, and the set of
executions told and not yet applied. An execution may be of any signed quantity, so
its next-state relation has no bound. `Safety` is its steps, which the client
implements by a theorem as well as in a run. Its liveness is two leads-to formulas
(`Progress`) and not fairness of its actions: TLC cannot evaluate
`ENABLED` of an action with a parameterized, composite mapping, and what a caller
relies on is the outcome. `BrokerSyncToSynced` maps the queue to the set of new
executions in it, the account to the balance shown, and a failed constructor to
`closed`.

### The strategies

`Strategies` runs either job: the clock is read once per round, `MultiMarketBuy`
also reads the listings, then each symbol's order is placed or, when its quote,
listing or submission fails, skipped. The session changes whenever it likes. The
client behind the calls is `BrokerSync`; here a request only has to pass the two
layers of checks, and anything behind them may still refuse it.

## 3. Runs

| run | bounds | shows |
|---|---|---|
| `account` | 2 orders out of 3 kinds, 4 ledger entries, ids with gaps, refused calls, ids, orders and fills among the accepted ones | the account stays valid and lifecycle-consistent, its live orders can finish, only executions fill orders; cash, holdings, filled quantities and average prices are explained by the ledger; and all of it implements `TradingBook` |
| `faults` | a buy and liquidations of an account with 2 shares, 2 orders, 2 queued updates, 1 fault of eight kinds, a broker that would sell short | account plus updates in flight equals the broker (`InFlightAgreement`); the client never oversells (`NoOversell`); every interruption ends in agreement (`EventuallyAgrees`); the client implements `SyncedAccount` (`ImplementsSyncedAccount`) and makes its progress (`SyncedAccountProgresses`) |
| `torn` | up to 3 orders, one of them a resting buy found at start, at a broker that answers with at most 3, also moves between snapshot reads and while nobody listens, cancels before a submission is answered, and lets orders go on the next day; no short sales | what open sells promise stays within the local holding (`ReservationHolds`); a client that listens tracks every live order (`LiveOrdersAreTracked`) |
| `hostile` | every fault but swapped updates, other traders, short sales, a snapshot limit of 2, a price that rounds to zero; 2 orders, the client's or others', 2 queued updates, one repeated | `AccountStaysValid`, `TrackedOrdersMatch`; no execution is applied twice (`NoExecutionTwice`), also with a new account between an update and its repetition |
| `untracked` | orders from elsewhere and orders whose answer was lost, a broker that moves while nobody listens | every order the stream speaks of is tracked in the end (`EveryHeardOrderIsTracked`) |
| `requests` | every order call with good and bad symbols, quantities, prices, sessions and times in force, down to just above half a cent; 1 order; a stream that may end or swap two updates, the stop event at any moment | no accepted order is left out (`AcceptedOrdersAreTracked`); what is tracked is the instruction given, at its prices (`TrackedOrdersMatch`); the client settles also after swapped updates (`EventuallyAgrees`) or obeys the stop event (`StopIsObeyed`) |
| `rounding` | 3 amounts of ten values of every type; purchases of 2 shares | both conversions agree, the error is at most half a cent a rounding, neither sign is favoured |
| `rounds` | both jobs, 12 quotes from a ten-thousandth up, listings on any of 3 exchanges | limits cover the ask and survive the client's rounding, orders follow a clock of their round, rounds go on |

Four runs end in a violation and record where the code and its documentation part:

| run | property | what happens |
|---|---|---|
| `refresh` | `QuiescentAgreement` | another order on the account triggers a snapshot that already contains a queued fill, and the fill is applied again |
| `early_cancel` | `NoOversell` | the answer of a submission says cancelled while a fill of that order is still queued: the reservation is dropped although the shares are sold |
| `subcent` | `AcceptedOrdersAreTracked` | 0.0050 is a positive price; the broker takes it, the core refuses a limit of zero cents |
| `pending_cancel` | `LifecycleUpdatesAreNonEconomic` | a pending cancellation of a partially filled order becomes a fill status, which the lifecycle path refuses |

`NoOversell` can also be seen to fail with `Env = {"margin", "lost_answer"}` (one
fault) and with `Env = {"margin", "next_day"}` and a sell good till cancelled: a sell
whose answer was lost reserves nothing until an update names it, and one that is done
for the day is taken as cancelled while it goes on the next day.

What the environment may do is the constant `Env`. The passing runs leave out of
it exactly what a violation run or the project's own `Todo.md` shows to break the
property: `faults` has no other traders (`refresh`), no
cancellation before the answer (`early_cancel`), no lost answer, no next day and
no broker move while a snapshot is read or nobody listens (the gap of
`Todo.md:36-39`), and no passing run but `hostile` has a sub-cent price (`subcent`).
`torn`, `hostile` and `untracked` put some or all of these
back, for the properties that survive them. `torn` leaves out short sales, because a client misled
by the gap would otherwise sell short and no local account could cover it.
Swapped updates are in `requests` only: with a broker that sells short, a fill that
arrives after the cancellation of its order is refused, and until the recovery that
this causes the client may offer its shares again, so `NoOversell` assumes that a
stream keeps its order. `InFlightAgreement` does not need it: the theorem
`InFlightAgrees` covers swapped updates, early cancellations, orders that go on the
next day and the stop event as well.

**Why the bounds are enough.** Two shares and two orders are the least that give
a partial fill, two sells competing for one holding, and an order placed between
two snapshots. One fault at a time, at every point, reaches each recovery path;
two queued updates and the repetition of one let a partial fill, its repetition and
a cancellation overlap, two a swap. The three orders of `torn` fill the broker's
answer, the two that leave it room still compete for one holding. In `hostile` one
order can be the client's and one another's: the unknown one replaces the account by
a snapshot, before or after an update of the first is handled or repeated. Three ledger entries fill one order in two
executions beside a deposit; four add a closing sell, and two orders at a time meet
in every pair of the three kinds. One order is enough for `requests`, which is about
arguments, the stop event and the order of one order's updates. Three amounts give a
rounding on top of a rounding on top of a sum. The quotes of `rounds` lie at, just
above and just below those whose limit is a whole cent. `MaxEntries`, `MaxOrders`,
`MaxFaults` and `MaxQueue` appear only in guards. Deadlock is not checked: a client at rest with nothing
to do, a full bound, a stopped worker, an interrupted job or a failed constructor
really stops.

**Fairness.** `WF(CallerStep)`: a call to the broker returns or raises, and the
thread that made it goes on. `WF(DaemonStep)`: the worker runs when it can; its
retry loop has no limit but the stop event (`vqc_daemon.py:163`) and its pauses are
bounded by 30 seconds. The lock is released on every path. Nothing is assumed of
callers, broker moves, other traders or faults: they may happen or not. Python's
lock is not fair, so callers whose orders are refused one after the other can keep
the worker from the lock for ever; `EventuallyAgrees` and
`EveryHeardOrderIsTracked` therefore speak of behaviours in which callers come to
rest. Moves and faults come to rest by their bounds. `Strategies` assumes
`WF(JobStep)`: the loop wakes every second and a request of the job returns or raises.

## 4. Proofs

TLC shows a property of a small instance; the theorems below state it for every
value of the constants: every set of inputs, every account found at start, every
environment unless one is named, and every bound.

| theorem | property | run |
|---|---|---|
| `VerifiedAccountProofs`: `TypeCorrect`, `AlwaysValid`, `AlwaysLifecycleConsistent`, `LiveOrdersNeverStuck`, `LifecycleRespected`, `FillsAreBooked`, `MovementsAreLedgered` | `TypeOK`, `ValidAccount`, `OrdersLifecycleConsistent`, `LiveOrdersCanFinish`, `OrdersFollowLifecycle`, `FilledOnlyByExecution`, `EveryMovementIsLedgered` | `account` |
| `VerifiedAccountProofs`: `CashExplained`, `PositionsExplained`, `OrdersExplained`, `AveragePricesPaid` | `CashMatchesHistory`, `PositionsMatchHistory`, `OrdersMatchHistory`, `AveragePriceWithinPaidPrices` | `account` |
| `VerifiedAccountProofs`: `AccountImplementsBook` | `ImplementsTradingBook` | `account` |
| `MoneyTotalsProofs`: `TotalsAgree`, `RoundingBounded`, `RefundsMirror` | `TotalIsSumOfEntries`, `RoundingErrorIsBounded`, `RefundsMirrorCharges` | `rounding` |
| `StrategiesProofs`: `LimitsCover`, `ClockIsFollowed` | `LimitsCoverTheAsk`, `OrdersFollowTheClock` | `rounds` |
| `BrokerSyncProofs`: `SyncTypeCorrect`, `AccountAlwaysValid`, `TrackingFaithful` | `TypeOK`, `AccountStaysValid`, `TrackedOrdersMatch` | `faults`, `hostile`, `requests` |
| `BrokerSyncProofs`: `ExecutionsAppliedOnce` | `NoExecutionTwice` | `hostile` |
| `BrokerSyncProofs`: `ReservationKept`, if nobody sells short | `ReservationHolds` | `torn` |
| `BrokerSyncProofs`: `AcceptedAreTracked`, if answers arrive and no price vanishes in rounding | `AcceptedOrdersAreTracked` | `requests` |
| `BrokerSyncAgreementProofs`: `LiveOrdersTracked`, if nobody else trades, answers arrive and no price vanishes in rounding | `LiveOrdersAreTracked` | `torn` |
| `BrokerSyncAgreementProofs`: `InFlightAgrees`, with a quiet broker, answers that arrive and whole cents | `InFlightAgreement` | `faults` |
| `BrokerSyncAgreementProofs`: `QuiescentAgrees`, likewise | `QuiescentAgreement` | `refresh` has other traders, and there it fails |
| `BrokerSyncAgreementProofs`: `ClientImplementsSynced`, likewise | `ImplementsSyncedAccount` | `faults` |
| `BrokerSyncOffersProofs`: `NeverOversold`, likewise, and with an orderly broker that holds at first what is offered | `NoOversell` | `faults` |

### What is assumed

The named assumptions on the constants are type assumptions, which TLC evaluates on
every run: `InputAssumption` and `BoundAssumption` of the core, `TotalsAssumption`,
`AsksAssumption`, and `EnvAssumption` and `InputAssumption` of the client. The last
says that callers spell instruments the broker trades or nothing, that requests are
of the shape a caller can pass, good or bad, and what the broker keeps: numbered
orders, none filled beyond its quantity, each with the prices its type needs
(the adapter refuses to read others), and, without margin, no more offered than held.
Nothing is assumed of faults, of interleavings or of what callers ask.

The other theorems about the client have hypotheses of their own. The environment of
the passing run that checks the same property satisfies them all:

- `NoShortSales`: no `"margin"` and no `"foreign"` in `Env`. A local account cannot
  promise shares below zero, so a broker that sells short, or a user beside the
  client who sells the same shares, breaks the promise from outside. Everything else
  may happen: torn snapshots, moves while nobody listens, early cancellations, orders
  that go on the next day, and all eleven faults.
- `AnswersArrive` and `WholeCentPrices`: the answer to a submission is not lost and
  has an id, and a price that passes the client's check does not round to nothing.
  The run `subcent` is the counterexample to the second, and an order whose answer is
  lost is what `EveryHeardOrderIsTracked` of the run `untracked` is about.
- `OnlyClientTrades`: no `"foreign"`. An order placed elsewhere is unknown until an
  update names it, which is `EveryHeardOrderIsTracked`'s matter.
- `QuietBroker`: no `"foreign"` and no `"unquiet"`. Nobody else trades on the account,
  and the broker rests from the loss of a stream to the next subscription. The run
  `refresh` shows what another trader does to the agreement; moves in the gap are what
  `Todo.md:36-39` acknowledges.
- `WholeCents`: the execution price and the cash found at start are whole cents. The
  broker's cash is rounded once and the account's once per execution, so with smaller
  fractions the two may differ by cents.
- `OrderlyBroker`: no swapped updates, no cancellation before the answer, no order that
  goes on the next day, nor one found at start that will. `CoveredAtStart`: the
  broker holds at start what is offered, which `InputAssumption` says already unless the
  broker accepts short sales.

Of `NeverOversold`'s hypotheses on the environment none can be dropped: when any one of
`"reorder"`, `"early_cancel"`, `"next_day"`, `"unquiet"`, `"foreign"` and
`"lost_answer"` is added to the `Env` of `faults`, with callers that buy and sell, TLC
finds an oversell. `"margin"` is not excluded: the broker would let the client oversell.

### The invariants

**The core.** `GoodAccount`: typed, valid and lifecycle-consistent. `ValidAccount`
alone is not inductive: a fill on an order whose status disagrees with its filled
quantity need not leave a compatible one. `NextLedgerId` is fresh because the ids of
a finite ledger have a greatest (`MaxOfSequence`). `AccountOpsProofs` has one lemma
per operation, from a good account and the operation's contract to a good account,
over lemmas for the helpers: an updated order set keeps its ids, an upsert or removal
keeps positions unique, the floored mean lies between the two prices it averages. The
action properties follow from the same invariant by what each operation does to
orders and ledger.

**The history.** `HistoryInv` adds to it the three sums, the bounds of the average
prices, that every execution in the ledger names an order of the account in its
symbol, and that the orders of the opening are still there: without the last two a
new order could take up the executions of another. Each operation appends at most one
entry, so every proof is one lemma about what an entry does to a sum and one about
what the operation does to the list.

**The refinement of `TradingBook`.** `BookInv` is the invariant with the names of the
inputs. A list of orders is seen as a function from ids (`BookOf`), a list of
positions as a function from symbols (`HeldOf`); an append, a replacement, an upsert
and a removal are one change of that function each, and with that every operation is
one of the book's moves or none.

**Sums.** Induction over data cannot be cited from the library here, since its
theorems take an operator. `TalliesProofs` replaces it: the numbers that have a
property form a set, and a set of naturals without a least counterexample is all of
them (`LeastNatural`, `SetInduction`, from the well-foundedness of `<`). With it a
fold is shown to have prefix sums, these to be unique, and from there what
`SumSeq` and `SelectIn` do under append, concatenation, negation, replacement and
comparison. The sums over sets of updates in flight (`Moved`, `Paid`, `Filled`) are
treated alike: an element added or removed changes a sum by its own number, whatever
the order in which the library enumerates the set.

**Money and strategies.** `FromDecimal` is within half a cent, symmetric, and exact
on whole cents; the invariant of `MoneyTotals` says that the total is the sum of its
entries and within half a cent per rounding of the exact amount (`Near`). The
invariant of `Strategies` adds that the session state the job has read is one the
round has seen, also while it changes.

**The client.** `IInv` types the broker (`BrokerInv`) and the client (`ClientInv`).
Its parts that do not follow from the properties: every record in the worker's hands
is an order of the book as it once was, and an order
never changes its instruction (`SameInstruction`); the execution counter is one more
than the executions seen; the worker has an account unless it is still in the
constructor; and the lock excludes (`LockInv`), without which a snapshot could
replace the account under a submission that holds its answer. `Tracks` then survives
every step because no operation of the core loses an order or changes its
instruction (`Keeps`) and the book only grows (`Grows`). Every assignment of
`account` is an operation of the core under its contract, so validity comes from the
lemmas of the core.

**The promises.** `PromiseInv`, on top of `IInv`: the broker's open sells are covered
by its shares (`NoOversell`), the account's by its position (`AccountBacked`), a sell
under way is of shares nothing else has taken (`CallBacked`), and between the reads of a
snapshot what has been read covers what is still to be read (`ReadBacked`). The last is
the heart of it: positions are read before orders, and at a broker without margin the
offers of a symbol never outgrow the shares read before, because the lock keeps the
client from entering orders and an execution takes a share from both. TLC checked `PromiseInv`
on the bounds of `torn` before it was proved. A fill is applied at most once and takes
its shares from both sides; a lifecycle status only ever ends a promise.

**The accepted orders.** What passed the client's checks has a positive quantity and,
under `WholeCentPrices`, prices of at least a cent (`CallPlaceable`); such an order
with a fresh id satisfies the contract of `PlaceOrder` in any good account.

**The executions.** `NoExecutionTwice` follows from `IInv`: every execution applied is
remembered in the step that applies it, no snapshot forgets one, and what is remembered
are executions the broker has made, so there are no more of the one than of the other.

**The live orders.** `LiveInv`, on top of `IInv` and `CallPlaceable`: between two
snapshots the client knows every live order (`LiveKnown`), and between the last two
reads of one the worker has read them all (`LiveRead`). The broker may move in the
meantime: it never brings an ended order back to life (`NoneRevived`), the lock keeps
the client's own orders out, and an answer that is not full has not been cut
(`AnswerIsComplete`).

**The agreement.** `AgreeInv`, on top of `IInv` and `CallPlaceable`. From the end of a
synchronization to the loss of the stream (`InStep`) the holdings, the cash and each
order's fills are the broker's but for the executions in flight (`HoldingsAgree`,
`CashAgrees`, `FillsAgree`), and the client knows every live order (`LiveKnown`). For
these to survive, every update on its way is a copy of an order the client tracks or is
waiting for, and one execution has one update, however often it is repeated
(`HeardInv`); the order a call waits for is not tracked yet (`AcceptedInv`); while the
worker is not listening no stream runs and nothing is queued (`LineInv`), and what it
has read of a snapshot is what the broker still has (`ReadInv`), so the agreement
begins again with nothing in flight. An execution adds one update to the set in flight
and moves the broker by as much; the first handling takes it out and moves the account;
a repetition changes neither, because what is in flight is a set without what is
already seen. `QuiescentAgrees` is the case where that set is empty. The refinement of
`SyncedAccount` reads each of these steps as a step of the abstract client, and needs
besides that a client without a finished construction has no account (`StartInv`).

**The offers.** `OfferInv`, on top of `AgreeInv`, is exact bookkeeping. The `Slack` of an
order is what the account promises of it, less what the broker still offers of it, plus
the shares its unbooked executions have moved; the `Margin` of a symbol is what is free
at the broker beyond what the client would offer. `MarginInv` says that the margin is
the sum of the slacks of the orders the client knows. When no answer is awaited no slack
is negative (`SlackNotNegative`), so a sell the client lets pass is one the broker has
shares for (`OffersCovered`), and it stays so until the broker answers (`CallCovered`).
No slack is negative because the client books no more than the broker has filled
(`BookedInv`), an order that has ended in the account has nothing left to be executed or
booked (`EndedInv`), and an update that ends an order comes after every execution of it
(`EndsInv`), which is where a stream that swaps updates would break the proof. An
order that waits for its answer has not been cancelled (`AnswerInv`), which is where an
early cancellation would. TLC checked `AgreeInv` and `OfferInv` on the bounds of
`faults` before they were proved.

### What is only model-checked

- `EventuallyAgrees`, `StopIsObeyed`, `EveryHeardOrderIsTracked`, `RoundsGoOn` and
  `SyncedAccountProgresses`: liveness under fairness is beyond the prover.
- The four properties of the violation runs, which are false of the environments of
  those runs.

## 5. Not modelled

- `Orders.Cancel` and `Orders.Reject`: no account operation calls them; their
  guards are in `OrderLifecycle`. Of `Money`: absolute value, unary plus, `<=`, `>=`
  and text, which restate operators that are modelled.
- Manual event processing (`start_trade_stream=False`), and updates handled by
  several threads at once.
- The statuses `replaced` and `calculated`, which the adapter maps like
  `done_for_day` and the modelled broker never sends; stop triggers: a stop order is
  executable from the start.
- Fractional quantities: the adapter refuses them, which here is a failed read or a
  raising handler, without the fraction itself.
- Credentials, environment files and the SDK's own reconnections; the length of the
  recovery pauses; log messages, account displays and exception reports.
- Timestamps: no operation reads them.
- TypeScript bindings: stateless conversions over the core that `VerifiedAccount`
  models, with no client, broker or stream. Tests and packaging have no state.

## 6. Plan

Done: the models, the runs, the findings, and the theorems of section 4, which state
every safety property and action property the passing runs check. Left:

1. Manual event processing, as a second way to drive the handlers.
2. Agreement to the cent without `WholeCents`: a bound of half a cent per execution
   between the two roundings, from the lemmas of `MoneyTotalsProofs`.

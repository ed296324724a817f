------------------------- MODULE BrokerSyncToSynced -------------------------
(***************************************************************************)
(* The broker-backed client, its two threads, its lock, its broker and     *)
(* stream, implements SyncedAccount wherever the broker rests while nobody *)
(* listens, and makes its progress unless the worker is told to stop.      *)
(***************************************************************************)
EXTENDS BrokerSync

Shown ==
  IF ClientReady
  THEN [cash   |-> account.cash,
        shares |-> [s \in Symbols |-> PositionOrEmpty(account.positions, s).quantity]]
  ELSE NoAccount

Execution(update) ==
  [id |-> update.execution_id, symbol |-> update.order.symbol, qty |-> Signed(update)]

Synced == INSTANCE SyncedAccount WITH
            Price <- FromDecimal(Price),
            Unknown <- NoAccount,
            balance <- [cash |-> FromDecimal(cash), shares |-> shares],
            shown <- Shown,
            pending <- {Execution(update) : update \in InFlight},
            listening <- connected,
            closed <- (daemon.pc = "failed")

\* Through lost and repeated updates, failed reads, refused calls, malformed
\* records and restarts, the client only ever shows a balance the broker had plus
\* executions applied once each, and listens only from a balance that is the
\* broker's.
ImplementsSyncedAccount == Synced!Safety

\* It always comes back to that balance: the worker subscribes again, and when the
\* broker rests the client catches up.
SyncedAccountProgresses == Synced!Progress
=============================================================================

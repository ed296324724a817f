---------------------------- MODULE SyncedAccount ----------------------------
(***************************************************************************)
(* What a client of the broker promises its caller: the balance it shows   *)
(* is the broker's, short only of executions it has been told of and will  *)
(* still apply, each once.  When the connection is lost some of these are  *)
(* forgotten, and the client shows an old balance until it has read a      *)
(* fresh one; only then does it listen again.                              *)
(***************************************************************************)
EXTENDS Integers

CONSTANTS
  Symbols,  \* instruments traded
  Price,    \* cash one share moves
  Unknown   \* the balance shown before the first reading

VARIABLES
  balance,     \* [cash, shares] at the broker
  executions,  \* executions made: the last one's name
  shown,       \* [cash, shares] the client shows, or Unknown
  pending,     \* executions told and not yet applied
  listening,   \* the client is told of executions
  closed       \* the client could not be constructed

vars == << balance, executions, shown, pending, listening, closed >>

Balance == [cash : Int, shares : [Symbols -> Int]]

After(state, execution) ==
  [cash   |-> state.cash - execution.qty * Price,
   shares |-> [state.shares EXCEPT
                 ![execution.symbol] = state.shares[execution.symbol] + execution.qty]]

Init ==
  /\ balance \in Balance
  /\ executions = 0
  /\ shown = Unknown
  /\ pending = {}
  /\ ~listening
  /\ ~closed

\* The broker's balance moves only while it is listened to, and the client is told
\* of the execution, of whatever signed quantity.
Execute ==
  /\ listening
  /\ executions' = executions + 1
  /\ \E execution \in pending' :
       /\ execution.id = executions'
       /\ execution.symbol \in Symbols /\ execution.qty \in Int \ {0}
       /\ balance' = After(balance, execution)
       /\ pending' = pending \cup {execution}
  /\ UNCHANGED << shown, listening, closed >>

\* In any order, each once.
Apply ==
  /\ \E execution \in pending :
       /\ shown' = After(shown, execution)
       /\ pending' = pending \ {execution}
  /\ UNCHANGED << balance, executions, listening, closed >>

Interrupt ==
  /\ \E kept \in SUBSET pending : pending' = kept
  /\ listening' = FALSE
  /\ UNCHANGED << balance, executions, shown, closed >>

\* Once nothing it was told is left, the client reads the balance afresh.
Refresh ==
  /\ ~listening /\ pending = {}
  /\ shown' = balance
  /\ UNCHANGED << balance, executions, pending, listening, closed >>

Listen ==
  /\ shown = balance /\ pending = {}
  /\ listening' = TRUE
  /\ UNCHANGED << balance, executions, shown, pending, closed >>

Close ==
  /\ shown = Unknown
  /\ closed' = TRUE
  /\ UNCHANGED << balance, executions, shown, pending, listening >>

\* A new client knows nothing.
Restart ==
  /\ shown' = Unknown /\ pending' = {} /\ listening' = FALSE /\ closed' = FALSE
  /\ UNCHANGED << balance, executions >>

Next == Execute \/ Apply \/ Interrupt \/ Refresh \/ Listen \/ Close \/ Restart

\* Every interruption ends, and when the broker rests the client catches up.
Progress ==
  /\ ~listening ~> listening \/ closed
  /\ <>[][FALSE]_executions => <>[]((shown = balance /\ pending = {}) \/ closed)

Safety == Init /\ [][Next]_vars

Spec == Safety /\ Progress
=============================================================================

--------------------------- MODULE OrderLifecycle ---------------------------
(***************************************************************************)
(* The order-lifecycle rules of src/dafny/Lifecycle.dfy: which statuses an *)
(* order may move through, which filled quantities each status allows, and *)
(* when an order accepts a fill, a cancellation or a rejection.            *)
(***************************************************************************)
EXTENDS Integers

OrderStatus ==
  {"Pending", "Open", "PartiallyFilled", "Filled", "Cancelled", "Rejected"}

IsStatusCompatible(status, filledQuantity, quantity) ==
  \/ /\ status \in {"Pending", "Open", "Rejected"}
     /\ filledQuantity = 0
  \/ /\ status = "PartiallyFilled"
     /\ 0 < filledQuantity
     /\ filledQuantity < quantity
  \/ /\ status = "Filled"
     /\ filledQuantity = quantity
  \/ /\ status = "Cancelled"
     /\ filledQuantity < quantity

\* Mutant: a cancelled order still takes fills.
CanAcceptFill_Cancelled(status) ==
  status \in {"Pending", "Open", "PartiallyFilled", "Cancelled"}

CanAcceptFill(status) == status \in {"Pending", "Open", "PartiallyFilled"}

CanTransition(fromStatus, toStatus) ==
  \/ fromStatus = toStatus
  \/ /\ fromStatus = "Pending"
     /\ toStatus \in {"Open", "PartiallyFilled", "Filled", "Cancelled", "Rejected"}
  \/ /\ fromStatus = "Open"
     /\ toStatus \in {"PartiallyFilled", "Filled", "Cancelled", "Rejected"}
  \/ /\ fromStatus = "PartiallyFilled"
     /\ toStatus \in {"Filled", "Cancelled"}

\* Mutant: only the lifecycle edge is checked, not the filled quantity.
CanSetStatus_EdgeOnly(status, filledQuantity, quantity, newStatus) ==
  CanTransition(status, newStatus)

CanSetStatus(status, filledQuantity, quantity, newStatus) ==
  /\ CanTransition(status, newStatus)
  /\ IsStatusCompatible(newStatus, filledQuantity, quantity)

CanFill(status, filledQuantity, quantity, fillQuantity) ==
  /\ CanAcceptFill(status)
  /\ fillQuantity > 0
  /\ filledQuantity <= quantity
  /\ fillQuantity <= quantity - filledQuantity

CanCancel(status, filledQuantity, quantity) ==
  /\ CanAcceptFill(status)
  /\ filledQuantity < quantity

CanReject(status, filledQuantity) ==
  /\ status \in {"Pending", "Open"}
  /\ filledQuantity = 0
=============================================================================

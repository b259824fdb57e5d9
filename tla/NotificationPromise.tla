------------------------- MODULE NotificationPromise -------------------------
(***************************************************************************)
(* What the payment notification outbox promises to the rest of the        *)
(* back end, without workers, leases or attempts: a notification that is   *)
(* owed may be delivered any number of times while it is owed; it is       *)
(* confirmed only when it has been delivered at least once; and a          *)
(* confirmed or abandoned notification is never touched again.             *)
(***************************************************************************)
CONSTANT Notifications

VARIABLES
  fate,       \* per notification: "none", "owed", "confirmed" or "abandoned"
  delivered   \* per notification: has a copy reached the channel?

Init ==
  /\ fate = [n \in Notifications |-> "none"]
  /\ delivered = [n \in Notifications |-> FALSE]

\* The payment transaction commits together with the notification it owes.
Owe(n) ==
  /\ fate[n] = "none"
  /\ fate' = [fate EXCEPT ![n] = "owed"]
  /\ UNCHANGED delivered

\* A copy reaches the channel; a second copy is a step that changes nothing.
Deliver(n) ==
  /\ fate[n] = "owed"
  /\ delivered' = [delivered EXCEPT ![n] = TRUE]
  /\ UNCHANGED fate

Confirm(n) ==
  /\ fate[n] = "owed"
  /\ delivered[n]
  /\ fate' = [fate EXCEPT ![n] = "confirmed"]
  /\ UNCHANGED delivered

Abandon(n) ==
  /\ fate[n] = "owed"
  /\ fate' = [fate EXCEPT ![n] = "abandoned"]
  /\ UNCHANGED delivered

Next ==
  \E n \in Notifications : Owe(n) \/ Deliver(n) \/ Confirm(n) \/ Abandon(n)

Spec == Init /\ [][Next]_<<fate, delivered>>
=============================================================================

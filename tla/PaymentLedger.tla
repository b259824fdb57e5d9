---------------------------- MODULE PaymentLedger ----------------------------
(***************************************************************************)
(* What a payment means, without requests, retries or failures: money is   *)
(* taken at most once per idempotency key; a key is confirmed (recorded as *)
(* paid together with its notification) only after the money was taken, or *)
(* when nothing is due; a parking session is closed only when one of its   *)
(* keys was confirmed; and none of this is ever taken back.                *)
(***************************************************************************)
CONSTANTS
  Keys,        \* the idempotency keys
  Free,        \* the keys under which nothing is due
  Sessions,    \* the parking sessions
  SessionOf(_) \* the session a key belongs to

VARIABLES taken, confirmed, closed

Init == taken = {} /\ confirmed = {} /\ closed = {}

Take(k) ==
  /\ k \notin taken \cup Free
  /\ taken' = taken \cup {k}
  /\ UNCHANGED <<confirmed, closed>>

Confirm(k) ==
  /\ k \notin confirmed
  /\ k \in taken \cup Free
  /\ confirmed' = confirmed \cup {k}
  /\ UNCHANGED <<taken, closed>>

Close(s) ==
  /\ \E k \in confirmed : SessionOf(k) = s
  /\ closed' = closed \cup {s}
  /\ UNCHANGED <<taken, confirmed>>

Next ==
  \/ \E k \in Keys : Take(k) \/ Confirm(k)
  \/ \E s \in Sessions : Close(s)

Spec == Init /\ [][Next]_<<taken, confirmed, closed>>
=============================================================================

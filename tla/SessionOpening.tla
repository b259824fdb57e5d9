--------------------------- MODULE SessionOpening ---------------------------
(***************************************************************************)
(* What the back end promises about the entry of a car: a parking session  *)
(* is opened for the visit, announced to the app once it exists, and paid  *)
(* at most once.  A car has one open session at a time, a session that is  *)
(* paid is not opened again, and an announcement is not taken back.        *)
(***************************************************************************)
CONSTANTS
  Visits,     \* the visits
  Cars,       \* the cars
  NoCar       \* of a visit without a session

VARIABLES
  session,    \* per visit: "none", "active" or "completed"
  carOf,      \* per visit with a session: its car
  announced   \* the visits whose session was announced

Init ==
  /\ session = [v \in Visits |-> "none"]
  /\ carOf = [v \in Visits |-> NoCar]
  /\ announced = {}

Open(v, c) ==
  /\ session[v] = "none"
  /\ \A u \in Visits : carOf[u] = c => session[u] # "active"
  /\ session' = [session EXCEPT ![v] = "active"]
  /\ carOf' = [carOf EXCEPT ![v] = c]
  /\ UNCHANGED announced

Announce(v) ==
  /\ session[v] # "none"
  /\ announced' = announced \cup {v}
  /\ UNCHANGED <<session, carOf>>

Pay(v) ==
  /\ session[v] = "active"
  /\ v \in announced
  /\ session' = [session EXCEPT ![v] = "completed"]
  /\ UNCHANGED <<carOf, announced>>

Next == \E v \in Visits : Announce(v) \/ Pay(v) \/ \E c \in Cars : Open(v, c)

Spec == Init /\ [][Next]_<<session, carOf, announced>>
=============================================================================

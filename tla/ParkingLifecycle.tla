-------------------------- MODULE ParkingLifecycle --------------------------
(***************************************************************************)
(* The life of a parking visit as the PMS promises it, without handlers,   *)
(* Redis or retries: a visit is opened, paid once a payment for it was     *)
(* recorded, and over once it is paid and the car was seen at the exit.    *)
(* Nothing goes back, and a recorded payment stays recorded.               *)
(***************************************************************************)
CONSTANTS
  Visits,    \* the visits
  Payments   \* the payments a visit may receive

VARIABLES
  stage,     \* per visit: "none", "active", "paid" or "exited"
  settled    \* the recorded payments, as pairs visit, payment

Init == stage = [v \in Visits |-> "none"] /\ settled = {}

Move(v, from, to) ==
  /\ stage[v] = from
  /\ stage' = [stage EXCEPT ![v] = to]
  /\ UNCHANGED settled

Open(v) == Move(v, "none", "active")
Exit(v) == Move(v, "paid", "exited")

Settle(v, p) ==
  /\ stage[v] # "none"
  /\ settled' = settled \cup {<<v, p>>}
  /\ UNCHANGED stage

Pay(v) ==
  /\ \E p \in Payments : <<v, p>> \in settled
  /\ Move(v, "active", "paid")

Next ==
  \E v \in Visits :
    \/ Open(v) \/ Pay(v) \/ Exit(v)
    \/ \E p \in Payments : Settle(v, p)

Spec == Init /\ [][Next]_<<stage, settled>>
=============================================================================

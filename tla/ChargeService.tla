---------------------------- MODULE ChargeService ----------------------------
(***************************************************************************)
(* What the back end takes a payment gateway for: under an idempotency key *)
(* money is taken at most once; "success" is told only of money that was   *)
(* taken, "failed" only of a key that is settled for good without it.      *)
(***************************************************************************)
CONSTANT Keys

VARIABLES
  verdict,  \* per key: "none", "asked", "charged" or "declined"
  told      \* the answers given, as pairs key, "success" or "failed"

Init == verdict = [k \in Keys |-> "none"] /\ told = {}

Ask(k) ==
  /\ verdict[k] = "none"
  /\ verdict' = [verdict EXCEPT ![k] = "asked"]
  /\ UNCHANGED told

Charge(k) ==
  /\ verdict[k] = "asked"
  /\ verdict' = [verdict EXCEPT ![k] = "charged"]
  /\ UNCHANGED told

Decline(k) ==
  /\ verdict[k] \in {"none", "asked", "declined"}
  /\ verdict' = [verdict EXCEPT ![k] = "declined"]
  /\ told' = told \cup {<<k, "failed">>}

Confirm(k) ==
  /\ verdict[k] = "charged"
  /\ told' = told \cup {<<k, "success">>}
  /\ UNCHANGED verdict

Next == \E k \in Keys : Ask(k) \/ Charge(k) \/ Decline(k) \/ Confirm(k)

Spec == Init /\ [][Next]_<<verdict, told>>
=============================================================================

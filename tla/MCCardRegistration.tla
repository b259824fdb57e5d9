------------------------- MODULE MCCardRegistration -------------------------
(* Small instances of CardRegistration for TLC. *)
EXTENDS CardRegistration
=============================================================================

-------------------------- MODULE MCProcessPayment --------------------------
(* Small instances of ProcessPayment for TLC. *)
EXTENDS ProcessPayment, TLC

Symmetry == Permutations(Requests)
=============================================================================

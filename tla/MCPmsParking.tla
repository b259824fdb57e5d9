---------------------------- MODULE MCPmsParking ----------------------------
(* Small instances of PmsParking for TLC. *)
EXTENDS PmsParking, TLC

Symmetry == Permutations(Handlers) \cup Permutations(Visits) \cup Permutations(Payments)
=============================================================================

----------------------------- MODULE MCPgCharge -----------------------------
(* Small instances of PgCharge for TLC. *)
EXTENDS PgCharge, TLC

Symmetry == Permutations(Calls)
=============================================================================

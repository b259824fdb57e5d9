--------------------------- MODULE MCLoginSession ---------------------------
(* Bounds for LoginSession: two users, one with two cars, who share one.    *)
EXTENDS LoginSession

MCCarsOf == [u \in Users |-> IF u = "u1" THEN {"c1"} ELSE {"c1", "c2"}]
=============================================================================

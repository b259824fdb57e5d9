--------------------------- MODULE MCPaymentOutbox ---------------------------
(* Model values and symmetry for checking PaymentOutbox with TLC.           *)
EXTENDS PaymentOutbox, TLC

Symmetry == Permutations(Workers) \cup Permutations(Notifications)
=============================================================================

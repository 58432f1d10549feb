----------------------------- MODULE MCPayments -----------------------------
(* Values for the small instance of Payments. *)
EXTENDS Payments
MCAmounts == {-1, 1, 3}
=============================================================================

---------------------------- MODULE MCResilience ----------------------------
(* Values for the small instance of Resilience. *)
EXTENDS Resilience

MCOthers == BreakerState
=============================================================================

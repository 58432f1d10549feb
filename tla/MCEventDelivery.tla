-------------------------- MODULE MCEventDelivery ---------------------------
EXTENDS EventDelivery
=============================================================================

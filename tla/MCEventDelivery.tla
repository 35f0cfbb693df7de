--------------------------- MODULE MCEventDelivery ---------------------------
(* A small instance of EventDelivery for TLC.                              *)
EXTENDS EventDelivery, TLC
=============================================================================

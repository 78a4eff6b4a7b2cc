-------------------------- MODULE MCActionDelivery --------------------------
(* ActionDelivery for TLC; the bounds are given in the configurations.       *)
EXTENDS ActionDelivery
=============================================================================

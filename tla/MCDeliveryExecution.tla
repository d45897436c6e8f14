------------------------ MODULE MCDeliveryExecution ------------------------
(* Instances of DeliveryExecution for TLC. *)
EXTENDS DeliveryExecution
=============================================================================

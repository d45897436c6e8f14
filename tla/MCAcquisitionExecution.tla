----------------------- MODULE MCAcquisitionExecution -----------------------
(* Instances of AcquisitionExecution for TLC. *)
EXTENDS AcquisitionExecution
=============================================================================

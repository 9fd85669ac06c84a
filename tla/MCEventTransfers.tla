-------------------------- MODULE MCEventTransfers --------------------------
(* Small instances of EventTransfers for TLC.                              *)
EXTENDS EventTransfers
=============================================================================

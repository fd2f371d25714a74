------------------------------- MODULE MCBatch -------------------------------
(* An instance of Batch for TLC. *)
EXTENDS Batch

MCStage == {"stack", "net", "user"}
=============================================================================

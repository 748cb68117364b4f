----------------------------- MODULE MCExecutor -----------------------------
(* The step executor for TLC.                                              *)
EXTENDS StepExecutor
CONSTANTS g1, g2
AllConfigs == {"traxcli", "durable"} \X BOOLEAN
=============================================================================

-------------------------------- MODULE MCMq --------------------------------
(* The channel pool and a consumer for TLC.                                *)
EXTENDS MqProperties
CONSTANTS c1, m1
=============================================================================

----------------------------- MODULE MCClients -----------------------------
(* The coordinator of one saga and a client that waits for it, for TLC.    *)
EXTENDS SagaClients

=============================================================================

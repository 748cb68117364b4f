------------------------------- MODULE MCSaga -------------------------------
(* The coordinator of one saga, for TLC.                                   *)
EXTENDS SagaOutcome, SagaClaims, TLC

\* The consumers of the results queue are interchangeable.
ConsumerSymmetry == Permutations(Handlers)

=============================================================================

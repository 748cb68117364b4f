--------------------------- MODULE SagaRefinement ---------------------------
(* The coordinator implements the contract of a saga: the outcome is the   *)
(* saga row's state, and the walk has turned back when some step is in a   *)
(* compensation state.                                                     *)
EXTENDS SagaProperties

walkOf == IF \E i \in Steps : isCompensationState(step[i]) THEN "back" ELSE "forward"

Contract == INSTANCE SagaContract
              WITH outcome <- saga, walk <- walkOf, effect <- effect, forced <- forced

\* Every step of the coordinator, its executors and the operator is a step
\* of the contract or leaves the contract's state alone.
ContractSpec == Contract!Spec

=============================================================================

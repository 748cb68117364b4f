----------------------------- MODULE SagaClaims -----------------------------
(* A statement that a comment of the repository makes about a saga and     *)
(* that the code does not keep.  It is the property of a run that TLC      *)
(* refutes; the counterexample is the behaviour of the code.               *)
EXTENDS SagaProperties

\* coordinator.go, above the EXECUTION_RUNNING case: a request that gets no
\* result within its timeout fails.  So a RUNNING step never stays RUNNING
\* for ever.
RunningEnds ==
  \A i \in Steps : step[i] \in {"ER", "CR"} ~> step[i] \notin {"ER", "CR"}

=============================================================================

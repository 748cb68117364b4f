----------------------------- MODULE SagaStates -----------------------------
(* The states of a saga and of its steps, and the pure checks the          *)
(* coordinator makes on the ordered vector of step states                  *)
(* (pkg/trax/const.go, pkg/trax/coordinator.go).                           *)
(*                                                                         *)
(* A step state is written with two letters, E(xecution) or C(ompensation) *)
(* followed by the initial the coordinator's own comments use:             *)
(*   P ending, C andidate, R unning, S ucceeded, D one, F ailed, B locked, *)
(*   A borted.                                                             *)
(* A step vector is a function from 1..n, in execution order: what         *)
(* OrderSagaStepsInSequence returns.                                       *)
EXTENDS Integers

SagaStates == {"RUNNING", "COMMITTED", "COMPENSATED", "BLOCKED",
               "INVALID_STATE", "COMPENSATION_REQUESTED"}

ExecutionStates == {"EP", "EC", "ER", "ES", "ED", "EF", "EB", "EA"}

CompensationStates == {"CP", "CC", "CR", "CS", "CD", "CF", "CB"}

StepStates == ExecutionStates \cup CompensationStates

\* The row states the poller's query selects.
PollStates == {"EC", "ER", "ES", "EF", "ED", "CC", "CR", "CS", "CF"}

\* Mutant: a pass picks up RUNNING steps again.
PollSkipsNotRunning == {"ED", "CD", "EA", "CB", "EP", "CP"}

\* States in which the poller leaves a freshly read step alone ...
PollSkips == {"ED", "CD", "EA", "CB", "ER", "CR", "EP", "CP"}

\* ... and the shorter list of the immediate-processing goroutine.
ImmediateSkips == {"ED", "CD", "ER", "CR"}

\* Mutants: one state is missing from the list of late states.
LateStatesNoDone == {"ES", "EF", "EA", "EB", "CP", "CC", "CS", "CD", "CF"}
LateStatesNoCompensated == {"ES", "ED", "EF", "EA", "EB", "CP", "CC", "CS", "CF"}

\* States in which an incoming result is taken for a late duplicate.
LateStates == {"ES", "ED", "EF", "EA", "EB", "CP", "CC", "CS", "CD", "CF"}

isCompensationState(s) == s \in CompensationStates

-----------------------------------------------------------------------------
(* isSagaStateValid and its two modes.                                     *)

validateNonCompensatingMode(st, cur) ==
  /\ st[cur] \in {"ED", "EC", "EP", "ER", "ES", "EF"}
  /\ \A i \in DOMAIN st : i < cur => st[i] = "ED"
  /\ \A i \in DOMAIN st : i > cur => st[i] \in {"EP", "EC", "ER", "ES", "EF", "ED"}
     \* after the current step, at most one step that is not pending
  /\ \A i, j \in DOMAIN st :
        (cur < i /\ i < j /\ st[i] # "EP") => st[j] = "EP"

\* Mutant: the steps after the current one must all be aborted.
validateCompensatingModeAborted(st, cur) ==
  /\ isCompensationState(st[cur])
  /\ \A i \in DOMAIN st : i < cur => st[i] = "CP"
  /\ \A i \in DOMAIN st : i > cur => st[i] = "EA"

validateCompensatingMode(st, cur) ==
  /\ isCompensationState(st[cur])
  /\ \A i \in DOMAIN st : i < cur => st[i] = "CP"
  /\ \A i \in DOMAIN st : i > cur => st[i] = "EA" \/ isCompensationState(st[i])
  /\ \A i, j \in DOMAIN st :
        (cur < i /\ i < j /\ st[i] = "EA") => st[j] = "EA"

isSagaStateValid(st, cur) ==
  IF \E i \in DOMAIN st : isCompensationState(st[i])
  THEN validateCompensatingMode(st, cur)
  ELSE validateNonCompensatingMode(st, cur)

\* The check before a saga is marked COMPENSATED: COMPENSATION_DONE first,
\* then EXECUTION_ABORTED to the end, and nothing else.
CompensatedPattern(st) ==
  /\ st[1] = "CD"
  /\ \A i \in DOMAIN st : st[i] \in {"CD", "EA"}
  /\ \A i, j \in DOMAIN st : (i < j /\ st[i] = "EA") => st[j] = "EA"

=============================================================================

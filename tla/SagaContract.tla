---------------------------- MODULE SagaContract ----------------------------
(* What a saga promises to the application that submitted it, without      *)
(* queues, mutexes, histories or goroutines: effects are applied in order, *)
(* are undone in reverse order once the saga has turned round, and the     *)
(* outcome the saga reports agrees with the effects that are in place.     *)
(* SagaRefinement shows that the coordinator implements it.                *)
EXTENDS Integers

CONSTANT N   \* number of steps

Steps == 1..N

VARIABLES
  outcome,   \* the reported state of the saga
  walk,      \* "forward", or "back" once compensation has begun
  effect,    \* per step: none, applied or undone
  forced     \* an operator declared the saga compensated

vars == <<outcome, walk, effect, forced>>

Init ==
  /\ outcome = "RUNNING"
  /\ walk = "forward"
  /\ effect = [i \in Steps |-> "none"]
  /\ forced = FALSE

\* A step takes effect after all the steps before it and before any later one.
Apply(i) ==
  /\ walk = "forward"
  /\ \A j \in Steps : effect[j] = IF j < i THEN "applied" ELSE "none"
  /\ effect' = [effect EXCEPT ![i] = "applied"]
  /\ UNCHANGED <<outcome, walk, forced>>

\* A step is undone when no later step has its effect any more.
Undo(i) ==
  /\ walk = "back"
  /\ \A j \in Steps : /\ j > i => effect[j] # "applied"
                      /\ j < i => effect[j] = "applied"
  /\ effect' = [effect EXCEPT ![i] = "undone"]
  /\ UNCHANGED <<outcome, walk, forced>>

\* A saga turns round before it has committed, or when it is asked to after.
TurnBack ==
  /\ walk = "forward"
  /\ walk' = "back"
  /\ \/ outcome \in {"RUNNING", "INVALID_STATE"} /\ UNCHANGED outcome
     \/ outcome = "COMPENSATION_REQUESTED" /\ outcome' = "RUNNING"
  /\ UNCHANGED <<effect, forced>>

Commit ==
  /\ walk = "forward"
  /\ outcome \in {"RUNNING", "INVALID_STATE"}
  /\ \A i \in Steps : effect[i] = "applied"
  /\ outcome' = "COMMITTED"
  /\ UNCHANGED <<walk, effect, forced>>

Compensated ==
  /\ walk = "back"
  /\ outcome \in {"RUNNING", "INVALID_STATE"}
  /\ \A i \in Steps : effect[i] # "applied"
  /\ outcome' = "COMPENSATED"
  /\ UNCHANGED <<walk, effect, forced>>

Block ==
  /\ walk = "back"
  /\ outcome \in {"RUNNING", "INVALID_STATE"}
  /\ outcome' = "BLOCKED"
  /\ UNCHANGED <<walk, effect, forced>>

\* The operator takes responsibility for what a blocked saga left behind.
ForceCompensated ==
  /\ outcome = "BLOCKED"
  /\ outcome' = "COMPENSATED"
  /\ forced' = TRUE
  /\ UNCHANGED <<walk, effect>>

Request ==
  /\ outcome = "COMMITTED"
  /\ outcome' = "COMPENSATION_REQUESTED"
  /\ UNCHANGED <<walk, effect, forced>>

\* A saga may be given up while it runs or when an operator has to deal with
\* it, but not once it is committed or compensated.
Invalidate ==
  /\ \/ outcome = "RUNNING"
     \/ walk = "back" /\ outcome = "BLOCKED"
     \/ walk = "back" /\ outcome = "COMPENSATED" /\ forced
  /\ outcome' = "INVALID_STATE"
  /\ UNCHANGED <<walk, effect, forced>>

Next ==
  \/ \E i \in Steps : Apply(i) \/ Undo(i)
  \/ TurnBack \/ Commit \/ Compensated \/ Block
  \/ ForceCompensated \/ Request \/ Invalidate

Spec == Init /\ [][Next]_vars

=============================================================================

--------------------------- MODULE SagaProperties ---------------------------
(* What the coordinator promises about a saga, over SagaCoordinator.       *)
EXTENDS SagaCoordinator

Active == {"RUNNING", "COMPENSATION_REQUESTED"}

\* Type of every variable.
TypeOK ==
  /\ saga \in SagaStates
  /\ step \in [Steps -> StepStates]
  /\ hist \in [Steps -> Logs]
  /\ lock \in {"free", "held", "orphan"}
  /\ w \in Workers
  /\ polled \subseteq Steps
  /\ imm \subseteq Steps \X Triggers
  /\ requests \subseteq Steps \X Kinds
  /\ results \subseteq Results
  /\ handler \in [Handlers -> HandlerStates]
  /\ child \in [Steps -> ChildStates]
  /\ effect \in [Steps -> {"none", "applied", "undone"}]
  /\ sends \in [Steps -> [Kinds -> Nat]]
  /\ forced \in BOOLEAN
  /\ faults \in 0..MaxFaults
  /\ dups \in 0..MaxDups

\* Walking forward: D* then one active step, or nothing, then P*.
ForwardShape ==
  /\ \A i \in Steps : step[i] \in {"ED", "EC", "ER", "ES", "EF", "EP"}
  /\ \A i, j \in Steps : (i < j /\ step[i] # "ED") => step[j] = "EP"
  /\ \A i \in Steps : step[i] = "EP" => i > 1 /\ step[i - 1] # "ED"

\* Walking back: p* then one active or blocked step, or nothing, then d* A*.
BackwardShape ==
  /\ \A i \in Steps : step[i] \in CompensationStates \cup {"EA"}
  /\ \A i, j \in Steps : (i < j /\ step[i] # "CP") => step[j] \in {"CD", "EA"}
  /\ \A i, j \in Steps : (i < j /\ step[i] = "EA") => step[j] = "EA"
  /\ \A i \in Steps : step[i] = "CP" => i < N /\ step[i + 1] \notin {"CD", "EA"}
  /\ step[1] # "EA"

\* Shape: the steps always form one of the patterns listed above
\* isSagaStateValid, with no gap: whichever goroutines, results and crashes
\* interleave, there is exactly one step to work on, or none and the walk is
\* over.
Shape == ForwardShape \/ BackwardShape

\* A saga reported COMMITTED has every step done and every step's effect in
\* place.
CommittedMeansApplied ==
  saga = "COMMITTED" => \A i \in Steps : step[i] = "ED" /\ effect[i] = "applied"

\* A saga the coordinator reports COMPENSATED has no effect left behind.
CompensatedMeansUndone ==
  saga = "COMPENSATED" /\ ~forced => \A i \in Steps : effect[i] # "applied"

\* Effects are undone in the reverse of the order they were applied in: when
\* a step is undone, no later step still has its effect.
UndoneInReverse ==
  \A i, j \in Steps : i < j /\ effect[i] = "undone" => effect[j] # "applied"

\* A step's service is asked at most once to execute and at most once to
\* compensate, whatever crashes, publish failures and retries of passes.
RequestedAtMostOnce ==
  \A i \in Steps, k \in Kinds : sends[i][k] <= 1

\* A step is compensated only after the saga it spawned is compensated.
ChildrenFirst ==
  \A i \in Steps : step[i] \in {"CR", "CS", "CF", "CB", "CD"} =>
     child[i] \in {"NONE", "SUBMITTED", "COMPENSATED"}

\* No saga spawned by a compensated saga is left running or committed.
NoOrphanChild ==
  saga = "COMPENSATED" /\ ~forced =>
     \A i \in Steps : child[i] \in {"NONE", "COMPENSATED"}

\* The panics of the two RUNNING cases ("this state should never be reached")
\* are never reached: no pass ever processes a row in memory that is RUNNING
\* and has its result, although results are written between its transactions.
NeverPanics ==
  ~(w.pc = "process" /\ w.st \in {"ER", "CR"} /\ w.log.sent /\ w.log.recv)

\* BLOCKED means one step cannot be compensated and the operator knows: a
\* blocked step never sits in a saga that still counts as running.
BlockedIsReported ==
  /\ saga = "BLOCKED" => \E i \in Steps : step[i] = "CB"
  /\ (\E i \in Steps : step[i] = "CB") => saga \in {"BLOCKED", "COMPENSATED", "INVALID_STATE"}

\* A final saga stays final: COMMITTED is left only for
\* COMPENSATION_REQUESTED, and a saga the coordinator compensated stays so.
FinalStaysFinal ==
  [][/\ saga = "COMMITTED" => saga' \in {"COMMITTED", "COMPENSATION_REQUESTED"}
     /\ saga = "COMPENSATED" /\ ~forced => saga' = "COMPENSATED"]_vars

\* None of the consistency checks of a pass ever fires: a saga becomes
\* INVALID only because the list in isSagaStateValid failed, or because a
\* late immediate-processing goroutine found its step COMPENSATION_PENDING or
\* COMPENSATION_BLOCKED.
InvalidOnlyByLateTrigger ==
  [][saga' = "INVALID_STATE" /\ saga # "INVALID_STATE" =>
       \/ w.pc = "validate" /\ faults' # faults
       \/ w.pc = "process" /\ w.src = "imm" /\ w.st \in {"CP", "CB"}]_vars

\* A step that is done stays done until compensation begins, and a
\* compensated step stays compensated (late and duplicate results are
\* ignored).
NoRegress ==
  [][\A i \in Steps : /\ step[i] = "ED" => step'[i] \in {"ED", "CP", "CC"}
                      /\ step[i] \in {"CD", "EA"} => step'[i] = step[i]]_vars

ChildNeedsOperator(i) == child[i] \in {"BLOCKED", "INVALID_STATE"}

\* A RUNNING step nobody will ever answer: no pass, request, result or
\* consumer is left for it.
Orphaned(i) ==
  /\ step[i] \in {"ER", "CR"}
  /\ w.pc = "idle" \/ w.i # i
  /\ \A k \in Kinds : <<i, k>> \notin requests
  /\ \A m \in results : m.i # i
  /\ \A h \in Handlers : handler[h].busy => handler[h].m.i # i

\* Every saga gets somewhere: it does not stay RUNNING or
\* COMPENSATION_REQUESTED for ever unless a child needs an operator.  Crashes,
\* failed publishes and failed store calls are recovered from at every point
\* but one: a saga that never resolves has a step that was made RUNNING and
\* whose request or result was lost in a failure.
HangsOnlyOnOrphan ==
  saga \in Active ~>
    \/ saga \notin Active
    \/ \E i \in Steps : ChildNeedsOperator(i) \/ (faults > 0 /\ Orphaned(i))

=============================================================================

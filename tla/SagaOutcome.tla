---------------------------- MODULE SagaOutcome ----------------------------
(* The inductive invariants that relate what the step rows say to what the *)
(* services have done: they carry the properties about effects, child      *)
(* sagas and reported outcomes, on top of the invariant of SagaInvariant.  *)
EXTENDS SagaInvariant, SagaRefinement

\* Results about step i that will move its row, in the queue or in a
\* consumer's hands.
Pending(i) == {m \in results \cup Unacked : m.i = i /\ m.status # "busy"}

Untouched == {"EP", "EC", "EA"}

\* What the state of a step says about its effect.
EffectInv ==
  \A i \in Steps :
    /\ step[i] \in Untouched \/ Sending(i, "exec") => effect[i] = "none"
    /\ step[i] \in {"ES", "ED", "CP"} => effect[i] = "applied"
    /\ step[i] \in {"ER", "EF", "CC"} => effect[i] # "undone"

\* An execution request is outstanding only while its step is RUNNING, and
\* nothing has come of it yet.
RequestInv ==
  \A i \in Steps :
    /\ <<i, "exec">> \in requests => step[i] = "ER" /\ effect[i] = "none" /\ Pending(i) = {}
    /\ <<i, "comp">> \in requests => step[i] \in {"CR", "CS", "CF", "CB", "CD"}

\* A success that a RUNNING step is about to be told of has taken place.
ResultInv ==
  \A i \in Steps : \A m \in Pending(i) :
    step[i] = "ER" /\ m.status = "ok" => effect[i] = "applied"

\* Nobody has heard of a step that never ran.
UntouchedInv ==
  \A i \in Steps : step[i] \in Untouched => ~Traffic(i) /\ \A t \in imm : t[1] # i

Backward == \A i \in Steps : step[i] \in CompensationStates \cup {"EA"}

\* What the saga row says about the step rows.
SagaInv ==
  /\ saga \in {"COMMITTED", "COMPENSATION_REQUESTED"} => \A i \in Steps : step[i] = "ED"
  /\ saga \in {"BLOCKED", "COMPENSATED"} => Backward
  /\ saga = "COMPENSATED" /\ ~forced => \A i \in Steps : step[i] \in {"CD", "EA"}

\* What a pass may have in its hands.
PassReads ==
  /\ w.pc = "initiate" => saga = "COMPENSATION_REQUESTED"
  /\ w.pc \in {"validate", "process"} =>
       /\ w.st \notin {"EP", "ED", "EA", "EB"}
       /\ w.st = "CD" => w.pc = "process"
       /\ w.st = "EF" => w.saga = saga
       /\ w.st \in {"CP", "CB"} => w.src = "imm"

TokenInv == EffectInv /\ RequestInv /\ ResultInv /\ UntouchedInv
RowInv == SagaInv /\ PassReads

\* Holds with one consumer, however often results are redelivered.
OInv == TokenInv /\ RowInv

\* A child saga exists from the execution of its step on, is in the store once
\* that execution is answered, and is compensated before its step is.
ChildInv ==
  \A i \in Steps :
    /\ child[i] # "NONE" => i \in Spawners /\ step[i] \notin Untouched
    /\ child[i] = "SUBMITTED" => step[i] = "ER" /\ Pending(i) = {}
    /\ step[i] \in {"CR", "CS", "CF", "CB", "CD"} => child[i] \in {"NONE", "COMPENSATED"}

\* When no result is delivered twice, a result finds its step as the request
\* left it, so that the backward walk is as well informed as the forward one:
\* the pass works on the rows as they are, ...
FreshInv == w.pc \in {"validate", "process", "record"} => step[w.i] = w.st

\* ... at most one result per step is under way, it answers the request that
\* made the step RUNNING, and a compensation it reports has taken place, ...
MailInv ==
  \A i \in Steps : \A m \in Pending(i) :
    /\ \A n \in Pending(i) : m = n
    /\ \/ m.kind = "exec" /\ step[i] = "ER"
       \/ m.kind = "comp" /\ step[i] = "CR" /\ ~Sending(i, "comp")
    /\ m.kind = "comp" /\ m.status = "ok" => effect[i] = "undone"

\* ... a compensation request has not been answered yet, ...
AskedInv ==
  \A i \in Steps : <<i, "comp">> \in requests =>
    step[i] = "CR" /\ Pending(i) = {} /\ ~Sending(i, "comp")

\* ... what a consumer has in hand is not in the queue too, ...
HandsInv ==
  \A h \in Handlers : handler[h].busy =>
    handler[h].m \notin results /\ handler[h].m.status # "busy"

\* ... a step whose compensation succeeded is undone, and ...
UndoneInv == \A i \in Steps : step[i] \in {"CS", "CD"} => effect[i] = "undone"

\* ... the saga is blocked by a step, which the saga row reports.
BlockInv ==
  /\ (saga = "BLOCKED" \/ forced) => \E i \in Steps : step[i] = "CB"
  /\ (\E i \in Steps : step[i] = "CB") => saga \in {"BLOCKED", "COMPENSATED", "INVALID_STATE"}

OnceInv == FreshInv /\ MailInv /\ AskedInv /\ HandsInv /\ UndoneInv /\ BlockInv

=============================================================================

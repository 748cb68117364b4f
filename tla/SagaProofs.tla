----------------------------- MODULE SagaProofs -----------------------------
(* The coordinator of one saga, for every number of steps and faults.      *)
(*                                                                         *)
(* 1. Types, for any number of consumers and redeliveries.                 *)
(* 2. Rows and requests, with one consumer: IInv of SagaInvariant carries  *)
(*    the shape of the step rows, the number of requests sent and the      *)
(*    absence of regressions.                                              *)
(* 3. Outcomes, with one consumer: what a saga reports agrees with what    *)
(*    its services have done.  OInv holds with any number of redeliveries, *)
(*    ChildInv when an executor waits until its child saga is stored, and  *)
(*    OnceInv when no result is delivered twice; from the last follows     *)
(*    that the coordinator implements SagaContract.  ClientInv adds the    *)
(*    clients that wait for the outcome.                                   *)
(*                                                                         *)
(* One lemma per action (or family of actions) shows that it preserves an  *)
(* invariant; IInvNext, and its likes for the others, put them together.   *)
EXTENDS SagaOutcome, SagaClients, TLAPS

-----------------------------------------------------------------------------
(* 1. Types.                                                               *)

\* A saga has a first step.
LEMMA OneStep == 1 \in Steps
  BY NAssumption DEF Steps

\* The resting values of a pass, a consumer and a history are well typed.
LEMMA IdleTypes == IdleWorker \in Workers /\ IdleHandler \in HandlerStates /\ NoLog \in Logs
  <1>1. NoLog \in Logs
    BY DEF NoLog, Logs
  <1>2. IdleWorker \in Workers
    BY <1>1, OneStep DEF IdleWorker, Workers, Pcs, SagaStates, StepStates, ExecutionStates
  <1>3. IdleHandler \in HandlerStates
    BY <1>1, OneStep, BoundsAssumption DEF IdleHandler, HandlerStates, Results, Kinds, Statuses
  <1> QED BY <1>1, <1>2, <1>3

\* A fresh history entry is well typed.
LEMMA NewLogType == \A k \in Kinds : NewLog(k) \in Logs
  BY DEF NewLog, Logs

\* An answer of an executor is a well-typed result.
LEMMA AnswerType ==
  ASSUME TypeOK, NEW i \in Steps, NEW k \in Kinds, NEW status \in Statuses,
         NEW copy \in 0..MaxDups, Answer(i, k, status, copy)
  PROVE  results' \subseteq Results
  BY DEF Answer, Results, TypeOK

\* A conclusive result always moves a step to one of the four result states.
LEMMA ResultStateType == \A log, status : ResultState(log, status) \in Triggers
  BY DEF ResultState, Triggers

\* The state constants belong to their sets.
LEMMA StateNames == 
  /\ {"RUNNING", "COMMITTED", "COMPENSATED", "BLOCKED", "INVALID_STATE", "COMPENSATION_REQUESTED"} \subseteq SagaStates
  /\ {"EP", "EC", "ER", "ES", "ED", "EF", "EB", "EA"} \subseteq StepStates
  /\ {"CP", "CC", "CR", "CS", "CD", "CF", "CB"} \subseteq StepStates
  /\ Triggers \subseteq StepStates
  /\ SagaStates \subseteq ChildStates
  BY DEF SagaStates, StepStates, ExecutionStates, CompensationStates, Triggers, ChildStates

\* What followSagaSubmitterIfNeeded stores is well typed.
LEMMA InitTypeOK == Init => TypeOK
  <1> SUFFICES ASSUME Init PROVE TypeOK
    OBVIOUS
  <1>1. sends \in [Steps -> [Kinds -> Nat]]
    BY DEF Init
  <1>2. faults \in 0..MaxFaults /\ dups \in 0..MaxDups
    BY BoundsAssumption DEF Init
  <1>3. /\ saga \in SagaStates
        /\ step \in [Steps -> StepStates]
        /\ hist \in [Steps -> Logs]
        /\ w \in Workers
        /\ handler \in [Handlers -> HandlerStates]
        /\ child \in [Steps -> ChildStates]
        /\ effect \in [Steps -> {"none", "applied", "undone"}]
    BY IdleTypes, StateNames DEF Init, ChildStates
  <1> QED
    BY <1>1, <1>2, <1>3 DEF Init, TypeOK

\* What a pass has in memory, and how it ends or goes on, is well typed.
LEMMA PassTypes ==
  ASSUME TypeOK
  PROVE  /\ w.i \in Steps /\ w.st \in StepStates /\ w.log \in Logs /\ w.saga \in SagaStates
         /\ EndPass => w' \in Workers /\ lock' \in {"free", "held", "orphan"}
         /\ \A s \in StepStates, l \in Logs :
              FollowUp(s, l) => w' \in Workers /\ lock' \in {"free", "held", "orphan"}
  BY IdleTypes DEF TypeOK, Workers, EndPass, FollowUp

\* Publishing a request keeps the request queue, its counters and the pass
\* well typed.
LEMMA PublishTypes ==
  ASSUME TypeOK, NEW k \in Kinds, PublishRequest(k)
  PROVE  /\ requests' \subseteq Steps \X Kinds
         /\ sends' \in [Steps -> [Kinds -> Nat]]
         /\ w' \in Workers
         /\ UNCHANGED <<lock, saga, step, hist>>
  <1>1. w.i \in Steps
    BY PassTypes
  <1>2. sends[w.i] \in [Kinds -> Nat]
    BY <1>1 DEF TypeOK
  <1>3. [sends[w.i] EXCEPT ![k] = @ + 1] \in [Kinds -> Nat]
    BY <1>2
  <1>4. sends' = [sends EXCEPT ![w.i] = [sends[w.i] EXCEPT ![k] = @ + 1]]
    BY DEF PublishRequest
  <1>5. w' \in Workers /\ UNCHANGED <<lock, saga, step, hist>>
    BY DEF TypeOK, PublishRequest, Workers, Pcs, db
  <1> QED
    BY <1>1, <1>3, <1>4, <1>5 DEF TypeOK, PublishRequest

\* Recording the sent timestamp keeps the histories well typed.
LEMMA RecordSentType ==
  ASSUME TypeOK, RecordSent
  PROVE  hist' \in [Steps -> Logs]
  <1>1. [w.log EXCEPT !.sent = TRUE] \in Logs
    BY PassTypes DEF Logs
  <1> QED
    BY <1>1 DEF RecordSent, TypeOK

\* The timeout branch of a RUNNING case keeps the rows well typed.
LEMMA WaitOrTimeOutType ==
  ASSUME TypeOK, NEW s \in StepStates, WaitOrTimeOut(s)
  PROVE  /\ saga' \in SagaStates /\ step' \in [Steps -> StepStates]
         /\ hist' \in [Steps -> Logs] /\ w' \in Workers
         /\ lock' \in {"free", "held", "orphan"}
  BY PassTypes, ZenonT(40) DEF WaitOrTimeOut, TypeOK, db

\* Every action of the coordinator, its executors and its environment
\* preserves the types.
LEMMA NextTypeOK == TypeOK /\ [Next]_vars => TypeOK'
  <1> SUFFICES ASSUME TypeOK, [Next]_vars PROVE TypeOK'
    OBVIOUS
  <1> USE IdleTypes, StateNames DEF TypeOK
  <1> USE DEF db, run, mq, env, budget
  <1>0. NewLog("exec") \in Logs /\ NewLog("comp") \in Logs
    BY NewLogType DEF Kinds
  <1>1. CASE UNCHANGED vars
    BY <1>1 DEF vars
  <1>2. CASE PollQuery
    BY <1>2 DEF PollQuery
  <1>3. ASSUME NEW i \in Steps, PollBegin(i) \/ PollGivesUp(i) PROVE TypeOK'
    BY <1>3 DEF PollBegin, PollGivesUp, BeginPass, Workers, Pcs
  <1>4. ASSUME NEW t \in imm, ImmediateBegin(t) \/ ImmediateGivesUp(t) PROVE TypeOK'
    BY <1>4 DEF ImmediateBegin, ImmediateGivesUp, BeginPass, Workers, Pcs
  <1>5. CASE Validate
    BY <1>5, ZenonT(40) DEF Validate, MarkInvalid, EndPass, Workers, Pcs
  <1>6. CASE processCandidate
    BY <1>6, <1>0, PassTypes, ZenonT(40) DEF processCandidate, MarkInvalid
  <1>7. CASE processRunning
    <2>1. CASE PublishRequest("exec")
      BY <2>1, <1>7, PublishTypes DEF processRunning, Kinds
    <2>2. CASE WaitOrTimeOut("EF") /\ UNCHANGED <<requests, sends>>
      BY <2>2, <1>7, WaitOrTimeOutType DEF processRunning
    <2> QED
      BY <2>1, <2>2, <1>7, PassTypes DEF processRunning, MarkInvalid
  <1>8. CASE processSucceeded
    <2>1. step' \in [Steps -> StepStates]
      BY <1>8 DEF processSucceeded, MarkInvalid
    <2> QED
      BY <2>1, <1>8, PassTypes DEF processSucceeded, MarkInvalid
  <1>9. CASE processFailed
    BY <1>9, ZenonT(40) DEF processFailed, Processing, MarkInvalid, EndPass, FollowUp, Workers
  <1>10. CASE processCompensationCandidate
    <2>1. child' \in [Steps -> ChildStates]
      BY <1>10 DEF processCompensationCandidate, TriggerSagaCompensation
    <2>2. step' \in [Steps -> StepStates] /\ hist' \in [Steps -> Logs]
      BY <1>10, <1>0 DEF processCompensationCandidate, MarkInvalid
    <2> QED
      BY <2>1, <2>2, <1>0, <1>10, PassTypes DEF processCompensationCandidate, MarkInvalid
  <1>11. CASE processCompensationRunning
    <2>1. CASE PublishRequest("comp")
      BY <2>1, <1>11, PublishTypes DEF processCompensationRunning, Kinds
    <2>2. CASE WaitOrTimeOut("CF") /\ UNCHANGED <<requests, sends>>
      BY <2>2, <1>11, WaitOrTimeOutType DEF processCompensationRunning
    <2> QED
      BY <2>1, <2>2, <1>11, PassTypes DEF processCompensationRunning, MarkInvalid
  <1>12. CASE processCompensationSucceeded
    BY <1>12, ZenonT(40) DEF processCompensationSucceeded, Processing, MarkInvalid, EndPass, FollowUp, Workers
  <1>13. CASE processCompensationFailed \/ processDone \/ processUnexpected
    BY <1>13 DEF processCompensationFailed, processDone, processUnexpected, Processing, MarkInvalid, EndPass, Workers
  <1>14. CASE InitiateCompensation
    BY <1>14 DEF InitiateCompensation, MarkInvalid, EndPass
  <1>15. ASSUME NEW h \in Handlers, NEW m \in results, ResultRead(h, m) PROVE TypeOK'
    BY <1>15 DEF ResultRead, HandlerStates, Results
  <1>16. ASSUME NEW h \in Handlers, ResultWrite(h) PROVE TypeOK'
    <2> DEFINE m == handler[h].m
               log == handler[h].log
    <2>1. m \in Results /\ m.i \in Steps /\ log \in Logs
      BY DEF HandlerStates, Results
    <2>2. [log EXCEPT !.recv = TRUE] \in Logs
      BY <2>1 DEF Logs
    <2>3. ResultState(log, m.status) \in Triggers
      BY ResultStateType
    <2>4. step' \in [Steps -> StepStates] /\ hist' \in [Steps -> Logs]
      BY <1>16, <2>1, <2>2, <2>3 DEF ResultWrite, MarkInvalid
    <2>5. imm' \subseteq Steps \X Triggers
      BY <1>16, <2>1, <2>3 DEF ResultWrite
    <2>6. saga' \in SagaStates /\ results' \subseteq Results
      BY <1>16, <2>1 DEF ResultWrite, MarkInvalid
    <2> QED
      BY <1>16, <2>4, <2>5, <2>6 DEF ResultWrite, Release
  <1>17. ASSUME NEW h \in Handlers, ResultFails(h) PROVE TypeOK'
    BY <1>17, ResultStateType, BoundsAssumption DEF ResultFails, Fault, Release, HandlerStates, Results, Logs
  <1>18. ASSUME NEW i \in Steps, NEW ok \in BOOLEAN,
                ChildAnswered(i, ok) \/ \E k \in Kinds : Execute(i, k, ok) PROVE TypeOK'
    <2>1. (IF ok THEN "ok" ELSE "fail") \in Statuses /\ 0 \in 0..MaxDups /\ "exec" \in Kinds
      BY BoundsAssumption DEF Statuses, Kinds
    <2>2. CASE ChildAnswered(i, ok)
      <3>1. results' \subseteq Results
        BY <2>1, <2>2, AnswerType DEF ChildAnswered
      <3> QED
        BY <2>2, <3>1 DEF ChildAnswered, Done
    <2>3. ASSUME NEW k \in Kinds, Execute(i, k, ok) PROVE TypeOK'
      <3>1. results' \subseteq Results
        BY <2>1, <2>3, AnswerType DEF Execute
      <3> QED
        BY <2>3, <3>1 DEF Execute, Done, DoneOrNot
    <2> QED
      BY <1>18, <2>2, <2>3
  <1>19. ASSUME NEW i \in Steps, SpawnChild(i) \/ ChildMoves(i) PROVE TypeOK'
    <2>1. CASE SpawnChild(i)
      <3>1. results' \subseteq Results
        BY <2>1, AnswerType, BoundsAssumption DEF SpawnChild, Statuses, Kinds
      <3> QED
        BY <2>1, <3>1 DEF SpawnChild, ChildStates
    <2>2. CASE ChildMoves(i)
      <3>1. PICK s \in SagaStates : child' = [child EXCEPT ![i] = s]
        BY <2>2 DEF ChildMoves
      <3> QED
        BY <2>2, <3>1 DEF ChildMoves
    <2> QED
      BY <1>19, <2>1, <2>2
  <1>20. CASE ValidateReadFails \/ PassFails \/ MutexLeft
    BY <1>20, BoundsAssumption DEF ValidateReadFails, PassFails, MutexLeft, Fault, MarkInvalid, EndPass
  <1>21. CASE RecordSent
    BY <1>21, PassTypes, RecordSentType DEF RecordSent
  <1>22. CASE Crash
    BY <1>22, BoundsAssumption DEF Crash, Fault, Unacked, HandlerStates
  <1>23. ASSUME NEW i \in Steps, DetachedLost(i) \/ \E k \in Kinds : ExecutorDies(i, k) PROVE TypeOK'
    <2>1. CASE DetachedLost(i)
      BY <2>1, BoundsAssumption DEF DetachedLost, Fault
    <2>2. ASSUME NEW k \in Kinds, ExecutorDies(i, k) PROVE TypeOK'
      <3>1. results' \subseteq Results
        BY <2>2, AnswerType, BoundsAssumption DEF ExecutorDies, Statuses
      <3> QED
        BY <2>2, <3>1, BoundsAssumption DEF ExecutorDies, Fault, Done, DoneOrNot
    <2> QED
      BY <1>23, <2>1, <2>2
  <1>24. CASE LockExpires \/ RequestCompensation \/ ForceMarkSagaCompensated
    BY <1>24 DEF LockExpires, RequestCompensation, ForceMarkSagaCompensated, TriggerSagaCompensation
  <1>25. ASSUME NEW m \in results \cup Unacked, Duplicate(m) PROVE TypeOK'
    <2>1. m \in Results
      BY DEF Unacked, HandlerStates
    <2>2. dups + 1 \in 0..MaxDups
      BY <1>25, BoundsAssumption DEF Duplicate
    <2>3. [m EXCEPT !.copy = dups + 1] \in Results
      BY <2>1, <2>2 DEF Results
    <2> QED
      BY <1>25, <2>2, <2>3 DEF Duplicate
  <1>26. ASSUME NEW i \in Steps, NEW k \in Kinds, InFlight(i, k) PROVE TypeOK'
    <2>1. dups + 1 \in 0..MaxDups
      BY <1>26, BoundsAssumption DEF InFlight
    <2>2. results' \subseteq Results
      BY <1>26, <2>1, AnswerType DEF InFlight, Statuses
    <2> QED
      BY <1>26, <2>1, <2>2 DEF InFlight
  <1> QED
    BY <1>1, <1>2, <1>3, <1>4, <1>5, <1>6, <1>7, <1>8, <1>9, <1>10, <1>11, <1>12, <1>13, <1>14, <1>15,
       <1>16, <1>17, <1>18, <1>19, <1>20, <1>21, <1>22, <1>23, <1>24, <1>25, <1>26
    DEF Next, Poll, Immediate, Worker, processSagaStep, Consumer, Executor, Failure, Operator, Redelivery

\* Type correctness: whatever the interleaving, every row, message, goroutine
\* and counter keeps its type; in particular the counters of faults and
\* redeliveries stay within their bounds.
THEOREM TypeCorrect == Spec => []TypeOK
  BY InitTypeOK, NextTypeOK, PTL DEF Spec

-----------------------------------------------------------------------------
(* 2. Rows and requests.                                                   *)

\* One step tells which way the whole saga walks, and no step of a
\* well-shaped saga is EXECUTION_BLOCKED.
LEMMA ShapeExclusive ==
  ASSUME TypeOK, Shape
  PROVE  /\ \A i \in Steps : step[i] \in {"ED", "EC", "ER", "ES", "EF", "EP"} => ForwardShape
         /\ \A i \in Steps : step[i] \in CompensationStates \cup {"EA"} => BackwardShape
         /\ \A i \in Steps : step[i] # "EB"
  BY DEF Shape, ForwardShape, BackwardShape, CompensationStates

\* A step that touches neither the rows, nor the pass, nor the queues
\* preserves the invariant.
LEMMA Quiet ==
  ASSUME IInv, TypeOK', UNCHANGED <<step, hist, w, requests, results, handler, sends>>,
         (lock' = "held") <=> (lock = "held")
  PROVE  IInv'
  BY DEF IInv, Shape, ForwardShape, BackwardShape, MutexInv, HistoryInv, PassInv, TrafficInv,
     Traffic, Sending, HandlerInv, SendsInv

\* A pass that ends without writing a step row preserves the invariant.
LEMMA PassEnds ==
  ASSUME IInv, TypeOK', EndPass, UNCHANGED <<step, hist, requests, results, handler, sends>>
  PROVE  IInv'
  <1>1. Shape'
    BY DEF IInv, Shape, ForwardShape, BackwardShape
  <1>2. w'.pc = "idle" /\ lock' = "free"
    BY DEF EndPass, IdleWorker
  <1> QED
    BY <1>1, <1>2 DEF IInv, MutexInv, HistoryInv, PassInv, TrafficInv,
     Traffic, Sending, HandlerInv, SendsInv

\* Taking the mutex and reading the rows preserves the invariant, provided
\* the pass leaves RUNNING steps alone.
LEMMA PassBegins ==
  ASSUME IInv, TypeOK', NEW i \in Steps, NEW src \in {"poll", "imm"}, NEW skips,
         {"ER", "CR"} \subseteq skips, BeginPass(i, src, skips),
         UNCHANGED <<step, hist, requests, results, handler, sends>>
  PROVE  IInv'
  <1>1. Shape'
    BY DEF IInv, Shape, ForwardShape, BackwardShape
  <1>2. w.pc = "idle"
    BY DEF IInv, MutexInv, BeginPass, TypeOK
  <1>3. CASE UNCHANGED <<w, lock>>
    BY <1>3, Quiet
  <1>4. CASE w'.pc = "initiate" /\ lock' = "held"
    BY <1>1, <1>2, <1>4 DEF IInv, MutexInv, HistoryInv, PassInv, TrafficInv,
     Traffic, Sending, HandlerInv, SendsInv
  <1>5. CASE /\ w' = [pc |-> "validate", i |-> i, src |-> src,
                      st |-> step[i], log |-> hist[i], saga |-> saga]
             /\ lock' = "held" /\ step[i] \notin skips
    BY <1>1, <1>2, <1>5 DEF IInv, MutexInv, HistoryInv, PassInv, TrafficInv,
     Traffic, Sending, HandlerInv, SendsInv
  <1> QED
    BY <1>3, <1>4, <1>5 DEF BeginPass

\* The EXECUTION_CANDIDATE case preserves the invariant.
LEMMA CandidateStep ==
  ASSUME IInv, TypeOK', processCandidate
  PROVE  IInv'
  <1> USE DEF mq, env, budget
  <1>1. /\ w.pc = "process" /\ w.st = "EC" /\ w.i \in Steps /\ step[w.i] = "EC"
        /\ w.log = NoLog
    BY DEF processCandidate, Processing, IInv, PassInv, TypeOK, Workers
  <1>2. CASE MarkInvalid /\ EndPass
    BY <1>2, PassEnds DEF processCandidate, MarkInvalid
  <1>3. CASE /\ hist' = [hist EXCEPT ![w.i] = NewLog("exec")]
             /\ step' = [step EXCEPT ![w.i] = "ER"]
             /\ w' = [w EXCEPT !.st = "ER", !.log = NewLog("exec")]
             /\ lock' = lock
    <2>1. UNCHANGED <<requests, results, handler, sends>>
      BY DEF processCandidate
    <2>2. ForwardShape
      BY <1>1, ShapeExclusive DEF IInv
    <2>3. Shape'
      BY <1>1, <1>3, <2>2 DEF IInv, TypeOK, Shape, ForwardShape
    <2>4. /\ w'.pc = "process" /\ w'.i = w.i /\ w'.st = "ER" /\ w'.log = NewLog("exec")
      BY <1>1, <1>3 DEF IInv, TypeOK, Workers
    <2>5. MutexInv' /\ HistoryInv' /\ PassInv'
      BY <1>1, <1>3, <2>4 DEF IInv, TypeOK, MutexInv, HistoryInv, PassInv, NewLog
    <2>6. TrafficInv'
      <3>1. \A i \in Steps : Traffic(i)' => Traffic(i)
        BY <2>1 DEF Traffic
      <3>2. ~Traffic(w.i)
        BY <1>1 DEF IInv, TrafficInv
      <3> QED
        BY <1>1, <1>3, <2>4, <3>1, <3>2 DEF IInv, TypeOK, TrafficInv, Sending
    <2>7. HandlerInv'
      BY <1>1, <1>3, <2>1 DEF IInv, TypeOK, HandlerInv
    <2>8. SendsInv'
      BY <1>1, <1>3, <2>1, <2>4 DEF IInv, TypeOK, SendsInv, Sending, ExecutionStates
    <2> QED
      BY <2>3, <2>5, <2>6, <2>7, <2>8 DEF IInv
  <1> QED
    BY <1>1, <1>2, <1>3 DEF processCandidate, FollowUp

\* Publishing the first request of a step preserves the invariant.
LEMMA SendStep ==
  ASSUME IInv, TypeOK', NEW k \in Kinds, Sending(w.i, k), PublishRequest(k),
         UNCHANGED <<results, handler>>
  PROVE  IInv'
  <1> USE DEF db
  <1>1. /\ w.pc = "process" /\ w.i \in Steps
        /\ k = "exec" => w.st = "ER" /\ step[w.i] = "ER"
        /\ k = "comp" => w.st = "CR" /\ step[w.i] \in {"CR", "CS", "CF"}
    BY DEF Sending, IInv, PassInv, TypeOK, Workers, Kinds
  <1>2. /\ w'.pc = "record" /\ w'.i = w.i /\ w'.st = w.st /\ w'.log = w.log
        /\ UNCHANGED <<lock, step, hist>>
    BY DEF PublishRequest, IInv, TypeOK, Workers
  <1>3. Shape'
    BY <1>2 DEF IInv, Shape, ForwardShape, BackwardShape
  <1>4. MutexInv' /\ HistoryInv' /\ PassInv'
    BY <1>1, <1>2 DEF IInv, MutexInv, HistoryInv, PassInv, Kinds
  <1>5. TrafficInv'
    BY <1>1, <1>2 DEF IInv, TypeOK, TrafficInv, Traffic, Sending, PublishRequest, Kinds
  <1>6. HandlerInv'
    BY <1>2 DEF IInv, HandlerInv
  <1>7. SendsInv'
    <2>1. sends[w.i][k] = 0 /\ sends[w.i] \in [Kinds -> Nat]
      BY <1>1 DEF IInv, TypeOK, SendsInv, Kinds
    <2>2. /\ sends' = [sends EXCEPT ![w.i] = [sends[w.i] EXCEPT ![k] = 1]]
      BY <2>1 DEF PublishRequest
    <2>3. \A i \in Steps : ~Sending(i, "exec")' /\ ~Sending(i, "comp")'
      BY <1>2 DEF Sending
    <2> QED
      BY <1>1, <1>2, <2>1, <2>2, <2>3 DEF IInv, TypeOK, SendsInv, ExecutionStates, Kinds
  <1> QED
    BY <1>3, <1>4, <1>5, <1>6, <1>7 DEF IInv

\* Recording that the request was sent preserves the invariant: the row may
\* have moved on, but the history written over it is of the same kind.
LEMMA RecordSentStep ==
  ASSUME IInv, TypeOK', RecordSent
  PROVE  IInv'
  <1> USE DEF mq, env
  <1>1. /\ w.i \in Steps /\ w.log \in Logs /\ hist \in [Steps -> Logs]
        /\ UNCHANGED <<step, requests, results, handler, sends>>
    BY DEF RecordSent, IInv, TypeOK, Workers
  <1>2. \/ w.log.kind = "exec" /\ step[w.i] = "ER"
        \/ w.log.kind = "comp" /\ step[w.i] \in {"CR", "CS", "CF"}
    BY DEF RecordSent, IInv, PassInv
  <1>3. [w.log EXCEPT !.sent = TRUE].kind = w.log.kind
    BY <1>1 DEF Logs
  <1>4. w'.pc = "idle" /\ lock' = "free"
    BY DEF RecordSent, EndPass, IdleWorker
  <1>5. Shape'
    BY <1>1 DEF IInv, Shape, ForwardShape, BackwardShape
  <1>6. HistoryInv'
    BY <1>1, <1>2, <1>3 DEF RecordSent, IInv, HistoryInv
  <1>7. MutexInv' /\ PassInv'
    BY <1>4 DEF MutexInv, PassInv
  <1>8. TrafficInv' /\ HandlerInv' /\ SendsInv'
    BY <1>1, <1>4 DEF IInv, TrafficInv, Traffic, HandlerInv, SendsInv, Sending
  <1> QED
    BY <1>5, <1>6, <1>7, <1>8 DEF IInv

\* The two RUNNING cases preserve the invariant: they only ever send.
LEMMA RunningStep ==
  ASSUME IInv, TypeOK', processRunning \/ processCompensationRunning
  PROVE  IInv'
  <1> USE DEF env, budget
  <1>1. CASE processRunning
    <2>1. w.st = "ER" /\ ~w.log.sent /\ w.log.kind = "exec" /\ Sending(w.i, "exec")
      BY <1>1 DEF processRunning, Processing, IInv, PassInv, Sending
    <2>2. CASE MarkInvalid /\ EndPass /\ UNCHANGED <<requests, sends>>
      BY <1>1, <2>2, PassEnds DEF processRunning, MarkInvalid
    <2> QED
      BY <1>1, <2>1, <2>2, SendStep DEF processRunning, NoLog, Kinds
  <1>2. CASE processCompensationRunning
    <2>1. w.st = "CR" /\ ~w.log.sent /\ w.log.kind = "comp" /\ Sending(w.i, "comp")
      BY <1>2 DEF processCompensationRunning, Processing, IInv, PassInv, Sending
    <2> QED
      BY <1>2, <2>1, SendStep DEF processCompensationRunning, Kinds
  <1> QED
    BY <1>1, <1>2

\* The state changes by which a pass moves the walk along.
WalkPairs == {<<"EP", "EC">>, <<"ES", "ED">>, <<"EP", "EA">>, <<"ED", "CP">>, <<"ED", "CC">>,
              <<"EF", "CC">>, <<"CP", "CC">>, <<"CS", "CD">>, <<"CF", "CB">>}

\* Moving the walk along preserves the invariant once the new shape is
\* known: none of these changes touches a row a consumer relies on.
LEMMA WalkStep ==
  ASSUME IInv, TypeOK', Shape',
         w.pc \in {"process", "initiate"}, w.i \in Steps,
         UNCHANGED <<hist, requests, results, handler, sends>>,
         \A i \in Steps : step'[i] = step[i] \/ <<step[i], step'[i]>> \in WalkPairs,
         EndPass \/ \E s \in {"CC", "CD"} : step'[w.i] = s /\ FollowUp(s, hist[w.i])
  PROVE  IInv'
  <1>1. \/ w'.pc = "idle" /\ lock' = "free"
        \/ w'.pc \in {"process", "initiate"} /\ lock' = lock /\ w'.i = w.i /\ w'.st \in {"CC", "CD"} /\ step'[w.i] = w'.st
    <2>1. CASE EndPass
      BY <2>1 DEF EndPass, IdleWorker
    <2>2. ASSUME NEW s \in {"CC", "CD"}, step'[w.i] = s, FollowUp(s, hist[w.i])
          PROVE  w'.pc \in {"process", "initiate"} /\ lock' = lock /\ w'.i = w.i /\ w'.st = s
      <3>1. w \in Workers
        BY DEF IInv, TypeOK
      <3>2. w' = [w EXCEPT !.st = s, !.log = hist[w.i]] /\ lock' = lock
        BY <2>2 DEF FollowUp
      <3> QED
        BY <3>1, <3>2 DEF Workers
    <2> QED
      BY <2>1, <2>2
  <1>2. MutexInv' /\ PassInv'
    BY <1>1 DEF IInv, MutexInv, PassInv
  <1>3. \A i \in Steps, k \in Kinds : ~Sending(i, k)'
    BY <1>1 DEF Sending, Kinds
  <1>4. \A i \in Steps :
          \/ step'[i] = step[i]
          \/ step[i] = "EP" /\ step'[i] \in {"EC", "EA"}
          \/ step[i] \in {"ES", "EF", "ED"} /\ step'[i] \in {"ED", "CC", "CP"}
          \/ step[i] = "CP" /\ step'[i] = "CC"
          \/ step[i] = "CS" /\ step'[i] = "CD"
          \/ step[i] = "CF" /\ step'[i] = "CB"
    BY DEF WalkPairs
  <1>5. HistoryInv'
    BY <1>4 DEF IInv, HistoryInv
  <1>6. TrafficInv'
    <2>1. \A i \in Steps : Traffic(i)' => Traffic(i)
      BY DEF Traffic
    <2>2. \A i \in Steps : Traffic(i) => step[i] \notin {"EP", "EC"}
      BY DEF IInv, TrafficInv
    <2> QED
      BY <1>3, <1>4, <2>1, <2>2 DEF TrafficInv, Kinds
  <1>7. HandlerInv'
    <2> SUFFICES ASSUME NEW h \in Handlers, handler[h].busy
                 PROVE  \/ handler[h].log.kind = "exec" /\ step'[handler[h].m.i] = "ER"
                        \/ handler[h].log.kind = "comp" /\ step'[handler[h].m.i] \in {"CR", "CB"}
      BY DEF HandlerInv
    <2>1. handler[h].m.i \in Steps
      BY DEF IInv, TypeOK, HandlerStates, Results
    <2> QED
      BY <1>4, <2>1 DEF IInv, HandlerInv
  <1>8. SendsInv'
    BY <1>3, <1>4 DEF IInv, SendsInv, ExecutionStates, Kinds
  <1> QED
    BY <1>2, <1>5, <1>6, <1>7, <1>8 DEF IInv

\* The EXECUTION_SUCCEEDED case preserves the invariant.
LEMMA SucceededStep ==
  ASSUME IInv, TypeOK', processSucceeded
  PROVE  IInv'
  <1> USE DEF mq, env, budget
  <1>1. /\ w.pc = "process" /\ w.i \in Steps /\ step[w.i] = "ES" /\ EndPass
        /\ UNCHANGED <<requests, results, handler, sends>>
    BY DEF processSucceeded, Processing, IInv, PassInv, TypeOK, Workers
  <1>2. CASE MarkInvalid
    BY <1>1, <1>2, PassEnds DEF MarkInvalid
  <1>3. CASE ~MarkInvalid
    <2>1. /\ step' = [j \in Steps |-> IF j = w.i THEN "ED"
                                      ELSE IF j = w.i + 1 THEN "EC" ELSE step[j]]
          /\ w.i < N => step[w.i + 1] = "EP"
          /\ UNCHANGED hist
      BY <1>3 DEF processSucceeded
    <2>2. ForwardShape
      BY <1>1, ShapeExclusive DEF IInv
    <2>3. ForwardShape'
      BY <1>1, <2>1, <2>2, NAssumption DEF ForwardShape, Steps
    <2>4. \A i \in Steps : step'[i] = step[i] \/ <<step[i], step'[i]>> \in WalkPairs
      BY <1>1, <2>1, NAssumption DEF WalkPairs, Steps
    <2> QED
      BY <1>1, <2>1, <2>3, <2>4, WalkStep DEF Shape
  <1> QED
    BY <1>2, <1>3

\* The EXECUTION_FAILED case, which turns the walk round, preserves the
\* invariant.
LEMMA FailedStep ==
  ASSUME IInv, TypeOK', processFailed
  PROVE  IInv'
  <1> USE DEF mq, env, budget
  <1>1. /\ w.pc = "process" /\ w.i \in Steps /\ step[w.i] = "EF"
        /\ UNCHANGED <<requests, results, handler, sends>>
    BY DEF processFailed, Processing, IInv, PassInv, TypeOK, Workers
  <1>2. CASE MarkInvalid /\ EndPass
    BY <1>1, <1>2, PassEnds DEF MarkInvalid
  <1>3. CASE ~(MarkInvalid /\ EndPass)
    <2>1. /\ step' = [j \in Steps |->
                        IF j < w.i THEN "CP"
                        ELSE IF j = w.i THEN "CC"
                        ELSE IF step[j] = "EP" THEN "EA" ELSE step[j]]
          /\ \A j \in Steps : j < w.i => step[j] = "ED"
          /\ FollowUp("CC", hist[w.i])
          /\ UNCHANGED hist
      BY <1>3 DEF processFailed
    <2>2. ForwardShape
      BY <1>1, ShapeExclusive DEF IInv
    <2>3. \A j \in Steps : j > w.i => step[j] = "EP"
      BY <1>1, <2>2 DEF ForwardShape
    <2>4. BackwardShape'
      BY <1>1, <2>1, <2>3, NAssumption DEF BackwardShape, CompensationStates, Steps
    <2>5. \A i \in Steps : step'[i] = step[i] \/ <<step[i], step'[i]>> \in WalkPairs
      BY <1>1, <2>1, NAssumption DEF WalkPairs, Steps
    <2> QED
      BY <1>1, <2>1, <2>4, <2>5, WalkStep DEF Shape
  <1> QED
    BY <1>2, <1>3

\* The COMPENSATION_SUCCEEDED case preserves the invariant.
LEMMA CompensationSucceededStep ==
  ASSUME IInv, TypeOK', processCompensationSucceeded
  PROVE  IInv'
  <1> USE DEF mq, env, budget
  <1>1. /\ w.pc = "process" /\ w.i \in Steps /\ step[w.i] = "CS"
        /\ UNCHANGED <<requests, results, handler, sends>>
    BY DEF processCompensationSucceeded, Processing, IInv, PassInv, TypeOK, Workers
  <1>2. CASE MarkInvalid /\ EndPass
    BY <1>1, <1>2, PassEnds DEF MarkInvalid
  <1>3. CASE ~(MarkInvalid /\ EndPass)
    <2>1. /\ step' = [j \in Steps |-> IF j = w.i THEN "CD"
                                      ELSE IF j = w.i - 1 THEN "CC" ELSE step[j]]
          /\ w.i > 1 => step[w.i - 1] = "CP"
          /\ FollowUp("CD", hist[w.i])
          /\ UNCHANGED hist
      BY <1>3 DEF processCompensationSucceeded
    <2>2. BackwardShape
      BY <1>1, ShapeExclusive DEF IInv, CompensationStates
    <2>3. BackwardShape'
      BY <1>1, <2>1, <2>2, NAssumption DEF BackwardShape, CompensationStates, Steps
    <2>4. \A i \in Steps : step'[i] = step[i] \/ <<step[i], step'[i]>> \in WalkPairs
      BY <1>1, <2>1, NAssumption DEF WalkPairs, Steps
    <2> QED
      BY <1>1, <2>1, <2>3, <2>4, WalkStep DEF Shape
  <1> QED
    BY <1>2, <1>3

\* The COMPENSATION_FAILED case preserves the invariant.
LEMMA CompensationFailedStep ==
  ASSUME IInv, TypeOK', processCompensationFailed
  PROVE  IInv'
  <1> USE DEF mq, env, budget
  <1>1. /\ w.pc = "process" /\ w.i \in Steps /\ step[w.i] = "CF" /\ EndPass
        /\ UNCHANGED <<hist, requests, results, handler, sends>>
        /\ step' = [step EXCEPT ![w.i] = "CB"]
        /\ step \in [Steps -> StepStates]
    BY DEF processCompensationFailed, Processing, IInv, PassInv, TypeOK, Workers
  <1>2. BackwardShape
    BY <1>1, ShapeExclusive DEF IInv, CompensationStates
  <1>3. BackwardShape'
    BY <1>1, <1>2 DEF BackwardShape, CompensationStates, Steps
  <1>4. \A i \in Steps : step'[i] = step[i] \/ <<step[i], step'[i]>> \in WalkPairs
    BY <1>1 DEF WalkPairs
  <1> QED
    BY <1>1, <1>3, <1>4, WalkStep DEF Shape

\* initiateCompensationForCommittedSaga preserves the invariant.
LEMMA InitiateStep ==
  ASSUME IInv, TypeOK', InitiateCompensation
  PROVE  IInv'
  <1> USE DEF mq, env, budget
  <1>1. /\ w.pc = "initiate" /\ w.i \in Steps /\ EndPass
        /\ UNCHANGED <<hist, requests, results, handler, sends>>
    BY DEF InitiateCompensation, IInv, TypeOK, Workers, MarkInvalid
  <1>2. CASE MarkInvalid
    BY <1>1, <1>2, PassEnds DEF MarkInvalid
  <1>3. CASE ~MarkInvalid
    <2>1. /\ step' = [j \in Steps |-> IF j = N THEN "CC" ELSE "CP"]
          /\ \A j \in Steps : step[j] = "ED"
      BY <1>3 DEF InitiateCompensation
    <2>2. BackwardShape'
      BY <2>1, NAssumption DEF BackwardShape, CompensationStates, Steps
    <2>3. \A i \in Steps : step'[i] = step[i] \/ <<step[i], step'[i]>> \in WalkPairs
      BY <2>1 DEF WalkPairs
    <2> QED
      BY <1>1, <2>2, <2>3, WalkStep DEF Shape
  <1> QED
    BY <1>2, <1>3

\* The COMPENSATION_CANDIDATE case preserves the invariant.
LEMMA CompensationCandidateStep ==
  ASSUME IInv, TypeOK', processCompensationCandidate
  PROVE  IInv'
  <1> USE DEF mq, env, budget
  <1>1. /\ w.pc = "process" /\ w.i \in Steps /\ step[w.i] = "CC" /\ w \in Workers
        /\ UNCHANGED <<requests, results, handler, sends>>
    BY DEF processCompensationCandidate, Processing, IInv, PassInv, TypeOK, Workers
  <1>2. CASE EndPass /\ UNCHANGED <<step, hist>>
    BY <1>1, <1>2, PassEnds
  <1>3. CASE /\ step' = [step EXCEPT ![w.i] = "CR"]
             /\ hist' = [hist EXCEPT ![w.i] = NewLog("comp")]
             /\ FollowUp("CR", NewLog("comp"))
    <2>1. BackwardShape
      BY <1>1, ShapeExclusive DEF IInv, CompensationStates
    <2>2. BackwardShape'
      BY <1>1, <1>3, <2>1 DEF IInv, TypeOK, BackwardShape, CompensationStates, Steps
    <2>3. /\ w'.pc = "process" /\ w'.i = w.i /\ w'.st = "CR" /\ w'.log = NewLog("comp")
          /\ lock' = lock
      BY <1>1, <1>3 DEF FollowUp, Workers
    <2>4. MutexInv' /\ HistoryInv' /\ PassInv'
      BY <1>1, <1>3, <2>3 DEF IInv, TypeOK, MutexInv, HistoryInv, PassInv, NewLog
    <2>5. TrafficInv'
      <3>1. \A i \in Steps : Traffic(i)' => Traffic(i)
        BY <1>1 DEF Traffic
      <3> QED
        BY <1>1, <1>3, <2>3, <3>1 DEF IInv, TypeOK, TrafficInv, Sending
    <2>6. HandlerInv'
      BY <1>1, <1>3 DEF IInv, TypeOK, HandlerInv
    <2>7. SendsInv'
      BY <1>1, <1>3, <2>3 DEF IInv, TypeOK, SendsInv, Sending, ExecutionStates
    <2> QED
      BY <2>2, <2>4, <2>5, <2>6, <2>7 DEF IInv, Shape
  <1> QED
    BY <1>2, <1>3 DEF processCompensationCandidate, MarkInvalid, db

\* isSagaStateValid and its outcome preserve the invariant.
LEMMA ValidateStep ==
  ASSUME IInv, TypeOK', Validate
  PROVE  IInv'
  <1> USE DEF mq, env, budget, db
  <1>1. CASE EndPass
    BY <1>1, PassEnds DEF Validate, MarkInvalid
  <1>2. CASE w' = [w EXCEPT !.pc = "process"] /\ UNCHANGED <<lock, saga, step, hist>>
    <2>1. /\ w.pc = "validate" /\ w'.pc = "process" /\ w'.i = w.i /\ w'.st = w.st /\ w'.log = w.log
          /\ UNCHANGED <<requests, results, handler, sends>>
      BY <1>2 DEF Validate, IInv, TypeOK, Workers
    <2>2. Shape'
      BY <1>2 DEF IInv, Shape, ForwardShape, BackwardShape
    <2>3. w.st \notin {"ER", "CR"}
      BY <2>1 DEF IInv, PassInv
    <2> QED
      BY <1>2, <2>1, <2>2, <2>3 DEF IInv, MutexInv, HistoryInv, PassInv, TrafficInv,
         Traffic, Sending, HandlerInv, SendsInv
  <1> QED
    BY <1>1, <1>2 DEF Validate

\* A consumer that reads the step row preserves the invariant: the late
\* states leave it only rows whose history is of the right kind.
LEMMA ResultReadStep ==
  ASSUME IInv, TypeOK', NEW h \in Handlers, NEW m \in results, ResultRead(h, m)
  PROVE  IInv'
  <1> USE DEF db, run, env, budget
  <1>1. /\ m.i \in Steps /\ results' = results \ {m}
        /\ UNCHANGED <<step, hist, w, lock, requests, sends>>
    BY DEF ResultRead, IInv, TypeOK, Results
  <1>2. Shape' /\ MutexInv' /\ HistoryInv' /\ PassInv' /\ SendsInv'
    BY <1>1 DEF IInv, Shape, ForwardShape, BackwardShape, MutexInv, HistoryInv, PassInv, SendsInv, Sending
  <1>3. \/ handler' = handler
        \/ /\ step[m.i] \notin LateStates
           /\ handler' = [handler EXCEPT ![h] = [busy |-> TRUE, m |-> m, log |-> hist[m.i]]]
    BY DEF ResultRead
  <1>4. TrafficInv'
    <2>1. ASSUME NEW i \in Steps, Traffic(i)' PROVE Traffic(i)
      <3>1. ASSUME NEW g \in Handlers, handler'[g].busy, handler'[g].m.i = i
            PROVE  m.i = i \/ (handler[g].busy /\ handler[g].m.i = i)
        <4>1. handler \in [Handlers -> HandlerStates]
          BY DEF IInv, TypeOK
        <4>2. CASE handler' = handler
          BY <3>1, <4>2
        <4>3. CASE handler' = [handler EXCEPT ![h] = [busy |-> TRUE, m |-> m, log |-> hist[m.i]]]
          <5>1. CASE g = h
            <6>1. handler'[g] = [busy |-> TRUE, m |-> m, log |-> hist[m.i]]
              BY <4>1, <4>3, <5>1
            <6> QED
              BY <3>1, <6>1
          <5>2. CASE g # h
            BY <3>1, <4>1, <4>3, <5>2
          <5> QED
            BY <5>1, <5>2
        <4> QED
          BY <1>3, <4>2, <4>3
      <3> QED
        BY <1>1, <2>1, <3>1 DEF Traffic
    <2> QED
      BY <1>1, <2>1 DEF IInv, TrafficInv, Sending
  <1>5. HandlerInv'
    <2>1. Traffic(m.i)
      BY DEF Traffic
    <2>2. step[m.i] \notin LateStates => step[m.i] \in {"ER", "CR", "CB"}
      BY <1>1, <2>1, ShapeExclusive DEF IInv, TrafficInv, LateStates, TypeOK, StepStates,
         ExecutionStates, CompensationStates
    <2> QED
      BY <1>1, <1>3, <2>2 DEF IInv, TypeOK, HandlerInv, HistoryInv
  <1> QED
    BY <1>2, <1>4, <1>5 DEF IInv

\* An IN_EXECUTION result, should one get past the consumer, rewrites the history entry of a step that is still
\* in the state it was read in, so the entry keeps its kind.
LEMMA BusyWriteStep ==
  ASSUME IInv, TypeOK', NEW h \in Handlers, ResultWrite(h),
         ~Conclusive(handler[h].log, handler[h].m.status)
  PROVE  IInv'
  <1> USE DEF env, budget
  <1> DEFINE m == handler[h].m
             log == handler[h].log
  <1>1. /\ handler[h].busy /\ m.i \in Steps /\ log \in Logs
        /\ handler \in [Handlers -> HandlerStates] /\ hist \in [Steps -> Logs]
    BY DEF ResultWrite, IInv, TypeOK, HandlerStates, Results
  <1>2. \/ log.kind = "exec" /\ step[m.i] = "ER"
        \/ log.kind = "comp" /\ step[m.i] \in {"CR", "CB"}
    BY <1>1 DEF IInv, HandlerInv
  <1>3. log # NoLog
    BY <1>2 DEF NoLog
  <1>4. /\ hist' = [hist EXCEPT ![m.i] = [log EXCEPT !.recv = TRUE]]
        /\ handler' = [handler EXCEPT ![h] = IdleHandler]
        /\ UNCHANGED <<step, lock, w, requests, results, sends>>
    BY <1>3 DEF ResultWrite, Release
  <1>5. [log EXCEPT !.recv = TRUE].kind = log.kind
    BY <1>1 DEF Logs
  <1> HIDE DEF m, log
  <1>6. \A g \in Handlers : handler'[g].busy => handler'[g] = handler[g]
    BY <1>1, <1>4 DEF IdleHandler
  <1>7. \A i \in Steps : Traffic(i)' => Traffic(i)
    BY <1>4, <1>6 DEF Traffic
  <1>8. Shape' /\ MutexInv' /\ PassInv' /\ SendsInv'
    BY <1>4 DEF IInv, Shape, ForwardShape, BackwardShape, MutexInv, PassInv, SendsInv, Sending
  <1>9. HistoryInv'
    BY <1>1, <1>2, <1>4, <1>5 DEF IInv, HistoryInv
  <1>10. TrafficInv' /\ HandlerInv'
    BY <1>4, <1>6, <1>7 DEF IInv, TrafficInv, HandlerInv, Sending
  <1> QED
    BY <1>8, <1>9, <1>10 DEF IInv

\* With one consumer, writing a conclusive result preserves the invariant: no
\* other result can have moved the row since it was read.
LEMMA ResultWriteStep ==
  ASSUME IInv, OneConsumer, TypeOK', NEW h \in Handlers, ResultWrite(h),
         Conclusive(handler[h].log, handler[h].m.status)
  PROVE  IInv'
  <1> USE DEF env, budget
  <1> DEFINE m == handler[h].m
             log == handler[h].log
             s == ResultState(log, m.status)
  <1>1. /\ handler[h].busy /\ m \in Results /\ m.i \in Steps /\ log \in Logs
        /\ handler \in [Handlers -> HandlerStates]
    BY DEF ResultWrite, IInv, TypeOK, HandlerStates, Results
  <1>2. \/ log.kind = "exec" /\ step[m.i] = "ER"
        \/ log.kind = "comp" /\ step[m.i] \in {"CR", "CB"}
    BY <1>1 DEF IInv, HandlerInv
  <1>3. \/ log.kind = "exec" /\ step[m.i] = "ER" /\ s \in {"ES", "EF"}
        \/ log.kind = "comp" /\ step[m.i] \in {"CR", "CB"} /\ s \in {"CS", "CF"}
    BY <1>1, <1>2 DEF ResultState
  <1>4. log # NoLog
    BY <1>2 DEF NoLog
  <1>5. /\ step' = [step EXCEPT ![m.i] = s]
        /\ hist' = [hist EXCEPT ![m.i] = [log EXCEPT !.recv = TRUE]]
        /\ handler' = [handler EXCEPT ![h] = IdleHandler]
        /\ w.pc # "record"
        /\ UNCHANGED <<lock, w, requests, results, sends>>
    BY <1>4 DEF ResultWrite, Release
  <1>6. step \in [Steps -> StepStates] /\ hist \in [Steps -> Logs] /\ w \in Workers /\ w.i \in Steps
    BY DEF IInv, TypeOK, Workers
  <1>7. \A g \in Handlers : ~handler'[g].busy
    BY <1>1, <1>5 DEF OneConsumer, IdleHandler
  <1>8. ~Sending(m.i, "exec")
    BY <1>1 DEF IInv, TrafficInv, Traffic
  <1>9. Shape'
    <2>1. CASE step[m.i] = "ER"
      <3>1. ForwardShape
        BY <1>1, <2>1, ShapeExclusive DEF IInv
      <3>2. s \in {"ES", "EF"}
        BY <1>3, <2>1
      <3> HIDE DEF s, m, log
      <3>3. ForwardShape'
        BY <1>1, <1>5, <1>6, <2>1, <3>1, <3>2 DEF ForwardShape
      <3> QED
        BY <3>3 DEF Shape
    <2>2. CASE step[m.i] \in {"CR", "CB"}
      <3>1. BackwardShape
        BY <1>1, <2>2, ShapeExclusive DEF IInv, CompensationStates
      <3>2. s \in {"CS", "CF"}
        BY <1>3, <2>2
      <3> HIDE DEF s, m, log
      <3>3. BackwardShape'
        BY <1>1, <1>5, <1>6, <2>2, <3>1, <3>2 DEF BackwardShape, CompensationStates, Steps
      <3> QED
        BY <3>3 DEF Shape
    <2> QED
      BY <1>2, <2>1, <2>2
  <1>10. [log EXCEPT !.recv = TRUE].kind = log.kind
    BY <1>1 DEF Logs
  <1> HIDE DEF s, m, log
  <1>11. MutexInv'
    BY <1>5 DEF IInv, MutexInv
  <1>12. HistoryInv'
    BY <1>1, <1>3, <1>5, <1>6, <1>10 DEF IInv, HistoryInv
  <1>13. PassInv'
    <2>1. \A i \in Steps : step'[i] = step[i] \/ i = m.i
      BY <1>1, <1>5, <1>6
    <2>2. (w.pc \in {"validate", "process"} /\ w.i = m.i) =>
             w.st \in {"CR", "CB"} /\ step'[m.i] \in {"CS", "CF"}
      BY <1>1, <1>3, <1>5, <1>6, <1>8 DEF IInv, PassInv, Sending
    <2> QED
      BY <1>5, <1>6, <2>1, <2>2 DEF IInv, PassInv
  <1>14. TrafficInv'
    <2>1. \A i \in Steps : Traffic(i)' => Traffic(i)
      BY <1>5, <1>7 DEF Traffic
    <2> QED
      BY <1>1, <1>3, <1>5, <1>6, <2>1 DEF IInv, TrafficInv, Sending
  <1>15. HandlerInv'
    BY <1>7 DEF HandlerInv
  <1>16. SendsInv'
    BY <1>1, <1>3, <1>5, <1>6 DEF IInv, SendsInv, Sending, ExecutionStates
  <1> QED
    BY <1>9, <1>11, <1>12, <1>13, <1>14, <1>15, <1>16 DEF IInv

\* Actions that only move messages, with the pass kept or killed, preserve
\* the invariant.
LEMMA TrafficStep ==
  ASSUME IInv, TypeOK', UNCHANGED <<step, hist, sends>>,
         \/ UNCHANGED <<w, lock>>
         \/ w' = IdleWorker /\ lock' # "held",
         \A i \in Steps : Traffic(i)' => Traffic(i),
         \A h \in Handlers : handler'[h].busy => handler'[h] = handler[h]
  PROVE  IInv'
  <1>1. Shape'
    BY DEF IInv, Shape, ForwardShape, BackwardShape
  <1>2. \A i \in Steps, k \in Kinds : Sending(i, k)' => Sending(i, k)
    BY DEF Sending, IdleWorker
  <1>3. MutexInv' /\ HistoryInv' /\ PassInv'
    BY DEF IInv, MutexInv, HistoryInv, PassInv, IdleWorker
  <1>4. TrafficInv' /\ HandlerInv' /\ SendsInv'
    BY <1>2 DEF IInv, TrafficInv, HandlerInv, SendsInv, Kinds
  <1> QED
    BY <1>1, <1>3, <1>4 DEF IInv

\* An answer to a pending request preserves the invariant, whether or not the
\* request is then gone.
LEMMA AnswerStep ==
  ASSUME IInv, TypeOK', NEW i \in Steps, NEW k \in Kinds, NEW status, NEW copy,
         <<i, k>> \in requests, requests' \subseteq requests, Answer(i, k, status, copy),
         UNCHANGED <<step, hist, sends, w, lock, handler>>
  PROVE  IInv'
  <1>1. \A j \in Steps : Traffic(j)' => Traffic(j)
    BY DEF Traffic, Answer
  <1> QED
    BY <1>1, TrafficStep

\* What the executors do preserves the invariant.
LEMMA ExecutorStep ==
  ASSUME IInv, TypeOK', NEW i \in Steps,
         \/ \E ok \in BOOLEAN : ChildAnswered(i, ok) \/ \E k \in Kinds : Execute(i, k, ok)
         \/ SpawnChild(i)
         \/ \E k \in Kinds : InFlight(i, k) \/ ExecutorDies(i, k)
  PROVE  IInv'
  <1> USE DEF db, run, env, budget
  <1>1. "exec" \in Kinds
    BY DEF Kinds
  <1>2. ASSUME NEW ok \in BOOLEAN, ChildAnswered(i, ok) PROVE IInv'
    BY <1>1, <1>2, AnswerStep DEF ChildAnswered
  <1>3. ASSUME NEW ok \in BOOLEAN, NEW k \in Kinds, Execute(i, k, ok) PROVE IInv'
    BY <1>3, AnswerStep DEF Execute, Synchronous
  <1>4. CASE SpawnChild(i)
    BY <1>1, <1>4, AnswerStep DEF SpawnChild
  <1>5. ASSUME NEW k \in Kinds, InFlight(i, k) PROVE IInv'
    BY <1>5, AnswerStep DEF InFlight
  <1>6. ASSUME NEW k \in Kinds, ExecutorDies(i, k) PROVE IInv'
    BY <1>6, AnswerStep DEF ExecutorDies, Synchronous
  <1> QED
    BY <1>2, <1>3, <1>4, <1>5, <1>6

\* Failed handlers, crashes, redeliveries and lost runs preserve the
\* invariant.
LEMMA RequeueStep ==
  ASSUME IInv, TypeOK',
         \/ \E h \in Handlers : ResultFails(h)
         \/ Crash
         \/ \E m \in results \cup Unacked : Duplicate(m)
         \/ \E i \in Steps : DetachedLost(i)
  PROVE  IInv'
  <1> USE DEF db, run, env, budget
  <1>0. handler \in [Handlers -> HandlerStates] /\ results \subseteq Results
    BY DEF IInv, TypeOK
  <1>1. ASSUME NEW h \in Handlers, ResultFails(h) PROVE IInv'
    <2>1. \A j \in Steps : Traffic(j)' => Traffic(j)
      BY <1>0, <1>1 DEF Traffic, ResultFails, Release, IdleHandler
    <2> QED
      BY <1>0, <1>1, <2>1, TrafficStep DEF ResultFails, Release, IdleHandler
  <1>2. CASE Crash
    <2>1. \A j \in Steps : Traffic(j)' => Traffic(j)
      BY <1>0, <1>2 DEF Traffic, Crash, Unacked, IdleHandler
    <2> QED
      BY <1>0, <1>2, <2>1, TrafficStep DEF Crash, IdleHandler
  <1>3. ASSUME NEW m \in results \cup Unacked, Duplicate(m) PROVE IInv'
    <2>1. m \in Results
      BY <1>0 DEF Unacked, HandlerStates
    <2>2. [m EXCEPT !.copy = dups + 1].i = m.i
      BY <2>1 DEF Results
    <2>3. Traffic(m.i)
      BY DEF Traffic, Unacked
    <2>4. \A j \in Steps : Traffic(j)' => Traffic(j)
      BY <1>3, <2>2, <2>3 DEF Traffic, Duplicate
    <2> QED
      BY <1>3, <2>4, TrafficStep DEF Duplicate
  <1>4. ASSUME NEW i \in Steps, DetachedLost(i) PROVE IInv'
    <2>1. \A j \in Steps : Traffic(j)' => Traffic(j)
      BY <1>4 DEF Traffic, DetachedLost
    <2> QED
      BY <1>4, <2>1, TrafficStep DEF DetachedLost
  <1> QED
    BY <1>1, <1>2, <1>3, <1>4

\* A freshly stored saga satisfies the invariant.
LEMMA IInvInit == Init => IInv
  <1> SUFFICES ASSUME Init PROVE IInv
    OBVIOUS
  <1>1. ForwardShape
    BY NAssumption DEF Init, ForwardShape, Steps
  <1> QED
    BY <1>1, InitTypeOK DEF Init, IInv, Shape, MutexInv, HistoryInv, PassInv, TrafficInv, Traffic,
       HandlerInv, SendsInv, Sending, IdleWorker, IdleHandler, Kinds, ExecutionStates

\* With one consumer, every step of the system preserves the invariant.
LEMMA IInvNext ==
  ASSUME IInv, OneConsumer, [Next]_vars
  PROVE  IInv'
  <1> USE DEF db, run, mq, env, budget
  <1>0. TypeOK'
    BY NextTypeOK DEF IInv
  <1>1. CASE UNCHANGED vars
    BY <1>0, <1>1, Quiet DEF vars
  <1>2. CASE PollQuery
    BY <1>0, <1>2, Quiet DEF PollQuery
  <1>3. ASSUME NEW i \in Steps, PollBegin(i) PROVE IInv'
    <2>1. {"ER", "CR"} \subseteq PollSkips
      BY DEF PollSkips
    <2>2. BeginPass(i, "poll", PollSkips) /\ UNCHANGED <<step, hist, requests, results, handler, sends>>
      BY <1>3 DEF PollBegin
    <2> QED
      BY <1>0, <2>1, <2>2, PassBegins
  <1>4. ASSUME NEW t \in imm, ImmediateBegin(t) PROVE IInv'
    <2>1. {"ER", "CR"} \subseteq ImmediateSkips
      BY DEF ImmediateSkips
    <2>2. /\ BeginPass(t[1], "imm", ImmediateSkips)
          /\ UNCHANGED <<step, hist, requests, results, handler, sends>>
      BY <1>4 DEF ImmediateBegin
    <2>3. t[1] \in Steps
      BY DEF IInv, TypeOK
    <2> QED
      BY <1>0, <2>1, <2>2, <2>3, PassBegins
  <1>5. ASSUME NEW i \in Steps, PollGivesUp(i) PROVE IInv'
    BY <1>0, <1>5, Quiet DEF PollGivesUp
  <1>6. ASSUME NEW t \in imm, ImmediateGivesUp(t) PROVE IInv'
    BY <1>0, <1>6, Quiet DEF ImmediateGivesUp
  <1>7. CASE ValidateReadFails \/ PassFails \/ processDone \/ processUnexpected
    BY <1>0, <1>7, PassEnds
    DEF ValidateReadFails, PassFails, processDone, processUnexpected, MarkInvalid
  <1>8. CASE LockExpires \/ MutexLeft
    BY <1>0, <1>8, Quiet DEF LockExpires, MutexLeft
  <1>9. CASE RequestCompensation \/ ForceMarkSagaCompensated
    BY <1>0, <1>9, Quiet DEF RequestCompensation, ForceMarkSagaCompensated
  <1>10. ASSUME NEW i \in Steps, ChildMoves(i) PROVE IInv'
    BY <1>0, <1>10, Quiet DEF ChildMoves
  <1>11. CASE Worker
    BY <1>0, <1>7, <1>11, ValidateStep, CandidateStep, RunningStep, RecordSentStep, SucceededStep, FailedStep,
       CompensationCandidateStep, CompensationSucceededStep, CompensationFailedStep, InitiateStep
    DEF Worker, processSagaStep
  <1>12. CASE Consumer
    BY <1>0, <1>12, ResultReadStep, ResultWriteStep, BusyWriteStep DEF Consumer
  <1>13. CASE Executor
    BY <1>0, <1>10, <1>13, ExecutorStep DEF Executor
  <1>14. CASE Failure
    BY <1>0, <1>7, <1>8, <1>14, RequeueStep, ExecutorStep DEF Failure
  <1>15. CASE Redelivery
    BY <1>0, <1>15, RequeueStep, ExecutorStep DEF Redelivery
  <1> QED
    BY <1>1, <1>2, <1>3, <1>4, <1>5, <1>6, <1>8, <1>9, <1>11, <1>12, <1>13, <1>14, <1>15
    DEF Next, Poll, Immediate, Operator

\* What one step of the system may do to a step row.
NoRegressStep ==
  \A i \in Steps : /\ step[i] = "ED" => step'[i] \in {"ED", "CP", "CC"}
                   /\ step[i] \in {"CD", "EA"} => step'[i] = step[i]

\* Under the invariant no pass takes a row backwards.
LEMMA WorkerNoRegress ==
  ASSUME IInv, Worker
  PROVE  NoRegressStep
  <1> USE DEF db, MarkInvalid
  <1>1. step \in [Steps -> StepStates] /\ w.i \in Steps
    BY DEF IInv, TypeOK, Workers
  <1>2. CASE UNCHANGED step
    BY <1>2 DEF NoRegressStep
  <1>3. CASE Validate \/ processDone \/ processUnexpected \/ RecordSent
    BY <1>2, <1>3 DEF Validate, processDone, processUnexpected, RecordSent
  <1>4. CASE processCandidate \/ processRunning \/ processSucceeded
    <2>1. w.pc = "process" /\ step[w.i] = w.st /\ w.st \in {"EC", "ER", "ES"}
          /\ (w.st = "ER" => w.log.kind = "exec" /\ ~w.log.sent)
      BY <1>4 DEF processCandidate, processRunning, processSucceeded, Processing, IInv, PassInv
    <2>2. CASE processCandidate
      BY <1>1, <2>1, <2>2 DEF processCandidate, Processing, NoRegressStep
    <2>3. CASE processRunning
      BY <1>2, <2>1, <2>3 DEF processRunning, Processing, NoLog, PublishRequest
    <2>4. CASE processSucceeded
      BY <1>1, <1>2, <2>1, <2>4, NAssumption
      DEF processSucceeded, Processing, NoRegressStep, Steps
    <2> QED
      BY <1>4, <2>2, <2>3, <2>4
  <1>5. CASE processFailed
    <2>1. step[w.i] = "EF"
      BY <1>5 DEF processFailed, Processing, IInv, PassInv
    <2>2. ForwardShape
      BY <1>1, <2>1, ShapeExclusive DEF IInv
    <2>3. \A j \in Steps : j > w.i => step[j] = "EP"
      BY <1>1, <2>1, <2>2 DEF ForwardShape
    <2> QED
      BY <1>1, <1>2, <1>5, <2>1, <2>2, <2>3, NAssumption
      DEF processFailed, NoRegressStep, ForwardShape, Steps
  <1>6. CASE processCompensationCandidate \/ processCompensationFailed
    <2>1. step[w.i] \in {"CC", "CF"}
      BY <1>6 DEF processCompensationCandidate, processCompensationFailed, Processing, IInv, PassInv
    <2> QED
      BY <1>1, <1>2, <1>6, <2>1
      DEF processCompensationCandidate, processCompensationFailed, NoRegressStep
  <1>7. CASE processCompensationRunning
    <2>1. w.log.kind = "comp" /\ ~w.log.sent
      BY <1>7 DEF processCompensationRunning, Processing, IInv, PassInv
    <2> QED
      BY <1>2, <1>7, <2>1 DEF processCompensationRunning, PublishRequest
  <1>8. CASE processCompensationSucceeded
    <2>1. step[w.i] = "CS"
      BY <1>8 DEF processCompensationSucceeded, Processing, IInv, PassInv
    <2> QED
      BY <1>1, <1>2, <1>8, <2>1, NAssumption
      DEF processCompensationSucceeded, NoRegressStep, Steps
  <1>9. CASE InitiateCompensation
    BY <1>1, <1>2, <1>9 DEF InitiateCompensation, NoRegressStep
  <1> QED
    BY <1>3, <1>4, <1>5, <1>6, <1>7, <1>8, <1>9 DEF Worker, processSagaStep

\* Under the invariant no step of the system takes a row backwards: a result
\* is written only to a row that is still RUNNING or blocked.
LEMMA NextNoRegress ==
  ASSUME IInv, [Next]_vars
  PROVE  NoRegressStep
  <1> USE DEF db
  <1>1. CASE UNCHANGED step
    BY <1>1 DEF NoRegressStep
  <1>2. CASE Worker
    BY <1>2, WorkerNoRegress
  <1>3. ASSUME NEW h \in Handlers, ResultWrite(h) PROVE NoRegressStep
    <2>1. step[handler[h].m.i] \in {"ER", "CR", "CB"}
      BY <1>3 DEF IInv, HandlerInv, ResultWrite
    <2>2. \A i \in Steps : i # handler[h].m.i => step'[i] = step[i]
      BY <1>3 DEF ResultWrite, MarkInvalid, IInv, TypeOK
    <2> QED
      BY <2>1, <2>2 DEF NoRegressStep
  <1>4. CASE UNCHANGED vars \/ PollQuery \/ Poll \/ Immediate
    BY <1>1, <1>4 DEF vars, PollQuery, Poll, PollBegin, PollGivesUp,
       Immediate, ImmediateBegin, ImmediateGivesUp
  <1>5. CASE Executor
    BY <1>1, <1>5 DEF Executor, Execute, ChildAnswered, SpawnChild, ChildMoves
  <1>6. CASE Failure
    BY <1>1, <1>6 DEF Failure, ValidateReadFails, MarkInvalid, PassFails, MutexLeft, Crash,
       ResultFails, ExecutorDies, DetachedLost
  <1>7. CASE LockExpires \/ Operator \/ Redelivery
    BY <1>1, <1>7 DEF LockExpires, Operator, RequestCompensation, ForceMarkSagaCompensated,
       Redelivery, Duplicate, InFlight
  <1>8. ASSUME NEW h \in Handlers, NEW m \in results, ResultRead(h, m) PROVE NoRegressStep
    BY <1>1, <1>8 DEF ResultRead
  <1> QED
    BY <1>2, <1>3, <1>4, <1>5, <1>6, <1>7, <1>8 DEF Next, Consumer

-----------------------------------------------------------------------------

\* The inductive invariant holds with one consumer of the results queue.
THEOREM Invariant == ASSUME OneConsumer PROVE Spec => []IInv
  <1>1. IInv /\ [Next]_vars => IInv'
    BY IInvNext
  <1> QED
    BY <1>1, IInvInit, PTL DEF Spec

\* With one consumer, the step rows always form one of the patterns listed
\* above isSagaStateValid, whatever passes, results, redeliveries, failures
\* and crashes interleave.
THEOREM ShapeHolds == ASSUME OneConsumer PROVE Spec => []Shape
  <1>1. IInv => Shape
    BY DEF IInv
  <1> QED
    BY <1>1, Invariant, PTL

\* With one consumer, no service is asked twice to execute, or twice to
\* compensate, a step, however often a pass fails around the publish.
THEOREM SentOnce == ASSUME OneConsumer PROVE Spec => []RequestedAtMostOnce
  <1>1. IInv => RequestedAtMostOnce
    BY DEF IInv, SendsInv, RequestedAtMostOnce
  <1> QED
    BY <1>1, Invariant, PTL

\* With one consumer, the panics of the RUNNING cases are unreachable, although
\* results are written to the rows while a pass has them in memory.
THEOREM PanicsUnreachable == ASSUME OneConsumer PROVE Spec => []NeverPanics
  <1>1. IInv => NeverPanics
    BY DEF IInv, PassInv, NeverPanics
  <1> QED
    BY <1>1, Invariant, PTL

\* With one consumer, a step that is done stays done until compensation
\* begins, and a compensated step stays compensated.
THEOREM NeverRegresses == ASSUME OneConsumer PROVE Spec => NoRegress
  <1>1. IInv /\ [Next]_vars => [NoRegressStep]_vars
    BY NextNoRegress
  <1> QED
    BY <1>1, Invariant, PTL DEF Spec, NoRegress, NoRegressStep

-----------------------------------------------------------------------------
(* 3. Outcomes.                                                            *)

\* The state changes by which a pass moves rows: the walk, and a candidate
\* that becomes RUNNING.
Moves == WalkPairs \cup {<<"EC", "ER">>, <<"CC", "CR">>}

\* What a pass may do to everything but the saga row: it moves step rows
\* along, and it publishes a request only for a step that has none yet.
LEMMA WorkerMoves ==
  ASSUME IInv, Worker
  PROVE  /\ UNCHANGED <<results, handler, imm, effect, forced>>
         /\ \A i \in Steps : step'[i] = step[i] \/ <<step[i], step'[i]>> \in Moves
         /\ \A i \in Steps : Sending(i, "exec")' => step[i] = "EC"
         /\ \A i \in Steps : Sending(i, "comp")' => step[i] = "CC"
         /\ \/ UNCHANGED requests
            \/ \E k \in Kinds : /\ Sending(w.i, k) /\ requests' = requests \cup {<<w.i, k>>}
                                /\ UNCHANGED step /\ w'.pc = "record"
  <1> DEFINE Goal == /\ UNCHANGED <<results, handler, imm, effect, forced>>
                     /\ \A i \in Steps : step'[i] = step[i] \/ <<step[i], step'[i]>> \in Moves
                     /\ \A i \in Steps : Sending(i, "exec")' => step[i] = "EC"
                     /\ \A i \in Steps : Sending(i, "comp")' => step[i] = "CC"
                     /\ \/ UNCHANGED requests
                        \/ \E k \in Kinds : /\ Sending(w.i, k)
                                            /\ requests' = requests \cup {<<w.i, k>>}
                                            /\ UNCHANGED step /\ w'.pc = "record"
  <1> USE DEF db, mq, env, budget
  <1>1. step \in [Steps -> StepStates] /\ w.i \in Steps /\ w \in Workers
    BY DEF IInv, TypeOK, Workers
  <1>2. ASSUME UNCHANGED <<step, results, handler, imm, effect, forced, requests>>, EndPass PROVE Goal
    BY <1>2 DEF EndPass, IdleWorker, Sending
  <1>3. CASE processDone \/ processUnexpected \/ RecordSent
    BY <1>2, <1>3 DEF processDone, processUnexpected, RecordSent, MarkInvalid
  <1>4. CASE Validate
    <2>1. CASE EndPass
      BY <1>2, <1>4, <2>1 DEF Validate, MarkInvalid
    <2>2. CASE w' = [w EXCEPT !.pc = "process"]
      <3>1. w'.st = w.st /\ w.st \notin {"ER", "CR"}
        BY <1>1, <1>4, <2>2 DEF Validate, Workers, IInv, PassInv
      <3>2. \A i \in Steps : ~Sending(i, "exec")' /\ ~Sending(i, "comp")'
        BY <3>1 DEF Sending
      <3>3. UNCHANGED <<step, results, handler, imm, effect, forced, requests>>
        BY <1>4 DEF Validate, MarkInvalid
      <3> QED
        BY <3>2, <3>3
    <2> QED
      BY <1>4, <2>1, <2>2 DEF Validate
  <1>5. CASE processCandidate
    <2>1. w.pc = "process" /\ step[w.i] = "EC" /\ w.log = NoLog
      BY <1>5 DEF processCandidate, Processing, IInv, PassInv
    <2>2. UNCHANGED <<results, handler, imm, effect, forced, requests>>
      BY <1>5 DEF processCandidate
    <2>3. CASE MarkInvalid /\ EndPass
      BY <1>2, <2>2, <2>3 DEF MarkInvalid
    <2>4. CASE step' = [step EXCEPT ![w.i] = "ER"] /\ FollowUp("ER", NewLog("exec"))
      <3>1. w'.i = w.i /\ w'.st = "ER"
        BY <1>1, <2>4 DEF FollowUp, Workers
      <3> QED
        BY <1>1, <2>1, <2>2, <2>4, <3>1 DEF Moves, Sending
    <2> QED
      BY <1>5, <2>1, <2>3, <2>4 DEF processCandidate
  <1>6. CASE processRunning
    <2>1. w.st = "ER" /\ ~w.log.sent /\ w.log # NoLog /\ Sending(w.i, "exec")
      BY <1>6 DEF processRunning, Processing, IInv, PassInv, Sending, NoLog
    <2>2. UNCHANGED <<results, handler, imm, effect, forced>>
      BY <1>6 DEF processRunning
    <2>3. CASE MarkInvalid /\ EndPass /\ UNCHANGED requests
      BY <1>2, <2>2, <2>3 DEF MarkInvalid
    <2>4. CASE PublishRequest("exec")
      <3>1. w'.pc = "record"
        BY <1>1, <2>4 DEF PublishRequest, Workers
      <3> QED
        BY <2>1, <2>2, <2>4, <3>1 DEF PublishRequest, Sending, Kinds
    <2> QED
      BY <1>6, <2>1, <2>3, <2>4 DEF processRunning
  <1>7. CASE processCompensationRunning
    <2>1. w.st = "CR" /\ ~w.log.sent /\ w.log.kind = "comp" /\ Sending(w.i, "comp")
      BY <1>7 DEF processCompensationRunning, Processing, IInv, PassInv, Sending
    <2>2. UNCHANGED <<results, handler, imm, effect, forced>>
      BY <1>7 DEF processCompensationRunning
    <2>3. PublishRequest("comp")
      BY <1>7, <2>1 DEF processCompensationRunning
    <2>4. w'.pc = "record"
      BY <1>1, <2>3 DEF PublishRequest, Workers
    <2> QED
      BY <2>1, <2>2, <2>3, <2>4 DEF PublishRequest, Sending, Kinds
  <1>8. CASE processSucceeded
    <2>1. /\ step[w.i] = "ES" /\ EndPass
          /\ UNCHANGED <<results, handler, imm, effect, forced, requests>>
      BY <1>8 DEF processSucceeded, Processing, IInv, PassInv
    <2>2. CASE MarkInvalid
      BY <1>2, <2>1, <2>2 DEF MarkInvalid
    <2>3. CASE ~MarkInvalid
      BY <1>1, <1>8, <2>1, <2>3, NAssumption
      DEF processSucceeded, Moves, WalkPairs, Sending, EndPass, IdleWorker, Steps
    <2> QED
      BY <2>2, <2>3
  <1>9. CASE processFailed
    <2>1. step[w.i] = "EF" /\ UNCHANGED <<results, handler, imm, effect, forced, requests>>
      BY <1>9 DEF processFailed, Processing, IInv, PassInv
    <2>2. CASE MarkInvalid /\ EndPass
      BY <1>2, <2>1, <2>2 DEF MarkInvalid
    <2>3. CASE ~(MarkInvalid /\ EndPass)
      <3>1. w'.st = "CC"
        BY <1>1, <1>9, <2>3 DEF processFailed, FollowUp, Workers
      <3> QED
        BY <1>1, <1>9, <2>1, <2>3, <3>1, NAssumption
        DEF processFailed, Moves, WalkPairs, Sending, Steps
    <2> QED
      BY <2>2, <2>3
  <1>10. CASE processCompensationCandidate
    <2>1. step[w.i] = "CC" /\ UNCHANGED <<results, handler, imm, effect, forced, requests>>
      BY <1>10 DEF processCompensationCandidate, Processing, IInv, PassInv
    <2>2. CASE EndPass /\ UNCHANGED step
      BY <1>2, <2>1, <2>2
    <2>3. CASE step' = [step EXCEPT ![w.i] = "CR"] /\ FollowUp("CR", NewLog("comp"))
      <3>1. w'.i = w.i /\ w'.st = "CR"
        BY <1>1, <2>3 DEF FollowUp, Workers
      <3> QED
        BY <1>1, <2>1, <2>3, <3>1 DEF Moves, Sending
    <2> QED
      BY <1>10, <2>2, <2>3 DEF processCompensationCandidate, MarkInvalid
  <1>11. CASE processCompensationSucceeded
    <2>1. step[w.i] = "CS" /\ UNCHANGED <<results, handler, imm, effect, forced, requests>>
      BY <1>11 DEF processCompensationSucceeded, Processing, IInv, PassInv
    <2>2. CASE MarkInvalid /\ EndPass
      BY <1>2, <2>1, <2>2 DEF MarkInvalid
    <2>3. CASE ~(MarkInvalid /\ EndPass)
      <3>1. w'.st = "CD"
        BY <1>1, <1>11, <2>3 DEF processCompensationSucceeded, FollowUp, Workers
      <3> QED
        BY <1>1, <1>11, <2>1, <2>3, <3>1, NAssumption
        DEF processCompensationSucceeded, Moves, WalkPairs, Sending, Steps
    <2> QED
      BY <2>2, <2>3
  <1>12. CASE processCompensationFailed
    <2>1. step[w.i] = "CF"
      BY <1>12 DEF processCompensationFailed, Processing, IInv, PassInv
    <2> QED
      BY <1>1, <1>12, <2>1
      DEF processCompensationFailed, Moves, WalkPairs, EndPass, IdleWorker, Sending
  <1>13. CASE InitiateCompensation
    <2>1. CASE MarkInvalid
      BY <1>2, <1>13, <2>1 DEF InitiateCompensation, MarkInvalid
    <2>2. CASE ~MarkInvalid
      BY <1>13, <2>2 DEF InitiateCompensation, Moves, WalkPairs, EndPass, IdleWorker, Sending
    <2> QED
      BY <2>1, <2>2
  <1> QED
    BY <1>3, <1>4, <1>5, <1>6, <1>7, <1>8, <1>9, <1>10, <1>11, <1>12, <1>13
    DEF Worker, processSagaStep

-----------------------------------------------------------------------------
(* Effects, requests and results.                                          *)

\* What is pending about a step is traffic about it.
LEMMA PendingIsTraffic ==
  \A i \in Steps : \A m \in Pending(i) : Traffic(i)
  BY DEF Pending, Traffic, Unacked

\* The effects and the rows stay, messages at most go, and goroutines start
\* only for steps with traffic: the claims about effects stay.
LEMMA TokenQuiet ==
  ASSUME IInv, TokenInv, UNCHANGED <<step, effect>>, requests' \subseteq requests,
         \A i \in Steps : Pending(i)' \subseteq Pending(i),
         \A i \in Steps : Traffic(i)' => Traffic(i),
         \A i \in Steps : Sending(i, "exec")' => Sending(i, "exec"),
         \A t \in imm' : t \in imm \/ (t[1] \in Steps /\ Traffic(t[1]))
  PROVE  TokenInv'
  <1>1. EffectInv'
    BY DEF TokenInv, EffectInv
  <1>2. RequestInv'
    BY DEF TokenInv, RequestInv
  <1>3. ResultInv'
    BY DEF TokenInv, ResultInv
  <1>4. UntouchedInv'
    BY DEF TokenInv, UntouchedInv
  <1> QED
    BY <1>1, <1>2, <1>3, <1>4 DEF TokenInv

\* A pass keeps the claims about effects.
LEMMA TokenWorker ==
  ASSUME IInv, TokenInv, Worker
  PROVE  TokenInv'
  <1>1. /\ UNCHANGED <<results, handler, imm, effect>>
        /\ \A i \in Steps : step'[i] = step[i] \/ <<step[i], step'[i]>> \in Moves
        /\ \A i \in Steps : Sending(i, "exec")' => step[i] = "EC"
        /\ \/ UNCHANGED requests
           \/ \E k \in Kinds : /\ Sending(w.i, k) /\ requests' = requests \cup {<<w.i, k>>}
                               /\ UNCHANGED step /\ w'.pc = "record"
    BY WorkerMoves
  <1>2. \A i \in Steps :
          \/ step'[i] = step[i]
          \/ step[i] = "EP" /\ step'[i] \in {"EC", "EA"}
          \/ step[i] = "EC" /\ step'[i] = "ER"
          \/ step[i] = "ES" /\ step'[i] = "ED"
          \/ step[i] = "ED" /\ step'[i] \in {"CP", "CC"}
          \/ step[i] \in {"EF", "CP"} /\ step'[i] = "CC"
          \/ step[i] = "CC" /\ step'[i] = "CR"
          \/ step[i] = "CS" /\ step'[i] = "CD"
          \/ step[i] = "CF" /\ step'[i] = "CB"
    BY <1>1 DEF Moves, WalkPairs
  <1>3. \A i \in Steps : Pending(i)' = Pending(i)
    BY <1>1 DEF Pending, Unacked
  <1>4. EffectInv'
    BY <1>1, <1>2 DEF TokenInv, EffectInv, Untouched
  <1>5. RequestInv'
    <2>1. w.i \in Steps
      BY DEF IInv, TypeOK, Workers
    <2>2. CASE UNCHANGED requests
      BY <1>1, <1>2, <1>3, <2>2 DEF TokenInv, RequestInv
    <2>3. ASSUME NEW k \in Kinds, Sending(w.i, k), requests' = requests \cup {<<w.i, k>>},
                 UNCHANGED step
          PROVE  RequestInv'
      <3>1. CASE k = "exec"
        <4>1. step[w.i] = "ER" /\ effect[w.i] = "none" /\ ~Traffic(w.i)
          BY <2>1, <2>3, <3>1 DEF Sending, IInv, PassInv, TrafficInv, TokenInv, EffectInv
        <4>2. Pending(w.i) = {}
          BY <2>1, <4>1, PendingIsTraffic
        <4> QED
          BY <1>1, <1>3, <2>3, <3>1, <4>1, <4>2 DEF TokenInv, RequestInv
      <3>2. CASE k = "comp"
        <4>1. step[w.i] \in {"CR", "CS", "CF"}
          BY <2>1, <2>3, <3>2 DEF Sending, IInv, PassInv
        <4> QED
          BY <1>1, <1>3, <2>3, <3>2, <4>1 DEF TokenInv, RequestInv
      <3> QED
        BY <3>1, <3>2 DEF Kinds
    <2> QED
      BY <1>1, <2>2, <2>3
  <1>6. ResultInv'
    <2>1. \A i \in Steps : step'[i] = "ER" => step[i] = "ER" \/ Pending(i) = {}
      <3>1. \A i \in Steps : step[i] = "EC" => ~Traffic(i)
        BY DEF IInv, TrafficInv
      <3> QED
        BY <1>2, <3>1, PendingIsTraffic
    <2> QED
      BY <1>1, <1>3, <2>1 DEF TokenInv, ResultInv
  <1>7. UntouchedInv'
    <2>1. \A i \in Steps : step'[i] \in Untouched =>
            step[i] \in Untouched /\ (Traffic(i)' => Traffic(i))
      <3>1. \A i \in Steps : step'[i] \in Untouched => step[i] \in Untouched
        BY <1>2 DEF Untouched
      <3>2. \A i \in Steps, k \in Kinds :
              step'[i] \in Untouched /\ <<i, k>> \in requests' => <<i, k>> \in requests
        <4>1. ASSUME NEW k \in Kinds, Sending(w.i, k), UNCHANGED step
              PROVE  step'[w.i] \notin Untouched
          BY <4>1 DEF Sending, Untouched, Kinds, IInv, PassInv
        <4> QED
          BY <1>1, <4>1
      <3> QED
        BY <1>1, <3>1, <3>2 DEF Traffic
    <2> QED
      BY <1>1, <2>1 DEF TokenInv, UntouchedInv
  <1> QED
    BY <1>4, <1>5, <1>6, <1>7 DEF TokenInv

\* Reading a result keeps the claims about effects.
LEMMA TokenResultRead ==
  ASSUME IInv, TokenInv, NEW h \in Handlers, NEW m \in results, ResultRead(h, m)
  PROVE  /\ TokenInv'
         /\ \A i \in Steps : Pending(i)' \subseteq Pending(i)
  <1> USE DEF db, run, env
  <1>1. handler \in [Handlers -> HandlerStates]
    BY DEF IInv, TypeOK
  <1>2. /\ ~handler[h].busy /\ results' = results \ {m}
        /\ UNCHANGED <<step, effect, requests, w, imm>>
        /\ \/ handler' = handler
           \/ handler' = [handler EXCEPT ![h] = [busy |-> TRUE, m |-> m, log |-> hist[m.i]]]
    BY DEF ResultRead
  <1>3. \A g \in Handlers : handler'[g].busy =>
          handler'[g].m = m \/ (handler[g].busy /\ handler'[g].m = handler[g].m)
    BY <1>1, <1>2
  <1>4. results' \cup Unacked' \subseteq results \cup Unacked
    BY <1>2, <1>3 DEF Unacked
  <1>5. \A i \in Steps : Pending(i)' \subseteq Pending(i)
    BY <1>4 DEF Pending
  <1>6. \A i \in Steps : Traffic(i)' => Traffic(i)
    BY <1>2, <1>3 DEF Traffic
  <1> QED
    BY <1>2, <1>5, <1>6, TokenQuiet DEF Sending

\* Writing a result moves a RUNNING step to the state its effect justifies.
LEMMA TokenResultWrite ==
  ASSUME IInv, OneConsumer, TokenInv, NEW h \in Handlers, ResultWrite(h)
  PROVE  TokenInv'
  <1> USE DEF env
  <1> DEFINE m == handler[h].m
             log == handler[h].log
             s == ResultState(log, m.status)
  <1>1. /\ handler[h].busy /\ m \in Results /\ m.i \in Steps
        /\ handler \in [Handlers -> HandlerStates] /\ step \in [Steps -> StepStates]
    BY DEF ResultWrite, IInv, TypeOK, HandlerStates, Results
  <1>2. \/ log.kind = "exec" /\ step[m.i] = "ER"
        \/ log.kind = "comp" /\ step[m.i] \in {"CR", "CB"}
    BY <1>1 DEF IInv, HandlerInv
  <1>3. log # NoLog
    BY <1>2 DEF NoLog
  <1>4. /\ UNCHANGED <<effect, requests, results, w>>
        /\ handler' = [handler EXCEPT ![h] = IdleHandler]
    BY <1>3 DEF ResultWrite, Release
  <1>5. \A g \in Handlers : ~handler'[g].busy
    BY <1>1, <1>4 DEF OneConsumer, IdleHandler
  <1>6. \A i \in Steps : Pending(i)' \subseteq Pending(i)
    BY <1>4, <1>5 DEF Pending, Unacked
  <1>7. \A i \in Steps : Traffic(i)' => Traffic(i)
    BY <1>4, <1>5 DEF Traffic
  <1>8. Traffic(m.i)
    BY <1>1 DEF Traffic
  <1>9. CASE ~Conclusive(log, m.status)
    BY <1>3, <1>4, <1>6, <1>7, <1>9, TokenQuiet DEF ResultWrite, Sending
  <1>10. CASE Conclusive(log, m.status)
    <2>1. step' = [step EXCEPT ![m.i] = s] /\ imm' = imm \cup {<<m.i, s>>}
      BY <1>3, <1>10 DEF ResultWrite
    <2>2. m \in Pending(m.i)
      BY <1>1, <1>10 DEF Pending, Unacked, Conclusive
    <2>3. \/ step[m.i] = "ER" /\ s = "ES" /\ effect[m.i] = "applied"
          \/ step[m.i] = "ER" /\ s = "EF" /\ effect[m.i] # "undone"
          \/ step[m.i] \in {"CR", "CB"} /\ s \in {"CS", "CF"}
      <3>1. step[m.i] = "ER" => s = IF m.status = "ok" THEN "ES" ELSE "EF"
        BY <1>2 DEF ResultState
      <3>2. step[m.i] # "ER" => s = IF m.status = "ok" THEN "CS" ELSE "CF"
        BY <1>2 DEF ResultState
      <3> QED
        BY <1>1, <1>2, <2>2, <3>1, <3>2 DEF TokenInv, ResultInv, EffectInv
    <2> HIDE DEF m, s, log
    <2>4. /\ \A i \in Steps : i # m.i => step'[i] = step[i]
          /\ step'[m.i] = s
      BY <1>1, <2>1
    <2>5. EffectInv'
      <3>1. \A i \in Steps : Sending(i, "exec")' => Sending(i, "exec")
        BY <1>4 DEF Sending
      <3>2. ~Sending(m.i, "exec")
        BY <1>1, <1>8 DEF IInv, TrafficInv
      <3> QED
        BY <1>1, <1>4, <2>3, <2>4, <3>1, <3>2 DEF TokenInv, EffectInv, Untouched
    <2>6. RequestInv'
      BY <1>1, <1>4, <1>6, <2>2, <2>3, <2>4, ZenonT(40) DEF TokenInv, RequestInv
    <2>7. ResultInv'
      BY <1>1, <1>4, <1>6, <2>3, <2>4 DEF TokenInv, ResultInv
    <2>8. UntouchedInv'
      BY <1>1, <1>4, <1>7, <2>1, <2>3, <2>4 DEF TokenInv, UntouchedInv, Untouched
    <2> QED
      BY <2>5, <2>6, <2>7, <2>8 DEF TokenInv
  <1> QED
    BY <1>9, <1>10

\* An executor answers a request it had: an IN_EXECUTION changes nothing, and
\* any other answer takes the request away and says no more than was done.
LEMMA TokenAnswer ==
  ASSUME IInv, TokenInv, NEW i \in Steps, NEW k \in Kinds, NEW status \in Statuses, NEW copy,
         <<i, k>> \in requests, Answer(i, k, status, copy),
         UNCHANGED <<step, w, imm, handler>>,
         \/ status = "busy" /\ requests' \subseteq requests
         \/ requests' = requests \ {<<i, k>>},
         \/ UNCHANGED effect /\ (status = "ok" => k = "comp")
         \/ Done(i, k) /\ requests' = requests \ {<<i, k>>}
  PROVE  TokenInv'
  <1> DEFINE a == [i |-> i, kind |-> k, status |-> status, copy |-> copy]
  <1>1. /\ effect \in [Steps -> {"none", "applied", "undone"}]
        /\ \A j \in Steps : j # i => effect'[j] = effect[j]
        /\ k = "exec" => effect'[i] \in {effect[i], "applied"}
        /\ k = "exec" /\ status = "ok" => effect'[i] = "applied"
    BY DEF Done, IInv, TypeOK, Kinds
  <1>2. a.i = i /\ a.status = status
    OBVIOUS
  <1> HIDE DEF a
  <1>3. results' = results \cup {a} /\ Unacked' = Unacked
    BY DEF Answer, Unacked, a
  <1>4. /\ \A j \in Steps : j # i => Pending(j)' = Pending(j)
        /\ Pending(i)' \subseteq Pending(i) \cup {a}
        /\ status = "busy" => Pending(i)' = Pending(i)
    BY <1>2, <1>3 DEF Pending
  <1>5. \A j \in Steps : Traffic(j)' => Traffic(j)
    BY <1>2, <1>3 DEF Traffic
  <1>6. Traffic(i)
    BY DEF Traffic
  <1>7. CASE k = "exec"
    <2>1. step[i] = "ER" /\ effect[i] = "none" /\ Pending(i) = {} /\ ~Sending(i, "exec")
      BY <1>6, <1>7 DEF TokenInv, RequestInv, IInv, TrafficInv
    <2>2. EffectInv'
      BY <1>1, <1>7, <2>1 DEF TokenInv, EffectInv, Sending, Untouched
    <2>3. RequestInv'
      <3>1. <<i, "exec">> \in requests' => status = "busy" /\ effect'[i] = "none"
        BY <1>1, <1>7, <2>1 DEF Statuses
      <3>2. <<i, "comp">> \notin requests
        BY <2>1 DEF TokenInv, RequestInv
      <3> QED
        BY <1>1, <1>4, <2>1, <3>1, <3>2 DEF TokenInv, RequestInv
    <2>4. ResultInv'
      BY <1>1, <1>2, <1>4, <1>7, <2>1 DEF TokenInv, ResultInv
    <2> QED
      BY <1>5, <2>2, <2>3, <2>4 DEF TokenInv, UntouchedInv
  <1>8. CASE k = "comp"
    <2>1. step[i] \in {"CR", "CS", "CF", "CB", "CD"}
      BY <1>8 DEF TokenInv, RequestInv
    <2>2. <<i, "exec">> \notin requests /\ ~Sending(i, "exec")
      BY <1>6, <2>1 DEF TokenInv, RequestInv, IInv, TrafficInv
    <2>3. EffectInv'
      BY <1>1, <2>1, <2>2 DEF TokenInv, EffectInv, Sending, Untouched
    <2>4. RequestInv'
      BY <1>1, <1>4, <2>1, <2>2 DEF TokenInv, RequestInv
    <2>5. ResultInv'
      BY <1>1, <1>4, <2>1 DEF TokenInv, ResultInv
    <2> QED
      BY <1>5, <2>3, <2>4, <2>5 DEF TokenInv, UntouchedInv
  <1> QED
    BY <1>7, <1>8 DEF Kinds

\* What the executors do keeps the claims about effects.
LEMMA TokenExecutor ==
  ASSUME IInv, TokenInv, NEW i \in Steps,
         \/ \E ok \in BOOLEAN : ChildAnswered(i, ok) \/ \E k \in Kinds : Execute(i, k, ok)
         \/ SpawnChild(i)
         \/ \E k \in Kinds : InFlight(i, k) \/ ExecutorDies(i, k)
  PROVE  TokenInv'
  <1> USE DEF db, run, env, budget
  <1>1. "exec" \in Kinds /\ {"ok", "fail", "busy"} \subseteq Statuses
    BY DEF Kinds, Statuses
  <1>2. ASSUME NEW ok \in BOOLEAN, ChildAnswered(i, ok) PROVE TokenInv'
    BY <1>1, <1>2, TokenAnswer DEF ChildAnswered
  <1>3. ASSUME NEW ok \in BOOLEAN, NEW k \in Kinds, Execute(i, k, ok) PROVE TokenInv'
    BY <1>1, <1>3, TokenAnswer DEF Execute, Synchronous, DoneOrNot
  <1>4. CASE SpawnChild(i)
    BY <1>1, <1>4, TokenAnswer DEF SpawnChild
  <1>5. ASSUME NEW k \in Kinds, InFlight(i, k) PROVE TokenInv'
    BY <1>1, <1>5, TokenAnswer DEF InFlight
  <1>6. ASSUME NEW k \in Kinds, ExecutorDies(i, k) PROVE TokenInv'
    BY <1>1, <1>6, TokenAnswer DEF ExecutorDies, Synchronous, DoneOrNot
  <1> QED
    BY <1>2, <1>3, <1>4, <1>5, <1>6

\* A handler that fails, a crash and a lost run take back or drop messages,
\* and no more than the messages there were.
LEMMA RequeueMessages ==
  ASSUME IInv,
         \/ \E h \in Handlers : ResultFails(h)
         \/ Crash
         \/ \E i \in Steps : DetachedLost(i)
  PROVE  /\ UNCHANGED <<step, effect>> /\ requests' \subseteq requests
         /\ results' \cup Unacked' \subseteq results \cup Unacked
         /\ \A i \in Steps : Pending(i)' \subseteq Pending(i)
         /\ \A i \in Steps : Traffic(i)' => Traffic(i)
         /\ \A i \in Steps, k \in Kinds : Sending(i, k)' => Sending(i, k)
         /\ \A t \in imm' : t \in imm \/ (t[1] \in Steps /\ Traffic(t[1]))
  <1> USE DEF db, run, env, budget
  <1>0. handler \in [Handlers -> HandlerStates] /\ results \subseteq Results
    BY DEF IInv, TypeOK
  <1>1. \A i \in Steps : results' \cup Unacked' \subseteq results \cup Unacked =>
          Pending(i)' \subseteq Pending(i)
    BY DEF Pending
  <1>2. ASSUME NEW h \in Handlers, ResultFails(h)
        PROVE  /\ results' \cup Unacked' \subseteq results \cup Unacked
               /\ \A i \in Steps : Traffic(i)' => Traffic(i)
               /\ \A t \in imm' : t \in imm \/ (t[1] \in Steps /\ Traffic(t[1]))
    <2>1. /\ handler[h].busy /\ handler[h].m.i \in Steps
          /\ results' = results \cup {handler[h].m}
          /\ \A g \in Handlers : handler'[g].busy => handler'[g] = handler[g]
          /\ UNCHANGED requests
      BY <1>0, <1>2 DEF ResultFails, Release, IdleHandler, HandlerStates, Results
    <2>2. \A t \in imm' : t \in imm \/ t[1] = handler[h].m.i
      BY <1>2 DEF ResultFails
    <2>3. Traffic(handler[h].m.i)
      BY <2>1 DEF Traffic
    <2>4. results' \cup Unacked' \subseteq results \cup Unacked
      BY <2>1 DEF Unacked
    <2>5. \A i \in Steps : Traffic(i)' => Traffic(i)
      BY <2>1 DEF Traffic
    <2> QED
      BY <2>1, <2>2, <2>3, <2>4, <2>5
  <1>3. CASE Crash
    <2>1. /\ results' = results \cup Unacked /\ \A g \in Handlers : ~handler'[g].busy
          /\ UNCHANGED requests /\ imm' = {} /\ w'.pc = "idle"
      BY <1>3 DEF Crash, IdleHandler, IdleWorker
    <2>2. results' \cup Unacked' \subseteq results \cup Unacked
      BY <2>1 DEF Unacked
    <2>3. \A i \in Steps : Traffic(i)' => Traffic(i)
      BY <2>1 DEF Traffic, Unacked
    <2> QED
      BY <1>1, <1>3, <2>1, <2>2, <2>3 DEF Crash, Sending
  <1>4. ASSUME NEW i \in Steps, DetachedLost(i)
        PROVE  /\ results' \cup Unacked' \subseteq results \cup Unacked
               /\ \A j \in Steps : Traffic(j)' => Traffic(j)
    BY <1>4 DEF DetachedLost, Unacked, Traffic
  <1>5. CASE \E h \in Handlers : ResultFails(h)
    BY <1>1, <1>2, <1>5 DEF ResultFails, Sending
  <1>6. CASE \E i \in Steps : DetachedLost(i)
    BY <1>1, <1>4, <1>6 DEF DetachedLost, Sending
  <1> QED
    BY <1>3, <1>5, <1>6

\* A redelivery adds a copy of a message there is.
LEMMA TokenDuplicate ==
  ASSUME IInv, TokenInv, NEW m \in results \cup Unacked, Duplicate(m)
  PROVE  TokenInv'
  <1> USE DEF db, run, env
  <1> DEFINE n == [m EXCEPT !.copy = dups + 1]
  <1>1. m \in Results
    BY DEF IInv, TypeOK, Unacked, HandlerStates
  <1>2. m.i \in Steps /\ n.i = m.i /\ n.status = m.status
    BY <1>1 DEF Results
  <1> HIDE DEF n
  <1>3. results' = results \cup {n} /\ UNCHANGED <<step, effect, requests, handler, w, imm>>
    BY DEF Duplicate, n
  <1>4. \A i \in Steps : \A x \in Pending(i)' : x \in Pending(i) \/ (m \in Pending(i) /\ x.status = m.status)
    BY <1>2, <1>3 DEF Pending, Unacked
  <1>5. \A i \in Steps : Traffic(i)' => Traffic(i)
    BY <1>2, <1>3 DEF Traffic, Unacked
  <1>6. EffectInv'
    BY <1>3 DEF TokenInv, EffectInv, Sending
  <1>7. RequestInv'
    BY <1>3, <1>4 DEF TokenInv, RequestInv
  <1>8. ResultInv'
    BY <1>3, <1>4 DEF TokenInv, ResultInv
  <1>9. UntouchedInv'
    BY <1>3, <1>5 DEF TokenInv, UntouchedInv
  <1> QED
    BY <1>6, <1>7, <1>8, <1>9 DEF TokenInv

\* A pass that is started, given up or ended, and what the operator and the
\* broker do besides, keep the claims about effects.
LEMMA TokenRest ==
  ASSUME IInv, TokenInv, UNCHANGED <<step, effect, requests, results, handler>>, imm' \subseteq imm,
         \A i \in Steps : ~Sending(i, "exec")' \/ UNCHANGED w
  PROVE  TokenInv'
  <1>1. /\ \A i \in Steps : Pending(i)' \subseteq Pending(i)
        /\ \A i \in Steps : Traffic(i)' => Traffic(i)
        /\ \A i \in Steps : Sending(i, "exec")' => Sending(i, "exec")
    BY DEF Pending, Unacked, Traffic, Sending
  <1> QED
    BY <1>1, TokenQuiet

-----------------------------------------------------------------------------
(* The saga row and the pass.                                              *)

\* Steps that touch neither the rows nor the pass keep the claims about them.
LEMMA RowQuiet ==
  ASSUME RowInv, UNCHANGED <<saga, step, forced, w>>
  PROVE  RowInv'
  BY DEF RowInv, SagaInv, PassReads, Backward

\* So does a pass that ends with the step rows as they were.
LEMMA RowEnds ==
  ASSUME RowInv, UNCHANGED <<step, forced>>, saga' \in {saga, "INVALID_STATE"}, w'.pc = "idle"
  PROVE  RowInv'
  BY DEF RowInv, SagaInv, PassReads, Backward

\* And a pass that begins: neither list of skipped states lets a step through
\* that has nothing to do.
LEMMA RowBegins ==
  ASSUME IInv, OInv, NEW i \in Steps, UNCHANGED <<saga, step, forced>>,
         \/ BeginPass(i, "poll", PollSkips)
         \/ BeginPass(i, "imm", ImmediateSkips) /\ step[i] \notin Untouched
  PROVE  RowInv'
  <1>1. step[i] # "EB"
    BY ShapeExclusive DEF IInv
  <1>2. CASE UNCHANGED w
    BY <1>2, RowQuiet DEF OInv
  <1>3. ASSUME NEW src \in {"poll", "imm"}, NEW pc \in {"initiate", "validate"},
               w' = [pc |-> pc, i |-> i, src |-> src,
                     st |-> step[i], log |-> hist[i], saga |-> saga],
               pc = "initiate" => saga = "COMPENSATION_REQUESTED",
               pc = "validate" => step[i] \notin IF src = "poll" THEN PollSkips
                                                 ELSE ImmediateSkips \cup Untouched
        PROVE  RowInv'
    <2>1. SagaInv'
      BY DEF OInv, RowInv, SagaInv, Backward
    <2>2. PassReads'
      BY <1>1, <1>3 DEF PassReads, PollSkips, ImmediateSkips, Untouched
    <2> QED
      BY <2>1, <2>2 DEF RowInv
  <1> QED
    BY <1>2, <1>3 DEF BeginPass

\* A well-shaped backward walk consists of compensation states and aborted
\* steps, a forward walk contains neither.
LEMMA WalkDirection ==
  ASSUME TypeOK
  PROVE  /\ BackwardShape => Backward
         /\ ForwardShape => \A i \in Steps : step[i] \notin CompensationStates \cup {"EA"}
  BY DEF BackwardShape, ForwardShape, Backward, CompensationStates

\* A pass keeps the claims about the saga row.
LEMMA RowWorker ==
  ASSUME IInv, IInv', OInv, Worker
  PROVE  RowInv'
  <1> USE DEF db, mq, env, budget
  <1>1. /\ step \in [Steps -> StepStates] /\ w.i \in Steps /\ w \in Workers /\ 1 \in Steps
        /\ UNCHANGED forced /\ TypeOK
    BY WorkerMoves, OneStep DEF IInv, TypeOK, Workers
  <1>2. ASSUME EndPass, UNCHANGED <<step, forced>>, UNCHANGED saga \/ saga' = "INVALID_STATE"
        PROVE  RowInv'
    BY <1>2, RowEnds DEF OInv, EndPass, IdleWorker
  <1>3. CASE processDone \/ processUnexpected \/ RecordSent
    BY <1>2, <1>3 DEF processDone, processUnexpected, RecordSent, MarkInvalid
  <1>4. CASE Validate
    <2>1. CASE EndPass
      BY <1>2, <1>4, <2>1 DEF Validate, MarkInvalid
    <2>2. CASE w' = [w EXCEPT !.pc = "process"] /\ UNCHANGED <<saga, step>>
      <3>1. w.pc = "validate" /\ w'.pc = "process" /\ w'.st = w.st /\ w'.saga = w.saga /\ w'.src = w.src
        BY <1>1, <1>4, <2>2 DEF Validate, Workers
      <3> QED
        BY <1>1, <2>2, <3>1 DEF OInv, RowInv, SagaInv, PassReads, Backward
    <2> QED
      BY <1>4, <2>1, <2>2 DEF Validate
  \* While the current step is neither done nor aborted, a forward saga is
  \* neither committed nor compensated, and a backward one may only be BLOCKED
  \* or force-marked.
  <1>5. ASSUME w.pc = "process", step[w.i] \in {"EC", "ER", "ES", "EF"}
        PROVE  saga \in {"RUNNING", "INVALID_STATE"} /\ ForwardShape
    <2>1. ForwardShape
      BY <1>1, <1>5, ShapeExclusive DEF IInv
    <2>2. saga \in SagaStates
      BY <1>1 DEF TypeOK
    <2> QED
      BY <1>1, <1>5, <2>1, <2>2, WalkDirection
      DEF OInv, RowInv, SagaInv, Backward, SagaStates
  <1>6. ASSUME w.pc = "process", step[w.i] \in {"CC", "CR", "CS", "CF"}
        PROVE  saga \notin {"COMMITTED", "COMPENSATION_REQUESTED"} /\ (saga = "COMPENSATED" => forced)
               /\ BackwardShape
    <2>1. BackwardShape
      BY <1>1, <1>6, ShapeExclusive DEF IInv, CompensationStates
    <2> QED
      BY <1>1, <1>6, <2>1 DEF OInv, RowInv, SagaInv
  <1>7. CASE processCandidate
    <2>1. w.pc = "process" /\ step[w.i] = "EC" /\ w.log = NoLog
      BY <1>7 DEF processCandidate, Processing, IInv, PassInv
    <2>2. CASE MarkInvalid /\ EndPass
      BY <1>1, <1>2, <2>2 DEF MarkInvalid
    <2>3. CASE step' = [step EXCEPT ![w.i] = "ER"] /\ FollowUp("ER", NewLog("exec")) /\ UNCHANGED saga
      <3>1. w'.pc = "process" /\ w'.st = "ER"
        BY <1>1, <2>1, <2>3 DEF FollowUp, Workers
      <3> QED
        BY <1>5, <2>1, <2>3, <3>1 DEF RowInv, SagaInv, PassReads
    <2> QED
      BY <1>7, <2>1, <2>2, <2>3 DEF processCandidate
  <1>8. CASE processRunning
    <2>1. ~w.log.sent /\ w.log # NoLog /\ w.pc = "process"
      BY <1>8 DEF processRunning, Processing, IInv, PassInv, NoLog
    <2>2. CASE MarkInvalid /\ EndPass
      BY <1>1, <1>2, <2>2 DEF MarkInvalid
    <2>3. CASE PublishRequest("exec")
      <3>1. w'.pc = "record"
        BY <1>1, <2>3 DEF PublishRequest, Workers
      <3> QED
        BY <1>1, <2>3, <3>1 DEF PublishRequest, OInv, RowInv, SagaInv, PassReads, Backward
    <2> QED
      BY <1>8, <2>1, <2>2, <2>3 DEF processRunning
  <1>9. CASE processCompensationRunning
    <2>1. w.log.kind = "comp" /\ ~w.log.sent
      BY <1>9 DEF processCompensationRunning, Processing, IInv, PassInv
    <2>2. PublishRequest("comp")
      BY <1>9, <2>1 DEF processCompensationRunning
    <2>3. w'.pc = "record"
      BY <1>1, <2>2 DEF PublishRequest, Workers
    <2> QED
      BY <1>1, <2>2, <2>3 DEF PublishRequest, OInv, RowInv, SagaInv, PassReads, Backward
  <1>10. CASE processSucceeded
    <2>1. w.pc = "process" /\ step[w.i] = "ES" /\ EndPass
      BY <1>10 DEF processSucceeded, Processing, IInv, PassInv
    <2>2. CASE MarkInvalid
      BY <1>1, <1>2, <2>1, <2>2 DEF MarkInvalid
    <2>3. CASE ~MarkInvalid
      <3>1. /\ saga' = IF w.i = N THEN "COMMITTED" ELSE saga
            /\ w.i = N => \A j \in Steps : j # w.i => step[j] = "ED"
            /\ step' = [j \in Steps |-> IF j = w.i THEN "ED"
                                        ELSE IF j = w.i + 1 THEN "EC" ELSE step[j]]
        BY <1>10, <2>3 DEF processSucceeded
      <3>2. saga' = "COMMITTED" => \A j \in Steps : step'[j] = "ED"
        BY <1>1, <1>5, <2>1, <3>1, NAssumption DEF Steps
      <3> QED
        BY <1>5, <2>1, <3>1, <3>2 DEF RowInv, SagaInv, PassReads, EndPass, IdleWorker
    <2> QED
      BY <2>2, <2>3
  <1>11. CASE processFailed
    <2>1. w.pc = "process" /\ step[w.i] = "EF" /\ w.st = "EF"
      BY <1>11 DEF processFailed, Processing, IInv, PassInv
    <2>2. CASE MarkInvalid /\ EndPass
      BY <1>1, <1>2, <2>2 DEF MarkInvalid
    <2>3. CASE ~(MarkInvalid /\ EndPass)
      <3>1. saga' = w.saga /\ w.saga = saga /\ w'.st = "CC" /\ w'.pc = "process"
        BY <1>1, <1>11, <2>1, <2>3 DEF processFailed, FollowUp, Workers, OInv, RowInv, PassReads
      <3> QED
        BY <1>5, <2>1, <3>1 DEF RowInv, SagaInv, PassReads
    <2> QED
      BY <2>2, <2>3
  <1>12. CASE processCompensationCandidate
    <2>1. w.pc = "process" /\ step[w.i] = "CC"
      BY <1>12 DEF processCompensationCandidate, Processing, IInv, PassInv
    <2>2. CASE EndPass /\ UNCHANGED step /\ (UNCHANGED saga \/ saga' = "INVALID_STATE")
      BY <1>1, <1>2, <2>2
    <2>3. CASE step' = [step EXCEPT ![w.i] = "CR"] /\ FollowUp("CR", NewLog("comp")) /\ UNCHANGED saga
      <3>1. w'.pc = "process" /\ w'.st = "CR"
        BY <1>1, <2>1, <2>3 DEF FollowUp, Workers
      <3>2. Backward'
        BY <1>1, <1>6, <2>1, <2>3, WalkDirection DEF Backward, CompensationStates
      <3> QED
        BY <1>1, <1>6, <2>1, <2>3, <3>1, <3>2 DEF RowInv, SagaInv, PassReads
    <2> QED
      BY <1>12, <2>2, <2>3 DEF processCompensationCandidate, MarkInvalid
  <1>13. CASE processCompensationSucceeded
    <2>1. w.pc = "process" /\ step[w.i] = "CS"
      BY <1>13 DEF processCompensationSucceeded, Processing, IInv, PassInv
    <2>2. CASE MarkInvalid /\ EndPass
      BY <1>1, <1>2, <2>2 DEF MarkInvalid
    <2>3. CASE ~(MarkInvalid /\ EndPass)
      <3>1. /\ step' = [j \in Steps |-> IF j = w.i THEN "CD"
                                        ELSE IF j = w.i - 1 THEN "CC" ELSE step[j]]
            /\ saga' = IF w.i = 1 THEN "COMPENSATED" ELSE saga
            /\ w.i = 1 => \A j \in Steps : step'[j] \in {"CD", "EA"}
            /\ w'.pc = "process" /\ w'.st = "CD"
        BY <1>1, <1>13, <2>1, <2>3 DEF processCompensationSucceeded, CompensatedPattern, FollowUp, Workers
      <3>2. Backward'
        BY <1>1, <1>6, <2>1, <3>1, WalkDirection DEF Backward, CompensationStates
      <3> QED
        BY <1>1, <1>6, <2>1, <3>1, <3>2 DEF RowInv, SagaInv, PassReads
    <2> QED
      BY <2>2, <2>3
  <1>14. CASE processCompensationFailed
    <2>1. w.pc = "process" /\ step[w.i] = "CF"
      BY <1>14 DEF processCompensationFailed, Processing, IInv, PassInv
    <2>2. Backward'
      BY <1>1, <1>6, <1>14, <2>1, WalkDirection DEF processCompensationFailed, Backward, CompensationStates
    <2> QED
      BY <1>14, <2>2 DEF processCompensationFailed, RowInv, SagaInv, PassReads, EndPass, IdleWorker
  <1>15. CASE InitiateCompensation
    <2>1. CASE MarkInvalid
      BY <1>1, <1>2, <1>15, <2>1 DEF InitiateCompensation, MarkInvalid
    <2>2. CASE ~MarkInvalid
      BY <1>15, <2>2 DEF InitiateCompensation, RowInv, SagaInv, PassReads, EndPass, IdleWorker
    <2> QED
      BY <2>1, <2>2
  <1> QED
    BY <1>3, <1>4, <1>7, <1>8, <1>9, <1>10, <1>11, <1>12, <1>13, <1>14, <1>15
    DEF Worker, processSagaStep

\* A result that is written finds its step RUNNING or blocked, so that the
\* saga is not final, and the pass of the day is not about that step.
LEMMA RowResultWrite ==
  ASSUME IInv, IInv', OInv, NEW h \in Handlers, ResultWrite(h)
  PROVE  RowInv'
  <1> USE DEF env
  <1> DEFINE m == handler[h].m
  <1>1. handler[h].busy /\ m.i \in Steps /\ step \in [Steps -> StepStates] /\ TypeOK
    BY DEF ResultWrite, IInv, TypeOK, HandlerStates, Results
  <1>2. \/ handler[h].log.kind = "exec" /\ step[m.i] = "ER"
        \/ handler[h].log.kind = "comp" /\ step[m.i] \in {"CR", "CB"}
    BY <1>1 DEF IInv, HandlerInv
  <1>3. handler[h].log # NoLog
    BY <1>2 DEF NoLog
  <1>4. UNCHANGED <<saga, forced, w>>
    BY <1>3 DEF ResultWrite
  <1>5. CASE UNCHANGED step
    BY <1>4, <1>5, RowQuiet DEF OInv
  <1>6. CASE step' = [step EXCEPT ![m.i] = ResultState(handler[h].log, m.status)]
    <2>1. step[m.i] # "ER" => ResultState(handler[h].log, m.status) \in {"CS", "CF"}
      BY <1>2 DEF ResultState
    <2> HIDE DEF m
    <2>2. saga \notin {"COMMITTED", "COMPENSATION_REQUESTED"} /\ (saga = "COMPENSATED" => forced)
      BY <1>1, <1>2 DEF OInv, RowInv, SagaInv
    <2>3. saga \in {"BLOCKED", "COMPENSATED"} => Backward'
      <3>1. ASSUME saga \in {"BLOCKED", "COMPENSATED"} PROVE Backward'
        <4>1. Backward
          BY <3>1 DEF OInv, RowInv, SagaInv
        <4> QED
          BY <1>1, <1>2, <1>6, <2>1, <4>1 DEF Backward, CompensationStates
      <3> QED
        BY <3>1
    <2>4. PassReads'
      BY <1>4 DEF OInv, RowInv, PassReads
    <2> QED
      BY <1>4, <2>2, <2>3, <2>4 DEF RowInv, SagaInv
  <1> QED
    BY <1>3, <1>5, <1>6 DEF ResultWrite

-----------------------------------------------------------------------------
(* OInv, for any number of redeliveries.                                   *)

\* A freshly stored saga satisfies OInv.
LEMMA OInvInit == Init => OInv
  BY DEF Init, OInv, TokenInv, RowInv, EffectInv, RequestInv, ResultInv, UntouchedInv, Untouched,
     Pending, Unacked, Traffic, Sending, SagaInv, PassReads, IdleWorker, IdleHandler

\* Steps that touch neither rows, effects nor queues, and start no pass.
LEMMA OInvQuiet ==
  ASSUME IInv, OInv, UNCHANGED <<saga, step, effect, forced, requests, results, handler>>,
         imm' \subseteq imm, UNCHANGED w \/ w'.pc = "idle"
  PROVE  OInv'
  <1>1. TokenInv'
    BY TokenRest DEF OInv, Sending
  <1>2. RowInv'
    BY RowQuiet, RowEnds DEF OInv
  <1> QED
    BY <1>1, <1>2 DEF OInv

\* With one consumer, every step of the system preserves OInv.
LEMMA OInvNext ==
  ASSUME IInv, IInv', OInv, OneConsumer, [Next]_vars
  PROVE  OInv'
  <1> USE DEF db, run, mq, env, budget
  <1>0. TokenInv /\ RowInv /\ TypeOK
    BY DEF OInv, IInv
  <1>1. CASE UNCHANGED vars
    BY <1>1, OInvQuiet DEF vars
  <1>2. CASE PollQuery \/ LockExpires \/ MutexLeft
    BY <1>2, OInvQuiet DEF PollQuery, LockExpires, MutexLeft
  <1>3. ASSUME NEW i \in Steps, PollGivesUp(i) \/ ChildMoves(i) PROVE OInv'
    BY <1>3, OInvQuiet DEF PollGivesUp, ChildMoves
  <1>4. ASSUME NEW t \in imm, ImmediateGivesUp(t) PROVE OInv'
    BY <1>4, OInvQuiet DEF ImmediateGivesUp
  <1>5. ASSUME NEW i \in Steps, NEW src \in {"poll", "imm"}, NEW skips, BeginPass(i, src, skips),
               UNCHANGED <<step, effect, requests, results, handler>>, imm' \subseteq imm,
               "ER" \in skips
        PROVE  TokenInv'
    <2>1. w'.pc # "process" \/ UNCHANGED w
      BY <1>5 DEF BeginPass
    <2> QED
      BY <1>0, <1>5, <2>1, TokenRest DEF Sending
  <1>6. ASSUME NEW i \in Steps, PollBegin(i) PROVE OInv'
    BY <1>5, <1>6, RowBegins DEF PollBegin, OInv, PollSkips
  <1>7. ASSUME NEW t \in imm, ImmediateBegin(t) PROVE OInv'
    <2>1. t[1] \in Steps
      BY <1>0 DEF TypeOK
    <2>2. step[t[1]] \notin Untouched
      BY <1>0, <2>1 DEF TokenInv, UntouchedInv
    <2> QED
      BY <1>5, <1>7, <2>1, <2>2, RowBegins DEF ImmediateBegin, OInv, ImmediateSkips
  <1>8. CASE ValidateReadFails \/ PassFails
    <2>1. /\ UNCHANGED <<step, effect, forced, requests, results, handler, imm>>
          /\ w'.pc = "idle" /\ saga' \in {saga, "INVALID_STATE"}
      BY <1>8 DEF ValidateReadFails, PassFails, EndPass, IdleWorker, MarkInvalid
    <2> QED
      BY <1>0, <2>1, TokenRest, RowEnds DEF OInv, Sending
  <1>9. CASE Operator
    <2>1. /\ UNCHANGED <<step, effect, w, requests, results, handler, imm>>
      BY <1>9 DEF Operator, RequestCompensation, ForceMarkSagaCompensated
    <2>2. SagaInv'
      <3>1. Backward => Backward'
        BY <2>1 DEF Backward
      <3>2. CASE RequestCompensation
        BY <1>0, <2>1, <3>2 DEF RequestCompensation, TriggerSagaCompensation, RowInv, SagaInv
      <3>3. CASE ForceMarkSagaCompensated
        BY <1>0, <2>1, <3>1, <3>3 DEF ForceMarkSagaCompensated, RowInv, SagaInv
      <3> QED
        BY <1>9, <3>2, <3>3 DEF Operator
    <2>3. PassReads'
      <3>1. ~(w.pc = "initiate")
        BY <1>0, <1>9 DEF Operator, RequestCompensation, ForceMarkSagaCompensated, RowInv, PassReads
      <3>2. ~(w.pc \in {"validate", "process"} /\ w.st = "EF")
        <4>1. ASSUME w.pc \in {"validate", "process"}, w.st = "EF" PROVE FALSE
          <5>1. w.i \in Steps /\ step[w.i] = "EF"
            BY <4>1 DEF IInv, TypeOK, Workers, PassInv
          <5> QED
            BY <1>0, <1>9, <5>1 DEF Operator, RequestCompensation, ForceMarkSagaCompensated,
               RowInv, SagaInv, Backward, CompensationStates
        <4> QED
          BY <4>1
      <3> QED
        BY <1>0, <2>1, <3>1, <3>2 DEF RowInv, PassReads
    <2> QED
      BY <1>0, <2>1, <2>2, <2>3, TokenRest DEF OInv, RowInv
  <1>10. CASE Worker
    BY <1>0, <1>10, TokenWorker, RowWorker DEF OInv
  <1>11. CASE Consumer
    <2>1. ASSUME NEW h \in Handlers, ResultWrite(h) PROVE OInv'
      BY <1>0, <2>1, TokenResultWrite, RowResultWrite DEF OInv
    <2>2. ASSUME NEW h \in Handlers, NEW m \in results, ResultRead(h, m) PROVE OInv'
      BY <1>0, <2>2, TokenResultRead, RowQuiet DEF OInv, ResultRead
    <2> QED
      BY <1>11, <2>1, <2>2 DEF Consumer
  <1>12. ASSUME NEW i \in Steps,
                \/ \E ok \in BOOLEAN : ChildAnswered(i, ok) \/ \E k \in Kinds : Execute(i, k, ok)
                \/ SpawnChild(i)
                \/ \E k \in Kinds : InFlight(i, k) \/ ExecutorDies(i, k)
         PROVE  OInv'
    <2>1. UNCHANGED <<saga, step, forced, w>>
      BY <1>12 DEF ChildAnswered, Execute, SpawnChild, InFlight, ExecutorDies
    <2> QED
      BY <1>0, <1>12, <2>1, TokenExecutor, RowQuiet DEF OInv
  <1>13. CASE \/ Crash \/ \E h \in Handlers : ResultFails(h)
              \/ \E i \in Steps : DetachedLost(i)
    <2>1. TokenInv'
      <3>1. "exec" \in Kinds
        BY DEF Kinds
      <3> QED
        BY <1>0, <1>13, <3>1, RequeueMessages, TokenQuiet
    <2>2. UNCHANGED <<saga, step, forced>> /\ (UNCHANGED w \/ w'.pc = "idle")
      <3>1. CASE Crash
        BY <3>1 DEF Crash, IdleWorker
      <3>2. CASE \E h \in Handlers : ResultFails(h)
        BY <3>2 DEF ResultFails
      <3>3. CASE \E i \in Steps : DetachedLost(i)
        BY <3>3 DEF DetachedLost
      <3> QED
        BY <1>13, <3>1, <3>2, <3>3
    <2> QED
      BY <1>0, <2>1, <2>2, RowQuiet, RowEnds DEF OInv
  <1>14. ASSUME NEW m \in results \cup Unacked, Duplicate(m) PROVE OInv'
    BY <1>0, <1>14, TokenDuplicate, RowQuiet DEF OInv, Duplicate
  <1>15. CASE Executor
    BY <1>3, <1>12, <1>15 DEF Executor
  <1>16. CASE Failure
    BY <1>2, <1>8, <1>12, <1>13, <1>16 DEF Failure
  <1>17. CASE Redelivery
    BY <1>12, <1>14, <1>17 DEF Redelivery
  <1> QED
    BY <1>1, <1>2, <1>3, <1>4, <1>6, <1>7, <1>9, <1>10, <1>11, <1>15, <1>16, <1>17
    DEF Next, Poll, Immediate

\* With one consumer, the rows, the messages under way and the effects of the
\* services agree as OInv says, however often results are redelivered.
THEOREM OutcomeInvariant == ASSUME OneConsumer PROVE Spec => [](IInv /\ OInv)
  <1>1. IInv /\ IInv' /\ OInv /\ [Next]_vars => OInv'
    BY OInvNext
  <1> QED
    BY <1>1, Invariant, OInvInit, PTL DEF Spec

\* With one consumer, a saga that reports COMMITTED has every step done and
\* every step's effect in place, whatever failed, crashed or was redelivered.
THEOREM CommitIsTrue == ASSUME OneConsumer PROVE Spec => []CommittedMeansApplied
  <1>1. OInv => CommittedMeansApplied
    BY DEF OInv, RowInv, SagaInv, TokenInv, EffectInv, CommittedMeansApplied
  <1> QED
    BY <1>1, OutcomeInvariant, PTL

\* What one step of the system may do to the row of a final saga.
FinalStep ==
  /\ saga = "COMMITTED" => saga' \in {"COMMITTED", "COMPENSATION_REQUESTED"}
  /\ saga = "COMPENSATED" /\ ~forced => saga' = "COMPENSATED"

\* Nobody has a step of a final saga in hand, so that nobody changes its row.
LEMMA NextFinal ==
  ASSUME IInv, OInv, [Next]_vars
  PROVE  FinalStep
  <1> USE DEF db, run, mq, env, budget
  <1> SUFFICES ASSUME \/ saga = "COMMITTED"
                      \/ saga = "COMPENSATED" /\ ~forced
               PROVE  FinalStep
    BY DEF FinalStep
  <1>1. CASE UNCHANGED saga
    BY <1>1 DEF FinalStep
  <1>2. \A i \in Steps : step[i] \in {"ED", "CD", "EA"}
    BY DEF OInv, RowInv, SagaInv
  <1>3. w.i \in Steps
    BY DEF IInv, TypeOK, Workers
  <1>4. /\ w.pc \notin {"validate", "initiate"}
        /\ w.pc = "process" => w.st = "CD"
    BY <1>2, <1>3 DEF IInv, PassInv, OInv, RowInv, PassReads
  <1>5. CASE Worker
    BY <1>1, <1>4, <1>5 DEF Worker, processSagaStep, Validate, processCandidate, processRunning,
       processSucceeded, processFailed, processCompensationCandidate, processCompensationRunning,
       processCompensationSucceeded, processCompensationFailed, processDone, processUnexpected,
       Processing, RecordSent, InitiateCompensation
  <1>6. CASE Consumer
    <2>1. ASSUME NEW h \in Handlers PROVE ~ResultWrite(h)
      <3>1. handler[h].busy => handler[h].m.i \in Steps
        BY DEF IInv, TypeOK, HandlerStates, Results
      <3> QED
        BY <1>2, <3>1 DEF ResultWrite, IInv, HandlerInv
    <2> QED
      BY <1>1, <1>6, <2>1 DEF Consumer, ResultRead
  <1>7. CASE UNCHANGED vars \/ PollQuery \/ Poll \/ Immediate \/ LockExpires
    BY <1>1, <1>7 DEF vars, PollQuery, Poll, PollBegin, PollGivesUp, Immediate, ImmediateBegin,
       ImmediateGivesUp, LockExpires
  <1>8. CASE Executor
    BY <1>1, <1>8 DEF Executor, Execute, ChildAnswered, SpawnChild, ChildMoves
  <1>9. CASE Failure
    BY <1>1, <1>4, <1>9 DEF Failure, ValidateReadFails, PassFails, MutexLeft, Crash,
       ResultFails, ExecutorDies, DetachedLost
  <1>10. CASE Operator
    BY <1>10 DEF Operator, RequestCompensation, ForceMarkSagaCompensated, TriggerSagaCompensation,
       FinalStep
  <1>11. CASE Redelivery
    BY <1>1, <1>11 DEF Redelivery, Duplicate, InFlight
  <1> QED
    BY <1>5, <1>6, <1>7, <1>8, <1>9, <1>10, <1>11 DEF Next

\* With one consumer, COMMITTED is left only for COMPENSATION_REQUESTED and a
\* saga the coordinator compensated stays so, however late passes, results and
\* redeliveries are.
THEOREM FinalIsFinal == ASSUME OneConsumer PROVE Spec => FinalStaysFinal
  <1>1. IInv /\ OInv /\ [Next]_vars => [FinalStep]_vars
    BY NextFinal
  <1> QED
    BY <1>1, OutcomeInvariant, PTL DEF Spec, FinalStaysFinal, FinalStep

-----------------------------------------------------------------------------
(* ChildInv: the sagas a step spawned.                                     *)

\* A pass touches the child of a step it is about to compensate, and sends
\* the compensation only when that child is not alive.
LEMMA WorkerChild ==
  ASSUME IInv, Worker
  PROVE  /\ \A i \in Steps :
              \/ child'[i] = child[i]
              \/ /\ step[i] = "CC" /\ step'[i] = "CC"
                 /\ child[i] # "NONE" /\ child'[i] # "SUBMITTED"
         /\ \A i \in Steps : step[i] = "CC" /\ step'[i] = "CR" => ~LiveChild(i)
  <1> USE DEF db, mq, env, budget
  <1>1. /\ step \in [Steps -> StepStates] /\ child \in [Steps -> ChildStates] /\ w.i \in Steps
    BY DEF IInv, TypeOK, Workers
  <1>2. CASE processCompensationCandidate
    <2>1. step[w.i] = "CC"
      BY <1>2 DEF processCompensationCandidate, Processing, IInv, PassInv
    <2>2. CASE UNCHANGED <<step, child>>
      BY <2>2
    <2>3. CASE /\ LiveChild(w.i) /\ UNCHANGED step
               /\ child' = [child EXCEPT ![w.i] = TriggerSagaCompensation(@)]
      BY <1>1, <2>1, <2>3 DEF LiveChild, TriggerSagaCompensation
    <2>4. CASE ~LiveChild(w.i) /\ step' = [step EXCEPT ![w.i] = "CR"] /\ UNCHANGED child
      BY <1>1, <2>4
    <2> QED
      BY <1>2, <2>2, <2>3, <2>4 DEF processCompensationCandidate, MarkInvalid
  <1>3. CASE Worker /\ ~processCompensationCandidate
    <2>1. UNCHANGED child
      BY <1>3 DEF Worker, processSagaStep, Validate, processCandidate, processRunning,
         processSucceeded, processFailed, processCompensationRunning,
         processCompensationSucceeded, processCompensationFailed, processDone, processUnexpected,
         RecordSent, InitiateCompensation
    <2>2. ASSUME NEW i \in Steps, step[i] = "CC" PROVE step'[i] # "CR"
      <3>1. CASE UNCHANGED step
        BY <2>2, <3>1
      <3>2. CASE processCandidate
        BY <1>1, <2>2, <3>1, <3>2 DEF processCandidate, MarkInvalid, Processing, IInv, PassInv
      <3>3. CASE processRunning \/ processCompensationRunning
        <4>1. ~w.log.sent
          BY <3>3 DEF processRunning, processCompensationRunning, Processing, IInv, PassInv
        <4>2. w.st = "ER" => w.log # NoLog
          BY <3>3 DEF processRunning, processCompensationRunning, Processing, IInv, PassInv, NoLog
        <4> QED
          BY <3>1, <3>3, <4>1, <4>2 DEF processRunning, processCompensationRunning, PublishRequest,
             MarkInvalid, Processing
      <3>4. CASE processSucceeded \/ processFailed \/ processCompensationSucceeded
        BY <1>1, <2>2, <3>1, <3>4 DEF processSucceeded, processFailed,
           processCompensationSucceeded, MarkInvalid
      <3>5. CASE processCompensationFailed \/ InitiateCompensation
        BY <1>1, <2>2, <3>1, <3>5 DEF processCompensationFailed, InitiateCompensation, MarkInvalid
      <3>6. CASE Validate \/ processDone \/ processUnexpected \/ RecordSent
        BY <3>1, <3>6 DEF Validate, processDone, processUnexpected, RecordSent, MarkInvalid
      <3> QED
        BY <1>3, <3>2, <3>3, <3>4, <3>5, <3>6 DEF Worker, processSagaStep
    <2> QED
      BY <2>1, <2>2
  <1> QED
    BY <1>2, <1>3

\* Messages about a step whose child is not yet in the store: there are none,
\* and as long as there are none the claims about children stay.
LEMMA ChildQuiet ==
  ASSUME ChildInv, UNCHANGED <<step, child>>,
         \A i \in Steps : child[i] = "SUBMITTED" /\ Pending(i) = {} => Pending(i)' = {}
  PROVE  ChildInv'
  BY DEF ChildInv

\* A pass keeps the claims about children.
LEMMA ChildWorker ==
  ASSUME IInv, ChildInv, Worker
  PROVE  ChildInv'
  <1>1. /\ UNCHANGED <<results, handler>>
        /\ \A i \in Steps : step'[i] = step[i] \/ <<step[i], step'[i]>> \in Moves
    BY WorkerMoves
  <1>2. \A i \in Steps :
          \/ step'[i] = step[i]
          \/ step[i] = "EP" /\ step'[i] \in {"EC", "EA"}
          \/ step[i] = "EC" /\ step'[i] = "ER"
          \/ step[i] = "ES" /\ step'[i] = "ED"
          \/ step[i] = "ED" /\ step'[i] \in {"CP", "CC"}
          \/ step[i] \in {"EF", "CP"} /\ step'[i] = "CC"
          \/ step[i] = "CC" /\ step'[i] = "CR"
          \/ step[i] = "CS" /\ step'[i] = "CD"
          \/ step[i] = "CF" /\ step'[i] = "CB"
    BY <1>1 DEF Moves, WalkPairs
  <1>3. \A i \in Steps : Pending(i)' = Pending(i)
    BY <1>1 DEF Pending, Unacked
  <1>4. /\ \A i \in Steps :
              \/ child'[i] = child[i]
              \/ /\ step[i] = "CC" /\ step'[i] = "CC"
                 /\ child[i] # "NONE" /\ child'[i] # "SUBMITTED"
        /\ \A i \in Steps : step[i] = "CC" /\ step'[i] = "CR" => ~LiveChild(i)
    BY WorkerChild
  <1> SUFFICES ASSUME NEW i \in Steps
               PROVE  /\ child'[i] # "NONE" => i \in Spawners /\ step'[i] \notin Untouched
                      /\ child'[i] = "SUBMITTED" => step'[i] = "ER" /\ Pending(i)' = {}
                      /\ step'[i] \in {"CR", "CS", "CF", "CB", "CD"} => child'[i] \in {"NONE", "COMPENSATED"}
    BY DEF ChildInv
  <1>5. child'[i] # "NONE" => i \in Spawners /\ step'[i] \notin Untouched
    BY <1>2, <1>4 DEF ChildInv, Untouched
  <1>6. child'[i] = "SUBMITTED" => step'[i] = "ER" /\ Pending(i)' = {}
    BY <1>2, <1>3, <1>4 DEF ChildInv
  <1>7. step'[i] \in {"CR", "CS", "CF", "CB", "CD"} => child'[i] \in {"NONE", "COMPENSATED"}
    BY <1>2, <1>4 DEF ChildInv, LiveChild
  <1> QED
    BY <1>5, <1>6, <1>7

\* A written result ends the execution of a step whose child is in the store.
LEMMA ChildResultWrite ==
  ASSUME IInv, OneConsumer, ChildInv, NEW h \in Handlers, ResultWrite(h)
  PROVE  ChildInv'
  <1> USE DEF env
  <1> DEFINE m == handler[h].m
             s == ResultState(handler[h].log, m.status)
  <1>1. /\ handler[h].busy /\ m.i \in Steps /\ step \in [Steps -> StepStates]
        /\ handler \in [Handlers -> HandlerStates] /\ UNCHANGED child
    BY DEF ResultWrite, IInv, TypeOK, HandlerStates, Results
  <1>2. \/ handler[h].log.kind = "exec" /\ step[m.i] = "ER"
        \/ handler[h].log.kind = "comp" /\ step[m.i] \in {"CR", "CB"}
    BY <1>1 DEF IInv, HandlerInv
  <1>3. handler[h].log # NoLog
    BY <1>2 DEF NoLog
  <1>4. UNCHANGED results /\ handler' = [handler EXCEPT ![h] = IdleHandler]
    BY <1>3 DEF ResultWrite, Release
  <1>5. \A i \in Steps : Pending(i)' \subseteq Pending(i)
    BY <1>1, <1>4 DEF OneConsumer, IdleHandler, Pending, Unacked
  <1>6. CASE UNCHANGED step
    BY <1>1, <1>5, <1>6, ChildQuiet
  <1>7. CASE Conclusive(handler[h].log, m.status) /\ step' = [step EXCEPT ![m.i] = s]
    <2>1. m \in Pending(m.i)
      BY <1>1, <1>7 DEF Pending, Unacked, Conclusive
    <2>2. \/ step[m.i] = "ER" /\ s \in {"ES", "EF"}
          \/ step[m.i] \in {"CR", "CB"} /\ s \in {"CS", "CF"}
      BY <1>2 DEF ResultState
    <2> HIDE DEF m, s
    <2>3. step'[m.i] = s /\ \A i \in Steps : i # m.i => step'[i] = step[i]
      BY <1>1, <1>7
    <2> QED
      BY <1>1, <1>5, <2>1, <2>2, <2>3 DEF ChildInv, Untouched
  <1> QED
    BY <1>3, <1>6, <1>7 DEF ResultWrite

\* An answer of an executor about a step leaves the other steps' messages
\* alone, and IN_EXECUTION is not a message that moves a row.
LEMMA AnswerPending ==
  ASSUME NEW i \in Steps, NEW k, NEW status, NEW copy, Answer(i, k, status, copy), UNCHANGED handler
  PROVE  /\ \A j \in Steps : j # i => Pending(j)' = Pending(j)
         /\ status = "busy" => Pending(i)' = Pending(i)
         /\ Pending(i)' \subseteq Pending(i) \cup
              {[i |-> i, kind |-> k, status |-> status, copy |-> copy]}
  <1> DEFINE a == [i |-> i, kind |-> k, status |-> status, copy |-> copy]
  <1>1. a.i = i /\ a.status = status
    OBVIOUS
  <1>2. results' = results \cup {a} /\ Unacked' = Unacked
    BY DEF Answer, Unacked
  <1> HIDE DEF a
  <1>3. /\ \A j \in Steps : j # i => Pending(j)' = Pending(j)
        /\ Pending(i)' \subseteq Pending(i) \cup {a}
        /\ status = "busy" => Pending(i)' = Pending(i)
    BY <1>1, <1>2 DEF Pending
  <1> QED
    BY <1>3 DEF a

\* What the executors and the child's own coordinator do keeps the claims.
LEMMA ChildExecutor ==
  ASSUME IInv, TokenInv, ChildInv, EarlyGiveUp = FALSE, NEW i \in Steps,
         \/ \E ok \in BOOLEAN : ChildAnswered(i, ok) \/ \E k \in Kinds : Execute(i, k, ok)
         \/ SpawnChild(i) \/ ChildMoves(i)
         \/ \E k \in Kinds : InFlight(i, k) \/ ExecutorDies(i, k)
  PROVE  ChildInv'
  <1> USE DEF db, run, mq, env, budget
  <1>0. child \in [Steps -> ChildStates]
    BY DEF IInv, TypeOK
  <1>1. ASSUME NEW k, NEW status, NEW copy, Answer(i, k, status, copy), UNCHANGED <<handler, step, child>>,
               status = "busy" \/ child[i] # "SUBMITTED"
        PROVE  ChildInv'
    BY <1>1, AnswerPending, ChildQuiet
  <1>2. ASSUME NEW ok \in BOOLEAN, ChildAnswered(i, ok) PROVE ChildInv'
    BY <1>1, <1>2 DEF ChildAnswered
  <1>3. ASSUME NEW ok \in BOOLEAN, NEW k \in Kinds, Execute(i, k, ok) PROVE ChildInv'
    <2>1. child[i] # "SUBMITTED"
      <3>1. k = "comp" => step[i] # "ER"
        BY <1>3 DEF Execute, Synchronous, TokenInv, RequestInv
      <3>2. k = "exec" => i \notin Spawners
        BY <1>3 DEF Execute, Synchronous
      <3> QED
        BY <3>1, <3>2 DEF ChildInv, Kinds
    <2> QED
      BY <1>1, <1>3, <2>1 DEF Execute
  <1>4. CASE SpawnChild(i)
    <2>1. step[i] = "ER" /\ Pending(i) = {} /\ i \in Spawners
      BY <1>4 DEF SpawnChild, TokenInv, RequestInv
    <2>2. \A j \in Steps : Pending(j)' = Pending(j)
      BY <1>4, AnswerPending DEF SpawnChild
    <2>3. child'[i] = "SUBMITTED" /\ \A j \in Steps : j # i => child'[j] = child[j]
      BY <1>0, <1>4 DEF SpawnChild
    <2>4. UNCHANGED step
      BY <1>4 DEF SpawnChild
    <2> QED
      BY <2>1, <2>2, <2>3, <2>4 DEF ChildInv, Untouched
  <1>5. CASE ChildMoves(i)
    <2>1. PICK s \in {"RUNNING", "COMMITTED", "COMPENSATED", "BLOCKED", "INVALID_STATE"} :
            child' = [child EXCEPT ![i] = s]
      BY <1>5 DEF ChildMoves
    <2>2. child[i] \notin {"NONE", "COMPENSATED"}
      BY <1>5 DEF ChildMoves
    <2>3. child'[i] = s /\ \A j \in Steps : j # i => child'[j] = child[j]
      BY <1>0, <2>1
    <2>4. UNCHANGED step /\ \A j \in Steps : Pending(j)' = Pending(j)
      BY <1>5 DEF ChildMoves, Pending, Unacked
    <2> QED
      BY <2>2, <2>3, <2>4 DEF ChildInv
  <1>6. ASSUME NEW k \in Kinds, InFlight(i, k) PROVE ChildInv'
    BY <1>1, <1>6 DEF InFlight
  <1>7. ASSUME NEW k \in Kinds, ExecutorDies(i, k) PROVE ChildInv'
    BY <1>1, <1>7 DEF ExecutorDies
  <1> QED
    BY <1>2, <1>3, <1>4, <1>5, <1>6, <1>7

\* With one consumer and an executor that waits until its child is stored,
\* every step of the system preserves the claims about children.
LEMMA ChildNext ==
  ASSUME IInv, OInv, ChildInv, OneConsumer, EarlyGiveUp = FALSE, [Next]_vars
  PROVE  ChildInv'
  <1> USE DEF db, run, mq, env, budget
  <1>0. TokenInv
    BY DEF OInv
  <1>1. ASSUME UNCHANGED <<step, child, results, handler>> PROVE ChildInv'
    BY <1>1, ChildQuiet DEF Pending, Unacked
  <1>2. CASE UNCHANGED vars \/ PollQuery \/ LockExpires \/ Operator
    BY <1>1, <1>2 DEF vars, PollQuery, LockExpires, Operator, RequestCompensation,
       ForceMarkSagaCompensated
  <1>3. CASE Poll \/ Immediate
    BY <1>1, <1>3 DEF Poll, PollBegin, PollGivesUp, Immediate, ImmediateBegin, ImmediateGivesUp
  <1>4. CASE Worker
    BY <1>4, ChildWorker
  <1>5. CASE Consumer
    <2>1. ASSUME NEW h \in Handlers, NEW m \in results, ResultRead(h, m) PROVE ChildInv'
      BY <1>0, <2>1, TokenResultRead, ChildQuiet DEF ResultRead
    <2> QED
      BY <1>5, <2>1, ChildResultWrite DEF Consumer
  <1>6. CASE Executor
    BY <1>0, <1>6, ChildExecutor DEF Executor
  <1>7. CASE Failure
    <2>1. CASE ValidateReadFails \/ PassFails \/ MutexLeft
      BY <1>1, <2>1 DEF ValidateReadFails, PassFails, MutexLeft, MarkInvalid
    <2>2. CASE \/ Crash \/ \E h \in Handlers : ResultFails(h)
               \/ \E i \in Steps : DetachedLost(i)
      <3>1. UNCHANGED step /\ \A i \in Steps : Pending(i)' \subseteq Pending(i)
        BY <2>2, RequeueMessages
      <3>2. UNCHANGED child
        BY <2>2 DEF Crash, ResultFails, DetachedLost
      <3> QED
        BY <3>1, <3>2, ChildQuiet
    <2>3. CASE \E i \in Steps, k \in Kinds : ExecutorDies(i, k)
      BY <1>0, <2>3, ChildExecutor
    <2> QED
      BY <1>7, <2>1, <2>2, <2>3 DEF Failure
  <1>8. CASE Redelivery
    <2>1. ASSUME NEW m \in results \cup Unacked, Duplicate(m) PROVE ChildInv'
      <3>1. m \in Results
        BY DEF IInv, TypeOK, Unacked, HandlerStates
      <3>2. \A i \in Steps : Pending(i) = {} => Pending(i)' = {}
        BY <2>1, <3>1 DEF Duplicate, Pending, Unacked, Results
      <3> QED
        BY <2>1, <3>2, ChildQuiet DEF Duplicate
    <2>2. CASE \E i \in Steps, k \in Kinds : InFlight(i, k)
      BY <1>0, <2>2, ChildExecutor
    <2> QED
      BY <1>8, <2>1, <2>2 DEF Redelivery
  <1> QED
    BY <1>2, <1>3, <1>4, <1>5, <1>6, <1>7, <1>8 DEF Next

\* With one consumer, and unless an executor gives up before its child saga is
\* stored, a child saga exists from the execution of its step on, is in the
\* store before that execution is answered and is compensated before its step.
THEOREM ChildInvariant ==
  ASSUME OneConsumer, EarlyGiveUp = FALSE
  PROVE  Spec => []ChildInv
  <1>1. Init => ChildInv
    BY DEF Init, ChildInv, Untouched
  <1>2. IInv /\ OInv /\ ChildInv /\ [Next]_vars => ChildInv'
    BY ChildNext
  <1> QED
    BY <1>1, <1>2, OutcomeInvariant, PTL DEF Spec

\* A step is compensated only after the saga it spawned is compensated.
THEOREM ChildrenFirstHolds ==
  ASSUME OneConsumer, EarlyGiveUp = FALSE
  PROVE  Spec => []ChildrenFirst
  <1>1. ChildInv => ChildrenFirst
    BY DEF ChildInv, ChildrenFirst
  <1> QED
    BY <1>1, ChildInvariant, PTL

\* A saga that the coordinator reports COMPENSATED leaves no child saga
\* behind that runs, is committed, or is still to be stored.
THEOREM NoOrphans ==
  ASSUME OneConsumer, EarlyGiveUp = FALSE
  PROVE  Spec => []NoOrphanChild
  <1>1. OInv /\ ChildInv => NoOrphanChild
    BY DEF OInv, RowInv, SagaInv, ChildInv, NoOrphanChild, Untouched
  <1> QED
    BY <1>1, OutcomeInvariant, ChildInvariant, PTL

-----------------------------------------------------------------------------
(* OnceInv: no result is delivered twice.                                  *)

\* Around the step a forward walk is at, everything before is done and
\* everything after is pending.
LEMMA AroundForward ==
  ASSUME IInv, NEW i \in Steps, step[i] \in {"EC", "ER", "ES", "EF"}
  PROVE  /\ ForwardShape
         /\ \A j \in Steps : (j < i => step[j] = "ED") /\ (j > i => step[j] = "EP")
  <1>1. ForwardShape
    BY ShapeExclusive DEF IInv
  <1>2. \A j \in Steps : j < i => step[j] = "ED"
    BY <1>1 DEF ForwardShape
  <1>3. \A j \in Steps : j > i => step[j] = "EP"
    BY <1>1 DEF ForwardShape, Steps
  <1> QED
    BY <1>1, <1>2, <1>3

\* Around the step a backward walk is at, everything before is pending and
\* everything after is compensated or was aborted.
LEMMA AroundBackward ==
  ASSUME IInv, NEW i \in Steps, step[i] \in {"CP", "CC", "CR", "CS", "CF", "CB"}
  PROVE  /\ BackwardShape
         /\ \A j \in Steps : j < i => step[j] = "CP"
         /\ step[i] # "CP" => \A j \in Steps : j > i => step[j] \in {"CD", "EA"}
  <1>1. BackwardShape
    BY ShapeExclusive DEF IInv, CompensationStates
  <1>2. \A j \in Steps : j < i => step[j] = "CP"
    BY <1>1 DEF BackwardShape
  <1>3. step[i] # "CP" => \A j \in Steps : j > i => step[j] \in {"CD", "EA"}
    BY <1>1 DEF BackwardShape, Steps
  <1> QED
    BY <1>1, <1>2, <1>3

\* The direction of the walk is that of its shape.
LEMMA WalkOfShape ==
  ASSUME TypeOK
  PROVE  /\ ForwardShape => walkOf = "forward"
         /\ BackwardShape => walkOf = "back"
  <1>1. 1 \in Steps
    BY OneStep
  <1>2. ForwardShape => \A i \in Steps : ~isCompensationState(step[i])
    BY DEF ForwardShape, isCompensationState, CompensationStates
  <1>3. BackwardShape => isCompensationState(step[1])
    BY <1>1 DEF BackwardShape, isCompensationState
  <1> QED
    BY <1>1, <1>2, <1>3 DEF walkOf

\* The vector of step states that a pass validates is valid.
LEMMA AlwaysValid ==
  ASSUME IInv, PassReads, FreshInv, w.pc = "validate"
  PROVE  isSagaStateValid(step, w.i)
  <1>1. w.i \in Steps /\ DOMAIN step = Steps /\ w.st \in StepStates /\ step[w.i] = w.st
    BY DEF IInv, TypeOK, Workers, FreshInv
  <1>2. w.st \in {"EC", "ES", "EF", "CP", "CC", "CS", "CF", "CB"}
    BY <1>1 DEF PassReads, IInv, PassInv, StepStates, ExecutionStates, CompensationStates
  <1>3. CASE w.st \in {"EC", "ES", "EF"}
    <2>1. /\ ForwardShape
          /\ \A j \in Steps : (j < w.i => step[j] = "ED") /\ (j > w.i => step[j] = "EP")
      BY <1>1, <1>3, AroundForward
    <2>2. ~\E i \in DOMAIN step : isCompensationState(step[i])
      BY <1>1, <2>1 DEF ForwardShape, isCompensationState, CompensationStates
    <2>3. validateNonCompensatingMode(step, w.i)
      <3>1. \A i, j \in Steps : (w.i < i /\ i < j /\ step[i] # "EP") => step[j] = "EP"
        BY <2>1 DEF Steps
      <3> QED
        BY <1>1, <1>3, <2>1, <3>1 DEF validateNonCompensatingMode
    <2> QED
      BY <2>2, <2>3 DEF isSagaStateValid
  <1>4. CASE w.st \in {"CP", "CC", "CS", "CF", "CB"}
    <2>1. BackwardShape /\ \A j \in Steps : j < w.i => step[j] = "CP"
      BY <1>1, <1>4, AroundBackward
    <2>2. isCompensationState(step[w.i])
      BY <1>1, <1>4 DEF isCompensationState, CompensationStates
    <2>3. \A j \in Steps : step[j] = "EA" \/ isCompensationState(step[j])
      BY <2>1 DEF BackwardShape, isCompensationState
    <2>4. \A i, j \in Steps : (w.i < i /\ i < j /\ step[i] = "EA") => step[j] = "EA"
      BY <2>1 DEF BackwardShape
    <2>5. validateCompensatingMode(step, w.i)
      BY <1>1, <2>1, <2>2, <2>3, <2>4 DEF validateCompensatingMode
    <2> QED
      BY <1>1, <2>2, <2>5 DEF isSagaStateValid
  <1> QED
    BY <1>2, <1>3, <1>4

\* What a pass may do to the saga row and the walk: nothing; turn the walk
\* round before or after the commit; commit; finish the walk back; block; or
\* give the saga up because a late goroutine found its step PENDING or BLOCKED.
Unresolved == {"RUNNING", "INVALID_STATE"}
NoneBlocked == \A i \in Steps : step[i] # "CB"
Keeps == UNCHANGED <<saga, walkOf>> /\ \A i \in Steps : step'[i] = "CB" => step[i] = "CB"
Turns == /\ walkOf = "forward" /\ walkOf' = "back" /\ NoneBlocked /\ NoneBlocked'
         /\ \/ saga \in Unresolved /\ UNCHANGED saga
            \/ saga = "COMPENSATION_REQUESTED" /\ saga' = "RUNNING"
Commits == /\ saga \in Unresolved /\ saga' = "COMMITTED" /\ walkOf = "forward"
           /\ walkOf' = "forward" /\ \A i \in Steps : step'[i] = "ED"
Compensates == /\ saga \in Unresolved /\ saga' = "COMPENSATED" /\ walkOf = "back"
               /\ walkOf' = "back" /\ \A i \in Steps : step'[i] \in {"CD", "EA"}
Blocks == /\ saga \in Unresolved /\ saga' = "BLOCKED" /\ walkOf = "back"
          /\ walkOf' = "back" /\ \E i \in Steps : step'[i] = "CB"
GivesUp == /\ saga' = "INVALID_STATE" /\ UNCHANGED step
           /\ w.pc = "process" /\ w.src = "imm" /\ w.st \in {"CP", "CB"}

\* None of the consistency checks of a pass fires, and a saga whose current
\* step is neither done nor blocked is unresolved.
LEMMA WorkerOutcome ==
  ASSUME IInv, IInv', OInv, FreshInv, BlockInv, Worker
  PROVE  Keeps \/ Turns \/ Commits \/ Compensates \/ Blocks \/ GivesUp
  <1> USE DEF db, mq, env, budget
  <1>1. /\ step \in [Steps -> StepStates] /\ w.i \in Steps /\ w \in Workers /\ 1 \in Steps
        /\ TypeOK /\ TypeOK' /\ saga \in SagaStates /\ N \in Nat /\ Shape'
    BY OneStep, NAssumption DEF IInv, TypeOK, Workers
  <1>2. CASE UNCHANGED <<saga, step>>
    BY <1>2 DEF Keeps, walkOf
  \* Where the saga is when its current step is at work.
  <1>3. ASSUME w.pc = "process", w.st \in {"EC", "ER", "ES", "EF"}
        PROVE  /\ step[w.i] = w.st /\ saga \in Unresolved /\ ForwardShape /\ walkOf = "forward"
               /\ \A j \in Steps : (j < w.i => step[j] = "ED") /\ (j > w.i => step[j] = "EP")
    <2>1. step[w.i] = w.st
      BY <1>3 DEF FreshInv
    <2>2. /\ ForwardShape
          /\ \A j \in Steps : (j < w.i => step[j] = "ED") /\ (j > w.i => step[j] = "EP")
      BY <1>1, <1>3, <2>1, AroundForward
    <2>3. saga \notin {"COMMITTED", "COMPENSATION_REQUESTED", "BLOCKED", "COMPENSATED"}
      BY <1>1, <1>3, <2>1 DEF OInv, RowInv, SagaInv, Backward, CompensationStates
    <2> QED
      BY <1>1, <2>1, <2>2, <2>3, WalkOfShape DEF Unresolved, SagaStates
  <1>4. ASSUME w.pc = "process", w.st \in {"CC", "CR", "CS", "CF"}
        PROVE  /\ step[w.i] = w.st /\ saga \in Unresolved /\ BackwardShape /\ walkOf = "back"
               /\ \A j \in Steps : j < w.i => step[j] = "CP"
               /\ \A j \in Steps : j > w.i => step[j] \in {"CD", "EA"}
    <2>1. step[w.i] = w.st
      BY <1>4 DEF FreshInv
    <2>2. /\ BackwardShape /\ \A j \in Steps : j < w.i => step[j] = "CP"
          /\ \A j \in Steps : j > w.i => step[j] \in {"CD", "EA"}
      BY <1>1, <1>4, <2>1, AroundBackward
    <2>3. \A j \in Steps : step[j] # "CB"
      BY <1>1, <1>4, <2>1, <2>2 DEF Steps
    <2>4. saga \notin {"COMMITTED", "COMPENSATION_REQUESTED", "BLOCKED", "COMPENSATED"}
      BY <1>1, <1>4, <2>1, <2>3 DEF OInv, RowInv, SagaInv, BlockInv
    <2> QED
      BY <1>1, <2>1, <2>2, <2>4, WalkOfShape DEF Unresolved, SagaStates
  <1>5. CASE Validate
    <2>1. isSagaStateValid(step, w.i)
      BY <1>5, AlwaysValid DEF Validate, OInv, RowInv
    <2> QED
      BY <1>2, <1>5, <2>1 DEF Validate
  <1>6. CASE processCandidate
    <2>1. w.pc = "process" /\ w.st = "EC" /\ w.log = NoLog
      BY <1>6 DEF processCandidate, Processing, IInv, PassInv
    <2>2. (w.i > 1 => step[w.i - 1] = "ED") /\ (w.i < N => step[w.i + 1] = "EP")
      BY <1>1, <1>3, <2>1 DEF Steps
    <2>3. step' = [step EXCEPT ![w.i] = "ER"] /\ UNCHANGED saga
      BY <1>6, <2>1, <2>2 DEF processCandidate
    <2>4. \A i \in Steps : step'[i] # "CB"
      BY <1>1, <1>3, <2>1, <2>3 DEF ForwardShape
    <2>5. ForwardShape'
      <3>1. step'[w.i] = "ER"
        BY <1>1, <2>3
      <3> QED
        BY <1>1, <3>1 DEF Shape, BackwardShape, CompensationStates
    <2>6. walkOf' = "forward"
      BY <1>1, <2>5, WalkOfShape DEF walkOf, ForwardShape, isCompensationState, CompensationStates
    <2> QED
      BY <1>3, <2>1, <2>3, <2>4, <2>6 DEF Keeps
  <1>7. CASE processRunning
    <2>1. w.pc = "process" /\ w.st = "ER" /\ ~w.log.sent /\ w.log # NoLog
      BY <1>7 DEF processRunning, Processing, IInv, PassInv, NoLog
    <2>2. ~\E j \in Steps : j < w.i /\ step[j] # "ED"
      BY <1>3, <2>1
    <2> QED
      BY <1>2, <1>7, <2>1, <2>2 DEF processRunning, PublishRequest
  <1>8. CASE processCompensationRunning
    <2>1. w.log.kind = "comp" /\ ~w.log.sent
      BY <1>8 DEF processCompensationRunning, Processing, IInv, PassInv
    <2> QED
      BY <1>2, <1>8, <2>1 DEF processCompensationRunning, PublishRequest
  <1>9. CASE processSucceeded
    <2>1. w.pc = "process" /\ w.st = "ES"
      BY <1>9 DEF processSucceeded, Processing
    <2>2. /\ w.i < N => step[w.i + 1] = "EP"
          /\ w.i = N => \A j \in Steps : j # w.i => step[j] = "ED"
      BY <1>1, <1>3, <2>1 DEF Steps
    <2>3. /\ step' = [j \in Steps |-> IF j = w.i THEN "ED"
                                      ELSE IF j = w.i + 1 THEN "EC" ELSE step[j]]
          /\ saga' = IF w.i = N THEN "COMMITTED" ELSE saga
      BY <1>9, <2>2 DEF processSucceeded
    <2>4. \A i \in Steps : step'[i] \notin CompensationStates
      BY <1>3, <2>1, <2>3 DEF ForwardShape, CompensationStates
    <2>5. walkOf' = "forward"
      BY <2>4 DEF walkOf, isCompensationState
    <2>6. w.i = N => \A i \in Steps : step'[i] = "ED"
      BY <1>1, <2>2, <2>3 DEF Steps
    <2> QED
      BY <1>3, <2>1, <2>3, <2>4, <2>5, <2>6 DEF Keeps, Commits, CompensationStates
  <1>10. CASE processFailed
    <2>1. w.pc = "process" /\ w.st = "EF"
      BY <1>10 DEF processFailed, Processing
    <2>2. /\ step' = [j \in Steps |->
                        IF j < w.i THEN "CP"
                        ELSE IF j = w.i THEN "CC"
                        ELSE IF step[j] = "EP" THEN "EA" ELSE step[j]]
          /\ saga' = w.saga
      BY <1>3, <1>10, <2>1 DEF processFailed
    <2>3. saga' = saga
      BY <2>1, <2>2 DEF OInv, RowInv, PassReads
    <2>4. \A i \in Steps : step[i] # "CB" /\ step'[i] # "CB"
      BY <1>3, <2>1, <2>2 DEF ForwardShape
    <2>5. isCompensationState(step'[w.i])
      BY <1>1, <2>2 DEF isCompensationState, CompensationStates
    <2>6. walkOf' = "back"
      BY <1>1, <2>5 DEF walkOf
    <2> QED
      BY <1>3, <2>1, <2>3, <2>4, <2>6 DEF Turns, NoneBlocked
  <1>11. CASE processCompensationCandidate
    <2>1. w.pc = "process" /\ w.st = "CC"
      BY <1>11 DEF processCompensationCandidate, Processing
    <2>2. w.i > 1 => step[w.i - 1] = "CP"
      BY <1>1, <1>4, <2>1 DEF Steps
    <2>3. ~\E j \in Steps : j > w.i /\ step[j] \notin {"EA", "CD"}
      BY <1>4, <2>1
    <2>4. /\ UNCHANGED step \/ step' = [step EXCEPT ![w.i] = "CR"]
          /\ UNCHANGED saga
      BY <1>11, <2>2, <2>3 DEF processCompensationCandidate
    <2>5. CASE step' = [step EXCEPT ![w.i] = "CR"]
      <3>1. isCompensationState(step'[w.i]) /\ \A i \in Steps : step'[i] = "CB" => step[i] = "CB"
        BY <1>1, <2>5 DEF isCompensationState, CompensationStates
      <3>2. walkOf' = "back"
        BY <1>1, <3>1 DEF walkOf
      <3> QED
        BY <1>4, <2>1, <2>4, <3>1, <3>2 DEF Keeps
    <2> QED
      BY <1>2, <2>4, <2>5
  <1>12. CASE processCompensationSucceeded
    <2> DEFINE next == [j \in Steps |-> IF j = w.i THEN "CD"
                                        ELSE IF j = w.i - 1 THEN "CC" ELSE step[j]]
    <2>1. w.pc = "process" /\ w.st = "CS"
      BY <1>12 DEF processCompensationSucceeded, Processing
    <2>2. w.i > 1 => step[w.i - 1] = "CP"
      BY <1>1, <1>4, <2>1 DEF Steps
    <2>3. w.i = 1 => \A j \in Steps : next[j] = IF j = 1 THEN "CD" ELSE step[j]
      BY <1>1 DEF Steps
    <2>4. w.i = 1 => \A j \in Steps : next[j] \in {"CD", "EA"}
      BY <1>1, <1>4, <2>1, <2>3 DEF Steps
    <2>5. w.i = 1 => \A i, j \in Steps : (i < j /\ next[i] = "EA") => next[j] = "EA"
      BY <1>1, <1>4, <2>1, <2>3 DEF Steps, BackwardShape
    <2>6. w.i = 1 => CompensatedPattern(next)
      <3>1. DOMAIN next = Steps
        OBVIOUS
      <3> HIDE DEF next
      <3> QED
        BY <1>1, <2>3, <2>4, <2>5, <3>1 DEF CompensatedPattern
    <2>7. /\ step' = next
          /\ saga' = IF w.i = 1 THEN "COMPENSATED" ELSE saga
      BY <1>12, <2>2, <2>6 DEF processCompensationSucceeded
    <2>8. isCompensationState(step'[w.i]) /\ \A i \in Steps : step'[i] = "CB" => step[i] = "CB"
      BY <1>1, <2>7 DEF isCompensationState, CompensationStates
    <2>9. walkOf' = "back"
      BY <1>1, <2>8 DEF walkOf
    <2> HIDE DEF next
    <2> QED
      BY <1>4, <2>1, <2>4, <2>7, <2>8, <2>9 DEF Keeps, Compensates
  <1>13. CASE processCompensationFailed
    <2>1. w.pc = "process" /\ w.st = "CF"
      BY <1>13 DEF processCompensationFailed, Processing
    <2>2. step'[w.i] = "CB" /\ saga' = "BLOCKED"
      BY <1>1, <1>13 DEF processCompensationFailed
    <2>3. isCompensationState(step'[w.i])
      BY <2>2 DEF isCompensationState, CompensationStates
    <2>4. walkOf' = "back"
      BY <1>1, <2>3 DEF walkOf
    <2> QED
      BY <1>1, <1>4, <2>1, <2>2, <2>4 DEF Blocks
  <1>14. CASE processDone \/ RecordSent
    BY <1>2, <1>14 DEF processDone, RecordSent
  <1>15. CASE processUnexpected
    <2>1. w.st \in {"CP", "CB"} /\ w.src = "imm"
      BY <1>15 DEF processUnexpected, OInv, RowInv, PassReads
    <2> QED
      BY <1>15, <2>1 DEF processUnexpected, MarkInvalid, GivesUp
  <1>16. CASE InitiateCompensation
    <2>1. saga = "COMPENSATION_REQUESTED" /\ \A j \in Steps : step[j] = "ED"
      BY <1>16 DEF InitiateCompensation, OInv, RowInv, PassReads, SagaInv
    <2>2. step' = [j \in Steps |-> IF j = N THEN "CC" ELSE "CP"] /\ saga' = "RUNNING"
      BY <1>16, <2>1 DEF InitiateCompensation
    <2>3. isCompensationState(step'[w.i])
      BY <1>1, <2>2 DEF isCompensationState, CompensationStates
    <2>4. walkOf' = "back"
      BY <1>1, <2>3 DEF walkOf
    <2>5. walkOf = "forward"
      BY <2>1 DEF walkOf, isCompensationState, CompensationStates
    <2>6. \A i \in Steps : step[i] # "CB" /\ step'[i] # "CB"
      BY <2>1, <2>2
    <2> QED
      BY <2>1, <2>2, <2>4, <2>5, <2>6 DEF Turns, NoneBlocked
  <1> QED
    BY <1>5, <1>6, <1>7, <1>8, <1>9, <1>10, <1>11, <1>12, <1>13, <1>14, <1>15, <1>16
    DEF Worker, processSagaStep

\* A pass that goes on has in memory what it has written.
LEMMA WorkerFresh ==
  ASSUME IInv, FreshInv, Worker
  PROVE  FreshInv'
  <1> USE DEF db, mq, env, budget
  <1>1. step \in [Steps -> StepStates] /\ w.i \in Steps /\ w \in Workers
    BY DEF IInv, TypeOK, Workers
  <1>2. CASE EndPass
    BY <1>2 DEF EndPass, IdleWorker, FreshInv
  <1>3. ASSUME NEW s, NEW log, FollowUp(s, log), step'[w.i] = s PROVE FreshInv'
    BY <1>1, <1>3 DEF FollowUp, Workers, FreshInv
  <1>4. ASSUME NEW pc, w.pc \in {"validate", "process"}, w' = [w EXCEPT !.pc = pc], UNCHANGED step
        PROVE  FreshInv'
    BY <1>1, <1>4 DEF Workers, FreshInv
  <1>5. CASE processCandidate
    BY <1>1, <1>2, <1>3, <1>5 DEF processCandidate
  <1>6. CASE processRunning \/ processCompensationRunning
    <2>1. w.pc = "process" /\ ~w.log.sent
      BY <1>6 DEF processRunning, processCompensationRunning, Processing, IInv, PassInv
    <2>2. EndPass \/ PublishRequest("exec") \/ PublishRequest("comp")
      BY <1>6, <2>1 DEF processRunning, processCompensationRunning, Processing
    <2>3. ASSUME NEW k \in Kinds, PublishRequest(k) PROVE FreshInv'
      BY <1>4, <2>1, <2>3 DEF PublishRequest
    <2> QED
      BY <1>2, <2>2, <2>3 DEF Kinds
  <1>7. CASE processFailed
    <2>1. CASE ~EndPass
      <3>1. /\ step' = [j \in Steps |->
                          IF j < w.i THEN "CP"
                          ELSE IF j = w.i THEN "CC"
                          ELSE IF step[j] = "EP" THEN "EA" ELSE step[j]]
            /\ FollowUp("CC", hist[w.i])
        BY <1>7, <2>1 DEF processFailed
      <3>2. step'[w.i] = "CC"
        BY <1>1, <3>1, NAssumption DEF Steps
      <3> QED
        BY <1>3, <3>1, <3>2
    <2> QED
      BY <1>2, <2>1
  <1>8. CASE processCompensationCandidate
    BY <1>1, <1>2, <1>3, <1>8 DEF processCompensationCandidate
  <1>9. CASE processCompensationSucceeded
    <2>1. CASE ~EndPass
      <3>1. step'[w.i] = "CD" /\ FollowUp("CD", hist[w.i])
        BY <1>1, <1>9, <2>1 DEF processCompensationSucceeded
      <3> QED
        BY <1>3, <3>1
    <2> QED
      BY <1>2, <2>1
  <1>10. CASE Validate
    BY <1>2, <1>4, <1>10 DEF Validate
  <1> QED
    BY <1>2, <1>5, <1>6, <1>7, <1>8, <1>9, <1>10 DEF Worker, processSagaStep, processSucceeded,
       processCompensationFailed, processDone, processUnexpected, RecordSent, InitiateCompensation

\* Steps that touch neither the rows nor the effects and add no message keep
\* the claims about messages.
LEMMA MailQuiet ==
  ASSUME MailInv, AskedInv, UndoneInv, UNCHANGED <<step, effect>>, requests' \subseteq requests,
         \A i \in Steps : Pending(i)' \subseteq Pending(i),
         \A i \in Steps : Sending(i, "comp")' => Sending(i, "comp")
  PROVE  MailInv' /\ AskedInv' /\ UndoneInv'
  <1>1. MailInv'
    BY DEF MailInv
  <1>2. AskedInv'
    BY DEF AskedInv
  <1>3. UndoneInv'
    BY DEF UndoneInv
  <1> QED
    BY <1>1, <1>2, <1>3

\* A pass keeps OnceInv.
LEMMA OnceWorker ==
  ASSUME IInv, IInv', OInv, OnceInv, Worker
  PROVE  OnceInv'
  <1>1. /\ UNCHANGED <<results, handler, effect, forced>>
        /\ \A i \in Steps : step'[i] = step[i] \/ <<step[i], step'[i]>> \in Moves
        /\ \A i \in Steps : Sending(i, "comp")' => step[i] = "CC"
        /\ \/ UNCHANGED requests
           \/ \E k \in Kinds : /\ Sending(w.i, k) /\ requests' = requests \cup {<<w.i, k>>}
                               /\ UNCHANGED step /\ w'.pc = "record"
    BY WorkerMoves
  <1>2. /\ \A i \in Steps : step[i] \in {"ER", "CR", "CB"} => step'[i] = step[i]
        /\ \A i \in Steps : step'[i] \in {"CS", "CD"} => step[i] \in {"CS", "CD"}
    BY <1>1 DEF Moves, WalkPairs
  <1>3. \A i \in Steps : Pending(i)' = Pending(i)
    BY <1>1 DEF Pending, Unacked
  <1>4. FreshInv'
    BY WorkerFresh DEF OnceInv
  <1>5. MailInv'
    BY <1>1, <1>2, <1>3 DEF OnceInv, MailInv
  <1>6. AskedInv'
    <2>1. \A i \in Steps : <<i, "comp">> \in requests' /\ <<i, "comp">> \notin requests =>
            Sending(i, "comp") /\ w'.pc = "record"
      BY <1>1 DEF Kinds
    <2>2. \A i \in Steps : Sending(i, "comp") => step[i] = "CR" /\ Pending(i) = {}
      <3>1. \A i \in Steps : Sending(i, "comp") => step[i] = "CR"
        BY DEF OnceInv, FreshInv, Sending
      <3>2. \A i \in Steps : Sending(i, "comp") => Pending(i) = {}
        BY <3>1 DEF OnceInv, MailInv
      <3> QED
        BY <3>1, <3>2
    <2>3. w'.pc = "record" => \A i \in Steps : ~Sending(i, "comp")'
      BY DEF Sending
    <2> QED
      BY <1>1, <1>2, <1>3, <2>1, <2>2, <2>3 DEF OnceInv, AskedInv
  <1>7. HandsInv' /\ UndoneInv'
    BY <1>1, <1>2 DEF OnceInv, HandsInv, UndoneInv
  <1>8. BlockInv'
    <2>1. Keeps \/ Turns \/ Commits \/ Compensates \/ Blocks \/ GivesUp
      BY WorkerOutcome DEF OnceInv
    <2>2. (\E i \in Steps : step[i] = "CB") => \E i \in Steps : step'[i] = "CB"
      BY <1>2
    <2>3. CASE Keeps
      BY <1>1, <2>2, <2>3 DEF Keeps, OnceInv, BlockInv
    <2>4. CASE Turns
      BY <1>1, <2>4 DEF Turns, NoneBlocked, Unresolved, OnceInv, BlockInv
    <2>5. CASE Commits
      BY <1>1, <2>2, <2>5 DEF Commits, OnceInv, BlockInv
    <2>6. CASE Compensates
      BY <1>1, <2>2, <2>6 DEF Compensates, OnceInv, BlockInv
    <2>7. CASE Blocks
      BY <2>7 DEF Blocks, BlockInv
    <2>8. CASE GivesUp
      BY <1>1, <2>8 DEF GivesUp, OnceInv, BlockInv
    <2> QED
      BY <2>1, <2>3, <2>4, <2>5, <2>6, <2>7, <2>8
  <1> QED
    BY <1>4, <1>5, <1>6, <1>7, <1>8 DEF OnceInv

\* A written result ends the request it answers and is gone.
LEMMA OnceResultWrite ==
  ASSUME IInv, OneConsumer, OnceInv, NEW h \in Handlers, ResultWrite(h)
  PROVE  OnceInv'
  <1> USE DEF env
  <1> DEFINE m == handler[h].m
             log == handler[h].log
             s == ResultState(log, m.status)
  <1>1. /\ handler[h].busy /\ m \in Results /\ m.i \in Steps /\ step \in [Steps -> StepStates]
        /\ handler \in [Handlers -> HandlerStates] /\ w.pc # "record" /\ w \in Workers
    BY DEF ResultWrite, IInv, TypeOK, HandlerStates, Results
  <1>2. \/ log.kind = "exec" /\ step[m.i] = "ER"
        \/ log.kind = "comp" /\ step[m.i] \in {"CR", "CB"}
    BY <1>1 DEF IInv, HandlerInv
  <1>3. log # NoLog /\ m \notin results /\ m.status # "busy"
    BY <1>1, <1>2 DEF NoLog, OnceInv, HandsInv
  <1>4. m \in Pending(m.i) /\ Conclusive(log, m.status)
    BY <1>1, <1>3 DEF Pending, Unacked, Conclusive
  <1>5. \/ m.kind = "exec" /\ step[m.i] = "ER"
        \/ m.kind = "comp" /\ step[m.i] = "CR" /\ ~Sending(m.i, "comp")
    BY <1>1, <1>4 DEF OnceInv, MailInv
  <1>6. \/ step[m.i] = "ER" /\ s \in {"ES", "EF"}
        \/ step[m.i] = "CR" /\ s \in {"CS", "CF"} /\ (s = "CS" => effect[m.i] = "undone")
    <2>1. step[m.i] = "ER" => s \in {"ES", "EF"}
      BY <1>2 DEF ResultState
    <2>2. step[m.i] = "CR" => s = IF m.status = "ok" THEN "CS" ELSE "CF"
      BY <1>2 DEF ResultState
    <2>3. m.kind = "comp" /\ m.status = "ok" => effect[m.i] = "undone"
      BY <1>1, <1>4 DEF OnceInv, MailInv
    <2> QED
      BY <1>5, <2>1, <2>2, <2>3
  <1>7. /\ UNCHANGED <<saga, effect, forced, requests, results, w>>
        /\ handler' = [handler EXCEPT ![h] = IdleHandler]
        /\ step' = [step EXCEPT ![m.i] = s]
    BY <1>3, <1>4 DEF ResultWrite, Release
  <1>8. \A n \in Pending(m.i) : n = m
    BY <1>1, <1>4 DEF OnceInv, MailInv
  <1> HIDE DEF m, s, log
  <1>9. step'[m.i] = s /\ \A i \in Steps : i # m.i => step'[i] = step[i]
    BY <1>1, <1>7
  <1>10. \A g \in Handlers : ~handler'[g].busy
    BY <1>1, <1>7 DEF OneConsumer, IdleHandler
  <1>11. /\ \A i \in Steps : i = m.i => Pending(i)' = {}
         /\ \A i \in Steps : Pending(i)' \subseteq Pending(i)
    <2>1. Unacked' = {} /\ results' = results
      BY <1>7, <1>10 DEF Unacked
    <2>2. \A i \in Steps : \A n \in Pending(i)' : n \in Pending(i) /\ n # m
      BY <1>3, <2>1 DEF Pending
    <2> QED
      BY <1>1, <1>8, <2>2
  <1>12. \A i \in Steps, k \in Kinds : Sending(i, k)' <=> Sending(i, k)
    BY <1>7 DEF Sending
  <1>13. FreshInv'
    <2>1. w.pc \in {"validate", "process"} => w.i # m.i
      <3>1. Traffic(m.i)
        BY <1>1 DEF Traffic, m
      <3>2. ~Sending(m.i, "exec")
        BY <1>1, <3>1 DEF IInv, TrafficInv
      <3> QED
        BY <1>5, <3>2 DEF OnceInv, FreshInv, IInv, PassInv, Sending
    <2>2. w.i \in Steps
      BY <1>1 DEF Workers
    <2> QED
      BY <1>1, <1>7, <1>9, <2>1, <2>2 DEF OnceInv, FreshInv
  <1>14. MailInv'
    BY <1>1, <1>7, <1>9, <1>11, <1>12 DEF OnceInv, MailInv, Kinds
  <1>15. AskedInv'
    BY <1>1, <1>4, <1>7, <1>9, <1>11, <1>12 DEF OnceInv, AskedInv, Kinds
  <1>16. HandsInv' /\ UndoneInv'
    BY <1>6, <1>7, <1>9, <1>10 DEF OnceInv, HandsInv, UndoneInv
  <1>17. BlockInv'
    BY <1>1, <1>6, <1>7, <1>9 DEF OnceInv, BlockInv
  <1> QED
    BY <1>13, <1>14, <1>15, <1>16, <1>17 DEF OnceInv

\* An executor's answer to a request is the only message about its step.
LEMMA OnceAnswer ==
  ASSUME IInv, OInv, OnceInv, NEW i \in Steps, NEW k \in Kinds, NEW status \in Statuses, NEW copy,
         <<i, k>> \in requests, Answer(i, k, status, copy),
         UNCHANGED <<saga, step, forced, w, handler>>,
         \/ status = "busy" /\ requests' \subseteq requests
         \/ requests' = requests \ {<<i, k>>},
         \/ UNCHANGED effect /\ (status = "ok" => k = "exec")
         \/ Done(i, k)
  PROVE  OnceInv'
  <1> DEFINE a == [i |-> i, kind |-> k, status |-> status, copy |-> copy]
  <1>1. /\ k = "exec" => step[i] = "ER"
        /\ k = "comp" => step[i] = "CR" /\ ~Sending(i, "comp")
        /\ Pending(i) = {}
    BY DEF OInv, TokenInv, RequestInv, OnceInv, AskedInv, Kinds
  <1>2. a.i = i /\ a.kind = k /\ a.status = status
    OBVIOUS
  <1>3. results' = results \cup {a}
    BY DEF Answer
  <1>4. /\ \A j \in Steps : j # i => Pending(j)' = Pending(j)
        /\ status = "busy" => Pending(i)' = Pending(i)
        /\ Pending(i)' \subseteq Pending(i) \cup {a}
    BY AnswerPending
  <1> HIDE DEF a
  <1>5. /\ effect \in [Steps -> {"none", "applied", "undone"}]
        /\ \A j \in Steps : j # i => effect'[j] = effect[j]
        /\ k = "comp" /\ status = "ok" => effect'[i] = "undone"
    BY DEF Done, IInv, TypeOK, Kinds
  <1>6. \A j \in Steps, l \in Kinds : Sending(j, l)' <=> Sending(j, l)
    BY DEF Sending
  <1>7. FreshInv' /\ BlockInv'
    BY DEF OnceInv, FreshInv, BlockInv
  <1>8. MailInv'
    BY <1>1, <1>2, <1>4, <1>5, <1>6 DEF OnceInv, MailInv, Kinds
  <1>9. AskedInv'
    <2>1. \A j \in Steps : <<j, "comp">> \in requests' => j # i \/ k = "exec" \/ status = "busy"
      BY DEF Kinds
    <2>2. \A j \in Steps : <<j, "comp">> \in requests' => <<j, "comp">> \in requests
      OBVIOUS
    <2> QED
      BY <1>1, <1>4, <1>6, <2>1, <2>2 DEF OnceInv, AskedInv, Kinds
  <1>10. HandsInv'
    <2>1. ASSUME NEW h \in Handlers, handler[h].busy PROVE handler[h].m # a
      <3>1. handler[h].m.status # "busy" /\ handler[h].m \in Unacked
        BY <2>1 DEF OnceInv, HandsInv, Unacked
      <3>2. handler[h].m.i = i => handler[h].m \in Pending(i)
        BY <3>1 DEF Pending
      <3> QED
        BY <1>1, <1>2, <3>2
    <2> QED
      BY <1>3, <2>1 DEF OnceInv, HandsInv
  <1>11. UndoneInv'
    BY <1>1, <1>5 DEF OnceInv, UndoneInv, Kinds
  <1> QED
    BY <1>7, <1>8, <1>9, <1>10, <1>11 DEF OnceInv

\* With one consumer and no redelivery, every step of the system preserves
\* OnceInv.
LEMMA OnceNext ==
  ASSUME IInv, IInv', OInv, OnceInv, OneConsumer, MaxDups = 0, [Next]_vars
  PROVE  OnceInv'
  <1> USE DEF db, run, mq, env, budget
  <1>0. /\ FreshInv /\ MailInv /\ AskedInv /\ HandsInv /\ UndoneInv /\ BlockInv
        /\ handler \in [Handlers -> HandlerStates] /\ ~(dups < MaxDups)
    BY DEF OnceInv, IInv, TypeOK
  <1>1. ASSUME UNCHANGED <<step, effect, requests, results, handler>>,
               \A i \in Steps : Sending(i, "comp")' => Sending(i, "comp"),
               FreshInv', BlockInv'
        PROVE  OnceInv'
    <2>1. \A i \in Steps : Pending(i)' = Pending(i)
      BY <1>1 DEF Pending, Unacked
    <2>2. MailInv' /\ AskedInv' /\ UndoneInv'
      BY <1>0, <1>1, <2>1, MailQuiet
    <2>3. HandsInv'
      BY <1>0, <1>1 DEF HandsInv
    <2> QED
      BY <1>1, <2>2, <2>3 DEF OnceInv
  <1>2. ASSUME UNCHANGED <<saga, step, effect, forced, w, requests, results, handler>> PROVE OnceInv'
    BY <1>0, <1>1, <1>2 DEF Sending, FreshInv, BlockInv
  <1>3. CASE UNCHANGED vars \/ PollQuery \/ LockExpires
    BY <1>2, <1>3 DEF vars, PollQuery, LockExpires
  <1>4. CASE Poll \/ Immediate
    <2>1. ASSUME NEW i \in Steps, NEW src, NEW skips, BeginPass(i, src, skips)
          PROVE  UNCHANGED w \/ (w'.pc \in {"initiate", "validate"} /\ w'.i = i /\ w'.st = step[i])
      BY <2>1 DEF BeginPass
    <2>2. UNCHANGED w \/ \E i \in Steps : w'.pc \in {"initiate", "validate"} /\ w'.i = i /\ w'.st = step[i]
      <3>1. \A t \in imm : t[1] \in Steps
        BY DEF IInv, TypeOK
      <3> QED
        BY <1>4, <2>1, <3>1 DEF Poll, PollBegin, PollGivesUp, Immediate, ImmediateBegin, ImmediateGivesUp
    <2>3. UNCHANGED <<saga, step, effect, forced, requests, results, handler>>
      BY <1>4 DEF Poll, PollBegin, PollGivesUp, Immediate, ImmediateBegin, ImmediateGivesUp
    <2>4. FreshInv' /\ BlockInv' /\ \A i \in Steps : Sending(i, "comp")' => Sending(i, "comp")
      BY <1>0, <2>2, <2>3 DEF FreshInv, BlockInv, Sending
    <2> QED
      BY <1>1, <2>3, <2>4
  <1>5. CASE Worker
    BY <1>5, OnceWorker
  <1>6. CASE Consumer
    <2>1. ASSUME NEW h \in Handlers, NEW m \in results, ResultRead(h, m) PROVE OnceInv'
      <3>1. \A i \in Steps : Pending(i)' \subseteq Pending(i)
        BY <2>1, TokenResultRead DEF OInv
      <3>2. UNCHANGED <<saga, step, effect, forced, w, requests>>
        BY <2>1 DEF ResultRead
      <3>3. MailInv' /\ AskedInv' /\ UndoneInv'
        BY <1>0, <3>1, <3>2, MailQuiet DEF Sending
      <3>4. HandsInv'
        BY <1>0, <2>1 DEF ResultRead, HandsInv, Ignored
      <3> QED
        BY <1>0, <3>2, <3>3, <3>4 DEF OnceInv, FreshInv, BlockInv
    <2> QED
      BY <1>6, <2>1, OnceResultWrite DEF Consumer
  <1>7. ASSUME NEW i \in Steps,
               \/ \E ok \in BOOLEAN : ChildAnswered(i, ok) \/ \E k \in Kinds : Execute(i, k, ok)
               \/ SpawnChild(i) \/ \E k \in Kinds : ExecutorDies(i, k)
        PROVE  OnceInv'
    <2>1. "exec" \in Kinds /\ {"ok", "fail", "busy"} \subseteq Statuses
      BY DEF Kinds, Statuses
    <2>2. ASSUME NEW ok \in BOOLEAN, ChildAnswered(i, ok) PROVE OnceInv'
      BY <2>1, <2>2, OnceAnswer DEF ChildAnswered
    <2>3. ASSUME NEW ok \in BOOLEAN, NEW k \in Kinds, Execute(i, k, ok) PROVE OnceInv'
      BY <2>1, <2>3, OnceAnswer DEF Execute, Synchronous, DoneOrNot
    <2>4. CASE SpawnChild(i)
      BY <2>1, <2>4, OnceAnswer DEF SpawnChild
    <2>5. ASSUME NEW k \in Kinds, ExecutorDies(i, k) PROVE OnceInv'
      BY <2>1, <2>5, OnceAnswer DEF ExecutorDies, Synchronous, DoneOrNot
    <2> QED
      BY <1>7, <2>2, <2>3, <2>4, <2>5
  <1>8. CASE Executor
    BY <1>2, <1>7, <1>8 DEF Executor, ChildMoves
  <1>9. CASE Failure
    <2>1. CASE ValidateReadFails \/ PassFails
      <3>1. /\ UNCHANGED <<step, effect, forced, requests, results, handler>>
            /\ w'.pc = "idle" /\ saga' \in {saga, "INVALID_STATE"}
        BY <2>1 DEF ValidateReadFails, PassFails, EndPass, IdleWorker, MarkInvalid
      <3>2. FreshInv' /\ BlockInv' /\ \A i \in Steps : ~Sending(i, "comp")'
        BY <1>0, <3>1 DEF FreshInv, BlockInv, Sending
      <3> QED
        BY <1>1, <3>1, <3>2
    <2>2. CASE MutexLeft
      BY <1>2, <2>2 DEF MutexLeft
    <2>3. CASE \/ Crash \/ \E h \in Handlers : ResultFails(h)
               \/ \E i \in Steps : DetachedLost(i)
      <3>1. /\ UNCHANGED <<step, effect>> /\ requests' \subseteq requests
            /\ \A i \in Steps : Pending(i)' \subseteq Pending(i)
            /\ \A i \in Steps : Sending(i, "comp")' => Sending(i, "comp")
        BY <2>3, RequeueMessages DEF Kinds
      <3>2. UNCHANGED <<saga, forced>> /\ (UNCHANGED w \/ w'.pc = "idle")
        <4>1. CASE Crash
          BY <4>1 DEF Crash, IdleWorker
        <4>2. CASE \E h \in Handlers : ResultFails(h)
          BY <4>2 DEF ResultFails
        <4>3. CASE \E i \in Steps : DetachedLost(i)
          BY <4>3 DEF DetachedLost
        <4> QED
          BY <2>3, <4>1, <4>2, <4>3
      <3>3. HandsInv'
        <4>1. CASE Crash
          BY <4>1 DEF Crash, HandsInv, IdleHandler
        <4>2. ASSUME NEW h \in Handlers, ResultFails(h) PROVE HandsInv'
          <5>1. \A g \in Handlers : ~handler'[g].busy
            BY <1>0, <4>2 DEF ResultFails, Release, OneConsumer, IdleHandler
          <5> QED
            BY <5>1 DEF HandsInv
        <4>3. CASE \E i \in Steps : DetachedLost(i)
          BY <1>0, <4>3 DEF DetachedLost, HandsInv
        <4> QED
          BY <2>3, <4>1, <4>2, <4>3
      <3>4. FreshInv' /\ BlockInv'
        BY <1>0, <3>1, <3>2 DEF FreshInv, BlockInv
      <3> QED
        BY <1>0, <3>1, <3>3, <3>4, MailQuiet DEF OnceInv
    <2> QED
      BY <1>7, <1>9, <2>1, <2>2, <2>3 DEF Failure
  <1>10. CASE Operator
    <2>1. UNCHANGED <<step, effect, w, requests, results, handler>>
      BY <1>10 DEF Operator, RequestCompensation, ForceMarkSagaCompensated
    <2>2. BlockInv'
      <3>1. CASE RequestCompensation
        BY <1>0, <3>1 DEF RequestCompensation, TriggerSagaCompensation, BlockInv, OInv, RowInv, SagaInv
      <3>2. CASE ForceMarkSagaCompensated
        BY <1>0, <3>2 DEF ForceMarkSagaCompensated, BlockInv
      <3> QED
        BY <1>10, <3>1, <3>2 DEF Operator
    <2> QED
      BY <1>0, <1>1, <2>1, <2>2 DEF FreshInv, Sending
  <1>11. CASE Redelivery
    BY <1>0, <1>11 DEF Redelivery, Duplicate, InFlight
  <1> QED
    BY <1>3, <1>4, <1>5, <1>6, <1>8, <1>9, <1>10, <1>11 DEF Next

\* With one consumer and no redelivery, OnceInv holds in every reachable state.
THEOREM OnceInvariant ==
  ASSUME OneConsumer, MaxDups = 0
  PROVE  Spec => [](IInv /\ OInv /\ OnceInv)
  <1>1. Init => OnceInv
    BY DEF Init, OnceInv, FreshInv, MailInv, AskedInv, HandsInv, UndoneInv, BlockInv, Pending,
       Unacked, IdleWorker, IdleHandler
  <1>2. IInv /\ IInv' /\ OInv /\ OnceInv /\ [Next]_vars => OnceInv'
    BY OnceNext
  <1> QED
    BY <1>1, <1>2, OutcomeInvariant, PTL DEF Spec

\* Without redelivery, effects are undone in the reverse of the order they
\* were applied in: results, passes and crashes never let an earlier step be
\* undone while a later one is in place.
THEOREM ReverseOrder ==
  ASSUME OneConsumer, MaxDups = 0
  PROVE  Spec => []UndoneInReverse
  <1>1. ASSUME IInv, OInv, OnceInv PROVE UndoneInReverse
    <2> SUFFICES ASSUME NEW i \in Steps, NEW j \in Steps, i < j, effect[i] = "undone"
                 PROVE  effect[j] # "applied"
      BY DEF UndoneInReverse
    <2>1. step[i] \in StepStates
      BY <1>1 DEF IInv, TypeOK
    <2>2. step[i] \in {"CR", "CS", "CF", "CB", "CD", "EB"}
      BY <1>1, <2>1 DEF OInv, TokenInv, EffectInv, Untouched, StepStates, ExecutionStates,
         CompensationStates
    <2>3. step[i] # "EB"
      BY <1>1, ShapeExclusive DEF IInv
    <2>4. BackwardShape
      BY <1>1, <2>2, <2>3, ShapeExclusive DEF IInv, CompensationStates
    <2>5. step[j] \in {"CD", "EA"}
      BY <2>2, <2>3, <2>4 DEF BackwardShape
    <2> QED
      BY <1>1, <2>5 DEF OInv, TokenInv, EffectInv, Untouched, OnceInv, UndoneInv
  <1>2. IInv /\ OInv /\ OnceInv => UndoneInReverse
    BY <1>1
  <1> QED
    BY <1>2, OnceInvariant, PTL

\* Without redelivery, a saga the coordinator reports COMPENSATED has no
\* effect left behind.
THEOREM CompensationIsTrue ==
  ASSUME OneConsumer, MaxDups = 0
  PROVE  Spec => []CompensatedMeansUndone
  <1>1. OInv /\ OnceInv => CompensatedMeansUndone
    BY DEF OInv, RowInv, SagaInv, TokenInv, EffectInv, Untouched, OnceInv, UndoneInv,
       CompensatedMeansUndone
  <1> QED
    BY <1>1, OnceInvariant, PTL

\* Without redelivery, BLOCKED means that a step is blocked, and a blocked
\* step never sits in a saga that still counts as running.
THEOREM BlockIsReported ==
  ASSUME OneConsumer, MaxDups = 0
  PROVE  Spec => []BlockedIsReported
  <1>1. OnceInv => BlockedIsReported
    BY DEF OnceInv, BlockInv, BlockedIsReported
  <1> QED
    BY <1>1, OnceInvariant, PTL

\* How a saga may become INVALID in one step.
InvalidStep ==
  saga' = "INVALID_STATE" /\ saga # "INVALID_STATE" =>
    \/ w.pc = "validate" /\ faults' # faults
    \/ w.pc = "process" /\ w.src = "imm" /\ w.st \in {"CP", "CB"}

\* Everything but a pass and the failure of its validation leaves a saga
\* valid.
LEMMA NextInvalid ==
  ASSUME IInv, IInv', OInv, OnceInv, [Next]_vars
  PROVE  InvalidStep
  <1> USE DEF db, run, mq, env, budget
  <1> SUFFICES ASSUME saga' = "INVALID_STATE", saga # "INVALID_STATE"
               PROVE  \/ w.pc = "validate" /\ faults' # faults
                      \/ w.pc = "process" /\ w.src = "imm" /\ w.st \in {"CP", "CB"}
    BY DEF InvalidStep
  <1>1. CASE Worker
    BY <1>1, WorkerOutcome DEF OnceInv, Keeps, Turns, Commits, Compensates, Blocks, GivesUp, Unresolved
  <1>2. CASE Consumer
    <2>1. ASSUME NEW h \in Handlers, ResultWrite(h) PROVE UNCHANGED saga
      <3>1. handler[h].log.kind \in {"exec", "comp"}
        BY <2>1 DEF ResultWrite, IInv, HandlerInv
      <3> QED
        BY <2>1, <3>1 DEF ResultWrite, NoLog
    <2> QED
      BY <1>2, <2>1 DEF Consumer, ResultRead
  <1>3. CASE Failure
    <2>1. faults \in Nat
      BY BoundsAssumption DEF IInv, TypeOK
    <2>2. CASE ValidateReadFails
      BY <2>1, <2>2 DEF ValidateReadFails, Fault
    <2> QED
      BY <1>3, <2>2 DEF Failure, PassFails, MutexLeft, Crash, ResultFails, ExecutorDies, DetachedLost
  <1>4. CASE Operator
    BY <1>4 DEF Operator, RequestCompensation, ForceMarkSagaCompensated, TriggerSagaCompensation
  <1>5. CASE UNCHANGED vars \/ PollQuery \/ Poll \/ Immediate \/ LockExpires
    BY <1>5 DEF vars, PollQuery, Poll, PollBegin, PollGivesUp, Immediate, ImmediateBegin,
       ImmediateGivesUp, LockExpires
  <1>6. CASE Executor
    BY <1>6 DEF Executor, Execute, ChildAnswered, SpawnChild, ChildMoves
  <1>7. CASE Redelivery
    BY <1>7 DEF Redelivery, Duplicate, InFlight
  <1> QED
    BY <1>1, <1>2, <1>3, <1>4, <1>5, <1>6, <1>7 DEF Next

\* Without redelivery, none of the consistency checks of a pass ever fires: a
\* saga becomes INVALID only because the list in isSagaStateValid failed or
\* because a late goroutine found its step PENDING or BLOCKED.
THEOREM ChecksNeverFire ==
  ASSUME OneConsumer, MaxDups = 0
  PROVE  Spec => InvalidOnlyByLateTrigger
  <1>1. (IInv /\ OInv /\ OnceInv) /\ (IInv /\ OInv /\ OnceInv)' /\ [Next]_vars => [InvalidStep]_vars
    BY NextInvalid
  <1> QED
    BY <1>1, OnceInvariant, PTL DEF Spec, InvalidOnlyByLateTrigger, InvalidStep

-----------------------------------------------------------------------------
(* The coordinator implements the contract.                                *)

\* One step of the contract, or none.
ContractStep == [Contract!Next]_(Contract!vars)

\* Steps that leave the saga row, the effects and the direction of the walk
\* alone are not seen by the contract.
LEMMA ContractQuiet ==
  ASSUME UNCHANGED <<saga, effect, forced>>, walkOf' = walkOf
  PROVE  ContractStep
  BY DEF ContractStep, Contract!vars

\* The direction of the walk depends on the step rows alone.
LEMMA WalkQuiet ==
  ASSUME \A i \in Steps : isCompensationState(step'[i]) <=> isCompensationState(step[i])
  PROVE  walkOf' = walkOf
  BY DEF walkOf

\* Giving up a saga that has a step to work on is a step of the contract.
LEMMA ContractInvalidate ==
  ASSUME IInv, OInv, FreshInv, w.pc \in {"validate", "process"}, w.st # "CD",
         saga' = "INVALID_STATE", UNCHANGED <<step, effect, forced>>
  PROVE  ContractStep
  <1>1. w.i \in Steps /\ step[w.i] = w.st /\ w.st \notin {"ED", "EA", "CD"} /\ saga \in SagaStates
    BY DEF IInv, TypeOK, Workers, FreshInv, OInv, RowInv, PassReads
  <1>2. walkOf' = walkOf
    BY WalkQuiet
  <1>3. saga \notin {"COMMITTED", "COMPENSATION_REQUESTED"} /\ (saga = "COMPENSATED" => forced)
    BY <1>1 DEF OInv, RowInv, SagaInv
  <1>4. saga \in {"BLOCKED", "COMPENSATED"} => walkOf = "back"
    <2>1. saga \in {"BLOCKED", "COMPENSATED"} => isCompensationState(step[w.i])
      BY <1>1 DEF OInv, RowInv, SagaInv, Backward, isCompensationState
    <2> QED
      BY <1>1, <2>1 DEF walkOf
  <1>5. CASE saga = "INVALID_STATE"
    BY <1>2, <1>5, ContractQuiet
  <1>6. CASE saga # "INVALID_STATE"
    <2>1. Contract!Invalidate
      BY <1>1, <1>2, <1>3, <1>4, <1>6 DEF Contract!Invalidate, SagaStates
    <2> QED
      BY <2>1 DEF ContractStep, Contract!Next
  <1> QED
    BY <1>5, <1>6

\* What a pass does is a step of the contract.
LEMMA ContractWorker ==
  ASSUME IInv, IInv', OInv, OInv', OnceInv, OnceInv', Worker
  PROVE  ContractStep
  <1>1. Keeps \/ Turns \/ Commits \/ Compensates \/ Blocks \/ GivesUp
    BY WorkerOutcome DEF OnceInv
  <1>2. UNCHANGED <<effect, forced>>
    BY WorkerMoves
  <1>3. CASE Keeps
    BY <1>2, <1>3, ContractQuiet DEF Keeps
  <1>4. CASE Turns
    BY <1>2, <1>4 DEF Turns, Unresolved, ContractStep, Contract!Next, Contract!TurnBack
  <1>5. CASE Commits
    <2>1. \A i \in Steps : effect[i] = "applied"
      BY <1>2, <1>5 DEF Commits, OInv, TokenInv, EffectInv
    <2>2. Contract!Commit
      BY <1>2, <1>5, <2>1 DEF Commits, Unresolved, Contract!Commit, Contract!Steps, Steps
    <2> QED
      BY <2>2 DEF ContractStep, Contract!Next
  <1>6. CASE Compensates
    <2>1. \A i \in Steps : effect[i] # "applied"
      BY <1>2, <1>6 DEF Compensates, OInv, TokenInv, EffectInv, Untouched, OnceInv, UndoneInv
    <2>2. Contract!Compensated
      BY <1>2, <1>6, <2>1 DEF Compensates, Unresolved, Contract!Compensated, Contract!Steps, Steps
    <2> QED
      BY <2>2 DEF ContractStep, Contract!Next
  <1>7. CASE Blocks
    BY <1>2, <1>7 DEF Blocks, Unresolved, ContractStep, Contract!Next, Contract!Block
  <1>8. CASE GivesUp
    BY <1>2, <1>8, ContractInvalidate DEF GivesUp, OnceInv
  <1> QED
    BY <1>1, <1>3, <1>4, <1>5, <1>6, <1>7, <1>8

\* An executor that does what a request asks for applies the effect of the
\* step the walk is at, or undoes it, in the contract's order.
LEMMA ContractDone ==
  ASSUME IInv, OInv, OnceInv, NEW i \in Steps, NEW k \in Kinds, <<i, k>> \in requests,
         Done(i, k), UNCHANGED <<saga, step, forced>>
  PROVE  ContractStep
  <1>1. walkOf' = walkOf /\ TypeOK
    BY WalkQuiet DEF IInv
  <1>2. CASE k = "exec"
    <2>1. step[i] = "ER" /\ effect[i] = "none"
      BY <1>2 DEF OInv, TokenInv, RequestInv
    <2>2. /\ ForwardShape
          /\ \A j \in Steps : (j < i => step[j] = "ED") /\ (j > i => step[j] = "EP")
      BY <2>1, AroundForward
    <2>3. \A j \in Steps : effect[j] = IF j < i THEN "applied" ELSE "none"
      <3>1. \A j \in Steps : j < i \/ j > i \/ j = i
        BY DEF Steps
      <3>2. \A j \in Steps : (j < i => effect[j] = "applied") /\ (j > i => effect[j] = "none")
        BY <2>2 DEF OInv, TokenInv, EffectInv, Untouched
      <3> QED
        BY <2>1, <3>1, <3>2
    <2>4. Contract!Apply(i)
      BY <1>1, <1>2, <2>2, <2>3, WalkOfShape DEF Done, Contract!Apply, Contract!Steps, Steps
    <2> QED
      BY <2>4 DEF ContractStep, Contract!Next, Contract!Steps, Steps
  <1>3. CASE k = "comp"
    <2>1. step[i] = "CR"
      BY <1>3 DEF OnceInv, AskedInv
    <2>2. /\ BackwardShape
          /\ \A j \in Steps : (j < i => step[j] = "CP") /\ (j > i => step[j] \in {"CD", "EA"})
      BY <2>1, AroundBackward
    <2>3. \A j \in Steps : (j > i => effect[j] # "applied") /\ (j < i => effect[j] = "applied")
      BY <2>2 DEF OInv, TokenInv, EffectInv, Untouched, OnceInv, UndoneInv
    <2>4. Contract!Undo(i)
      BY <1>1, <1>3, <2>2, <2>3, WalkOfShape DEF Done, Contract!Undo, Contract!Steps, Steps
    <2> QED
      BY <2>4 DEF ContractStep, Contract!Next, Contract!Steps, Steps
  <1> QED
    BY <1>2, <1>3 DEF Kinds

\* With one consumer and no redelivery, every step of the system is a step of
\* the contract or leaves its state alone.
LEMMA NextContract ==
  ASSUME IInv, IInv', OInv, OInv', OnceInv, OnceInv', [Next]_vars
  PROVE  ContractStep
  <1> USE DEF db, run, mq, env, budget
  <1>1. ASSUME UNCHANGED <<saga, step, effect, forced>> PROVE ContractStep
    BY <1>1, ContractQuiet, WalkQuiet
  <1>2. CASE UNCHANGED vars \/ PollQuery \/ Poll \/ Immediate \/ LockExpires
    BY <1>1, <1>2 DEF vars, PollQuery, Poll, PollBegin, PollGivesUp, Immediate, ImmediateBegin,
       ImmediateGivesUp, LockExpires
  <1>3. CASE Worker
    BY <1>3, ContractWorker
  <1>4. CASE Consumer
    <2>1. ASSUME NEW h \in Handlers, ResultWrite(h) PROVE ContractStep
      <3> DEFINE m == handler[h].m
                 s == ResultState(handler[h].log, m.status)
      <3>1. handler[h].busy /\ m.i \in Steps /\ step \in [Steps -> StepStates]
        BY <2>1 DEF ResultWrite, IInv, TypeOK, HandlerStates, Results
      <3>2. \/ handler[h].log.kind = "exec" /\ step[m.i] = "ER"
            \/ handler[h].log.kind = "comp" /\ step[m.i] \in {"CR", "CB"}
        BY <3>1 DEF IInv, HandlerInv
      <3>3. handler[h].log # NoLog
        BY <3>2 DEF NoLog
      <3>4. /\ UNCHANGED <<saga, effect, forced>>
            /\ UNCHANGED step \/ step' = [step EXCEPT ![m.i] = s]
        BY <2>1, <3>3 DEF ResultWrite
      <3>5. isCompensationState(s) <=> isCompensationState(step[m.i])
        BY <3>2 DEF ResultState, isCompensationState, CompensationStates
      <3> HIDE DEF m, s
      <3>6. walkOf' = walkOf
        BY <3>1, <3>4, <3>5, WalkQuiet
      <3> QED
        BY <3>4, <3>6, ContractQuiet
    <2>2. ASSUME NEW h \in Handlers, NEW m \in results, ResultRead(h, m) PROVE ContractStep
      BY <1>1, <2>2 DEF ResultRead
    <2> QED
      BY <1>4, <2>1, <2>2 DEF Consumer
  <1>5. ASSUME NEW i \in Steps, NEW k \in Kinds, ExecutorDies(i, k) PROVE ContractStep
    BY <1>1, <1>5, ContractDone DEF ExecutorDies, Synchronous, DoneOrNot
  <1>6. CASE Executor
    <2>1. ASSUME NEW i \in Steps, NEW ok \in BOOLEAN, NEW k \in Kinds, Execute(i, k, ok)
          PROVE  ContractStep
      BY <1>1, <2>1, ContractDone DEF Execute, Synchronous, DoneOrNot
    <2>2. ASSUME NEW i \in Steps, NEW ok \in BOOLEAN, ChildAnswered(i, ok) PROVE ContractStep
      BY <1>1, <2>2, ContractDone DEF ChildAnswered, Kinds
    <2>3. ASSUME NEW i \in Steps, SpawnChild(i) \/ ChildMoves(i) PROVE ContractStep
      BY <1>1, <2>3 DEF SpawnChild, ChildMoves
    <2> QED
      BY <1>6, <2>1, <2>2, <2>3 DEF Executor
  <1>7. CASE Failure
    <2>1. CASE ValidateReadFails
      <3>1. w.pc = "validate" /\ saga' = "INVALID_STATE" /\ UNCHANGED <<step, effect, forced>>
        BY <2>1 DEF ValidateReadFails, MarkInvalid
      <3>2. w.st # "CD"
        BY <3>1 DEF OInv, RowInv, PassReads
      <3> QED
        BY <3>1, <3>2, ContractInvalidate DEF OnceInv
    <2>2. CASE PassFails \/ MutexLeft \/ Crash \/ (\E h \in Handlers : ResultFails(h))
               \/ \E i \in Steps : DetachedLost(i)
      BY <1>1, <2>2 DEF PassFails, MutexLeft, Crash, ResultFails, DetachedLost
    <2> QED
      BY <1>5, <1>7, <2>1, <2>2 DEF Failure
  <1>8. CASE Operator
    <2>1. UNCHANGED <<step, effect>>
      BY <1>8 DEF Operator, RequestCompensation, ForceMarkSagaCompensated
    <2>2. walkOf' = walkOf
      BY <2>1, WalkQuiet
    <2>3. CASE RequestCompensation
      BY <2>1, <2>2, <2>3 DEF RequestCompensation, TriggerSagaCompensation, ContractStep,
         Contract!Next, Contract!Request
    <2>4. CASE ForceMarkSagaCompensated
      BY <2>1, <2>2, <2>4 DEF ForceMarkSagaCompensated, ContractStep, Contract!Next,
         Contract!ForceCompensated
    <2> QED
      BY <1>8, <2>3, <2>4 DEF Operator
  <1>9. CASE Redelivery
    BY <1>1, <1>9 DEF Redelivery, Duplicate, InFlight
  <1> QED
    BY <1>2, <1>3, <1>4, <1>6, <1>7, <1>8, <1>9 DEF Next

\* With one consumer and no redelivery, the coordinator, its executors and the
\* operator implement the contract of a saga: effects are applied in order,
\* undone in reverse once the walk has turned, and the outcome agrees with
\* them.
THEOREM ImplementsContract ==
  ASSUME OneConsumer, MaxDups = 0
  PROVE  Spec => ContractSpec
  <1>1. Init => Contract!Init
    <2>1. Init => walkOf = "forward"
      BY DEF Init, walkOf, isCompensationState, CompensationStates
    <2> QED
      BY <2>1 DEF Init, Contract!Init, Contract!Steps, Steps
  <1>2. /\ IInv /\ OInv /\ OnceInv
        /\ (IInv /\ OInv /\ OnceInv)' /\ [Next]_vars
        => [Contract!Next]_(Contract!vars)
    BY NextContract DEF ContractStep
  <1> QED
    BY <1>1, <1>2, OnceInvariant, PTL DEF Spec, ContractSpec, Contract!Spec

-----------------------------------------------------------------------------
(* A client that waits for the saga.                                       *)

\* A walk that has turned round does not turn again.
LEMMA BackwardStays ==
  ASSUME IInv, IInv', Backward, [Next]_vars
  PROVE  Backward'
  <1> USE DEF db, run, mq, env, budget
  <1>1. /\ 1 \in Steps /\ TypeOK /\ TypeOK' /\ Shape' /\ step \in [Steps -> StepStates]
        /\ step[1] \in CompensationStates \cup {"EA"}
    BY OneStep DEF IInv, TypeOK, Backward
  <1>2. CASE UNCHANGED step
    BY <1>2 DEF Backward
  <1>3. ASSUME step'[1] \in CompensationStates \cup {"EA"} PROVE Backward'
    <2>1. ~ForwardShape'
      BY <1>1, <1>3 DEF ForwardShape, CompensationStates
    <2> QED
      BY <1>1, <2>1 DEF Shape, BackwardShape, Backward
  <1>4. CASE Worker
    <2>1. step'[1] = step[1] \/ <<step[1], step'[1]>> \in Moves
      BY <1>1, <1>4, WorkerMoves
    <2>2. step'[1] \in CompensationStates \cup {"EA"}
      BY <1>1, <2>1 DEF Moves, WalkPairs, CompensationStates
    <2> QED
      BY <1>3, <2>2
  <1>5. ASSUME NEW h \in Handlers, ResultWrite(h) PROVE Backward'
    <2>1. handler[h].busy /\ handler[h].m.i \in Steps
      BY <1>5 DEF ResultWrite, IInv, TypeOK, HandlerStates, Results
    <2>2. \/ handler[h].log.kind = "exec" /\ step[handler[h].m.i] = "ER"
          \/ handler[h].log.kind = "comp"
      BY <2>1 DEF IInv, HandlerInv
    <2>3. handler[h].log.kind = "comp"
      BY <2>1, <2>2 DEF Backward, CompensationStates
    <2>4. ResultState(handler[h].log, handler[h].m.status) \in {"CS", "CF"}
      BY <2>3 DEF ResultState
    <2>5. \/ UNCHANGED step
          \/ step' = [step EXCEPT ![handler[h].m.i] = ResultState(handler[h].log, handler[h].m.status)]
      BY <1>5, <2>3 DEF ResultWrite, NoLog
    <2>6. step'[1] \in CompensationStates \cup {"EA"}
      BY <1>1, <2>1, <2>4, <2>5 DEF CompensationStates
    <2> QED
      BY <1>3, <2>6
  <1>6. CASE Consumer
    BY <1>2, <1>5, <1>6 DEF Consumer, ResultRead
  <1>7. CASE UNCHANGED vars \/ PollQuery \/ Poll \/ Immediate \/ LockExpires \/ Operator
    BY <1>2, <1>7 DEF vars, PollQuery, Poll, PollBegin, PollGivesUp, Immediate, ImmediateBegin,
       ImmediateGivesUp, LockExpires, Operator, RequestCompensation, ForceMarkSagaCompensated
  <1>8. CASE Executor \/ Redelivery
    BY <1>2, <1>8 DEF Executor, Execute, ChildAnswered, SpawnChild, ChildMoves, Redelivery,
       Duplicate, InFlight
  <1>9. CASE Failure
    BY <1>2, <1>9 DEF Failure, ValidateReadFails, PassFails, MutexLeft, Crash,
       ResultFails, ExecutorDies, DetachedLost, MarkInvalid
  <1> QED
    BY <1>4, <1>6, <1>7, <1>8, <1>9 DEF Next

\* Every step row is done.
AllDone == \A i \in Steps : step[i] = "ED"

\* A saga that is done stays done or turns round as a whole.
LEMMA DoneStays ==
  ASSUME IInv, IInv', AllDone \/ Backward, [Next]_vars
  PROVE  (AllDone \/ Backward)'
  <1>1. CASE Backward
    BY <1>1, BackwardStays
  <1>2. CASE AllDone
    <2>1. \A i \in Steps : step'[i] \in {"ED", "CP", "CC"}
      BY <1>2, NextNoRegress DEF AllDone, NoRegressStep
    <2>2. CASE ForwardShape'
      BY <2>1, <2>2 DEF ForwardShape, AllDone
    <2>3. CASE BackwardShape'
      BY <2>3 DEF BackwardShape, Backward
    <2> QED
      BY <2>2, <2>3 DEF IInv, Shape
  <1> QED
    BY <1>1, <1>2

\* What a client was told, against the saga as it is by now.
ClientInv ==
  /\ client \in Clients
  /\ client.pc = "polling" => ~client.listed /\ client.report = "none"
  /\ client.pc = "listing" => ~client.listed
  /\ client.pc = "listing" /\ client.report = "COMMITTED" => AllDone \/ Backward
  /\ client.report = "COMPENSATED" /\ ~forced => saga = "COMPENSATED"
  /\ client.listed =>
       /\ client.report = "COMMITTED" => client.outs = Steps \/ (client.outs = {} /\ Backward)
       /\ client.report = "COMPENSATED" /\ ~forced => client.outs = {i \in Steps : step[i] = "CD"}

\* Once force-marked, always force-marked; and only a BLOCKED saga is.
LEMMA ForcedStays ==
  ASSUME IInv, [Next]_vars
  PROVE  forced => forced'
  <1> USE DEF db, run, mq, env, budget
  <1>1. CASE UNCHANGED forced
    BY <1>1
  <1>2. CASE Worker
    BY <1>2, WorkerMoves
  <1>3. CASE Consumer
    BY <1>1, <1>3 DEF Consumer, ResultRead, ResultWrite
  <1>4. CASE UNCHANGED vars \/ PollQuery \/ Poll \/ Immediate \/ LockExpires
    BY <1>1, <1>4 DEF vars, PollQuery, Poll, PollBegin, PollGivesUp, Immediate, ImmediateBegin,
       ImmediateGivesUp, LockExpires
  <1>5. CASE Operator
    BY <1>1, <1>5 DEF Operator, RequestCompensation, ForceMarkSagaCompensated
  <1>6. CASE Executor \/ Redelivery
    BY <1>1, <1>6 DEF Executor, Execute, ChildAnswered, SpawnChild, ChildMoves, Redelivery,
       Duplicate, InFlight
  <1>7. CASE Failure
    BY <1>1, <1>7 DEF Failure, ValidateReadFails, PassFails, MutexLeft, Crash,
       ResultFails, ExecutorDies, DetachedLost
  <1> QED
    BY <1>2, <1>3, <1>4, <1>5, <1>6, <1>7 DEF Next

\* The coordinator goes on and the client waits.
LEMMA ClientWaits ==
  ASSUME IInv, IInv', OInv, ClientInv, [Next]_vars, UNCHANGED client
  PROVE  ClientInv'
  <1>1. (AllDone \/ Backward) => (AllDone \/ Backward)'
    BY DoneStays
  <1>2. Backward => Backward'
    BY BackwardStays
  <1>3. forced => forced'
    BY ForcedStays
  <1>4. saga = "COMPENSATED" /\ ~forced => saga' = "COMPENSATED"
    BY NextFinal DEF FinalStep
  <1>5. ASSUME client.report = "COMPENSATED", ~forced
        PROVE  {i \in Steps : step'[i] = "CD"} = {i \in Steps : step[i] = "CD"}
    <2>1. \A i \in Steps : step[i] \in {"CD", "EA"}
      BY <1>5 DEF ClientInv, OInv, RowInv, SagaInv
    <2>2. \A i \in Steps : step'[i] = step[i]
      BY <2>1, NextNoRegress DEF NoRegressStep
    <2> QED
      BY <2>2
  <1>6. client.report = "COMPENSATED" /\ ~forced' => saga' = "COMPENSATED"
    BY <1>3, <1>4 DEF ClientInv
  <1>7. client.listed /\ client.report = "COMMITTED" =>
          client.outs = Steps \/ (client.outs = {} /\ Backward')
    BY <1>2 DEF ClientInv
  <1>8. client.listed /\ client.report = "COMPENSATED" /\ ~forced' =>
          client.outs = {i \in Steps : step'[i] = "CD"}
    BY <1>3, <1>5 DEF ClientInv
  <1> QED
    BY <1>1, <1>6, <1>7, <1>8 DEF ClientInv

\* The client asks or is told.
LEMMA ClientMoves ==
  ASSUME IInv, OInv, ClientInv, ClientNext
  PROVE  ClientInv'
  <1> USE DEF vars, db, run, mq, env, budget
  <1>1. UNCHANGED <<saga, step, forced>> /\ client \in Clients /\ saga \in SagaStates
    BY DEF ClientNext, WaitForSagaCompletion, pollForCompletion, Watch, postSagaInstance,
       postSagaStepInstances, ListFails, TimesOut, ClientInv, IInv, TypeOK
  <1>2. (Backward' <=> Backward) /\ (AllDone' <=> AllDone)
    BY <1>1 DEF Backward, AllDone
  <1>3. ASSUME NEW kind \in Waiters, postSagaInstance(kind) PROVE ClientInv'
    <2>1. client.pc = "polling" /\ ~client.listed
      BY <1>3 DEF postSagaInstance, ClientInv
    <2>2. /\ client'.report = saga /\ client'.pc \in {"listing", "done"}
          /\ client'.listed = client.listed /\ client' \in Clients
      BY <1>1, <1>3 DEF postSagaInstance, Clients
    <2>3. saga = "COMMITTED" => AllDone
      BY DEF OInv, RowInv, SagaInv, AllDone
    <2> QED
      BY <1>1, <1>2, <2>1, <2>2, <2>3 DEF ClientInv
  <1>4. CASE postSagaStepInstances
    <2>1. /\ client'.pc = "done" /\ client'.listed /\ client'.report = client.report
          /\ client'.outs = extractOutputsFromSteps(client.report) /\ client.pc = "listing"
      BY <1>1, <1>4 DEF postSagaStepInstances, Clients
    <2>2. client' \in Clients
      BY <1>1, <1>4 DEF postSagaStepInstances, Clients, extractOutputsFromSteps
    <2>3. client.report = "COMMITTED" => client'.outs = Steps \/ (client'.outs = {} /\ Backward)
      <3>1. AllDone => {i \in Steps : step[i] \in {"ES", "ED"}} = Steps
        BY DEF AllDone
      <3>2. Backward => {i \in Steps : step[i] \in {"ES", "ED"}} = {}
        BY DEF Backward, CompensationStates
      <3> QED
        BY <2>1, <3>1, <3>2 DEF ClientInv, extractOutputsFromSteps, OutputStates
    <2>4. client.report = "COMPENSATED" => client'.outs = {i \in Steps : step[i] = "CD"}
      BY <2>1 DEF extractOutputsFromSteps, OutputStates
    <2> QED
      BY <1>1, <1>2, <2>1, <2>2, <2>3, <2>4 DEF ClientInv
  <1>5. CASE ListFails
    <2>1. /\ client'.pc = "done" /\ ~client'.listed /\ client'.report \in {client.report, "error"}
          /\ client' \in Clients
      BY <1>1, <1>5 DEF ListFails, Clients, ClientInv
    <2> QED
      BY <1>1, <1>2, <2>1 DEF ClientInv
  <1>6. CASE TimesOut
    <2>1. client'.pc = "done" /\ ~client'.listed /\ client'.report = "error" /\ client' \in Clients
      BY <1>1, <1>6 DEF TimesOut, Clients, ClientInv
    <2> QED
      BY <1>1, <1>2, <2>1 DEF ClientInv
  <1> QED
    BY <1>3, <1>4, <1>5, <1>6 DEF ClientNext, WaitForSagaCompletion, pollForCompletion, Watch, Waiters

\* With one consumer of the results queue, a client that waits for a saga is
\* told of the results of all steps or of none, although it asks for the saga
\* row and for the step rows in two requests and the saga may be sent back in
\* between.
THEOREM OutcomesAreWhole ==
  ASSUME OneConsumer
  PROVE  ClientSpec => []OutcomeIsWhole
  <1>1. [(Next /\ UNCHANGED client) \/ ClientNext]_clientVars => [Next]_vars
    BY DEF clientVars, ClientNext, WaitForSagaCompletion, pollForCompletion, Watch,
       postSagaInstance, postSagaStepInstances, ListFails, TimesOut
  <1>2. ClientSpec => Spec
    BY <1>1, PTL DEF ClientSpec, Spec
  <1>3. ClientSpec => [](IInv /\ OInv)
    BY <1>2, OutcomeInvariant, PTL
  <1>4. ClientInit => ClientInv
    BY DEF ClientInit, ClientInv, Clients
  <1>5. /\ (IInv /\ OInv) /\ (IInv /\ OInv)' /\ ClientInv
        /\ [(Next /\ UNCHANGED client) \/ ClientNext]_clientVars
        => ClientInv'
    BY ClientWaits, ClientMoves DEF clientVars
  <1>6. ASSUME IInv, OInv, ClientInv PROVE OutcomeIsWhole
    <2>1. Backward => saga # "COMMITTED"
      BY <1>6, OneStep DEF Backward, OInv, RowInv, SagaInv, CompensationStates
    <2>2. client.report = "COMPENSATED" /\ ~forced =>
            {i \in Steps : effect[i] = "undone"} \subseteq {i \in Steps : step[i] = "CD"}
      BY <1>6 DEF ClientInv, OInv, RowInv, SagaInv, TokenInv, EffectInv, Untouched
    <2> QED
      BY <1>6, <2>1, <2>2 DEF ClientInv, OutcomeIsWhole
  <1>7. IInv /\ OInv /\ ClientInv => OutcomeIsWhole
    BY <1>6
  <1> QED
    BY <1>3, <1>4, <1>5, <1>7, PTL DEF ClientSpec

=============================================================================

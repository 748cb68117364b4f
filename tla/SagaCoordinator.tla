-------------------------- MODULE SagaCoordinator --------------------------
(* One saga instance of Trax as its coordinator runs it                    *)
(* (pkg/trax/coordinator.go): the saga row and its step rows in the store, *)
(* the poller and the immediate-processing goroutines that take the saga's *)
(* mutex and walk the steps, the consumers of the execution-result queue,  *)
(* which write step rows WITHOUT that mutex, the executors behind the      *)
(* queues, and the child sagas a step may have spawned.                    *)
(*                                                                         *)
(* One action is one store transaction (or one autocommit statement) with  *)
(* the reads it rests on.  Reads made in an earlier transaction are kept   *)
(* in the reader's memory (w, handler) and may be stale when used.         *)
EXTENDS SagaStates, FiniteSets

CONSTANTS
  N,           \* number of steps of the saga
  Handlers,    \* concurrent consumers of the results queue
  Spawners,    \* steps whose executor spawns a child saga and waits for it
  EarlyGiveUp, \* may the sub-saga executor give up before its child is stored?
  MaxFaults,   \* bound: crashes, failed publishes and failed store calls
  MaxDups      \* bound: extra deliveries of results

Steps == 1..N

ASSUME NAssumption == N \in Nat \ {0}
ASSUME SpawnersAssumption == Spawners \subseteq Steps
ASSUME BoundsAssumption == /\ MaxFaults \in Nat
                           /\ MaxDups \in Nat
                           /\ EarlyGiveUp \in BOOLEAN

Kinds == {"exec", "comp"}

\* The last entry of a step's execution history, all the coordinator ever
\* reads of it: what the entry is for, whether its request was sent and
\* whether its result was received.
Logs == [kind: {"none"} \cup Kinds, sent: BOOLEAN, recv: BOOLEAN]
NoLog == [kind |-> "none", sent |-> FALSE, recv |-> FALSE]
NewLog(k) == [kind |-> k, sent |-> FALSE, recv |-> FALSE]

\* SUCCESS; FAILED, ERROR, RETRY and any unknown status, which the coordinator
\* treats alike; IN_EXECUTION, which an executor answers while it, or a
\* process before it, is still at work.
Statuses == {"ok", "fail", "busy"}

\* A result message.  kind says which request it answers; it is not part of
\* the payload and the coordinator never reads it.  copy tells apart the
\* deliveries of one result.
Results == [i: Steps, kind: Kinds, status: Statuses, copy: 0..MaxDups]

\* Why an immediate-processing goroutine was started.
Triggers == {"ES", "EF", "CS", "CF"}

Pcs == {"idle", "initiate", "validate", "process", "record"}
Workers == [pc: Pcs, i: Steps, src: {"poll", "imm"},
            st: StepStates, log: Logs, saga: SagaStates]
IdleWorker == [pc |-> "idle", i |-> 1, src |-> "poll",
               st |-> "EP", log |-> NoLog, saga |-> "RUNNING"]

HandlerStates == [busy: BOOLEAN, m: Results, log: Logs]
IdleHandler == [busy |-> FALSE, log |-> NoLog,
                m |-> [i |-> 1, kind |-> "exec", status |-> "ok", copy |-> 0]]

\* A child saga: not spawned, submitted but not yet in the store, or a saga.
ChildStates == {"NONE", "SUBMITTED"} \cup SagaStates

VARIABLES
  saga,      \* state column of the saga row
  step,      \* state column of each step row
  hist,      \* last execution-history entry of each step row
  lock,      \* the Redis mutex saga_instance_<id>: free, held, or left behind
  w,         \* the pass that holds the mutex, with the rows it has in memory
  polled,    \* steps for which a poller goroutine is about to try the mutex
  imm,       \* pending immediate-processing goroutines: <<step, trigger>>
  requests,  \* published execution and compensation requests: <<step, kind>>
  results,   \* the results queue
  handler,   \* per consumer: the result in hand and the row it read
  child,     \* the child saga of each step
  effect,    \* ghost: what each step's service has done
  sends,     \* ghost: requests published so far, per step and kind
  forced,    \* ghost: the operator force-marked the saga
  faults,    \* faults so far
  dups       \* extra deliveries so far

db == <<saga, step, hist>>
run == <<lock, w, polled, imm>>
mq == <<requests, results, handler>>
env == <<child, effect, sends, forced>>
budget == <<faults, dups>>
vars == <<db, run, mq, env, budget>>

\* followSagaSubmitterIfNeeded stores the saga RUNNING with its first step a
\* CANDIDATE and the others PENDING, all in one transaction.
Init ==
  /\ saga = "RUNNING"
  /\ step = [i \in Steps |-> IF i = 1 THEN "EC" ELSE "EP"]
  /\ hist = [i \in Steps |-> NoLog]
  /\ lock = "free"
  /\ w = IdleWorker
  /\ polled = {}
  /\ imm = {}
  /\ requests = {}
  /\ results = {}
  /\ handler = [h \in Handlers |-> IdleHandler]
  /\ child = [i \in Steps |-> "NONE"]
  /\ effect = [i \in Steps |-> "none"]
  /\ sends = [i \in Steps |-> [k \in Kinds |-> 0]]
  /\ forced = FALSE
  /\ faults = 0
  /\ dups = 0

Fault == faults < MaxFaults /\ faults' = faults + 1 /\ UNCHANGED dups

-----------------------------------------------------------------------------
(* Starting a pass: the poller's goroutines and processStepWithMutex.      *)

\* The mutex is released whatever the pass did: cache.Mutex deletes the key
\* (MutexLeft is the case in which that fails).
EndPass == w' = IdleWorker /\ lock' = "free"

\* Take the mutex, re-read the saga and its steps, decide.  A pass that has
\* nothing to do gives the mutex back at once.  Only the poller looks at the
\* saga state, and only for COMPENSATION_REQUESTED.
BeginPass(i, src, skips) ==
  /\ lock = "free"
  /\ LET pass(pc) == [pc |-> pc, i |-> i, src |-> src,
                      st |-> step[i], log |-> hist[i], saga |-> saga]
     IN IF src = "poll" /\ saga = "COMPENSATION_REQUESTED"
        THEN w' = pass("initiate") /\ lock' = "held"
        ELSE IF step[i] \in skips
        THEN UNCHANGED <<w, lock>>
        ELSE w' = pass("validate") /\ lock' = "held"

\* One round of the poller: a goroutine for every row the query returns.
PollQuery ==
  /\ saga \in {"RUNNING", "COMPENSATION_REQUESTED"}
  /\ polled' = polled \cup {i \in Steps : step[i] \in PollStates}
  /\ UNCHANGED <<db, lock, w, imm, mq, env, budget>>

PollBegin(i) ==
  /\ i \in polled
  /\ polled' = polled \ {i}
  /\ BeginPass(i, "poll", PollSkips)
  /\ UNCHANGED <<db, imm, mq, env, budget>>

\* Mutex timeout 0: a goroutine that finds the mutex taken gives up.
PollGivesUp(i) ==
  /\ i \in polled /\ lock # "free"
  /\ polled' = polled \ {i}
  /\ UNCHANGED <<db, lock, w, imm, mq, env, budget>>

ImmediateBegin(t) ==
  /\ t \in imm
  /\ imm' = imm \ {t}
  /\ BeginPass(t[1], "imm", ImmediateSkips)
  /\ UNCHANGED <<db, polled, mq, env, budget>>

ImmediateGivesUp(t) ==
  /\ t \in imm /\ lock # "free"
  /\ imm' = imm \ {t}
  /\ UNCHANGED <<db, lock, w, polled, mq, env, budget>>

MarkInvalid == saga' = "INVALID_STATE" /\ UNCHANGED <<step, hist>>

\* isSagaStateValid lists the steps again; a malformed vector ends the pass
\* and the saga.
Validate ==
  /\ w.pc = "validate"
  /\ IF isSagaStateValid(step, w.i)
     THEN w' = [w EXCEPT !.pc = "process"] /\ UNCHANGED <<lock, db>>
     ELSE MarkInvalid /\ EndPass
  /\ UNCHANGED <<polled, imm, mq, env, budget>>

\* isSagaStateValid answers FALSE when the list itself fails.
ValidateReadFails ==
  /\ w.pc = "validate"
  /\ Fault
  /\ MarkInvalid /\ EndPass
  /\ UNCHANGED <<polled, imm, mq, env>>

\* Any other store call or the publish fails, or the 50s context of the pass
\* expires: the open transaction is rolled back, a request that was published
\* in it is not recorded, and no follow-up is asked for.
PassFails ==
  /\ w.pc # "idle"
  /\ Fault
  /\ EndPass
  /\ UNCHANGED <<db, polled, imm, mq, env>>

\* The DEL that ends a pass fails, also that of a pass with nothing to do, or
\* the answer to a SETNX is lost: the key stays until its TTL.
MutexLeft ==
  /\ lock = "free"
  /\ Fault
  /\ lock' = "orphan"
  /\ UNCHANGED <<db, w, polled, imm, mq, env>>

-----------------------------------------------------------------------------
(* processSagaStep: one action per case of its switch.  The case is chosen *)
(* by the row in memory, the neighbours are read fresh.                    *)

Processing(s) == w.pc = "process" /\ w.st = s

\* Write the state and history of the current step and go round the loop.
FollowUp(s, log) == w' = [w EXCEPT !.st = s, !.log = log] /\ UNCHANGED lock

processCandidate ==
  /\ Processing("EC")
  /\ IF w.log # NoLog THEN
        /\ step' = [step EXCEPT ![w.i] = "EB"]
        /\ UNCHANGED <<saga, hist>>
        /\ EndPass
     ELSE IF \/ w.i > 1 /\ step[w.i - 1] # "ED"
             \/ w.i < N /\ step[w.i + 1] # "EP"
     THEN MarkInvalid /\ EndPass
     ELSE /\ hist' = [hist EXCEPT ![w.i] = NewLog("exec")]
          /\ step' = [step EXCEPT ![w.i] = "ER"]
          /\ FollowUp("ER", NewLog("exec"))
          /\ UNCHANGED saga
  /\ UNCHANGED <<polled, imm, mq, env, budget>>

\* The request is published inside the open transaction, which has locked the
\* rows of all steps (SELECT ... FOR UPDATE) ...
PublishRequest(k) ==
  /\ requests' = requests \cup {<<w.i, k>>}
  /\ sends' = [sends EXCEPT ![w.i][k] = @ + 1]
  /\ w' = [w EXCEPT !.pc = "record"]
  /\ UNCHANGED <<lock, db>>

\* ... and then the history is written from memory, the transaction committed.
RecordSent ==
  /\ w.pc = "record"
  /\ hist' = [hist EXCEPT ![w.i] = [w.log EXCEPT !.sent = TRUE]]
  /\ EndPass
  /\ UNCHANGED <<saga, step, polled, imm, mq, env, budget>>

\* The request was sent.  After its timeout the step fails and the loop goes
\* on; before it the pass waits for the result, and PANICS if there is one.
\* (The history in memory says "sent" only for a step read while RUNNING, and
\* both kinds of pass skip those: see NeverPanics.)
WaitOrTimeOut(failed) ==
  \/ ~w.log.recv /\ EndPass /\ UNCHANGED db
  \/ /\ step' = [step EXCEPT ![w.i] = failed]
     /\ hist' = [hist EXCEPT ![w.i] = w.log]
     /\ FollowUp(failed, w.log)
     /\ UNCHANGED saga

processRunning ==
  /\ Processing("ER")
  /\ IF w.log = NoLog THEN
        /\ step' = [step EXCEPT ![w.i] = "EB"]
        /\ EndPass
        /\ UNCHANGED <<saga, hist, requests, sends>>
     ELSE IF w.log.sent THEN
        WaitOrTimeOut("EF") /\ UNCHANGED <<requests, sends>>
     ELSE IF \E j \in Steps : j < w.i /\ step[j] # "ED" THEN
        MarkInvalid /\ EndPass /\ UNCHANGED <<requests, sends>>
     ELSE PublishRequest("exec")
  /\ UNCHANGED <<polled, imm, results, handler, child, effect, forced, budget>>

processSucceeded ==
  /\ Processing("ES")
  /\ IF \/ w.i < N /\ step[w.i + 1] # "EP"
        \/ w.i = N /\ \E j \in Steps : j # w.i /\ step[j] # "ED"
     THEN MarkInvalid
     ELSE /\ step' = [j \in Steps |-> IF j = w.i THEN "ED"
                                      ELSE IF j = w.i + 1 THEN "EC" ELSE step[j]]
          /\ saga' = IF w.i = N THEN "COMMITTED" ELSE saga
          /\ UNCHANGED hist
  /\ EndPass
  /\ UNCHANGED <<polled, imm, mq, env, budget>>

\* A failed step turns the walk around.  The saga row is rewritten with the
\* state the pass read when it began.
processFailed ==
  /\ Processing("EF")
  /\ IF \E j \in Steps : j < w.i /\ step[j] # "ED"
     THEN MarkInvalid /\ EndPass
     ELSE /\ step' = [j \in Steps |->
                        IF j < w.i THEN "CP"
                        ELSE IF j = w.i THEN "CC"
                        ELSE IF step[j] = "EP" THEN "EA" ELSE step[j]]
          /\ saga' = w.saga
          /\ FollowUp("CC", hist[w.i])
          /\ UNCHANGED hist
  /\ UNCHANGED <<polled, imm, mq, env, budget>>

\* Mutants: a committed, or an invalid, child counts as finished.
LiveChildNotCommitted(i) == child[i] \notin {"NONE", "SUBMITTED", "COMPENSATED", "COMMITTED"}
LiveChildNotInvalid(i) == child[i] \notin {"NONE", "SUBMITTED", "COMPENSATED", "INVALID_STATE"}

\* Children of this step the store knows of and that are not compensated.
LiveChild(i) == child[i] \notin {"NONE", "SUBMITTED", "COMPENSATED"}

\* Mutant: the trigger is guarded by the wrong state.
TriggerRunning(s) == IF s = "RUNNING" THEN "COMPENSATION_REQUESTED" ELSE s

\* TriggerSagaCompensation: guarded by the state COMMITTED.
TriggerSagaCompensation(s) == IF s = "COMMITTED" THEN "COMPENSATION_REQUESTED" ELSE s

processCompensationCandidate ==
  /\ Processing("CC")
  /\ IF \/ w.i > 1 /\ step[w.i - 1] # "CP"
        \/ \E j \in Steps : j > w.i /\ step[j] \notin {"EA", "CD"}
     THEN MarkInvalid /\ EndPass /\ UNCHANGED child
     ELSE IF LiveChild(w.i) THEN
          /\ child' = [child EXCEPT ![w.i] = TriggerSagaCompensation(@)]
          /\ EndPass
          /\ UNCHANGED db
     ELSE /\ step' = [step EXCEPT ![w.i] = "CR"]
          /\ hist' = [hist EXCEPT ![w.i] = NewLog("comp")]
          /\ FollowUp("CR", NewLog("comp"))
          /\ UNCHANGED <<saga, child>>
  /\ UNCHANGED <<polled, imm, mq, effect, sends, forced, budget>>

processCompensationRunning ==
  /\ Processing("CR")
  /\ IF w.log.kind # "comp" THEN
        MarkInvalid /\ EndPass /\ UNCHANGED <<requests, sends>>
     ELSE IF w.log.sent THEN
        WaitOrTimeOut("CF") /\ UNCHANGED <<requests, sends>>
     ELSE PublishRequest("comp")
  /\ UNCHANGED <<polled, imm, results, handler, child, effect, forced, budget>>

processCompensationSucceeded ==
  /\ Processing("CS")
  /\ LET next == [j \in Steps |-> IF j = w.i THEN "CD"
                                  ELSE IF j = w.i - 1 THEN "CC" ELSE step[j]]
     IN IF \/ w.i > 1 /\ step[w.i - 1] # "CP"
           \/ w.i = 1 /\ ~CompensatedPattern(next)
        THEN MarkInvalid /\ EndPass
        ELSE /\ step' = next
             /\ saga' = IF w.i = 1 THEN "COMPENSATED" ELSE saga
             /\ FollowUp("CD", hist[w.i])
             /\ UNCHANGED hist
  /\ UNCHANGED <<polled, imm, mq, env, budget>>

\* Mutant: the step is blocked and the saga is not told.
processCompensationFailedSilently ==
  /\ Processing("CF")
  /\ step' = [step EXCEPT ![w.i] = "CB"]
  /\ EndPass
  /\ UNCHANGED <<saga, hist, polled, imm, mq, env, budget>>

processCompensationFailed ==
  /\ Processing("CF")
  /\ step' = [step EXCEPT ![w.i] = "CB"]
  /\ saga' = "BLOCKED"
  /\ EndPass
  /\ UNCHANGED <<hist, polled, imm, mq, env, budget>>

processDone ==
  /\ w.pc = "process" /\ w.st \in {"ED", "CD"}
  /\ EndPass
  /\ UNCHANGED <<db, polled, imm, mq, env, budget>>

\* The default case: EP, EA, EB, CP and CB are not expected here.
processUnexpected ==
  /\ w.pc = "process" /\ w.st \in {"EP", "EA", "EB", "CP", "CB"}
  /\ MarkInvalid /\ EndPass
  /\ UNCHANGED <<polled, imm, mq, env, budget>>

\* Mutant: the saga is not set back to RUNNING.
InitiateKeepsSaga ==
  /\ w.pc = "initiate"
  /\ step' = [j \in Steps |-> IF j = N THEN "CC" ELSE "CP"]
  /\ EndPass
  /\ UNCHANGED <<saga, hist, polled, imm, mq, env, budget>>

\* initiateCompensationForCommittedSaga
InitiateCompensation ==
  /\ w.pc = "initiate"
  /\ IF \E j \in Steps : step[j] # "ED"
     THEN MarkInvalid
     ELSE /\ step' = [j \in Steps |-> IF j = N THEN "CC" ELSE "CP"]
          /\ saga' = "RUNNING"
          /\ UNCHANGED hist
  /\ EndPass
  /\ UNCHANGED <<polled, imm, mq, env, budget>>

processSagaStep ==
  \/ processCandidate
  \/ processRunning
  \/ processSucceeded
  \/ processFailed
  \/ processCompensationCandidate
  \/ processCompensationRunning
  \/ processCompensationSucceeded
  \/ processCompensationFailed
  \/ processDone
  \/ processUnexpected

-----------------------------------------------------------------------------
(* processSagaStepExecutionResult, which does not take the mutex.          *)

\* The consumer of the results queue drops IN_EXECUTION before the handler.
Ignored(m) == m.status = "busy"

\* Read the step row.  In a late state the result is acknowledged and
\* dropped; otherwise the row is in the handler's memory.
ResultRead(h, m) ==
  /\ ~handler[h].busy /\ m \in results
  /\ results' = results \ {m}
  /\ handler' = IF Ignored(m) \/ step[m.i] \in LateStates THEN handler
                ELSE [handler EXCEPT ![h] = [busy |-> TRUE, m |-> m, log |-> hist[m.i]]]
  /\ UNCHANGED <<db, run, requests, env, budget>>

\* Mutant: a failed compensation counts as a success.
ResultStateCompSucceeds(log, status) ==
  IF log.kind = "comp" THEN "CS" ELSE (IF status = "ok" THEN "ES" ELSE "EF")

\* What the result makes of the step: the history entry in memory alone
\* decides whether it counts as an execution or a compensation result.
ResultState(log, status) ==
  CASE log.kind = "comp" /\ status = "ok" -> "CS"
    [] log.kind = "comp" /\ status # "ok" -> "CF"
    [] log.kind # "comp" /\ status = "ok" -> "ES"
    [] OTHER -> "EF"

Release(h) == handler' = [handler EXCEPT ![h] = IdleHandler]

\* The handler's own case for IN_EXECUTION, which the consumer keeps from it,
\* would change the history of a step and not its state.
Conclusive(log, status) == log # NoLog /\ status # "busy"

\* Write result, history and state, whatever the row says by now; start the
\* goroutine; commit; acknowledge.  A step without history invalidates the
\* saga and the result goes back to the queue.  The write waits while the rows
\* are locked; the read before it did not.
ResultWrite(h) ==
  /\ handler[h].busy
  /\ w.pc # "record"
  /\ LET m == handler[h].m
         log == handler[h].log
         s == ResultState(log, m.status)
     IN /\ IF log = NoLog
           THEN MarkInvalid /\ results' = results \cup {m}
           ELSE /\ hist' = [hist EXCEPT ![m.i] = [log EXCEPT !.recv = TRUE]]
                /\ step' = IF Conclusive(log, m.status)
                           THEN [step EXCEPT ![m.i] = s] ELSE step
                /\ UNCHANGED <<saga, results>>
        /\ imm' = IF Conclusive(log, m.status) THEN imm \cup {<<m.i, s>>} ELSE imm
  /\ Release(h)
  /\ UNCHANGED <<lock, w, polled, requests, env, budget>>

\* A store call fails or the 20s context expires: rolled back, requeued.
\* The goroutine is started before the commit, so it may be there already.
ResultFails(h) ==
  /\ handler[h].busy
  /\ Fault
  /\ LET m == handler[h].m
         log == handler[h].log
     IN /\ results' = results \cup {m}
        /\ \/ UNCHANGED imm
           \/ /\ Conclusive(log, m.status)
              /\ imm' = imm \cup {<<m.i, ResultState(log, m.status)>>}
  /\ Release(h)
  /\ UNCHANGED <<db, lock, w, polled, requests, env>>

-----------------------------------------------------------------------------
(* The executors, the broker and the operator.                             *)

Answer(i, k, status, copy) ==
  results' = results \cup {[i |-> i, kind |-> k, status |-> status, copy |-> copy]}

\* The service did the work it was asked for; a failure leaves open whether
\* it did (an ERROR may only mean that its answer did not arrive).
Done(i, k) == effect' = [effect EXCEPT ![i] = IF k = "exec" THEN "applied" ELSE "undone"]
DoneOrNot(i, k) == Done(i, k) \/ UNCHANGED effect

\* A request that is executed in the executor's callback: a compensation, or
\* the execution of a step that spawns no saga.
Synchronous(i, k) == <<i, k>> \in requests /\ (k = "exec" => i \notin Spawners)

\* The service executes or compensates a step, and the executor answers.
Execute(i, k, ok) ==
  /\ Synchronous(i, k)
  /\ requests' = requests \ {<<i, k>>}
  /\ IF ok THEN Done(i, k) ELSE DoneOrNot(i, k)
  /\ Answer(i, k, IF ok THEN "ok" ELSE "fail", 0)
  /\ UNCHANGED <<db, run, handler, child, sends, forced, budget>>

\* The request is delivered again (the callback timed out) while it is being
\* executed: the in-flight guard answers IN_EXECUTION.
InFlight(i, k) ==
  /\ <<i, k>> \in requests
  /\ k = "exec" /\ i \in Spawners => child[i] # "NONE"
  /\ dups < MaxDups
  /\ dups' = dups + 1
  /\ Answer(i, k, "busy", dups + 1)
  /\ UNCHANGED <<db, run, requests, handler, env, faults>>

\* The executor dies at work.  Its successor finds the key InProgress and no
\* in-flight entry, answers IN_EXECUTION, and that is the last answer.
ExecutorDies(i, k) ==
  /\ Synchronous(i, k)
  /\ Fault
  /\ requests' = requests \ {<<i, k>>}
  /\ DoneOrNot(i, k)
  /\ Answer(i, k, "busy", 0)
  /\ UNCHANGED <<db, run, handler, child, sends, forced>>

\* The executor of a spawning step detaches: a goroutine submits the child
\* saga, and the request is acknowledged with IN_EXECUTION ...
SpawnChild(i) ==
  /\ <<i, "exec">> \in requests /\ i \in Spawners /\ child[i] = "NONE"
  /\ child' = [child EXCEPT ![i] = "SUBMITTED"]
  /\ Answer(i, "exec", "busy", 0)
  /\ UNCHANGED <<db, run, requests, handler, effect, sends, forced, budget>>

\* ... so the detached run is lost when its process dies, or when the publish
\* of its result fails, which is only logged ...
DetachedLost(i) ==
  /\ <<i, "exec">> \in requests /\ i \in Spawners /\ child[i] # "NONE"
  /\ Fault
  /\ requests' = requests \ {<<i, "exec">>}
  /\ UNCHANGED <<db, run, results, handler, env>>

\* ... a coordinator stores it, runs it, or compensates it, as this module
\* says (an INVALID_STATE saga may still be moved by a late result; a child
\* an operator force-marked is taken to stay COMPENSATED) ...
ChildMoves(i) ==
  /\ i \in Spawners
  /\ \E s \in CASE child[i] = "SUBMITTED" -> {"RUNNING"}
                [] child[i] \in {"RUNNING", "INVALID_STATE"} ->
                     {"COMMITTED", "COMPENSATED", "BLOCKED", "INVALID_STATE"}
                [] child[i] = "COMPENSATION_REQUESTED" ->
                     {"COMPENSATED", "BLOCKED", "INVALID_STATE"}
                [] child[i] = "BLOCKED" -> {"COMPENSATED", "INVALID_STATE"}
                [] OTHER -> {} :
       child' = [child EXCEPT ![i] = s]
  /\ UNCHANGED <<db, run, mq, effect, sends, forced, budget>>

\* ... and the executor, polling, answers: success only for a committed child
\* whose outputs it can read, failure for any other outcome, when it cannot
\* submit the child, or when it gives up waiting (after 15 polls that never
\* found the child, or at its deadline).
ChildAnswered(i, ok) ==
  /\ <<i, "exec">> \in requests /\ i \in Spawners
  /\ child[i] = "SUBMITTED" => EarlyGiveUp
  /\ ok => child[i] = "COMMITTED"
  /\ requests' = requests \ {<<i, "exec">>}
  /\ IF ok THEN Done(i, "exec") ELSE UNCHANGED effect
  /\ Answer(i, "exec", IF ok THEN "ok" ELSE "fail", 0)
  /\ UNCHANGED <<db, run, handler, child, sends, forced, budget>>

\* Results some consumer has in hand and has not acknowledged.
Unacked == {handler[h].m : h \in {g \in Handlers : handler[g].busy}}

\* At-least-once delivery: a second copy of a result, to come at any time.
Duplicate(m) ==
  /\ dups < MaxDups
  /\ m \in results \cup Unacked
  /\ dups' = dups + 1
  /\ results' = results \cup {[m EXCEPT !.copy = dups + 1]}
  /\ UNCHANGED <<db, run, requests, handler, env, faults>>

\* The coordinator process dies: its goroutines go, unacknowledged results
\* return to the queue, the mutex stays until its TTL.
Crash ==
  /\ Fault
  /\ w' = IdleWorker
  /\ lock' = IF lock = "held" THEN "orphan" ELSE lock
  /\ polled' = {} /\ imm' = {}
  /\ results' = results \cup Unacked
  /\ handler' = [h \in Handlers |-> IdleHandler]
  /\ UNCHANGED <<db, requests, env>>

LockExpires ==
  /\ lock = "orphan"
  /\ lock' = "free"
  /\ UNCHANGED <<db, w, polled, imm, mq, env, budget>>

\* Mutant: the update is not guarded by the state COMMITTED.
RequestCompensationUnguarded ==
  /\ saga \in {"COMMITTED", "COMPENSATED"}
  /\ saga' = "COMPENSATION_REQUESTED"
  /\ UNCHANGED <<step, hist, run, mq, env, budget>>

\* Compensation of a committed saga is requested (by its parent's walk).
RequestCompensation ==
  /\ saga = "COMMITTED"
  /\ saga' = TriggerSagaCompensation(saga)
  /\ UNCHANGED <<step, hist, run, mq, env, budget>>

\* traxctrl: the operator declares a blocked saga compensated.
ForceMarkSagaCompensated ==
  /\ saga = "BLOCKED"
  /\ saga' = "COMPENSATED"
  /\ forced' = TRUE
  /\ UNCHANGED <<step, hist, run, mq, child, effect, sends, budget>>

-----------------------------------------------------------------------------

Poll == \E i \in Steps : PollBegin(i) \/ PollGivesUp(i)

Immediate == \E t \in imm : ImmediateBegin(t) \/ ImmediateGivesUp(t)

Worker == Validate \/ processSagaStep \/ RecordSent \/ InitiateCompensation

Consumer == \E h \in Handlers : ResultWrite(h) \/ \E m \in results : ResultRead(h, m)

Executor ==
  \E i \in Steps :
    \/ \E ok \in BOOLEAN : ChildAnswered(i, ok) \/ \E k \in Kinds : Execute(i, k, ok)
    \/ SpawnChild(i) \/ ChildMoves(i)

Failure ==
  \/ ValidateReadFails \/ PassFails \/ MutexLeft \/ Crash
  \/ \E h \in Handlers : ResultFails(h)
  \/ \E i \in Steps : DetachedLost(i) \/ \E k \in Kinds : ExecutorDies(i, k)

Redelivery ==
  \/ \E m \in results \cup Unacked : Duplicate(m)
  \/ \E i \in Steps, k \in Kinds : InFlight(i, k)

Operator == RequestCompensation \/ ForceMarkSagaCompensated

Next ==
  \/ PollQuery \/ Poll \/ Immediate \/ Worker
  \/ Consumer \/ Executor
  \/ Failure \/ LockExpires \/ Operator \/ Redelivery

\* A spawned child saga is run by a live coordinator, but a BLOCKED or INVALID
\* one waits for an operator.
ChildRuns(i) == child[i] \notin {"BLOCKED", "INVALID_STATE"} /\ ChildMoves(i)

\* The poller's timer, goroutines that hold or try the mutex, consumers with
\* messages waiting, executors with requests waiting, and the TTL of the
\* mutex all make progress.  The poller staggers its goroutines by 100ms, so
\* none of them finds the mutex taken for ever.
Fairness ==
  /\ WF_vars(PollQuery)
  /\ \A i \in Steps : SF_vars(PollBegin(i))
  /\ WF_vars(Immediate)
  /\ WF_vars(Worker)
  /\ WF_vars(LockExpires)
  /\ \A h \in Handlers : /\ WF_vars(ResultWrite(h))
                        /\ WF_vars(\E m \in results : ResultRead(h, m))
  /\ \A i \in Steps : /\ \A k \in Kinds : WF_vars(\E ok \in BOOLEAN : Execute(i, k, ok))
                     /\ WF_vars(SpawnChild(i))
                     /\ WF_vars(ChildRuns(i))
                     /\ WF_vars(/\ child[i] \in SagaStates \ {"RUNNING"}
                               /\ \E ok \in BOOLEAN : ChildAnswered(i, ok))

Spec == Init /\ [][Next]_vars

FairSpec == Spec /\ Fairness

=============================================================================

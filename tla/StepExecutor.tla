---------------------------- MODULE StepExecutor ----------------------------
(* The executor of one saga step (pkg/trax/executor.go) with the idempotent  *)
(* service it drives and, when it spawns sagas, the sub-saga executor        *)
(* (sub_saga_executor.go, saga_context.go), for one idempotency key: keys    *)
(* share nothing but the mutex of the in-flight maps, and a critical section *)
(* of that mutex is one action.                                              *)
(*                                                                           *)
(* Two services are checked: "traxcli", the one of pkg/clis/traxcli, whose   *)
(* results live in a Go map whatever backend its flags name, and "durable",  *)
(* an external one that keeps its results and reports a key IN_PROGRESS.     *)
EXTENDS Naturals, FiniteSets

CONSTANTS
  Goroutines,    \* callbacks and detached executions, at most so many at a time
  Configs,       \* <<service, sub>>: which service, and does it spawn sagas?
  Children,      \* bound: child sagas submitted
  MaxPollErrors, \* failed polls of a child never found before giving up (15)
  MaxFaults      \* bound: restarts, timeouts and failed calls

ASSUME ExecutorAssumption ==
  /\ Configs \subseteq {"traxcli", "durable"} \X BOOLEAN
  /\ IsFiniteSet(Goroutines)
  /\ Children \in Nat /\ MaxPollErrors \in Nat /\ MaxFaults \in Nat

Kinds == {"exec", "comp"}
Results == {"ok", "fail"}
ChildStates == {"none", "submitted", "running", "committed", "compensated", "blocked", "invalid"}
NoChild == 0

\* Between the registration in the in-flight map and the removal from it.
Running == {"execute", "work", "poll", "store", "done"}
GStates == [pc: {"idle", "status", "guard", "publish"} \cup Running, kind: Kinds,
            st: {"NotSeen", "InProgress", "Completed"},
            out: Results \cup {"error", "busy"},
            owns: 0..1, child: 0..Children, errs: 0..MaxPollErrors, seen: {"never", "once"}]
Idle == [pc |-> "idle", kind |-> "exec", st |-> "NotSeen", out |-> "busy",
         owns |-> 0, child |-> NoChild, errs |-> 0, seen |-> "never"]

VARIABLES
  g,         \* the goroutines; owns: deliveries the callback can settle
  inFlight,  \* kinds with an entry in inFlightExec or inFlightComp
  key,       \* the service's record of the key, per kind
  inbox,     \* per kind: copies of the request in the inbox queue
  asked,     \* kinds the coordinator has requested
  answers,   \* conclusive answers published: <<kind, result>>
  child,     \* the child sagas submitted
  done,      \* ghost: how often the service did the work, in this process
  effects,   \* ghost: how often it did the work at all
  lives,     \* restarts so far
  erred,     \* ghost: the service itself returned an error
  faults,    \* faults so far
  config     \* which executor this is

vars == <<g, inFlight, key, inbox, asked, answers, child, done, effects,
          lives, erred, faults, config>>

Service == config[1]
isSubSagaExecutor == config[2]

Init ==
  /\ g = [x \in Goroutines |-> Idle]
  /\ inFlight = {}
  /\ key = [k \in Kinds |-> "NotSeen"]
  /\ inbox = [k \in Kinds |-> IF k = "exec" THEN 1 ELSE 0]
  /\ asked = {"exec"}
  /\ answers = {}
  /\ child = [c \in 1..Children |-> "none"]
  /\ done = [k \in Kinds |-> 0]
  /\ effects = [k \in Kinds |-> 0]
  /\ lives = 0
  /\ erred = FALSE
  /\ faults = 0
  /\ config \in Configs

Fault == faults < MaxFaults /\ faults' = faults + 1

-----------------------------------------------------------------------------
(* The callback of the inbox queue                                         *)

\* One consumer, but a callback that timed out still runs when its request is
\* delivered again, and the consumer may have several reading loops.
Receive(x, k) ==
  /\ g[x].pc = "idle" /\ inbox[k] > 0
  /\ inbox' = [inbox EXCEPT ![k] = @ - 1]
  /\ g' = [g EXCEPT ![x] = [Idle EXCEPT !.pc = "status", !.kind = k, !.owns = 1]]
  /\ UNCHANGED <<inFlight, key, asked, answers, child, done, effects, lives, erred, faults, config>>

\* What GetIdempotentKey...Status answers; the map of traxcli holds results
\* only, so that it never says IN_PROGRESS.
Status(k) == IF key[k] \in Results THEN "Completed" ELSE key[k]

\* The status is read before the mutex is taken.
ReadStatus(x) ==
  /\ g[x].pc = "status"
  /\ g' = [g EXCEPT ![x].pc = "guard", ![x].st = Status(g[x].kind)]
  /\ UNCHANGED <<inFlight, key, inbox, asked, answers, child, done, effects, lives, erred, faults, config>>

\* A service that cannot tell: the executor answers ERROR, also while another
\* goroutine executes the step.
StatusFails(x) ==
  /\ g[x].pc = "status" /\ Service = "durable"
  /\ Fault
  /\ erred' = TRUE
  /\ g' = [g EXCEPT ![x].pc = "publish", ![x].out = "error"]
  /\ UNCHANGED <<inFlight, key, inbox, asked, answers, child, done, effects, lives, config>>

\* Mutant: the guard looks at the status alone.
GuardedByStatus(x) == g[x].st = "InProgress"

\* The in-flight guard: another goroutine has the key, or an earlier process
\* had it, and the executor does not spawn sagas.
Guarded(x) ==
  \/ g[x].kind \in inFlight
  \/ g[x].st = "InProgress" /\ ~(isSubSagaExecutor /\ g[x].kind = "exec")

\* IN_EXECUTION, which the coordinator ignores.
AnswerBusy(x) ==
  /\ g[x].pc = "guard" /\ Guarded(x)
  /\ g' = [g EXCEPT ![x].pc = "publish", ![x].out = "busy"]
  /\ UNCHANGED <<inFlight, key, inbox, asked, answers, child, done, effects, lives, erred, faults, config>>

Detaches(x) == isSubSagaExecutor /\ g[x].kind = "exec"

\* Register the entry and execute in the callback ...
Register(x) ==
  /\ g[x].pc = "guard" /\ ~Guarded(x) /\ ~Detaches(x)
  /\ inFlight' = inFlight \cup {g[x].kind}
  /\ g' = [g EXCEPT ![x].pc = "execute"]
  /\ UNCHANGED <<key, inbox, asked, answers, child, done, effects, lives, erred, faults, config>>

\* ... or in a goroutine of its own, while the callback answers IN_EXECUTION.
\* So does a successor that finds the key of its predecessor IN_PROGRESS.
Detach(x, y) ==
  /\ g[x].pc = "guard" /\ ~Guarded(x) /\ Detaches(x)
  /\ g[y].pc = "idle"
  /\ inFlight' = inFlight \cup {"exec"}
  /\ g' = [g EXCEPT ![x].pc = "publish", ![x].out = "busy",
                    ![y] = [Idle EXCEPT !.pc = "execute"]]
  /\ UNCHANGED <<key, inbox, asked, answers, child, done, effects, lives, erred, faults, config>>

-----------------------------------------------------------------------------
(* ExecuteSync and CompensateSync                                          *)

\* A stored result is returned again.
Lookup(x) ==
  /\ g[x].pc = "execute"
  /\ LET k == g[x].kind IN
     IF key[k] \in Results
     THEN g' = [g EXCEPT ![x].pc = "done", ![x].out = key[k]] /\ UNCHANGED key
     ELSE /\ g' = [g EXCEPT ![x].pc = "work"]
          /\ key' = IF Service = "durable" THEN [key EXCEPT ![k] = "InProgress"] ELSE key
  /\ UNCHANGED <<inFlight, inbox, asked, answers, child, done, effects, lives, erred, faults, config>>

\* ExecuteSync itself returns an error: the executor answers ERROR.
ExecuteErrs(x) ==
  /\ g[x].pc = "execute" /\ Service = "durable"
  /\ Fault
  /\ erred' = TRUE
  /\ g' = [g EXCEPT ![x].pc = "done", ![x].out = "error"]
  /\ UNCHANGED <<inFlight, key, inbox, asked, answers, child, done, effects, lives, config>>

Counted(x) ==
  /\ done' = [done EXCEPT ![g[x].kind] = @ + 1]
  /\ effects' = [effects EXCEPT ![g[x].kind] = @ + 1]

\* The simulated or the shell command: it may fail, and it fails when the
\* step's timeout ends its context.
Work(x, out) ==
  /\ g[x].pc = "work" /\ ~Detaches(x)
  /\ Counted(x)
  /\ g' = [g EXCEPT ![x].pc = "store", ![x].out = out]
  /\ UNCHANGED <<inFlight, key, inbox, asked, answers, child, lives, erred, faults, config>>

\* ExecuteSync of traxcli's service without a sub-saga, and CompensateSync.
Execute(x, out) == g[x].kind = "exec" /\ Work(x, out)
Compensate(x, out) == g[x].kind = "comp" /\ Work(x, out)

\* SpawnSubSaga: a child with a fresh random id is submitted ...
SpawnSubSaga(x, c) ==
  /\ g[x].pc = "work" /\ Detaches(x)
  /\ child[c] = "none" /\ \A d \in 1..(c - 1) : child[d] # "none"
  /\ Counted(x)
  /\ child' = [child EXCEPT ![c] = "submitted"]
  /\ g' = [g EXCEPT ![x].pc = "poll", ![x].child = c]
  /\ UNCHANGED <<inFlight, key, inbox, asked, answers, lives, erred, faults, config>>

\* ... or the submission fails: nodes unknown, or the publish fails.
SpawnFails(x) ==
  /\ g[x].pc = "work" /\ Detaches(x)
  /\ Fault
  /\ g' = [g EXCEPT ![x].pc = "store", ![x].out = "fail"]
  /\ UNCHANGED <<inFlight, key, inbox, asked, answers, child, done, effects, lives, erred, config>>

\* Mutant: every terminal state of the child ends the polling with success.
TerminalIsSuccess(s) == IF s \in {"committed", "compensated"} THEN "ok" ELSE "fail"

\* A committed child is a success, any other end of it a failure.
PollResult(s) == IF s = "committed" THEN "ok" ELSE "fail"

Ended == {"committed", "compensated", "blocked", "invalid"}

\* pollForCompletion reads the child's state from traxctrl.
Poll(x) ==
  /\ g[x].pc = "poll"
  /\ LET s == child[g[x].child] IN
     \/ /\ s \in Ended
        /\ g' = [g EXCEPT ![x].pc = "store", ![x].out = PollResult(s)]
     \/ /\ s = "running" /\ ~(g[x].seen = "once" /\ g[x].errs = 0)
        /\ g' = [g EXCEPT ![x].seen = "once", ![x].errs = 0]
  /\ UNCHANGED <<inFlight, key, inbox, asked, answers, child, done, effects, lives, erred, faults, config>>

\* A poll fails: traxctrl is out of reach, or the child is not stored.  Only a
\* child that was never found is given up for that; after the first answer the
\* count goes on and means nothing.
PollFails(x) ==
  /\ g[x].pc = "poll" /\ g[x].seen = "never"
  /\ IF child[g[x].child] = "submitted" THEN UNCHANGED faults ELSE Fault
  /\ g' = IF g[x].errs + 1 >= MaxPollErrors
          THEN [g EXCEPT ![x].pc = "store", ![x].out = "fail"]
          ELSE [g EXCEPT ![x].errs = @ + 1]
  /\ UNCHANGED <<inFlight, key, inbox, asked, answers, child, done, effects, lives, erred, config>>

\* maxWaitTime is over, or the outputs of the committed child cannot be read.
PollGivesUp(x) ==
  /\ g[x].pc = "poll"
  /\ Fault
  /\ g' = [g EXCEPT ![x].pc = "store", ![x].out = "fail"]
  /\ UNCHANGED <<inFlight, key, inbox, asked, answers, child, done, effects, lives, erred, config>>

\* Mutant: an in-memory result is forgotten.
StoreNothing(x) ==
  /\ g[x].pc = "store"
  /\ g' = [g EXCEPT ![x].pc = "done"]
  /\ UNCHANGED <<inFlight, key, inbox, asked, answers, child, done, effects, lives, erred, faults, config>>

\* The result is stored, a failure like a success.
Store(x) ==
  /\ g[x].pc = "store"
  /\ key' = [key EXCEPT ![g[x].kind] = g[x].out]
  /\ g' = [g EXCEPT ![x].pc = "done"]
  /\ UNCHANGED <<inFlight, inbox, asked, answers, child, done, effects, lives, erred, faults, config>>

-----------------------------------------------------------------------------
(* The answer                                                              *)

\* The entry is removed before the result is published.
Finish(x) ==
  /\ g[x].pc = "done"
  /\ inFlight' = inFlight \ {g[x].kind}
  /\ g' = [g EXCEPT ![x].pc = "publish"]
  /\ UNCHANGED <<key, inbox, asked, answers, child, done, effects, lives, erred, faults, config>>

\* Mutant: a service that fails is reported like one that is at work.
AnswerHidesFailure(x) == IF g[x].out = "ok" THEN {<<g[x].kind, "ok">>} ELSE {}

\* What the coordinator will act upon.
Conclusive(x) == IF g[x].out = "busy" THEN {} ELSE {<<g[x].kind, g[x].out>>}

\* Publish, and acknowledge the request.
Publish(x) ==
  /\ g[x].pc = "publish"
  /\ answers' = answers \cup Conclusive(x)
  /\ g' = [g EXCEPT ![x] = Idle]
  /\ UNCHANGED <<inFlight, key, inbox, asked, child, done, effects, lives, erred, faults, config>>

\* A callback that cannot publish has its request requeued; a detached run
\* only writes to the log.
PublishFails(x) ==
  /\ g[x].pc = "publish"
  /\ Fault
  /\ inbox' = [inbox EXCEPT ![g[x].kind] = @ + g[x].owns]
  /\ g' = [g EXCEPT ![x] = Idle]
  /\ UNCHANGED <<inFlight, key, asked, answers, child, done, effects, lives, erred, config>>

-----------------------------------------------------------------------------
(* The world around it                                                     *)

\* The callback ceiling passes: the request is requeued, the callback runs on.
CallbackTimeout(x) ==
  /\ g[x].owns = 1
  /\ Fault
  /\ inbox' = [inbox EXCEPT ![g[x].kind] = @ + 1]
  /\ g' = [g EXCEPT ![x].owns = 0]
  /\ UNCHANGED <<inFlight, key, asked, answers, child, done, effects, lives, erred, config>>

\* The process ends, by a crash or by RunExecutor's signal handler, which waits
\* one second for nobody in particular, and is started again.
Unacked(k) == Cardinality({x \in Goroutines : g[x].owns = 1 /\ g[x].kind = k})
Restart ==
  /\ Fault
  /\ lives' = lives + 1
  /\ g' = [x \in Goroutines |-> Idle]
  /\ inFlight' = {}
  /\ key' = IF Service = "traxcli" THEN [k \in Kinds |-> "NotSeen"] ELSE key
  /\ inbox' = [k \in Kinds |-> inbox[k] + Unacked(k)]
  /\ done' = [k \in Kinds |-> 0]
  /\ UNCHANGED <<asked, answers, child, effects, erred, config>>

\* The coordinator requests the compensation of a step once it has a result
\* of its execution.
CompensationRequested ==
  /\ "comp" \notin asked
  /\ \E r \in Results \cup {"error"} : <<"exec", r>> \in answers
  /\ asked' = asked \cup {"comp"}
  /\ inbox' = [inbox EXCEPT !["comp"] = @ + 1]
  /\ UNCHANGED <<g, inFlight, key, answers, child, done, effects, lives, erred, faults, config>>

\* A submitted child is stored, and runs to its end.
ChildMoves(c) ==
  /\ \/ child[c] = "submitted" /\ child' = [child EXCEPT ![c] = "running"]
     \/ child[c] = "running" /\ \E s \in Ended : child' = [child EXCEPT ![c] = s]
  /\ UNCHANGED <<g, inFlight, key, inbox, asked, answers, done, effects, lives, erred, faults, config>>

-----------------------------------------------------------------------------

Callback(x) ==
  \/ ReadStatus(x) \/ AnswerBusy(x) \/ Register(x) \/ \E y \in Goroutines : Detach(x, y)
  \/ Lookup(x) \/ Store(x) \/ Finish(x) \/ Publish(x)

Serve(x) ==
  \/ \E out \in Results : Execute(x, out) \/ Compensate(x, out)
  \/ \E c \in 1..Children : SpawnSubSaga(x, c)
  \/ Poll(x)

Failure(x) ==
  \/ StatusFails(x) \/ ExecuteErrs(x) \/ SpawnFails(x) \/ PollFails(x) \/ PollGivesUp(x)
  \/ PublishFails(x) \/ CallbackTimeout(x)

Next ==
  \/ \E x \in Goroutines : Callback(x) \/ Serve(x) \/ Failure(x)
  \/ \E x \in Goroutines, k \in Kinds : Receive(x, k)
  \/ CompensationRequested \/ Restart
  \/ \E c \in 1..Children : ChildMoves(c)

Spec == Init /\ [][Next]_vars

\* The consumer delivers, goroutines run, the service's work and the children
\* come to an end (a "noreturn" simulation does not).
Fairness ==
  /\ \A k \in Kinds : WF_vars(\E x \in Goroutines : Receive(x, k))
  /\ \A x \in Goroutines : WF_vars(Callback(x)) /\ WF_vars(Serve(x))
  /\ \A c \in 1..Children : WF_vars(ChildMoves(c))

FairSpec == Spec /\ Fairness

-----------------------------------------------------------------------------

\* The shape of the goroutines, the maps and the service's record.
ExecTypeOK ==
  /\ g \in [Goroutines -> GStates]
  /\ inFlight \subseteq Kinds
  /\ key \in [Kinds -> {"NotSeen", "InProgress"} \cup Results]
  /\ inbox \in [Kinds -> Nat]
  /\ asked \subseteq Kinds
  /\ answers \subseteq Kinds \X (Results \cup {"error"})
  /\ child \in [1..Children -> ChildStates]
  /\ done \in [Kinds -> Nat] /\ effects \in [Kinds -> Nat]
  /\ lives \in Nat /\ erred \in BOOLEAN /\ faults \in Nat
  /\ config \in Configs

\* The in-flight guard: "a duplicate delivery returns IN_EXECUTION quickly
\* instead of starting the same work twice".  At most one goroutine executes
\* the key and at most one compensates it, and the map says so exactly.
OneAtATime ==
  /\ \A k \in Kinds : k \in inFlight <=>
       \E x \in Goroutines : g[x].pc \in Running /\ g[x].kind = k
  /\ \A x, y \in Goroutines :
       g[x].pc \in Running /\ g[y].pc \in Running /\ g[x].kind = g[y].kind => x = y

\* However often a request is delivered, the work is done once in the life of
\* the process, although the status is read before the guard and may be stale.
\* A restart of traxcli's executor starts over.
WorkOncePerLife == \A k \in Kinds : done[k] <= 1

\* No two answers contradict each other: a step reported as executed is never
\* also reported as failed, unless an executor with traxcli's service is
\* restarted in between or a successor executes again what was IN_PROGRESS.
AnswersAgree ==
  lives = 0 => \A k \in Kinds : ~({<<k, "ok">>, <<k, "fail">>} \subseteq answers)

\* A reported success is true: the work was done, and a spawning step has a
\* child that committed.
SuccessIsTrue ==
  /\ \A k \in Kinds : <<k, "ok">> \in answers => effects[k] > 0
  /\ isSubSagaExecutor /\ <<"exec", "ok">> \in answers =>
       \E c \in 1..Children : child[c] = "committed"

\* No work of an execution after the step's compensation has done its own, so
\* long as the process lives and no error of the service has been answered with
\* ERROR while a copy of the request, or a run of it, is still there: the two
\* in-flight maps know nothing of each other.
CompensationIsLast ==
  lives = 0 /\ ~erred =>
    \A x \in Goroutines : g[x].kind = "exec" /\ g[x].pc \in {"work", "poll", "store"} => done["comp"] = 0

\* Every request is answered in the end.  An executor with traxcli's service
\* whose step spawns nothing survives any single restart, timeout or failed
\* publish: the request comes back.  Two can lose it: the copy that a timeout
\* sends back is acknowledged with IN_EXECUTION, and then the process dies.  A
\* detached run, or a key left IN_PROGRESS, is lost with its process at once.
Answered ==
  \A k \in Kinds : k \in asked ~>
    \/ \E r \in Results \cup {"error"} : <<k, r>> \in answers
    \/ faults > 0 /\ (isSubSagaExecutor \/ Service = "durable")
    \/ faults > 1

=============================================================================

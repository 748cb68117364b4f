---------------------------- MODULE SagaClients ----------------------------
(* Those who wait for a saga from outside: WaitForSagaCompletion of the    *)
(* submitter, pollForCompletion of the sub-saga executor and Watch.  Each  *)
(* asks traxctrl for the saga row until its state is final and then, in a  *)
(* second request, for the step rows.  The coordinator does not know of    *)
(* them, and a committed saga may be sent back between the two requests.   *)
EXTENDS SagaProperties

Waiters == {"submitter", "executor", "watcher"}

VARIABLE client  \* where the client is, what it reports and the steps whose results it got

\* Which of the three it is matters between the two requests only: see kind.
Clients == [pc: {"polling", "listing", "done"}, kind: {"any"} \cup Waiters,
            report: {"none", "error"} \cup SagaStates, listed: BOOLEAN, outs: SUBSET Steps]

clientVars == <<vars, client>>

ClientInit ==
  client = [pc |-> "polling", kind |-> "any", report |-> "none", listed |-> FALSE, outs |-> {}]

\* The states that end the wait; in any other, also an unexpected one, it goes on.
IsTerminalState(s) == s \in {"COMMITTED", "COMPENSATED", "BLOCKED", "INVALID_STATE"}

\* Does this outcome come with the results of the steps?  The watcher's
\* fetcher asks for the steps every time, the submitter only after a commit,
\* the executor also for the results of a compensation.
WantsSteps(kind, s) ==
  \/ kind = "watcher"
  \/ s = "COMMITTED"
  \/ kind = "executor" /\ s = "COMPENSATED"

\* postSagaInstance: the saga row, in a transaction of its own.  One that says
\* that the saga goes on changes nothing.
postSagaInstance(kind) ==
  /\ client.pc = "polling" /\ IsTerminalState(saga)
  /\ client' = IF WantsSteps(kind, saga)
               THEN [client EXCEPT !.report = saga, !.pc = "listing", !.kind = kind]
               ELSE [client EXCEPT !.report = saga, !.pc = "done"]
  /\ UNCHANGED vars

\* The three loops.
WaitForSagaCompletion == postSagaInstance("submitter")
pollForCompletion == postSagaInstance("executor")
Watch == postSagaInstance("watcher")

\* Mutant: the results of steps that are DONE are left out.
OutputStatesNoDone(s) == IF s = "COMMITTED" THEN {"ES"} ELSE {"CD"}

\* The steps whose results are merged into the outcome.
OutputStates(s) == IF s = "COMMITTED" THEN {"ES", "ED"} ELSE {"CD"}

extractOutputsFromSteps(s) == {i \in Steps : step[i] \in OutputStates(s)}

\* The step rows, as they are by now.
postSagaStepInstances ==
  /\ client.pc = "listing"
  /\ client' = [client EXCEPT !.pc = "done", !.kind = "any", !.listed = TRUE,
                              !.outs = extractOutputsFromSteps(client.report)]
  /\ UNCHANGED vars

\* The second request fails: a commit turns into an error, a compensation is
\* reported without results; the watcher's fetcher drops the error.
ListFails ==
  /\ client.pc = "listing"
  /\ client' = [client EXCEPT !.pc = "done", !.kind = "any",
                  !.report = IF client.kind # "watcher" /\ @ = "COMMITTED" THEN "error" ELSE @]
  /\ UNCHANGED vars

\* maxWaitTime has passed, or the context of the caller has ended.
TimesOut ==
  /\ client.pc = "polling"
  /\ client' = [client EXCEPT !.pc = "done", !.report = "error"]
  /\ UNCHANGED vars

ClientNext ==
  \/ WaitForSagaCompletion \/ pollForCompletion \/ Watch
  \/ postSagaStepInstances \/ ListFails \/ TimesOut

\* The coordinator and one client.
ClientSpec ==
  Init /\ ClientInit /\ [][(Next /\ UNCHANGED client) \/ ClientNext]_clientVars

\* A client gets all results or none.  Told COMMITTED, it has the results of
\* every step, or of none because the saga has been sent back meanwhile: never
\* of some.  Told COMPENSATED by the coordinator, it has the result of every
\* compensation that took place.
OutcomeIsWhole ==
  client.listed =>
    /\ client.report = "COMMITTED" =>
         client.outs = Steps \/ (client.outs = {} /\ saga # "COMMITTED")
    /\ client.report = "COMPENSATED" /\ ~forced =>
         {i \in Steps : effect[i] = "undone"} \subseteq client.outs

=============================================================================

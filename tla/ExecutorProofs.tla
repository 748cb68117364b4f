--------------------------- MODULE ExecutorProofs ---------------------------
(* The in-flight guard of the step executor, and what it is worth for the   *)
(* work done and the answers given, for any number of goroutines, children, *)
(* restarts, timeouts and failures.                                         *)
EXTENDS StepExecutor, FiniteSetTheorems, TLAPS

\* What a goroutine is about to store is a result.
StoresResult == \A x \in Goroutines : g[x].pc = "store" => g[x].out \in Results

\* An idle goroutine, and one that has just been detached, have their types.
LEMMA IdleType ==
  /\ Idle \in GStates
  /\ [Idle EXCEPT !.pc = "execute"] \in GStates
  BY ExecutorAssumption DEF Idle, GStates, Kinds, Running, NoChild

\* Every step keeps the types: per action, the record it leaves in g, and then
\* the rest of the state.
LEMMA TypeStep ==
  ASSUME ExecTypeOK, StoresResult, [Next]_vars
  PROVE  ExecTypeOK'
<1> USE ExecutorAssumption
<1>0. \A x \in Goroutines : g[x] \in GStates
  BY DEF ExecTypeOK
<1>a. \A x \in Goroutines : g[x].kind \in Kinds
  BY <1>0 DEF GStates
<1>1. ASSUME NEW x \in Goroutines, ReadStatus(x) PROVE ExecTypeOK'
  <2>1. [g[x] EXCEPT !.pc = "guard", !.st = Status(g[x].kind)] \in GStates
    BY <1>0, <1>1, ZenonT(40) DEF GStates, ExecTypeOK, Status, Kinds
  <2> QED
    BY <1>1, <2>1 DEF ReadStatus, ExecTypeOK
<1>2. ASSUME NEW x \in Goroutines, AnswerBusy(x) PROVE ExecTypeOK'
  <2>1. [g[x] EXCEPT !.pc = "publish", !.out = "busy"] \in GStates
    BY <1>0, <1>2 DEF GStates
  <2> QED
    BY <1>2, <2>1 DEF AnswerBusy, ExecTypeOK
<1>3. ASSUME NEW x \in Goroutines, Register(x) PROVE ExecTypeOK'
  <2>1. [g[x] EXCEPT !.pc = "execute"] \in GStates
    BY <1>0, <1>3 DEF GStates, Running
  <2> QED
    BY <1>3, <2>1, <1>a DEF Register, ExecTypeOK
<1>4. ASSUME NEW x \in Goroutines, NEW y \in Goroutines, Detach(x, y) PROVE ExecTypeOK'
  <2>1. [g[x] EXCEPT !.pc = "publish", !.out = "busy"] \in GStates
    BY <1>0, <1>4 DEF GStates
  <2> QED
    BY <1>4, <2>1, IdleType DEF Detach, ExecTypeOK, Kinds
<1>5. ASSUME NEW x \in Goroutines, Lookup(x) PROVE ExecTypeOK'
  <2>1. CASE key[g[x].kind] \in Results
    <3>1. [g[x] EXCEPT !.pc = "done", !.out = key[g[x].kind]] \in GStates
      BY <1>0, <2>1 DEF GStates, Running
    <3> QED
      BY <1>5, <2>1, <3>1 DEF Lookup, ExecTypeOK
  <2>2. CASE key[g[x].kind] \notin Results
    <3>1. [g[x] EXCEPT !.pc = "work"] \in GStates
      BY <1>0 DEF GStates, Running
    <3> QED
      BY <1>5, <2>2, <3>1 DEF Lookup, ExecTypeOK
  <2> QED
    BY <2>1, <2>2
<1>6. ASSUME NEW x \in Goroutines, Store(x) PROVE ExecTypeOK'
  <2>1. [g[x] EXCEPT !.pc = "done"] \in GStates
    BY <1>0, <1>6 DEF GStates, Running
  <2> QED
    BY <1>6, <2>1, <1>a DEF Store, ExecTypeOK, StoresResult
<1>7. ASSUME NEW x \in Goroutines, Finish(x) PROVE ExecTypeOK'
  <2>1. [g[x] EXCEPT !.pc = "publish"] \in GStates
    BY <1>0, <1>7 DEF GStates
  <2> QED
    BY <1>7, <2>1 DEF Finish, ExecTypeOK
<1>8. ASSUME NEW x \in Goroutines, Publish(x) PROVE ExecTypeOK'
  <2>1. Conclusive(x) \subseteq Kinds \X (Results \cup {"error"})
    BY <1>0 DEF Conclusive, GStates
  <2> QED
    BY <1>8, <2>1, IdleType DEF Publish, ExecTypeOK
<1>9. ASSUME NEW x \in Goroutines, NEW out \in Results, Work(x, out) PROVE ExecTypeOK'
  <2>1. [g[x] EXCEPT !.pc = "store", !.out = out] \in GStates
    BY <1>0, <1>9 DEF GStates, Running
  <2>2. done' \in [Kinds -> Nat] /\ effects' \in [Kinds -> Nat]
    BY <1>9, <1>a DEF Work, Counted, ExecTypeOK
  <2> QED
    BY <1>9, <2>1, <2>2 DEF Work, ExecTypeOK
<1>10. ASSUME NEW x \in Goroutines, NEW c \in 1..Children, SpawnSubSaga(x, c) PROVE ExecTypeOK'
  <2>1. [g[x] EXCEPT !.pc = "poll", !.child = c] \in GStates
    <3>1. c \in 0..Children
      OBVIOUS
    <3> QED
      BY <1>0, <3>1 DEF GStates, Running
  <2>2. child' \in [1..Children -> ChildStates]
    BY <1>10 DEF SpawnSubSaga, ChildStates, ExecTypeOK
  <2>3. done' \in [Kinds -> Nat] /\ effects' \in [Kinds -> Nat]
    BY <1>10, <1>a, SMTT(30) DEF SpawnSubSaga, Counted, ExecTypeOK
  <2> QED
    BY <1>10, <2>1, <2>2, <2>3 DEF SpawnSubSaga, ExecTypeOK
<1>11. ASSUME NEW x \in Goroutines, Poll(x) PROVE ExecTypeOK'
  <2>0. PollResult(child[g[x].child]) \in Results
    BY DEF PollResult, Results
  <2>1. [g[x] EXCEPT !.pc = "store", !.out = PollResult(child[g[x].child])] \in GStates
    BY <1>0, <2>0 DEF GStates, Running
  <2>2. [g[x] EXCEPT !.seen = "once", !.errs = 0] \in GStates
    <3>1. 0 \in 0..MaxPollErrors
      OBVIOUS
    <3> QED
      BY <1>0, <3>1 DEF GStates
  <2> QED
    BY <1>11, <2>1, <2>2 DEF Poll, ExecTypeOK
<1>12. ASSUME NEW x \in Goroutines, StatusFails(x) PROVE ExecTypeOK'
  <2>1. [g[x] EXCEPT !.pc = "publish", !.out = "error"] \in GStates
    BY <1>0, <1>12 DEF GStates
  <2> QED
    BY <1>12, <2>1 DEF StatusFails, ExecTypeOK, Fault
<1>13. ASSUME NEW x \in Goroutines, ExecuteErrs(x) PROVE ExecTypeOK'
  <2>1. [g[x] EXCEPT !.pc = "done", !.out = "error"] \in GStates
    BY <1>0, <1>13 DEF GStates, Running
  <2> QED
    BY <1>13, <2>1 DEF ExecuteErrs, ExecTypeOK, Fault
<1>14. ASSUME NEW x \in Goroutines, SpawnFails(x) PROVE ExecTypeOK'
  <2>1. [g[x] EXCEPT !.pc = "store", !.out = "fail"] \in GStates
    BY <1>0, <1>14 DEF GStates, Running, Results
  <2> QED
    BY <1>14, <2>1 DEF SpawnFails, ExecTypeOK, Fault
<1>15. ASSUME NEW x \in Goroutines, PollFails(x) PROVE ExecTypeOK'
  <2>1. [g[x] EXCEPT !.pc = "store", !.out = "fail"] \in GStates
    BY <1>0 DEF GStates, Running, Results
  <2>2. ~(g[x].errs + 1 >= MaxPollErrors) => [g[x] EXCEPT !.errs = @ + 1] \in GStates
    BY <1>0 DEF GStates
  <2> QED
    BY <1>15, <2>1, <2>2 DEF PollFails, Fault, ExecTypeOK
<1>16. ASSUME NEW x \in Goroutines, PollGivesUp(x) PROVE ExecTypeOK'
  <2>1. [g[x] EXCEPT !.pc = "store", !.out = "fail"] \in GStates
    BY <1>0, <1>16 DEF GStates, Running, Results
  <2> QED
    BY <1>16, <2>1 DEF PollGivesUp, ExecTypeOK, Fault
<1>17. ASSUME NEW x \in Goroutines, PublishFails(x) PROVE ExecTypeOK'
  <2>1. g[x].owns \in Nat
    BY <1>0 DEF GStates
  <2>2. inbox' \in [Kinds -> Nat]
    BY <1>17, <1>a, <2>1 DEF PublishFails, ExecTypeOK
  <2> QED
    BY <1>17, <2>2, IdleType DEF PublishFails, Fault, ExecTypeOK
<1>18. ASSUME NEW x \in Goroutines, CallbackTimeout(x) PROVE ExecTypeOK'
  <2>1. [g[x] EXCEPT !.owns = 0] \in GStates
    BY <1>0, <1>18 DEF GStates
  <2> QED
    BY <1>18, <2>1, <1>a DEF CallbackTimeout, ExecTypeOK, Fault
<1>19. ASSUME NEW x \in Goroutines, NEW k \in Kinds, Receive(x, k) PROVE ExecTypeOK'
  <2>1. [Idle EXCEPT !.pc = "status", !.kind = k, !.owns = 1] \in GStates
    <3>1. /\ NoChild \in 0..Children /\ 0 \in 0..MaxPollErrors /\ 1 \in 0..1
      BY DEF NoChild
    <3> QED
      BY <3>1 DEF GStates, Idle
  <2>2. inbox' \in [Kinds -> Nat]
    BY <1>19 DEF Receive, ExecTypeOK
  <2> QED
    BY <1>19, <2>1, <2>2 DEF Receive, ExecTypeOK
<1>20. CASE CompensationRequested
  BY <1>20 DEF CompensationRequested, ExecTypeOK, Kinds
<1>21. CASE Restart
  <2>1. \A k \in Kinds : Unacked(k) \in Nat
    BY FS_Subset, FS_CardinalityType DEF Unacked
  <2>2. inbox' \in [Kinds -> Nat]
    BY <1>21, <2>1, SMTT(30) DEF Restart, ExecTypeOK
  <2>3. key' \in [Kinds -> {"NotSeen", "InProgress"} \cup Results]
    BY <1>21 DEF Restart, ExecTypeOK
  <2>4. g' \in [Goroutines -> GStates] /\ done' \in [Kinds -> Nat]
    BY <1>21, IdleType DEF Restart
  <2> QED
    BY <1>21, <2>2, <2>3, <2>4 DEF Restart, Fault, ExecTypeOK
<1>22. ASSUME NEW c \in 1..Children, ChildMoves(c) PROVE ExecTypeOK'
  BY <1>22 DEF ChildMoves, Ended, ChildStates, ExecTypeOK
<1>30. CASE UNCHANGED vars
  BY <1>30 DEF ExecTypeOK, vars
<1>31. QED
  BY <1>1, <1>2, <1>3, <1>4, <1>5, <1>6, <1>7, <1>8, <1>9, <1>10, <1>11,
     <1>12, <1>13, <1>14, <1>15, <1>16, <1>17, <1>18, <1>19, <1>20, <1>21, <1>22, <1>30
  DEF Next, Callback, Serve, Execute, Compensate, Failure

-----------------------------------------------------------------------------

\* x moves within a run of the key, or outside of one.
KeepsRunning(x) ==
  /\ \A z \in Goroutines \ {x} : g'[z] = g[z]
  /\ g'[x].pc \in Running <=> g[x].pc \in Running
  /\ g[x].pc \in Running => g'[x].kind = g[x].kind

\* Such a move does not concern the in-flight maps.
LEMMA GuardKept ==
  ASSUME OneAtATime, NEW x \in Goroutines, KeepsRunning(x), inFlight' = inFlight
  PROVE  OneAtATime'
<1>1. \A z \in Goroutines :
        /\ g'[z].pc \in Running <=> g[z].pc \in Running
        /\ g[z].pc \in Running => g'[z].kind = g[z].kind
  BY DEF KeepsRunning
<1> QED
  BY <1>1 DEF OneAtATime

\* Every step keeps the in-flight guard exact.
LEMMA GuardStep ==
  ASSUME ExecTypeOK, OneAtATime, [Next]_vars
  PROVE  OneAtATime'
<1>0. \A x \in Goroutines : g[x] \in GStates
  BY DEF ExecTypeOK
<1>1. ASSUME NEW x \in Goroutines, ReadStatus(x) PROVE OneAtATime'
  <2>1. KeepsRunning(x) /\ inFlight' = inFlight
    BY <1>0, <1>1 DEF ReadStatus, KeepsRunning, Running, ExecTypeOK, GStates
  <2> QED
    BY <2>1, GuardKept
<1>2. ASSUME NEW x \in Goroutines, AnswerBusy(x) PROVE OneAtATime'
  <2>1. KeepsRunning(x) /\ inFlight' = inFlight
    BY <1>0, <1>2 DEF AnswerBusy, KeepsRunning, Running, ExecTypeOK, GStates
  <2> QED
    BY <2>1, GuardKept
<1>3. ASSUME NEW x \in Goroutines, Register(x) PROVE OneAtATime'
  <2>1. /\ \A z \in Goroutines \ {x} : g'[z] = g[z]
        /\ g'[x].pc = "execute" /\ g'[x].kind = g[x].kind /\ g[x].kind \in Kinds
    BY <1>0, <1>3 DEF Register, GStates, ExecTypeOK
  <2>2. g[x].kind \notin inFlight /\ inFlight' = inFlight \cup {g[x].kind}
    BY <1>3 DEF Register, Guarded
  <2>3. "execute" \in Running /\ g[x].pc \notin Running
    BY <1>3 DEF Running, Register
  <2> QED
    BY <2>1, <2>2, <2>3 DEF OneAtATime
<1>4. ASSUME NEW x \in Goroutines, NEW y \in Goroutines, Detach(x, y) PROVE OneAtATime'
  <2>0. x # y
    BY <1>4 DEF Detach
  <2>1. /\ \A z \in Goroutines \ {x, y} : g'[z] = g[z]
        /\ g'[x].pc = "publish" /\ g'[y].pc = "execute" /\ g'[y].kind = "exec"
    BY <1>0, <1>4, <2>0 DEF Detach, GStates, ExecTypeOK, Idle
  <2>2. "exec" \notin inFlight /\ inFlight' = inFlight \cup {"exec"} /\ "exec" \in Kinds
    BY <1>4 DEF Detach, Guarded, Detaches, Kinds
  <2>3. /\ "execute" \in Running /\ "publish" \notin Running
        /\ g[x].pc \notin Running /\ g[y].pc \notin Running
    BY <1>4 DEF Running, Detach
  <2> QED
    BY <2>0, <2>1, <2>2, <2>3 DEF OneAtATime
<1>5. ASSUME NEW x \in Goroutines, Lookup(x) PROVE OneAtATime'
  <2>1. KeepsRunning(x) /\ inFlight' = inFlight
    BY <1>0, <1>5 DEF Lookup, KeepsRunning, Running, ExecTypeOK, GStates
  <2> QED
    BY <2>1, GuardKept
<1>6. ASSUME NEW x \in Goroutines, Store(x) PROVE OneAtATime'
  <2>1. KeepsRunning(x) /\ inFlight' = inFlight
    BY <1>0, <1>6 DEF Store, KeepsRunning, Running, ExecTypeOK, GStates
  <2> QED
    BY <2>1, GuardKept
<1>7. ASSUME NEW x \in Goroutines, Finish(x) PROVE OneAtATime'
  <2>1. /\ \A z \in Goroutines \ {x} : g'[z] = g[z]
        /\ g'[x].pc = "publish" /\ g[x].kind \in Kinds
    BY <1>0, <1>7 DEF Finish, GStates, ExecTypeOK
  <2>2. inFlight' = inFlight \ {g[x].kind} /\ g[x].pc \in Running /\ "publish" \notin Running
    BY <1>7 DEF Finish, Running
  <2> QED
    BY <2>1, <2>2 DEF OneAtATime
<1>8. ASSUME NEW x \in Goroutines, Publish(x) PROVE OneAtATime'
  <2>1. KeepsRunning(x) /\ inFlight' = inFlight
    BY <1>0, <1>8 DEF Publish, KeepsRunning, Running, ExecTypeOK, GStates, Idle
  <2> QED
    BY <2>1, GuardKept
<1>9. ASSUME NEW x \in Goroutines, NEW out \in Results, Work(x, out) PROVE OneAtATime'
  <2>1. KeepsRunning(x) /\ inFlight' = inFlight
    BY <1>0, <1>9 DEF Work, KeepsRunning, Running, ExecTypeOK, GStates
  <2> QED
    BY <2>1, GuardKept
<1>10. ASSUME NEW x \in Goroutines, NEW c \in 1..Children, SpawnSubSaga(x, c) PROVE OneAtATime'
  <2>1. KeepsRunning(x) /\ inFlight' = inFlight
    BY <1>0, <1>10 DEF SpawnSubSaga, KeepsRunning, Running, ExecTypeOK, GStates
  <2> QED
    BY <2>1, GuardKept
<1>11. ASSUME NEW x \in Goroutines, Poll(x) PROVE OneAtATime'
  <2>1. KeepsRunning(x) /\ inFlight' = inFlight
    BY <1>0, <1>11 DEF Poll, KeepsRunning, Running, ExecTypeOK, GStates
  <2> QED
    BY <2>1, GuardKept
<1>12. ASSUME NEW x \in Goroutines, StatusFails(x) PROVE OneAtATime'
  <2>1. KeepsRunning(x) /\ inFlight' = inFlight
    BY <1>0, <1>12 DEF StatusFails, KeepsRunning, Running, ExecTypeOK, GStates
  <2> QED
    BY <2>1, GuardKept
<1>13. ASSUME NEW x \in Goroutines, ExecuteErrs(x) PROVE OneAtATime'
  <2>1. KeepsRunning(x) /\ inFlight' = inFlight
    BY <1>0, <1>13 DEF ExecuteErrs, KeepsRunning, Running, ExecTypeOK, GStates
  <2> QED
    BY <2>1, GuardKept
<1>14. ASSUME NEW x \in Goroutines, SpawnFails(x) PROVE OneAtATime'
  <2>1. KeepsRunning(x) /\ inFlight' = inFlight
    BY <1>0, <1>14 DEF SpawnFails, KeepsRunning, Running, ExecTypeOK, GStates
  <2> QED
    BY <2>1, GuardKept
<1>15. ASSUME NEW x \in Goroutines, PollFails(x) PROVE OneAtATime'
  <2>1. KeepsRunning(x) /\ inFlight' = inFlight
    BY <1>0, <1>15 DEF PollFails, KeepsRunning, Running, ExecTypeOK, GStates
  <2> QED
    BY <2>1, GuardKept
<1>16. ASSUME NEW x \in Goroutines, PollGivesUp(x) PROVE OneAtATime'
  <2>1. KeepsRunning(x) /\ inFlight' = inFlight
    BY <1>0, <1>16 DEF PollGivesUp, KeepsRunning, Running, ExecTypeOK, GStates
  <2> QED
    BY <2>1, GuardKept
<1>17. ASSUME NEW x \in Goroutines, PublishFails(x) PROVE OneAtATime'
  <2>1. KeepsRunning(x) /\ inFlight' = inFlight
    BY <1>0, <1>17 DEF PublishFails, KeepsRunning, Running, ExecTypeOK, GStates, Idle
  <2> QED
    BY <2>1, GuardKept
<1>18. ASSUME NEW x \in Goroutines, CallbackTimeout(x) PROVE OneAtATime'
  <2>1. KeepsRunning(x) /\ inFlight' = inFlight
    BY <1>0, <1>18 DEF CallbackTimeout, KeepsRunning, Running, ExecTypeOK, GStates
  <2> QED
    BY <2>1, GuardKept
<1>19. ASSUME NEW x \in Goroutines, NEW k \in Kinds, Receive(x, k) PROVE OneAtATime'
  <2>1. KeepsRunning(x) /\ inFlight' = inFlight
    BY <1>0, <1>19 DEF Receive, KeepsRunning, Running, ExecTypeOK, GStates, Idle
  <2> QED
    BY <2>1, GuardKept
<1>20. CASE CompensationRequested
  BY <1>20 DEF CompensationRequested, OneAtATime
<1>21. CASE Restart
  BY <1>21 DEF Restart, OneAtATime, Idle, Running
<1>22. ASSUME NEW c \in 1..Children, ChildMoves(c) PROVE OneAtATime'
  BY <1>22 DEF ChildMoves, OneAtATime
<1>30. CASE UNCHANGED vars
  BY <1>30 DEF OneAtATime, vars
<1>31. QED
  BY <1>1, <1>2, <1>3, <1>4, <1>5, <1>6, <1>7, <1>8, <1>9, <1>10, <1>11,
     <1>12, <1>13, <1>14, <1>15, <1>16, <1>17, <1>18, <1>19, <1>20, <1>21, <1>22, <1>30
  DEF Next, Callback, Serve, Execute, Compensate, Failure

-----------------------------------------------------------------------------

\* Why the work is done once although the status that lets a goroutine pass
\* may be stale: whoever works does so on a key without a result, and what has
\* been done is stored, or about to be by the one goroutine in the guard.
WorkInv ==
  /\ WorkOncePerLife
  /\ StoresResult
  /\ \A x \in Goroutines : g[x].pc = "work" => done[g[x].kind] = 0
  /\ \A x \in Goroutines : g[x].pc \in {"work", "poll", "store"} => key[g[x].kind] \notin Results
  /\ \A k \in Kinds : done[k] > 0 =>
       \/ key[k] \in Results
       \/ \E x \in Goroutines : g[x].pc \in {"poll", "store"} /\ g[x].kind = k

\* A step that leaves the service's record, and what is in it, alone.
LEMMA WorkKept ==
  ASSUME WorkInv, key' = key, done' = done, NEW x \in Goroutines,
         \A z \in Goroutines \ {x} : g'[z] = g[z],
         g'[x].pc \notin {"work", "poll", "store"}, g[x].pc \notin {"poll", "store"}
  PROVE  WorkInv'
  BY DEF WorkInv, WorkOncePerLife, StoresResult

\* Every step keeps it.
LEMMA WorkStep ==
  ASSUME ExecTypeOK, OneAtATime, WorkInv, [Next]_vars
  PROVE  WorkInv'
<1>0. \A x \in Goroutines : g[x] \in GStates /\ g[x].kind \in Kinds
  BY DEF ExecTypeOK, GStates
<1>b. \A x, y \in Goroutines :
        g[x].pc \in Running /\ g[y].pc \in Running /\ g[x].kind = g[y].kind => x = y
  BY DEF OneAtATime
<1>1. ASSUME NEW x \in Goroutines, ReadStatus(x) PROVE WorkInv'
  BY <1>0, <1>1, WorkKept DEF ReadStatus, ExecTypeOK, GStates
<1>2. ASSUME NEW x \in Goroutines, AnswerBusy(x) PROVE WorkInv'
  BY <1>0, <1>2, WorkKept DEF AnswerBusy, ExecTypeOK, GStates
<1>3. ASSUME NEW x \in Goroutines, Register(x) PROVE WorkInv'
  BY <1>0, <1>3, WorkKept DEF Register, ExecTypeOK, GStates
<1>4. ASSUME NEW x \in Goroutines, NEW y \in Goroutines, Detach(x, y) PROVE WorkInv'
  <2>0. x # y
    BY <1>4 DEF Detach
  <2>1. /\ \A z \in Goroutines \ {x, y} : g'[z] = g[z]
        /\ g'[x].pc = "publish" /\ g'[y].pc = "execute" /\ key' = key /\ done' = done
    BY <1>0, <1>4, <2>0 DEF Detach, GStates, ExecTypeOK, Idle
  <2>2. g[x].pc = "guard" /\ g[y].pc = "idle"
    BY <1>4 DEF Detach
  <2> QED
    BY <2>0, <2>1, <2>2 DEF WorkInv, WorkOncePerLife, StoresResult
<1>5. ASSUME NEW x \in Goroutines, Lookup(x) PROVE WorkInv'
  <2>1. CASE key[g[x].kind] \in Results
    <3>1. /\ \A z \in Goroutines \ {x} : g'[z] = g[z]
          /\ g'[x].pc = "done" /\ g[x].pc = "execute" /\ key' = key /\ done' = done
      BY <1>0, <1>5, <2>1 DEF Lookup, ExecTypeOK, GStates
    <3> QED
      BY <3>1, WorkKept
  <2>2. CASE key[g[x].kind] \notin Results
    <3>1. \A y \in Goroutines : g[y].kind = g[x].kind => g[y].pc \notin {"poll", "store"}
      BY <1>b, <1>5 DEF Running, Lookup
    <3>2. done[g[x].kind] = 0
      <4>1. ~(done[g[x].kind] > 0)
        BY <1>0, <3>1, <2>2 DEF WorkInv
      <4>2. done[g[x].kind] \in Nat
        BY <1>0 DEF ExecTypeOK
      <4> QED
        BY <4>1, <4>2
    <3>3. /\ \A z \in Goroutines \ {x} : g'[z] = g[z]
          /\ g'[x].pc = "work" /\ g'[x].kind = g[x].kind /\ done' = done
      BY <1>0, <1>5, <2>2 DEF Lookup, ExecTypeOK, GStates
    <3>4. \A k \in Kinds : key'[k] \in Results <=> key[k] \in Results
      BY <1>0, <1>5, <2>2 DEF Lookup, ExecTypeOK, Results
    <3> QED
      BY <1>0, <1>5, <3>2, <3>3, <3>4, <2>2 DEF WorkInv, WorkOncePerLife, StoresResult, Lookup
  <2> QED
    BY <2>1, <2>2
<1>6. ASSUME NEW x \in Goroutines, Store(x) PROVE WorkInv'
  <2>1. /\ \A z \in Goroutines \ {x} : g'[z] = g[z]
        /\ g'[x].pc = "done" /\ done' = done
    BY <1>0, <1>6 DEF Store, ExecTypeOK, GStates
  <2>2. /\ key'[g[x].kind] \in Results
        /\ \A k \in Kinds \ {g[x].kind} : key'[k] = key[k]
    BY <1>0, <1>6 DEF Store, ExecTypeOK, WorkInv, StoresResult
  <2>3. \A z \in Goroutines \ {x} : g[z].pc \in Running => g[z].kind # g[x].kind
    BY <1>b, <1>6 DEF Store, Running
  <2> QED
    BY <1>0, <2>1, <2>2, <2>3 DEF WorkInv, WorkOncePerLife, StoresResult, Running
<1>7. ASSUME NEW x \in Goroutines, Finish(x) PROVE WorkInv'
  BY <1>0, <1>7, WorkKept DEF Finish, ExecTypeOK, GStates
<1>8. ASSUME NEW x \in Goroutines, Publish(x) PROVE WorkInv'
  BY <1>0, <1>8, WorkKept DEF Publish, ExecTypeOK, GStates, Idle
<1>9. ASSUME NEW x \in Goroutines, NEW out \in Results, Work(x, out) PROVE WorkInv'
  <2>1. /\ \A z \in Goroutines \ {x} : g'[z] = g[z]
        /\ g'[x].pc = "store" /\ g'[x].kind = g[x].kind /\ g'[x].out = out /\ key' = key
    BY <1>0, <1>9 DEF Work, ExecTypeOK, GStates
  <2>2. g[x].pc = "work" /\ done[g[x].kind] = 0
    BY <1>9 DEF Work, WorkInv
  <2>3. done'[g[x].kind] = 1 /\ \A k \in Kinds \ {g[x].kind} : done'[k] = done[k]
    BY <1>0, <1>9, <2>2 DEF Work, Counted, ExecTypeOK
  <2>4. \A z \in Goroutines \ {x} : g[z].pc \in Running => g[z].kind # g[x].kind
    BY <1>b, <2>2 DEF Running
  <2> QED
    BY <1>0, <2>1, <2>2, <2>3, <2>4 DEF WorkInv, WorkOncePerLife, StoresResult, Running
<1>10. ASSUME NEW x \in Goroutines, NEW c \in 1..Children, SpawnSubSaga(x, c) PROVE WorkInv'
  <2>1. /\ \A z \in Goroutines \ {x} : g'[z] = g[z]
        /\ g'[x].pc = "poll" /\ g'[x].kind = g[x].kind /\ key' = key
    BY <1>0, <1>10 DEF SpawnSubSaga, ExecTypeOK, GStates
  <2>2. g[x].pc = "work" /\ done[g[x].kind] = 0
    BY <1>10 DEF SpawnSubSaga, WorkInv
  <2>3. done'[g[x].kind] = 1 /\ \A k \in Kinds \ {g[x].kind} : done'[k] = done[k]
    BY <1>0, <1>10, <2>2 DEF SpawnSubSaga, Counted, ExecTypeOK
  <2>4. \A z \in Goroutines \ {x} : g[z].pc \in Running => g[z].kind # g[x].kind
    BY <1>b, <2>2 DEF Running
  <2> QED
    BY <1>0, <2>1, <2>2, <2>3, <2>4 DEF WorkInv, WorkOncePerLife, StoresResult, Running
<1>11. ASSUME NEW x \in Goroutines, Poll(x) PROVE WorkInv'
  <2>0. PollResult(child[g[x].child]) \in Results
    BY DEF PollResult, Results
  <2>1. /\ \A z \in Goroutines \ {x} : g'[z] = g[z]
        /\ \/ g'[x].pc = "store" /\ g'[x].out \in Results
           \/ g'[x].pc = "poll"
        /\ g'[x].kind = g[x].kind /\ key' = key /\ done' = done /\ g[x].pc = "poll"
    BY <1>0, <1>11, <2>0 DEF Poll, ExecTypeOK, GStates
  <2> QED
    BY <1>0, <2>1 DEF WorkInv, WorkOncePerLife, StoresResult
<1>12. ASSUME NEW x \in Goroutines, StatusFails(x) PROVE WorkInv'
  BY <1>0, <1>12, WorkKept DEF StatusFails, ExecTypeOK, GStates
<1>13. ASSUME NEW x \in Goroutines, ExecuteErrs(x) PROVE WorkInv'
  BY <1>0, <1>13, WorkKept DEF ExecuteErrs, ExecTypeOK, GStates
<1>14. ASSUME NEW x \in Goroutines, SpawnFails(x) PROVE WorkInv'
  <2>1. /\ \A z \in Goroutines \ {x} : g'[z] = g[z]
        /\ g'[x].pc = "store" /\ g'[x].kind = g[x].kind /\ g'[x].out = "fail"
        /\ key' = key /\ done' = done /\ g[x].pc = "work"
    BY <1>0, <1>14 DEF SpawnFails, ExecTypeOK, GStates
  <2> QED
    BY <1>0, <2>1 DEF WorkInv, WorkOncePerLife, StoresResult, Results
<1>15. ASSUME NEW x \in Goroutines, PollFails(x) PROVE WorkInv'
  <2>1. /\ \A z \in Goroutines \ {x} : g'[z] = g[z]
        /\ \/ g'[x].pc = "store" /\ g'[x].out = "fail"
           \/ g'[x].pc = "poll"
        /\ g'[x].kind = g[x].kind /\ key' = key /\ done' = done /\ g[x].pc = "poll"
    BY <1>0, <1>15 DEF PollFails, ExecTypeOK, GStates
  <2> QED
    BY <1>0, <2>1 DEF WorkInv, WorkOncePerLife, StoresResult, Results
<1>16. ASSUME NEW x \in Goroutines, PollGivesUp(x) PROVE WorkInv'
  <2>1. /\ \A z \in Goroutines \ {x} : g'[z] = g[z]
        /\ g'[x].pc = "store" /\ g'[x].kind = g[x].kind /\ g'[x].out = "fail"
        /\ key' = key /\ done' = done /\ g[x].pc = "poll"
    BY <1>0, <1>16 DEF PollGivesUp, ExecTypeOK, GStates
  <2> QED
    BY <1>0, <2>1 DEF WorkInv, WorkOncePerLife, StoresResult, Results
<1>17. ASSUME NEW x \in Goroutines, PublishFails(x) PROVE WorkInv'
  BY <1>0, <1>17, WorkKept DEF PublishFails, ExecTypeOK, GStates, Idle
<1>18. ASSUME NEW x \in Goroutines, CallbackTimeout(x) PROVE WorkInv'
  <2>1. /\ \A z \in Goroutines : /\ g'[z].pc = g[z].pc /\ g'[z].kind = g[z].kind
                                  /\ g'[z].out = g[z].out
        /\ key' = key /\ done' = done
    BY <1>0, <1>18 DEF CallbackTimeout, ExecTypeOK, GStates
  <2> QED
    BY <2>1 DEF WorkInv, WorkOncePerLife, StoresResult
<1>19. ASSUME NEW x \in Goroutines, NEW k \in Kinds, Receive(x, k) PROVE WorkInv'
  BY <1>0, <1>19, WorkKept DEF Receive, ExecTypeOK, GStates, Idle
<1>20. CASE CompensationRequested
  BY <1>20 DEF CompensationRequested, WorkInv, WorkOncePerLife, StoresResult
<1>21. CASE Restart
  <2>1. /\ \A x \in Goroutines : g'[x].pc = "idle"
        /\ \A k \in Kinds : done'[k] = 0
    BY <1>21 DEF Restart, Idle
  <2> QED
    BY <1>0, <2>1 DEF WorkInv, WorkOncePerLife, StoresResult
<1>22. ASSUME NEW c \in 1..Children, ChildMoves(c) PROVE WorkInv'
  BY <1>22 DEF ChildMoves, WorkInv, WorkOncePerLife, StoresResult
<1>30. CASE UNCHANGED vars
  BY <1>30 DEF WorkInv, WorkOncePerLife, StoresResult, vars
<1>31. QED
  BY <1>1, <1>2, <1>3, <1>4, <1>5, <1>6, <1>7, <1>8, <1>9, <1>10, <1>11,
     <1>12, <1>13, <1>14, <1>15, <1>16, <1>17, <1>18, <1>19, <1>20, <1>21, <1>22, <1>30
  DEF Next, Callback, Serve, Execute, Compensate, Failure

-----------------------------------------------------------------------------
(* What is answered.                                                       *)

\* A success of this kind is true.
Earned(k) ==
  /\ effects[k] > 0
  /\ isSubSagaExecutor /\ k = "exec" => \E c \in 1..Children : child[c] = "committed"

\* What a goroutine will answer: in the first life of the process the stored
\* result, never a success that was not earned; an error only after an error of
\* the service; and something about a compensation only if one was requested.
Honest(x) ==
  /\ lives = 0 /\ g[x].pc \in {"done", "publish"} /\ g[x].out \in Results => key[g[x].kind] = g[x].out
  /\ g[x].pc \in {"store", "done", "publish"} /\ g[x].out = "ok" => Earned(g[x].kind)
  /\ g[x].pc = "poll" => g[x].child \in 1..Children /\ effects[g[x].kind] > 0
  /\ lives = 0 /\ ~erred => g[x].out # "error"
  /\ lives = 0 /\ g[x].kind = "comp" => "comp" \in asked

\* The same of what is stored and what has been answered.  Once a compensation
\* is requested the execution has its result, and nobody executes any more.
Answering ==
  /\ lives = 0 => \A k \in Kinds, r \in Results : <<k, r>> \in answers => key[k] = r
  /\ \A k \in Kinds : key[k] = "ok" \/ <<k, "ok">> \in answers => Earned(k)
  /\ lives = 0 /\ "comp" \notin asked => done["comp"] = 0 /\ inbox["comp"] = 0
  /\ lives = 0 /\ ~erred => \A k \in Kinds : <<k, "error">> \notin answers
  /\ lives = 0 /\ ~erred /\ "comp" \in asked => key["exec"] \in Results

AnswerInv == Answering /\ \A x \in Goroutines : Honest(x)

\* What no step but a restart takes back: a stored result, an earned success, a
\* request, an error.
Advances ==
  /\ lives' = lives /\ asked \subseteq asked' /\ (erred => erred')
  /\ \A k \in Kinds : /\ Earned(k) => Earned(k)'
                      /\ effects[k] > 0 => effects'[k] > 0
                      /\ key[k] \in Results => key'[k] = key[k]

\* Only a restart takes it back.
LEMMA AdvancesStep ==
  ASSUME ExecTypeOK, WorkInv, [Next]_vars, ~Restart
  PROVE  Advances
<1>0. \A x \in Goroutines : g[x].kind \in Kinds
  BY DEF ExecTypeOK, GStates
<1>1. CASE UNCHANGED <<key, child, effects, lives, config>> /\ asked \subseteq asked' /\ (erred => erred')
  BY <1>1 DEF Advances, Earned, isSubSagaExecutor
<1>2. ASSUME NEW x \in Goroutines, Lookup(x) \/ Store(x) PROVE Advances
  <2>1. key[g[x].kind] \notin Results \/ key' = key
    BY <1>2 DEF Lookup, Store, WorkInv
  <2>2. \A k \in Kinds : k # g[x].kind => key'[k] = key[k]
    BY <1>2, <1>0 DEF Lookup, Store, ExecTypeOK
  <2>3. UNCHANGED <<asked, child, effects, lives, erred, config>>
    BY <1>2 DEF Lookup, Store
  <2>4. \A k \in Kinds : key[k] \in Results => key'[k] = key[k]
    BY <2>1, <2>2
  <2> QED
    BY <2>3, <2>4 DEF Advances, Earned, isSubSagaExecutor
<1>3. ASSUME NEW x \in Goroutines, NEW out \in Results, Work(x, out) PROVE Advances
  <2>1. \A k \in Kinds : effects[k] > 0 => effects'[k] > 0
    BY <1>0, <1>3 DEF Work, Counted, ExecTypeOK
  <2>2. UNCHANGED <<key, asked, child, lives, erred, config>>
    BY <1>3 DEF Work
  <2> QED
    BY <2>1, <2>2 DEF Advances, Earned, isSubSagaExecutor
<1>4. ASSUME NEW x \in Goroutines, NEW c \in 1..Children, SpawnSubSaga(x, c) PROVE Advances
  <2>1. \A k \in Kinds : effects[k] > 0 => effects'[k] > 0
    BY <1>0, <1>4 DEF SpawnSubSaga, Counted, ExecTypeOK
  <2>2. UNCHANGED <<key, asked, lives, erred, config>>
    BY <1>4 DEF SpawnSubSaga
  <2>3. \A d \in 1..Children : child[d] = "committed" => child'[d] = "committed"
    BY <1>4 DEF SpawnSubSaga, ExecTypeOK
  <2> QED
    BY <2>1, <2>2, <2>3 DEF Advances, Earned, isSubSagaExecutor
<1>5. ASSUME NEW c \in 1..Children, ChildMoves(c) PROVE Advances
  <2>1. \A d \in 1..Children : child[d] = "committed" => child'[d] = "committed"
    BY <1>5 DEF ChildMoves, ExecTypeOK
  <2> QED
    BY <1>5, <2>1 DEF ChildMoves, Advances, Earned, isSubSagaExecutor
<1>6. ASSUME NEW x \in Goroutines, ReadStatus(x) \/ AnswerBusy(x) \/ Register(x) \/ Finish(x)
             \/ Publish(x) \/ Poll(x) PROVE Advances
  BY <1>1, <1>6 DEF ReadStatus, AnswerBusy, Register, Finish, Publish, Poll
<1>7. ASSUME NEW x \in Goroutines, NEW y \in Goroutines, Detach(x, y) PROVE Advances
  BY <1>1, <1>7 DEF Detach
<1>8. ASSUME NEW x \in Goroutines, Failure(x) PROVE Advances
  <2>1. UNCHANGED <<key, asked, child, effects, lives, config>> /\ (erred' = erred \/ erred' = TRUE)
    BY <1>8 DEF Failure, StatusFails, ExecuteErrs, SpawnFails, PollFails, PollGivesUp, PublishFails,
                CallbackTimeout
  <2> QED
    BY <1>1, <2>1, Zenon
<1>9. ASSUME NEW x \in Goroutines, NEW k \in Kinds, Receive(x, k) PROVE Advances
  BY <1>1, <1>9 DEF Receive
<1>10. CASE CompensationRequested
  BY <1>1, <1>10 DEF CompensationRequested
<1>11. CASE UNCHANGED vars
  BY <1>1, <1>11 DEF vars
<1> QED
  BY <1>2, <1>3, <1>4, <1>5, <1>6, <1>7, <1>8, <1>9, <1>10, <1>11
  DEF Next, Callback, Serve, Execute, Compensate

\* A goroutine that does not move stays honest.
LEMMA HonestStays ==
  ASSUME ExecTypeOK, Advances, NEW x \in Goroutines, Honest(x), g'[x] = g[x]
  PROVE  Honest(x)'
<1>1. g[x].kind \in Kinds
  BY DEF ExecTypeOK, GStates
<1>2. lives' = lives /\ (~erred' => ~erred) /\ asked \subseteq asked'
  BY DEF Advances
<1>3. lives' = 0 /\ g'[x].pc \in {"done", "publish"} /\ g'[x].out \in Results => key'[g'[x].kind] = g'[x].out
  BY <1>1, <1>2 DEF Honest, Advances
<1>4. g'[x].pc \in {"store", "done", "publish"} /\ g'[x].out = "ok" => Earned(g[x].kind)'
  <2>1. Earned(g[x].kind) => \A k \in Kinds : k = g[x].kind => Earned(k)'
    BY DEF Advances
  <2> QED
    BY <1>1, <2>1 DEF Honest, Earned, isSubSagaExecutor
<1>5. g'[x].pc = "poll" => g'[x].child \in 1..Children /\ effects'[g'[x].kind] > 0
  BY <1>1 DEF Honest, Advances
<1>6. /\ lives' = 0 /\ ~erred' => g'[x].out # "error"
      /\ lives' = 0 /\ g'[x].kind = "comp" => "comp" \in asked'
  BY <1>2 DEF Honest
<1> QED
  BY <1>3, <1>4, <1>5, <1>6 DEF Honest

\* A step of one goroutine that answers nothing and requests nothing.
LEMMA AnswerKept ==
  ASSUME ExecTypeOK, AnswerInv, Advances, NEW x \in Goroutines,
         \A z \in Goroutines \ {x} : g'[z] = g[z], Honest(x)',
         answers' = answers, asked' = asked,
         \A k \in Kinds : key'[k] = "ok" => key[k] = "ok" \/ Earned(k)',
         lives = 0 /\ "comp" \notin asked => done'["comp"] = 0 /\ inbox'["comp"] = 0
  PROVE  AnswerInv'
<1>1. \A z \in Goroutines : Honest(z)'
  <2>1. ASSUME NEW z \in Goroutines, z # x PROVE Honest(z)'
    <3>1. Honest(z) /\ g'[z] = g[z]
      BY <2>1 DEF AnswerInv
    <3> QED
      BY <3>1, HonestStays
  <2> QED
    BY <2>1
<1>2. lives' = lives /\ (~erred' => ~erred)
  BY DEF Advances
<1>3. lives' = 0 => \A k \in Kinds, r \in Results : <<k, r>> \in answers' => key'[k] = r
  BY <1>2 DEF AnswerInv, Answering, Advances
<1>4. \A k \in Kinds : key'[k] = "ok" \/ <<k, "ok">> \in answers' => Earned(k)'
  BY DEF AnswerInv, Answering, Advances
<1>5. lives' = 0 /\ ~erred' /\ "comp" \in asked' => key'["exec"] \in Results
  BY <1>2 DEF AnswerInv, Answering, Advances, Kinds
<1>6. lives' = 0 /\ ~erred' => \A k \in Kinds : <<k, "error">> \notin answers'
  BY <1>2 DEF AnswerInv, Answering
<1> QED
  BY <1>1, <1>2, <1>3, <1>4, <1>5, <1>6 DEF AnswerInv, Answering

\* Every step keeps the answers honest.
LEMMA AnswerStep ==
  ASSUME ExecTypeOK, WorkInv, AnswerInv, [Next]_vars
  PROVE  AnswerInv'
<1>0. \A x \in Goroutines : g[x] \in GStates /\ g[x].kind \in Kinds /\ Honest(x)
  BY DEF ExecTypeOK, GStates, AnswerInv
<1>a. CASE Restart
  <2>1. lives' # 0 /\ UNCHANGED <<answers, child, effects, config>>
    BY <1>a DEF Restart, ExecTypeOK
  <2>2. \A k \in Kinds : key'[k] = "ok" => key[k] = "ok"
    BY <1>a DEF Restart
  <2>3. \A x \in Goroutines : g'[x] = Idle
    BY <1>a DEF Restart
  <2> QED
    BY <2>1, <2>2, <2>3 DEF AnswerInv, Answering, Honest, Earned, Idle, isSubSagaExecutor
<1> SUFFICES ASSUME ~Restart PROVE AnswerInv'
  BY <1>a
<1>b. Advances
  BY AdvancesStep
<1>c. lives' = lives /\ (~erred' => ~erred) /\ asked \subseteq asked'
  BY <1>b DEF Advances
<1>d. lives = 0 /\ "comp" \notin asked => done["comp"] = 0 /\ inbox["comp"] = 0
  BY DEF AnswerInv, Answering
<1>1. ASSUME NEW x \in Goroutines, ReadStatus(x) \/ AnswerBusy(x) \/ Register(x) PROVE AnswerInv'
  <2>1. /\ \A z \in Goroutines \ {x} : g'[z] = g[z]
        /\ g'[x].pc \in {"guard", "execute"} \/ g'[x].out = "busy"
        /\ g'[x].pc \in {"guard", "execute", "publish"} /\ g'[x].kind = g[x].kind
        /\ g'[x].out \in {g[x].out, "busy"}
    BY <1>0, <1>1 DEF ReadStatus, AnswerBusy, Register, ExecTypeOK, GStates
  <2>2. UNCHANGED <<key, inbox, asked, answers, done, erred>>
    BY <1>1 DEF ReadStatus, AnswerBusy, Register
  <2>3. Honest(x)'
    BY <1>0, <1>c, <2>1, <2>2 DEF Honest, Results
  <2> QED
    BY <1>b, <1>d, <2>1, <2>2, <2>3, AnswerKept
<1>2. ASSUME NEW x \in Goroutines, NEW y \in Goroutines, Detach(x, y) PROVE AnswerInv'
  <2>1. /\ x # y /\ \A z \in Goroutines \ {x, y} : g'[z] = g[z]
        /\ g'[x].pc = "publish" /\ g'[x].out = "busy" /\ g'[x].kind = g[x].kind
        /\ g'[y].pc = "execute" /\ g'[y].out = "busy" /\ g'[y].kind = "exec"
    BY <1>0, <1>2 DEF Detach, ExecTypeOK, GStates, Idle
  <2>2. UNCHANGED <<key, inbox, asked, answers, done, erred, child, effects, lives, config>>
    BY <1>2 DEF Detach
  <2>3. Honest(x)' /\ Honest(y)'
    BY <1>0, <1>c, <2>1, <2>2 DEF Honest, Results
  <2>4. ASSUME NEW z \in Goroutines PROVE Honest(z)'
    BY <1>0, <1>b, <2>1, <2>3, HonestStays
  <2> QED
    BY <2>2, <2>4 DEF AnswerInv, Answering, Earned, isSubSagaExecutor
<1>3. ASSUME NEW x \in Goroutines, Lookup(x) PROVE AnswerInv'
  <2>0. UNCHANGED <<inbox, asked, answers, done, erred>>
    BY <1>3 DEF Lookup
  <2>1. CASE key[g[x].kind] \in Results
    <3>1. /\ \A z \in Goroutines \ {x} : g'[z] = g[z]
          /\ g'[x].pc = "done" /\ g'[x].kind = g[x].kind /\ g'[x].out = key[g[x].kind] /\ key' = key
      BY <1>0, <1>3, <2>1 DEF Lookup, ExecTypeOK, GStates
    <3>2. g'[x].out = "ok" => Earned(g[x].kind)
      BY <1>0, <3>1 DEF AnswerInv, Answering
    <3>3. \A k \in Kinds : k = g[x].kind /\ Earned(k) => Earned(k)'
      BY <1>b DEF Advances
    <3>4. Honest(x)'
      <4>1. g'[x].out = "ok" => Earned(g[x].kind)'
        BY <1>0, <3>1, <3>2, <3>3 DEF Earned, isSubSagaExecutor
      <4> QED
        BY <1>0, <1>c, <2>0, <2>1, <3>1, <4>1 DEF Honest, Results
    <3> QED
      BY <1>b, <1>d, <2>0, <3>1, <3>4, AnswerKept
  <2>2. CASE key[g[x].kind] \notin Results
    <3>1. /\ \A z \in Goroutines \ {x} : g'[z] = g[z]
          /\ g'[x].pc = "work" /\ g'[x].kind = g[x].kind /\ g'[x].out = g[x].out
      BY <1>0, <1>3, <2>2 DEF Lookup, ExecTypeOK, GStates
    <3>2. \A k \in Kinds : key'[k] = "ok" => key[k] = "ok"
      BY <1>0, <1>3, <2>2 DEF Lookup, ExecTypeOK
    <3>3. Honest(x)'
      BY <1>0, <1>c, <2>0, <3>1 DEF Honest
    <3> QED
      BY <1>b, <1>d, <2>0, <3>1, <3>2, <3>3, AnswerKept
  <2> QED
    BY <2>1, <2>2
<1>4. ASSUME NEW x \in Goroutines, Store(x) PROVE AnswerInv'
  <2>0. UNCHANGED <<inbox, asked, answers, done, erred, child, effects, config>>
    BY <1>4 DEF Store
  <2>1. /\ \A z \in Goroutines \ {x} : g'[z] = g[z]
        /\ g'[x].pc = "done" /\ g'[x].kind = g[x].kind /\ g'[x].out = g[x].out
        /\ g[x].pc = "store"
    BY <1>0, <1>4 DEF Store, ExecTypeOK, GStates
  <2>2. key'[g[x].kind] = g[x].out /\ \A k \in Kinds \ {g[x].kind} : key'[k] = key[k]
    BY <1>0, <1>4 DEF Store, ExecTypeOK
  <2>3. \A k \in Kinds : Earned(k)' <=> Earned(k)
    BY <2>0 DEF Earned, isSubSagaExecutor
  <2>4. g[x].out = "ok" => Earned(g[x].kind)
    BY <1>0, <2>1 DEF Honest
  <2>5. Honest(x)'
    <3>1. g'[x].out = "ok" => Earned(g[x].kind)'
      BY <2>0, <2>1, <2>4 DEF Earned, isSubSagaExecutor
    <3> QED
      BY <1>0, <1>c, <2>0, <2>1, <2>2, <3>1 DEF Honest
  <2>6. \A k \in Kinds : key'[k] = "ok" => key[k] = "ok" \/ Earned(k)'
    BY <1>0, <2>2, <2>3, <2>4
  <2> QED
    BY <1>b, <1>d, <2>0, <2>1, <2>5, <2>6, AnswerKept
<1>5. ASSUME NEW x \in Goroutines, Finish(x) PROVE AnswerInv'
  <2>0. UNCHANGED <<key, inbox, asked, answers, done, erred, child, effects, config>>
    BY <1>5 DEF Finish
  <2>1. /\ \A z \in Goroutines \ {x} : g'[z] = g[z]
        /\ g'[x].pc = "publish" /\ g'[x].kind = g[x].kind /\ g'[x].out = g[x].out
        /\ g[x].pc = "done"
    BY <1>0, <1>5 DEF Finish, ExecTypeOK, GStates
  <2>5. Honest(x)'
    BY <1>0, <1>c, <2>0, <2>1 DEF Honest, Earned, isSubSagaExecutor
  <2> QED
    BY <1>b, <1>d, <2>0, <2>1, <2>5, AnswerKept
<1>6. ASSUME NEW x \in Goroutines, Publish(x) PROVE AnswerInv'
  <2>0. UNCHANGED <<key, inbox, asked, done, erred, child, effects, lives, config>>
    BY <1>6 DEF Publish
  <2>1. /\ \A z \in Goroutines \ {x} : g'[z] = g[z]
        /\ g'[x] = Idle /\ g[x].pc = "publish"
    BY <1>0, <1>6 DEF Publish, ExecTypeOK
  <2>2. Honest(x)'
    BY <2>1 DEF Honest, Idle, Results
  <2>3. ASSUME NEW z \in Goroutines PROVE Honest(z)'
    BY <1>0, <1>b, <2>1, <2>2, HonestStays
  <2>4. \A k \in Kinds : \A r : <<k, r>> \in answers' => <<k, r>> \in answers \/ (k = g[x].kind /\ r = g[x].out)
    BY <1>6 DEF Publish, Conclusive
  <2>5. lives = 0 => \A k \in Kinds, r \in Results : <<k, r>> \in answers' => key'[k] = r
    BY <1>0, <2>0, <2>1, <2>4 DEF AnswerInv, Answering, Honest
  <2>6. \A k \in Kinds : key'[k] = "ok" \/ <<k, "ok">> \in answers' => Earned(k)'
    <3>1. \A k \in Kinds : key[k] = "ok" \/ <<k, "ok">> \in answers' => Earned(k)
      BY <1>0, <2>1, <2>4 DEF AnswerInv, Answering, Honest
    <3> QED
      BY <2>0, <3>1 DEF Earned, isSubSagaExecutor
  <2>7. lives = 0 /\ ~erred => \A k \in Kinds : <<k, "error">> \notin answers'
    BY <1>0, <2>1, <2>4 DEF AnswerInv, Answering, Honest
  <2> QED
    BY <2>0, <2>3, <2>5, <2>6, <2>7 DEF AnswerInv, Answering
<1>7. ASSUME NEW x \in Goroutines, NEW out \in Results, Work(x, out) PROVE AnswerInv'
  <2>0. UNCHANGED <<key, inbox, asked, answers, erred, child, config>>
    BY <1>7 DEF Work
  <2>1. /\ \A z \in Goroutines \ {x} : g'[z] = g[z]
        /\ g'[x].pc = "store" /\ g'[x].kind = g[x].kind /\ g'[x].out = out
    BY <1>0, <1>7 DEF Work, ExecTypeOK, GStates
  <2>2. effects'[g[x].kind] > 0 /\ (g[x].kind # "comp" => done'["comp"] = done["comp"])
    BY <1>0, <1>7 DEF Work, Counted, ExecTypeOK, Kinds
  <2>3. Earned(g[x].kind)'
    BY <1>7, <2>0, <2>1, <2>2 DEF Work, Detaches, Earned, isSubSagaExecutor
  <2>4. Honest(x)'
    BY <1>0, <1>c, <2>0, <2>1, <2>3 DEF Honest, Results
  <2>5. lives = 0 /\ "comp" \notin asked => done'["comp"] = 0 /\ inbox'["comp"] = 0
    BY <1>0, <1>d, <2>0, <2>2 DEF Honest
  <2> QED
    BY <1>b, <2>0, <2>1, <2>4, <2>5, AnswerKept
<1>8. ASSUME NEW x \in Goroutines, NEW c \in 1..Children, SpawnSubSaga(x, c) PROVE AnswerInv'
  <2>0. UNCHANGED <<key, inbox, asked, answers, erred, config>>
    BY <1>8 DEF SpawnSubSaga
  <2>1. /\ \A z \in Goroutines \ {x} : g'[z] = g[z]
        /\ g'[x].pc = "poll" /\ g'[x].kind = g[x].kind /\ g'[x].out = g[x].out /\ g'[x].child = c
    BY <1>0, <1>8 DEF SpawnSubSaga, ExecTypeOK, GStates
  <2>2. effects'[g[x].kind] > 0 /\ (g[x].kind # "comp" => done'["comp"] = done["comp"])
    BY <1>0, <1>8 DEF SpawnSubSaga, Counted, ExecTypeOK, Kinds
  <2>4. Honest(x)'
    BY <1>0, <1>c, <2>0, <2>1, <2>2 DEF Honest
  <2>5. lives = 0 /\ "comp" \notin asked => done'["comp"] = 0 /\ inbox'["comp"] = 0
    BY <1>0, <1>d, <2>0, <2>2 DEF Honest
  <2> QED
    BY <1>b, <2>0, <2>1, <2>4, <2>5, AnswerKept
<1>9. ASSUME NEW x \in Goroutines, Poll(x) PROVE AnswerInv'
  <2>0. UNCHANGED <<key, inbox, asked, answers, done, erred, child, effects, config>>
    BY <1>9 DEF Poll
  <2>1. /\ \A z \in Goroutines \ {x} : g'[z] = g[z]
        /\ g'[x].kind = g[x].kind /\ g'[x].child = g[x].child /\ g[x].pc = "poll"
        /\ \/ g'[x].pc = "store" /\ g'[x].out = PollResult(child[g[x].child])
           \/ g'[x].pc = "poll" /\ g'[x].out = g[x].out
    BY <1>0, <1>9 DEF Poll, ExecTypeOK, GStates
  <2>2. g[x].child \in 1..Children /\ effects[g[x].kind] > 0
    BY <1>0, <2>1 DEF Honest
  <2>3. CASE g'[x].pc = "store" /\ g'[x].out = PollResult(child[g[x].child])
    <3>1. g'[x].out = "ok" => child[g[x].child] = "committed"
      BY <2>3 DEF PollResult
    <3>2. g'[x].out = "ok" => Earned(g[x].kind)'
      BY <2>0, <2>1, <2>2, <3>1 DEF Earned, isSubSagaExecutor
    <3>3. g'[x].out # "error"
      BY <2>3 DEF PollResult
    <3>4. Honest(x)'
      BY <1>0, <1>c, <2>0, <2>1, <2>3, <3>2, <3>3 DEF Honest
    <3> QED
      BY <1>b, <1>d, <2>0, <2>1, <3>4, AnswerKept
  <2>4. CASE g'[x].pc = "poll" /\ g'[x].out = g[x].out
    <3>1. Honest(x)'
      BY <1>0, <1>c, <2>0, <2>1, <2>2, <2>4 DEF Honest
    <3> QED
      BY <1>b, <1>d, <2>0, <2>1, <3>1, AnswerKept
  <2> QED
    BY <2>1, <2>3, <2>4
<1>10. ASSUME NEW x \in Goroutines, StatusFails(x) \/ ExecuteErrs(x) PROVE AnswerInv'
  <2>0. UNCHANGED <<key, inbox, asked, answers, done>> /\ erred'
    BY <1>10 DEF StatusFails, ExecuteErrs
  <2>1. /\ \A z \in Goroutines \ {x} : g'[z] = g[z]
        /\ g'[x].pc \in {"publish", "done"} /\ g'[x].kind = g[x].kind /\ g'[x].out = "error"
    BY <1>0, <1>10 DEF StatusFails, ExecuteErrs, ExecTypeOK, GStates
  <2>2. Honest(x)'
    BY <1>0, <1>c, <2>0, <2>1 DEF Honest, Results
  <2> QED
    BY <1>b, <1>d, <2>0, <2>1, <2>2, AnswerKept
<1>11. ASSUME NEW x \in Goroutines, SpawnFails(x) \/ PollFails(x) \/ PollGivesUp(x) PROVE AnswerInv'
  <2>0. UNCHANGED <<key, inbox, asked, answers, done, erred, child, effects, config>>
    BY <1>11 DEF SpawnFails, PollFails, PollGivesUp
  <2>1. /\ \A z \in Goroutines \ {x} : g'[z] = g[z]
        /\ g'[x].kind = g[x].kind /\ g'[x].child = g[x].child
        /\ \/ g'[x].pc = "store" /\ g'[x].out = "fail"
           \/ g[x].pc = "poll" /\ g'[x].pc = "poll" /\ g'[x].out = g[x].out
    BY <1>0, <1>11 DEF SpawnFails, PollFails, PollGivesUp, ExecTypeOK, GStates
  <2>2. Honest(x)'
    BY <1>0, <1>c, <2>0, <2>1 DEF Honest
  <2> QED
    BY <1>b, <1>d, <2>0, <2>1, <2>2, AnswerKept
<1>12. ASSUME NEW x \in Goroutines, PublishFails(x) PROVE AnswerInv'
  <2>0. UNCHANGED <<key, asked, answers, done, erred>>
    BY <1>12 DEF PublishFails
  <2>1. /\ \A z \in Goroutines \ {x} : g'[z] = g[z]
        /\ g'[x] = Idle
    BY <1>0, <1>12 DEF PublishFails, ExecTypeOK
  <2>2. Honest(x)'
    BY <2>1 DEF Honest, Idle, Results
  <2>3. g[x].kind # "comp" => inbox'["comp"] = inbox["comp"]
    BY <1>0, <1>12 DEF PublishFails, ExecTypeOK, Kinds
  <2>4. lives = 0 /\ "comp" \notin asked => done'["comp"] = 0 /\ inbox'["comp"] = 0
    BY <1>0, <1>d, <2>0, <2>3 DEF Honest
  <2> QED
    BY <1>b, <2>0, <2>1, <2>2, <2>4, AnswerKept
<1>13. ASSUME NEW x \in Goroutines, CallbackTimeout(x) PROVE AnswerInv'
  <2>0. UNCHANGED <<key, asked, answers, done, erred, child, effects, config>>
    BY <1>13 DEF CallbackTimeout
  <2>1. /\ \A z \in Goroutines \ {x} : g'[z] = g[z]
        /\ g'[x].pc = g[x].pc /\ g'[x].kind = g[x].kind /\ g'[x].out = g[x].out
        /\ g'[x].child = g[x].child
    BY <1>0, <1>13 DEF CallbackTimeout, ExecTypeOK, GStates
  <2>2. Honest(x)'
    BY <1>0, <1>c, <2>0, <2>1 DEF Honest, Earned, isSubSagaExecutor
  <2>3. g[x].kind # "comp" => inbox'["comp"] = inbox["comp"]
    BY <1>0, <1>13 DEF CallbackTimeout, ExecTypeOK, Kinds
  <2>4. lives = 0 /\ "comp" \notin asked => done'["comp"] = 0 /\ inbox'["comp"] = 0
    BY <1>0, <1>d, <2>0, <2>3 DEF Honest
  <2> QED
    BY <1>b, <2>0, <2>1, <2>2, <2>4, AnswerKept
<1>14. ASSUME NEW x \in Goroutines, NEW k \in Kinds, Receive(x, k) PROVE AnswerInv'
  <2>0. UNCHANGED <<key, asked, answers, done, erred>>
    BY <1>14 DEF Receive
  <2>1. /\ \A z \in Goroutines \ {x} : g'[z] = g[z]
        /\ g'[x].pc = "status" /\ g'[x].kind = k /\ g'[x].out = "busy"
    BY <1>0, <1>14 DEF Receive, ExecTypeOK, Idle
  <2>2. inbox[k] > 0 /\ (k # "comp" => inbox'["comp"] = inbox["comp"])
    BY <1>14 DEF Receive, ExecTypeOK, Kinds
  <2>3. lives = 0 /\ k = "comp" => "comp" \in asked
    BY <1>d, <2>2
  <2>4. Honest(x)'
    BY <1>c, <2>0, <2>1, <2>3 DEF Honest
  <2>5. lives = 0 /\ "comp" \notin asked => done'["comp"] = 0 /\ inbox'["comp"] = 0
    BY <1>d, <2>0, <2>2, <2>3
  <2> QED
    BY <1>b, <2>0, <2>1, <2>4, <2>5, AnswerKept
<1>15. CASE CompensationRequested
  <2>0. /\ UNCHANGED <<g, key, answers, child, done, effects, lives, erred, config>>
        /\ asked' = asked \cup {"comp"}
    BY <1>15 DEF CompensationRequested
  <2>1. ASSUME NEW z \in Goroutines PROVE Honest(z)'
    BY <1>0, <1>b, <2>0, HonestStays
  <2>2. PICK r \in Results \cup {"error"} : <<"exec", r>> \in answers
    BY <1>15 DEF CompensationRequested
  <2>3. lives = 0 /\ ~erred => key["exec"] \in Results
    BY <2>2 DEF AnswerInv, Answering, Kinds
  <2> QED
    BY <2>0, <2>1, <2>3 DEF AnswerInv, Answering, Earned, isSubSagaExecutor
<1>16. ASSUME NEW c \in 1..Children, ChildMoves(c) PROVE AnswerInv'
  <2>0. UNCHANGED <<g, key, inbox, asked, answers, done, lives, erred>>
    BY <1>16 DEF ChildMoves
  <2>1. ASSUME NEW z \in Goroutines PROVE Honest(z)'
    BY <1>0, <1>b, <2>0, HonestStays
  <2>2. \A k \in Kinds : Earned(k) => Earned(k)'
    BY <1>b DEF Advances
  <2> QED
    BY <2>0, <2>1, <2>2 DEF AnswerInv, Answering
<1>17. CASE UNCHANGED vars
  BY <1>17 DEF vars, AnswerInv, Answering, Honest, Earned, isSubSagaExecutor
<1> QED
  BY <1>1, <1>2, <1>3, <1>4, <1>5, <1>6, <1>7, <1>8, <1>9, <1>10, <1>11, <1>12, <1>13, <1>14,
     <1>15, <1>16, <1>17
  DEF Next, Callback, Serve, Execute, Compensate, Failure

-----------------------------------------------------------------------------

\* The inductive invariant.
ExecInv == ExecTypeOK /\ OneAtATime /\ WorkInv /\ AnswerInv

\* It holds at first.
LEMMA ExecInvInit == Init => ExecInv
<1> SUFFICES ASSUME Init PROVE ExecInv
  OBVIOUS
<1>1. ExecTypeOK
  BY IdleType, ExecutorAssumption DEF Init, ExecTypeOK, Kinds, ChildStates
<1>2. \A x \in Goroutines : g[x].pc = "idle"
  BY DEF Init, Idle
<1>3. \A k \in Kinds : done[k] = 0
  BY DEF Init
<1>4. OneAtATime
  BY <1>2 DEF Init, OneAtATime, Running
<1>5. WorkInv
  BY <1>2, <1>3 DEF WorkInv, WorkOncePerLife, StoresResult
<1>6. AnswerInv
  BY <1>2, <1>3 DEF Init, AnswerInv, Answering, Honest, Idle, Kinds, Results
<1> QED
  BY <1>1, <1>4, <1>5, <1>6 DEF ExecInv

\* It holds always.
LEMMA ExecInvariant == Spec => []ExecInv
<1>1. ExecInv /\ [Next]_vars => ExecInv'
  BY TypeStep, GuardStep, WorkStep, AnswerStep DEF ExecInv, WorkInv
<1> QED
  BY <1>1, ExecInvInit, PTL DEF Spec

\* The executor's state keeps its shape.
THEOREM ExecutorTypes == Spec => []ExecTypeOK
<1>1. ExecInv => ExecTypeOK
  BY DEF ExecInv
<1> QED
  BY <1>1, ExecInvariant, PTL

\* The in-flight guard of Run and detachExecution: however requests are
\* duplicated and callbacks time out, one goroutine at most executes the step
\* and one at most compensates it, and the maps say exactly which.
THEOREM InFlightGuard == Spec => []OneAtATime
<1>1. ExecInv => OneAtATime
  BY DEF ExecInv
<1> QED
  BY <1>1, ExecInvariant, PTL

\* In the life of a process the service does the work of a step, and of its
\* compensation, at most once: the guard and the stored result together make
\* up for a status that is read before the mutex is taken.
THEOREM WorkDoneOnce == Spec => []WorkOncePerLife
<1>1. ExecInv => WorkOncePerLife
  BY DEF ExecInv, WorkInv
<1> QED
  BY <1>1, ExecInvariant, PTL

\* What the executor answers about a step, and about its compensation, is
\* consistent for as long as the process lives: the answer is the stored result,
\* and a stored result is never replaced.
THEOREM AnswersDoAgree == Spec => []AnswersAgree
<1>1. ExecInv => AnswersAgree
  BY DEF ExecInv, AnswerInv, Answering, AnswersAgree, Results
<1> QED
  BY <1>1, ExecInvariant, PTL

\* A success that is answered, by whichever life of the process, was earned:
\* the work was done and the child of a spawning step has committed.
THEOREM SuccessIsEarned == Spec => []SuccessIsTrue
<1>1. ExecInv => SuccessIsTrue
  BY DEF ExecInv, AnswerInv, Answering, SuccessIsTrue, Earned, Kinds
<1> QED
  BY <1>1, ExecInvariant, PTL

\* Nothing is executed after the compensation: when one is requested the
\* execution has a stored result, and whoever comes later finds it.
THEOREM CompensationComesLast == Spec => []CompensationIsLast
<1>1. ASSUME ExecInv, lives = 0, ~erred, NEW x \in Goroutines, g[x].kind = "exec",
             g[x].pc \in {"work", "poll", "store"}
      PROVE  done["comp"] = 0
  <2>1. key["exec"] \notin Results
    BY <1>1 DEF ExecInv, WorkInv
  <2> QED
    BY <1>1, <2>1 DEF ExecInv, AnswerInv, Answering
<1>2. ExecInv => CompensationIsLast
  BY <1>1 DEF CompensationIsLast
<1> QED
  BY <1>2, ExecInvariant, PTL

=============================================================================

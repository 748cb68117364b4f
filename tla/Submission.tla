----------------------------- MODULE Submission -----------------------------
(* How a saga gets into the store: a submitter announces itself to the       *)
(* coordinator (submitter.go, the announce endpoint of traxcoord), the       *)
(* coordinator follows it (followSagaSubmitterIfNeeded) and stores what it   *)
(* submits, while the coordinator starts, stops and restarts (Start, Stop,   *)
(* Restart), the database comes and goes, and the circuit breaker of the     *)
(* pollers opens and closes.  One coordinator, one submitter, one cluster.   *)
EXTENDS Naturals, FiniteSets

CONSTANTS
  Sagas,      \* saga instance ids: every call of SubmitSaga draws a fresh one
  Workers,    \* callbacks of the outbox queue, at most so many at a time
  Clusters,   \* is the cluster row there from the beginning?
  MaxStarts,  \* bound: calls of Start
  MaxFaults   \* bound: crashes, outages, timeouts and failed calls

ASSUME SubmissionAssumption ==
  /\ Clusters \subseteq BOOLEAN /\ IsFiniteSet(Workers)
  /\ MaxStarts \in Nat /\ MaxFaults \in Nat

NoSaga == "none"
ASSUME NoSagaAssumption == NoSaga \notin Sagas

Followers == {"http", "bus"}
NilContext == 0
Contexts == 1..MaxStarts
ErrorLimit == 3      \* the circuit breaker opens at the third error
Outcomes == {"success", "failure"}

WStates == [pc: {"idle", "ready", "insert", "committing", "reply"},
            saga: Sagas \cup {NoSaga}, by: {NilContext} \cup Contexts,
            owns: 0..1, saved: 0..1, out: Outcomes]
Idle == [pc |-> "idle", saga |-> NoSaga, by |-> NilContext, owns |-> 0,
         saved |-> 0, out |-> "failure"]

VARIABLES
  life,       \* where the coordinator is in Start, Stop and Restart
  starts,     \* calls of Start so far; each makes a consumer context
  ctx,        \* c.consumerCtx
  live,       \* contexts that are not cancelled
  control,    \* contexts with a consumer of the control inbox
  pollers,    \* processSagaSteps loops of the cluster
  followed,   \* followedMap has the submitter
  consuming,  \* contexts the submitter's outbox is consumed with
  fol,        \* goroutines in AnnounceSagaSubmitter or the control handler
  bus,        \* a follow message waits in the control inbox
  sub,        \* the submitter: ready flag, clusterIds, nodeNames
  cluster,    \* trax.clusters has the cluster
  tables,     \* the tables of the cluster exist
  dbUp, errs, healthy,   \* the database; consecutiveDbErrors, dbHealthy
  submitted, outbox,     \* sagas submitted; copies in the outbox queue
  w,          \* callbacks of the outbox queue
  rows,       \* per saga: committed saga rows and complete sets of step rows
  replies,    \* per saga: what was published to the submitter's inbox
  picked,     \* sagas a poller has found
  again,      \* ghost: sagas whose request was delivered more than once
  unknown,    \* ghost: sagas whose COMMIT took effect and returned an error
  window,     \* ghost: the submitter was followed with a dead context
  faults

startVars == <<life, starts, ctx, live, control, pollers>>
followVars == <<followed, consuming, fol, bus, sub, window>>
dbVars == <<cluster, tables, dbUp, errs, healthy, rows, picked>>
queueVars == <<submitted, outbox, w, replies, again, unknown>>
vars == <<startVars, followVars, dbVars, queueVars, faults>>

isRunning == life = "up"
IsReady == isRunning /\ healthy
Stored(s) == rows[s].saga > 0
Fault == faults < MaxFaults /\ faults' = faults + 1

Init ==
  /\ life = "init" /\ starts = 0 /\ ctx = NilContext /\ live = {} /\ control = {} /\ pollers = 0
  /\ followed = FALSE /\ consuming = {} /\ window = FALSE /\ bus = 0
  /\ fol = [f \in Followers |-> "idle"]
  /\ sub = [ready |-> FALSE, clusters |-> FALSE, nodes |-> FALSE]
  /\ cluster \in Clusters /\ tables = cluster
  /\ dbUp = TRUE /\ errs = 0 /\ healthy = TRUE
  /\ rows = [s \in Sagas |-> [saga |-> 0, sets |-> 0]] /\ picked = {}
  /\ submitted = {} /\ outbox = [s \in Sagas |-> 0] /\ w = [x \in Workers |-> Idle]
  /\ replies = [s \in Sagas |-> {}] /\ again = {} /\ unknown = {}
  /\ faults = 0

-----------------------------------------------------------------------------
(* The circuit breaker                                                     *)

\* recordDatabaseError, and a failing checkDatabaseHealth; the counter is only
\* compared with the limit, so that it stops there.
CountError ==
  /\ errs' = IF errs < ErrorLimit THEN errs + 1 ELSE errs
  /\ healthy' = (healthy /\ errs' < ErrorLimit)

\* Mutant: a success resets the counter only.
HealthCheckedKeepsOpen == IF dbUp THEN errs' = 0 /\ UNCHANGED healthy ELSE CountError

\* checkDatabaseHealth, when five seconds have passed since the last one.
HealthChecked == IF dbUp THEN errs' = 0 /\ healthy' = TRUE ELSE CountError

\* A poller checks the database before each pass.
HealthCheck ==
  /\ pollers > 0
  /\ HealthChecked
  /\ UNCHANGED <<startVars, followVars, queueVars, faults, cluster, tables, dbUp, rows, picked>>

\* Only a pass with the breaker closed queries the steps; it finds the first
\* step of every saga stored.  A missing table is a database error as well.
Poll ==
  /\ pollers > 0 /\ healthy
  /\ IF dbUp /\ tables
     THEN /\ picked' = {s \in Sagas : Stored(s)}
          /\ UNCHANGED <<errs, healthy>>
     ELSE CountError /\ UNCHANGED picked
  /\ UNCHANGED <<startVars, followVars, queueVars, faults, cluster, tables, dbUp, rows>>

-----------------------------------------------------------------------------
(* Start, Stop and Restart                                                 *)

\* Start: a new context first of all, then a health check, unless the last one
\* is too recent.  A Start or Restart that failed is repeated by the operator.
StartContext ==
  /\ life \in {"init", "cleared", "down"} /\ starts < MaxStarts
  /\ starts' = starts + 1
  /\ ctx' = starts + 1
  /\ live' = live \cup {starts + 1}
  /\ life' = "starting"
  /\ HealthChecked \/ UNCHANGED <<errs, healthy>>
  /\ UNCHANGED <<control, pollers, followVars, queueVars, faults, cluster, tables, dbUp, rows, picked>>

\* The clusters listed now get their queues, consumers and poller.
StartClusters ==
  /\ life = "starting" /\ dbUp
  /\ life' = "loading"
  /\ IF cluster
     THEN control' = control \cup {ctx} /\ pollers' = pollers + 1
     ELSE UNCHANGED <<control, pollers>>
  /\ UNCHANGED <<starts, ctx, live, followVars, dbVars, queueVars, faults>>

\* reloadSagaTemplates, then the loops of the notifications, isRunning last.
StartDone ==
  /\ life = "loading" /\ dbUp
  /\ life' = "up"
  /\ UNCHANGED <<starts, ctx, live, control, pollers, followVars, dbVars, queueVars, faults>>

\* A failing call ends Start where it is; what it has started keeps running.
StartFails ==
  /\ life \in {"starting", "loading"}
  /\ IF dbUp THEN Fault ELSE UNCHANGED faults
  /\ life' = "down"
  /\ UNCHANGED <<starts, ctx, live, control, pollers, followVars, dbVars, queueVars>>

\* Init of the store creates the tables of the clusters there are.
InitStore == dbUp /\ tables' = cluster

\* The setdbname endpoint prepares a store and calls Restart; Stop cancels the
\* consumers.
Stop ==
  /\ life = "up" /\ starts < MaxStarts
  /\ InitStore
  /\ life' = "stopping"
  /\ live' = live \ {ctx}
  /\ UNCHANGED <<starts, ctx, control, pollers, followVars, queueVars, faults>>
  /\ UNCHANGED <<cluster, dbUp, errs, healthy, rows, picked>>

\* Mutant: the map is not cleared.
ForgetKeepsFollowed == UNCHANGED followed

\* Stop forgets whom it follows, once the loops have ended.
Forget == followed' = FALSE

StopClears ==
  /\ life = "stopping"
  /\ life' = "cleared"
  /\ pollers' = 0
  /\ Forget
  /\ UNCHANGED <<starts, ctx, live, control, dbVars, queueVars, faults>>
  /\ UNCHANGED <<consuming, fol, bus, sub, window>>

\* The connection to RabbitMQ is not back within thirty seconds.
RestartTimesOut ==
  /\ life = "cleared"
  /\ Fault
  /\ life' = "down"
  /\ UNCHANGED <<starts, ctx, live, control, pollers, followVars, dbVars, queueVars>>

\* Mutant: the message was acknowledged on delivery.
RequeuedNot(xs) == outbox

\* A message handed to a callback that ends without settling it goes back.
Requeued(xs) == [s \in Sagas |->
  outbox[s] + Cardinality({x \in xs : w[x].saga = s /\ w[x].owns = 1})]
Redelivered(xs) == again \cup {w[x].saga : x \in {y \in xs : w[y].owns = 1}}

\* The process dies and comes back.
Crash ==
  /\ Fault /\ starts < MaxStarts
  /\ InitStore
  /\ life' = "init" /\ ctx' = NilContext /\ live' = {} /\ control' = {} /\ pollers' = 0
  /\ followed' = FALSE /\ consuming' = {} /\ fol' = [f \in Followers |-> "idle"]
  /\ sub' = IF fol["http"] = "idle" THEN sub ELSE [sub EXCEPT !.ready = FALSE]
  /\ errs' = 0 /\ healthy' = TRUE
  /\ outbox' = Requeued(Workers) /\ again' = Redelivered(Workers)
  /\ w' = [x \in Workers |-> Idle]
  /\ UNCHANGED <<starts, bus, window, cluster, dbUp, rows, picked, submitted, replies, unknown>>

DbFails ==
  /\ dbUp /\ Fault
  /\ dbUp' = FALSE
  /\ UNCHANGED <<startVars, followVars, queueVars, cluster, tables, errs, healthy, rows, picked>>

DbHeals ==
  /\ ~dbUp
  /\ dbUp' = TRUE
  /\ UNCHANGED <<startVars, followVars, queueVars, faults, cluster, tables, errs, healthy, rows, picked>>

\* POST /clusters writes the row; nobody creates the tables.
AddCluster ==
  /\ ~cluster /\ dbUp
  /\ cluster' = TRUE
  /\ UNCHANGED <<startVars, followVars, queueVars, faults, tables, dbUp, errs, healthy, rows, picked>>

-----------------------------------------------------------------------------
(* Announcement and following                                              *)

\* Mutant: the answer does not set clusterIds.
ResponseReadyOnly(found) ==
  [ready |-> TRUE, clusters |-> sub.clusters, nodes |-> sub.nodes \/ found]

\* processAnnouncementResponse: a submitter that is ready keeps its clusterIds.
Response(found) ==
  [ready |-> TRUE, clusters |-> IF sub.ready THEN sub.clusters ELSE found,
   nodes |-> sub.nodes \/ found]

\* The endpoint has followed the submitter and answers; the message that tells
\* the other coordinators may get lost.
Answer == sub' = Response(TRUE) /\ bus' \in {bus, 1}

\* The announcement loop calls the endpoint.  A failure makes the submitter
\* not ready; with no cluster stored there is nobody to follow.  The map of
\* followSagaSubmitterIfNeeded is looked up under a read lock.
Announce ==
  /\ fol["http"] = "idle"
  /\ \/ /\ ~dbUp
        /\ sub' = [sub EXCEPT !.ready = FALSE]
        /\ UNCHANGED <<fol, bus>>
     \/ /\ dbUp /\ ~cluster
        /\ sub' = Response(FALSE)
        /\ UNCHANGED <<fol, bus>>
     \/ /\ dbUp /\ cluster /\ followed
        /\ Answer
        /\ UNCHANGED fol
     \/ /\ dbUp /\ cluster /\ ~followed
        /\ fol' = [fol EXCEPT !["http"] = "set"]
        /\ UNCHANGED <<sub, bus>>
  /\ UNCHANGED <<startVars, dbVars, queueVars, faults, followed, consuming, window>>

\* The control inbox tells every coordinator, this one included.
ControlMessage ==
  /\ bus = 1 /\ fol["bus"] = "idle" /\ control \cap live # {}
  /\ bus' = 0
  /\ fol' = [fol EXCEPT !["bus"] = IF followed THEN "idle" ELSE "set"]
  /\ UNCHANGED <<startVars, dbVars, queueVars, faults, followed, consuming, sub, window>>

\* The map is set under a second lock ...
FollowSet(f) ==
  /\ fol[f] = "set"
  /\ followed' = TRUE
  /\ fol' = [fol EXCEPT ![f] = "consume"]
  /\ UNCHANGED <<startVars, dbVars, queueVars, faults, consuming, bus, sub, window>>

\* ... and the outbox consumed with the context found then.  Before the first
\* Start that is nil, and the panic becomes an HTTP 500.
FollowConsume(f) ==
  /\ fol[f] = "consume"
  /\ window' = (window \/ ctx \notin live)
  /\ fol' = [fol EXCEPT ![f] = "idle"]
  /\ consuming' = IF ctx = NilContext THEN consuming ELSE consuming \cup {ctx}
  /\ CASE f = "bus" -> UNCHANGED <<sub, bus>>
       [] f = "http" /\ ctx = NilContext -> sub' = [sub EXCEPT !.ready = FALSE] /\ UNCHANGED bus
       [] f = "http" /\ ctx # NilContext -> Answer
  /\ UNCHANGED <<startVars, dbVars, queueVars, faults, followed>>

-----------------------------------------------------------------------------
(* Submission                                                              *)

\* SubmitSaga looks for the node names and not at the ready flag.
SubmitSaga(s) ==
  /\ s \notin submitted /\ sub.nodes
  /\ submitted' = submitted \cup {s}
  /\ outbox' = [outbox EXCEPT ![s] = 1]
  /\ UNCHANGED <<startVars, followVars, dbVars, faults, w, replies, again, unknown>>

Deliver(x, s) ==
  /\ w[x].pc = "idle" /\ outbox[s] > 0
  /\ \E e \in consuming \cap live :
       w' = [w EXCEPT ![x] = [Idle EXCEPT !.pc = "ready", !.saga = s, !.by = e, !.owns = 1]]
  /\ outbox' = [outbox EXCEPT ![s] = @ - 1]
  /\ UNCHANGED <<startVars, followVars, dbVars, faults, submitted, replies, again, unknown>>

\* Stop and a callback timeout cancel the context; no store call works then.
Cancelled(x) == w[x].by \notin live
StoreFails(x) == ~dbUp \/ Cancelled(x)
\* Mutant: the error is shadowed, and the reply is a success.
FailsUnnoticed(x) == w' = [w EXCEPT ![x].pc = "reply", ![x].out = "success", ![x].saved = 0]

\* The transaction is rolled back and the reply will be a failure.
Fails(x) == w' = [w EXCEPT ![x].pc = "reply", ![x].out = "failure", ![x].saved = 0]

\* IsReady; then the transaction begins, and templates and the idempotency key
\* are looked up in it.  A template that is not there ends like a failing call.
BeginTransaction(x) ==
  /\ w[x].pc = "ready"
  /\ IF ~IsReady \/ StoreFails(x) \/ ~tables
     THEN Fails(x)
     ELSE w' = [w EXCEPT ![x].pc = IF Stored(w[x].saga) THEN "committing" ELSE "insert"]
  /\ UNCHANGED <<startVars, followVars, dbVars, faults, submitted, outbox, replies, again, unknown>>

\* Another transaction has inserted the key and is not decided yet.
KeyLocked(x) ==
  \E y \in Workers \ {x} : w[y].saga = w[x].saga /\ w[y].saved = 1 /\ w[y].pc = "committing"

\* The unique index on saga_idempotency_key decides between two of them.  The
\* steps follow, and a COMMIT, which the context no longer stops.
SaveSagaInstanceIdempotently(x) ==
  /\ w[x].pc = "insert"
  /\ StoreFails(x) \/ ~KeyLocked(x)
  /\ IF StoreFails(x) \/ Stored(w[x].saga)
     THEN Fails(x)
     ELSE w' = [w EXCEPT ![x].pc = "committing", ![x].saved = 1]
  /\ UNCHANGED <<startVars, followVars, dbVars, faults, submitted, outbox, replies, again, unknown>>

\* Mutant: the steps are saved although the saga was there.
WrittenAlways(x) == [rows EXCEPT ![w[x].saga].saga = 1, ![w[x].saga].sets = @ + 1]

\* The saga row with its steps, if this transaction has saved it.
Written(x) == [rows EXCEPT ![w[x].saga].saga = @ + w[x].saved, ![w[x].saga].sets = @ + w[x].saved]

Commit(x) ==
  /\ w[x].pc = "committing" /\ dbUp
  /\ rows' = Written(x)
  /\ w' = [w EXCEPT ![x].pc = "reply", ![x].out = "success", ![x].saved = 0]
  /\ UNCHANGED <<startVars, followVars, faults, submitted, outbox, replies, again, unknown>>
  /\ UNCHANGED <<cluster, tables, dbUp, errs, healthy, picked>>

\* The connection is lost before the answer: the transaction took effect or not.
CommitFails(x) ==
  /\ w[x].pc = "committing" /\ ~dbUp
  /\ Fails(x)
  /\ \/ UNCHANGED <<rows, unknown>>
     \/ rows' = Written(x) /\ unknown' = unknown \cup {w[x].saga}
  /\ UNCHANGED <<startVars, followVars, faults, submitted, outbox, replies, again>>
  /\ UNCHANGED <<cluster, tables, dbUp, errs, healthy, picked>>

\* The submitter is told, and the request acknowledged, a failed one too.
Reply(x) ==
  /\ w[x].pc = "reply"
  /\ replies' = [replies EXCEPT ![w[x].saga] = @ \cup {w[x].out}]
  /\ w' = [w EXCEPT ![x] = Idle]
  /\ UNCHANGED <<startVars, followVars, dbVars, faults, submitted, outbox, again, unknown>>

\* The publisher gives up, having sent the reply or not: the request comes back.
ReplyFails(x) ==
  /\ w[x].pc = "reply"
  /\ IF Cancelled(x) THEN UNCHANGED faults ELSE Fault
  /\ replies' \in {replies, [replies EXCEPT ![w[x].saga] = @ \cup {w[x].out}]}
  /\ outbox' = Requeued({x}) /\ again' = Redelivered({x})
  /\ w' = [w EXCEPT ![x] = Idle]
  /\ UNCHANGED <<startVars, followVars, dbVars, submitted, unknown>>

\* The request is handed out again; the goroutine goes on without a context.
CallbackTimeout(x) ==
  /\ w[x].pc # "idle" /\ w[x].owns = 1
  /\ Fault
  /\ outbox' = Requeued({x}) /\ again' = Redelivered({x})
  /\ w' = [w EXCEPT ![x].owns = 0, ![x].by = NilContext]
  /\ UNCHANGED <<startVars, followVars, dbVars, submitted, replies, unknown>>

-----------------------------------------------------------------------------
Follow(f) == FollowSet(f) \/ FollowConsume(f)
Callback(x) ==
  \/ BeginTransaction(x) \/ SaveSagaInstanceIdempotently(x)
  \/ Commit(x) \/ CommitFails(x) \/ Reply(x)

Next ==
  \/ HealthCheck \/ Poll
  \/ StartContext \/ StartClusters \/ StartDone \/ StartFails
  \/ Stop \/ StopClears \/ RestartTimesOut \/ Crash
  \/ DbFails \/ DbHeals \/ AddCluster
  \/ Announce \/ ControlMessage \/ \E f \in Followers : Follow(f)
  \/ \E s \in Sagas : SubmitSaga(s)
  \/ \E x \in Workers, s \in Sagas : Deliver(x, s)
  \/ \E x \in Workers : Callback(x) \/ ReplyFails(x) \/ CallbackTimeout(x)

Spec == Init /\ [][Next]_vars

\* Loops and goroutines go on, the announcement loop calls again, Start is
\* called in a new process and by Restart, and an outage ends.
FairSpec ==
  /\ Spec
  /\ WF_vars(HealthCheck) /\ WF_vars(Poll) /\ WF_vars(DbHeals)
  /\ WF_vars((life # "down" /\ StartContext) \/ StartClusters \/ StartDone \/ StopClears)
  /\ WF_vars(Announce \/ Follow("http")) /\ WF_vars(ControlMessage \/ Follow("bus"))
  /\ \A x \in Workers : WF_vars(Callback(x) \/ \E s \in Sagas : Deliver(x, s))

=============================================================================

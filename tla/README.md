# Trax: a TLA+ model of the saga system

Trax runs *sagas*: sequences of steps, each with an execution and a
compensation, executed by services behind message queues. A saga that fails
half way is walked back by compensating its steps in reverse. This directory
holds TLA+ modules that model the parts of Trax that carry that logic, TLC
configurations that check them on small instances, and TLAPS proofs for
instances of any size.

State and step names are abbreviated as the comments of `coordinator.go` do:
`EC` is EXECUTION_CANDIDATE, `CR` COMPENSATION_RUNNING, and so on (see
`SagaStates.tla`).

## 1. Inventory

| Component (source) | State | Operations | Interacts with |
|---|---|---|---|
| Coordinator (`trax/coordinator.go`) | saga row, step rows with their execution history; in memory the rows of a pass | poll, immediate processing, `processSagaStep` (one case per step state), result handling, compensation of a committed saga | store, Redis mutex, queues |
| Life cycle, circuit breaker (`trax/coordinator.go`, `daemons/traxcoord`) | flags, consumer context, followed submitters, error counters | start, stop, restart, announcement, health check | store, queues, submitter |
| Template hot reload (`trax/coordinator.go`, `trax/store_psql.go`) | templates, clusters, marked steps, notifications | create, update, delete, reload, tick | store, queues |
| PostgreSQL store (`trax/store_psql.go`) | tables | transactions, guarded updates, `FOR UPDATE` lists, idempotent inserts, LISTEN/NOTIFY | coordinator, traxctrl |
| Executor (`trax/executor.go`, `clis/traxcli/executor.go`) | in-flight maps, idempotency keys | execute, compensate, detach, answer | queues, service |
| Sub-saga executor (`trax/sub_saga_executor.go`, `trax/saga_context.go`) | poll counters | spawn child, poll, give up | submitter, traxctrl |
| Submitter (`trax/submitter.go`) | ready flag, clusters, node names | announce with retries, submit, wait | coordinator, queues, traxctrl |
| Waiting clients (`trax/submitter.go`, `trax/sub_saga_executor.go`, `trax/watch`) | what they have read | poll the saga, list its steps | traxctrl |
| Queues (`mq/common`, `mq/init.go`, `trax/mq.go`) | channel pool, publishers, consumers | get and return channels, publish with confirmation, consume with callback timeout, ack/nack, republish, reconnect | RabbitMQ |
| Redis locks (`cache/redis_impl.go`) | keys with a TTL | Mutex, MultiMutex, AcquireMultiLock, ReleaseMultiLock | coordinator, applications |
| PostgreSQL locks (`cache/pgsql_keyed_lock.go`, `common/fix_session_lease.go`) | rows key, holder, expiry | acquire or steal, refresh or renew, release, reap | applications |
| traxctrl, traxcli, watch display | none of their own | REST calls, rendering | store |

What is hard here, with the lines where it bites, is the list `hazards` of
`PROJECT.json`. In short: results are applied **without** the saga mutex that
protects every other write; a pass keeps rows in memory over several
transactions; messages arrive more than once and late; requests are published
inside transactions that may still fail; callbacks run on after their timeout;
processes die with the mutex held or a request acknowledged; restarts race with
announcements; templates change under a submission; children of a step are sagas
that other coordinators run; locks expire under their holders.

What makes a component correct:

* coordinator: the step rows always form one of the patterns documented above
  `isSagaStateValid`; effects are undone in reverse order; the reported outcome
  agrees with the effects; nobody is asked twice; done steps stay done; every
  saga ends unless a request or a result is lost;
* children: compensated before the step that spawned them, none left behind;
* clients: an outcome comes with the results of all steps or of none;
* executor: the work once per process, no contradicting answers, truthful
  successes, every request answered;
* submission: stored once and whole, truthful replies, never deaf, never stuck;
* templates: a saga keeps its templates, queues follow the templates;
* queues: no channel in two hands, no slot lost, no foreign confirmation, no
  message lost, cancelled consumers end, sent-back messages come again;
* locks: exclusion, all locks held during the callback, nobody touches another's
  lock, no circular wait, no lock for ever.

## 2. Modules

| Module | What it is |
|---|---|
| `SagaStates` | state names, the lists of states the coordinator tests, `isSagaStateValid` and its two modes |
| `SagaCoordinator` | one saga instance: rows, mutex, pass, goroutines, queues, consumers, executors, children, faults |
| `SagaProperties` | type invariant, safety, action and liveness properties |
| `SagaContract`, `SagaRefinement` | the abstract specification: what a saga promises its submitter; the mapping under which the coordinator implements it |
| `SagaInvariant` | the inductive invariant `IInv` of the rows |
| `SagaOutcome` | the inductive invariants `OInv`, `ChildInv` and `OnceInv`, which relate the rows to effects, children and outcomes |
| `SagaClaims` | a statement of a comment that the code does not keep |
| `SagaClients` | the coordinator composed with a client that waits for the saga |
| `StepExecutor` | executor, idempotent service and sub-saga executor, for one key |
| `Submission`, `SubmissionProperties` | announcement, following, submission, life cycle, circuit breaker |
| `TemplateReload` | templates, clusters, notifications, the reload loop, a submission that reads them |
| `ChannelPool` | AMQP channel pool, publishers with confirmation, reconnection |
| `MqConsumer`, `MqProperties` | the consumer loop, on top of `ChannelPool` |
| `RedisLocks` | Mutex and MultiMutex |
| `PgLeases` | the keyed lock and the FIX session lease |
| `SagaProofs`, `ExecutorProofs`, `SubmissionProofs`, `TemplateProofs`, `PoolProofs`, `MqProofs`, `RedisLockProofs`, `PgLeaseProofs` | proofs |
| `MCSaga`, `MCClients`, `MCExecutor`, `MCSubmission`, `MCReload`, `MCPool`, `MCMq`, `MCLocks`, `MCLeases` | the same for TLC |

A definition whose comment begins with *Mutant* is a plausible mistake in the
definition that follows it; `mutants` in `PROJECT.json` says which property
notices it. No specification uses one.

### `SagaCoordinator`

An action is one store transaction (or autocommit statement) together with the
reads it rests on; reads of an earlier transaction are kept in `w` (a pass) or
`handler` (a consumer) and may be stale when they are used.

* `saga`, `step`, `hist` are the rows. Of the execution history only the last
  entry is kept, the only one the code reads: what it is for, whether the request
  was sent, whether a result was received. Timestamps are abstracted: a sent
  request may be timed out at any later time.
* `PollQuery`, `PollBegin`, `PollGivesUp` are `processSagaSteps`;
  `ImmediateBegin`, `ImmediateGivesUp` are `processStepWithMutex`. Both take the
  mutex with timeout 0, read the rows again, skip some states, validate and loop
  over `processSagaStep`. The skip lists differ and are kept as in the code.
  When the mutex is taken, a goroutine gives up. The poller's one-time re-read of
  the saga state for COMPENSATION_REQUESTED is in `BeginPass`.
* `processCandidate` to `processUnexpected` are the cases of `processSagaStep`.
  The case is chosen by the row in memory, neighbours are read fresh, as in the
  code. Sending a request takes two actions, because the message leaves before
  the commit: `PublishRequest` publishes, `RecordSent` writes the history. In
  between the step rows are locked (`FOR UPDATE`), so that a consumer can read
  but not write; a failure there leaves a request that nobody recorded.
* `ResultRead`, `ResultWrite`, `ResultFails` are
  `processSagaStepExecutionResult`: a plain read, the list of late states, then
  unconditional writes and a goroutine started before the commit. `Ignored` is
  the consumer in front of it, which drops IN_EXECUTION.
* `Execute`, `InFlight`, `ExecutorDies`, `SpawnChild`, `DetachedLost`,
  `ChildAnswered` are the executor and the sub-saga executor as seen from the
  queues (`StepExecutor` has the inside). `effect` is what the service did: a
  failure leaves open whether it did anything.
* `ChildMoves` is another coordinator running the child saga, reduced to the
  state of the child's saga row. A child that an operator force-marked is assumed
  to stay COMPENSATED.
* `RequestCompensation`, `ForceMarkSagaCompensated` are the two outside writes to
  a saga row.
* Faults: `PassFails` (any store call or publish of a pass fails, or its context
  expires), `ValidateReadFails`, `ResultFails`, `MutexLeft` (DEL fails),
  `Crash` (the coordinator process dies), `ExecutorDies`, `DetachedLost`.
  `Duplicate`: a result is delivered once more at any time, or a request is
  delivered while it is in flight.

A dead coordinator's mutex is `"orphan"` until `LockExpires`. That a pass holds
the mutex alone is what `RedisLocks` establishes: the mutex is taken with
timeout 0 and the context of a pass (50 s) is shorter than the TTL (60 s), the
condition `ShortWork` of the lock theorems.

### `SagaClients`

The three loops that wait for a saga (`WaitForSagaCompletion`,
`pollForCompletion`, `Watch`) read the saga row in one request to traxctrl and
the step rows in another. The module adds one such client to `SagaCoordinator`,
whose steps leave it alone. The loops differ in which outcomes they list the
steps for and in what a failed list does.

### `StepExecutor`

One idempotency key; `g` holds the goroutines, each callback or detached run at
its place between reading the status, the in-flight guard, the service and the
publish. `key` is what the service remembers: a Go map that dies with the process
(`traxcli`) or a table (`durable`). `owns` says that the callback can still
settle its delivery; `CallbackTimeout` sends the request back and leaves the
goroutine running. `child` are the sagas a spawning step submits.

### `Submission`

One coordinator, one submitter and one cluster. `ctx` and `live` are the consumer
contexts, one for each `Start`; what consumes under a context ends with it.
`followed` is `followedMap`, tested and set in two critical sections (`FollowSet`,
`FollowConsume`) by an HTTP handler and by the control bus. Callbacks of the
outbox queue (`w`) store a saga in a transaction (`BeginTransaction`,
`SaveSagaInstanceIdempotently`, `Commit`) and reply. `errs` and `healthy` are the
breaker. `Crash` restarts the process, `DbFails`/`DbHeals` is an outage.

### `TemplateReload`

One saga template with its step templates, the clusters, and the coordinator's
exchanges, queues and marks. Statements are actions; a foreign key that would
break makes a statement fail. `Notify` may lose the notification. A reload lists
the clusters, then the templates of one cluster after another, and binds one
queue at a time. A submission reads the templates and inserts its rows in a
transaction beside all that.

### `ChannelPool` and `MqConsumer`

A critical section of the pool's mutex is one action. Users take a channel, use
it, and return or drop it as their call does: the kinds `headers`, `routing`,
`declare` and `consume` differ there. `sent` is the broker's count of the messages
on a channel, `next` the publisher's own, which must agree for `ConfirmIsOwn`.
`MqConsumer` adds outer loops, reading loops, callbacks and the broker's state of
each message; the steps of the pool are joined with what they do to the messages
in `PoolStep`.
Its consumers have the pool for themselves (`ConsumerAssumption`): they hold one
channel each and give all back, so that `GetChannel` never panics (theorem
`ConsumersNeverExhaust`): only publishers exhaust the pool, which `mq_pool` has.

### `RedisLocks` and `PgLeases`

`ttl` is the time left of each Redis key; `owner` is a ghost, as the value stored
is the constant `"locked"`. A `Mutex` is a `MultiMutex` of one key;
`AcquireMultiLock` and `ReleaseMultiLock` differ only in who starts the release.
`Work` bounds the time from the last lock to the last DEL. `LockFails` covers a
SETNX that failed and one whose answer was lost after it took effect.

In `PgLeases` every statement is sent, executed and answered in three steps, with
time passing in between; `age` is what the holder knows of its lock. The lease
computes its expiry with the client's clock, which may be `behind`.

## 3. Runs

| Run | Instance | States | Checks |
|---|---|---|---|
| `saga_faults` | 3 steps, 1 fault | 1.9M | `UndoneInReverse`, `CompensatedMeansUndone`, `RequestedAtMostOnce`, `BlockedIsReported`, `FinalStaysFinal`, `InvalidOnlyByLateTrigger`, `ContractSpec` |
| `saga_children` | 2 steps, the first spawns, 1 fault, fair | 220k | `ChildrenFirst`, `NoOrphanChild`, `HangsOnlyOnOrphan` |
| `saga_redelivery` | 2 steps, 1 extra delivery | 780k | `CommittedMeansApplied`, `NoRegress` |
| `saga_clients` | 2 steps, 1 fault, 1 client | 900k | `OutcomeIsWhole` |
| `executor` | 2 goroutines, 2 children, 2 faults, 4 kinds of executor, fair | 710k | `OneAtATime`, `WorkOncePerLife`, `AnswersAgree`, `SuccessIsTrue`, `CompensationIsLast`, `Answered` |
| `submission` | 1 saga, 2 callbacks, 2 starts, 1 fault, fair | 390k | `StoredOnce`, `RepliesTellTruth`, `DeafOnlyByWindow`, `SubmissionEnds`, `ReadyWithCluster`, `BreakerCloses` |
| `templates` | 2 clusters, 2 steps, 3 changes, 1 fault, fair | 760k | `InstanceKeepsTemplates`, `QueuesFollowTemplates` |
| `mq_pool` | 2 publishers, 2 slots, 1 stop, 1 fault | 2M | `ExclusiveHolders`, `SlotsAccounted`, `ConfirmIsOwn` |
| `mq_consumer` | 1 consumer, 1 message, 2 reading loops, 2 faults, fair | 120k | `NoMessageLost`, `CancelEnds`, `Redelivered` |
| `locks` | 2 clients, 2 keys, 2 faults, fair | 110k | `MutualExclusion`, `HoldsAll`, `NoCircularWait`, `DeletesOnlyItsOwn`, `LockFreed` |
| `leases` | 2 holders, 2 keys, TTL 2, skew 1 | 1.5M | `LeaseExcludes`, `LateStepsHarmless` |
| `saga_timeout` | violation expected | | `RunningEnds` |

(State counts are rounded.) Each property has a comment that says which behaviour
of the code it is about; `about` in `PROJECT.json` says what a run shows.

Deadlock is checked where the modelled part goes on for ever (locks, leases,
templates). A saga, a submission, a request and the pool's users stop when their
work or the bounds are used up, so those runs switch it off.

Why the bounds are enough to be interesting:

* saga: with three steps there is a first, a middle and a last step, so every
  neighbour check of `processSagaStep` is met with and without a neighbour; one
  extra delivery reaches every state of the step with a stale result; the one
  fault falls at any point of any pass;
* clients: two steps tell "all results" from "some"; the operator may send the
  committed saga back between the two requests;
* executor: two goroutines are the original and its duplicate; two faults allow a
  timeout followed by the death of the process, the shortest way to lose a
  request; two children show a respawn;
* submission: two starts give a restart with its window, two callbacks a
  duplicate beside the original;
* templates: two clusters, so that one can obstruct the other; a buffer of one,
  so that it overflows;
* pool: two slots and two publishers exhaust it; a third channel object lets a
  dropped channel and its successors coexist; two tags tell a message's
  confirmation from its predecessor's;
* leases: the two-tick TTL leaves room for a delay, a steal and a late statement.

**Redelivery and outcomes.** `CompensatedMeansUndone`, `UndoneInReverse` and the
contract are checked without redelivery: with it, a redelivered execution result
can be taken for a compensation result (see below).

**One consumer.** The proved properties of the coordinator assume one consumer of
the results queue per saga. The code intends it (comment
`coordinator.go:1555-1560`) but nothing enforces it.

### Fairness

All weak fairness unless said otherwise: the scheduling of Go, the delivery of
RabbitMQ and the TTLs of Redis. Nothing is assumed of faults, operators,
redeliveries, and of children in BLOCKED or INVALID_STATE.

* Coordinator: the poller's timer fires, goroutines holding or trying the mutex
  run, consumers take waiting results, executors take requests and eventually
  answer, child sagas that need no operator are run, the mutex of a dead holder
  expires. `PollBegin` has strong fairness: the poller starts its goroutines
  100 ms apart every round, so that a step's goroutine does not find the mutex
  taken in every round for ever.
* Executor: requests are delivered, goroutines run, the service's work and the
  children end.
* Submission: loops, callbacks and the announcement loop go on, a new process and
  `Restart` call `Start`, an outage ends. A `Start` that failed is not repeated:
  the daemon runs `go Start(ctx)` and drops its error.
* Templates: the reload loop runs and its ticker ticks; again a failed `Start`
  is not repeated.
* Consumers: the reconnection handler retries for ever, callbacks end, loops run.
  Strong fairness for a reading loop that sees its context cancelled: a Go
  `select` picks among its ready cases at random.
* Locks: time passes, clients go on.

### Disagreements between code and documents

`saga_timeout` is a run that TLC refutes; `findings` in `PROJECT.json` quotes the
text. A comment says that a RUNNING step without a result times out; both kinds of
pass skip RUNNING steps, so the timeout code is never reached.

The others were met while modelling. Those that one change of a configuration
shows can be reproduced with TLC:

| Claim | What the code does | How to see it |
|---|---|---|
| "When a step is in CompensationRunning, an incoming result IS the expected compensation result" (`coordinator.go:817`) | it may be a redelivered execution result: the payload does not say which request it answers | `MCSaga_redelivery.cfg` with `CompensatedMeansUndone` |
| coordinator work has "per-saga locking or equivalent guards" (`wiki/reference/core-requirements.md:21`) | the result handler takes no mutex; with two consumers the slower one writes over a DONE row | `MCSaga_redelivery.cfg` with two `Handlers`: `NoRegress` |
| a child not found "was likely never created" (`sub_saga_executor.go:175`) | it may still be in the queue, and runs after its parent was compensated | `MCSaga_children.cfg` with `EarlyGiveUp = TRUE`: `NoOrphanChild` |
| releasing expired locks is "safe" (`redis_impl.go:585`) | DEL deletes the successor's lock | `MCLocks_locks.cfg` with `Work` above `TTL`: `DeletesOnlyItsOwn` |
| `processStepWithMutex` "validates the step is still in a processable state" (`coordinator.go:1735`) | its list lacks COMPENSATION_BLOCKED: a late goroutine turns a BLOCKED saga into INVALID_STATE, which `ForceMarkSagaCompensated` refuses | the guard of `InvalidOnlyByLateTrigger` |
| "the submission deduplicates" a respawned child (`executor.go:410-413`) | every call draws a new random id: a restarted spawner has two children | `child` in `MCExecutor` after a restart |
| clearing the map ensures that submitters "will be followed again" (`coordinator.go:455`) | not one announced between the clearing and the new context: it stays deaf until the next restart | `window` in `DeafOnlyByWindow` |
| clusters and templates are picked up at run time (`wiki/concepts/template-hot-reload.md`) | a cluster created at run time has no exchange, tables, poller or results consumer until a restart, and a reload ends at it | `Obstructed` in `QueuesFollowTemplates` |
| "process one message at a time" (`helpers.go:704`) | after callbackTimeout+10s the outer loop starts a second reading loop | `LoopStopsWaiting` |
| `CreateSagaAnnex` works "atomically" (`store_psql.go`) | two autocommit statements | not modelled |
| the reload interval is TRAX_TEMPLATE_RELOAD_INTERVAL_MS (wiki) | the code reads TRAX_TEMPLATE_RELOAD_INTERVAL | not modelled |

What else the models show of the code, where the properties are worded
accordingly:

* INVALID_STATE does not always mean invalid transitions: a failed list query in
  `isSagaStateValid` is enough. It is not the end of processing either, because
  results and immediate goroutines do not look at the saga state: `SagaContract`
  lets a given-up saga still commit or be compensated, and promises only that the
  outcome is truthful.
* COMPENSATION_BLOCKED is missing from the list of late states, so that a
  redelivered result may move a blocked step (`PassInv`, `HandlerInv`).
* A client told COMMITTED may get no results at all, when the saga is sent back
  between its two requests; a failed second request turns a commit into an error,
  on which a parent step fails and its committed child is compensated.
* An executor's request is lost by a callback timeout (the copy is acknowledged
  with IN_EXECUTION) followed by the death of the process. An ERROR answered
  because the status cannot be read lets the compensation overtake an execution
  that is under way. The idempotency flags of traxcli are ignored: its results
  live in memory.
* `PublishWithHeaders` drops a channel after a retryable error and keeps its slot:
  `leaked` counts them, and enough of them make `GetChannel` panic. Capacity is not
  tested again after the sleep for a reconnect. A Stop does not reach channels in
  hand, whose new publishers then count from one. A message prefetched by a reading
  loop that ended stays unacknowledged on a pooled channel.
* A submitter whose first answer names no cluster is ready with an empty list for
  ever. FAILURE may be replied for a saga that is stored. A `Start` that fails
  midway leaves pollers and consumers that the next `Restart` doubles. Three errors
  open the breaker even if other calls succeeded in between.
* A step request published before its queue is bound is confirmed and lost
  (`mandatory` is false). A template deletion interrupted between its statements
  leaves a template that lists missing step templates.
* A keyed `Refresh` that finds its lock stolen returns no error, and a lease's
  renewer ends on any error while the work goes on.
* A `MultiMutex` may lose its first lock while it waits for the others unless
  timeout plus work stay below the TTL (`ShortWork`).

## 4. Proofs

Checked by TLAPS for any value of the constants: any number of steps, goroutines,
clients, holders, keys, channels, messages, clusters, faults and redeliveries. The
assumptions are the named ASSUMEs of the modules (numbers are numbers, `N` is
positive, spawners are steps, sets are finite) and those stated in a theorem.
Every invariant and every safety action property of a passing run is the
statement of a theorem, and so is the refinement of `SagaContract`.

### Coordinator (`SagaProofs`)

* `TypeCorrect`: `Spec => []TypeOK`, one case per action.
* `Invariant` (assuming `OneConsumer`): `Spec => []IInv`. `Shape` alone is not
  inductive. A result overwrites its row whatever it says, so one needs to know
  that what the consumer read is still so (`HandlerInv`); that needs that no pass
  moves a RUNNING row (`PassInv`: passes leave RUNNING rows alone, and a row in
  memory is stale only in two harmless ways), that the history tells an execution
  from a compensation (`HistoryInv`), that there is no traffic about a step before
  its request is sent (`TrafficInv`) and that the mutex is held exactly during a
  pass (`MutexInv`). `SendsInv` counts requests.
  From it: `ShapeHolds`, `SentOnce`, `PanicsUnreachable`, and `NeverRegresses`
  (an action property: a result is only ever written to a RUNNING or blocked row).
* `OutcomeInvariant` (same assumption): `OInv` relates the rows to the effects.
  `EffectInv` says what a row tells about its effect, which needs that an
  execution request is outstanding only while nothing has come of it
  (`RequestInv`), that a success on its way to a RUNNING step has taken place
  (`ResultInv`) and that nobody has heard of a step that never ran
  (`UntouchedInv`); `SagaInv` and `PassReads` say what the saga row and the rows in
  memory allow. All of this survives redelivery, because an execution request is
  answered only after the service has acted.
  From it: `CommitIsTrue` and `FinalIsFinal`.
* `ChildInvariant`, `ChildrenFirstHolds`, `NoOrphans` (assuming
  `EarlyGiveUp = FALSE` too: the executor goes on polling until its child is in the
  store). An execution is answered only when the child is stored, so that the
  compensation that follows finds it. With `EarlyGiveUp` TLC refutes
  `NoOrphanChild`, see the table above.
* `OnceInvariant` (assuming `MaxDups = 0` instead): `OnceInv` adds what holds on
  the way back. Passes work on rows as they are (`FreshInv`), at most one result
  per step is under way and answers the request that made its step RUNNING
  (`MailInv`, `AskedInv`, `HandsInv`), so that a step marked compensated is undone
  (`UndoneInv`) and a blocked step is reported (`BlockInv`). With a redelivered
  execution result a step under compensation is marked compensated although
  nothing was undone, and TLC refutes `CompensatedMeansUndone`; nothing weaker than
  "no redelivery" excludes that in this code, as a result does not say what it
  answers.
  From it: `ReverseOrder`, `CompensationIsTrue`, `BlockIsReported`,
  `ChecksNeverFire` and `ImplementsContract`. The last shows that initial states
  map to initial states and that every action is a step of `SagaContract` or
  leaves its variables alone: effects are applied in order and undone in reverse,
  and the outcome agrees with them.
* `OutcomesAreWhole`: a client between its two requests has read COMMITTED, after
  which all steps are DONE until they all leave DONE together (the initiation of a
  compensation is one transaction), or COMPENSATED, after which nothing moves.

### The other components

* `ExecutorProofs`: `ExecutorTypes`, `InFlightGuard`, `WorkDoneOnce`. The guard is
  inductive with the types. That the work is done once is not: a goroutine may act
  on a status it read long ago. `WorkInv` says that work once done is either still
  in the hands of the goroutine in flight or stored, so that whoever registers
  next finds the result in `Lookup`, whatever its status says. `AnswersDoAgree`,
  `SuccessIsEarned` and `CompensationComesLast` rest on `AnswerInv`: within a life
  an answer is the stored result, stored results are never replaced, and a
  compensation is requested only when the execution has its result. What no step
  but a restart takes back is a lemma of its own (`AdvancesStep`).
* `SubmissionProofs`: `SagasAreStoredOnce` and `RepliesAreTrue` from `QueueInv`. A
  callback knows what its transaction will write (`CallbackInv`); one undecided
  transaction has inserted a key (`KeyInv`, the unique index); a request that was
  not delivered again is in the queue, with one callback, or answered
  (`OnePlace`). `FollowsAgain` from `FollowInv`: outside the few statements of Stop
  between the cancellation and the clearing of the map, whoever is followed is
  read, or is about to be, or the window was hit.
* `TemplateProofs`: `InstanceTemplates`. From the first row it inserts, a
  submission's references hold (`References`); before that nothing does, and the
  inserts fail if a template is gone.
* `PoolProofs`: `HoldersAreExclusive`, `SlotsAreAccounted`, `ConfirmsAreOwn` from
  `PoolInv`. Two parts are needed beyond the three: a goroutine has a channel
  exactly while it works with one (`HoldInv`), and until a Stop the publisher's
  count is the broker's for every channel in use (`SeqInv`).
* `MqProofs`: `MessagesAreKept`, `ConsumersNeverExhaust`, `ConsumersKeepPool` from
  `MqInv`. It contains the pool's invariant, that reading loops have an open
  channel or know that they have none (`DeliveryInv`), and that the channels in
  the pool together with the consumers that have one, or will get one, are no more
  than the consumers (`RoomInv`): the pool is then never exhausted and never too
  full to take a channel back.
* `RedisLockProofs`: `LocksExclusive`, `LocksHeld`, `LocksDeletedByOwner` (assuming
  `ShortWork`: timeout plus work shorter than the TTL). The invariant relates the
  time left of every lock to the time its owner has waited and worked.
  `WaitsAreOrdered` and `NoDeadlock` need no bound on the times: who waits for a
  key has only smaller ones (`SortedInv`), so a chain of waiting clients has
  ascending keys and cannot close.
* `PgLeaseProofs`: `LeaseExclusion`, `LateHolders`. A holder that is not overdue
  has its row, and for at least what is left of the TTL since it sent the
  statement (`Holding`); the same for statements executed and not yet answered
  (`Taken`, `Refreshed`).

Only model-checked are the liveness properties, as fairness and ENABLED are
outside the prover's reach: `HangsOnlyOnOrphan`, `Answered`, `SubmissionEnds`,
`ReadyWithCluster`, `BreakerCloses`, `QueuesFollowTemplates`, `CancelEnds`,
`Redelivered`, `LockFreed`, and the refuted `RunningEnds`.

## 5. Not modelled

* Contents of messages, inputs and outputs of steps, JSON, labels, compensation
  reasons: no control depends on them.
* Several sagas: they share no row and no mutex; children are abstracted.
* `OrderSagaStepsInSequence` is represented by the order of `Steps`; a broken
  linked list of steps is not an input of the model.
* Configurable delays (`NextExecutionTs`) are zero in the code (ASAP).
* Annexes, paginated lists, hierarchies and other reads of traxctrl; Redis cache
  primitives; the store's table of transactions per goroutine; a send on the
  store's notification channel racing with its closing.
* traxcli's simulation that blocks for ever, and its commands and display.
* In-memory store, step state machine prototype, execution pipeline helpers,
  logging, hashing, random ids, database retries: test code, unused code or I/O.

## 6. Plan

1. *(done)* coordinator with children, faults and redelivery; contract and
   refinement; Redis locks; first theorems.
2. *(done)* clients, executor, submission and life cycle, hot reload, channel pool
   and consumers, PostgreSQL locks; theorems about executor, templates and leases.
3. *(done)* proofs of every safety property of the runs, among them the refinement
   of the contract, and the invariants behind them.
4. `isSagaStateValid` against the list of patterns in its comment, and
   `OrderSagaStepsInSequence` against a reference definition; what remains provable
   of the coordinator with several consumers; type correctness of templates,
   submission and locks.

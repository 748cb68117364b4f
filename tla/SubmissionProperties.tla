------------------------ MODULE SubmissionProperties ------------------------
(* What submission and the life of the coordinator promise.                *)
EXTENDS Submission

\* Every variable has its type.
SubTypeOK ==
  /\ life \in {"init", "starting", "loading", "up", "stopping", "cleared", "down"}
  /\ starts \in 0..MaxStarts /\ ctx \in {NilContext} \cup Contexts
  /\ live \subseteq Contexts /\ control \subseteq Contexts /\ consuming \subseteq Contexts
  /\ pollers \in 0..MaxStarts /\ bus \in 0..1 /\ errs \in 0..ErrorLimit /\ faults \in 0..MaxFaults
  /\ {followed, window, cluster, tables, dbUp, healthy} \subseteq BOOLEAN
  /\ fol \in [Followers -> {"idle", "set", "consume"}]
  /\ sub \in [ready: BOOLEAN, clusters: BOOLEAN, nodes: BOOLEAN]
  /\ outbox \in [Sagas -> Nat] /\ w \in [Workers -> WStates]
  /\ rows \in [Sagas -> [saga: Nat, sets: Nat]] /\ replies \in [Sagas -> SUBSET Outcomes]
  /\ {submitted, picked, again, unknown} \subseteq SUBSET Sagas

\* However often a request is delivered, at whatever point a callback times
\* out, the process dies or the connection to the database is lost: there is
\* one saga row at most, and it has one set of step rows (random step ids
\* would let a second set in).
StoredOnce == \A s \in Sagas : rows[s].saga = rows[s].sets /\ rows[s].saga <= 1

\* A SUCCESS reply is never wrong.  A FAILURE reply for a saga that is stored
\* and runs needs a request that was delivered twice or a COMMIT whose answer
\* got lost; the submitter only logs either.
RepliesTellTruth == \A s \in Sagas :
  /\ "success" \in replies[s] => Stored(s)
  /\ "failure" \in replies[s] /\ Stored(s) => s \in again \cup unknown

\* Nobody reads the submitter's outbox although the map says it is followed.
Deaf == followed /\ consuming \cap live = {} /\ \A f \in Followers : fol[f] # "consume"

\* "This ensures that after restart, saga submitters will be followed again"
\* (Stop): a running coordinator is deaf only if an announcement was handled
\* before the first Start or between Stop's clearing of the map and Start.
DeafOnlyByWindow == isRunning /\ Deaf => window

\* Every submission is answered, and if the saga is stored a poller finds it,
\* unless the coordinator stays deaf or its Start has failed for good.
Settled(s) == replies[s] # {} /\ (Stored(s) => s \in picked)
SubmissionEnds ==
  \/ <>[](Deaf \/ life = "down")
  \/ \A s \in Sagas : s \in submitted ~> Settled(s)

\* Once the cluster exists the submitter becomes ready with it
\* (WaitUntilReadyToAcceptSagaSubmissionRequests returns), unless it is ready
\* with an empty list: while announcements succeed, no answer changes that.
ReadyWithCluster == cluster /\ ~(sub.ready /\ ~sub.clusters) ~> sub.ready /\ sub.clusters

\* The breaker does not stay open: an outage that ends is noticed, unless
\* Start has failed and left no poller to check.
BreakerCloses == ~healthy ~> healthy \/ life = "down"

=============================================================================

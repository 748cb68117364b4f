-------------------------- MODULE SubmissionProofs --------------------------
(* The way of a saga into the store, for any number of sagas, callbacks,   *)
(* starts and faults: it is stored once, the replies about it are true,    *)
(* and a running coordinator that follows its submitter reads its outbox.  *)
EXTENDS SubmissionProperties, FiniteSetTheorems, TLAPS

\* The shape of the queue and of the rows.
QueueTypes ==
  /\ w \in [Workers -> WStates] /\ outbox \in [Sagas -> Nat]
  /\ rows \in [Sagas -> [saga: Nat, sets: Nat]] /\ replies \in [Sagas -> SUBSET Outcomes]

\* A callback knows what its transaction will write: the saga and its steps if
\* it has inserted the key, nothing if it has found it.  Whoever has lost its
\* claim to the request has seen it go back to the queue.
CallbackInv(x) ==
  /\ w[x].pc = "idle" <=> w[x].saga = NoSaga
  /\ w[x].saved = 1 => w[x].pc = "committing" /\ ~Stored(w[x].saga)
  /\ w[x].pc = "committing" /\ w[x].saved = 0 => Stored(w[x].saga)
  /\ w[x].pc = "reply" /\ w[x].out = "success" => Stored(w[x].saga)
  /\ w[x].pc # "idle" => w[x].saga \in submitted /\ (w[x].owns = 0 => w[x].saga \in again)

\* The unique index: one undecided transaction has inserted a key.
KeyInv ==
  \A x, y \in Workers :
    w[x].saved = 1 /\ w[y].saved = 1 /\ w[x].saga = w[y].saga => x = y

\* A request that was not delivered again is in one place: in the queue, with
\* one callback, or answered.
OnePlace(s) ==
  /\ outbox[s] \in {0, 1}
  /\ outbox[s] = 1 => \A x \in Workers : w[x].saga # s
  /\ \A x, y \in Workers : w[x].saga = s /\ w[y].saga = s => x = y
  /\ replies[s] # {} => outbox[s] = 0 /\ \A x \in Workers : w[x].saga # s

RequestInv(s) ==
  /\ s \notin submitted => outbox[s] = 0 /\ replies[s] = {} /\ ~Stored(s)
  /\ s \notin again => OnePlace(s)
  /\ s \notin again \cup unknown /\ Stored(s) =>
       /\ outbox[s] = 0 /\ "failure" \notin replies[s]
       /\ \A x \in Workers : w[x].saga = s => w[x].pc = "reply" /\ w[x].out = "success"
  /\ rows[s].saga = rows[s].sets /\ rows[s].saga <= 1
  /\ "success" \in replies[s] => Stored(s)

\* The inductive invariant of the queue.
QueueInv ==
  /\ QueueTypes /\ KeyInv
  /\ \A x \in Workers : CallbackInv(x)
  /\ \A s \in Sagas : RequestInv(s)

\* While Stop is not between the cancellation and the clearing of the map, a
\* followed submitter is read, or is about to be, or the window was hit.
FollowInv ==
  /\ starts \in 0..MaxStarts /\ ctx \in {NilContext} \cup Contexts
  /\ live \subseteq Contexts /\ consuming \subseteq Contexts
  /\ fol \in [Followers -> {"idle", "set", "consume"}]
  /\ life # "stopping" /\ Deaf => window

-----------------------------------------------------------------------------
(* Following.                                                              *)

\* Whoever stops reading forgets whom it follows, and whoever follows reads
\* with a live context or notes that it has none.
LEMMA FollowStep ==
  ASSUME FollowInv, [Next]_vars
  PROVE  FollowInv'
<1>1. CASE UNCHANGED <<starts, ctx, live, fol, followed, consuming, window, life>>
  BY <1>1 DEF FollowInv, Deaf
<1>2. CASE StartContext
  <2>1. /\ starts < MaxStarts /\ starts' = starts + 1 /\ ctx' = starts + 1
        /\ live' = live \cup {starts + 1} /\ life # "stopping"
        /\ UNCHANGED <<fol, followed, consuming, window>>
    BY <1>2 DEF StartContext, followVars
  <2>2. Deaf' => Deaf
    BY <2>1 DEF Deaf
  <2> QED
    BY <2>1, <2>2, SubmissionAssumption DEF FollowInv, NilContext, Contexts
<1>3. CASE StartClusters \/ StartDone \/ StartFails \/ RestartTimesOut
  <2>1. life # "stopping" /\ UNCHANGED <<starts, ctx, live, fol, followed, consuming, window>>
    BY <1>3 DEF StartClusters, StartDone, StartFails, RestartTimesOut, followVars
  <2> QED
    BY <2>1 DEF FollowInv, Deaf
<1>4. CASE Stop
  BY <1>4 DEF Stop, followVars, FollowInv
<1>5. CASE StopClears
  BY <1>5 DEF StopClears, Forget, FollowInv, Deaf
<1>6. CASE Crash
  BY <1>6 DEF Crash, FollowInv, Deaf
<1>7. CASE Announce \/ ControlMessage
  <2>1. /\ UNCHANGED <<starts, ctx, live, followed, consuming, window, life>>
        /\ \A f \in Followers : fol'[f] = fol[f] \/ (fol[f] = "idle" /\ fol'[f] \in {"idle", "set"})
        /\ fol' \in [Followers -> {"idle", "set", "consume"}]
    BY <1>7 DEF Announce, ControlMessage, startVars, FollowInv
  <2>2. Deaf' => Deaf
    BY <2>1 DEF Deaf
  <2> QED
    BY <2>1, <2>2 DEF FollowInv
<1>8. ASSUME NEW f \in Followers, FollowSet(f) PROVE FollowInv'
  <2>1. fol'[f] = "consume" /\ fol' \in [Followers -> {"idle", "set", "consume"}]
    BY <1>8 DEF FollowSet, FollowInv
  <2> QED
    BY <1>8, <2>1 DEF FollowSet, startVars, FollowInv, Deaf
<1>9. ASSUME NEW f \in Followers, FollowConsume(f) PROVE FollowInv'
  <2>1. /\ UNCHANGED <<starts, ctx, live, life>> /\ fol' \in [Followers -> {"idle", "set", "consume"}]
        /\ window' = (window \/ ctx \notin live)
        /\ consuming' = IF ctx = NilContext THEN consuming ELSE consuming \cup {ctx}
    BY <1>9 DEF FollowConsume, startVars, FollowInv
  <2>2. CASE ctx \in live
    <3>1. 0 \notin Contexts
      BY DEF Contexts
    <3>2. ctx # NilContext
      BY <2>2, <3>1 DEF FollowInv, NilContext
    <3>3. ctx \in consuming'
      BY <2>1, <3>2
    <3> QED
      BY <2>1, <2>2, <3>2, <3>3 DEF FollowInv, Deaf
  <2>3. CASE ctx \notin live
    BY <2>1, <2>3 DEF FollowInv
  <2> QED
    BY <2>2, <2>3
<1>10. CASE HealthCheck \/ Poll \/ DbFails \/ DbHeals \/ AddCluster
  BY <1>1, <1>10 DEF HealthCheck, Poll, DbFails, DbHeals, AddCluster, startVars, followVars
<1>11. ASSUME NEW s \in Sagas, SubmitSaga(s) \/ \E x \in Workers : Deliver(x, s) PROVE FollowInv'
  BY <1>1, <1>11 DEF SubmitSaga, Deliver, startVars, followVars
<1>12. ASSUME NEW x \in Workers, Callback(x) \/ ReplyFails(x) \/ CallbackTimeout(x) PROVE FollowInv'
  BY <1>1, <1>12 DEF Callback, BeginTransaction, SaveSagaInstanceIdempotently, Commit, CommitFails,
                     Reply, ReplyFails, CallbackTimeout, startVars, followVars
<1>13. CASE UNCHANGED vars
  BY <1>1, <1>13 DEF vars, startVars, followVars
<1> QED
  BY <1>2, <1>3, <1>4, <1>5, <1>6, <1>7, <1>8, <1>9, <1>10, <1>11, <1>12, <1>13 DEF Next, Follow

-----------------------------------------------------------------------------
(* The queue and the rows.                                                 *)

\* A step that concerns neither.
LEMMA QueueRests ==
  ASSUME QueueInv, UNCHANGED <<rows, submitted, outbox, w, replies, again, unknown>>
  PROVE  QueueInv'
  BY DEF QueueInv, QueueTypes, KeyInv, CallbackInv, RequestInv, OnePlace, Stored

\* The next state of a callback that knows neither more nor less than it should.
GoesOn(x, r) ==
  /\ r.saga = w[x].saga /\ r.owns = w[x].owns /\ r.pc # "idle"
  /\ r.saved = 1 => /\ r.pc = "committing" /\ ~Stored(w[x].saga)
                    /\ \A y \in Workers \ {x} : ~(w[y].saga = w[x].saga /\ w[y].saved = 1)
  /\ r.pc = "committing" /\ r.saved = 0 => Stored(w[x].saga)
  /\ r.pc = "reply" => r.out = "failure"

\* A callback with its request goes on, before its reply and without a COMMIT.
LEMMA CallbackGoesOn ==
  ASSUME QueueInv, NEW x \in Workers, w[x].pc \notin {"idle", "reply"},
         NEW r \in WStates, w' = [w EXCEPT ![x] = r],
         GoesOn(x, r),
         UNCHANGED <<rows, submitted, outbox, replies, again, unknown>>
  PROVE  QueueInv'
<1>1. w'[x] = r /\ \A y \in Workers \ {x} : w'[y] = w[y]
  BY DEF QueueInv, QueueTypes
<1>2. QueueTypes'
  BY DEF QueueInv, QueueTypes
<1>3. \A y \in Workers : w'[y].saga = w[y].saga
  BY <1>1 DEF GoesOn
<1>4. \A s \in Sagas : Stored(s)' <=> Stored(s)
  BY DEF Stored
<1>5. KeyInv'
  BY <1>1, <1>3 DEF QueueInv, KeyInv, GoesOn
<1>6. CallbackInv(x)'
  BY <1>1 DEF QueueInv, CallbackInv, Stored, GoesOn
<1>7. ASSUME NEW y \in Workers, y # x PROVE CallbackInv(y)'
  BY <1>1, <1>7 DEF QueueInv, CallbackInv, Stored
<1>8. ASSUME NEW s \in Sagas PROVE RequestInv(s)'
  <2>1. RequestInv(s)
    BY DEF QueueInv
  <2>2. s \notin again => OnePlace(s)'
    BY <1>3, <2>1 DEF RequestInv, OnePlace
  <2>3. s \notin again \cup unknown /\ Stored(s) => w[x].saga # s
    BY <2>1 DEF RequestInv
  <2> QED
    BY <1>1, <1>3, <1>4, <2>1, <2>2, <2>3 DEF RequestInv, Stored
<1> QED
  BY <1>2, <1>5, <1>6, <1>7, <1>8 DEF QueueInv

\* A COMMIT takes effect: the row is there, with its steps, and once.
LEMMA CommitWrites ==
  ASSUME QueueInv, NEW x \in Workers, w[x].pc = "committing",
         NEW r \in WStates, w' = [w EXCEPT ![x] = r],
         r.saga = w[x].saga, r.owns = w[x].owns, r.pc = "reply", r.saved = 0,
         rows' = Written(x),
         \/ r.out = "success" /\ unknown' = unknown
         \/ unknown' = unknown \cup {w[x].saga},
         UNCHANGED <<submitted, outbox, replies, again>>
  PROVE  QueueInv'
<1> DEFINE s == w[x].saga
<1>1. w'[x] = r /\ \A y \in Workers \ {x} : w'[y] = w[y]
  BY DEF QueueInv, QueueTypes
<1>2. w[x] \in WStates /\ CallbackInv(x) /\ rows \in [Sagas -> [saga: Nat, sets: Nat]]
  BY DEF QueueInv, QueueTypes
<1>3. s \in Sagas /\ w[x].saved \in {0, 1}
  BY <1>2 DEF CallbackInv, WStates
<1>4. RequestInv(s)
  BY <1>3 DEF QueueInv
<1>5. w[x].saved = 1 => rows[s].saga = 0 /\ rows[s].sets = 0
  BY <1>2, <1>3, <1>4 DEF CallbackInv, RequestInv, Stored
<1>6. w[x].saved = 0 => rows[s].saga = 1 /\ rows[s].sets = 1
  BY <1>2, <1>3, <1>4 DEF CallbackInv, RequestInv, Stored
<1>7. /\ rows' \in [Sagas -> [saga: Nat, sets: Nat]]
      /\ rows'[s].saga = 1 /\ rows'[s].sets = 1
      /\ \A t \in Sagas \ {s} : rows'[t] = rows[t]
  <2>1. rows' = [rows EXCEPT ![s].saga = @ + w[x].saved, ![s].sets = @ + w[x].saved]
    BY DEF Written
  <2> HIDE DEF s
  <2>2. rows[s].saga + w[x].saved = 1 /\ rows[s].sets + w[x].saved = 1
    BY <1>3, <1>5, <1>6
  <2>3. ASSUME NEW q \in [saga: Nat, sets: Nat], NEW a \in Nat, NEW b \in Nat
        PROVE  LET z == [q EXCEPT !.saga = a, !.sets = b]
               IN  z \in [saga: Nat, sets: Nat] /\ z.saga = a /\ z.sets = b
    OBVIOUS
  <2> DEFINE z == [rows[s] EXCEPT !.saga = 1, !.sets = 1]
  <2>4. rows[s] \in [saga: Nat, sets: Nat]
    BY <1>2, <1>3
  <2>5. z \in [saga: Nat, sets: Nat] /\ z.saga = 1 /\ z.sets = 1
    BY <2>3, <2>4
  <2>6. rows' = [rows EXCEPT ![s] = z]
    BY <1>2, <1>3, <2>1, <2>2, <2>4
  <2> HIDE DEF z
  <2>7. rows'[s] = z /\ \A t \in Sagas \ {s} : rows'[t] = rows[t]
    BY <1>2, <1>3, <2>6
  <2>8. rows' \in [Sagas -> [saga: Nat, sets: Nat]]
    BY <1>2, <1>3, <2>5, <2>6
  <2> QED
    BY <2>5, <2>7, <2>8
<1>8. \A t \in Sagas : /\ Stored(t) => Stored(t)'
                       /\ t # s => (Stored(t)' <=> Stored(t))
  BY <1>7 DEF Stored
<1>9. Stored(s)'
  BY <1>3, <1>7 DEF Stored
<1> HIDE DEF s
<1>10. QueueTypes'
  BY <1>7 DEF QueueInv, QueueTypes
<1>11. \A y \in Workers : w'[y].saga = w[y].saga
  BY <1>1
<1>12. KeyInv'
  BY <1>1 DEF QueueInv, KeyInv
<1>13. CallbackInv(x)'
  <2>1. Stored(w[x].saga)'
    BY <1>1, <1>9 DEF Stored, s
  <2> QED
    BY <1>1, <1>2, <2>1 DEF CallbackInv
<1>14. ASSUME NEW y \in Workers, y # x PROVE CallbackInv(y)'
  <2>1. w'[y] = w[y] /\ CallbackInv(y) /\ w[y] \in WStates
    BY <1>1, <1>14 DEF QueueInv, QueueTypes
  <2>2. w[y].pc # "idle" => w[y].saga \in Sagas
    BY <2>1 DEF CallbackInv, WStates
  <2>3. w[y].saved = 1 => w[y].saga # s
    <3>1. CASE w[x].saved = 1
      BY <1>14, <3>1 DEF QueueInv, KeyInv, s
    <3>2. CASE w[x].saved = 0
      <4>1. Stored(s)
        BY <1>2, <3>2 DEF CallbackInv, s
      <4> QED
        BY <2>1, <4>1 DEF CallbackInv
    <3> QED
      BY <1>3, <3>1, <3>2
  <2>4. w[y].saved = 1 => w[y].saga \in Sagas /\ ~Stored(w[y].saga)
    BY <2>1, <2>2 DEF CallbackInv
  <2>5. w[y].saved = 1 => ~Stored(w[y].saga)'
    <3>1. \A t \in Sagas : t # s /\ ~Stored(t) => ~Stored(t)'
      BY <1>8
    <3> QED
      BY <2>1, <2>3, <2>4, <3>1 DEF Stored
  <2>6. w[y].pc # "idle" /\ Stored(w[y].saga) => Stored(w[y].saga)'
    <3>1. \A t \in Sagas : Stored(t) => Stored(t)'
      BY <1>8
    <3> QED
      BY <2>1, <2>2, <3>1 DEF Stored
  <2> QED
    BY <2>1, <2>5, <2>6 DEF CallbackInv
<1>15. ASSUME NEW t \in Sagas PROVE RequestInv(t)'
  <2>1. RequestInv(t)
    BY DEF QueueInv
  <2>2. t \notin again => OnePlace(t)'
    BY <1>11, <2>1 DEF RequestInv, OnePlace
  <2>3. CASE t # s
    <3>1. w[x].saga # t /\ rows'[t] = rows[t]
      BY <1>7, <2>3 DEF s
    <3>2. t \in unknown' <=> t \in unknown
      BY <3>1
    <3> QED
      BY <1>1, <1>8, <2>1, <2>2, <2>3, <3>1, <3>2 DEF RequestInv
  <2>4. CASE t = s
    <3>1. t \in submitted /\ rows'[t].saga = rows'[t].sets /\ rows'[t].saga <= 1
      BY <1>2, <1>7, <2>4 DEF CallbackInv, s
    <3>2. ASSUME t \notin again' \cup unknown'
          PROVE  /\ outbox'[t] = 0 /\ "failure" \notin replies'[t]
                 /\ \A y \in Workers : w'[y].saga = t => w'[y].pc = "reply" /\ w'[y].out = "success"
      <4>1. r.out = "success" /\ t \notin again
        BY <2>4, <3>2 DEF s
      <4>2. OnePlace(t) /\ w[x].saga = t
        BY <2>1, <2>4, <4>1 DEF RequestInv, s
      <4> QED
        BY <1>1, <1>11, <4>1, <4>2 DEF OnePlace
    <3>3. Stored(t)'
      BY <1>7, <2>4 DEF Stored
    <3>4. (t \notin again => OnePlace(t))'
      BY <2>2
    <3>5. (t \notin submitted => outbox[t] = 0 /\ replies[t] = {} /\ ~Stored(t))'
      BY <3>1
    <3> QED
      BY <3>1, <3>2, <3>3, <3>4, <3>5 DEF RequestInv
  <2> QED
    BY <2>3, <2>4
<1> QED
  BY <1>10, <1>12, <1>13, <1>14, <1>15 DEF QueueInv

\* A request enters the queue: nobody has heard of its saga.
LEMMA SubmitKeeps ==
  ASSUME QueueInv, NEW s \in Sagas, SubmitSaga(s)
  PROVE  QueueInv'
<1>1. /\ s \notin submitted /\ submitted' = submitted \cup {s}
      /\ outbox' = [outbox EXCEPT ![s] = 1]
      /\ UNCHANGED <<w, rows, replies, again, unknown>>
  BY DEF SubmitSaga, dbVars
<1>2. QueueTypes'
  BY <1>1 DEF QueueInv, QueueTypes
<1>3. outbox'[s] = 1 /\ \A t \in Sagas \ {s} : outbox'[t] = outbox[t]
  BY <1>1 DEF QueueInv, QueueTypes
<1>4. \A x \in Workers : w[x].saga # s
  BY <1>1, NoSagaAssumption DEF QueueInv, CallbackInv
<1>5. ASSUME NEW t \in Sagas PROVE RequestInv(t)'
  <2>1. RequestInv(t)
    BY DEF QueueInv
  <2>2. CASE t = s
    <3>1. replies[s] = {} /\ ~Stored(s)
      BY <1>1, <2>1, <2>2 DEF RequestInv
    <3>2. OnePlace(s)'
      BY <1>1, <1>3, <1>4, <3>1 DEF OnePlace
    <3> QED
      BY <1>1, <2>1, <2>2, <3>1, <3>2 DEF RequestInv, Stored
  <2>3. CASE t # s
    BY <1>1, <1>3, <2>1, <2>3 DEF RequestInv, OnePlace, Stored
  <2> QED
    BY <2>2, <2>3
<1>6. KeyInv'
  BY <1>1 DEF QueueInv, KeyInv
<1>7. ASSUME NEW x \in Workers PROVE CallbackInv(x)'
  BY <1>1 DEF QueueInv, CallbackInv, Stored
<1> QED
  BY <1>2, <1>5, <1>6, <1>7 DEF QueueInv

\* A request is handed to a callback: if it was never handed out twice, the
\* queue had its only copy and nothing is stored of it.
LEMMA DeliverKeeps ==
  ASSUME QueueInv, NEW x \in Workers, NEW s \in Sagas, Deliver(x, s), consuming \subseteq Contexts
  PROVE  QueueInv'
<1>1. /\ w[x].pc = "idle" /\ outbox[s] > 0 /\ outbox' = [outbox EXCEPT ![s] = @ - 1]
      /\ UNCHANGED <<rows, submitted, replies, again, unknown>>
  BY DEF Deliver, dbVars
<1>2. PICK e \in Contexts :
        w' = [w EXCEPT ![x] = [Idle EXCEPT !.pc = "ready", !.saga = s, !.by = e, !.owns = 1]]
  BY DEF Deliver
<1> DEFINE r == [Idle EXCEPT !.pc = "ready", !.saga = s, !.by = e, !.owns = 1]
<1>3. ASSUME NEW q \in WStates, NEW a \in {"ready"}, NEW c \in 0..1
      PROVE  LET z == [q EXCEPT !.pc = a, !.saga = s, !.by = e, !.owns = c]
             IN  z \in WStates /\ z.pc = a /\ z.saga = s /\ z.owns = c /\ z.saved = q.saved
  <2>1. ASSUME NEW P, NEW S, NEW B, NEW O, NEW D, NEW F, NEW z \in [pc: P, saga: S, by: B, owns: O, saved: D, out: F],
               NEW p1 \in P, NEW p2 \in S, NEW p3 \in B, NEW p4 \in O
        PROVE  LET y == [z EXCEPT !.pc = p1, !.saga = p2, !.by = p3, !.owns = p4]
               IN  y \in [pc: P, saga: S, by: B, owns: O, saved: D, out: F]
                   /\ y.pc = p1 /\ y.saga = p2 /\ y.owns = p4 /\ y.saved = z.saved
    OBVIOUS
  <2> QED
    BY <2>1 DEF WStates
<1>4. r \in WStates /\ r.pc = "ready" /\ r.saga = s /\ r.owns = 1 /\ r.saved = 0
  <2>1. Idle \in WStates /\ Idle.saved = 0
    BY DEF Idle, WStates, Outcomes
  <2>2. "ready" \in {"ready"} /\ 1 \in 0..1
    OBVIOUS
  <2> QED
    BY <1>3, <2>1, <2>2, ZenonT(40)
<1> HIDE DEF r
<1>5. outbox \in [Sagas -> Nat] /\ w \in [Workers -> WStates]
  BY DEF QueueInv, QueueTypes
<1>6. /\ w'[x] = r /\ \A y \in Workers \ {x} : w'[y] = w[y]
      /\ w' \in [Workers -> WStates]
  <2>1. w' = [w EXCEPT ![x] = r]
    BY <1>2 DEF r
  <2> QED
    BY <1>4, <1>5, <2>1
<1>7. /\ outbox'[s] = outbox[s] - 1 /\ \A t \in Sagas \ {s} : outbox'[t] = outbox[t]
      /\ outbox' \in [Sagas -> Nat]
  BY <1>1, <1>5
<1>8. QueueTypes'
  BY <1>1, <1>6, <1>7 DEF QueueInv, QueueTypes
<1>9. s \in submitted
  BY <1>1 DEF QueueInv, RequestInv
<1>10. KeyInv'
  BY <1>4, <1>6 DEF QueueInv, KeyInv
<1>11. CallbackInv(x)'
  BY <1>1, <1>4, <1>6, <1>9, NoSagaAssumption DEF CallbackInv
<1>12. ASSUME NEW y \in Workers, y # x PROVE CallbackInv(y)'
  BY <1>1, <1>6, <1>12 DEF QueueInv, CallbackInv, Stored
<1>13. w[x].saga = NoSaga
  BY <1>1 DEF QueueInv, CallbackInv
<1>14. ASSUME NEW t \in Sagas PROVE RequestInv(t)'
  <2>1. RequestInv(t)
    BY DEF QueueInv
  <2>2. Stored(t)' <=> Stored(t)
    BY <1>1 DEF Stored
  <2>3. CASE t # s
    <3>1. \A y \in Workers : w'[y].saga = t => w'[y] = w[y]
      BY <1>4, <1>6, <2>3
    <3>2. \A y \in Workers : w'[y].saga = t <=> w[y].saga = t
      BY <1>4, <1>6, <1>13, <2>3, NoSagaAssumption
    <3>3. t \notin again => OnePlace(t)'
      BY <1>1, <1>7, <2>1, <2>3, <3>2 DEF RequestInv, OnePlace
    <3> QED
      BY <1>1, <1>7, <2>1, <2>2, <2>3, <3>1, <3>2, <3>3 DEF RequestInv
  <2>4. CASE t = s
    <3>1. outbox[t] \in Nat /\ outbox[t] # 0
      BY <1>1, <1>5, <2>4
    <3>2. s \notin again \cup unknown => ~Stored(s)
      BY <2>1, <2>4, <3>1 DEF RequestInv
    <3>3. ASSUME t \notin again PROVE OnePlace(t)'
      <4>1. OnePlace(t)
        BY <2>1, <3>3 DEF RequestInv
      <4>2. outbox[t] = 1 /\ replies[t] = {} /\ \A y \in Workers : w[y].saga # t
        BY <3>1, <4>1 DEF OnePlace
      <4>3. outbox'[t] = 0
        BY <1>7, <2>4, <4>2
      <4>4. \A y \in Workers : w'[y].saga = t => y = x
        BY <1>6, <4>2
      <4> QED
        BY <1>1, <4>2, <4>3, <4>4 DEF OnePlace
    <3> QED
      BY <1>1, <1>9, <2>1, <2>2, <2>4, <3>2, <3>3 DEF RequestInv
  <2> QED
    BY <2>3, <2>4
<1> QED
  BY <1>8, <1>10, <1>11, <1>12, <1>14 DEF QueueInv

\* What goes back to the queue when callbacks end without settling: only the
\* requests that are noted as delivered again.
LEMMA RequeuedFacts ==
  ASSUME QueueInv, NEW xs \in SUBSET Workers
  PROVE  /\ Requeued(xs) \in [Sagas -> Nat] /\ again \subseteq Redelivered(xs)
         /\ \A x \in xs : w[x].pc # "idle" => w[x].saga \in Redelivered(xs)
         /\ \A s \in Sagas : s \notin Redelivered(xs) \/ s \notin submitted =>
              Requeued(xs)[s] = outbox[s] /\ \A x \in xs : w[x].saga # s
<1> DEFINE Copies(s) == {x \in xs : w[x].saga = s /\ w[x].owns = 1}
<1>1. IsFiniteSet(xs) /\ outbox \in [Sagas -> Nat]
  BY SubmissionAssumption, FS_Subset DEF QueueInv, QueueTypes
<1>2. ASSUME NEW s \in Sagas PROVE Cardinality(Copies(s)) \in Nat
  <2>1. IsFiniteSet(Copies(s))
    BY <1>1, FS_Subset
  <2> QED
    BY <2>1, FS_CardinalityType
<1>3. Requeued(xs) = [s \in Sagas |-> outbox[s] + Cardinality(Copies(s))]
  BY DEF Requeued
<1>4. Requeued(xs) \in [Sagas -> Nat]
  <2> HIDE DEF Copies
  <2> QED
    BY <1>1, <1>2, <1>3
<1>5. ASSUME NEW x \in xs, w[x].pc # "idle" PROVE w[x].saga \in Redelivered(xs)
  <2>1. CallbackInv(x) /\ w[x] \in WStates
    BY DEF QueueInv, QueueTypes
  <2>2. CASE w[x].owns = 0
    BY <1>5, <2>1, <2>2 DEF CallbackInv, Redelivered
  <2>3. CASE w[x].owns = 1
    BY <2>3 DEF Redelivered
  <2> QED
    BY <2>1, <2>2, <2>3 DEF WStates
<1>6. ASSUME NEW s \in Sagas, s \notin Redelivered(xs) \/ s \notin submitted
      PROVE  Requeued(xs)[s] = outbox[s] /\ \A x \in xs : w[x].saga # s
  <2>1. ASSUME NEW x \in xs, w[x].saga = s PROVE FALSE
    <3>1. CallbackInv(x) /\ w[x].pc # "idle"
      BY <2>1, NoSagaAssumption DEF QueueInv, CallbackInv
    <3> QED
      BY <1>5, <1>6, <2>1, <3>1 DEF CallbackInv
  <2>2. Copies(s) = {}
    BY <2>1
  <2>3. Cardinality(Copies(s)) = 0
    BY <2>2, FS_EmptySet
  <2> HIDE DEF Copies
  <2>4. Requeued(xs)[s] = outbox[s] + Cardinality(Copies(s))
    BY <1>3
  <2> QED
    BY <1>1, <2>1, <2>3, <2>4
<1> QED
  BY <1>4, <1>5, <1>6 DEF Redelivered

\* Callbacks end or lose their claim, and their requests go back.
LEMMA GivesBack ==
  ASSUME QueueInv, NEW xs \in SUBSET Workers,
         outbox' = Requeued(xs), again' = Redelivered(xs), w' \in [Workers -> WStates],
         \A y \in Workers \ xs : w'[y] = w[y],
         \A y \in xs : \/ w'[y] = Idle
                       \/ /\ w[y].pc # "idle" /\ w'[y].pc = w[y].pc /\ w'[y].saga = w[y].saga
                          /\ w'[y].saved = w[y].saved /\ w'[y].out = w[y].out,
         replies' \in [Sagas -> SUBSET Outcomes],
         \A t \in Sagas : \/ replies'[t] = replies[t]
                          \/ /\ t \in again' /\ t \in submitted
                             /\ "success" \in replies'[t] => Stored(t),
         UNCHANGED <<rows, submitted, unknown>>
  PROVE  QueueInv'
<1>1. /\ outbox' \in [Sagas -> Nat] /\ again \subseteq again'
      /\ \A x \in xs : w[x].pc # "idle" => w[x].saga \in again'
      /\ \A s \in Sagas : s \notin again' \/ s \notin submitted =>
           outbox'[s] = outbox[s] /\ \A x \in xs : w[x].saga # s
  BY RequeuedFacts
<1>2. QueueTypes'
  BY <1>1 DEF QueueInv, QueueTypes
<1>3. Idle.pc = "idle" /\ Idle.saga = NoSaga /\ Idle.saved = 0
  BY DEF Idle
<1>4. \A y \in Workers : w'[y].saved = 1 => w[y].saved = 1 /\ w'[y].saga = w[y].saga
  BY <1>3
<1>5. KeyInv'
  BY <1>4 DEF QueueInv, KeyInv
<1>6. ASSUME NEW y \in Workers PROVE CallbackInv(y)'
  <2>1. CallbackInv(y)
    BY DEF QueueInv
  <2>2. CASE w'[y] = Idle
    BY <1>3, <2>2 DEF CallbackInv
  <2>3. CASE w'[y] # Idle /\ y \in xs
    <3>1. /\ w[y].pc # "idle" /\ w'[y].pc = w[y].pc /\ w'[y].saga = w[y].saga
          /\ w'[y].saved = w[y].saved /\ w'[y].out = w[y].out /\ w[y].saga \in again'
      BY <1>1, <2>3
    <3> QED
      BY <2>1, <3>1 DEF CallbackInv, Stored
  <2>4. CASE y \notin xs
    BY <1>1, <2>1, <2>4 DEF CallbackInv, Stored
  <2> QED
    BY <2>2, <2>3, <2>4
<1>7. ASSUME NEW t \in Sagas PROVE RequestInv(t)'
  <2>1. RequestInv(t) /\ (Stored(t)' <=> Stored(t))
    BY DEF QueueInv, Stored
  <2>2. t \notin submitted => outbox'[t] = 0 /\ replies'[t] = {} /\ ~Stored(t)'
    BY <1>1, <2>1 DEF RequestInv
  <2>3. ASSUME t \notin again'
        PROVE  /\ outbox'[t] = outbox[t] /\ replies'[t] = replies[t] /\ t \notin again
               /\ \A y \in Workers : w'[y].saga = t => w'[y] = w[y]
    <3>1. \A y \in xs : w[y].saga # t
      BY <1>1, <2>3
    <3>2. \A y \in xs : w'[y].saga # t
      BY <1>3, <3>1, NoSagaAssumption
    <3> QED
      BY <1>1, <2>3, <3>2
  <2>4. t \notin again' => OnePlace(t)'
    BY <2>1, <2>3 DEF RequestInv, OnePlace
  <2>5. "success" \in replies'[t] => Stored(t)'
    BY <2>1 DEF RequestInv
  <2>6. ASSUME t \notin again' \cup unknown', Stored(t)'
        PROVE  /\ outbox'[t] = 0 /\ "failure" \notin replies'[t]
               /\ \A y \in Workers : w'[y].saga = t => w'[y].pc = "reply" /\ w'[y].out = "success"
    BY <2>1, <2>3, <2>6 DEF RequestInv
  <2> QED
    BY <2>1, <2>2, <2>4, <2>5, <2>6 DEF RequestInv
<1> QED
  BY <1>2, <1>5, <1>6, <1>7 DEF QueueInv

\* What a callback notes down when it has the outcome of its transaction.
LEMMA OutcomeNoted ==
  ASSUME w \in [Workers -> WStates], NEW x \in Workers, NEW o \in Outcomes,
         w' = [w EXCEPT ![x].pc = "reply", ![x].out = o, ![x].saved = 0]
  PROVE  \E r \in WStates :
           /\ w' = [w EXCEPT ![x] = r]
           /\ r.pc = "reply" /\ r.out = o /\ r.saved = 0 /\ r.saga = w[x].saga /\ r.owns = w[x].owns
<1>1. ASSUME NEW P, NEW S, NEW B, NEW O, NEW D, NEW F,
             NEW z \in [pc: P, saga: S, by: B, owns: O, saved: D, out: F],
             NEW p1 \in P, NEW p2 \in F, NEW p3 \in D
      PROVE  LET y == [z EXCEPT !.pc = p1, !.out = p2, !.saved = p3]
             IN  y \in [pc: P, saga: S, by: B, owns: O, saved: D, out: F]
                 /\ y.pc = p1 /\ y.out = p2 /\ y.saved = p3 /\ y.saga = z.saga /\ y.owns = z.owns
  OBVIOUS
<1> DEFINE r == [w[x] EXCEPT !.pc = "reply", !.out = o, !.saved = 0]
<1>2. /\ w[x] \in [pc: {"idle", "ready", "insert", "committing", "reply"},
                   saga: Sagas \cup {NoSaga}, by: {NilContext} \cup Contexts,
                   owns: 0..1, saved: 0..1, out: Outcomes]
      /\ "reply" \in {"idle", "ready", "insert", "committing", "reply"} /\ 0 \in 0..1
  BY DEF WStates
<1>3. /\ r \in WStates /\ r.pc = "reply" /\ r.out = o /\ r.saved = 0
      /\ r.saga = w[x].saga /\ r.owns = w[x].owns
  BY <1>1, <1>2, Zenon DEF WStates
<1>4. w' = [w EXCEPT ![x] = r]
  OBVIOUS
<1> HIDE DEF r
<1> QED
  BY <1>3, <1>4

\* A transaction is rolled back, whoever has failed it.
LEMMA FailsKeeps ==
  ASSUME QueueInv, NEW x \in Workers, w[x].pc \notin {"idle", "reply"}, Fails(x),
         UNCHANGED <<rows, submitted, outbox, replies, again, unknown>>
  PROVE  QueueInv'
<1>1. w \in [Workers -> WStates] /\ "failure" \in Outcomes
  BY DEF QueueInv, QueueTypes, Outcomes
<1>2. PICK r \in WStates :
        /\ w' = [w EXCEPT ![x] = r]
        /\ r.pc = "reply" /\ r.out = "failure" /\ r.saved = 0 /\ r.saga = w[x].saga /\ r.owns = w[x].owns
  BY <1>1, OutcomeNoted DEF Fails
<1>3. GoesOn(x, r)
  BY <1>2 DEF GoesOn
<1> QED
  BY <1>2, <1>3, CallbackGoesOn, Zenon

\* IsReady, the lookups and the beginning of the transaction.
LEMMA BeginKeeps ==
  ASSUME QueueInv, NEW x \in Workers, BeginTransaction(x)
  PROVE  QueueInv'
<1>1. w[x].pc = "ready" /\ UNCHANGED <<rows, submitted, outbox, replies, again, unknown>>
  BY DEF BeginTransaction, dbVars
<1>2. CASE Fails(x)
  BY <1>1, <1>2, FailsKeeps
<1>3. CASE ~Fails(x)
  <2> DEFINE r == [w[x] EXCEPT !.pc = IF Stored(w[x].saga) THEN "committing" ELSE "insert"]
  <2>1. w' = [w EXCEPT ![x] = r]
    BY <1>3 DEF BeginTransaction
  <2>2. w[x] \in WStates /\ CallbackInv(x)
    BY DEF QueueInv, QueueTypes
  <2>3. /\ r \in WStates /\ r.saga = w[x].saga /\ r.owns = w[x].owns /\ r.saved = w[x].saved
        /\ r.pc = IF Stored(w[x].saga) THEN "committing" ELSE "insert"
    BY <2>2 DEF WStates
  <2>4. w[x].saved = 0
    BY <1>1, <2>2 DEF CallbackInv, WStates
  <2> HIDE DEF r
  <2>5. GoesOn(x, r)
    BY <2>3, <2>4 DEF GoesOn
  <2>6. w[x].pc \notin {"idle", "reply"}
    BY <1>1
  <2> QED
    BY <1>1, <2>1, <2>3, <2>5, <2>6, CallbackGoesOn, Zenon
<1> QED
  BY <1>2, <1>3

\* The insert: it waits for whoever holds the key, and finds the row if there
\* is one, so that its own row is the only one to come.
LEMMA InsertKeeps ==
  ASSUME QueueInv, NEW x \in Workers, SaveSagaInstanceIdempotently(x)
  PROVE  QueueInv'
<1>1. w[x].pc = "insert" /\ UNCHANGED <<rows, submitted, outbox, replies, again, unknown>>
  BY DEF SaveSagaInstanceIdempotently, dbVars
<1>2. CASE Fails(x)
  BY <1>1, <1>2, FailsKeeps
<1>3. CASE ~Fails(x)
  <2> DEFINE r == [w[x] EXCEPT !.pc = "committing", !.saved = 1]
  <2>1. w \in [Workers -> WStates] /\ w[x] \in WStates
    BY DEF QueueInv, QueueTypes
  <2>2. ~StoreFails(x) /\ ~KeyLocked(x) /\ ~Stored(w[x].saga) /\ w' = [w EXCEPT ![x] = r]
    BY <1>3, <2>1 DEF SaveSagaInstanceIdempotently
  <2>3. /\ r \in WStates /\ r.saga = w[x].saga /\ r.owns = w[x].owns /\ r.saved = 1
        /\ r.pc = "committing"
    <3>1. ASSUME NEW q \in WStates, NEW p \in {"committing"}, NEW v \in 0..1
          PROVE  LET z == [q EXCEPT !.pc = p, !.saved = v]
                 IN  z \in WStates /\ z.saga = q.saga /\ z.owns = q.owns /\ z.saved = v /\ z.pc = p
      BY DEF WStates
    <3>2. "committing" \in {"committing"} /\ 1 \in 0..1
      OBVIOUS
    <3> QED
      BY <2>1, <3>1, <3>2, Zenon
  <2>4. \A y \in Workers \ {x} : ~(w[y].saga = w[x].saga /\ w[y].saved = 1)
    BY <2>2 DEF KeyLocked, QueueInv, CallbackInv
  <2> HIDE DEF r
  <2>5. GoesOn(x, r)
    BY <2>2, <2>3, <2>4 DEF GoesOn
  <2>6. w[x].pc \notin {"idle", "reply"}
    BY <1>1
  <2> QED
    BY <1>1, <2>2, <2>3, <2>5, <2>6, CallbackGoesOn, Zenon
<1> QED
  BY <1>2, <1>3

\* COMMIT, and the COMMIT whose answer gets lost.
LEMMA CommitKeeps ==
  ASSUME QueueInv, NEW x \in Workers, Commit(x) \/ CommitFails(x)
  PROVE  QueueInv'
<1>1. w[x].pc = "committing" /\ UNCHANGED <<submitted, outbox, replies, again>>
  BY DEF Commit, CommitFails
<1>2. w \in [Workers -> WStates] /\ {"success", "failure"} \subseteq Outcomes
  BY DEF QueueInv, QueueTypes, Outcomes
<1>3. CASE Commit(x)
  <2>1. PICK r \in WStates :
          /\ w' = [w EXCEPT ![x] = r]
          /\ r.pc = "reply" /\ r.out = "success" /\ r.saved = 0 /\ r.saga = w[x].saga /\ r.owns = w[x].owns
    BY <1>2, <1>3, OutcomeNoted DEF Commit
  <2>2. rows' = Written(x) /\ unknown' = unknown
    BY <1>3 DEF Commit
  <2> QED
    BY <1>1, <2>1, <2>2, CommitWrites
<1>4. CASE CommitFails(x) /\ UNCHANGED <<rows, unknown>>
  BY <1>1, <1>4, FailsKeeps DEF CommitFails
<1>5. CASE CommitFails(x) /\ rows' = Written(x) /\ unknown' = unknown \cup {w[x].saga}
  <2>1. PICK r \in WStates :
          /\ w' = [w EXCEPT ![x] = r]
          /\ r.pc = "reply" /\ r.out = "failure" /\ r.saved = 0 /\ r.saga = w[x].saga /\ r.owns = w[x].owns
    BY <1>2, <1>5, OutcomeNoted, ZenonT(40) DEF CommitFails, Fails
  <2> QED
    BY <1>1, <1>5, <2>1, CommitWrites
<1> QED
  BY <1>3, <1>4, <1>5 DEF CommitFails

\* The submitter is told what the callback knows, and the request is gone.
LEMMA ReplyKeeps ==
  ASSUME QueueInv, NEW x \in Workers, Reply(x)
  PROVE  QueueInv'
<1> DEFINE s == w[x].saga
           o == w[x].out
<1>1. /\ w[x].pc = "reply" /\ w' = [w EXCEPT ![x] = Idle]
      /\ replies' = [replies EXCEPT ![s] = @ \cup {o}]
      /\ UNCHANGED <<rows, submitted, outbox, again, unknown>>
  BY DEF Reply, dbVars
<1>2. w \in [Workers -> WStates] /\ replies \in [Sagas -> SUBSET Outcomes] /\ CallbackInv(x)
  BY DEF QueueInv, QueueTypes
<1>3. s \in Sagas /\ s \in submitted /\ o \in Outcomes /\ (o = "success" => Stored(s))
  BY <1>1, <1>2 DEF CallbackInv, WStates
<1>4. Idle \in WStates /\ Idle.pc = "idle" /\ Idle.saga = NoSaga /\ Idle.saved = 0
  BY DEF Idle, WStates, Outcomes
<1>5. w'[x] = Idle /\ (\A y \in Workers \ {x} : w'[y] = w[y]) /\ w' \in [Workers -> WStates]
  BY <1>1, <1>2, <1>4
<1> HIDE DEF s, o
<1>6. /\ replies'[s] = replies[s] \cup {o} /\ \A t \in Sagas \ {s} : replies'[t] = replies[t]
      /\ replies' \in [Sagas -> SUBSET Outcomes]
  BY <1>1, <1>2, <1>3
<1>7. QueueTypes'
  BY <1>1, <1>5, <1>6 DEF QueueInv, QueueTypes
<1>8. KeyInv'
  BY <1>4, <1>5 DEF QueueInv, KeyInv
<1>9. ASSUME NEW y \in Workers PROVE CallbackInv(y)'
  <2>1. CASE y = x
    BY <1>4, <1>5, <2>1 DEF CallbackInv
  <2>2. CASE y # x
    BY <1>1, <1>5, <2>2 DEF QueueInv, CallbackInv, Stored
  <2> QED
    BY <2>1, <2>2
<1>10. ASSUME NEW t \in Sagas PROVE RequestInv(t)'
  <2>1. RequestInv(t) /\ (Stored(t)' <=> Stored(t))
    BY <1>1 DEF QueueInv, Stored
  <2>2. \A y \in Workers : w'[y].saga = t => y # x /\ w'[y] = w[y]
    BY <1>4, <1>5, NoSagaAssumption
  <2>3. CASE t # s
    <3>1. replies'[t] = replies[t]
      BY <1>6, <2>3
    <3>2. t \notin again => OnePlace(t)'
      BY <1>1, <2>1, <2>2, <3>1 DEF RequestInv, OnePlace
    <3> QED
      BY <1>1, <2>1, <2>2, <3>1, <3>2 DEF RequestInv
  <2>4. CASE t = s
    <3>1. w[x].saga = t /\ w[x].out = o
      BY <2>4 DEF s, o
    <3>2. ASSUME t \notin again PROVE OnePlace(t)'
      <4>1. outbox[t] = 0 /\ \A y \in Workers : w[y].saga = t => y = x
        BY <2>1, <3>1, <3>2 DEF RequestInv, OnePlace
      <4>2. \A y \in Workers : w'[y].saga # t
        BY <2>2, <4>1
      <4> QED
        BY <1>1, <4>1, <4>2 DEF OnePlace
    <3>3. ASSUME t \notin again \cup unknown, Stored(t)
          PROVE  /\ outbox[t] = 0 /\ "failure" \notin replies'[t]
                 /\ \A y \in Workers : w'[y].saga = t => w'[y].pc = "reply" /\ w'[y].out = "success"
      <4>1. o = "success" /\ "failure" \notin replies[t]
        BY <2>1, <3>1, <3>3 DEF RequestInv
      <4> QED
        BY <1>6, <2>1, <2>2, <2>4, <3>3, <4>1 DEF RequestInv
    <3>4. "success" \in replies'[t] => Stored(t)
      BY <1>3, <1>6, <2>1, <2>4 DEF RequestInv
    <3> QED
      BY <1>1, <1>3, <2>1, <2>4, <3>2, <3>3, <3>4 DEF RequestInv
  <2> QED
    BY <2>3, <2>4
<1> QED
  BY <1>7, <1>8, <1>9, <1>10 DEF QueueInv

\* The reply is not confirmed, or the callback times out.
LEMMA RedeliveryKeeps ==
  ASSUME QueueInv, NEW x \in Workers, ReplyFails(x) \/ CallbackTimeout(x)
  PROVE  QueueInv'
<1>1. /\ w \in [Workers -> WStates] /\ w[x] \in WStates /\ CallbackInv(x)
      /\ replies \in [Sagas -> SUBSET Outcomes]
  BY DEF QueueInv, QueueTypes
<1>2. Idle \in WStates
  BY DEF Idle, WStates, Outcomes
<1>3. CASE ReplyFails(x)
  <2> DEFINE s == w[x].saga
             o == w[x].out
  <2>1. /\ w[x].pc = "reply" /\ w' = [w EXCEPT ![x] = Idle]
        /\ outbox' = Requeued({x}) /\ again' = Redelivered({x})
        /\ replies' = replies \/ replies' = [replies EXCEPT ![s] = @ \cup {o}]
        /\ UNCHANGED <<rows, submitted, unknown>>
    BY <1>3 DEF ReplyFails, dbVars
  <2>2. s \in Sagas /\ s \in submitted /\ o \in Outcomes /\ (o = "success" => Stored(s))
    BY <1>1, <2>1 DEF CallbackInv, WStates
  <2>3. {x} \in SUBSET Workers /\ s \in again'
    BY <2>1, RequeuedFacts
  <2>4. w' \in [Workers -> WStates] /\ w'[x] = Idle /\ \A y \in Workers \ {x} : w'[y] = w[y]
    BY <1>1, <1>2, <2>1
  <2> HIDE DEF s, o
  <2>5. replies' \in [Sagas -> SUBSET Outcomes]
    BY <1>1, <2>1, <2>2
  <2>6. \A t \in Sagas \ {s} : replies'[t] = replies[t]
    BY <1>1, <2>1, <2>2
  <2>7. "success" \in replies'[s] => Stored(s)
    <3>1. "success" \in replies[s] => Stored(s)
      BY <2>2 DEF QueueInv, RequestInv
    <3>2. replies'[s] = replies[s] \/ replies'[s] = replies[s] \cup {o}
      BY <1>1, <2>1, <2>2
    <3> QED
      BY <2>2, <3>1, <3>2
  <2>8. \A t \in Sagas : \/ replies'[t] = replies[t]
                         \/ t \in again' /\ t \in submitted /\ ("success" \in replies'[t] => Stored(t))
    BY <2>2, <2>3, <2>6, <2>7
  <2>9. \A y \in {x} : w'[y] = Idle
    BY <2>4
  <2> QED
    BY <2>1, <2>3, <2>4, <2>5, <2>8, <2>9, GivesBack
<1>4. CASE CallbackTimeout(x)
  <2> DEFINE r == [w[x] EXCEPT !.owns = 0, !.by = NilContext]
  <2>1. /\ w[x].pc # "idle" /\ w' = [w EXCEPT ![x] = r]
        /\ outbox' = Requeued({x}) /\ again' = Redelivered({x})
        /\ UNCHANGED <<rows, submitted, replies, unknown>>
    BY <1>1, <1>4 DEF CallbackTimeout, dbVars
  <2>2. /\ r \in WStates /\ r.pc = w[x].pc /\ r.saga = w[x].saga
        /\ r.saved = w[x].saved /\ r.out = w[x].out
    <3>1. ASSUME NEW c \in {NilContext} \cup Contexts, NEW n \in 0..1, NEW q \in WStates
          PROVE  LET z == [q EXCEPT !.owns = n, !.by = c]
                 IN  z \in WStates /\ z.pc = q.pc /\ z.saga = q.saga /\ z.saved = q.saved /\ z.out = q.out
      BY DEF WStates
    <3>2. 0 \in 0..1 /\ NilContext \in {NilContext} \cup Contexts
      OBVIOUS
    <3>3. ASSUME NEW q \in WStates
          PROVE  LET z == [q EXCEPT !.owns = 0, !.by = NilContext]
                 IN  z \in WStates /\ z.pc = q.pc /\ z.saga = q.saga /\ z.saved = q.saved /\ z.out = q.out
      BY <3>1, <3>2, Zenon
    <3> QED
      BY <1>1, <3>3, Zenon
  <2> HIDE DEF r
  <2>3. w' \in [Workers -> WStates] /\ w'[x] = r /\ \A y \in Workers \ {x} : w'[y] = w[y]
    BY <1>1, <2>1, <2>2
  <2>4. {x} \in SUBSET Workers
    OBVIOUS
  <2>5. \A y \in {x} : /\ w[y].pc # "idle" /\ w'[y].pc = w[y].pc /\ w'[y].saga = w[y].saga
                       /\ w'[y].saved = w[y].saved /\ w'[y].out = w[y].out
    BY <2>1, <2>2, <2>3
  <2> QED
    BY <1>1, <2>1, <2>3, <2>4, <2>5, GivesBack
<1> QED
  BY <1>3, <1>4

\* The process dies with all its callbacks.
LEMMA CrashKeeps ==
  ASSUME QueueInv, Crash
  PROVE  QueueInv'
<1>1. /\ w' = [y \in Workers |-> Idle] /\ outbox' = Requeued(Workers)
      /\ again' = Redelivered(Workers) /\ UNCHANGED <<rows, submitted, replies, unknown>>
  BY DEF Crash
<1>2. w' \in [Workers -> WStates] /\ (\A y \in Workers : w'[y] = Idle) /\ Workers \in SUBSET Workers
  BY <1>1 DEF Idle, WStates, Outcomes
<1>3. replies \in [Sagas -> SUBSET Outcomes]
  BY DEF QueueInv, QueueTypes
<1> QED
  BY <1>1, <1>2, <1>3, GivesBack

-----------------------------------------------------------------------------
(* The theorems.                                                           *)

\* Every step keeps the invariant of the queue.
LEMMA QueueStep ==
  ASSUME QueueInv, FollowInv, [Next]_vars
  PROVE  QueueInv'
<1>1. CASE \/ HealthCheck \/ Poll \/ StartContext \/ StartClusters \/ StartDone \/ StartFails
           \/ Stop \/ StopClears \/ RestartTimesOut \/ DbFails \/ DbHeals \/ AddCluster
           \/ UNCHANGED vars
  <2>1. UNCHANGED <<rows, submitted, outbox, w, replies, again, unknown>>
    BY <1>1 DEF HealthCheck, Poll, StartContext, StartClusters, StartDone, StartFails, Stop, StopClears,
                RestartTimesOut, DbFails, DbHeals, AddCluster, vars, queueVars, dbVars
  <2> QED
    BY <2>1, QueueRests
<1>2. CASE Announce \/ ControlMessage \/ \E f \in Followers : Follow(f)
  <2>1. UNCHANGED <<rows, submitted, outbox, w, replies, again, unknown>>
    BY <1>2 DEF Announce, ControlMessage, Follow, FollowSet, FollowConsume, queueVars, dbVars
  <2> QED
    BY <2>1, QueueRests
<1>3. ASSUME NEW s \in Sagas, SubmitSaga(s) PROVE QueueInv'
  BY <1>3, SubmitKeeps
<1>4. ASSUME NEW x \in Workers, NEW s \in Sagas, Deliver(x, s) PROVE QueueInv'
  BY <1>4, DeliverKeeps DEF FollowInv
<1>5. ASSUME NEW x \in Workers, Callback(x) PROVE QueueInv'
  BY <1>5, BeginKeeps, InsertKeeps, CommitKeeps, ReplyKeeps DEF Callback
<1>6. ASSUME NEW x \in Workers, ReplyFails(x) \/ CallbackTimeout(x) PROVE QueueInv'
  BY <1>6, RedeliveryKeeps
<1>7. CASE Crash
  BY <1>7, CrashKeeps
<1> QED
  BY <1>1, <1>2, <1>3, <1>4, <1>5, <1>6, <1>7 DEF Next

\* The inductive invariants hold: of the queue and of the followers.
THEOREM SubmissionInvariant == Spec => [](QueueInv /\ FollowInv)
<1>1. Init => QueueInv
  <2> SUFFICES ASSUME Init PROVE QueueInv
    OBVIOUS
  <2>1. QueueTypes
    BY DEF Init, QueueTypes, Idle, WStates, Outcomes
  <2>2. \A x \in Workers : w[x].pc = "idle" /\ w[x].saga = NoSaga /\ w[x].saved = 0
    BY DEF Init, Idle
  <2>3. \A s \in Sagas : rows[s].saga = 0 /\ rows[s].sets = 0 /\ outbox[s] = 0 /\ replies[s] = {}
    BY DEF Init
  <2>4. KeyInv /\ \A x \in Workers : CallbackInv(x)
    BY <2>2 DEF KeyInv, CallbackInv
  <2>5. \A s \in Sagas : RequestInv(s)
    BY <2>2, <2>3, NoSagaAssumption DEF RequestInv, OnePlace, Stored
  <2> QED
    BY <2>1, <2>4, <2>5 DEF QueueInv
<1>2. Init => FollowInv
  BY SubmissionAssumption DEF Init, FollowInv, Deaf
<1>3. QueueInv /\ FollowInv /\ [Next]_vars => QueueInv' /\ FollowInv'
  BY QueueStep, FollowStep
<1> QED
  BY <1>1, <1>2, <1>3, PTL DEF Spec

\* A saga is stored once, with one set of steps, however often its request is
\* delivered (SaveSagaInstanceIdempotently and the unique index).
THEOREM SagasAreStoredOnce == Spec => []StoredOnce
<1>1. QueueInv => StoredOnce
  BY DEF QueueInv, RequestInv, StoredOnce
<1> QED
  BY <1>1, SubmissionInvariant, PTL

\* A SUCCESS reply is true; a FAILURE reply about a saga that is stored needs a
\* second delivery or a COMMIT with a lost answer.
THEOREM RepliesAreTrue == Spec => []RepliesTellTruth
<1>1. QueueInv => RepliesTellTruth
  BY DEF QueueInv, RequestInv, RepliesTellTruth
<1> QED
  BY <1>1, SubmissionInvariant, PTL

\* After a restart the submitter is followed again: a running coordinator is
\* deaf to it only if an announcement was handled with a dead context.
THEOREM FollowsAgain == Spec => []DeafOnlyByWindow
<1>1. FollowInv => DeafOnlyByWindow
  BY DEF FollowInv, DeafOnlyByWindow, isRunning
<1> QED
  BY <1>1, SubmissionInvariant, PTL

=============================================================================

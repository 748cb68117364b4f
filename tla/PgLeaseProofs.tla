---------------------------- MODULE PgLeaseProofs ----------------------------
(* For any holders, keys, TTL and skew: the types of PgLeases, that locks and *)
(* leases exclude each other until a holder is overdue, and that the steps of *)
(* a holder that comes too late leave a live row of another alone.            *)
EXTENDS PgLeases, TLAPS

\* Which statements a holder can be waiting for.
Waiting ==
  \A h \in Holders :
    /\ kind = "lock" => behind[h] = 0
    /\ op[h] \in {"idle", "dead"} => res[h] = "none"
    /\ op[h] \in {"acquire", "renew"} => key[h] \in Keys
    /\ op[h] = "acquire" /\ kind = "lease" => held[h] = {}
    /\ op[h] = "renew" => kind = "lease" /\ held[h] = {key[h]} /\ sent[h] <= age[h][key[h]]
    /\ op[h] = "refresh" => kind = "lock"
    /\ op[h] = "release" => held[h] = {}
    /\ kind = "lease" => \A j, k \in held[h] : j = k

\* A holder that is not overdue has its row, and for long enough.
Holding ==
  \A h \in Holders : \A k \in held[h] :
    ~Overdue(h, k) => row[k].owner = h /\ row[k].left + age[h][k] + behind[h] >= TTL

\* So has one whose Acquire or renewal has executed and is not answered yet,
Taken ==
  \A h \in Holders :
    op[h] \in {"acquire", "renew"} /\ res[h] = "ok" /\ sent[h] + behind[h] < TTL
      => row[key[h]].owner = h /\ row[key[h]].left + sent[h] + behind[h] >= TTL

\* and one whose Refresh has.
Refreshed ==
  \A h \in Holders :
    op[h] = "refresh" /\ res[h] = "ok" /\ sent[h] < TTL
      => \A k \in held[h] : row[k].owner = h /\ row[k].left + sent[h] >= TTL

LeaseInv == LeaseTypeOK /\ Waiting /\ Holding /\ Taken /\ Refreshed

-----------------------------------------------------------------------------
(* One lemma per action: it keeps the invariant.                              *)
LEMMA SendAcquireKeeps ==
  ASSUME NEW h \in Holders, NEW k \in Keys, LeaseInv, SendAcquire(h, k)
  PROVE  LeaseInv'
<1>1. LeaseTypeOK'
  BY LeaseAssumption, FreeAssumption DEF LeaseInv, LeaseTypeOK, Rows, NoRow, Time, SendAcquire, Send
<1>2. Waiting'
  BY LeaseAssumption, FreeAssumption DEF LeaseInv, Waiting, LeaseTypeOK, Time, SendAcquire, Send
<1>3. Holding'
  BY LeaseAssumption, FreeAssumption DEF LeaseInv, Holding, LeaseTypeOK, Waiting, Overdue, Taken, Refreshed, Rows, NoRow, Time, SendAcquire, Send
<1>4. Taken'
  BY LeaseAssumption, FreeAssumption DEF LeaseInv, Taken, LeaseTypeOK, Waiting, Rows, NoRow, Time, SendAcquire, Send
<1>5. Refreshed'
  BY LeaseAssumption, FreeAssumption DEF LeaseInv, Refreshed, LeaseTypeOK, Waiting, Rows, NoRow, Time, SendAcquire, Send
<1> QED  BY <1>1, <1>2, <1>3, <1>4, <1>5 DEF LeaseInv

LEMMA SendExtendKeeps ==
  ASSUME NEW h \in Holders, LeaseInv, SendExtend(h)
  PROVE  LeaseInv'
<1>1. PICK o \in {"refresh", "renew"}, k \in Keys \cup {NoKey} :
        /\ Send(h, o, k)
        /\ o = "refresh" => kind = "lock"
        /\ o = "renew" => kind = "lease" /\ k \in held[h]
  BY DEF SendExtend, LeaseInv, LeaseTypeOK
<1>2. LeaseTypeOK'
  BY <1>1, LeaseAssumption DEF LeaseInv, LeaseTypeOK, Rows, Time, SendExtend, Send
<1>3. Waiting'
  BY <1>1, LeaseAssumption DEF LeaseInv, Waiting, LeaseTypeOK, Time, SendExtend, Send
<1>4. Holding'
  BY <1>1 DEF LeaseInv, Holding, Overdue, LeaseTypeOK, SendExtend, Send
<1>5. Taken' /\ Refreshed'
  BY <1>1 DEF LeaseInv, Taken, Refreshed, LeaseTypeOK, SendExtend, Send
<1> QED  BY <1>2, <1>3, <1>4, <1>5 DEF LeaseInv

LEMMA SendReleaseKeeps ==
  ASSUME NEW h \in Holders, LeaseInv, SendRelease(h)
  PROVE  LeaseInv'
<1>1. LeaseTypeOK'
  BY LeaseAssumption, FreeAssumption DEF LeaseInv, LeaseTypeOK, Rows, NoRow, Time, SendRelease, Send
<1>2. Waiting'
  BY LeaseAssumption, FreeAssumption DEF LeaseInv, Waiting, LeaseTypeOK, Time, SendRelease, Send
<1>3. Holding'
  BY LeaseAssumption, FreeAssumption DEF LeaseInv, Holding, LeaseTypeOK, Waiting, Overdue, Taken, Refreshed, Rows, NoRow, Time, SendRelease, Send
<1>4. Taken'
  BY LeaseAssumption, FreeAssumption DEF LeaseInv, Taken, LeaseTypeOK, Waiting, Rows, NoRow, Time, SendRelease, Send
<1>5. Refreshed'
  BY LeaseAssumption, FreeAssumption DEF LeaseInv, Refreshed, LeaseTypeOK, Waiting, Rows, NoRow, Time, SendRelease, Send
<1> QED  BY <1>1, <1>2, <1>3, <1>4, <1>5 DEF LeaseInv

LEMMA AnswerKeeps ==
  ASSUME NEW h \in Holders, LeaseInv, Answer(h)
  PROVE  LeaseInv'
<1>1. Granted(h) \subseteq Keys
  BY DEF LeaseInv, LeaseTypeOK, Waiting, Granted
<1>2. renews' \in [Holders -> BOOLEAN]
  BY DEF LeaseInv, LeaseTypeOK, Answer
<1>3. held' \in [Holders -> SUBSET Keys]
  BY <1>1 DEF LeaseInv, LeaseTypeOK, Answer
<1>4. age' \in [Holders -> [Keys -> Time]]
  BY <1>1 DEF LeaseInv, LeaseTypeOK, Answer
<1>5. LeaseTypeOK'
  BY <1>2, <1>3, <1>4, LeaseAssumption DEF LeaseInv, LeaseTypeOK, Answer, Time
<1>6. kind = "lease" => \A j, k \in held'[h] : j = k
  BY DEF LeaseInv, LeaseTypeOK, Waiting, Answer, Granted
<1>7. Waiting'
  BY <1>6 DEF LeaseInv, LeaseTypeOK, Waiting, Answer
<1>8. \A k \in Granted(h) :
        sent[h] + behind[h] < TTL
          => row[k].owner = h /\ row[k].left + sent[h] + behind[h] >= TTL
  BY LeaseAssumption DEF LeaseInv, LeaseTypeOK, Waiting, Taken, Refreshed, Granted, Rows, Time
<1>9. Holding'
  <2> SUFFICES ASSUME NEW g \in Holders, NEW k \in held'[g], ~Overdue(g, k)'
               PROVE  (row[k].owner = g /\ row[k].left + age[g][k] + behind[g] >= TTL)'
    BY DEF Holding
  <2>1. k \in Keys
    BY <1>3
  <2>2. CASE g = h /\ k \in Granted(h)
    <3>1. age'[h][k] = sent[h] /\ UNCHANGED <<row, behind>>
      BY <2>1, <2>2 DEF LeaseInv, LeaseTypeOK, Answer
    <3>2. sent[h] + behind[h] < TTL
      BY <2>2, <3>1, LeaseAssumption DEF Overdue, LeaseInv, LeaseTypeOK, Time
    <3> QED  BY <2>2, <3>1, <3>2, <1>8
  <2>3. CASE ~(g = h /\ k \in Granted(h))
    <3>1. k \in held[g] /\ age'[g][k] = age[g][k]
      BY <2>1, <2>3 DEF LeaseInv, LeaseTypeOK, Answer
    <3> QED  BY <3>1 DEF LeaseInv, Holding, Answer, Overdue
  <2> QED  BY <2>2, <2>3
<1>10. Taken' /\ Refreshed'
  BY DEF LeaseInv, Taken, Refreshed, LeaseTypeOK, Answer
<1> QED  BY <1>5, <1>7, <1>9, <1>10 DEF LeaseInv

LEMMA ErrorKeeps ==
  ASSUME NEW h \in Holders, LeaseInv, Error(h)
  PROVE  LeaseInv'
<1>1. LeaseTypeOK'
  BY LeaseAssumption, FreeAssumption DEF LeaseInv, LeaseTypeOK, Rows, NoRow, Time, Error
<1>2. Waiting'
  BY LeaseAssumption, FreeAssumption DEF LeaseInv, Waiting, LeaseTypeOK, Time, Error
<1>3. Holding'
  BY LeaseAssumption, FreeAssumption DEF LeaseInv, Holding, LeaseTypeOK, Waiting, Overdue, Taken, Refreshed, Rows, NoRow, Time, Error
<1>4. Taken'
  BY LeaseAssumption, FreeAssumption DEF LeaseInv, Taken, LeaseTypeOK, Waiting, Rows, NoRow, Time, Error
<1>5. Refreshed'
  BY LeaseAssumption, FreeAssumption DEF LeaseInv, Refreshed, LeaseTypeOK, Waiting, Rows, NoRow, Time, Error
<1> QED  BY <1>1, <1>2, <1>3, <1>4, <1>5 DEF LeaseInv

LEMMA DieKeeps ==
  ASSUME NEW h \in Holders, LeaseInv, Die(h)
  PROVE  LeaseInv'
<1>1. LeaseTypeOK'
  BY LeaseAssumption, FreeAssumption DEF LeaseInv, LeaseTypeOK, Rows, NoRow, Time, Die
<1>2. Waiting'
  BY LeaseAssumption, FreeAssumption DEF LeaseInv, Waiting, LeaseTypeOK, Time, Die
<1>3. Holding'
  BY LeaseAssumption, FreeAssumption DEF LeaseInv, Holding, LeaseTypeOK, Waiting, Overdue, Taken, Refreshed, Rows, NoRow, Time, Die
<1>4. Taken'
  BY LeaseAssumption, FreeAssumption DEF LeaseInv, Taken, LeaseTypeOK, Waiting, Rows, NoRow, Time, Die
<1>5. Refreshed'
  BY LeaseAssumption, FreeAssumption DEF LeaseInv, Refreshed, LeaseTypeOK, Waiting, Rows, NoRow, Time, Die
<1> QED  BY <1>1, <1>2, <1>3, <1>4, <1>5 DEF LeaseInv

LEMMA AcquireKeeps ==
  ASSUME NEW h \in Holders, LeaseInv, Acquire(h)
  PROVE  LeaseInv'
<1>1. /\ key[h] \in Keys /\ sent[h] \in Time /\ behind[h] \in Nat
      /\ op[h] \in {"acquire", "renew"} /\ res[h] = "none"
  BY DEF LeaseInv, LeaseTypeOK, Waiting, Acquire, Pending
<1>2. /\ Lifetime(h) \in Time
      /\ kind = "lock" => Lifetime(h) = TTL /\ behind[h] = 0
      /\ Lifetime(h) + sent[h] + behind[h] >= TTL
  BY <1>1, LeaseAssumption DEF Lifetime, NotLessThan0, Time, LeaseInv, Waiting
<1>3. /\ UNCHANGED <<kind, behind, op, key, held, sent, age, renews>>
      /\ \E r \in {"ok", "refused"} : res' = [res EXCEPT ![h] = r]
  BY DEF Acquire, Return
<1>4. LeaseTypeOK'
  <2>1. [owner |-> h, left |-> Lifetime(h)] \in Rows
    BY <1>2 DEF Rows
  <2>2. row' = row \/ row' = [row EXCEPT ![key[h]] = [owner |-> h, left |-> Lifetime(h)]]
    BY DEF Acquire
  <2>3. row' \in [Keys -> Rows]
    BY <2>1, <2>2 DEF LeaseInv, LeaseTypeOK
  <2>4. res' \in [Holders -> {"none", "ok", "refused"}]
    BY <1>3 DEF LeaseInv, LeaseTypeOK
  <2> QED
    BY <1>3, <2>3, <2>4 DEF LeaseInv, LeaseTypeOK
<1>5. Waiting'
  BY <1>1, <1>3 DEF LeaseInv, LeaseTypeOK, Waiting
<1>6. CASE ~Obtainable(h, key[h])
  <2>1. row' = row /\ res' = [res EXCEPT ![h] = "refused"]
    BY <1>6 DEF Acquire, Return
  <2>2. Holding' /\ Taken' /\ Refreshed'
    BY <1>1, <1>3, <2>1 DEF LeaseInv, LeaseTypeOK, Holding, Taken, Refreshed, Overdue
  <2> QED  BY <1>4, <1>5, <2>2 DEF LeaseInv
<1>7. CASE Obtainable(h, key[h])
  <2>1. /\ row' = [row EXCEPT ![key[h]] = [owner |-> h, left |-> Lifetime(h)]]
        /\ res' = [res EXCEPT ![h] = "ok"]
    BY <1>7 DEF Acquire, Return
  \* A row that somebody relies on is not obtainable for another.
  <2>2. ASSUME NEW g \in Holders, row[key[h]].owner = g, row[key[h]].left > 0
        PROVE  g = h
    BY <1>1, <1>7, <2>2, FreeAssumption DEF Obtainable, Expired, LeaseInv, LeaseTypeOK, Rows, Time
  <2>3. Holding'
    <3> SUFFICES ASSUME NEW g \in Holders, NEW k \in held[g], ~Overdue(g, k)
                 PROVE  row'[k].owner = g /\ row'[k].left + age[g][k] + behind[g] >= TTL
      BY <1>3 DEF Holding, Overdue
    <3>1. k \in Keys /\ age[g][k] \in Nat /\ behind[g] \in Nat /\ row[k].left \in Nat
      BY DEF LeaseInv, LeaseTypeOK, Rows, Time
    <3>2. row[k].owner = g /\ row[k].left + age[g][k] + behind[g] >= TTL /\ row[k].left > 0
      BY <3>1, LeaseAssumption DEF LeaseInv, Holding, Overdue
    <3>3. CASE k # key[h]
      BY <3>1, <3>2, <3>3, <2>1, <1>1 DEF LeaseInv, LeaseTypeOK
    <3>4. CASE k = key[h]
      <4>1. g = h
        BY <3>2, <3>4, <2>2
      <4>2. sent[h] <= age[h][k] /\ row'[k] = [owner |-> h, left |-> Lifetime(h)]
        <5>1. kind = "lease"
          BY <3>1, <3>2, <3>4, <1>7, FreeAssumption DEF Obtainable, Expired
        <5>2. op[h] = "renew"
          BY <1>1, <5>1, <4>1 DEF LeaseInv, Waiting
        <5> QED  BY <5>2, <3>4, <3>1, <1>1, <2>1 DEF LeaseInv, Waiting, LeaseTypeOK
      <4> QED  BY <4>1, <4>2, <1>1, <1>2, <3>1, LeaseAssumption DEF Time
    <3> QED  BY <3>3, <3>4
  <2>4. Taken'
    <3> SUFFICES ASSUME NEW g \in Holders, op[g] \in {"acquire", "renew"}, res'[g] = "ok",
                        sent[g] + behind[g] < TTL
                 PROVE  row'[key[g]].owner = g /\ row'[key[g]].left + sent[g] + behind[g] >= TTL
      BY <1>3 DEF Taken
    <3>1. CASE g = h
      BY <3>1, <2>1, <1>1, <1>2 DEF LeaseInv, LeaseTypeOK
    <3>2. CASE g # h
      <4>1. res[g] = "ok" /\ key[g] \in Keys /\ sent[g] \in Nat /\ behind[g] \in Nat
        BY <3>2, <2>1 DEF LeaseInv, LeaseTypeOK, Waiting, Time
      <4>2. row[key[g]].owner = g /\ row[key[g]].left + sent[g] + behind[g] >= TTL
        BY <4>1 DEF LeaseInv, Taken
      <4>3. row[key[g]].left > 0
        BY <4>1, <4>2, LeaseAssumption DEF LeaseInv, LeaseTypeOK, Rows, Time
      <4>4. key[g] # key[h]
        BY <3>2, <4>2, <4>3, <2>2
      <4> QED  BY <4>1, <4>2, <4>4, <2>1, <1>1 DEF LeaseInv, LeaseTypeOK
    <3> QED  BY <3>1, <3>2
  <2>5. Refreshed'
    <3> SUFFICES ASSUME NEW g \in Holders, op[g] = "refresh", res'[g] = "ok", sent[g] < TTL,
                        NEW k \in held[g]
                 PROVE  row'[k].owner = g /\ row'[k].left + sent[g] >= TTL
      BY <1>3 DEF Refreshed
    <3>1. g # h /\ res[g] = "ok" /\ k \in Keys /\ sent[g] \in Nat
      BY <1>1, <2>1 DEF LeaseInv, LeaseTypeOK, Time
    <3>2. row[k].owner = g /\ row[k].left + sent[g] >= TTL
      BY <3>1 DEF LeaseInv, Refreshed
    <3>3. k # key[h]
      BY <3>1, <3>2, <2>2, LeaseAssumption DEF LeaseInv, LeaseTypeOK, Rows, Time
    <3> QED  BY <3>1, <3>2, <3>3, <2>1, <1>1 DEF LeaseInv, LeaseTypeOK
  <2> QED  BY <1>4, <1>5, <2>3, <2>4, <2>5 DEF LeaseInv
<1> QED  BY <1>6, <1>7

LEMMA RefreshKeeps ==
  ASSUME NEW h \in Holders, LeaseInv, Refresh(h)
  PROVE  LeaseInv'
<1>1. LeaseTypeOK'
  BY LeaseAssumption, FreeAssumption DEF LeaseInv, LeaseTypeOK, Rows, NoRow, Time, Refresh, Return, Pending
<1>2. Waiting'
  BY LeaseAssumption, FreeAssumption DEF LeaseInv, Waiting, LeaseTypeOK, Time, Refresh, Return, Pending
<1>3. Holding'
  BY LeaseAssumption, FreeAssumption DEF LeaseInv, Holding, LeaseTypeOK, Waiting, Overdue, Taken, Refreshed, Rows, NoRow, Time, Refresh, Return, Pending
<1>4. Taken'
  BY LeaseAssumption, FreeAssumption DEF LeaseInv, Taken, LeaseTypeOK, Waiting, Rows, NoRow, Time, Refresh, Return, Pending
<1>5. Refreshed'
  BY LeaseAssumption, FreeAssumption DEF LeaseInv, Refreshed, LeaseTypeOK, Waiting, Rows, NoRow, Time, Refresh, Return, Pending
<1> QED  BY <1>1, <1>2, <1>3, <1>4, <1>5 DEF LeaseInv

LEMMA ReleaseKeeps ==
  ASSUME NEW h \in Holders, LeaseInv, Release(h)
  PROVE  LeaseInv'
<1>1. LeaseTypeOK'
  BY LeaseAssumption, FreeAssumption DEF LeaseInv, LeaseTypeOK, Rows, NoRow, Time, Release, Return, Pending, Deleted
<1>2. Waiting'
  BY LeaseAssumption, FreeAssumption DEF LeaseInv, Waiting, LeaseTypeOK, Time, Release, Return, Pending, Deleted
<1>3. Holding'
  BY LeaseAssumption, FreeAssumption DEF LeaseInv, Holding, LeaseTypeOK, Waiting, Overdue, Taken, Refreshed, Rows, NoRow, Time, Release, Return, Pending, Deleted
<1>4. Taken'
  BY LeaseAssumption, FreeAssumption DEF LeaseInv, Taken, LeaseTypeOK, Waiting, Rows, NoRow, Time, Release, Return, Pending, Deleted
<1>5. Refreshed'
  BY LeaseAssumption, FreeAssumption DEF LeaseInv, Refreshed, LeaseTypeOK, Waiting, Rows, NoRow, Time, Release, Return, Pending, Deleted
<1> QED  BY <1>1, <1>2, <1>3, <1>4, <1>5 DEF LeaseInv

LEMMA ReapKeeps ==
  ASSUME LeaseInv, ReapExpired
  PROVE  LeaseInv'
<1>1. LeaseTypeOK'
  BY LeaseAssumption, FreeAssumption DEF LeaseInv, LeaseTypeOK, Rows, NoRow, Time, ReapExpired, Expired, client
<1>2. Waiting'
  BY LeaseAssumption, FreeAssumption DEF LeaseInv, Waiting, LeaseTypeOK, Time, ReapExpired, Expired, client
<1>3. Holding'
  BY LeaseAssumption, FreeAssumption DEF LeaseInv, Holding, LeaseTypeOK, Waiting, Overdue, Taken, Refreshed, Rows, NoRow, Time, ReapExpired, Expired, client
<1>4. Taken'
  BY LeaseAssumption, FreeAssumption DEF LeaseInv, Taken, LeaseTypeOK, Waiting, Rows, NoRow, Time, ReapExpired, Expired, client
<1>5. Refreshed'
  BY LeaseAssumption, FreeAssumption DEF LeaseInv, Refreshed, LeaseTypeOK, Waiting, Rows, NoRow, Time, ReapExpired, Expired, client
<1> QED  BY <1>1, <1>2, <1>3, <1>4, <1>5 DEF LeaseInv

LEMMA TickKeeps ==
  ASSUME LeaseInv, Tick
  PROVE  LeaseInv'
<1>1. LeaseTypeOK'
  <2>1. \A t \in Time : Older(t) \in Time /\ NotLessThan0(t, 1) \in Time
    BY LeaseAssumption DEF Time, Older, NotLessThan0
  <2>2. row' \in [Keys -> Rows]
    BY <2>1, ZenonT(40) DEF LeaseInv, LeaseTypeOK, Rows, Tick
  <2>3. age' \in [Holders -> [Keys -> Time]]
    BY <2>1 DEF LeaseInv, LeaseTypeOK, Tick
  <2>4. sent' \in [Holders -> Time]
    BY <2>1, LeaseAssumption DEF LeaseInv, LeaseTypeOK, Tick, Time
  <2> QED  BY <2>2, <2>3, <2>4 DEF LeaseInv, LeaseTypeOK, Tick
<1>2. Waiting'
  BY LeaseAssumption, FreeAssumption DEF LeaseInv, Waiting, LeaseTypeOK, Time, Tick, Older, NotLessThan0
<1>3. Holding'
  BY LeaseAssumption, FreeAssumption DEF LeaseInv, Holding, LeaseTypeOK, Waiting, Overdue, Taken, Refreshed, Rows, NoRow, Time, Tick, Older, NotLessThan0
<1>4. Taken'
  BY LeaseAssumption, FreeAssumption DEF LeaseInv, Taken, LeaseTypeOK, Waiting, Rows, NoRow, Time, Tick, Older, NotLessThan0
<1>5. Refreshed'
  BY LeaseAssumption, FreeAssumption DEF LeaseInv, Refreshed, LeaseTypeOK, Waiting, Rows, NoRow, Time, Tick, Older, NotLessThan0
<1> QED  BY <1>1, <1>2, <1>3, <1>4, <1>5 DEF LeaseInv

(* The invariant is inductive.                                                *)
LEMMA LeaseInit == Init => LeaseInv
<1> SUFFICES ASSUME Init PROVE LeaseInv
  OBVIOUS
<1>1. LeaseTypeOK
  <2>1. behind \in [Holders -> Nat] /\ (kind = "lock" => \A h \in Holders : behind[h] = 0)
    BY LeaseAssumption DEF Init
  <2> QED  BY <2>1, LeaseAssumption DEF Init, LeaseTypeOK, Rows, NoRow, Time
<1>2. Waiting
  BY LeaseAssumption DEF Init, Waiting
<1>3. Holding /\ Taken /\ Refreshed
  BY DEF Init, Holding, Taken, Refreshed
<1> QED  BY <1>1, <1>2, <1>3 DEF LeaseInv

LEMMA LeaseNext == LeaseInv /\ [Next]_vars => LeaseInv'
<1> SUFFICES ASSUME LeaseInv, [Next]_vars PROVE LeaseInv'
  OBVIOUS
<1>1. CASE UNCHANGED vars
  BY <1>1 DEF vars, client, LeaseInv, LeaseTypeOK, Waiting, Holding, Taken, Refreshed, Overdue
<1>2. ASSUME NEW h \in Holders, Client(h) PROVE LeaseInv'
  BY <1>2, SendAcquireKeeps, SendExtendKeeps, SendReleaseKeeps, AnswerKeeps, ErrorKeeps,
     DieKeeps DEF Client
<1>3. ASSUME NEW h \in Holders, Statement(h) PROVE LeaseInv'
  BY <1>3, AcquireKeeps, RefreshKeeps, ReleaseKeeps DEF Statement
<1> QED  BY <1>1, <1>2, <1>3, ReapKeeps, TickKeeps DEF Next

LEMMA LeaseInvariant == Spec => []LeaseInv
<1> QED  BY LeaseInit, LeaseNext, PTL DEF Spec

(* Types of the rows and of what every holder knows, for all constants.       *)
THEOREM LeaseTypes == Spec => []LeaseTypeOK
<1>1. LeaseInv => LeaseTypeOK
  BY DEF LeaseInv
<1> QED  BY <1>1, LeaseInvariant, PTL

(* Keyed locks and session leases exclude each other, for any number of       *)
(* holders and keys, any TTL and any skew, until a holder has gone on past    *)
(* its TTL: Acquire, Refresh and the renewer of the code.                     *)
THEOREM LeaseExclusion == Spec => []LeaseExcludes
<1>1. LeaseInv => LeaseExcludes
  BY DEF LeaseInv, Holding, LeaseExcludes, LeaseTypeOK
<1> QED  BY <1>1, LeaseInvariant, PTL

(* A late Release, Refresh or renewal never touches a live row of another     *)
(* holder, and nothing but the passing of time and its owner's statements     *)
(* changes one.                                                               *)
THEOREM LateHolders == Spec => LateStepsHarmless
<1>1. LeaseInv /\ [Next]_vars =>
        [\A k \in Keys :
           row[k].owner # Free /\ ~Expired(k) /\ row'[k] # row[k]
             => \/ Statement(row[k].owner)
                \/ row'[k].owner = row[k].owner /\ row'[k].left < row[k].left]_vars
  <2> SUFFICES ASSUME LeaseInv, Next, NEW k \in Keys,
                      row[k].owner # Free, ~Expired(k), row'[k] # row[k]
               PROVE  \/ Statement(row[k].owner)
                      \/ row'[k].owner = row[k].owner /\ row'[k].left < row[k].left
    OBVIOUS
  <2>1. row \in [Keys -> Rows] /\ row[k].left \in Nat
    BY DEF LeaseInv, LeaseTypeOK, Rows, Time
  <2>2. ASSUME NEW h \in Holders, Client(h) PROVE FALSE
    BY <2>2 DEF Client, SendAcquire, SendExtend, SendRelease, Answer, Error, Die
  <2>3. ASSUME NEW h \in Holders, Statement(h) PROVE row[k].owner = h
    <3>1. CASE Acquire(h)
      <4>1. key[h] \in Keys
        BY <3>1 DEF Acquire, Pending, LeaseInv, Waiting
      <4> QED  BY <2>1, <3>1, <4>1 DEF Acquire, Obtainable, Expired
    <3>2. CASE Refresh(h)
      BY <2>1, <3>2 DEF Refresh
    <3>3. CASE Release(h)
      BY <2>1, <3>3 DEF Release, Deleted
    <3> QED  BY <2>3, <3>1, <3>2, <3>3 DEF Statement
  <2>4. CASE ReapExpired
    BY <2>1, <2>4 DEF ReapExpired, Expired
  <2>5. CASE Tick
    BY <2>1, <2>5 DEF Tick, NotLessThan0, Expired, Rows
  <2> QED  BY <2>2, <2>3, <2>4, <2>5 DEF Next
<1> QED  BY <1>1, LeaseInvariant, PTL DEF Spec, LateStepsHarmless
=============================================================================

------------------------------- MODULE PgLeases -------------------------------
(* Locks kept as rows with an expiry in PostgreSQL: the keyed lock            *)
(* (cache/pgsql_keyed_lock.go) and the lease of a FIX session                 *)
(* (common/fix_session_lease.go).  Every operation is one statement, which    *)
(* executes some time after it was sent and whose answer may never come; time *)
(* passes in between.  Nothing tells a holder that its row has expired.       *)
EXTENDS Naturals

CONSTANTS
  Kinds,    \* which of the two: a subset of {"lock", "lease"}
  Holders,  \* holder ids of keyed locks; owner ids, one per process, of leases
  Keys,     \* lock keys; session ids
  TTL,      \* time to live, in ticks
  Skew      \* by how much the clock of a lease's client may be behind

ASSUME LeaseAssumption ==
  /\ Kinds \subseteq {"lock", "lease"}
  /\ TTL \in Nat \ {0} /\ Skew \in Nat

Free == "free"
NoKey == "nokey"
ASSUME FreeAssumption == Free \notin Holders /\ NoKey \notin Keys

Time == 0..TTL
Rows == [owner: Holders \cup {Free}, left: Time]
NoRow == [owner |-> Free, left |-> 0]

VARIABLES
  kind,    \* which facility this behaviour is of
  row,     \* per key: who owns the row, and the time until expires_at
  behind,  \* per holder: its clock is so far behind the database's
  op,      \* per holder: the statement it waits for, or "idle" or "dead"
  key,     \* per holder: the key of that statement
  res,     \* per holder: what the statement returned, if it has executed
  held,    \* per holder: the keys it works under
  sent,    \* per holder: time since the statement was sent
  age,     \* per holder and key: time since the statement was sent that last
           \* took or extended the lock, as far as the holder knows
  renews   \* per holder: the renewer of the lease runs

client == <<op, key, res, held, sent, age, renews>>
vars == <<kind, row, behind, client>>

Init ==
  /\ kind \in Kinds
  /\ row = [k \in Keys |-> NoRow]
  /\ behind \in [Holders -> IF kind = "lease" THEN {0, Skew} ELSE {0}]
  /\ op = [h \in Holders |-> "idle"] /\ key = [h \in Holders |-> NoKey]
  /\ res = [h \in Holders |-> "none"] /\ held = [h \in Holders |-> {}]
  /\ sent = [h \in Holders |-> 0] /\ age = [h \in Holders |-> [k \in Keys |-> 0]]
  /\ renews = [h \in Holders |-> FALSE]

-----------------------------------------------------------------------------
(* The holders                                                              *)

Send(h, o, k) ==
  /\ op[h] = "idle"
  /\ op' = [op EXCEPT ![h] = o] /\ key' = [key EXCEPT ![h] = k]
  /\ res' = [res EXCEPT ![h] = "none"] /\ sent' = [sent EXCEPT ![h] = 0]

\* A lock the holder does not have yet; a process acquires its lease once.
SendAcquire(h, k) ==
  /\ Send(h, "acquire", k)
  /\ k \notin held[h] /\ (kind = "lease" => held[h] = {})
  /\ UNCHANGED <<kind, row, behind, held, age, renews>>

\* Refresh, for every lock of the holder; the renewer, every third of the TTL.
SendExtend(h) ==
  /\ \/ kind = "lock" /\ held[h] # {} /\ Send(h, "refresh", NoKey)
     \/ kind = "lease" /\ renews[h] /\ \E k \in held[h] : Send(h, "renew", k)
  /\ UNCHANGED <<kind, row, behind, held, age, renews>>

\* The work is over, or was given up; the renewer has been stopped.
SendRelease(h) ==
  /\ Send(h, "release", NoKey)
  /\ held' = [held EXCEPT ![h] = {}] /\ renews' = [renews EXCEPT ![h] = FALSE]
  /\ UNCHANGED <<kind, row, behind, age>>

\* The keys an answer grants: the one acquired, or those extended.
Granted(h) ==
  IF res[h] # "ok" THEN {}
  ELSE IF op[h] = "acquire" THEN {key[h]}
  ELSE IF op[h] \in {"refresh", "renew"} THEN held[h] ELSE {}

\* The answer.  A refusal of an Acquire fails the step of the saga, or the
\* start of the process; a refused renewal ends the renewer, not the work.
Answer(h) ==
  /\ res[h] # "none"
  /\ held' = [held EXCEPT ![h] = @ \cup Granted(h)]
  /\ age' = [age EXCEPT ![h] = [k \in Keys |-> IF k \in Granted(h) THEN sent[h] ELSE @[k]]]
  /\ renews' = [renews EXCEPT ![h] =
       CASE op[h] = "acquire" -> res[h] = "ok" /\ kind = "lease"
         [] op[h] = "renew" -> res[h] = "ok"
         [] OTHER -> @]
  /\ op' = [op EXCEPT ![h] = "idle"] /\ res' = [res EXCEPT ![h] = "none"]
  /\ key' = [key EXCEPT ![h] = NoKey] /\ sent' = [sent EXCEPT ![h] = 0]
  /\ UNCHANGED <<kind, row, behind>>

\* An error instead of an answer, whether the statement has executed or not: an
\* Acquire did not succeed, a renewer ends.
Error(h) ==
  /\ op[h] \notin {"idle", "dead"}
  /\ op' = [op EXCEPT ![h] = "idle"] /\ res' = [res EXCEPT ![h] = "none"]
  /\ key' = [key EXCEPT ![h] = NoKey] /\ sent' = [sent EXCEPT ![h] = 0]
  /\ renews' = [renews EXCEPT ![h] = @ /\ op[h] # "renew"]
  /\ UNCHANGED <<kind, row, behind, held, age>>

\* The process dies.  The saga of a keyed lock goes on elsewhere under the same
\* holder id; an owner id of a lease is drawn for each process.
Die(h) ==
  /\ op[h] # "dead"
  /\ op' = [op EXCEPT ![h] = IF kind = "lease" THEN "dead" ELSE "idle"]
  /\ res' = [res EXCEPT ![h] = "none"] /\ key' = [key EXCEPT ![h] = NoKey]
  /\ held' = [held EXCEPT ![h] = {}] /\ sent' = [sent EXCEPT ![h] = 0]
  /\ renews' = [renews EXCEPT ![h] = FALSE]
  /\ UNCHANGED <<kind, row, behind, age>>

-----------------------------------------------------------------------------
(* The statements                                                           *)

Expired(k) == row[k].left = 0
Pending(h, o) == op[h] = o /\ res[h] = "none"
Return(h, r) ==
  /\ res' = [res EXCEPT ![h] = r]
  /\ UNCHANGED <<kind, behind, op, key, held, sent, age, renews>>
NotLessThan0(n, m) == IF n > m THEN n - m ELSE 0

\* INSERT ... ON CONFLICT DO UPDATE WHERE: the row is not there, has expired,
\* or (leases only) is the caller's own.
Obtainable(h, k) == row[k].owner = Free \/ Expired(k) \/ (kind = "lease" /\ row[k].owner = h)

\* Mutant: the fraction of the TTL below a second is cut off.
LifetimeCut(h) == NotLessThan0(TTL, sent[h] + behind[h] + 1)

\* expires_at is NOW() + ttl of the statement for a keyed lock, but of the
\* client, when it sent the statement, for a lease.
Lifetime(h) == IF kind = "lock" THEN TTL ELSE NotLessThan0(TTL, sent[h] + behind[h])

Acquire(h) ==
  /\ Pending(h, "acquire") \/ Pending(h, "renew")
  /\ IF Obtainable(h, key[h])
     THEN /\ row' = [row EXCEPT ![key[h]] = [owner |-> h, left |-> Lifetime(h)]]
          /\ Return(h, "ok")
     ELSE UNCHANGED row /\ Return(h, "refused")

\* Every row of the holder, expired or not; the number of rows is the answer.
Refresh(h) ==
  /\ Pending(h, "refresh")
  /\ row' = [k \in Keys |-> IF row[k].owner = h THEN [owner |-> h, left |-> TTL] ELSE row[k]]
  /\ Return(h, IF \A k \in held[h] : row[k].owner = h THEN "ok" ELSE "refused")

\* Mutant: DELETE by key, of whatever locks the holder has worked under.
DeletedAll(h) == {k \in Keys : age[h][k] > 0}

\* DELETE WHERE holder_id (and session_id).
Deleted(h) == {k \in Keys : row[k].owner = h}

Release(h) ==
  /\ Pending(h, "release")
  /\ row' = [k \in Keys |-> IF k \in Deleted(h) THEN NoRow ELSE row[k]]
  /\ Return(h, "ok")

\* The optional reaper of keyed locks.
ReapExpired ==
  /\ kind = "lock"
  /\ \E k \in Keys : Expired(k) /\ row[k].owner # Free
  /\ row' = [k \in Keys |-> IF Expired(k) THEN NoRow ELSE row[k]]
  /\ UNCHANGED <<kind, behind, client>>

Older(t) == IF t < TTL THEN t + 1 ELSE t

Tick ==
  /\ row' = [k \in Keys |-> [row[k] EXCEPT !.left = NotLessThan0(@, 1)]]
  /\ sent' = [h \in Holders |-> IF op[h] \in {"idle", "dead"} THEN 0 ELSE Older(sent[h])]
  /\ age' = [h \in Holders |-> [k \in Keys |-> IF k \in held[h] THEN Older(age[h][k]) ELSE age[h][k]]]
  /\ UNCHANGED <<kind, behind, op, key, res, held, renews>>

-----------------------------------------------------------------------------
Client(h) ==
  \/ \E k \in Keys : SendAcquire(h, k)
  \/ SendExtend(h) \/ SendRelease(h) \/ Answer(h) \/ Error(h) \/ Die(h)

Statement(h) == Acquire(h) \/ Refresh(h) \/ Release(h)

Next == (\E h \in Holders : Client(h) \/ Statement(h)) \/ ReapExpired \/ Tick

Spec == Init /\ [][Next]_vars

-----------------------------------------------------------------------------
LeaseTypeOK ==
  /\ kind \in Kinds /\ row \in [Keys -> Rows] /\ behind \in [Holders -> Nat]
  /\ op \in [Holders -> {"idle", "dead", "acquire", "refresh", "renew", "release"}]
  /\ key \in [Holders -> Keys \cup {NoKey}]
  /\ res \in [Holders -> {"none", "ok", "refused"}]
  /\ held \in [Holders -> SUBSET Keys] /\ sent \in [Holders -> Time]
  /\ age \in [Holders -> [Keys -> Time]] /\ renews \in [Holders -> BOOLEAN]

\* The holder has gone on for longer than its lock lives, counted from when it
\* sent the statement, less what its clock is behind.
Overdue(h, k) == age[h][k] + behind[h] >= TTL

(* Two holders work under the same key only after one of them went on past    *)
(* its TTL: not because of statements that were delayed or whose answers were *)
(* lost, a death, a refresh of a row that had expired, a clock that is behind *)
(* by less than the TTL, nor because a renewal failed and the work went on.   *)
LeaseExcludes ==
  \A g, h \in Holders : g # h =>
    \A k \in held[g] \cap held[h] : Overdue(g, k) \/ Overdue(h, k)

(* A holder that comes too late does no harm: whatever a step does to a live   *)
(* row, except that time passes, is done by a statement of the row's owner;    *)
(* in particular a late Release, Refresh or renewal leaves the row of the      *)
(* thief alone.                                                                *)
LateStepsHarmless ==
  [][\A k \in Keys :
       row[k].owner # Free /\ ~Expired(k) /\ row'[k] # row[k]
         => \/ Statement(row[k].owner)
            \/ row'[k].owner = row[k].owner /\ row'[k].left < row[k].left]_vars
=============================================================================

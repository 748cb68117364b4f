----------------------------- MODULE RedisLocks -----------------------------
(* The distributed locks of pkg/cache/redis_impl.go: Mutex, MultiMutex,    *)
(* AcquireMultiLock and ReleaseMultiLock over SETNX with a TTL and DEL.    *)
(*                                                                         *)
(* A lock is a Redis key whose value is the constant "locked": nothing in  *)
(* Redis says who holds it.  Time is discrete and kept as the time left to *)
(* each key and the time each client has waited and worked; a Mutex is a   *)
(* MultiMutex of one key.                                                  *)
EXTENDS Integers

CONSTANTS
  Clients,    \* goroutines of all processes that use the locks
  NKeys,      \* number of keys; their order is the order of the names
  TTL,        \* ttlSec
  Timeout,    \* timeoutSec: 0 fails at once, otherwise wait that long
  Work,       \* bound: time from the last lock, or from giving up, to the last DEL
  MaxFaults,  \* bound: failed Redis calls and crashed clients
  NoOne       \* no client

Keys == 1..NKeys

ASSUME KeysAssumption == NKeys \in Nat
ASSUME TimesAssumption == TTL \in Nat \ {0} /\ Timeout \in Nat /\ Work \in Nat
ASSUME FaultsAssumption == MaxFaults \in Nat
ASSUME NoOneAssumption == NoOne \notin Clients

Pcs == {"idle", "acquiring", "holding", "releasing"}

VARIABLES
  ttl,     \* per key: time left, 0 when the key does not exist
  owner,   \* ghost, per key: the client whose SETNX made it and was answered
  pc,      \* per client: what it is doing
  want,    \* per client: the keys of its call, sorted and without duplicates
  got,     \* per client: acquiredLocks
  waited,  \* per client: time since startTs, while acquiring
  worked,  \* per client: time since then
  faults   \* faults so far

redis == <<ttl, owner>>
vars == <<ttl, owner, pc, want, got, waited, worked, faults>>

Init ==
  /\ ttl = [k \in Keys |-> 0]
  /\ owner = [k \in Keys |-> NoOne]
  /\ pc = [c \in Clients |-> "idle"]
  /\ want = [c \in Clients |-> {}]
  /\ got = [c \in Clients |-> {}]
  /\ waited = [c \in Clients |-> 0]
  /\ worked = [c \in Clients |-> 0]
  /\ faults = 0

Fault == faults < MaxFaults /\ faults' = faults + 1

\* Mutex, MultiMutex or AcquireMultiLock is called.
Call(c, K) ==
  /\ pc[c] = "idle"
  /\ pc' = [pc EXCEPT ![c] = "acquiring"]
  /\ want' = [want EXCEPT ![c] = K]
  /\ waited' = [waited EXCEPT ![c] = 0]
  /\ worked' = [worked EXCEPT ![c] = 0]
  /\ UNCHANGED <<redis, got, faults>>

\* Mutant: the keys are taken in the order they are given.
NextKeyUnsorted(c) ==
  CHOOSE k \in want[c] \ got[c] : \A j \in want[c] \ got[c] :
     IF waited[c] = 0 THEN k <= j ELSE k >= j

\* The keys are taken in sorted order.
NextKey(c) == CHOOSE k \in want[c] \ got[c] : \A j \in want[c] \ got[c] : k <= j

\* Mutant: SET instead of SETNX.
lockMutexAlways(c, k) ==
  /\ ttl' = [ttl EXCEPT ![k] = TTL]
  /\ owner' = [owner EXCEPT ![k] = c]

lockMutex(c, k) ==
  /\ ttl[k] = 0
  /\ ttl' = [ttl EXCEPT ![k] = TTL]
  /\ owner' = [owner EXCEPT ![k] = c]

\* Mutant: the first of the keys is enough.
LockFirst(c) ==
  /\ pc[c] = "acquiring"
  /\ lockMutex(c, NextKey(c))
  /\ got' = [got EXCEPT ![c] = @ \cup {NextKey(c)}]
  /\ pc' = [pc EXCEPT ![c] = "holding"]
  /\ UNCHANGED <<want, waited, worked, faults>>

Lock(c) ==
  /\ pc[c] = "acquiring"
  /\ lockMutex(c, NextKey(c))
  /\ got' = [got EXCEPT ![c] = @ \cup {NextKey(c)}]
  /\ pc' = [pc EXCEPT ![c] = IF got'[c] = want[c] THEN "holding" ELSE @]
  /\ UNCHANGED <<want, waited, worked, faults>>

\* With timeout 0, or once the timeout has passed, the call fails and the
\* keys taken so far are deleted again.
TimedOut(c) == waited[c] >= Timeout

\* Mutant: the keys this client was refused are deleted too.
GiveUpAll(c) ==
  /\ pc' = [pc EXCEPT ![c] = "releasing"]
  /\ got' = [got EXCEPT ![c] = want[c]]

GiveUp(c) ==
  /\ pc' = [pc EXCEPT ![c] = IF got[c] = {} THEN "idle" ELSE "releasing"]
  /\ UNCHANGED got

LockRefused(c) ==
  /\ pc[c] = "acquiring" /\ ttl[NextKey(c)] > 0 /\ TimedOut(c)
  /\ GiveUp(c)
  /\ UNCHANGED <<redis, want, waited, worked, faults>>

\* SETNX fails, before or after it reached Redis: the client does not count
\* the key as taken, and tries again unless it has waited long enough.
LockFails(c) ==
  /\ pc[c] = "acquiring"
  /\ Fault
  /\ \/ UNCHANGED redis
     \/ /\ ttl[NextKey(c)] = 0
        /\ ttl' = [ttl EXCEPT ![NextKey(c)] = TTL]
        /\ UNCHANGED owner
  /\ IF TimedOut(c) THEN GiveUp(c) ELSE UNCHANGED <<pc, got>>
  /\ UNCHANGED <<want, waited, worked>>

\* The callback returns, or the caller calls ReleaseMultiLock.
Return(c) ==
  /\ pc[c] = "holding"
  /\ pc' = [pc EXCEPT ![c] = "releasing"]
  /\ UNCHANGED <<redis, want, got, waited, worked, faults>>

\* DEL, whoever the key belongs to by now.
unlockMutex(k) == ttl' = [ttl EXCEPT ![k] = 0] /\ owner' = [owner EXCEPT ![k] = NoOne]

Drop(c, k) ==
  /\ got' = [got EXCEPT ![c] = @ \ {k}]
  /\ pc' = [pc EXCEPT ![c] = IF got'[c] = {} THEN "idle" ELSE @]

\* MultiMutex deletes in reverse order, ReleaseMultiLock in the order of its
\* argument: any order.
Unlock(c, k) ==
  /\ pc[c] = "releasing" /\ k \in got[c]
  /\ unlockMutex(k)
  /\ Drop(c, k)
  /\ UNCHANGED <<want, waited, worked, faults>>

\* A failed DEL is logged and the next key follows.
UnlockFails(c, k) ==
  /\ pc[c] = "releasing" /\ k \in got[c]
  /\ Fault
  /\ Drop(c, k)
  /\ UNCHANGED <<redis, want, waited, worked>>

\* The process of the client dies.
Dies(c) ==
  /\ pc[c] # "idle"
  /\ Fault
  /\ pc' = [pc EXCEPT ![c] = "idle"]
  /\ got' = [got EXCEPT ![c] = {}]
  /\ UNCHANGED <<redis, want, waited, worked>>

\* Mutant: keys are set without a TTL.
TickNoExpiry ==
  /\ waited' = [c \in Clients |-> IF pc[c] = "acquiring" /\ waited[c] < Timeout
                                  THEN waited[c] + 1 ELSE waited[c]]
  /\ UNCHANGED <<redis, pc, want, got, worked, faults>>

\* Time passes; keys expire.  A client that waits polls its next key many
\* times per unit of time, one that has locks returns them within Work.
Tick ==
  /\ \A c \in Clients :
       /\ pc[c] = "acquiring" => waited[c] < Timeout /\ ttl[NextKey(c)] > 0
       /\ pc[c] \in {"holding", "releasing"} => worked[c] < Work
  /\ ttl' = [k \in Keys |-> IF ttl[k] > 0 THEN ttl[k] - 1 ELSE 0]
  /\ owner' = [k \in Keys |-> IF ttl[k] > 1 THEN owner[k] ELSE NoOne]
  /\ waited' = [c \in Clients |-> IF pc[c] = "acquiring" THEN waited[c] + 1 ELSE waited[c]]
  /\ worked' = [c \in Clients |-> IF pc[c] \in {"holding", "releasing"}
                                  THEN worked[c] + 1 ELSE worked[c]]
  /\ UNCHANGED <<pc, want, got, faults>>

ClientStep(c) ==
  \/ \E K \in (SUBSET Keys) \ {{}} : Call(c, K)
  \/ Lock(c) \/ LockRefused(c) \/ LockFails(c)
  \/ Return(c) \/ Dies(c)
  \/ \E k \in Keys : Unlock(c, k) \/ UnlockFails(c, k)

Next == Tick \/ \E c \in Clients : ClientStep(c)

Spec == Init /\ [][Next]_vars

\* Time passes, and a client that waits or has locks keeps going.
Fairness ==
  /\ SF_vars(Tick)
  /\ \A c \in Clients : WF_vars(Lock(c) \/ LockRefused(c) \/ Return(c) \/ \E k \in Keys : Unlock(c, k))

FairSpec == Spec /\ Fairness

-----------------------------------------------------------------------------

\* Type of every variable.
LockTypeOK ==
  /\ ttl \in [Keys -> 0..TTL]
  /\ owner \in [Keys -> Clients \cup {NoOne}]
  /\ pc \in [Clients -> Pcs]
  /\ want \in [Clients -> SUBSET Keys]
  /\ got \in [Clients -> SUBSET Keys]
  /\ waited \in [Clients -> 0..Timeout]
  /\ worked \in [Clients -> 0..Work]
  /\ faults \in 0..MaxFaults

\* No two callbacks that share a key run at the same time.
MutualExclusion ==
  \A c, d \in Clients :
    c # d /\ pc[c] = "holding" /\ pc[d] = "holding" => want[c] \cap want[d] = {}

\* redis_impl.go, MultiMutex: "All locks must be acquired before the callback
\* is executed" - and while it runs they are still there and still its own.
HoldsAll ==
  \A c \in Clients : pc[c] = "holding" => \A k \in want[c] : ttl[k] > 0 /\ owner[k] = c

\* A client deletes no lock but its own: a lock disappears by expiry or
\* because its owner is done with it.
DeletesOnlyItsOwn ==
  [][\A k \in Keys : owner[k] \in Clients /\ owner'[k] # owner[k] =>
        ttl[k] = 1 \/ pc[owner[k]] = "releasing"]_vars

\* Sorted acquisition: no two clients wait for a key the other one has.
NoCircularWait ==
  \A c, d \in Clients : pc[c] = "acquiring" /\ pc[d] = "acquiring" =>
     ~(NextKey(c) \in got[d] /\ NextKey(d) \in got[c])

\* The TTL is a safety net: no key stays taken for ever, whoever died or
\* failed to delete it.
LockFreed == \A k \in Keys : ttl[k] > 0 ~> ttl[k] = 0

=============================================================================

-------------------------- MODULE RedisLockProofs --------------------------
(* Mutual exclusion of the Redis locks, for every number of clients, keys  *)
(* and faults, provided a call and the work under its locks together are   *)
(* shorter than the TTL; and the order of the waits, without that bound.   *)
EXTENDS RedisLocks, WellFoundedInduction, TLAPS

\* The TTL outlasts the wait for the locks and the work under them.  For the
\* saga mutex: timeout 0, context of 50s, TTL of 60s.
ShortWork == Timeout + Work < TTL

\* What every client knows about its locks.
ClientInv ==
  \A c \in Clients :
    /\ got[c] \subseteq want[c]
    /\ pc[c] = "idle" => got[c] = {}
    /\ pc[c] = "acquiring" => worked[c] = 0 /\ got[c] # want[c]
    /\ pc[c] = "holding" => got[c] = want[c]

\* A lock a client took is still its own, and has used up no more of its TTL
\* than the client has waited and worked.
OwnerInv ==
  /\ \A c \in Clients : \A k \in got[c] :
       owner[k] = c /\ ttl[k] + waited[c] + worked[c] >= TTL
  /\ \A k \in Keys : owner[k] # NoOne => ttl[k] > 0

\* The inductive invariant.
LockInv == LockTypeOK /\ ClientInv /\ OwnerInv

\* Sorted order: a client that still needs a key has a next one, the smallest.
LEMMA NextKeyExists ==
  ASSUME NEW c \in Clients, got[c] # want[c], got[c] \subseteq want[c], want[c] \subseteq Keys
  PROVE  /\ NextKey(c) \in want[c] /\ NextKey(c) \notin got[c] /\ NextKey(c) \in Keys
         /\ \A j \in want[c] \ got[c] : NextKey(c) <= j
  <1> DEFINE S == want[c] \ got[c]
             R == OpToRel(<, Nat)
  <1>1. S # {} /\ S \subseteq Nat
    BY KeysAssumption DEF Keys
  <1>2. \A i, j \in Nat : i < j => <<i, j>> \in R
    BY DEF OpToRel
  <1>3. IsWellFoundedOn(R, Nat)
    BY NatLessThanWellFounded
  <1> HIDE DEF R
  <1>4. \E k \in S : \A j \in S : <<j, k>> \notin R
    BY <1>1, <1>3, WFMin
  <1>5. PICK k \in S : \A j \in S : <<j, k>> \notin R
    BY <1>4
  <1>6. ASSUME NEW j \in S PROVE k <= j
    <2>1. j \in Nat /\ k \in Nat
      BY <1>1
    <2>2. ~(j < k)
      BY <1>2, <1>5, <2>1
    <2> QED
      BY <2>1, <2>2
  <1> QED
    BY <1>6 DEF NextKey

\* Initially nobody holds anything.
LEMMA LockInvInit == Init => LockInv
  BY TimesAssumption, FaultsAssumption
  DEF Init, LockInv, LockTypeOK, ClientInv, OwnerInv, Pcs

\* Every step preserves the invariant when the work is short.
LEMMA LockInvNext ==
  ASSUME LockInv, ShortWork, [Next]_vars
  PROVE  LockInv'
  <1> USE TimesAssumption, FaultsAssumption, NoOneAssumption DEF ShortWork, redis
  <1>0. LockTypeOK /\ ClientInv /\ OwnerInv
    BY DEF LockInv
  <1>1. CASE UNCHANGED vars
    BY <1>0, <1>1 DEF vars, LockInv, LockTypeOK, ClientInv, OwnerInv
  <1>2. CASE Tick
    <2>1. \A c \in Clients : \A k \in got[c] : k \in Keys /\ ttl[k] \in 0..TTL
      BY <1>0 DEF LockTypeOK
    <2>2. LockTypeOK'
      BY <1>0, <1>2 DEF Tick, LockTypeOK
    <2>3. ClientInv'
      BY <1>0, <1>2 DEF Tick, LockTypeOK, ClientInv
    <2>4. ASSUME NEW c \in Clients, NEW k \in got[c]
          PROVE  owner'[k] = c /\ ttl'[k] + waited'[c] + worked'[c] >= TTL
      <3>1. k \in Keys /\ ttl[k] \in 0..TTL /\ waited[c] \in 0..Timeout /\ worked[c] \in 0..Work
        BY <1>0, <2>4 DEF LockTypeOK
      <3>2. owner[k] = c /\ ttl[k] + waited[c] + worked[c] >= TTL /\ pc[c] # "idle"
        BY <1>0, <2>4 DEF OwnerInv, ClientInv
      <3>3. waited'[c] + worked'[c] = waited[c] + worked[c] + 1
        BY <1>0, <1>2, <3>1, <3>2 DEF Tick, LockTypeOK, Pcs
      <3>4. waited'[c] \in 0..Timeout /\ worked'[c] \in 0..Work
        BY <2>2 DEF LockTypeOK
      <3>5. ttl[k] > 1
        BY <3>1, <3>2, <3>3, <3>4
      <3>6. ttl'[k] = ttl[k] - 1 /\ owner'[k] = owner[k]
        BY <1>2, <3>1, <3>5 DEF Tick
      <3> QED
        BY <3>1, <3>2, <3>3, <3>6, <2>2 DEF LockTypeOK
    <2>5. \A k \in Keys : owner'[k] # NoOne => ttl'[k] > 0
      BY <1>0, <1>2 DEF Tick, LockTypeOK
    <2>6. got' = got
      BY <1>2 DEF Tick
    <2> QED
      BY <2>2, <2>3, <2>4, <2>5, <2>6 DEF LockInv, OwnerInv
  <1>3. ASSUME NEW c \in Clients, ClientStep(c) PROVE LockInv'
    <2>1. ASSUME NEW K \in (SUBSET Keys) \ {{}}, Call(c, K) PROVE LockInv'
      <3>1. got[c] = {} /\ K # {} /\ K \subseteq Keys
        BY <1>0, <2>1 DEF Call, ClientInv
      <3>2. LockTypeOK' /\ ClientInv'
        BY <1>0, <2>1, <3>1 DEF Call, LockTypeOK, ClientInv, Pcs
      <3>3. OwnerInv'
        BY <1>0, <2>1, <3>1 DEF Call, LockTypeOK, OwnerInv
      <3> QED
        BY <3>2, <3>3 DEF LockInv
    <2>2. pc[c] = "acquiring" =>
            NextKey(c) \in want[c] /\ NextKey(c) \notin got[c] /\ NextKey(c) \in Keys
      BY <1>0, NextKeyExists DEF LockTypeOK, ClientInv
    <2>3. CASE Lock(c)
      <3> DEFINE k == NextKey(c)
      <3>1. /\ k \in want[c] /\ k \notin got[c] /\ k \in Keys /\ ttl[k] = 0 /\ pc[c] = "acquiring"
            /\ ttl' = [ttl EXCEPT ![k] = TTL]
            /\ owner' = [owner EXCEPT ![k] = c]
            /\ got' = [got EXCEPT ![c] = got[c] \cup {k}]
            /\ pc' = [pc EXCEPT ![c] = IF got'[c] = want[c] THEN "holding" ELSE @]
            /\ UNCHANGED <<want, waited, worked, faults>>
        BY <2>2, <2>3 DEF Lock, lockMutex
      <3> HIDE DEF k
      <3>2. LockTypeOK' /\ ClientInv'
        BY <1>0, <3>1 DEF LockTypeOK, ClientInv, Pcs
      <3>3. \A d \in Clients : k \notin got[d]
        BY <1>0, <3>1 DEF LockTypeOK, OwnerInv
      <3>4. OwnerInv'
        BY <1>0, <3>1, <3>3 DEF LockTypeOK, OwnerInv
      <3> QED
        BY <3>2, <3>4 DEF LockInv
    <2>4. CASE LockRefused(c)
      BY <1>0, <2>4 DEF LockRefused, GiveUp, LockInv, LockTypeOK, ClientInv, OwnerInv, Pcs
    <2>5. CASE LockFails(c)
      <3> DEFINE k == NextKey(c)
      <3>1. /\ k \in Keys
            /\ \/ UNCHANGED redis
               \/ ttl[k] = 0 /\ ttl' = [ttl EXCEPT ![k] = TTL] /\ UNCHANGED owner
            /\ faults' \in 0..MaxFaults
            /\ \/ pc' = pc
               \/ pc' = [pc EXCEPT ![c] = IF got[c] = {} THEN "idle" ELSE "releasing"]
            /\ UNCHANGED <<want, got, waited, worked>>
        BY <1>0, <2>2, <2>5 DEF LockFails, Fault, GiveUp, LockTypeOK
      <3> HIDE DEF k
      <3>2. LockTypeOK' /\ ClientInv'
        BY <1>0, <3>1 DEF LockTypeOK, ClientInv, Pcs
      <3>3. OwnerInv'
        BY <1>0, <3>1 DEF LockTypeOK, OwnerInv
      <3> QED
        BY <3>2, <3>3 DEF LockInv
    <2>6. CASE Return(c)
      BY <1>0, <2>6 DEF Return, LockInv, LockTypeOK, ClientInv, OwnerInv, Pcs
    <2>7. CASE Dies(c)
      BY <1>0, <2>7 DEF Dies, Fault, LockInv, LockTypeOK, ClientInv, OwnerInv, Pcs
    <2>8. ASSUME NEW k \in Keys, Unlock(c, k) \/ UnlockFails(c, k) PROVE LockInv'
      <3>1. /\ pc[c] = "releasing" /\ k \in got[c]
            /\ got' = [got EXCEPT ![c] = got[c] \ {k}]
            /\ pc' = [pc EXCEPT ![c] = IF got'[c] = {} THEN "idle" ELSE @]
            /\ faults' \in 0..MaxFaults
            /\ UNCHANGED <<want, waited, worked>>
            /\ \/ UNCHANGED redis
               \/ ttl' = [ttl EXCEPT ![k] = 0] /\ owner' = [owner EXCEPT ![k] = NoOne]
        BY <1>0, <2>8 DEF Unlock, UnlockFails, unlockMutex, Drop, Fault, LockTypeOK
      <3>2. LockTypeOK' /\ ClientInv'
        BY <1>0, <3>1 DEF LockTypeOK, ClientInv, Pcs
      <3>3. \A d \in Clients : d # c => k \notin got[d]
        BY <1>0, <3>1 DEF OwnerInv
      <3>4. OwnerInv'
        BY <1>0, <3>1, <3>3 DEF LockTypeOK, OwnerInv
      <3> QED
        BY <3>2, <3>4 DEF LockInv
    <2> QED
      BY <1>3, <2>1, <2>3, <2>4, <2>5, <2>6, <2>7, <2>8 DEF ClientStep
  <1> QED
    BY <1>1, <1>2, <1>3 DEF Next

\* Under the invariant no step deletes a lock of another client.
LEMMA NextDeletesOnlyItsOwn ==
  ASSUME LockInv, [Next]_vars
  PROVE  \A k \in Keys : owner[k] \in Clients /\ owner'[k] # owner[k] =>
            ttl[k] = 1 \/ pc[owner[k]] = "releasing"
  <1> USE DEF redis
  <1> SUFFICES ASSUME NEW k \in Keys, owner[k] \in Clients, owner'[k] # owner[k]
               PROVE  ttl[k] = 1 \/ pc[owner[k]] = "releasing"
    OBVIOUS
  <1>0. LockTypeOK /\ OwnerInv /\ ClientInv
    BY DEF LockInv
  <1>1. CASE Tick
    BY <1>0, <1>1, TimesAssumption, NoOneAssumption DEF Tick, LockTypeOK, OwnerInv
  <1>2. ASSUME NEW c \in Clients, ClientStep(c)
        PROVE  ttl[k] = 1 \/ pc[owner[k]] = "releasing"
    <2>1. CASE Lock(c)
      <3>1. ttl[NextKey(c)] = 0 /\ owner' = [owner EXCEPT ![NextKey(c)] = c]
        BY <2>1 DEF Lock, lockMutex
      <3> QED
        BY <1>0, <3>1, NoOneAssumption DEF LockTypeOK, OwnerInv
    <2>2. ASSUME NEW j \in Keys, Unlock(c, j)
          PROVE  pc[owner[k]] = "releasing"
      <3>1. pc[c] = "releasing" /\ owner[j] = c /\ owner' = [owner EXCEPT ![j] = NoOne]
        BY <1>0, <2>2 DEF Unlock, unlockMutex, OwnerInv
      <3> QED
        BY <1>0, <3>1 DEF LockTypeOK
    <2> QED
      BY <1>2, <2>1, <2>2 DEF ClientStep, Call, LockRefused, LockFails, Return, Dies, UnlockFails
  <1> QED
    BY <1>1, <1>2 DEF Next, vars

-----------------------------------------------------------------------------

\* When the wait and the work together are shorter than the TTL, no two
\* callbacks of Mutex or MultiMutex that share a key run at the same time,
\* whatever Redis calls fail and whichever clients die.
THEOREM LocksExclusive == ASSUME ShortWork PROVE Spec => []MutualExclusion
  <1>1. LockInv /\ [Next]_vars => LockInv'
    BY LockInvNext
  <1>2. LockInv => MutualExclusion
    BY DEF LockInv, ClientInv, OwnerInv, MutualExclusion
  <1> QED
    BY <1>1, <1>2, LockInvInit, PTL DEF Spec

\* Under the same bound every lock of a callback exists and is its own for as
\* long as the callback runs.
THEOREM LocksHeld == ASSUME ShortWork PROVE Spec => []HoldsAll
  <1>1. LockInv /\ [Next]_vars => LockInv'
    BY LockInvNext
  <1>2. LockInv => HoldsAll
    <2> SUFFICES ASSUME LockInv, NEW c \in Clients, pc[c] = "holding", NEW k \in want[c]
                 PROVE  ttl[k] > 0 /\ owner[k] = c
      BY DEF HoldsAll
    <2>1. k \in got[c] /\ k \in Keys
      BY DEF LockInv, LockTypeOK, ClientInv
    <2>2. owner[k] = c /\ ttl[k] + waited[c] + worked[c] >= TTL
      BY <2>1 DEF LockInv, OwnerInv
    <2>3. ttl[k] \in 0..TTL /\ waited[c] \in 0..Timeout /\ worked[c] \in 0..Work
      BY <2>1 DEF LockInv, LockTypeOK
    <2> QED
      BY <2>2, <2>3, TimesAssumption DEF ShortWork
  <1> QED
    BY <1>1, <1>2, LockInvInit, PTL DEF Spec

\* Under the same bound no client deletes a lock but its own, although DEL
\* does not look at the value of the key.
THEOREM LocksDeletedByOwner == ASSUME ShortWork PROVE Spec => DeletesOnlyItsOwn
  <1> DEFINE Own == \A k \in Keys : owner[k] \in Clients /\ owner'[k] # owner[k] =>
                       ttl[k] = 1 \/ pc[owner[k]] = "releasing"
  <1>1. LockInv /\ [Next]_vars => LockInv'
    BY LockInvNext
  <1>2. LockInv /\ [Next]_vars => [Own]_vars
    BY NextDeletesOnlyItsOwn
  <1> QED
    BY <1>1, <1>2, LockInvInit, PTL DEF Spec, DeletesOnlyItsOwn

-----------------------------------------------------------------------------
(* Deadlock, which is independent of the times.                            *)

\* What a client has taken are the smallest of the keys it wants.
SortedInv ==
  /\ pc \in [Clients -> Pcs] /\ want \in [Clients -> SUBSET Keys] /\ got \in [Clients -> SUBSET Keys]
  /\ \A c \in Clients :
       /\ got[c] \subseteq want[c]
       /\ pc[c] = "idle" => got[c] = {}
       /\ pc[c] = "acquiring" =>
            got[c] # want[c] /\ \A k \in got[c], j \in want[c] \ got[c] : k < j

\* Every step preserves it, however long anybody waits or works.
LEMMA SortedNext ==
  ASSUME SortedInv, [Next]_vars
  PROVE  SortedInv'
  <1>1. CASE UNCHANGED vars \/ Tick
    BY <1>1 DEF vars, Tick, SortedInv
  <1>2. ASSUME NEW c \in Clients, NEW K \in (SUBSET Keys) \ {{}}, Call(c, K) PROVE SortedInv'
    <2>1. got[c] = {} /\ K # {} /\ K \subseteq Keys
      BY <1>2 DEF Call, SortedInv
    <2> QED
      BY <1>2, <2>1 DEF Call, SortedInv, Pcs
  <1>3. ASSUME NEW c \in Clients, Lock(c) PROVE SortedInv'
    <2> DEFINE k == NextKey(c)
    <2>1. /\ pc[c] = "acquiring" /\ got' = [got EXCEPT ![c] = got[c] \cup {k}]
          /\ pc' = [pc EXCEPT ![c] = IF got'[c] = want[c] THEN "holding" ELSE @]
          /\ want' = want
      BY <1>3 DEF Lock
    <2>2. k \in want[c] /\ k \notin got[c] /\ k \in Keys /\ \A j \in want[c] \ got[c] : k <= j
      BY <2>1, NextKeyExists DEF SortedInv
    <2> HIDE DEF k
    <2>3. /\ pc' \in [Clients -> Pcs] /\ want' \in [Clients -> SUBSET Keys]
          /\ got' \in [Clients -> SUBSET Keys]
      BY <2>1, <2>2 DEF SortedInv, Pcs
    <2>4. got'[c] = got[c] \cup {k} /\ want[c] \subseteq Nat
      BY <2>1, KeysAssumption DEF SortedInv, Keys
    <2>5. ASSUME NEW i \in got'[c], NEW j \in want[c] \ got'[c] PROVE i < j
      <3>1. j \in want[c] \ got[c] /\ j # k /\ j \in Nat /\ k \in Nat
        BY <2>2, <2>4
      <3>2. CASE i = k
        BY <2>2, <3>1, <3>2
      <3>3. CASE i \in got[c]
        BY <2>1, <3>1, <3>3 DEF SortedInv
      <3> QED
        BY <2>4, <3>2, <3>3
    <2>6. \A d \in Clients \ {c} : got'[d] = got[d] /\ pc'[d] = pc[d]
      BY <2>1 DEF SortedInv
    <2>7. pc'[c] \in {"acquiring", "holding"} /\ (pc'[c] = "acquiring" => got'[c] # want[c])
      BY <2>1 DEF SortedInv
    <2>8. got'[c] \subseteq want[c]
      BY <2>2, <2>4 DEF SortedInv
    <2> QED
      BY <2>1, <2>3, <2>5, <2>6, <2>7, <2>8 DEF SortedInv
  <1>4. ASSUME NEW c \in Clients, LockRefused(c) PROVE SortedInv'
    BY <1>4 DEF LockRefused, GiveUp, SortedInv, Pcs
  <1>5. ASSUME NEW c \in Clients, LockFails(c) PROVE SortedInv'
    <2>1. /\ \/ pc' = pc
             \/ pc' = [pc EXCEPT ![c] = IF got[c] = {} THEN "idle" ELSE "releasing"]
          /\ UNCHANGED <<want, got>>
      BY <1>5 DEF LockFails, GiveUp
    <2> QED
      BY <2>1 DEF SortedInv, Pcs
  <1>6. ASSUME NEW c \in Clients, Return(c) \/ Dies(c) PROVE SortedInv'
    BY <1>6 DEF Return, Dies, SortedInv, Pcs
  <1>7. ASSUME NEW c \in Clients, NEW k \in Keys, Unlock(c, k) \/ UnlockFails(c, k) PROVE SortedInv'
    <2>1. /\ pc[c] = "releasing" /\ got' = [got EXCEPT ![c] = got[c] \ {k}]
          /\ pc' = [pc EXCEPT ![c] = IF got'[c] = {} THEN "idle" ELSE @] /\ want' = want
      BY <1>7 DEF Unlock, UnlockFails, Drop
    <2> QED
      BY <2>1 DEF SortedInv, Pcs
  <1> QED
    BY <1>1, <1>2, <1>3, <1>4, <1>5, <1>6, <1>7 DEF Next, ClientStep

\* A client waits only for clients that do not wait or that wait for a larger
\* key: the waits have an order, so that no circle of any length can close.
WaitsUpward ==
  \A c, d \in Clients : pc[c] = "acquiring" /\ pc[d] = "acquiring" /\ NextKey(c) \in got[d] =>
     NextKey(c) < NextKey(d)

\* The order of the waits follows from the order of the keys.
LEMMA SortedWaits == SortedInv => WaitsUpward /\ NoCircularWait
  <1> SUFFICES ASSUME SortedInv PROVE WaitsUpward /\ NoCircularWait
    OBVIOUS
  <1>1. ASSUME NEW c \in Clients, pc[c] = "acquiring"
        PROVE  NextKey(c) \in Keys /\ NextKey(c) \in want[c] \ got[c]
    BY <1>1, NextKeyExists DEF SortedInv
  <1>2. WaitsUpward
    BY <1>1 DEF SortedInv, WaitsUpward
  <1>3. ASSUME NEW c \in Clients, NEW d \in Clients, pc[c] = "acquiring", pc[d] = "acquiring",
               NextKey(c) \in got[d], NextKey(d) \in got[c]
        PROVE  FALSE
    <2>1. NextKey(c) < NextKey(d) /\ NextKey(d) < NextKey(c)
      BY <1>2, <1>3 DEF WaitsUpward
    <2>2. NextKey(c) \in Nat /\ NextKey(d) \in Nat
      BY <1>1, <1>3, KeysAssumption DEF Keys
    <2> QED
      BY <2>1, <2>2
  <1> QED
    BY <1>2, <1>3 DEF NoCircularWait

\* Sorted acquisition in MultiMutex and AcquireMultiLock: the clients' waits
\* are ordered by the keys they wait for, for any number of clients and keys and
\* whatever the times.
THEOREM WaitsAreOrdered == Spec => []WaitsUpward
  <1>1. Init => SortedInv
    BY DEF Init, SortedInv, Pcs
  <1>2. SortedInv /\ [Next]_vars => SortedInv'
    BY SortedNext
  <1> QED
    BY <1>1, <1>2, SortedWaits, PTL DEF Spec

\* In particular no two clients wait for each other.
THEOREM NoDeadlock == Spec => []NoCircularWait
  <1>1. Init => SortedInv
    BY DEF Init, SortedInv, Pcs
  <1>2. SortedInv /\ [Next]_vars => SortedInv'
    BY SortedNext
  <1> QED
    BY <1>1, <1>2, SortedWaits, PTL DEF Spec

=============================================================================

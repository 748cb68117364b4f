----------------------------- MODULE PoolProofs -----------------------------
(* The channel pool, for every number of goroutines, channels, messages,   *)
(* stops and faults: a channel in somebody's hands is nobody else's, the   *)
(* count that decides over the panic is exact, and a publish that reports  *)
(* success was confirmed itself.                                           *)
EXTENDS ChannelPool, FiniteSetTheorems, TLAPS

\* The sets the pool counts are finite.
LEMMA FiniteParts ==
  ASSUME PoolTypeOK
  PROVE  /\ IsFiniteSet(avail) /\ Cardinality(avail) \in Nat
         /\ IsFiniteSet(Holders) /\ Cardinality(Holders) \in Nat
  <1>1. IsFiniteSet(Channels)
    BY PoolAssumption, FS_Interval DEF Channels
  <1>2. IsFiniteSet(avail)
    BY <1>1, FS_Subset DEF PoolTypeOK
  <1>3. IsFiniteSet(Holders)
    BY PoolAssumption, FS_Subset DEF Holders
  <1> QED
    BY <1>2, <1>3, FS_CardinalityType

\* When one goroutine moves, the number of those with a channel changes by
\* that goroutine.
LEMMA OneMoves ==
  ASSUME PoolTypeOK, PoolTypeOK', NEW u \in Users,
         \A v \in Users \ {u} : user'[v].ch = user[v].ch
  PROVE  /\ u \in Holders' /\ u \notin Holders => Cardinality(Holders') = Cardinality(Holders) + 1
         /\ u \notin Holders' /\ u \in Holders => Cardinality(Holders') = Cardinality(Holders) - 1
         /\ (u \in Holders' <=> u \in Holders) => Holders' = Holders
  <1>1. \A v \in Users \ {u} : v \in Holders' <=> v \in Holders
    BY DEF Holders
  <1>2. Holders \subseteq Users /\ Holders' \subseteq Users
    BY DEF Holders
  <1>3. CASE u \in Holders' /\ u \notin Holders
    <2>1. Holders' = Holders \cup {u}
      BY <1>1, <1>2, <1>3
    <2> QED
      BY <1>3, <2>1, FiniteParts, FS_AddElement
  <1>4. CASE u \notin Holders' /\ u \in Holders
    <2>1. Holders' = Holders \ {u}
      BY <1>1, <1>2, <1>4
    <2> QED
      BY <1>4, <2>1, FiniteParts, FS_RemoveElement
  <1>5. CASE u \in Holders' <=> u \in Holders
    BY <1>1, <1>2, <1>5
  <1> QED
    BY <1>3, <1>4, <1>5

\* A freshly started process.
LEMMA FreshPool ==
  ASSUME conn = TRUE, chan = [c \in Channels |-> c = 1], avail = {1}, created = 1,
         user = [u \in Users |-> IdleUser], next = [c \in Channels |-> 0],
         sent = [c \in Channels |-> 0], unconf = {}, stop = "no", leaked = 0,
         stops \in Nat, faults \in Nat
  PROVE  PoolInv
  <1>1. 1 \in Channels
    BY PoolAssumption DEF Channels
  <1>2. IdleUser \in UserStates /\ IdleUser.pc = "idle" /\ IdleUser.ch = NoCh
    BY DEF IdleUser, UserStates, Pcs, Kinds, MaxTries
  <1>3. PoolTypeOK
    BY <1>1, <1>2 DEF PoolTypeOK
  <1>4. \A u \in Users : user[u].ch = NoCh /\ user[u].pc = "idle"
    BY <1>2
  <1>5. HoldInv /\ ExclusiveHolders /\ ConfirmIsOwn
    BY <1>4 DEF HoldInv, ExclusiveHolders, ConfirmIsOwn, Holding
  <1>6. SlotsAccounted
    <2>1. Holders = {}
      BY <1>4 DEF Holders
    <2>2. Cardinality(Holders) = 0
      BY <2>1, FS_EmptySet
    <2>3. Cardinality(avail) = 1
      BY FS_Singleton
    <2> QED
      BY <2>2, <2>3 DEF SlotsAccounted
  <1>7. SeqInv
    <2>1. Held = {}
      BY <1>4 DEF Held
    <2> QED
      BY <1>1, <1>4, <2>1 DEF SeqInv, SeqNo
  <1> QED
    BY <1>3, <1>5, <1>6, <1>7 DEF PoolInv

\* A goroutine that goes on with the channel it has, or without one.
LEMMA UserGoesOn ==
  ASSUME PoolInv, NEW u \in Users, NEW s \in UserStates, user' = [user EXCEPT ![u] = s],
         s.ch = user[u].ch, s.pc \in Holding <=> user[u].pc \in Holding,
         s.pc \notin {"confirm", "ok"},
         UNCHANGED <<pool, conf, stopping, leaked>>, faults' \in Nat
  PROVE  PoolInv'
  <1> USE DEF pool, conf, stopping
  <1>1. PoolTypeOK'
    BY DEF PoolInv, PoolTypeOK
  <1>2. user'[u] = s /\ \A v \in Users : v # u => user'[v] = user[v]
    BY DEF PoolInv, PoolTypeOK
  <1>3. \A v \in Users : user'[v].ch = user[v].ch
    BY <1>2
  <1>4. HoldInv' /\ ExclusiveHolders'
    BY <1>2, <1>3 DEF PoolInv, HoldInv, ExclusiveHolders
  <1>5. SlotsAccounted'
    BY <1>3 DEF PoolInv, SlotsAccounted, Holders
  <1>6. SeqInv' /\ ConfirmIsOwn'
    <2>1. Held' = Held
      BY <1>3 DEF Held
    <2> QED
      BY <1>2, <2>1 DEF PoolInv, SeqInv, SeqNo, ConfirmIsOwn
  <1> QED
    BY <1>1, <1>4, <1>5, <1>6 DEF PoolInv

\* What a goroutine does after an error: it is well formed and without a
\* channel.
LEMMA TryAgainState ==
  ASSUME PoolTypeOK, NEW u \in Users
  PROVE  /\ TryAgain(u) \in UserStates /\ TryAgain(u).ch = NoCh
         /\ TryAgain(u).pc \in {"idle", "get"}
  <1>1. user[u] \in UserStates
    BY DEF PoolTypeOK
  <1>2. IdleUser \in UserStates /\ IdleUser.pc = "idle" /\ IdleUser.ch = NoCh
    BY DEF IdleUser, UserStates, Pcs, Kinds, MaxTries
  <1>3. CASE user[u].try + 1 < MaxTries
    <2> DEFINE t == [IdleUser EXCEPT !.pc = "get", !.kind = user[u].kind, !.try = user[u].try + 1]
    <2>a. user[u].try + 1 \in 0..MaxTries /\ user[u].kind \in Kinds
      BY <1>1, <1>3 DEF UserStates, MaxTries
    <2>b. ASSUME NEW r \in UserStates, NEW k \in Kinds, NEW n \in 0..MaxTries
          PROVE  LET z == [r EXCEPT !.pc = "get", !.kind = k, !.try = n] IN
                 z \in UserStates /\ z.ch = r.ch /\ z.pc = "get"
      BY DEF UserStates, Pcs
    <2>1. t \in UserStates /\ t.ch = NoCh /\ t.pc = "get"
      BY <1>2, <2>a, <2>b
    <2> QED
      BY <1>2, <2>1 DEF TryAgain
  <1>4. CASE ~(user[u].try + 1 < MaxTries)
    BY <1>2, <1>4 DEF TryAgain
  <1> QED
    BY <1>3, <1>4

\* ReturnChannel, or a channel that is dropped: the goroutine has none any
\* more, and the slot is freed, goes with the channel to the pool, or leaks.
LEMMA ChannelLeaves ==
  ASSUME PoolInv, NEW u \in Users, user[u].pc \in Holding, NEW s \in UserStates,
         s.ch = NoCh, s.pc \notin Holding, user' = [user EXCEPT ![u] = s],
         \/ GiveBack(user[u].ch)
         \/ /\ next' = [next EXCEPT ![user[u].ch] = 0] /\ leaked' = leaked + 1
            /\ UNCHANGED <<chan, avail, created>>,
         UNCHANGED <<conn, sent, unconf, stopping>>, faults' \in Nat
  PROVE  PoolInv'
  <1> USE DEF stopping
  <1> DEFINE c == user[u].ch
  <1>1. /\ c # NoCh /\ c \in Channels /\ c \notin avail /\ PoolTypeOK
        /\ \A v \in Users \ {u} : user[v].ch # c
    BY DEF PoolInv, HoldInv, PoolTypeOK, UserStates, ExclusiveHolders
  <1>2. user'[u] = s /\ \A v \in Users \ {u} : user'[v] = user[v]
    BY <1>1 DEF PoolTypeOK
  <1>3. IsFiniteSet(avail) /\ Cardinality(avail) \in Nat /\ Cardinality(Holders) \in Nat
    BY <1>1, FiniteParts
  <1>4. u \in Holders /\ u \notin Holders'
    BY <1>1, <1>2 DEF Holders
  <1>5. created = Cardinality(avail) + Cardinality(Holders) + leaked /\ leaked \in Nat
        /\ Cardinality(Holders) > 0
    <2>1. Cardinality(Holders) # 0
      BY <1>1, <1>4, FiniteParts, FS_EmptySet
    <2> QED
      BY <1>1, <1>3, <2>1 DEF PoolInv, SlotsAccounted, PoolTypeOK
  <1> HIDE DEF c
  <1>6. \/ /\ ~chan[c] /\ created' = created - 1 /\ next' = [next EXCEPT ![c] = 0]
           /\ UNCHANGED <<chan, avail, leaked>>
        \/ avail' = avail \cup {c} /\ UNCHANGED <<chan, created, next, leaked>>
        \/ /\ chan' = [chan EXCEPT ![c] = FALSE] /\ next' = [next EXCEPT ![c] = 0]
           /\ leaked' = leaked + 1 /\ UNCHANGED <<avail, created>>
        \/ /\ next' = [next EXCEPT ![c] = 0] /\ leaked' = leaked + 1
           /\ UNCHANGED <<chan, avail, created>>
    BY DEF GiveBack, c
  <1>7. PoolTypeOK'
    <2>1. created' \in Nat
      BY <1>1, <1>3, <1>5, <1>6 DEF PoolTypeOK
    <2>2. chan' \in [Channels -> BOOLEAN] /\ next' \in [Channels -> Nat]
      <3>1. chan \in [Channels -> BOOLEAN] /\ next \in [Channels -> Nat]
        BY <1>1 DEF PoolTypeOK
      <3>2. chan' = chan \/ chan' = [chan EXCEPT ![c] = FALSE]
        BY <1>6
      <3>3. next' = next \/ next' = [next EXCEPT ![c] = 0]
        BY <1>6
      <3>4. chan' \in [Channels -> BOOLEAN]
        BY <3>1, <3>2
      <3>5. next' \in [Channels -> Nat]
        BY <3>1, <3>3
      <3> QED
        BY <3>4, <3>5
    <2>3. avail' \subseteq Channels /\ leaked' \in Nat
      BY <1>1, <1>6 DEF PoolTypeOK
    <2>4. user' \in [Users -> UserStates]
      BY <1>1 DEF PoolTypeOK
    <2> QED
      BY <1>1, <2>1, <2>2, <2>3, <2>4 DEF PoolTypeOK
  <1>8. HoldInv'
    BY <1>2 DEF PoolInv, HoldInv
  <1>9. avail' \subseteq avail \cup {c}
    BY <1>6
  <1>10. ExclusiveHolders'
    BY <1>1, <1>2, <1>9 DEF PoolInv, ExclusiveHolders
  <1>11. SlotsAccounted'
    <2>1. Cardinality(Holders') = Cardinality(Holders) - 1
      BY <1>1, <1>2, <1>4, <1>7, OneMoves
    <2>2. avail' = avail \cup {c} => Cardinality(avail') = Cardinality(avail) + 1
      BY <1>1, <1>3, FS_AddElement
    <2> QED
      BY <1>3, <1>5, <1>6, <2>1, <2>2 DEF SlotsAccounted
  <1>12. SeqInv'
    <2>1. Held' \subseteq Held
      BY <1>2 DEF Held
    <2>2. c \notin Held'
      BY <1>1, <1>2 DEF Held
    <2>3. c \in Held
      BY <1>1 DEF Held, c
    <2>4. \A d \in avail' \cup Held' :
            d \in avail \cup Held /\ (chan'[d] => chan[d] /\ next'[d] = next[d])
      <3>1. \A d \in Channels : d # c => chan'[d] = chan[d] /\ next'[d] = next[d]
        BY <1>1, <1>6 DEF PoolTypeOK
      <3>2. c \in avail' => chan' = chan /\ next' = next
        BY <1>1, <1>6
      <3>3. Held' \subseteq Channels /\ avail' \subseteq Channels
        BY <1>7 DEF Held, PoolTypeOK, UserStates
      <3> QED
        BY <1>9, <2>1, <2>2, <2>3, <3>1, <3>2, <3>3
    <2>5. stops = 0 => \A d \in avail' \cup Held' : chan'[d] => SeqNo(d)' = sent'[d] + 1
      <3>1. SUFFICES ASSUME stops = 0, NEW d \in avail' \cup Held', chan'[d]
                     PROVE  SeqNo(d)' = sent'[d] + 1
        OBVIOUS
      <3>2. d \in avail \cup Held /\ chan[d] /\ next'[d] = next[d]
        BY <2>4, <3>1
      <3>3. SeqNo(d) = sent[d] + 1
        BY <3>1, <3>2 DEF PoolInv, SeqInv
      <3> QED
        BY <3>2, <3>3 DEF SeqNo
    <2>6. stops = 0 => \A v \in Users : user'[v].pc \in {"confirm", "ok"} => user'[v].seq = user'[v].tag
      BY <1>2 DEF PoolInv, SeqInv, Holding
    <2> QED
      BY <2>5, <2>6 DEF SeqInv, SeqNo
  <1>13. ConfirmIsOwn'
    BY <1>2 DEF PoolInv, ConfirmIsOwn, Holding
  <1> QED
    BY <1>7, <1>8, <1>10, <1>11, <1>12, <1>13 DEF PoolInv

\* A goroutine with the channel it was given is well formed.
LEMMA TakerType ==
  ASSUME PoolTypeOK, NEW u \in Users, NEW c \in Channels
  PROVE  [user EXCEPT ![u].pc = "use", ![u].ch = c] \in [Users -> UserStates]
  <1>1. user \in [Users -> UserStates]
    BY DEF PoolTypeOK
  <1>2. ASSUME NEW r \in UserStates
        PROVE  [r EXCEPT !.pc = "use", !.ch = c] \in UserStates
    BY DEF UserStates, Pcs
  <1>3. [user[u] EXCEPT !.pc = "use", !.ch = c] \in UserStates
    BY <1>1, <1>2
  <1> QED
    BY <1>1, <1>3

\* A goroutine gets a channel nobody has, from the pool or with a slot of its
\* own.
LEMMA ChannelTaken ==
  ASSUME PoolInv, NEW u \in Users, user[u].pc \notin Holding, NEW c \in Channels, c \notin Held,
         user' = [user EXCEPT ![u].pc = "use", ![u].ch = c],
         \/ c \in avail /\ avail' = avail \ {c} /\ created' = created
         \/ c \notin avail /\ avail' = avail /\ created' = created + 1,
         PoolTypeOK', leaked' = leaked
  PROVE  /\ HoldInv' /\ ExclusiveHolders' /\ SlotsAccounted' /\ Held' \subseteq Held \cup {c}
         /\ user'[u].pc = "use" /\ \A v \in Users \ {u} : user'[v] = user[v]
  <1>1. PoolTypeOK /\ HoldInv /\ ExclusiveHolders /\ SlotsAccounted
    BY DEF PoolInv
  <1>2. /\ user'[u].pc = "use" /\ user'[u].ch = c
        /\ \A v \in Users \ {u} : user'[v] = user[v]
    BY <1>1 DEF PoolTypeOK, UserStates
  <1>3. c # NoCh /\ \A v \in Users : user[v].ch # c
    BY PoolAssumption DEF Channels, NoCh, Held
  <1>4. HoldInv'
    BY <1>1, <1>2, <1>3 DEF HoldInv, Holding
  <1>5. c \notin avail' /\ avail' \subseteq avail
    OBVIOUS
  <1>6. ExclusiveHolders'
    <2>1. ASSUME NEW v \in Users, user'[v].ch # NoCh
          PROVE  user'[v].ch \notin avail' /\ \A w \in Users \ {v} : user'[w].ch # user'[v].ch
      <3>1. CASE v = u
        BY <1>2, <1>3, <1>5, <3>1
      <3>2. CASE v # u
        <4>1. user'[v] = user[v]
          BY <1>2, <3>2
        <4>2. user[v].ch \notin avail /\ \A w \in Users \ {v} : user[w].ch # user[v].ch
          BY <1>1, <2>1, <4>1 DEF ExclusiveHolders
        <4> QED
          BY <1>2, <1>3, <1>5, <4>1, <4>2
      <3> QED
        BY <3>1, <3>2
    <2> QED
      BY <2>1 DEF ExclusiveHolders
  <1>7. SlotsAccounted'
    <2>1. u \in Holders' /\ u \notin Holders
      BY <1>1, <1>2, <1>3 DEF Holders, HoldInv
    <2>2. Cardinality(Holders') = Cardinality(Holders) + 1
      BY <1>1, <1>2, <2>1, OneMoves
    <2>3. /\ IsFiniteSet(avail) /\ Cardinality(avail) \in Nat /\ Cardinality(Holders) \in Nat
          /\ leaked \in Nat
      BY <1>1, FiniteParts DEF PoolTypeOK
    <2>4. created = Cardinality(avail) + Cardinality(Holders) + leaked
      BY <1>1 DEF SlotsAccounted
    <2>5. CASE c \in avail /\ avail' = avail \ {c} /\ created' = created
      <3>1. Cardinality(avail') = Cardinality(avail) - 1
        BY <2>3, <2>5, FS_RemoveElement
      <3> QED
        BY <2>2, <2>3, <2>4, <2>5, <3>1 DEF SlotsAccounted
    <2>6. CASE avail' = avail /\ created' = created + 1
      BY <2>2, <2>3, <2>4, <2>6 DEF SlotsAccounted
    <2> QED
      BY <2>5, <2>6
  <1>8. Held' \subseteq Held \cup {c}
    BY <1>2 DEF Held
  <1> QED
    BY <1>2, <1>4, <1>6, <1>7, <1>8

\* A channel from the pool.
LEMMA PooledKeeps ==
  ASSUME PoolInv, NEW u \in Users, NEW c \in Channels, TakePooled(u, c)
  PROVE  PoolInv'
  <1> USE DEF TakePooled, conf, stopping
  <1>1. PoolTypeOK'
    <2>1. user' \in [Users -> UserStates]
      BY TakerType DEF PoolInv
    <2> QED
      BY <2>1 DEF PoolInv, PoolTypeOK
  <1>2. user[u].pc \notin Holding /\ c \notin Held
    BY DEF Holding, PoolInv, ExclusiveHolders, Held
  <1>3. /\ HoldInv' /\ ExclusiveHolders' /\ SlotsAccounted' /\ Held' \subseteq Held \cup {c}
        /\ user'[u].pc = "use" /\ \A v \in Users \ {u} : user'[v] = user[v]
    BY <1>1, <1>2, ChannelTaken
  <1>4. SeqInv'
    <2>1. avail' \cup Held' \subseteq avail \cup Held
      BY <1>3
    <2> QED
      BY <1>3, <2>1 DEF PoolInv, SeqInv, SeqNo
  <1>5. ConfirmIsOwn'
    <2>1. \A v \in Users : user'[v].pc = "ok" => user'[v] = user[v]
      BY <1>3
    <2> QED
      BY <2>1 DEF PoolInv, ConfirmIsOwn
  <1> QED
    BY <1>1, <1>3, <1>4, <1>5 DEF PoolInv

\* A new channel: its publisher and the broker begin to count anew.
LEMMA CreateKeeps ==
  ASSUME PoolInv, NEW u \in Users, NEW c \in Channels, CreateChannel(u, c)
  PROVE  PoolInv'
  <1> USE DEF stopping
  <1>1. PoolTypeOK'
    <2>1. user' \in [Users -> UserStates]
      BY TakerType DEF PoolInv, CreateChannel
    <2>2. /\ chan' \in [Channels -> BOOLEAN] /\ next' \in [Channels -> Nat]
          /\ sent' \in [Channels -> Nat] /\ unconf' \subseteq Channels \X Nat
      BY DEF CreateChannel, PoolInv, PoolTypeOK
    <2> QED
      BY <2>1, <2>2 DEF CreateChannel, PoolInv, PoolTypeOK
  <1>2. user[u].pc \notin Holding /\ c \notin Held /\ c \notin avail
    BY DEF Holding, CreateChannel, Fresh, Unused
  <1>3. /\ HoldInv' /\ ExclusiveHolders' /\ SlotsAccounted' /\ Held' \subseteq Held \cup {c}
        /\ user'[u].pc = "use" /\ \A v \in Users \ {u} : user'[v] = user[v]
    BY <1>1, <1>2, ChannelTaken DEF CreateChannel
  <1>4. SeqInv'
    <2>1. SUFFICES ASSUME stops' = 0
                   PROVE  /\ \A d \in (avail \cup Held)' : chan'[d] => SeqNo(d)' = sent'[d] + 1
                          /\ \A v \in Users : user'[v].pc \in {"confirm", "ok"} => user'[v].seq = user'[v].tag
      BY DEF SeqInv
    <2>2. SeqInv /\ stops = 0
      BY <2>1 DEF PoolInv, CreateChannel
    <2>3. ASSUME NEW d \in (avail \cup Held)', chan'[d]
          PROVE  SeqNo(d)' = sent'[d] + 1
      <3>1. d \in Channels
        BY <1>1 DEF PoolTypeOK, Held, UserStates
      <3>2. CASE d = c
        BY <3>1, <3>2 DEF CreateChannel, SeqNo, PoolInv, PoolTypeOK
      <3>3. CASE d # c
        <4>1. d \in avail \cup Held
          BY <1>3, <3>3 DEF CreateChannel
        <4>2. chan'[d] = chan[d] /\ next'[d] = next[d] /\ sent'[d] = sent[d]
          BY <3>1, <3>3 DEF CreateChannel, PoolInv, PoolTypeOK
        <4> QED
          BY <2>2, <2>3, <4>1, <4>2 DEF SeqInv, SeqNo
      <3> QED
        BY <3>2, <3>3
    <2> QED
      BY <1>3, <2>2, <2>3 DEF SeqInv
  <1>5. ConfirmIsOwn'
    <2>1. \A v \in Users : user'[v].pc = "ok" => user'[v] = user[v]
      BY <1>3
    <2>2. unconf' \subseteq unconf /\ stops' = stops
      BY DEF CreateChannel
    <2> QED
      BY <2>1, <2>2 DEF PoolInv, ConfirmIsOwn
  <1> QED
    BY <1>1, <1>3, <1>4, <1>5 DEF PoolInv, CreateChannel

\* A closed channel is thrown out of the pool.
LEMMA DiscardKeeps ==
  ASSUME PoolInv, NEW u \in Users, NEW c \in Channels, DiscardClosed(u, c)
  PROVE  PoolInv'
  <1> USE DEF DiscardClosed, stopping
  <1>1. PoolTypeOK /\ SlotsAccounted
    BY DEF PoolInv
  <1>2. /\ IsFiniteSet(avail) /\ Cardinality(avail) \in Nat /\ Cardinality(Holders) \in Nat
    BY <1>1, FiniteParts
  <1>3. Cardinality(avail') = Cardinality(avail) - 1 /\ Cardinality(avail) # 0
    BY <1>2, FS_RemoveElement, FS_EmptySet
  <1>4. Holders' = Holders /\ Held' = Held
    BY DEF Holders, Held
  <1>5. SlotsAccounted' /\ created' \in Nat
    BY <1>1, <1>2, <1>3, <1>4 DEF SlotsAccounted, PoolTypeOK
  <1>6. PoolTypeOK'
    BY <1>1, <1>5 DEF PoolTypeOK
  <1>7. HoldInv' /\ ExclusiveHolders' /\ ConfirmIsOwn'
    BY DEF PoolInv, HoldInv, ExclusiveHolders, ConfirmIsOwn
  <1>8. SeqInv'
    <2>1. \A d \in avail' \cup Held' : d # c /\ d \in avail \cup Held
      BY <1>4 DEF PoolInv, ExclusiveHolders, Held
    <2>2. Held \cup avail \subseteq Channels
      BY <1>1 DEF PoolTypeOK, Held, UserStates
    <2>3. \A d \in avail' \cup Held' : next'[d] = next[d]
      BY <1>1, <2>1, <2>2 DEF PoolTypeOK
    <2> QED
      BY <2>1, <2>3 DEF PoolInv, SeqInv, SeqNo
  <1> QED
    BY <1>5, <1>6, <1>7, <1>8 DEF PoolInv

\* Publishing: the number the publisher registers is the tag the broker will
\* give the message.
LEMMA PublishKeeps ==
  ASSUME PoolInv, NEW u \in Users, Publish(u)
  PROVE  PoolInv'
  <1> USE DEF pool, stopping
  <1> DEFINE c == user[u].ch
  <1>1. /\ PoolTypeOK /\ user[u].pc = "use" /\ c \in Channels /\ c # NoCh /\ chan[c] /\ c \in Held
        /\ \A v \in Users \ {u} : user[v].ch # c
    BY DEF Publish, Publishing, PoolInv, PoolTypeOK, HoldInv, Holding, UserStates, Held,
           ExclusiveHolders
  <1>2. /\ next' = [next EXCEPT ![c] = SeqNo(c) + 1] /\ sent' = [sent EXCEPT ![c] = sent[c] + 1]
        /\ unconf' = unconf \cup {<<c, sent[c] + 1>>}
        /\ user' = [user EXCEPT ![u] = [user[u] EXCEPT !.pc = "confirm", !.seq = SeqNo(c),
                                                       !.tag = sent[c] + 1]]
        /\ UNCHANGED <<conn, chan, avail, created, stop, stops, leaked, faults>>
    BY DEF Publish
  <1>3. sent[c] \in Nat /\ SeqNo(c) \in Nat /\ SeqNo(c) # 0
    BY <1>1 DEF PoolTypeOK, SeqNo
  <1> HIDE DEF c
  <1> DEFINE z == [user[u] EXCEPT !.pc = "confirm", !.seq = SeqNo(c), !.tag = sent[c] + 1]
  <1>5. /\ z \in UserStates /\ z.ch = user[u].ch /\ z.pc = "confirm"
        /\ z.seq = SeqNo(c) /\ z.tag = sent[c] + 1
    <2>1. user[u] \in UserStates /\ sent[c] + 1 \in Nat
      BY <1>1, <1>3 DEF PoolTypeOK
    <2> DEFINE m == SeqNo(c)
               n == sent[c] + 1
               y == [user[u] EXCEPT !.pc = "confirm", !.seq = m, !.tag = n]
    <2>2. m \in Nat /\ n \in Nat
      BY <1>3, <2>1
    <2> HIDE DEF m, n
    <2>3. y \in UserStates /\ y.ch = user[u].ch /\ y.pc = "confirm" /\ y.seq = m /\ y.tag = n
      BY <2>1, <2>2 DEF UserStates, Pcs
    <2> QED
      BY <2>3 DEF m, n
  <1>a. user' = [user EXCEPT ![u] = z]
    BY <1>2
  <1> HIDE DEF z
  <1>6. user'[u] = z /\ \A v \in Users \ {u} : user'[v] = user[v]
    BY <1>1, <1>a DEF PoolTypeOK
  <1>7. PoolTypeOK'
    <2>1. user' \in [Users -> UserStates]
      BY <1>1, <1>5, <1>a DEF PoolTypeOK
    <2>2. next' \in [Channels -> Nat] /\ sent' \in [Channels -> Nat]
      BY <1>1, <1>2, <1>3 DEF PoolTypeOK
    <2>3. unconf' \subseteq Channels \X Nat
      BY <1>1, <1>2, <1>3 DEF PoolTypeOK
    <2> QED
      BY <1>1, <1>2, <2>1, <2>2, <2>3 DEF PoolTypeOK
  <1>8. \A v \in Users : user'[v].ch = user[v].ch
    BY <1>5, <1>6
  <1>9. HoldInv' /\ ExclusiveHolders'
    BY <1>1, <1>2, <1>5, <1>6, <1>8 DEF PoolInv, HoldInv, ExclusiveHolders, Holding
  <1>10. SlotsAccounted'
    BY <1>2, <1>8 DEF PoolInv, SlotsAccounted, Holders
  <1>11. SeqInv'
    <2>1. SUFFICES ASSUME stops' = 0
                   PROVE  /\ \A d \in (avail \cup Held)' : chan'[d] => SeqNo(d)' = sent'[d] + 1
                          /\ \A v \in Users : user'[v].pc \in {"confirm", "ok"} => user'[v].seq = user'[v].tag
      BY DEF SeqInv
    <2>2. SeqInv /\ stops = 0 /\ Held' = Held /\ Held \subseteq Channels /\ avail \subseteq Channels
      BY <1>1, <1>2, <1>8, <2>1 DEF PoolInv, Held, PoolTypeOK, UserStates
    <2>3. SeqNo(c) = sent[c] + 1
      BY <1>1, <2>2 DEF SeqInv
    <2>4. ASSUME NEW d \in (avail \cup Held)', chan'[d]
          PROVE  SeqNo(d)' = sent'[d] + 1
      <3>1. CASE d = c
        <4>1. next'[c] = SeqNo(c) + 1 /\ sent'[c] = sent[c] + 1
          BY <1>1, <1>2 DEF PoolTypeOK
        <4> QED
          BY <1>3, <2>3, <3>1, <4>1 DEF SeqNo
      <3>2. CASE d # c
        <4>1. next'[d] = next[d] /\ sent'[d] = sent[d]
          BY <1>1, <1>2, <2>2, <3>2 DEF PoolTypeOK
        <4> QED
          BY <1>2, <2>2, <2>4, <4>1 DEF SeqInv, SeqNo
      <3> QED
        BY <3>1, <3>2
    <2> QED
      BY <1>5, <1>6, <2>2, <2>3, <2>4 DEF SeqInv
  <1>12. ConfirmIsOwn'
    <2>1. SUFFICES ASSUME stops' = 0, NEW v \in Users, user'[v].pc = "ok"
                   PROVE  <<user'[v].ch, user'[v].tag>> \notin unconf'
      BY DEF ConfirmIsOwn
    <2>2. v # u /\ user'[v] = user[v]
      BY <1>5, <1>6, <2>1
    <2>3. user[v].ch # c
      BY <1>1, <2>2
    <2>4. <<user[v].ch, user[v].tag>> \notin unconf
      BY <1>2, <2>1, <2>2 DEF PoolInv, ConfirmIsOwn
    <2> QED
      BY <1>2, <2>2, <2>3, <2>4
  <1> QED
    BY <1>2, <1>7, <1>9, <1>10, <1>11, <1>12 DEF PoolInv

\* A confirmation reaches whoever registered its number, and that is the
\* publisher of the message.
LEMMA ConfirmKeeps ==
  ASSUME PoolInv, NEW c \in Channels, NEW t \in 1..MaxTags, BrokerConfirms(c, t)
  PROVE  PoolInv'
  <1> USE DEF pool, stopping
  <1>1. PoolTypeOK
    BY DEF PoolInv
  <1>2. ASSUME NEW r \in UserStates
        PROVE  LET z == [r EXCEPT !.pc = "ok"] IN
               /\ z \in UserStates /\ z.ch = r.ch /\ z.pc = "ok" /\ z.seq = r.seq /\ z.tag = r.tag
    BY DEF UserStates, Pcs
  <1>3. \A v \in Users : /\ user'[v] \in UserStates /\ user'[v].ch = user[v].ch
                         /\ user'[v].seq = user[v].seq /\ user'[v].tag = user[v].tag
                         /\ \/ user'[v].pc = user[v].pc
                            \/ WaitsFor(v, c, t) /\ user'[v].pc = "ok"
    BY <1>1, <1>2 DEF BrokerConfirms, PoolTypeOK
  <1>4. PoolTypeOK'
    BY <1>1, <1>3 DEF BrokerConfirms, PoolTypeOK
  <1>5. HoldInv' /\ ExclusiveHolders'
    BY <1>3 DEF PoolInv, HoldInv, ExclusiveHolders, Holding, BrokerConfirms, WaitsFor
  <1>6. SlotsAccounted'
    BY <1>3 DEF PoolInv, SlotsAccounted, Holders, BrokerConfirms
  <1>7. SeqInv'
    <2>1. Held' = Held
      BY <1>3 DEF Held
    <2>2. stops = 0 => \A v \in Users : user'[v].pc \in {"confirm", "ok"} => user'[v].seq = user'[v].tag
      BY <1>3 DEF PoolInv, SeqInv, WaitsFor
    <2> QED
      BY <2>1, <2>2 DEF PoolInv, SeqInv, SeqNo, BrokerConfirms
  <1>8. ConfirmIsOwn'
    <2>1. SUFFICES ASSUME stops' = 0, NEW v \in Users, user'[v].pc = "ok"
                   PROVE  <<user'[v].ch, user'[v].tag>> \notin unconf'
      BY DEF ConfirmIsOwn
    <2>2. CASE user[v].pc = "ok"
      BY <1>3, <2>1, <2>2 DEF PoolInv, ConfirmIsOwn, BrokerConfirms
    <2>3. CASE WaitsFor(v, c, t)
      <3>1. user[v].ch = c /\ user[v].tag = t
        BY <2>1, <2>3 DEF WaitsFor, PoolInv, SeqInv, BrokerConfirms
      <3> QED
        BY <1>3, <3>1 DEF BrokerConfirms
    <2> QED
      BY <1>3, <2>1, <2>2, <2>3
  <1> QED
    BY <1>4, <1>5, <1>6, <1>7, <1>8 DEF PoolInv, BrokerConfirms

\* The connection is lost, or the broker closes a channel: what a goroutine has
\* and what the pool holds stay what they were.
LEMMA CloseKeeps ==
  ASSUME PoolInv, ConnectionLost \/ \E c \in Channels : ChannelClosed(c)
  PROVE  PoolInv'
  <1> USE DEF stopping
  <1>1. /\ UNCHANGED <<avail, created, user, next, stop, stops, leaked>>
        /\ unconf' \subseteq unconf /\ conn' \in {conn, FALSE} /\ faults' = faults + 1
    BY DEF ConnectionLost, ChannelClosed, Fault
  <1>2. /\ chan' \in [Channels -> BOOLEAN] /\ sent' \in [Channels -> Nat]
        /\ \A d \in Channels : chan'[d] => chan[d] /\ sent'[d] = sent[d]
    <2>1. CASE ConnectionLost
      BY <2>1 DEF ConnectionLost
    <2>2. ASSUME NEW c \in Channels, ChannelClosed(c)
          PROVE  /\ chan' \in [Channels -> BOOLEAN] /\ sent' \in [Channels -> Nat]
                 /\ \A d \in Channels : chan'[d] => chan[d] /\ sent'[d] = sent[d]
      BY <2>2 DEF ChannelClosed, PoolInv, PoolTypeOK
    <2> QED
      BY <2>1, <2>2
  <1>3. PoolTypeOK'
    <2>1. PoolTypeOK
      BY DEF PoolInv
    <2>2. conn' \in BOOLEAN /\ unconf' \subseteq Channels \X Nat /\ faults' \in Nat
      <3>1. conn' \in BOOLEAN
        BY <1>1, <2>1, Zenon DEF PoolTypeOK
      <3>2. unconf' \subseteq Channels \X Nat
        BY <1>1, <2>1 DEF PoolTypeOK
      <3>3. faults' \in Nat
        BY <1>1, <2>1 DEF PoolTypeOK
      <3> QED
        BY <3>1, <3>2, <3>3
    <2> QED
      BY <1>1, <1>2, <2>1, <2>2 DEF PoolTypeOK
  <1>4. HoldInv' /\ ExclusiveHolders' /\ SlotsAccounted'
    BY <1>1 DEF PoolInv, HoldInv, ExclusiveHolders, SlotsAccounted, Holders
  <1>5. SeqInv'
    <2>1. Held' = Held /\ avail \cup Held \subseteq Channels
      BY <1>1 DEF Held, PoolInv, PoolTypeOK, UserStates
    <2> QED
      BY <1>1, <1>2, <2>1 DEF PoolInv, SeqInv, SeqNo
  <1>6. ConfirmIsOwn'
    BY <1>1 DEF PoolInv, ConfirmIsOwn
  <1> QED
    BY <1>1, <1>3, <1>4, <1>5, <1>6 DEF PoolInv

\* Stop clears the publishers: the claims about confirmations end here.
LEMMA ClearKeeps ==
  ASSUME PoolInv, ClearAllPublishers
  PROVE  PoolInv'
  <1> USE DEF pool
  <1>1. stops' > 0 /\ stops' \in Nat
    BY DEF ClearAllPublishers, PoolInv, PoolTypeOK
  <1>2. ASSUME NEW r \in UserStates
        PROVE  LET z == [r EXCEPT !.pc = "failed"] IN
               z \in UserStates /\ z.ch = r.ch /\ z.pc = "failed"
    BY DEF UserStates, Pcs
  <1>3. \A v \in Users : /\ user'[v] \in UserStates /\ user'[v].ch = user[v].ch
                         /\ \/ user'[v].pc = user[v].pc
                            \/ user[v].pc = "confirm" /\ user'[v].pc = "failed"
    <2>1. SUFFICES ASSUME NEW v \in Users
                   PROVE  /\ user'[v] \in UserStates /\ user'[v].ch = user[v].ch
                          /\ \/ user'[v].pc = user[v].pc
                             \/ user[v].pc = "confirm" /\ user'[v].pc = "failed"
      OBVIOUS
    <2>2. user[v] \in UserStates
      BY DEF PoolInv, PoolTypeOK
    <2>3. \/ user'[v] = user[v]
          \/ user[v].pc = "confirm" /\ user'[v] = [user[v] EXCEPT !.pc = "failed"]
      BY DEF ClearAllPublishers
    <2> QED
      BY <1>2, <2>2, <2>3
  <1>4. PoolTypeOK'
    BY <1>1, <1>3 DEF ClearAllPublishers, PoolInv, PoolTypeOK
  <1>5. HoldInv' /\ ExclusiveHolders'
    BY <1>3 DEF PoolInv, HoldInv, ExclusiveHolders, Holding, ClearAllPublishers
  <1>6. SlotsAccounted'
    BY <1>3 DEF PoolInv, SlotsAccounted, Holders, ClearAllPublishers
  <1> QED
    BY <1>1, <1>4, <1>5, <1>6 DEF PoolInv, SeqInv, ConfirmIsOwn

\* Stop drains the pool: the slots of the pooled channels, and no others, are
\* freed.
LEMMA DrainKeeps ==
  ASSUME PoolInv, DrainPool
  PROVE  PoolInv'
  <1>1. PoolTypeOK /\ SlotsAccounted /\ stops > 0
    BY DEF PoolInv, DrainPool
  <1>2. Cardinality(avail) \in Nat /\ Cardinality(Holders) \in Nat
    BY <1>1, FiniteParts
  <1>3. Holders' = Holders /\ Cardinality(avail') = 0
    BY FS_EmptySet DEF Holders, DrainPool
  <1>4. SlotsAccounted' /\ created' \in Nat
    BY <1>1, <1>2, <1>3 DEF SlotsAccounted, DrainPool, PoolTypeOK
  <1>5. PoolTypeOK'
    BY <1>1, <1>4 DEF DrainPool, PoolTypeOK
  <1>6. HoldInv' /\ ExclusiveHolders'
    BY DEF PoolInv, HoldInv, ExclusiveHolders, DrainPool
  <1>7. stops' > 0 /\ stops' # 0 /\ stop' = "no"
    BY <1>1 DEF DrainPool, PoolTypeOK
  <1> QED
    BY <1>4, <1>5, <1>6, <1>7 DEF PoolInv, SeqInv, ConfirmIsOwn

\* PoolInit, and a process that starts again.
Started ==
  /\ conn = TRUE /\ chan = [c \in Channels |-> c = 1] /\ avail = {1} /\ created = 1
  /\ user = [u \in Users |-> IdleUser] /\ next = [c \in Channels |-> 0]
  /\ sent = [c \in Channels |-> 0] /\ unconf = {} /\ stop = "no" /\ leaked = 0
  /\ stops \in Nat /\ faults \in Nat

\* The invariant holds in both.
LEMMA StartedKeeps ==
  /\ PoolInit => PoolInv
  /\ PoolInv /\ PoolRestart => PoolInv'
  <1>1. Started => PoolInv
    BY FreshPool DEF Started
  <1>2. (Started => PoolInv)'
    BY <1>1, PTL
  <1>3. PoolInit => Started
    BY DEF PoolInit, Started
  <1>4. PoolInv /\ PoolRestart => Started'
    BY DEF PoolRestart, Started, PoolInv, PoolTypeOK
  <1> QED
    BY <1>1, <1>2, <1>3, <1>4

\* A goroutine asks for a channel.
LEMMA BeginKeeps ==
  ASSUME PoolInv, NEW u \in Users, NEW kind \in Kinds, Begin(u, kind)
  PROVE  PoolInv'
  <1> USE DEF pool, conf, stopping
  <1>1. PoolTypeOK
    BY DEF PoolInv
  <1> DEFINE s == [IdleUser EXCEPT !.pc = "get", !.kind = kind]
  <1>2. IdleUser \in UserStates /\ IdleUser.ch = NoCh
    BY DEF IdleUser, UserStates, Pcs, Kinds, MaxTries
  <1>3. ASSUME NEW r \in UserStates
        PROVE  LET z == [r EXCEPT !.pc = "get", !.kind = kind] IN
               z \in UserStates /\ z.ch = r.ch /\ z.pc = "get"
    BY DEF UserStates, Pcs
  <1>4. s \in UserStates /\ s.ch = NoCh /\ s.pc = "get"
    BY <1>2, <1>3
  <1>5. user' = [user EXCEPT ![u] = s] /\ user[u].pc \notin Holding /\ user[u].ch = NoCh
    BY DEF Begin, PoolInv, HoldInv, Holding
  <1> HIDE DEF s
  <1> QED
    <2>1. /\ UNCHANGED <<conn, chan, avail, created, next, sent, unconf, stop, stops, leaked>>
          /\ faults' \in Nat
      BY <1>1 DEF Begin, PoolTypeOK
    <2>2. s.ch = user[u].ch /\ s.pc \notin Holding /\ s.pc \notin {"confirm", "ok"}
      BY <1>4, <1>5 DEF Holding
    <2> QED
      BY <1>4, <1>5, <2>1, <2>2, UserGoesOn

\* Every step of the pool preserves its invariant.
LEMMA PoolInvStep ==
  ASSUME PoolInv, [PoolOrPanic]_poolVars
  PROVE  PoolInv'
  <1> USE DEF pool, conf, stopping
  <1>1. PoolTypeOK
    BY DEF PoolInv
  <1>2. ASSUME NEW u \in Users PROVE user[u] \in UserStates
    BY <1>1 DEF PoolTypeOK
  <1>3. ASSUME NEW u \in Users, NEW kind \in Kinds, Begin(u, kind) PROVE PoolInv'
    BY <1>3, BeginKeeps
  <1>4. ASSUME NEW u \in Users, SleepForReconnect(u) PROVE PoolInv'
    <2> DEFINE s == [user[u] EXCEPT !.pc = "sleep"]
    <2>1. s \in UserStates /\ s.ch = user[u].ch /\ s.pc = "sleep"
      BY <1>2 DEF UserStates, Pcs
    <2>2. user' = [user EXCEPT ![u] = s] /\ user[u].pc \notin Holding
      BY <1>4 DEF SleepForReconnect, Holding
    <2> HIDE DEF s
    <2> QED
      BY <1>1, <1>4, <2>1, <2>2, UserGoesOn DEF SleepForReconnect, PoolTypeOK, Holding
  <1>5. ASSUME NEW u \in Users, ConfirmTimeout(u) \/ PublishFails(u) PROVE PoolInv'
    <2> DEFINE s == [user[u] EXCEPT !.pc = "failed"]
    <2>1. s \in UserStates /\ s.ch = user[u].ch /\ s.pc = "failed"
      BY <1>2 DEF UserStates, Pcs
    <2>2. user' = [user EXCEPT ![u] = s] /\ user[u].pc \in Holding
      BY <1>5 DEF ConfirmTimeout, PublishFails, Publishing, Holding
    <2>3. UNCHANGED <<conn, chan, avail, created, next, sent, unconf, stop, stops, leaked, faults>>
      BY <1>5 DEF ConfirmTimeout, PublishFails
    <2> HIDE DEF s
    <2> QED
      BY <1>1, <2>1, <2>2, <2>3, UserGoesOn DEF PoolTypeOK, Holding
  <1>6. ASSUME NEW u \in Users, NoChannelMade(u) \/ CreateFails(u) PROVE PoolInv'
    <2>1. TryAgain(u) \in UserStates /\ TryAgain(u).ch = NoCh /\ TryAgain(u).pc \in {"idle", "get"}
      BY <1>1, TryAgainState
    <2>2. /\ user' = [user EXCEPT ![u] = TryAgain(u)] /\ user[u].pc \notin Holding
          /\ user[u].ch = NoCh
      BY <1>6 DEF NoChannelMade, CreateFails, Holding, PoolInv, HoldInv
    <2>3. /\ UNCHANGED <<conn, chan, avail, created, next, sent, unconf, stop, stops, leaked>>
          /\ faults' \in Nat
      BY <1>1, <1>6 DEF NoChannelMade, CreateFails, Fault, PoolTypeOK
    <2> QED
      BY <2>1, <2>2, <2>3, UserGoesOn DEF Holding
  <1>7. ASSUME NEW u \in Users, ReturnChannel(u) \/ PublishRefused(u) PROVE PoolInv'
    <2>1. IdleUser \in UserStates /\ IdleUser.ch = NoCh /\ IdleUser.pc = "idle"
      BY DEF IdleUser, UserStates, Pcs, Kinds, MaxTries
    <2>2. /\ user' = [user EXCEPT ![u] = IdleUser] /\ user[u].pc \in Holding /\ GiveBack(user[u].ch)
          /\ UNCHANGED <<conn, sent, unconf, stop, stops>> /\ faults' \in Nat
      BY <1>1, <1>7 DEF ReturnChannel, PublishRefused, Fault, PoolTypeOK, Holding
    <2> QED
      BY <2>1, <2>2, ChannelLeaves DEF Holding
  <1>8. ASSUME NEW u \in Users, AfterRetryable(u) PROVE PoolInv'
    <2>1. TryAgain(u) \in UserStates /\ TryAgain(u).ch = NoCh /\ TryAgain(u).pc \in {"idle", "get"}
      BY <1>1, TryAgainState
    <2>2. /\ user' = [user EXCEPT ![u] = TryAgain(u)] /\ user[u].pc \in Holding
          /\ UNCHANGED <<conn, sent, unconf, stop, stops>> /\ faults' \in Nat
      BY <1>1, <1>8 DEF AfterRetryable, PoolTypeOK, Holding
    <2>3. \/ GiveBack(user[u].ch)
          \/ /\ next' = [next EXCEPT ![user[u].ch] = 0] /\ leaked' = leaked + 1
             /\ UNCHANGED <<chan, avail, created>>
      BY <1>8 DEF AfterRetryable
    <2> QED
      BY <2>1, <2>2, <2>3, ChannelLeaves DEF Holding
  <1>9. CASE Reconnect
    BY <1>1, <1>9 DEF Reconnect, PoolInv, PoolTypeOK, HoldInv, ExclusiveHolders, SlotsAccounted,
                      Holders, SeqInv, Held, SeqNo, ConfirmIsOwn
  <1>10. CASE UNCHANGED poolVars
    BY <1>1, <1>10 DEF poolVars, PoolInv, PoolTypeOK, HoldInv, ExclusiveHolders, SlotsAccounted,
                       Holders, SeqInv, Held, SeqNo, ConfirmIsOwn
  <1>11. ASSUME NEW u \in Users, GetChannel(u) PROVE PoolInv'
    BY <1>4, <1>6, <1>11, PooledKeeps, DiscardKeeps, CreateKeeps DEF GetChannel
  <1>12. ASSUME NEW u \in Users, Start(u) \/ PublishStep(u) PROVE PoolInv'
    BY <1>3, <1>5, <1>7, <1>8, <1>12, PublishKeeps DEF Start, PublishStep
  <1>13. CASE PoolFailure
    BY <1>6, <1>7, <1>13, CloseKeeps DEF PoolFailure
  <1>14. CASE \E c \in Channels, t \in 1..MaxTags : BrokerConfirms(c, t)
    BY <1>14, ConfirmKeeps
  <1>15. CASE ClearAllPublishers \/ DrainPool
    BY <1>15, ClearKeeps, DrainKeeps
  <1>16. ASSUME NEW u \in Users, Exhausted(u) PROVE PoolInv'
    BY <1>16, StartedKeeps DEF Exhausted
  <1>17. Publishers \subseteq Users
    BY DEF Users
  <1> QED
    BY <1>9, <1>10, <1>11, <1>12, <1>13, <1>14, <1>15, <1>16, <1>17 DEF PoolOrPanic, PoolNext

\* The inductive invariant of the channel pool.
THEOREM PoolInvariant == PoolSpec => []PoolInv
  <1>1. PoolInv /\ [PoolOrPanic]_poolVars => PoolInv'
    BY PoolInvStep
  <1> QED
    BY <1>1, StartedKeeps, PTL DEF PoolSpec

\* What GetChannel hands out is exclusive: neither in the pool nor with anybody
\* else, however returns, discards, drains and reconnections interleave.
THEOREM HoldersAreExclusive == PoolSpec => []ExclusiveHolders
  BY PoolInvariant, PTL DEF PoolInv

\* The count of ReturnChannel, GetChannel and DrainPool is exact up to the
\* channels PublishWithHeaders drops, so GetChannel panics only when the
\* capacity is in hand or leaked.
THEOREM SlotsAreAccounted == PoolSpec => []SlotsAccounted
  BY PoolInvariant, PTL DEF PoolInv

\* Until a Stop clears the publishers, PublishWithConfirm reports success only
\* for a message the broker has confirmed itself.
THEOREM ConfirmsAreOwn == PoolSpec => []ConfirmIsOwn
  BY PoolInvariant, PTL DEF PoolInv

=============================================================================

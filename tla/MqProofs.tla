------------------------------ MODULE MqProofs ------------------------------
(* The consumer loops on top of the channel pool, for any number of          *)
(* consumers, reading loops, messages and faults: they keep the promises of  *)
(* the pool, never exhaust it, and lose no message but by RepublishNack.     *)
EXTENDS MqProperties, PoolProofs

\* A consumer loop that has a channel, or will get one whatever the pool says.
Busy == {u \in Consumers : user[u].pc \in {"sleep", "use", "wait"}}

\* The channels in the pool are left over from consumers that are not busy.
RoomInv ==
  /\ \A u \in Consumers : user[u].pc \in {"idle", "get", "sleep", "use", "wait"}
  /\ leaked = 0
  /\ Cardinality(avail) + Cardinality(Busy) <= Cardinality(Consumers)

\* GetChannel's panic is out of reach.
NeverExhausted ==
  \A u \in Users : user[u].pc = "get" /\ avail = {} => created < MaxChannels

\* A reading loop has an open channel or knows that it has none, and a callback
\* has a message.
DeliveryInv ==
  /\ reader \in [Readers -> ReaderStates] /\ msg \in [Messages -> MsgStates]
  /\ \A r \in Readers : /\ reader[r].ch # NoCh => chan[reader[r].ch]
                        /\ reader[r].pc = "callback" => reader[r].buf # NoMsg
  /\ \A m \in Messages : msg[m].st = "unacked" => msg[m].by # NoCh
  /\ NoMessageLost

\* The inductive invariant of the consumers.
MqInv == PoolInv /\ RoomInv /\ DeliveryInv

-----------------------------------------------------------------------------
(* The pool and its consumers.                                             *)

\* The consumers are all the users, and they are finitely many.
LEMMA OnlyConsumers == /\ Users = Consumers /\ Publishers = {} /\ IsFiniteSet(Consumers)
                       /\ Cardinality(Consumers) \in Nat /\ Cardinality(Consumers) <= MaxChannels
  <1>1. Users = Consumers /\ IsFiniteSet(Consumers)
    BY ConsumerAssumption, PoolAssumption DEF Users
  <1> QED
    BY <1>1, ConsumerAssumption, FS_CardinalityType

\* When one consumer moves, the number of the busy ones changes by it.
LEMMA BusyMoves ==
  ASSUME NEW u \in Consumers, \A v \in Consumers \ {u} : user'[v].pc = user[v].pc
  PROVE  /\ Cardinality(Busy) \in Nat /\ Cardinality(Busy') \in Nat
         /\ u \in Busy' /\ u \notin Busy => Cardinality(Busy') = Cardinality(Busy) + 1
         /\ u \notin Busy' /\ u \in Busy => Cardinality(Busy') = Cardinality(Busy) - 1
         /\ (u \in Busy' <=> u \in Busy) => Cardinality(Busy') = Cardinality(Busy)
         /\ u \notin Busy => Cardinality(Busy) < Cardinality(Consumers)
  <1>1. Busy \subseteq Consumers /\ Busy' \subseteq Consumers
    BY DEF Busy
  <1>2. IsFiniteSet(Busy) /\ IsFiniteSet(Busy')
    BY <1>1, OnlyConsumers, FS_Subset
  <1>3. Cardinality(Busy) \in Nat /\ Cardinality(Busy') \in Nat
    BY <1>2, FS_CardinalityType
  <1>4. \A v \in Consumers \ {u} : v \in Busy' <=> v \in Busy
    BY DEF Busy
  <1>5. ASSUME u \in Busy', u \notin Busy PROVE Cardinality(Busy') = Cardinality(Busy) + 1
    <2>1. Busy' = Busy \cup {u}
      BY <1>1, <1>4, <1>5
    <2> QED
      BY <1>2, <1>5, <2>1, FS_AddElement
  <1>6. ASSUME u \notin Busy', u \in Busy PROVE Cardinality(Busy') = Cardinality(Busy) - 1
    <2>1. Busy' = Busy \ {u}
      BY <1>1, <1>4, <1>6
    <2> QED
      BY <1>2, <1>6, <2>1, FS_RemoveElement
  <1>7. ASSUME u \in Busy' <=> u \in Busy PROVE Busy' = Busy
    <2>1. \A v \in Consumers : v \in Busy' <=> v \in Busy
      BY <1>4, <1>7
    <2> QED
      BY <1>1, <2>1
  <1>8. ASSUME u \notin Busy PROVE Cardinality(Busy) < Cardinality(Consumers)
    <2>1. Busy \cup {u} \subseteq Consumers /\ IsFiniteSet(Busy \cup {u})
      BY <1>1, <1>2, FS_AddElement
    <2>2. Cardinality(Busy \cup {u}) = Cardinality(Busy) + 1
      BY <1>2, <1>8, FS_AddElement
    <2>3. Cardinality(Busy \cup {u}) <= Cardinality(Consumers)
      BY <2>1, OnlyConsumers, FS_Subset
    <2> QED
      BY <1>3, <2>2, <2>3, OnlyConsumers
  <1> QED
    BY <1>3, <1>5, <1>6, <1>7, <1>8

\* With room for every consumer, the pool never gets full or exhausted.
LEMMA RoomSuffices ==
  ASSUME PoolInv, RoomInv
  PROVE  /\ NeverExhausted
         /\ \A u \in Consumers : user[u].pc \in Holding => Cardinality(avail) < MaxChannels
  <1>1. /\ Cardinality(avail) \in Nat /\ Cardinality(Holders) \in Nat /\ IsFiniteSet(Holders)
        /\ PoolTypeOK
    BY FiniteParts DEF PoolInv
  <1>2. /\ Busy \subseteq Consumers /\ IsFiniteSet(Busy) /\ Cardinality(Busy) \in Nat
    BY OnlyConsumers, FS_Subset, FS_CardinalityType DEF Busy
  <1>3. \A u \in Consumers : u \in Holders => u \in Busy
    BY OnlyConsumers DEF Holders, Busy, PoolInv, HoldInv, RoomInv, Holding
  <1>4. Holders \subseteq Busy
    BY <1>3, OnlyConsumers DEF Holders
  <1>5. Cardinality(Holders) <= Cardinality(Busy)
    BY <1>2, <1>4, FS_Subset
  <1>6. created = Cardinality(avail) + Cardinality(Holders)
    BY <1>1 DEF PoolInv, SlotsAccounted, RoomInv
  <1>7. ASSUME NEW u \in Users, user[u].pc = "get", avail = {} PROVE created < MaxChannels
    <2>1. u \in Consumers /\ u \notin Busy
      BY <1>7, OnlyConsumers DEF Busy
    <2>2. Busy \cup {u} \subseteq Consumers /\ Cardinality(Busy \cup {u}) = Cardinality(Busy) + 1
      BY <1>2, <2>1, FS_AddElement
    <2>3. Cardinality(Busy \cup {u}) <= Cardinality(Consumers)
      BY <2>2, OnlyConsumers, FS_Subset
    <2>4. Cardinality(avail) = 0
      BY <1>7, FS_EmptySet
    <2>5. MaxChannels \in Nat
      BY PoolAssumption
    <2> QED
      BY <1>1, <1>2, <1>5, <1>6, <2>2, <2>3, <2>4, <2>5, OnlyConsumers
  <1>8. ASSUME NEW u \in Consumers, user[u].pc \in Holding PROVE Cardinality(avail) < MaxChannels
    <2>1. u \in Busy
      BY <1>8 DEF Busy, Holding, RoomInv
    <2>2. Cardinality(Busy) # 0
      BY <1>2, <2>1, FS_EmptySet
    <2>3. MaxChannels \in Nat
      BY PoolAssumption
    <2> QED
      BY <1>1, <1>2, <2>2, <2>3, OnlyConsumers DEF RoomInv
  <1> QED
    BY <1>7, <1>8 DEF NeverExhausted

\* The pool is finite before and after a step.
LEMMA FinitePool ==
  /\ PoolTypeOK => IsFiniteSet(avail) /\ Cardinality(avail) \in Nat
  /\ PoolTypeOK' => IsFiniteSet(avail') /\ Cardinality(avail') \in Nat
  <1>1. IsFiniteSet(Channels)
    BY PoolAssumption, FS_Interval DEF Channels
  <1>2. \A S \in SUBSET Channels : IsFiniteSet(S) /\ Cardinality(S) \in Nat
    BY <1>1, FS_Subset, FS_CardinalityType
  <1> QED
    BY <1>2 DEF PoolTypeOK

\* A step of one consumer that takes its channel from the pool, makes one when
\* the pool is empty, or gives one back.
LEMMA RoomMoves ==
  ASSUME RoomInv, PoolTypeOK, PoolTypeOK', NEW u \in Consumers,
         \A v \in Consumers \ {u} : user'[v].pc = user[v].pc,
         user'[u].pc \in {"idle", "get", "sleep", "use", "wait"}, leaked' = leaked,
         \/ u \in Busy /\ Cardinality(avail') <= Cardinality(avail)
         \/ u \notin Busy /\ avail = {} /\ avail' = {}
         \/ u \notin Busy /\ Cardinality(avail') <= Cardinality(avail) - 1
         \/ u \notin Busy /\ u \notin Busy' /\ Cardinality(avail') <= Cardinality(avail)
         \/ u \in Busy /\ u \notin Busy' /\ Cardinality(avail') <= Cardinality(avail) + 1
  PROVE  RoomInv'
  <1>1. /\ Cardinality(avail) \in Nat /\ Cardinality(avail') \in Nat
        /\ Cardinality(Consumers) \in Nat
    BY OnlyConsumers, FinitePool
  <1>2. /\ Cardinality(Busy) \in Nat /\ Cardinality(Busy') \in Nat
        /\ u \in Busy' /\ u \notin Busy => Cardinality(Busy') = Cardinality(Busy) + 1
        /\ u \notin Busy' /\ u \in Busy => Cardinality(Busy') = Cardinality(Busy) - 1
        /\ (u \in Busy' <=> u \in Busy) => Cardinality(Busy') = Cardinality(Busy)
        /\ u \notin Busy => Cardinality(Busy) < Cardinality(Consumers)
    BY BusyMoves
  <1>3. Cardinality(avail) + Cardinality(Busy) <= Cardinality(Consumers)
    BY DEF RoomInv
  <1>4. Cardinality(avail') + Cardinality(Busy') <= Cardinality(Consumers)
    <2>1. CASE u \in Busy /\ Cardinality(avail') <= Cardinality(avail)
      BY <1>1, <1>2, <1>3, <2>1
    <2>2. CASE u \notin Busy /\ avail = {} /\ avail' = {}
      <3>1. Cardinality(avail') = 0
        BY <2>2, FS_EmptySet
      <3> QED
        BY <1>1, <1>2, <2>2, <3>1
    <2>3. CASE u \notin Busy /\ Cardinality(avail') <= Cardinality(avail) - 1
      BY <1>1, <1>2, <1>3, <2>3
    <2>4. CASE u \notin Busy /\ u \notin Busy' /\ Cardinality(avail') <= Cardinality(avail)
      BY <1>1, <1>2, <1>3, <2>4
    <2>5. CASE u \in Busy /\ u \notin Busy' /\ Cardinality(avail') <= Cardinality(avail) + 1
      BY <1>1, <1>2, <1>3, <2>5
    <2> QED
      BY <2>1, <2>2, <2>3, <2>4, <2>5
  <1> QED
    BY <1>4 DEF RoomInv

\* No consumer moves, and the pool does not grow.
LEMMA RoomRests ==
  ASSUME RoomInv, PoolTypeOK, PoolTypeOK', leaked' = leaked,
         \A v \in Consumers : user'[v].pc = user[v].pc, avail' \subseteq avail
  PROVE  RoomInv'
  <1>1. Busy' = Busy
    BY DEF Busy
  <1>2. /\ IsFiniteSet(avail) /\ Cardinality(avail) \in Nat /\ Cardinality(avail') \in Nat
        /\ IsFiniteSet(Busy)
    BY OnlyConsumers, FinitePool, FS_Subset DEF Busy
  <1>3. Cardinality(avail') <= Cardinality(avail) /\ Cardinality(Busy) \in Nat
    BY <1>2, FS_Subset, FS_CardinalityType
  <1> QED
    BY <1>1, <1>2, <1>3, OnlyConsumers DEF RoomInv

\* The pool's own steps leave room: whoever gets a channel takes one from the
\* pool or finds the pool empty.
LEMMA PoolLeavesRoom ==
  ASSUME PoolInv, RoomInv, PoolNext, PoolInv'
  PROVE  RoomInv'
  <1> USE DEF pool, conf, stopping
  <1>1. /\ PoolTypeOK /\ PoolTypeOK' /\ Users = Consumers /\ Publishers = {}
        /\ user \in [Consumers -> UserStates] /\ IsFiniteSet(avail)
        /\ Cardinality(avail) \in Nat
    BY OnlyConsumers, FiniteParts DEF PoolInv, PoolTypeOK
  <1>2. \A v \in Consumers : user[v].pc \in {"idle", "get", "sleep", "use", "wait"}
    BY DEF RoomInv
  <1>3. ASSUME NEW u \in Consumers, NEW c \in Channels, TakePooled(u, c) PROVE RoomInv'
    <2>1. /\ user[u].pc = "get" /\ c \in avail /\ avail' = avail \ {c} /\ leaked' = leaked
          /\ user' = [user EXCEPT ![u].pc = "use", ![u].ch = c]
      BY <1>3 DEF TakePooled
    <2>2. user'[u].pc = "use" /\ \A v \in Consumers \ {u} : user'[v].pc = user[v].pc
      BY <1>1, <2>1 DEF UserStates
    <2>3. Cardinality(avail') = Cardinality(avail) - 1 /\ u \notin Busy
      BY <1>1, <2>1, FS_RemoveElement DEF Busy
    <2>4. Cardinality(avail') <= Cardinality(avail) - 1
      BY <1>1, <2>3
    <2> QED
      BY <1>1, <2>1, <2>2, <2>3, <2>4, RoomMoves
  <1>4. ASSUME NEW u \in Consumers, NEW c \in Channels, DiscardClosed(u, c) PROVE RoomInv'
    BY <1>1, <1>4, RoomRests DEF DiscardClosed
  <1>5. ASSUME NEW u \in Consumers, NEW c \in Channels, CreateChannel(u, c) PROVE RoomInv'
    <2>1. /\ avail' = avail /\ leaked' = leaked
          /\ (user[u].pc = "get" /\ avail = {}) \/ user[u].pc = "sleep"
          /\ user' = [user EXCEPT ![u].pc = "use", ![u].ch = c]
      BY <1>5 DEF CreateChannel
    <2>2. user'[u].pc = "use" /\ \A v \in Consumers \ {u} : user'[v].pc = user[v].pc
      BY <1>1, <2>1 DEF UserStates
    <2>3. (u \in Busy /\ Cardinality(avail') <= Cardinality(avail)) \/ (u \notin Busy /\ avail = {} /\ avail' = {})
      BY <1>1, <2>1 DEF Busy
    <2> QED
      BY <1>1, <2>1, <2>2, <2>3, RoomMoves
  <1>6. ASSUME NEW u \in Consumers, SleepForReconnect(u) PROVE RoomInv'
    <2>1. /\ user[u].pc = "get" /\ avail = {} /\ avail' = {} /\ leaked' = leaked
          /\ user' = [user EXCEPT ![u].pc = "sleep"]
      BY <1>6 DEF SleepForReconnect
    <2>2. user'[u].pc = "sleep" /\ \A v \in Consumers \ {u} : user'[v].pc = user[v].pc
      BY <1>1, <2>1 DEF UserStates
    <2>3. u \notin Busy
      BY <2>1 DEF Busy
    <2> QED
      BY <1>1, <2>1, <2>2, <2>3, RoomMoves
  <1>7. ASSUME NEW u \in Consumers, NoChannelMade(u) \/ CreateFails(u) PROVE RoomInv'
    <2>1. /\ user[u].pc \in {"get", "sleep"} /\ avail' = avail /\ leaked' = leaked
          /\ user' = [user EXCEPT ![u] = TryAgain(u)]
      BY <1>7 DEF NoChannelMade, CreateFails
    <2>2. TryAgain(u).pc \in {"idle", "get"}
      BY <1>1, TryAgainState
    <2>3. user'[u].pc \in {"idle", "get"} /\ \A v \in Consumers \ {u} : user'[v].pc = user[v].pc
      BY <1>1, <2>1, <2>2
    <2>4. u \notin Busy' /\ Cardinality(avail') <= Cardinality(avail)
      BY <1>1, <2>1, <2>3 DEF Busy
    <2> QED
      BY <1>1, <2>1, <2>3, <2>4, RoomMoves
  <1>8. CASE \E c \in Channels, t \in 1..MaxTags : BrokerConfirms(c, t)
    <2>1. \A v \in Consumers : user'[v].pc = user[v].pc
      BY <1>1, <1>2, <1>8 DEF BrokerConfirms, WaitsFor
    <2> QED
      BY <1>1, <1>8, <2>1, RoomRests DEF BrokerConfirms
  <1>9. CASE ClearAllPublishers
    <2>1. \A v \in Consumers : user'[v].pc = user[v].pc
      BY <1>1, <1>2, <1>9 DEF ClearAllPublishers
    <2> QED
      BY <1>1, <1>9, <2>1, RoomRests DEF ClearAllPublishers
  <1>10. CASE Reconnect \/ DrainPool \/ ConnectionLost \/ \E c \in Channels : ChannelClosed(c)
    BY <1>1, <1>10, RoomRests DEF Reconnect, DrainPool, ConnectionLost, ChannelClosed
  <1>11. ASSUME NEW u \in Consumers, PublishRefused(u) PROVE FALSE
    BY <1>2, <1>11 DEF PublishRefused
  <1> QED
    BY <1>1, <1>3, <1>4, <1>5, <1>6, <1>7, <1>8, <1>9, <1>10, <1>11
       DEF PoolNext, PoolFailure, GetChannel

\* The outer loop asks for a channel, works with it, and gives it back: it
\* keeps the pool's invariant, leaves room, and closes no channel.
LEMMA OuterKeepsPool ==
  ASSUME PoolInv, RoomInv, NEW u \in Consumers,
         \/ Loop(u) \/ LoopTakesSignal(u) \/ \E r \in Readers : Consume(u, r)
         \/ ConsumeFails(u) \/ LoopEnds(u) \/ LoopStopsWaiting(u)
  PROVE  PoolInv' /\ RoomInv' /\ chan' = chan /\ faults' \in Nat /\ faults' >= faults
  <1> USE DEF pool, conf, stopping
  <1>1. /\ PoolTypeOK /\ u \in Users /\ Users = Consumers /\ user \in [Users -> UserStates]
        /\ user[u] \in UserStates /\ faults \in Nat /\ Cardinality(avail) \in Nat /\ IsFiniteSet(avail)
    BY OnlyConsumers, FinitePool DEF PoolInv, PoolTypeOK
  <1>2. IdleUser \in UserStates /\ IdleUser.pc = "idle" /\ IdleUser.ch = NoCh
    BY DEF IdleUser, UserStates, Pcs, Kinds, MaxTries
  <1>3. CASE Loop(u)
    <2>1. /\ Begin(u, "consume") /\ user[u].pc = "idle" /\ chan' = chan /\ avail' = avail
          /\ leaked' = leaked /\ faults' = faults /\ "consume" \in Kinds
      BY <1>3 DEF Loop, Begin, Kinds
    <2>2. PoolInv'
      BY <1>1, <2>1, BeginKeeps
    <2>3. \A v \in Consumers \ {u} : user'[v].pc = user[v].pc
      BY <1>1, <2>1 DEF Begin
    <2>4. user'[u].pc = "get"
      <3>1. [IdleUser EXCEPT !.pc = "get", !.kind = "consume"].pc = "get"
        BY DEF IdleUser
      <3> QED
        BY <1>1, <2>1, <3>1 DEF Begin
    <2>5. u \notin Busy /\ u \notin Busy'
      BY <2>1, <2>4 DEF Busy
    <2> QED
      BY <1>1, <2>1, <2>2, <2>3, <2>4, <2>5, RoomMoves DEF PoolInv
  <1>4. CASE LoopTakesSignal(u)
    <2>1. UNCHANGED poolVars
      BY <1>4 DEF LoopTakesSignal
    <2>2. PoolInv'
      BY <2>1, PoolInvStep
    <2> QED
      BY <1>1, <2>1, <2>2, RoomRests DEF poolVars, PoolInv
  <1>5. CASE \E r \in Readers : Consume(u, r)
    <2> DEFINE s == [user[u] EXCEPT !.pc = "wait"]
    <2>1. /\ user[u].pc = "use" /\ user' = [user EXCEPT ![u] = s]
          /\ UNCHANGED <<conn, chan, avail, created, next, sent, unconf, stop, stops, leaked, faults>>
      BY <1>5 DEF Consume
    <2>2. s \in UserStates /\ s.ch = user[u].ch /\ s.pc = "wait"
      BY <1>1 DEF UserStates, Pcs
    <2> HIDE DEF s
    <2>3. PoolInv'
      BY <1>1, <2>1, <2>2, UserGoesOn DEF Holding
    <2>4. user'[u].pc = "wait" /\ \A v \in Consumers \ {u} : user'[v].pc = user[v].pc
      BY <1>1, <2>1, <2>2
    <2>5. u \in Busy /\ Cardinality(avail') <= Cardinality(avail)
      BY <1>1, <2>1 DEF Busy
    <2> QED
      BY <1>1, <2>1, <2>3, <2>4, <2>5, RoomMoves DEF PoolInv
  <1>6. CASE ConsumeFails(u) \/ LoopEnds(u) \/ LoopStopsWaiting(u)
    <2>1. /\ user[u].pc \in {"use", "wait"} /\ user[u].pc \in Holding /\ GiveBack(user[u].ch)
          /\ user' = [user EXCEPT ![u] = IdleUser] /\ UNCHANGED <<conn, sent, unconf, stop, stops>>
          /\ faults' \in Nat /\ faults' >= faults
      BY <1>1, <1>6 DEF ConsumeFails, LoopEnds, LoopStopsWaiting, Again, Fault, Holding
    <2>2. PoolInv'
      BY <1>1, <1>2, <2>1, ChannelLeaves DEF Holding
    <2>3. Cardinality(avail) < MaxChannels
      BY <2>1, RoomSuffices
    <2>4. chan' = chan /\ leaked' = leaked /\ avail' \in {avail, avail \cup {user[u].ch}}
      BY <2>1, <2>3 DEF GiveBack
    <2>5. Cardinality(avail') <= Cardinality(avail) + 1
      <3>1. user[u].ch \notin avail
        BY <1>1, <2>1 DEF PoolInv, HoldInv, ExclusiveHolders
      <3>2. Cardinality(avail \cup {user[u].ch}) = Cardinality(avail) + 1
        BY <1>1, <3>1, FS_AddElement
      <3>3. Cardinality(avail') = Cardinality(avail) \/ Cardinality(avail') = Cardinality(avail) + 1
        BY <2>4, <3>2
      <3> QED
        BY <1>1, <3>3
    <2>6. user'[u].pc = "idle" /\ \A v \in Consumers \ {u} : user'[v].pc = user[v].pc
      BY <1>1, <1>2, <2>1
    <2>7. u \in Busy /\ u \notin Busy'
      BY <2>1, <2>6 DEF Busy
    <2> QED
      BY <1>1, <2>1, <2>2, <2>4, <2>5, <2>6, <2>7, RoomMoves DEF PoolInv
  <1> QED
    BY <1>3, <1>4, <1>5, <1>6

-----------------------------------------------------------------------------
(* The messages.                                                           *)

\* Neither the messages nor the reading loops move.
LEMMA DeliveryRests ==
  ASSUME DeliveryInv, UNCHANGED <<reader, msg, mode, chan>>, handled \subseteq handled',
         faults \in Nat, faults' \in Nat, faults' >= faults
  PROVE  DeliveryInv'
  BY DEF DeliveryInv, NoMessageLost

\* A reading loop moves; no message does.
LEMMA ReaderGoesOn ==
  ASSUME DeliveryInv, NEW r \in Readers, NEW s \in ReaderStates, reader' = [reader EXCEPT ![r] = s],
         s.ch # NoCh => chan[s.ch], s.pc = "callback" => s.buf # NoMsg,
         UNCHANGED <<msg, mode, chan>>, handled \subseteq handled',
         faults \in Nat, faults' \in Nat, faults' >= faults
  PROVE  DeliveryInv'
  <1>1. reader \in [Readers -> ReaderStates]
    BY DEF DeliveryInv
  <1>2. /\ reader' \in [Readers -> ReaderStates] /\ reader'[r] = s
        /\ \A q \in Readers \ {r} : reader'[q] = reader[q]
    BY <1>1
  <1>3. NoMessageLost'
    BY DEF DeliveryInv, NoMessageLost
  <1> QED
    BY <1>2, <1>3 DEF DeliveryInv

\* What may become of a message: ready with its retries, acknowledged after its
\* callback succeeded, dropped where the options say so, or lost in a fault.
Outcome(m, st, n) ==
  /\ st \in {"ready", "done", "dropped", "lost"} /\ n \in 0..MaxRetries
  /\ st = "done" => m \in handled'
  /\ st = "dropped" => (mode = "republish" => n = MaxRetries) /\ mode # "requeue"
  /\ st = "lost" => mode = "republish" /\ faults' > 0

\* A callback has ended or timed out: its message is settled, if the channel is
\* still there to do it with, and the reading loop goes on reading.
LEMMA SettleKeeps ==
  ASSUME DeliveryInv, NEW r \in Readers, InCallback(r), Reads(r), NEW st, NEW n,
         Settle(r, st, n), Outcome(reader[r].buf, st, n),
         UNCHANGED <<mode, chan>>, handled \subseteq handled',
         faults \in Nat, faults' \in Nat, faults' >= faults
  PROVE  DeliveryInv'
  <1> DEFINE m == reader[r].buf
             s == [reader[r] EXCEPT !.pc = "read", !.buf = NoMsg]
             z == [st |-> st, by |-> NoCh, retries |-> n]
  <1>1. /\ reader \in [Readers -> ReaderStates] /\ msg \in [Messages -> MsgStates]
        /\ reader[r] \in ReaderStates /\ reader[r].pc = "callback" /\ m # NoMsg
    BY DEF DeliveryInv, InCallback
  <1>2. m \in Messages
    BY <1>1 DEF ReaderStates
  <1>3. s \in ReaderStates /\ s.pc = "read" /\ s.ch = reader[r].ch
    <2>1. ASSUME NEW q \in ReaderStates
          PROVE  LET y == [q EXCEPT !.pc = "read", !.buf = NoMsg]
                 IN  y \in ReaderStates /\ y.pc = "read" /\ y.ch = q.ch
      BY DEF ReaderStates
    <2> QED
      BY <1>1, <2>1
  <1>4. reader' = [reader EXCEPT ![r] = s]
    BY <1>1 DEF Reads
  <1>5. /\ z \in MsgStates /\ z.st = st /\ z.retries = n
    BY DEF Outcome, MsgStates
  <1>6. msg' = msg \/ msg' = [msg EXCEPT ![m] = z]
    BY DEF Settle
  <1>7. Outcome(m, st, n)
    OBVIOUS
  <1> HIDE DEF m, s, z
  <1>8. /\ reader' \in [Readers -> ReaderStates] /\ reader'[r] = s
        /\ \A q \in Readers \ {r} : reader'[q] = reader[q]
    BY <1>1, <1>3, <1>4
  <1>9. \A q \in Readers : /\ reader'[q].ch # NoCh => chan'[reader'[q].ch]
                           /\ reader'[q].pc = "callback" => reader'[q].buf # NoMsg
    BY <1>3, <1>8 DEF DeliveryInv
  <1>10. CASE msg' = msg
    BY <1>8, <1>9, <1>10 DEF DeliveryInv, NoMessageLost
  <1>11. CASE msg' = [msg EXCEPT ![m] = z]
    <2>1. /\ msg' \in [Messages -> MsgStates] /\ msg'[m] = z
          /\ \A k \in Messages \ {m} : msg'[k] = msg[k]
      BY <1>1, <1>2, <1>5, <1>11
    <2>2. NoMessageLost'
      BY <1>5, <1>7, <2>1 DEF DeliveryInv, NoMessageLost, Outcome
    <2>3. \A k \in Messages : msg'[k].st = "unacked" => msg'[k].by # NoCh
      BY <1>5, <1>7, <2>1 DEF DeliveryInv, Outcome
    <2> QED
      BY <1>8, <1>9, <2>1, <2>2, <2>3 DEF DeliveryInv
  <1> QED
    BY <1>6, <1>10, <1>11

\* The pool moves under the reading loops: what was delivered on a channel that
\* closes goes back to the queue, and its reading loop learns of it.
LEMMA PoolStepKeeps ==
  ASSUME MqInv, PoolStep, chan' \in [Channels -> BOOLEAN],
         faults \in Nat, faults' \in Nat, faults' >= faults
  PROVE  DeliveryInv'
  <1>1. /\ reader \in [Readers -> ReaderStates] /\ msg \in [Messages -> MsgStates]
        /\ mode' = mode /\ handled' = handled /\ msg' = Requeue(chan')
    BY DEF MqInv, DeliveryInv, PoolStep
  <1>2. ASSUME NEW q \in ReaderStates, NEW b \in Messages \cup {NoMsg}
        PROVE  LET y == [q EXCEPT !.ch = NoCh, !.buf = b]
               IN  y \in ReaderStates /\ y.ch = NoCh /\ y.pc = q.pc /\ y.buf = b
    BY DEF ReaderStates
  <1>3. ASSUME NEW r \in Readers
        PROVE  /\ reader'[r] \in ReaderStates
               /\ reader'[r].ch # NoCh => chan'[reader'[r].ch]
               /\ reader'[r].pc = "callback" => reader'[r].buf # NoMsg
    <2>1. reader[r] \in ReaderStates /\ (reader[r].pc = "callback" => reader[r].buf # NoMsg)
      BY <1>1 DEF MqInv, DeliveryInv
    <2>2. CASE reader[r].ch # NoCh /\ ~chan'[reader[r].ch]
      <3> DEFINE b == IF reader[r].pc = "callback" THEN reader[r].buf ELSE NoMsg
      <3>1. reader'[r] = [reader[r] EXCEPT !.ch = NoCh, !.buf = b]
        BY <2>2 DEF PoolStep
      <3>2. b \in Messages \cup {NoMsg} /\ (reader[r].pc = "callback" => b # NoMsg)
        BY <2>1 DEF ReaderStates
      <3> HIDE DEF b
      <3>3. reader[r] \in ReaderStates /\ b \in Messages \cup {NoMsg}
        BY <2>1, <3>2
      <3>4. LET y == [reader[r] EXCEPT !.ch = NoCh, !.buf = b]
            IN  y \in ReaderStates /\ y.ch = NoCh /\ y.pc = reader[r].pc /\ y.buf = b
        BY ONLY <1>2, <3>3, Zenon
      <3>5. /\ reader'[r] \in ReaderStates /\ reader'[r].ch = NoCh
            /\ reader'[r].pc = reader[r].pc /\ reader'[r].buf = b
        BY ONLY <3>1, <3>4, Zenon
      <3> QED
        BY <3>2, <3>5
    <2>3. CASE ~(reader[r].ch # NoCh /\ ~chan'[reader[r].ch])
      <3>1. reader'[r] = reader[r]
        BY <2>3 DEF PoolStep
      <3> QED
        BY <2>1, <2>3, <3>1
    <2> QED
      BY <2>2, <2>3
  <1>4. reader' \in [Readers -> ReaderStates]
    <2> DEFINE F(r) == IF reader[r].ch # NoCh /\ ~chan'[reader[r].ch]
                       THEN [reader[r] EXCEPT !.ch = NoCh,
                               !.buf = IF reader[r].pc = "callback" THEN @ ELSE NoMsg]
                       ELSE reader[r]
    <2>1. reader' = [r \in Readers |-> F(r)]
      BY Zenon DEF PoolStep
    <2> HIDE DEF F
    <2> QED
      BY ONLY <1>3, <2>1
  <1>5. ASSUME NEW m \in Messages
        PROVE  /\ msg'[m] \in MsgStates
               /\ msg'[m] = msg[m] \/ (msg'[m].st = "ready")
               /\ msg'[m].st = "unacked" => msg'[m].by # NoCh /\ chan'[msg'[m].by]
    <2>1. msg[m] \in MsgStates /\ (msg[m].st = "unacked" => msg[m].by # NoCh)
      BY <1>1 DEF MqInv, DeliveryInv
    <2>2. ASSUME NEW q \in MsgStates
          PROVE  LET y == [q EXCEPT !.st = "ready", !.by = NoCh] IN y \in MsgStates /\ y.st = "ready"
      BY DEF MsgStates
    <2>3. CASE msg[m].st = "unacked" /\ ~chan'[msg[m].by]
      <3>1. msg'[m] = [msg[m] EXCEPT !.st = "ready", !.by = NoCh]
        BY <1>1, <2>3 DEF Requeue
      <3> QED
        BY <2>1, <2>2, <3>1
    <2>4. CASE ~(msg[m].st = "unacked" /\ ~chan'[msg[m].by])
      <3>1. msg'[m] = msg[m]
        BY <1>1, <2>4 DEF Requeue
      <3> QED
        BY <2>1, <2>4, <3>1
    <2> QED
      BY <2>3, <2>4
  <1>6. msg' \in [Messages -> MsgStates]
    <2>1. \E f : msg' = [m \in Messages |-> f[m]]
      BY <1>1, ZenonT(40) DEF Requeue
    <2> QED
      BY <1>5, <2>1
  <1>7. NoMessageLost'
    BY <1>1, <1>5 DEF MqInv, DeliveryInv, NoMessageLost
  <1> QED
    BY <1>3, <1>4, <1>5, <1>6, <1>7 DEF DeliveryInv

\* What a reading loop and the outer loop do with the messages.
LEMMA ReadingKeeps ==
  ASSUME MqInv, chan' = chan, faults \in Nat, faults' \in Nat, faults' >= faults, NEW r \in Readers,
         \/ TakeMessage(r) \/ ReaderStops(r) \/ ReaderTakesSignal(r) \/ SubscriptionCancelled(r)
         \/ CallbackSucceeds(r) \/ CallbackFails(r) \/ CallbackTimeout(r)
         \/ \E m \in Messages : Deliver(r, m)
         \/ \E u \in Consumers : Consume(u, r)
  PROVE  DeliveryInv'
  <1>1. /\ DeliveryInv /\ reader \in [Readers -> ReaderStates] /\ msg \in [Messages -> MsgStates]
        /\ reader[r] \in ReaderStates
    BY DEF MqInv, DeliveryInv
  <1>2. CASE TakeMessage(r)
    <2> DEFINE s == [reader[r] EXCEPT !.pc = "callback"]
    <2>1. /\ reader[r].buf # NoMsg /\ reader' = [reader EXCEPT ![r] = s]
          /\ UNCHANGED <<msg, mode, handled>>
      BY <1>1, <1>2 DEF TakeMessage
    <2>2. s \in ReaderStates /\ s.ch = reader[r].ch /\ s.buf = reader[r].buf
      BY <1>1 DEF ReaderStates
    <2>3. s.ch # NoCh => chan[s.ch]
      BY <1>1, <2>2 DEF DeliveryInv
    <2> HIDE DEF s
    <2> QED
      BY <1>1, <2>1, <2>2, <2>3, ReaderGoesOn
  <1>3. CASE ReaderStops(r) \/ ReaderTakesSignal(r) \/ SubscriptionCancelled(r)
    <2> DEFINE s == NoReading(reader[r].of)
    <2>1. reader' = [reader EXCEPT ![r] = s] /\ UNCHANGED <<msg, mode, handled>>
      BY <1>1, <1>3 DEF ReaderStops, ReaderTakesSignal, SubscriptionCancelled, ReaderEnds
    <2>2. s \in ReaderStates /\ s.ch = NoCh /\ s.pc = "none"
      BY <1>1 DEF ReaderStates, NoReading
    <2> HIDE DEF s
    <2> QED
      BY <1>1, <2>1, <2>2, ReaderGoesOn
  <1>4. ASSUME NEW m \in Messages, Deliver(r, m) PROVE DeliveryInv'
    <2> DEFINE s == [reader[r] EXCEPT !.buf = m]
               z == [msg[m] EXCEPT !.st = "unacked", !.by = reader[r].ch]
    <2>1. /\ reader[r].pc = "read" /\ reader[r].ch # NoCh /\ reader' = [reader EXCEPT ![r] = s]
          /\ msg' = [msg EXCEPT ![m] = z] /\ UNCHANGED <<mode, handled>>
      BY <1>1, <1>4 DEF Deliver
    <2>2. s \in ReaderStates /\ s.ch = reader[r].ch /\ s.pc = "read"
      BY <1>1, <2>1 DEF ReaderStates
    <2>3. z \in MsgStates /\ z.st = "unacked" /\ z.by = reader[r].ch
      <3>1. ASSUME NEW q \in MsgStates, NEW c \in Channels \cup {NoCh}
            PROVE  LET y == [q EXCEPT !.st = "unacked", !.by = c]
                   IN  y \in MsgStates /\ y.st = "unacked" /\ y.by = c
        BY DEF MsgStates
      <3>2. reader[r].ch \in Channels \cup {NoCh} /\ msg[m] \in MsgStates
        BY <1>1 DEF ReaderStates
      <3> QED
        BY <3>1, <3>2
    <2> HIDE DEF s, z
    <2>4. /\ reader' \in [Readers -> ReaderStates] /\ reader'[r] = s
          /\ \A q \in Readers \ {r} : reader'[q] = reader[q]
      BY <1>1, <2>1, <2>2
    <2>5. /\ msg' \in [Messages -> MsgStates] /\ msg'[m] = z
          /\ \A k \in Messages \ {m} : msg'[k] = msg[k]
      BY <1>1, <2>1, <2>3
    <2>6. chan[reader[r].ch]
      BY <1>1, <2>1 DEF DeliveryInv
    <2>7. NoMessageLost'
      BY <1>1, <2>1, <2>3, <2>5, <2>6 DEF DeliveryInv, NoMessageLost
    <2>8. \A q \in Readers : /\ reader'[q].ch # NoCh => chan'[reader'[q].ch]
                             /\ reader'[q].pc = "callback" => reader'[q].buf # NoMsg
      BY <1>1, <2>2, <2>4 DEF DeliveryInv
    <2>9. \A k \in Messages : msg'[k].st = "unacked" => msg'[k].by # NoCh
      BY <1>1, <2>1, <2>3, <2>5 DEF DeliveryInv
    <2> QED
      BY <2>4, <2>5, <2>7, <2>8, <2>9 DEF DeliveryInv
  <1>5. ASSUME NEW u \in Consumers, Consume(u, r) PROVE DeliveryInv'
    <2> DEFINE s == [pc |-> "read", of |-> u, ch |-> user[u].ch, buf |-> NoMsg]
    <2>1. /\ chan[user[u].ch] /\ reader' = [reader EXCEPT ![r] = s] /\ UNCHANGED <<msg, mode, handled>>
      BY <1>5 DEF Consume
    <2>2. user[u].ch \in Channels \cup {NoCh}
      BY OnlyConsumers DEF MqInv, PoolInv, PoolTypeOK, UserStates
    <2>3. s \in ReaderStates /\ s.ch = user[u].ch /\ s.pc = "read"
      BY <2>2 DEF ReaderStates
    <2> HIDE DEF s
    <2> QED
      BY <1>1, <2>1, <2>3, ReaderGoesOn
  <1>6. CASE InCallback(r) /\ Reads(r) /\ mode' = mode /\ handled \subseteq handled'
             /\ \E st, n : Settle(r, st, n) /\ Outcome(reader[r].buf, st, n)
    BY <1>1, <1>6, SettleKeeps
  <1>7. InCallback(r) => /\ reader[r].buf \in Messages /\ msg[reader[r].buf].retries \in 0..MaxRetries
    BY <1>1 DEF DeliveryInv, InCallback, ReaderStates, MsgStates
  <1>8. CASE CallbackSucceeds(r)
    <2>1. /\ InCallback(r) /\ Reads(r) /\ mode' = mode /\ handled \subseteq handled'
          /\ Settle(r, "done", msg[reader[r].buf].retries) /\ reader[r].buf \in handled'
      BY <1>8 DEF CallbackSucceeds
    <2>2. Outcome(reader[r].buf, "done", msg[reader[r].buf].retries)
      BY <1>7, <2>1 DEF Outcome
    <2> QED
      BY <1>6, <2>1, <2>2
  <1>9. CASE CallbackTimeout(r)
    <2>1. /\ InCallback(r) /\ Reads(r) /\ mode' = mode /\ handled \subseteq handled'
          /\ Settle(r, "ready", msg[reader[r].buf].retries)
      BY <1>9 DEF CallbackTimeout
    <2>2. Outcome(reader[r].buf, "ready", msg[reader[r].buf].retries)
      BY <1>7, <2>1 DEF Outcome
    <2> QED
      BY <1>6, <2>1, <2>2
  <1>10. CASE CallbackFails(r)
    <2> DEFINE m == reader[r].buf
               n == msg[m].retries
    <2>1. /\ InCallback(r) /\ Reads(r) /\ mode' = mode /\ handled \subseteq handled'
          /\ n \in 0..MaxRetries /\ m \in Messages /\ MaxRetries \in Nat
      BY <1>7, <1>10, ConsumerAssumption DEF CallbackFails
    <2>2. CASE mode = "republish"
      <3>1. Republish(r)
        BY <1>10, <2>2 DEF CallbackFails
      <3>2. CASE ~(n < MaxRetries)
        <4>1. Settle(r, "dropped", n) /\ n = MaxRetries
          BY <2>1, <3>1, <3>2 DEF Republish, ShouldRetryMessage
        <4>2. Outcome(m, "dropped", n)
          BY <2>1, <2>2, <4>1 DEF Outcome
        <4> QED
          BY <1>6, <2>1, <4>1, <4>2
      <3>3. CASE n < MaxRetries /\ Settle(r, "ready", n + 1)
        <4>1. Outcome(m, "ready", n + 1)
          BY <2>1, <3>3 DEF Outcome
        <4> QED
          BY <1>6, <2>1, <3>3, <4>1
      <3>4. CASE n < MaxRetries /\ Settle(r, "lost", n) /\ Fault
        <4>1. Outcome(m, "lost", n)
          BY <2>1, <2>2, <3>4 DEF Outcome, Fault
        <4> QED
          BY <1>6, <2>1, <3>4, <4>1
      <3> QED
        BY <3>1, <3>2, <3>3, <3>4 DEF Republish, ShouldRetryMessage
    <2>3. CASE mode = "requeue"
      <3>1. Settle(r, "ready", n)
        BY <1>10, <2>3 DEF CallbackFails
      <3>2. Outcome(m, "ready", n)
        BY <2>1 DEF Outcome
      <3> QED
        BY <1>6, <2>1, <3>1, <3>2
    <2>4. CASE mode # "republish" /\ mode # "requeue"
      <3>1. Settle(r, "dropped", n)
        BY <1>10, <2>4 DEF CallbackFails
      <3>2. Outcome(m, "dropped", n)
        BY <2>1, <2>4 DEF Outcome
      <3> QED
        BY <1>6, <2>1, <3>1, <3>2
    <2> QED
      BY <2>2, <2>3, <2>4
  <1> QED
    BY <1>2, <1>3, <1>4, <1>5, <1>8, <1>9, <1>10

-----------------------------------------------------------------------------
(* The theorems.                                                           *)

\* Faults are only counted up, and the pool keeps the type of its channels.
LEMMA FaultsGrow ==
  ASSUME PoolInv, PoolNext, PoolInv'
  PROVE  chan' \in [Channels -> BOOLEAN] /\ faults \in Nat /\ faults' \in Nat /\ faults' >= faults
  <1>1. faults \in Nat /\ chan' \in [Channels -> BOOLEAN]
    BY DEF PoolInv, PoolTypeOK
  <1>2. faults' = faults \/ Fault
    BY DEF PoolNext, Start, Begin, PublishStep, Publish, ConfirmTimeout, PublishFails, AfterRetryable,
           ReturnChannel, GetChannel, TakePooled, DiscardClosed, CreateChannel, SleepForReconnect,
           NoChannelMade, BrokerConfirms, Reconnect, ClearAllPublishers, DrainPool, PoolFailure,
           ConnectionLost, ChannelClosed, CreateFails, PublishRefused
  <1> QED
    BY <1>1, <1>2 DEF Fault

\* Every step keeps the invariant of the consumers.
LEMMA MqStep ==
  ASSUME MqInv, [Next]_vars
  PROVE  MqInv'
  <1>1. PoolInv /\ RoomInv /\ DeliveryInv /\ faults \in Nat
    BY DEF MqInv, PoolInv, PoolTypeOK
  <1>2. CASE PoolStep
    <2>1. PoolInv'
      BY <1>1, <1>2, PoolInvStep DEF PoolStep, PoolOrPanic
    <2>2. RoomInv'
      BY <1>1, <1>2, <2>1, PoolLeavesRoom DEF PoolStep
    <2>3. chan' \in [Channels -> BOOLEAN] /\ faults' \in Nat /\ faults' >= faults
      BY <1>1, <1>2, <2>1, FaultsGrow DEF PoolStep
    <2>4. DeliveryInv'
      BY <1>1, <1>2, <2>3, PoolStepKeeps
    <2> QED
      BY <2>1, <2>2, <2>4 DEF MqInv
  <1>3. ASSUME UNCHANGED poolVars PROVE PoolInv' /\ RoomInv' /\ UNCHANGED <<chan, faults>>
    <2>1. PoolInv'
      BY <1>1, <1>3, PoolInvStep
    <2> QED
      BY <1>1, <1>3, <2>1, RoomRests DEF poolVars, pool, PoolInv
  <1>4. ASSUME UNCHANGED <<pool, user, conf, stopping, leaked>>, faults' = faults \/ Fault
        PROVE  PoolInv' /\ RoomInv' /\ chan' = chan /\ faults' \in Nat /\ faults' >= faults
    <2>1. faults' \in Nat /\ faults' >= faults
      BY <1>1, <1>4 DEF Fault
    <2>2. PoolInv'
      BY <1>1, <1>4, <2>1 DEF pool, conf, stopping, PoolInv, PoolTypeOK, HoldInv, ExclusiveHolders,
                              SlotsAccounted, Holders, SeqInv, Held, SeqNo, ConfirmIsOwn
    <2> QED
      BY <1>1, <1>4, <2>1, <2>2, RoomRests DEF pool, PoolInv
  <1>5. CASE NotifyReconnect \/ (\E u \in Consumers : Cancel(u)) \/ (\E m \in Messages : LateCallback(m))
             \/ UNCHANGED vars
    <2>1. UNCHANGED poolVars /\ UNCHANGED <<reader, msg, mode>> /\ handled \subseteq handled'
      BY <1>5 DEF NotifyReconnect, Cancel, LateCallback, vars, consVars
    <2> QED
      BY <1>1, <1>3, <2>1, DeliveryRests DEF MqInv
  <1>6. ASSUME NEW u \in Consumers, Outer(u) \/ LoopStopsWaiting(u) PROVE MqInv'
    <2>1. PoolInv' /\ RoomInv' /\ chan' = chan /\ faults' \in Nat /\ faults' >= faults
      BY <1>1, <1>6, OuterKeepsPool DEF Outer
    <2>2. CASE \E r \in Readers : Consume(u, r)
      BY <1>1, <2>1, <2>2, ReadingKeeps DEF MqInv
    <2>3. CASE ~\E r \in Readers : Consume(u, r)
      <3>1. UNCHANGED <<reader, msg, mode, handled>>
        BY <1>6, <2>3 DEF Outer, Loop, LoopTakesSignal, ConsumeFails, LoopEnds, LoopStopsWaiting, consVars
      <3> QED
        BY <1>1, <2>1, <3>1, DeliveryRests DEF MqInv
    <2> QED
      BY <2>2, <2>3
  <1>7. ASSUME NEW r \in Readers, ReadingLoop(r) \/ SubscriptionCancelled(r) \/ CallbackTimeout(r)
        PROVE  MqInv'
    <2>1. UNCHANGED <<pool, user, conf, stopping, leaked>> /\ (faults' = faults \/ Fault)
      BY <1>7 DEF ReadingLoop, TakeMessage, ReaderStops, ReaderTakesSignal, SubscriptionCancelled,
                  ReaderEnds, CallbackSucceeds, CallbackFails, CallbackTimeout, Deliver, Republish, poolVars
    <2>2. PoolInv' /\ RoomInv' /\ chan' = chan /\ faults' \in Nat /\ faults' >= faults
      BY <1>4, <2>1
    <2>3. DeliveryInv'
      BY <1>1, <1>7, <2>2, ReadingKeeps DEF ReadingLoop
    <2> QED
      BY <2>2, <2>3 DEF MqInv
  <1> QED
    BY <1>2, <1>5, <1>6, <1>7 DEF Next

\* The inductive invariant of the consumer loops and the pool under them.
THEOREM MqInvariant == Spec => []MqInv
  <1>1. Init => MqInv
    <2> SUFFICES ASSUME Init PROVE MqInv
      OBVIOUS
    <2>1. PoolInv
      BY StartedKeeps DEF Init
    <2>2. PICK a \in Consumers : reader = [r \in Readers |-> NoReading(a)]
      BY DEF Init
    <2>3. \A u \in Consumers : user[u].pc = "idle"
      BY OnlyConsumers DEF Init, PoolInit, IdleUser
    <2>4. Busy = {} /\ avail = {1} /\ leaked = 0
      BY <2>3 DEF Busy, Init, PoolInit
    <2>5. Cardinality(Busy) = 0 /\ Cardinality(avail) = 1
      BY <2>4, FS_EmptySet, FS_Singleton
    <2>6. Cardinality(Consumers) # 0
      BY <2>2, OnlyConsumers, FS_EmptySet
    <2>7. RoomInv
      BY <2>3, <2>4, <2>5, <2>6, OnlyConsumers DEF RoomInv
    <2>8. \A r \in Readers : /\ reader[r] \in ReaderStates /\ reader[r].ch = NoCh
                             /\ reader[r].pc = "none"
      BY <2>2 DEF NoReading, ReaderStates
    <2>9. reader \in [Readers -> ReaderStates]
      BY <2>2, <2>8
    <2>10. /\ msg \in [Messages -> MsgStates] /\ \A m \in Messages : msg[m].st = "ready"
      BY ConsumerAssumption DEF Init, MsgStates
    <2>11. DeliveryInv
      BY <2>8, <2>9, <2>10 DEF DeliveryInv, NoMessageLost
    <2> QED
      BY <2>1, <2>7, <2>11 DEF MqInv
  <1>2. MqInv /\ [Next]_vars => MqInv'
    BY MqStep
  <1> QED
    BY <1>1, <1>2, PTL DEF Spec

\* No message is lost: it leaves the queue after a callback that succeeded, or
\* because the options drop it, or with RepublishNack and a failed publish;
\* and what is unacknowledged is so on a channel that is open.
THEOREM MessagesAreKept == Spec => []NoMessageLost
  BY MqInvariant, PTL DEF MqInv, DeliveryInv

\* With no more consumer loops than the pool has capacity, and nobody else,
\* GetChannel never panics: the pool is empty only while there is a free slot.
THEOREM ConsumersNeverExhaust == Spec => []NeverExhausted
  <1>1. MqInv => NeverExhausted
    BY RoomSuffices DEF MqInv
  <1> QED
    BY <1>1, MqInvariant, PTL

\* The consumer loops keep what the pool promises: exclusive channels and an
\* exact count of the slots.
THEOREM ConsumersKeepPool == Spec => [](ExclusiveHolders /\ SlotsAccounted)
  BY MqInvariant, PTL DEF MqInv, PoolInv

=============================================================================

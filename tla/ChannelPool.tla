---------------------------- MODULE ChannelPool ----------------------------
(* The AMQP channel pool of one Trax process (pkg/mq/common/channelpool.go), *)
(* the publishers that use it (helpers.go, publisher.go), the reconnection   *)
(* handler (pkg/mq/init.go), and the clearing and draining of the pool when  *)
(* the coordinator stops.                                                    *)
(*                                                                           *)
(* A critical section of the pool's mutex is one action.  The order in which *)
(* pooled channels are handed out is abstracted.                             *)
EXTENDS Naturals, FiniteSets

CONSTANTS
  Publishers,   \* goroutines that publish or declare
  Consumers,    \* consumer loops, which take channels as well
  NumChannels,  \* bound: channel objects alive at a time
  MaxChannels,  \* capacity of the pool (RABBITMQ_MAX_CHANNELS)
  MaxTags,      \* bound: messages published on one channel
  MaxStops,     \* bound: stops of the coordinator
  MaxFaults     \* bound: lost connections, closed channels and failed calls

Channels == 1..NumChannels
NoCh == 0
Users == Publishers \cup Consumers
MaxTries == 3

ASSUME PoolAssumption ==
  /\ NumChannels \in Nat \ {0} /\ MaxChannels \in Nat \ {0}
  /\ MaxTags \in Nat /\ MaxStops \in Nat /\ MaxFaults \in Nat
  /\ IsFiniteSet(Users) /\ Publishers \cap Consumers = {}

\* PublishWithHeaders, PublishWithRoutingKey, the exchange and queue
\* declarations, and the consumer loop differ in what they do with a channel
\* that failed them.
Kinds == {"headers", "routing", "declare", "consume"}
Pcs == {"idle", "get", "sleep", "use", "confirm", "ok", "failed", "wait"}
UserStates == [pc: Pcs, kind: Kinds, ch: Channels \cup {NoCh},
               try: 0..MaxTries, seq: Nat, tag: Nat]
IdleUser == [pc |-> "idle", kind |-> "declare", ch |-> NoCh,
             try |-> 0, seq |-> 0, tag |-> 0]

VARIABLES
  conn,     \* is the pool's connection open?
  chan,     \* is the channel open?
  avail,    \* channels in the pool
  created,  \* the pool's count of the channels it has made
  user,     \* per goroutine: where it is, and with which channel
  next,     \* nextSeqNo of the channel's cached publisher, 0 without one
  sent,     \* messages published on an open channel: the broker's delivery tags
  unconf,   \* <<channel, tag>> of messages the broker has not confirmed
  stop,     \* progress of the coordinator's Stop: "no" or "cleared"
  stops,    \* stops so far
  leaked,   \* ghost: slots whose channel was dropped and not given back
  faults    \* faults so far

pool == <<conn, chan, avail, created>>
conf == <<next, sent, unconf>>
stopping == <<stop, stops>>
poolVars == <<pool, user, conf, stopping, leaked, faults>>

Held == {user[u].ch : u \in Users} \ {NoCh}

\* A channel object that nobody refers to any more; the next one made is
\* modelled by the smallest such number.
Unused(c) == c \notin avail \cup Held /\ ~chan[c]
Fresh(c) == Unused(c) /\ \A d \in Channels : Unused(d) => c <= d

\* NewChannelPool fills a fifth of the capacity, at least one channel.
PoolInit ==
  /\ conn = TRUE
  /\ chan = [c \in Channels |-> c = 1]
  /\ avail = {1}
  /\ created = 1
  /\ user = [u \in Users |-> IdleUser]
  /\ next = [c \in Channels |-> 0]
  /\ sent = [c \in Channels |-> 0]
  /\ unconf = {}
  /\ stop = "no"
  /\ stops = 0
  /\ leaked = 0
  /\ faults = 0

Fault == faults < MaxFaults /\ faults' = faults + 1

\* A new process: Init connects, makes a pool and declares the queues.
PoolRestart ==
  /\ conn' = TRUE
  /\ chan' = [c \in Channels |-> c = 1]
  /\ avail' = {1}
  /\ created' = 1
  /\ user' = [u \in Users |-> IdleUser]
  /\ next' = [c \in Channels |-> 0]
  /\ sent' = [c \in Channels |-> 0]
  /\ unconf' = {}
  /\ stop' = "no"
  /\ leaked' = 0
  /\ UNCHANGED <<stops, faults>>

-----------------------------------------------------------------------------
(* GetChannel                                                              *)

Begin(u, kind) ==
  /\ user[u].pc = "idle"
  /\ user' = [user EXCEPT ![u] = [IdleUser EXCEPT !.pc = "get", !.kind = kind]]
  /\ UNCHANGED <<pool, conf, stopping, leaked, faults>>

\* A pooled channel that is still open.
TakePooled(u, c) ==
  /\ user[u].pc = "get" /\ c \in avail /\ chan[c]
  /\ avail' = avail \ {c}
  /\ user' = [user EXCEPT ![u].pc = "use", ![u].ch = c]
  /\ UNCHANGED <<conn, chan, created, conf, stopping, leaked, faults>>

\* Mutant: the slot of a closed channel is not given back.
DiscardKeepsSlot(u, c) ==
  /\ user[u].pc = "get" /\ c \in avail /\ ~chan[c]
  /\ avail' = avail \ {c}
  /\ next' = [next EXCEPT ![c] = 0]
  /\ UNCHANGED <<conn, chan, created, user, sent, unconf, stopping, leaked, faults>>

\* A pooled channel that has been closed is thrown away, its publisher is
\* cleared, and the search goes on.
DiscardClosed(u, c) ==
  /\ user[u].pc = "get" /\ c \in avail /\ ~chan[c]
  /\ avail' = avail \ {c}
  /\ created' = created - 1
  /\ next' = [next EXCEPT ![c] = 0]
  /\ UNCHANGED <<conn, chan, user, sent, unconf, stopping, leaked, faults>>

\* Mutant: a new channel is put into the pool, as NewChannelPool does, and
\* handed out as well.
CreateChannelPooled(u, c) ==
  /\ conn /\ user[u].pc \in {"get", "sleep"} /\ avail = {} /\ created < MaxChannels
  /\ Fresh(c)
  /\ chan' = [chan EXCEPT ![c] = TRUE]
  /\ avail' = avail \cup {c}
  /\ created' = created + 1
  /\ user' = [user EXCEPT ![u].pc = "use", ![u].ch = c]
  /\ UNCHANGED <<conn, conf, stopping, leaked, faults>>

\* conn.Channel(): also after a sleep, when the capacity is not looked at again.
CreateChannel(u, c) ==
  /\ conn
  /\ \/ user[u].pc = "get" /\ avail = {} /\ created < MaxChannels
     \/ user[u].pc = "sleep"
  /\ Fresh(c)
  /\ chan' = [chan EXCEPT ![c] = TRUE]
  /\ created' = created + 1
  /\ next' = [next EXCEPT ![c] = 0]
  /\ sent' = [sent EXCEPT ![c] = 0]
  /\ unconf' = {x \in unconf : x[1] # c}
  /\ user' = [user EXCEPT ![u].pc = "use", ![u].ch = c]
  /\ UNCHANGED <<conn, avail, stopping, leaked, faults>>

\* The connection is closed: up to two sleeps of two seconds, with the mutex
\* released.
SleepForReconnect(u) ==
  /\ user[u].pc = "get" /\ avail = {} /\ created < MaxChannels /\ ~conn
  /\ user' = [user EXCEPT ![u].pc = "sleep"]
  /\ UNCHANGED <<pool, conf, stopping, leaked, faults>>

\* What GetChannel's and a retryable error lead to: a publisher tries again up
\* to three times, the others give up and the consumer loop begins anew.
TryAgain(u) ==
  LET s == user[u] IN
  IF s.kind \in {"headers", "routing"} /\ s.try + 1 < MaxTries
  THEN [IdleUser EXCEPT !.pc = "get", !.kind = s.kind, !.try = s.try + 1]
  ELSE IdleUser

NoChannelMade(u) ==
  /\ user[u].pc = "sleep" /\ ~conn
  /\ user' = [user EXCEPT ![u] = TryAgain(u)]
  /\ UNCHANGED <<pool, conf, stopping, leaked, faults>>

\* The connection is open and conn.Channel() fails all the same.
CreateFails(u) ==
  /\ user[u].pc \in {"get", "sleep"} /\ conn
  /\ user[u].pc = "get" => avail = {} /\ created < MaxChannels
  /\ Fault
  /\ user' = [user EXCEPT ![u] = TryAgain(u)]
  /\ UNCHANGED <<pool, conf, stopping, leaked>>

\* The pool is empty and its count says that it may not grow: GetChannel
\* panics, and the process starts again.
Exhausted(u) ==
  /\ user[u].pc = "get" /\ avail = {} /\ created >= MaxChannels
  /\ PoolRestart

-----------------------------------------------------------------------------
(* ReturnChannel                                                           *)

\* A closed channel is dropped and its slot freed; an open one goes back to the
\* pool, or is closed, its slot kept, when the pool is full.
GiveBack(c) ==
  CASE ~chan[c] -> /\ created' = created - 1
                   /\ next' = [next EXCEPT ![c] = 0]
                   /\ UNCHANGED <<chan, avail, leaked>>
    [] chan[c] /\ Cardinality(avail) < MaxChannels ->
                   /\ avail' = avail \cup {c}
                   /\ UNCHANGED <<chan, created, next, leaked>>
    [] OTHER    -> /\ chan' = [chan EXCEPT ![c] = FALSE]
                   /\ next' = [next EXCEPT ![c] = 0]
                   /\ leaked' = leaked + 1
                   /\ UNCHANGED <<avail, created>>

\* The declarations, and a publish that was confirmed.
ReturnChannel(u) ==
  /\ \/ user[u].pc = "use" /\ user[u].kind = "declare"
     \/ user[u].pc = "ok"
  /\ GiveBack(user[u].ch)
  /\ user' = [user EXCEPT ![u] = IdleUser]
  /\ UNCHANGED <<conn, sent, unconf, stopping, faults>>

-----------------------------------------------------------------------------
(* Publishing with confirms                                                *)

Publishing(u) == user[u].pc = "use" /\ user[u].kind \in {"headers", "routing"}

\* Mutant: a new publisher starts at zero.
SeqFromZero(c) == next[c]

\* The sequence number the channel's publisher uses; a new publisher starts
\* at 1, whatever was published on the channel before.
SeqNo(c) == IF next[c] = 0 THEN 1 ELSE next[c]

\* PublishWithConfirm registers its sequence number and publishes.
Publish(u) ==
  /\ Publishing(u)
  /\ LET c == user[u].ch IN
     /\ chan[c] /\ sent[c] < MaxTags
     /\ next' = [next EXCEPT ![c] = SeqNo(c) + 1]
     /\ sent' = [sent EXCEPT ![c] = @ + 1]
     /\ unconf' = unconf \cup {<<c, sent[c] + 1>>}
     /\ user' = [user EXCEPT ![u].pc = "confirm", ![u].seq = SeqNo(c),
                             ![u].tag = sent[c] + 1]
  /\ UNCHANGED <<pool, stopping, leaked, faults>>

\* routeConfirmations: whoever registered this number.
WaitsFor(u, c, t) == user[u].pc = "confirm" /\ user[u].ch = c /\ user[u].seq = t

\* The broker confirms a message: it is stored.  A confirmation nobody waits
\* for is ignored.
BrokerConfirms(c, t) ==
  /\ <<c, t>> \in unconf /\ chan[c]
  /\ unconf' = unconf \ {<<c, t>>}
  /\ user' = [u \in Users |-> IF WaitsFor(u, c, t)
                              THEN [user[u] EXCEPT !.pc = "ok"] ELSE user[u]]
  /\ UNCHANGED <<pool, next, sent, stopping, leaked, faults>>

\* The confirmation is late.
ConfirmTimeout(u) ==
  /\ user[u].pc = "confirm"
  /\ user' = [user EXCEPT ![u].pc = "failed"]
  /\ UNCHANGED <<pool, conf, stopping, leaked, faults>>

\* A closed channel: the publish itself fails, or the publisher's channel of
\* confirmations is closed.  Both texts are on the list of retryable errors.
PublishFails(u) ==
  /\ Publishing(u) \/ user[u].pc = "confirm"
  /\ ~chan[user[u].ch]
  /\ user' = [user EXCEPT ![u].pc = "failed"]
  /\ UNCHANGED <<pool, conf, stopping, leaked, faults>>

\* The broker refuses the message, or the caller's context ends: the channel
\* goes back and the error to the caller.
PublishRefused(u) ==
  /\ user[u].pc = "confirm"
  /\ Fault
  /\ GiveBack(user[u].ch)
  /\ user' = [user EXCEPT ![u] = IdleUser]
  /\ UNCHANGED <<conn, sent, unconf, stopping>>

\* A retryable error.  PublishWithHeaders clears the publisher and drops the
\* channel, which stays in the pool's count; PublishWithRoutingKey gives the
\* channel back.
AfterRetryable(u) ==
  /\ user[u].pc = "failed"
  /\ LET c == user[u].ch IN
     IF user[u].kind = "headers"
     THEN /\ next' = [next EXCEPT ![c] = 0]
          /\ leaked' = leaked + 1
          /\ UNCHANGED <<chan, avail, created>>
     ELSE GiveBack(c)
  /\ user' = [user EXCEPT ![u] = TryAgain(u)]
  /\ UNCHANGED <<conn, sent, unconf, stopping, faults>>

-----------------------------------------------------------------------------
(* The connection, and the coordinator's Stop.                             *)

\* All channels of a lost connection are closed.
ConnectionLost ==
  /\ conn
  /\ Fault
  /\ conn' = FALSE
  /\ chan' = [c \in Channels |-> FALSE]
  /\ sent' = [c \in Channels |-> 0]
  /\ unconf' = {}
  /\ UNCHANGED <<avail, created, user, next, stopping, leaked>>

\* The broker closes one channel.
ChannelClosed(c) ==
  /\ chan[c]
  /\ Fault
  /\ chan' = [chan EXCEPT ![c] = FALSE]
  /\ sent' = [sent EXCEPT ![c] = 0]
  /\ unconf' = {x \in unconf : x[1] # c}
  /\ UNCHANGED <<conn, avail, created, user, next, stopping, leaked>>

\* initConn: dial and UpdateConnection; the pool is kept.
Reconnect ==
  /\ ~conn
  /\ conn' = TRUE
  /\ UNCHANGED <<chan, avail, created, user, conf, stopping, leaked, faults>>

\* Stop clears the cache of publishers, which ends every wait for a
\* confirmation with a retryable error ...
ClearAllPublishers ==
  /\ stop = "no" /\ stops < MaxStops
  /\ stop' = "cleared"
  /\ stops' = stops + 1
  /\ next' = [c \in Channels |-> 0]
  /\ user' = [u \in Users |-> IF user[u].pc = "confirm"
                              THEN [user[u] EXCEPT !.pc = "failed"] ELSE user[u]]
  /\ UNCHANGED <<pool, sent, unconf, leaked, faults>>

\* ... and then drains the pool.  A channel in somebody's hands is not in it.
DrainPool ==
  /\ stop = "cleared"
  /\ stop' = "no"
  /\ created' = created - Cardinality(avail)
  /\ chan' = [c \in Channels |-> chan[c] /\ c \notin avail]
  /\ next' = [c \in Channels |-> IF c \in avail THEN 0 ELSE next[c]]
  /\ sent' = [c \in Channels |-> IF c \in avail THEN 0 ELSE sent[c]]
  /\ unconf' = {x \in unconf : x[1] \notin avail}
  /\ avail' = {}
  /\ UNCHANGED <<conn, user, stops, leaked, faults>>

-----------------------------------------------------------------------------

GetChannel(u) ==
  \/ \E c \in Channels : TakePooled(u, c) \/ DiscardClosed(u, c) \/ CreateChannel(u, c)
  \/ SleepForReconnect(u) \/ NoChannelMade(u)

PublishStep(u) ==
  \/ Publish(u) \/ ConfirmTimeout(u) \/ PublishFails(u) \/ AfterRetryable(u) \/ ReturnChannel(u)

Start(u) == \E kind \in Kinds \ {"consume"} : Begin(u, kind)

PoolFailure ==
  \/ ConnectionLost \/ \E c \in Channels : ChannelClosed(c)
  \/ \E u \in Users : CreateFails(u) \/ PublishRefused(u)

PoolNext ==
  \/ \E u \in Publishers : Start(u) \/ PublishStep(u)
  \/ \E u \in Users : GetChannel(u)
  \/ \E c \in Channels, t \in 1..MaxTags : BrokerConfirms(c, t)
  \/ Reconnect \/ ClearAllPublishers \/ DrainPool \/ PoolFailure

PoolOrPanic == PoolNext \/ \E u \in Users : Exhausted(u)

PoolSpec == PoolInit /\ [][PoolOrPanic]_poolVars

-----------------------------------------------------------------------------

\* The shape of the pool's state; the count of slots never goes below zero.
PoolTypeOK ==
  /\ conn \in BOOLEAN /\ chan \in [Channels -> BOOLEAN]
  /\ avail \subseteq Channels /\ created \in Nat
  /\ user \in [Users -> UserStates]
  /\ next \in [Channels -> Nat] /\ sent \in [Channels -> Nat]
  /\ unconf \subseteq Channels \X Nat
  /\ stop \in {"no", "cleared"} /\ stops \in Nat
  /\ leaked \in Nat /\ faults \in Nat

\* GetChannel "ensures each caller gets exclusive access to a channel": what
\* a caller holds is neither in the pool nor with another caller, through all
\* discards, returns, drains and reconnections.
ExclusiveHolders ==
  \A u \in Users : user[u].ch # NoCh =>
    /\ user[u].ch \notin avail
    /\ \A v \in Users \ {u} : user[v].ch # user[u].ch

Holders == {u \in Users : user[u].ch # NoCh}

\* The count that decides over the panic is exact: a slot for every channel in
\* the pool or in hand, and one for each channel that was dropped and never
\* given back (by PublishWithHeaders after a retryable error).
SlotsAccounted ==
  created = Cardinality(avail) + Cardinality(Holders) + leaked

\* A publish that reports success was confirmed by the broker itself, not by
\* the late confirmation of an earlier message on the same channel, as long as
\* no Stop has cleared publishers whose channels live on.
ConfirmIsOwn ==
  stops = 0 => \A u \in Users : user[u].pc = "ok" => <<user[u].ch, user[u].tag>> \notin unconf

-----------------------------------------------------------------------------
(* What the three need to be inductive.                                    *)

\* A goroutine has a channel exactly while it works with one.
Holding == {"use", "confirm", "ok", "failed", "wait"}
HoldInv == \A u \in Users : user[u].ch # NoCh <=> user[u].pc \in Holding

\* As long as no Stop has cleared the publishers, the number the publisher of a
\* channel in use counts with is the broker's.
SeqInv ==
  stops = 0 =>
    /\ \A c \in avail \cup Held : chan[c] => SeqNo(c) = sent[c] + 1
    /\ \A u \in Users : user[u].pc \in {"confirm", "ok"} => user[u].seq = user[u].tag

\* The inductive invariant of the pool.
PoolInv ==
  /\ PoolTypeOK /\ HoldInv /\ ExclusiveHolders /\ SlotsAccounted /\ SeqInv /\ ConfirmIsOwn
  /\ stop = "cleared" => stops > 0

=============================================================================

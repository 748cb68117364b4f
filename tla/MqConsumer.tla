----------------------------- MODULE MqConsumer -----------------------------
(* The consumer loop of pkg/mq/common/helpers.go (ConsumeQueueWithOptions-   *)
(* Async) on top of the channel pool: an outer loop that takes a channel     *)
(* and starts a reading loop on it, the reading loops, the callbacks they    *)
(* run with a timeout, and the broker that keeps the messages.               *)
EXTENDS ChannelPool

CONSTANTS
  Messages,    \* messages of the queue
  NumReaders,  \* bound: reading loops of a consumer alive at a time
  MaxRetries,  \* MaxMessageRetries
  Modes        \* which ConsumeOptions to check

Readers == 1..NumReaders
NoReader == 0
NoMsg == "none"

\* Here the consumers have the pool for themselves: a consumer loop holds one
\* channel and gives back each, so that the pool is never exhausted and
\* GetChannel does not panic (ChannelPool has the publishers that can exhaust it).
ASSUME ConsumerAssumption ==
  /\ Publishers = {} /\ Cardinality(Consumers) <= MaxChannels
  /\ NumReaders \in Nat \ {0} /\ MaxRetries \in Nat
  /\ Modes \subseteq {"requeue", "republish", "drop"}
  /\ NoMsg \notin Messages

\* buf: delivered by the broker and waiting in the Go channel, or in the
\* callback.  gone: how the reading loop learns that its channel is closed.
ReaderStates == [pc: {"none", "read", "callback"}, of: Consumers,
                 ch: Channels \cup {NoCh}, buf: Messages \cup {NoMsg}]
\* by: the channel on which the message is unacknowledged.
MsgStates == [st: {"ready", "unacked", "done", "dropped", "lost"},
              by: Channels \cup {NoCh}, retries: 0..MaxRetries]

VARIABLES
  reader,     \* the reading loops
  current,    \* per consumer: the reading loop its outer loop waits for
  cancelled,  \* consumers whose context was cancelled
  signals,    \* reconnection signals waiting for the consumer (buffer of 10)
  notify,     \* the reconnection handler has yet to notify the listeners
  msg,        \* the broker's state of each message
  running,    \* timed-out callbacks that still run: the messages they handle
  handled,    \* ghost: messages whose callback has succeeded
  mode        \* what is done with a message whose callback failed

consVars == <<reader, current, cancelled, signals, notify, msg, running, handled, mode>>
vars == <<poolVars, consVars>>

NoReading(u) == [pc |-> "none", of |-> u, ch |-> NoCh, buf |-> NoMsg]

Init ==
  /\ PoolInit
  /\ \E u \in Consumers : reader = [r \in Readers |-> NoReading(u)]
  /\ current = [u \in Consumers |-> NoReader]
  /\ cancelled = {}
  /\ signals = [u \in Consumers |-> 0]
  /\ notify = FALSE
  /\ msg = [m \in Messages |-> [st |-> "ready", by |-> NoCh, retries |-> 0]]
  /\ running = {}
  /\ handled = {}
  /\ mode \in Modes

-----------------------------------------------------------------------------
(* The broker                                                              *)

\* What is unacknowledged on a closed channel goes back to the queue.
Requeue(open) ==
  [m \in Messages |-> IF msg[m].st = "unacked" /\ ~open[msg[m].by]
                      THEN [msg[m] EXCEPT !.st = "ready", !.by = NoCh] ELSE msg[m]]

\* The pool moves; when that closes channels, the deliveries on them are void
\* and their reading loops find the Go channel closed.
PoolStep ==
  /\ PoolNext
  /\ msg' = Requeue(chan')
  /\ reader' = [r \in Readers |->
                  IF reader[r].ch # NoCh /\ ~chan'[reader[r].ch]
                  THEN [reader[r] EXCEPT !.ch = NoCh,
                          !.buf = IF reader[r].pc = "callback" THEN @ ELSE NoMsg]
                  ELSE reader[r]]
  /\ notify' = ((conn' /\ ~conn) \/ (notify /\ conn'))
  /\ UNCHANGED <<current, cancelled, signals, running, handled, mode>>

\* Some time after the pool has its new connection, when the queues have been
\* declared, every listener gets a signal.
NotifyReconnect ==
  /\ notify
  /\ notify' = FALSE
  /\ signals' = [u \in Consumers |-> signals[u] + 1]
  /\ UNCHANGED <<poolVars, reader, current, cancelled, msg, running, handled, mode>>

\* Prefetch 1: one unacknowledged message per consumer tag.
Deliver(r, m) ==
  /\ reader[r].pc = "read" /\ reader[r].buf = NoMsg /\ reader[r].ch # NoCh
  /\ msg[m].st = "ready"
  /\ reader' = [reader EXCEPT ![r].buf = m]
  /\ msg' = [msg EXCEPT ![m].st = "unacked", ![m].by = reader[r].ch]
  /\ UNCHANGED <<poolVars, current, cancelled, signals, notify, running, handled, mode>>

-----------------------------------------------------------------------------
(* The outer loop                                                          *)

Loop(u) ==
  /\ u \notin cancelled
  /\ Begin(u, "consume")
  /\ UNCHANGED consVars

\* A signal that the outer loop takes has no effect but another round.
LoopTakesSignal(u) ==
  /\ user[u].pc = "idle" /\ u \notin cancelled /\ signals[u] > 0
  /\ signals' = [signals EXCEPT ![u] = @ - 1]
  /\ UNCHANGED <<poolVars, reader, current, cancelled, notify, msg, running, handled, mode>>

\* Consume on the channel and start a reading loop.
Consume(u, r) ==
  /\ user[u].pc = "use" /\ user[u].kind = "consume" /\ chan[user[u].ch]
  /\ reader[r].pc = "none"
  /\ reader' = [reader EXCEPT ![r] = [pc |-> "read", of |-> u, ch |-> user[u].ch,
                                      buf |-> NoMsg]]
  /\ current' = [current EXCEPT ![u] = r]
  /\ user' = [user EXCEPT ![u].pc = "wait"]
  /\ UNCHANGED <<pool, conf, stopping, leaked, faults,
                 cancelled, signals, notify, msg, running, handled, mode>>

\* Return the channel and begin again.  Returning an open channel does not
\* touch what is unacknowledged on it.
Again(u) ==
  /\ GiveBack(user[u].ch)
  /\ user' = [user EXCEPT ![u] = IdleUser]
  /\ current' = [current EXCEPT ![u] = NoReader]
  /\ UNCHANGED <<conn, sent, unconf, stopping>>

\* Mutant: the outer loop returns.
ConsumeFailsForGood(u) ==
  /\ user[u].pc = "use" /\ user[u].kind = "consume" /\ ~chan[user[u].ch]
  /\ GiveBack(user[u].ch)
  /\ user' = [user EXCEPT ![u] = [IdleUser EXCEPT !.pc = "failed"]]
  /\ UNCHANGED <<conn, sent, unconf, stopping, faults, current,
                 reader, cancelled, signals, notify, msg, running, handled, mode>>

\* Qos or Consume fails.
ConsumeFails(u) ==
  /\ user[u].pc = "use" /\ user[u].kind = "consume"
  /\ IF chan[user[u].ch] THEN Fault ELSE UNCHANGED faults
  /\ Again(u)
  /\ UNCHANGED <<reader, cancelled, signals, notify, msg, running, handled, mode>>

\* The reading loop has ended.
LoopEnds(u) ==
  /\ user[u].pc = "wait" /\ reader[current[u]].pc = "none"
  /\ Again(u)
  /\ UNCHANGED <<reader, faults, cancelled, signals, notify, msg, running, handled, mode>>

\* Or callbackTimeout + 10s have passed, and it has not.
LoopStopsWaiting(u) ==
  /\ user[u].pc = "wait" /\ reader[current[u]].pc # "none"
  /\ \E r \in Readers : reader[r].pc = "none"
  /\ Again(u)
  /\ UNCHANGED <<reader, faults, cancelled, signals, notify, msg, running, handled, mode>>

\* The context of the consumer ends: cancel(), or the coordinator's Stop.
Cancel(u) ==
  /\ u \notin cancelled
  /\ cancelled' = cancelled \cup {u}
  /\ UNCHANGED <<poolVars, reader, current, signals, notify, msg, running, handled, mode>>

-----------------------------------------------------------------------------
(* The reading loop                                                        *)

TakeMessage(r) ==
  /\ reader[r].pc = "read" /\ reader[r].buf # NoMsg
  /\ reader' = [reader EXCEPT ![r].pc = "callback"]
  /\ UNCHANGED <<poolVars, current, cancelled, signals, notify, msg, running, handled, mode>>

\* The select of the reading loop ends it: the context is cancelled or the
\* channel closed, a reconnection signal arrives, or the broker cancels the
\* subscription.  A message it has not taken yet stays unacknowledged on the
\* channel, open or not.
ReaderEnds(r) ==
  /\ reader[r].pc = "read"
  /\ reader' = [reader EXCEPT ![r] = NoReading(@.of)]
  /\ UNCHANGED <<pool, user, conf, stopping, leaked,
                 current, cancelled, notify, msg, running, handled, mode>>

\* Mutant: the select has no case for the context.
ReaderStopsOnClose(r) ==
  /\ ReaderEnds(r)
  /\ reader[r].ch = NoCh
  /\ UNCHANGED <<signals, faults>>

ReaderStops(r) ==
  /\ ReaderEnds(r)
  /\ reader[r].of \in cancelled \/ reader[r].ch = NoCh
  /\ UNCHANGED <<signals, faults>>

ReaderTakesSignal(r) ==
  /\ ReaderEnds(r)
  /\ signals[reader[r].of] > 0
  /\ signals' = [signals EXCEPT ![reader[r].of] = @ - 1]
  /\ UNCHANGED faults

SubscriptionCancelled(r) == ReaderEnds(r) /\ Fault /\ UNCHANGED signals

InCallback(r) == reader[r].pc = "callback"
Reads(r) == reader' = [reader EXCEPT ![r].pc = "read", ![r].buf = NoMsg]

\* Ack and Nack reach the broker only while the channel is open; if it was
\* closed the message has been requeued already.
Settle(r, st, retries) ==
  LET m == reader[r].buf IN
  msg' = IF reader[r].ch = NoCh THEN msg
         ELSE [msg EXCEPT ![m] = [st |-> st, by |-> NoCh, retries |-> retries]]

CallbackSucceeds(r) ==
  /\ InCallback(r)
  /\ handled' = handled \cup {reader[r].buf}
  /\ Settle(r, "done", msg[reader[r].buf].retries)
  /\ Reads(r)
  /\ UNCHANGED <<poolVars, current, cancelled, signals, notify, running, mode>>

\* Mutant: acknowledged and never republished.
RepublishForgets(r) ==
  LET m == reader[r].buf IN
  IF msg[m].retries < MaxRetries
  THEN Settle(r, "lost", msg[m].retries + 1) /\ UNCHANGED faults
  ELSE Settle(r, "dropped", msg[m].retries) /\ UNCHANGED faults

ShouldRetryMessage(n) == n < MaxRetries

\* RepublishNack: acknowledge, and then publish a copy with one retry more;
\* a poison message is acknowledged and that is all.
Republish(r) ==
  LET m == reader[r].buf
      n == msg[m].retries
  IN IF ~ShouldRetryMessage(n)
     THEN Settle(r, "dropped", n) /\ UNCHANGED faults
     ELSE \/ Settle(r, "ready", n + 1) /\ UNCHANGED faults
          \/ Settle(r, "lost", n) /\ Fault

CallbackFails(r) ==
  /\ InCallback(r)
  /\ CASE mode = "republish" -> Republish(r)
       [] mode = "requeue" -> Settle(r, "ready", msg[reader[r].buf].retries) /\ UNCHANGED faults
       [] OTHER -> Settle(r, "dropped", msg[reader[r].buf].retries) /\ UNCHANGED faults
  /\ Reads(r)
  /\ UNCHANGED <<pool, user, conf, stopping, leaked,
                 current, cancelled, signals, notify, running, handled, mode>>

\* After callbackTimeout the message is requeued whatever the options say,
\* and its callback still runs.
CallbackTimeout(r) ==
  /\ InCallback(r)
  /\ Fault
  /\ running' = running \cup {reader[r].buf}
  /\ Settle(r, "ready", msg[reader[r].buf].retries)
  /\ Reads(r)
  /\ UNCHANGED <<pool, user, conf, stopping, leaked,
                 current, cancelled, signals, notify, handled, mode>>

\* Nobody listens to its result any more.
LateCallback(m) ==
  /\ m \in running
  /\ running' = running \ {m}
  /\ handled' \in {handled, handled \cup {m}}
  /\ UNCHANGED <<poolVars, reader, current, cancelled, signals, notify, msg, mode>>

-----------------------------------------------------------------------------

Outer(u) ==
  \/ Loop(u) \/ LoopTakesSignal(u) \/ ConsumeFails(u) \/ LoopEnds(u)
  \/ \E r \in Readers : Consume(u, r)

ReadingLoop(r) ==
  \/ TakeMessage(r) \/ ReaderStops(r) \/ ReaderTakesSignal(r)
  \/ CallbackSucceeds(r) \/ CallbackFails(r) \/ \E m \in Messages : Deliver(r, m)

Next ==
  \/ PoolStep \/ NotifyReconnect
  \/ \E u \in Consumers : Outer(u) \/ LoopStopsWaiting(u) \/ Cancel(u)
  \/ \E r \in Readers : ReadingLoop(r) \/ SubscriptionCancelled(r) \/ CallbackTimeout(r)
  \/ \E m \in Messages : LateCallback(m)

Spec == Init /\ [][Next]_vars

\* Goroutines run, the reconnection handler retries for ever, callbacks end.
\* A Go select chooses among its ready cases at random, so that a reading loop
\* does not overlook a cancelled context for ever.
Fairness ==
  /\ WF_vars(Reconnect /\ PoolStep)
  /\ WF_vars(NotifyReconnect)
  /\ \A u \in Users : WF_vars(GetChannel(u) /\ PoolStep)
  /\ \A u \in Consumers : WF_vars(Outer(u))
  /\ \A r \in Readers : WF_vars(ReadingLoop(r)) /\ SF_vars(ReaderStops(r))

FairSpec == Spec /\ Fairness

=============================================================================

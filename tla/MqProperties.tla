---------------------------- MODULE MqProperties ----------------------------
(* What the channel pool and the consumer loop have to keep.               *)
EXTENDS MqConsumer

\* The shape of the pool, the loops and the broker's messages; among others,
\* that no message is retried more than MaxMessageRetries times.
MqTypeOK ==
  /\ PoolTypeOK
  /\ reader \in [Readers -> ReaderStates]
  /\ current \in [Consumers -> Readers \cup {NoReader}]
  /\ cancelled \subseteq Consumers /\ signals \in [Consumers -> Nat]
  /\ notify \in BOOLEAN /\ mode \in Modes
  /\ msg \in [Messages -> MsgStates]
  /\ running \subseteq Messages /\ handled \subseteq Messages

\* A message leaves the queue only because its callback succeeded, or because
\* the options say so; RepublishNack alone can lose one.
NoMessageLost ==
  \A m \in Messages :
    /\ msg[m].st = "done" => m \in handled
    /\ msg[m].st = "dropped" => (mode = "republish" => msg[m].retries = MaxRetries) /\ mode # "requeue"
    /\ msg[m].st = "lost" => mode = "republish" /\ faults > 0
    /\ msg[m].st = "unacked" => chan[msg[m].by]

\* After cancel() or the coordinator's Stop the outer loop and all its reading
\* loops come to an end, whatever they wait for.
CancelEnds ==
  \A u \in Consumers :
    u \in cancelled ~> user[u].pc = "idle" /\ \A r \in Readers : reader[r].pc = "none"

\* A message in the queue is delivered in the end, through lost connections,
\* closed channels and failed subscriptions, unless its consumer is cancelled.
Redelivered ==
  \A m \in Messages : msg[m].st = "ready" ~> (msg[m].st # "ready" \/ cancelled # {})

=============================================================================

--------------------------- MODULE SagaInvariant ---------------------------
(* The inductive invariant behind Shape and RequestedAtMostOnce, for one   *)
(* consumer of the results queue and any number of redeliveries.           *)
EXTENDS SagaProperties

OneConsumer == \A g, h \in Handlers : g = h

\* A pass is under way exactly while the mutex is held.
MutexInv == lock = "held" <=> w.pc # "idle"

\* The last history entry tells an execution from a compensation in every
\* state in which a result is accepted.
HistoryInv ==
  \A i \in Steps :
    /\ step[i] \in {"EP", "EC"} => hist[i] = NoLog
    /\ step[i] = "ER" => hist[i].kind = "exec"
    /\ step[i] \in {"CR", "CF", "CB"} => hist[i].kind = "comp"

\* The pass is about to send its first request of kind k for step i.
Sending(i, k) ==
  w.pc = "process" /\ w.i = i /\ w.st = IF k = "exec" THEN "ER" ELSE "CR"

\* The rows a pass has in memory.  They are stale in two cases only: a
\* redelivered result reached a step whose compensation request is about to
\* be sent, or a blocked step.
PassInv ==
  w.pc \in {"validate", "process", "record"} =>
    /\ \/ step[w.i] = w.st
       \/ w.st \in {"CR", "CB"} /\ step[w.i] \in {"CS", "CF"}
    /\ w.st \in {"ER", "CR"} => w.pc # "validate" /\ ~w.log.sent
    /\ w.pc = "record" => w.st \in {"ER", "CR"}
    /\ w.st = "EC" => w.log = NoLog
    /\ w.st = "ER" => w.log.kind = "exec"
    /\ w.st = "CR" => w.log.kind = "comp"

\* Something about step i is on its way: a request, a result, or a result in
\* a consumer's hands.
Traffic(i) ==
  \/ \E k \in Kinds : <<i, k>> \in requests
  \/ \E m \in results : m.i = i
  \/ \E h \in Handlers : handler[h].busy /\ handler[h].m.i = i

\* There is no traffic about a step before its first request is sent.
TrafficInv ==
  \A i \in Steps : Traffic(i) => step[i] \notin {"EP", "EC"} /\ ~Sending(i, "exec")

\* What a consumer read is still so when it writes.
HandlerInv ==
  \A h \in Handlers : handler[h].busy =>
    \/ handler[h].log.kind = "exec" /\ step[handler[h].m.i] = "ER"
    \/ handler[h].log.kind = "comp" /\ step[handler[h].m.i] \in {"CR", "CB"}

\* Requests sent so far.
SendsInv ==
  \A i \in Steps :
    /\ \A k \in Kinds : sends[i][k] \in {0, 1}
    /\ (step[i] \in {"EP", "EC"} \/ Sending(i, "exec")) => sends[i]["exec"] = 0
    /\ (step[i] \in ExecutionStates \cup {"CP", "CC"} \/ Sending(i, "comp"))
          => sends[i]["comp"] = 0

\* The inductive invariant.
IInv ==
  /\ TypeOK /\ Shape
  /\ MutexInv /\ HistoryInv /\ PassInv
  /\ TrafficInv /\ HandlerInv /\ SendsInv

=============================================================================

---------------------------- MODULE TemplateReload ----------------------------
(* Templates change while the system runs.  Operators (traxctrl, and code    *)
(* that registers templates) write trax.saga_templates, saga_step_templates  *)
(* and clusters; the coordinator follows with reloadSagaTemplates, woken by  *)
(* notifications or by its ticker, and binds the inbox queue of every step;  *)
(* a submission reads the templates in several statements of a transaction   *)
(* while they change.  One template, one coordinator, one submission.        *)
EXTENDS Naturals, Sequences, FiniteSets, FiniteSetsExt

CONSTANTS
  NClusters,   \* cluster ids are 1..NClusters, in the order of ORDER BY id
  NSteps,      \* step template ids, in the order the template lists them
  NotifBuffer, \* capacity of the subscriber's channel (100 in the code)
  MaxChanges,  \* bound: operator's changes and restarts
  MaxFaults    \* bound: crashes and failed calls

ASSUME ReloadAssumption ==
  /\ NClusters \in Nat /\ NSteps \in Nat /\ NotifBuffer \in Nat
  /\ MaxChanges \in Nat /\ MaxFaults \in Nat

Clusters == 1..NClusters
Steps == 1..NSteps

VARIABLES
  tmpl,      \* the row of saga_templates: is it there, and which steps it lists
  stepRows,  \* rows of saga_step_templates
  deleting,  \* DeleteSagaTemplate is between its two statements
  clusters,  \* rows of trax.clusters
  exchanges, \* clusters whose topic exchange exists in the broker
  bound,     \* <<cluster, step>>: the executor's inbox queue is declared and bound
  marked,    \* c.initializedSteps
  notes,     \* the channel of the reload loop's subscription
  co,        \* the coordinator: in Start or in the loop, and where in a reload
  sg,        \* the submission
  changes, faults

storeVars == <<tmpl, stepRows, deleting, clusters>>
mqVars == <<exchanges, bound>>
coVars == <<marked, notes, co>>
vars == <<storeVars, mqVars, coVars, sg, changes, faults>>

Down == [pc |-> "down", starting |-> TRUE, cs |-> {}, cur |-> 0, ts |-> {}]
NoSaga == [pc |-> "idle", ids |-> {}, done |-> {}]

Init ==
  /\ tmpl = [there |-> FALSE, ids |-> {}] /\ stepRows = {} /\ deleting = FALSE
  /\ clusters \in SUBSET Clusters
  /\ exchanges = {} /\ bound = {} /\ marked = {} /\ notes = <<>>
  /\ co = Down /\ sg = NoSaga
  /\ changes = 0 /\ faults = 0

Change == changes < MaxChanges /\ changes' = changes + 1
Fault == faults < MaxFaults /\ faults' = faults + 1

-----------------------------------------------------------------------------
(* Notifications                                                            *)

\* The loop subscribes when it starts, after the reload of Start.
Subscribed == co.pc # "down" /\ ~co.starting

\* The broadcaster drops what does not fit into the subscriber's channel.
Broadcast(n) ==
  notes' = IF Subscribed /\ Len(notes) < NotifBuffer THEN Append(notes, n) ELSE notes

\* pg_notify, whose error nobody looks at, then the listener, which loses what
\* is sent while it reconnects.
Notify(n) == UNCHANGED notes \/ Broadcast(n)

-----------------------------------------------------------------------------
(* The operators.  A statement that would break a foreign key fails, and one *)
(* that needs a row an open transaction refers to waits for its end: both    *)
(* are steps that do not happen.                                             *)

\* Mutant: the step rows of a saga have no foreign key to their templates.
NoStepReferences == {}

\* Step templates that rows of saga_step_instances refer to.
StepReferences == IF sg.pc \in {"inserting", "stored"} THEN sg.done ELSE {}
\* Does a row of saga_instances refer to the template?
TemplateReferenced == sg.pc \in {"inserting", "stored"}

\* A template, and a step template, is inserted unless it is there.
SaveSagaTemplateIdempotently ==
  tmpl' = IF tmpl.there THEN tmpl ELSE [there |-> TRUE, ids |-> Steps]
SaveSagaStepTemplatesIdempotently == stepRows' = stepRows \cup Steps

\* Templates are registered by code, in one transaction.
CreateTemplates ==
  /\ Change
  /\ SaveSagaTemplateIdempotently
  /\ SaveSagaStepTemplatesIdempotently
  /\ <<tmpl', stepRows'>> # <<tmpl, stepRows>>
  /\ Notify("create")
  /\ UNCHANGED <<deleting, clusters, mqVars, marked, co, sg, faults>>

\* The PUT of a saga template replaces the list of its steps.
UpdateSagaTemplate(ids) ==
  /\ Change
  /\ tmpl.there /\ tmpl' = [tmpl EXCEPT !.ids = ids]
  /\ Notify("update")
  /\ UNCHANGED <<stepRows, deleting, clusters, mqVars, marked, co, sg, faults>>

\* The PUT of a step template touches nothing the coordinator looks at.
UpdateSagaStepTemplate ==
  /\ Change /\ stepRows # {}
  /\ Notify("update")
  /\ UNCHANGED <<storeVars, mqVars, marked, co, sg, faults>>

DeleteSagaStepTemplate(s) ==
  /\ Change
  /\ s \in stepRows \ StepReferences /\ stepRows' = stepRows \ {s}
  /\ Notify("update")
  /\ UNCHANGED <<tmpl, deleting, clusters, mqVars, marked, co, sg, faults>>

\* DeleteSagaTemplate: two statements, each a transaction of its own.
DeleteSteps ==
  /\ Change
  /\ ~deleting /\ stepRows \cap StepReferences = {}
  /\ stepRows' = {} /\ deleting' = TRUE
  /\ UNCHANGED <<tmpl, clusters, mqVars, coVars, sg, faults>>

\* The second statement deletes the template, finds none, or breaks a foreign
\* key: of a saga, or of a step template saved in between.
DeleteTemplate ==
  /\ deleting /\ deleting' = FALSE
  /\ IF tmpl.there /\ stepRows = {} /\ ~TemplateReferenced
     THEN tmpl' = [there |-> FALSE, ids |-> {}] /\ Notify("delete")
     ELSE UNCHANGED <<tmpl, notes>>
  /\ UNCHANGED <<stepRows, clusters, mqVars, marked, co, sg, changes, faults>>

\* traxctrl dies, or loses its connection, between the two.
DeleteDies ==
  /\ Fault
  /\ deleting /\ deleting' = FALSE
  /\ UNCHANGED <<tmpl, stepRows, clusters, mqVars, coVars, sg, changes>>

SaveCluster(c) ==
  /\ Change
  /\ c \notin clusters /\ clusters' = clusters \cup {c}
  /\ UNCHANGED <<tmpl, stepRows, deleting, mqVars, coVars, sg, faults>>

DeleteCluster(c) ==
  /\ Change
  /\ c \in clusters /\ clusters' = clusters \ {c}
  /\ UNCHANGED <<tmpl, stepRows, deleting, mqVars, coVars, sg, faults>>

\* An executor that starts declares the exchange and its own inbox.
ExecutorStarts(c, s) ==
  /\ Change
  /\ exchanges' = exchanges \cup {c} /\ bound' = bound \cup {<<c, s>>}
  /\ <<c, s>> \notin bound
  /\ UNCHANGED <<storeVars, coVars, sg, faults>>

-----------------------------------------------------------------------------
(* The coordinator                                                          *)

\* A reload that fails: Start returns the error, the loop waits for the next
\* notification or tick.
Abort == [co EXCEPT !.pc = IF co.starting THEN "failed" ELSE "loop", !.cs = {}, !.ts = {}]

\* Start declares the exchange of every cluster there is, then reloads.
StartClusters ==
  /\ co.pc = "down"
  /\ exchanges' = exchanges \cup clusters
  /\ co' = [co EXCEPT !.pc = "listing"]
  /\ UNCHANGED <<storeVars, bound, marked, notes, sg, changes, faults>>

\* A template was deleted: its steps are unmarked in the clusters there are.
handleTemplateDeleted == marked' = marked \ (clusters \X Steps)

\* A notification wakes the loop.  That of a deletion is handled at once, unless
\* the clusters cannot be listed; then the templates are read again.
WakeByNotification ==
  /\ co.pc = "loop" /\ notes # <<>>
  /\ notes' = Tail(notes) /\ co' = [co EXCEPT !.pc = "listing"]
  /\ \/ /\ IF Head(notes) = "delete" THEN handleTemplateDeleted ELSE UNCHANGED marked
        /\ UNCHANGED faults
     \/ /\ Head(notes) = "delete" /\ Fault
        /\ UNCHANGED marked
  /\ UNCHANGED <<storeVars, mqVars, sg, changes>>

\* The ticker, every templateReloadInterval.
Tick ==
  /\ co.pc = "loop"
  /\ co' = [co EXCEPT !.pc = "listing"]
  /\ UNCHANGED <<storeVars, mqVars, marked, notes, sg, changes, faults>>

\* reloadSagaTemplates: the clusters are listed once,
ListClusterIds ==
  /\ co.pc = "listing"
  /\ co' = [co EXCEPT !.pc = "reload", !.cs = clusters, !.ts = {}]
  /\ UNCHANGED <<storeVars, mqVars, marked, notes, sg, changes, faults>>

\* the templates once for every cluster,
ListSagaTemplates ==
  /\ co.pc = "reload" /\ co.ts = {} /\ co.cs # {}
  /\ co' = [co EXCEPT !.cur = Min(co.cs), !.cs = @ \ {Min(@)},
                      !.ts = IF tmpl.there THEN tmpl.ids ELSE {}]
  /\ UNCHANGED <<storeVars, mqVars, marked, notes, sg, changes, faults>>

\* Mutant: the step is marked before its queue is declared, whatever comes of it.
InitStepMarksFirst ==
  /\ co.pc = "reload" /\ co.ts # {}
  /\ LET q == <<co.cur, Min(co.ts)>>
     IN \/ /\ q \in marked
           /\ co' = [co EXCEPT !.ts = @ \ {Min(@)}]
           /\ UNCHANGED <<bound, marked, faults>>
        \/ /\ q \notin marked /\ co.cur \in exchanges
           /\ bound' = bound \cup {q} /\ marked' = marked \cup {q}
           /\ co' = [co EXCEPT !.ts = @ \ {Min(@)}]
           /\ UNCHANGED faults
        \/ /\ q \notin marked
           /\ IF co.cur \in exchanges THEN Fault ELSE UNCHANGED faults
           /\ co' = Abort /\ marked' = marked \cup {q}
           /\ UNCHANGED bound
  /\ UNCHANGED <<storeVars, exchanges, notes, sg, changes>>

\* and every step that is not marked gets its queue, bound to the exchange of
\* the cluster: without that exchange the binding fails and ends the reload.
InitStep ==
  /\ co.pc = "reload" /\ co.ts # {}
  /\ LET q == <<co.cur, Min(co.ts)>>
     IN \/ /\ q \in marked
           /\ co' = [co EXCEPT !.ts = @ \ {Min(@)}]
           /\ UNCHANGED <<bound, marked, faults>>
        \/ /\ q \notin marked /\ co.cur \in exchanges
           /\ bound' = bound \cup {q} /\ marked' = marked \cup {q}
           /\ co' = [co EXCEPT !.ts = @ \ {Min(@)}]
           /\ UNCHANGED faults
        \/ /\ q \notin marked
           /\ IF co.cur \in exchanges THEN Fault ELSE UNCHANGED faults
           /\ co' = Abort
           /\ UNCHANGED <<bound, marked>>
  /\ UNCHANGED <<storeVars, exchanges, notes, sg, changes>>

ReloadDone ==
  /\ co.pc = "reload" /\ co.ts = {} /\ co.cs = {}
  /\ co' = [co EXCEPT !.pc = "loop", !.starting = FALSE]
  /\ UNCHANGED <<storeVars, mqVars, marked, notes, sg, changes, faults>>

\* A list that cannot be read.
ListFails ==
  /\ Fault
  /\ co.pc = "listing" \/ (co.pc = "reload" /\ co.ts = {} /\ co.cs # {})
  /\ co' = Abort
  /\ UNCHANGED <<storeVars, mqVars, marked, notes, sg, changes>>

\* Restart: Stop waits for the loop to end a reload, then forgets the marks and
\* closes the subscription.  After a Start that failed, Stop does nothing.
Restart ==
  /\ \/ co.pc = "loop" /\ Change /\ marked' = {} /\ notes' = <<>>
     \/ co.pc = "failed" /\ UNCHANGED <<marked, notes, changes>>
  /\ co' = Down
  /\ UNCHANGED <<storeVars, mqVars, sg, faults>>

\* The process dies and is started again.
Crash ==
  /\ Fault
  /\ co.pc # "down" /\ co' = Down
  /\ marked' = {} /\ notes' = <<>>
  /\ sg' = IF sg.pc = "stored" THEN sg ELSE NoSaga
  /\ UNCHANGED <<storeVars, mqVars, changes>>

-----------------------------------------------------------------------------
(* A submission: a transaction (READ COMMITTED) that reads the template, then *)
(* each step template it lists, then inserts the saga and each of its steps.  *)

GetSagaTemplate ==
  /\ sg.pc = "idle"
  /\ tmpl.there
  /\ sg' = [pc |-> "reading", ids |-> tmpl.ids, done |-> {}]
  /\ UNCHANGED <<storeVars, mqVars, coVars, changes, faults>>

GetSagaStepTemplate ==
  /\ sg.pc = "reading" /\ sg.done # sg.ids
  /\ LET s == Min(sg.ids \ sg.done)
     IN sg' = IF s \in stepRows THEN [sg EXCEPT !.done = @ \cup {s}] ELSE NoSaga
  /\ UNCHANGED <<storeVars, mqVars, coVars, changes, faults>>

\* The saga row refers to the template, each step row to its step template; a
\* reference to a row that is gone fails, and everything is rolled back.
SaveSagaInstance ==
  /\ sg.pc = "reading" /\ sg.done = sg.ids
  /\ sg' = IF tmpl.there THEN [sg EXCEPT !.pc = "inserting", !.done = {}] ELSE NoSaga
  /\ UNCHANGED <<storeVars, mqVars, coVars, changes, faults>>

SaveSagaStepInstance ==
  /\ sg.pc = "inserting" /\ sg.done # sg.ids
  /\ LET s == Min(sg.ids \ sg.done)
     IN sg' = IF s \in stepRows THEN [sg EXCEPT !.done = @ \cup {s}] ELSE NoSaga
  /\ UNCHANGED <<storeVars, mqVars, coVars, changes, faults>>

CommitTransaction ==
  /\ sg.pc = "inserting" /\ sg.done = sg.ids
  /\ sg' = [sg EXCEPT !.pc = "stored"]
  /\ UNCHANGED <<storeVars, mqVars, coVars, changes, faults>>

-----------------------------------------------------------------------------
Operator ==
  \/ CreateTemplates \/ \E ids \in SUBSET Steps : UpdateSagaTemplate(ids)
  \/ UpdateSagaStepTemplate \/ \E s \in Steps : DeleteSagaStepTemplate(s)
  \/ DeleteSteps \/ DeleteTemplate \/ DeleteDies
  \/ \E c \in Clusters : SaveCluster(c) \/ DeleteCluster(c)

Loop ==
  \/ StartClusters \/ WakeByNotification \/ ListClusterIds \/ ListSagaTemplates
  \/ InitStep \/ ReloadDone

Submit ==
  \/ GetSagaTemplate \/ GetSagaStepTemplate \/ SaveSagaInstance
  \/ SaveSagaStepInstance \/ CommitTransaction

Next ==
  \/ Operator \/ Loop \/ Tick \/ ListFails \/ Restart \/ Crash \/ Submit
  \/ \E c \in Clusters, s \in Steps : ExecutorStarts(c, s)

Spec == Init /\ [][Next]_vars

\* The coordinator's goroutines run and its ticker ticks.  Nobody is bound to
\* repeat a Start that failed: the daemon drops its error.
FairSpec == Spec /\ WF_vars(Loop) /\ WF_vars(Tick)

-----------------------------------------------------------------------------
ReloadTypeOK ==
  /\ tmpl \in [there: BOOLEAN, ids: SUBSET Steps] /\ stepRows \subseteq Steps
  /\ deleting \in BOOLEAN /\ clusters \subseteq Clusters /\ exchanges \subseteq Clusters
  /\ bound \subseteq Clusters \X Steps /\ marked \subseteq bound
  /\ notes \in Seq({"create", "update", "delete"}) /\ Len(notes) <= NotifBuffer
  /\ co \in [pc: {"down", "listing", "reload", "loop", "failed"}, starting: BOOLEAN,
             cs: SUBSET Clusters, cur: {0} \cup Clusters, ts: SUBSET Steps]
  /\ sg \in [pc: {"idle", "reading", "inserting", "stored"}, ids: SUBSET Steps,
             done: SUBSET Steps]

(* A saga that is stored keeps its template and the templates of all its      *)
(* steps, although DeleteSagaTemplate runs as two statements, the submission  *)
(* read the templates long before it wrote, and nothing locks what is read.   *)
InstanceKeepsTemplates ==
  sg.pc = "stored" => tmpl.there /\ sg.done = sg.ids /\ sg.ids \subseteq stepRows

Wanted(c, s) == c \in clusters /\ tmpl.there /\ s \in tmpl.ids
\* A cluster created since the last Start has no exchange, and a reload ends at
\* the first binding that fails: this cluster and all after it get no queues.
Obstructed(c) == \E d \in clusters \ exchanges : d <= c

(* Every step a template lists gets its inbox queue in every cluster, without *)
(* a restart and whatever happened to the notifications, the calls and the    *)
(* marks, as long as the template and the clusters stay as they are, Start    *)
(* has not failed for good and no cluster at or before this one lacks its     *)
(* exchange.                                                                  *)
QueuesFollowTemplates ==
  \A c \in Clusters, s \in Steps :
    <>[](Wanted(c, s) /\ ~Obstructed(c) /\ co.pc # "failed") => <>[](<<c, s>> \in bound)
=============================================================================

---------------------------- MODULE TemplateProofs ----------------------------
(* For any number of clusters, steps, changes and faults: a stored saga keeps *)
(* its template and the templates of its steps.                               *)
EXTENDS TemplateReload, TLAPS

\* From the first row it inserts, a submission's references hold: to the
\* template, and to the step templates whose step rows are inserted.
References ==
  /\ tmpl \in [there: BOOLEAN, ids: SUBSET Steps] /\ stepRows \subseteq Steps
  /\ sg \in [pc: {"idle", "reading", "inserting", "stored"}, ids: SUBSET Steps,
             done: SUBSET Steps]
  /\ sg.pc \in {"inserting", "stored"} => tmpl.there /\ sg.done \subseteq stepRows
  /\ sg.pc = "stored" => sg.done = sg.ids

USE DEF References, storeVars, mqVars, coVars

(* What an operator deletes is not referred to.                               *)
LEMMA OperatorKeeps == References /\ Operator => References'
<1> SUFFICES ASSUME References, Operator PROVE References'
  OBVIOUS
<1>1. CASE CreateTemplates
  BY <1>1 DEF CreateTemplates, SaveSagaTemplateIdempotently, SaveSagaStepTemplatesIdempotently
<1>2. ASSUME NEW ids \in SUBSET Steps, UpdateSagaTemplate(ids) PROVE References'
  <2>1. /\ tmpl' \in [there: BOOLEAN, ids: SUBSET Steps] /\ tmpl'.there
        /\ UNCHANGED <<stepRows, sg>>
    BY <1>2 DEF UpdateSagaTemplate
  <2> QED  BY <2>1
<1>3. ASSUME NEW s \in Steps, DeleteSagaStepTemplate(s) PROVE References'
  BY <1>3 DEF DeleteSagaStepTemplate, StepReferences
<1>4. CASE DeleteSteps
  BY <1>4 DEF DeleteSteps, StepReferences
<1>5. CASE DeleteTemplate
  <2>1. /\ \/ tmpl' = tmpl
           \/ tmpl' = [there |-> FALSE, ids |-> {}] /\ ~TemplateReferenced
        /\ UNCHANGED <<stepRows, sg>>
    BY <1>5 DEF DeleteTemplate
  <2>2. tmpl' \in [there: BOOLEAN, ids: SUBSET Steps]
    <3>1. CASE tmpl' = tmpl
      BY <3>1
    <3>2. CASE tmpl' = [there |-> FALSE, ids |-> {}]
      BY <3>2
    <3> QED  BY <2>1, <3>1, <3>2
  <2>3. sg.pc \in {"inserting", "stored"} => tmpl' = tmpl
    BY <2>1 DEF TemplateReferenced
  <2> QED  BY <2>1, <2>2, <2>3
<1>6. CASE UpdateSagaStepTemplate \/ DeleteDies \/ \E c \in Clusters : SaveCluster(c) \/ DeleteCluster(c)
  BY <1>6 DEF UpdateSagaStepTemplate, DeleteDies, SaveCluster, DeleteCluster
<1> QED  BY <1>1, <1>2, <1>3, <1>4, <1>5, <1>6 DEF Operator

(* What the submission inserts refers to rows that are there.                 *)
LEMMA SubmitKeeps == References /\ Submit => References'
<1> SUFFICES ASSUME References, Submit PROVE References'
  OBVIOUS
<1>1. CASE GetSagaTemplate
  BY <1>1 DEF GetSagaTemplate
<1>2. CASE GetSagaStepTemplate
  BY <1>2 DEF GetSagaStepTemplate, NoSaga
<1>3. CASE SaveSagaInstance
  BY <1>3 DEF SaveSagaInstance, NoSaga
<1>4. CASE SaveSagaStepInstance
  BY <1>4 DEF SaveSagaStepInstance, NoSaga
<1>5. CASE CommitTransaction
  BY <1>5 DEF CommitTransaction
<1> QED  BY <1>1, <1>2, <1>3, <1>4, <1>5 DEF Submit

(* The coordinator's loop and the executors do not write these tables.        *)
LEMMA OthersKeep ==
  ASSUME References,
         \/ Loop \/ Tick \/ ListFails \/ Restart \/ Crash
         \/ \E c \in Clusters, s \in Steps : ExecutorStarts(c, s)
  PROVE  References'
<1>1. CASE Loop
  BY <1>1 DEF Loop, StartClusters, WakeByNotification, ListClusterIds, ListSagaTemplates,
              InitStep, ReloadDone
<1>2. CASE Crash
  BY <1>2 DEF Crash, NoSaga
<1>3. CASE \/ Tick \/ ListFails \/ Restart
           \/ \E c \in Clusters, s \in Steps : ExecutorStarts(c, s)
  BY <1>3 DEF Tick, ListFails, Restart, ExecutorStarts
<1> QED  BY <1>1, <1>2, <1>3

(* However templates are deleted, updated and registered again while a saga   *)
(* is being submitted (DeleteSagaTemplate in two statements, the submission   *)
(* reading first and writing later), a saga that is stored keeps its          *)
(* templates: for every number of clusters, steps, changes and faults.        *)
THEOREM InstanceTemplates == Spec => []InstanceKeepsTemplates
<1>1. Init => References
  BY DEF Init, NoSaga
<1>2. References /\ [Next]_vars => References'
  BY OperatorKeeps, SubmitKeeps, OthersKeep DEF Next, vars
<1>3. References => InstanceKeepsTemplates
  BY DEF InstanceKeepsTemplates
<1> QED  BY <1>1, <1>2, <1>3, PTL DEF Spec
=============================================================================

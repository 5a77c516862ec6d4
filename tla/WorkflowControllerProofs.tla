------------------------ MODULE WorkflowControllerProofs ------------------------
(***************************************************************************)
(* Proofs about WorkflowController, for every value of its constants.      *)
(*                                                                         *)
(* First the types.  Then dependencies are honoured and the published      *)
(* status is right, for every set of steps and every dependency relation:  *)
(* the worker decides on old copies, but every copy was right when it was  *)
(* made, and what makes it right (jobs that have finished) is never        *)
(* undone.  Then the labels of the jobs, the jobs that stay, and removals. *)
(***************************************************************************)
EXTENDS WorkflowController, TLAPS

--------------------------------------------------------------------------------
(* Label sets.                                                               *)

(* Merging two label sets gives a label set. *)
LEMMA MergeType ==
    ASSUME NEW f \in LabelSet, NEW g \in LabelSet
    PROVE  Merge(f, g) \in LabelSet
<1>1. PICK K \in SUBSET LabelKeys : f \in [K -> LabelValues]
  BY DEF LabelSet
<1>2. PICK L \in SUBSET LabelKeys : g \in [L -> LabelValues]
  BY DEF LabelSet
<1>3. Merge(f, g) \in [K \cup L -> LabelValues]
  BY <1>1, <1>2 DEF Merge
<1>4. K \cup L \in SUBSET LabelKeys
  OBVIOUS
<1> QED
  BY <1>3, <1>4 DEF LabelSet

(* A key of the overriding map keeps the value it has there. *)
LEMMA MergeOverrides ==
    ASSUME NEW f, NEW g, NEW k \in DOMAIN g
    PROVE  k \in DOMAIN Merge(f, g) /\ Merge(f, g)[k] = g[k]
BY DEF Merge

(* The labels of a step's job are a label set and name the step. *)
LEMMA JobLabels ==
    ASSUME NEW o \in Workflow, NEW s \in Steps
    PROVE  /\ getJobLabelsSetFromWorkflow(o, s) \in JobLabelSet
           /\ getJobLabelsSetFromWorkflow(o, s) \in LabelSet
           /\ WorkflowStepLabelKey \in DOMAIN getJobLabelsSetFromWorkflow(o, s)
           /\ getJobLabelsSetFromWorkflow(o, s)[WorkflowStepLabelKey] = s
<1> DEFINE K == {WorkflowLabelKey, WorkflowStepLabelKey}
<1>1. OwnLabels(s) \in [K -> LabelValues]
  BY ClusterAssumption, ControllerAssumption DEF OwnLabels
<1>2. OwnLabels(s) \in LabelSet
  BY <1>1, ClusterAssumption DEF LabelSet
<1>3. Merge(o.sel, TemplateLabels[s]) \in LabelSet
  BY MergeType, ControllerAssumption DEF Workflow
<1>4. getJobLabelsSetFromWorkflow(o, s) \in LabelSet
  BY <1>2, <1>3, MergeType DEF getJobLabelsSetFromWorkflow
<1>5. WorkflowStepLabelKey # WorkflowLabelKey
  BY DEF WorkflowStepLabelKey, WorkflowLabelKey
<1>6. WorkflowStepLabelKey \in DOMAIN OwnLabels(s) /\ OwnLabels(s)[WorkflowStepLabelKey] = s
  BY <1>5 DEF OwnLabels
<1> QED
  BY <1>4, <1>6, MergeOverrides DEF getJobLabelsSetFromWorkflow, JobLabelSet

(* What a selector with a step label matches carries that label. *)
LEMMA MatchesStep ==
    ASSUME NEW o \in Workflow, NEW s \in Steps, NEW j,
           Matches(getJobLabelsSetFromWorkflow(o, s), j.labels)
    PROVE  WorkflowStepLabelKey \in DOMAIN j.labels /\ Step(j) = s
BY JobLabels DEF Matches, Step

--------------------------------------------------------------------------------
(* Type correctness.                                                         *)

(* Writing and removing the workflow keep the store's types. *)
LEMMA WriteWorkflowType ==
    ASSUME ClusterTypeOK, NEW o \in Workflow, WriteWorkflow(o)
    PROVE  wf' \in Workflow \cup {Nil} /\ wfWatch' \in Seq(WorkflowEvent)
<1>1. NextVersion(o) \in Workflow
  BY DEF NextVersion, Workflow
<1>2. [type |-> "set", obj |-> NextVersion(o)] \in WorkflowEvent
  BY <1>1 DEF WorkflowEvent
<1> QED
  BY <1>1, <1>2 DEF ClusterTypeOK, WriteWorkflow

LEMMA RemoveWorkflowType ==
    ASSUME ClusterTypeOK, wf # Nil, RemoveWorkflow
    PROVE  wf' \in Workflow \cup {Nil} /\ wfWatch' \in Seq(WorkflowEvent)
<1>1. [type |-> "del", obj |-> wf] \in WorkflowEvent
  BY DEF WorkflowEvent, ClusterTypeOK
<1> QED
  BY <1>1 DEF ClusterTypeOK, RemoveWorkflow

LEMMA WriteJobType ==
    ASSUME ClusterTypeOK, NEW j \in Job, WriteJob(j)
    PROVE  jobs' \subseteq Job /\ jobWatch' \in Seq(JobEvent)
<1>1. [type |-> "set", obj |-> j] \in JobEvent
  BY DEF JobEvent
<1> QED
  BY <1>1 DEF ClusterTypeOK, WriteJob

LEMMA RemoveJobType ==
    ASSUME ClusterTypeOK, NEW j \in jobs, RemoveJob(j)
    PROVE  jobs' \subseteq Job /\ jobWatch' \in Seq(JobEvent)
<1>1. [type |-> "del", obj |-> j] \in JobEvent
  BY DEF JobEvent, ClusterTypeOK
<1> QED
  BY <1>1 DEF ClusterTypeOK, RemoveJob

LEMMA updateWorkflowType ==
    ASSUME ClusterTypeOK, NEW o \in Workflow, updateWorkflow(o)
    PROVE  /\ wf' \in Workflow \cup {Nil} /\ wfWatch' \in Seq(WorkflowEvent)
           /\ faults' \in Nat
<1>2. CASE NoFault /\ UpdateAccepted(o) /\ WriteWorkflow(o)
  BY <1>2, WriteWorkflowType DEF ClusterTypeOK, NoFault
<1>3. CASE NoFault /\ ~UpdateAccepted(o) /\ UNCHANGED wfStore
  BY <1>3 DEF ClusterTypeOK, NoFault, wfStore
<1>4. CASE Fault /\ UNCHANGED wfStore
  BY <1>4 DEF ClusterTypeOK, Fault, wfStore
<1> QED
  BY <1>2, <1>3, <1>4 DEF updateWorkflow

LEMMA deleteWorkflowType ==
    ASSUME ClusterTypeOK, NEW err \in BOOLEAN, deleteWorkflow(err)
    PROVE  /\ wf' \in Workflow \cup {Nil} /\ wfWatch' \in Seq(WorkflowEvent)
           /\ faults' \in Nat
<1>1. CASE ~err /\ NoFault /\ wf # Nil /\ ~wf.deleting /\ RemoveWorkflow
  BY <1>1, RemoveWorkflowType DEF ClusterTypeOK, NoFault
<1>2. CASE UNCHANGED wfStore /\ (NoFault \/ Fault)
  BY <1>2 DEF ClusterTypeOK, NoFault, Fault, wfStore
<1> QED
  BY <1>1, <1>2 DEF deleteWorkflow

(* The actions of users, of the Job controller and of the clock. *)
LEMMA EnvironmentType ==
    ASSUME ClusterTypeOK, Environment
    PROVE  ClusterTypeOK'
<1>1. ASSUME NEW s \in Submissions, UserCreate(s) PROVE ClusterTypeOK'
  <2>1. s \in Submission
    BY ClusterAssumption
  <2>2. NewWorkflow(s) \in Workflow
    BY <2>1, ClusterAssumption
    DEF NewWorkflow, NoStatus, StepStatus, ClusterTypeOK, Workflow, Submission
  <2>3. wf' \in Workflow \cup {Nil} /\ wfWatch' \in Seq(WorkflowEvent)
    BY <1>1, <2>2, WriteWorkflowType DEF UserCreate
  <2>4. born' \in Seq(Submission)
    BY <1>1, <2>1 DEF UserCreate, ClusterTypeOK
  <2> QED
    BY <1>1, <2>3, <2>4 DEF UserCreate, ClusterTypeOK, jobStore, caches
<1>2. ASSUME NEW s \in Submissions, UserEdit(s) PROVE ClusterTypeOK'
  <2> DEFINE o == [wf EXCEPT !.defaulted = s.defaulted, !.valid = s.valid,
                             !.sel = UserSelector]
  <2>1. s \in Submission
    BY ClusterAssumption
  <2>2. wf \in Workflow
    BY <1>2 DEF UserEdit, ClusterTypeOK
  <2>3. o \in Workflow
    BY <2>1, <2>2, ClusterAssumption DEF Workflow, Submission
  <2> QED
    BY <1>2, <2>3, WriteWorkflowType
    DEF UserEdit, Edit, ClusterTypeOK, jobStore, caches
<1>3. CASE UserDelete
  <2>1. wf \in Workflow
    BY <1>3 DEF UserDelete, ClusterTypeOK
  <2>2. [wf EXCEPT !.deleting = TRUE] \in Workflow
    BY <2>1 DEF Workflow
  <2>3. wf' \in Workflow \cup {Nil} /\ wfWatch' \in Seq(WorkflowEvent)
    BY <1>3, <2>2, WriteWorkflowType, RemoveWorkflowType DEF UserDelete
  <2> QED
    BY <1>3, <2>3 DEF UserDelete, Edit, ClusterTypeOK, jobStore, caches
<1>4. CASE Finalize
  BY <1>4, RemoveWorkflowType DEF Finalize, ClusterTypeOK, jobStore, caches, history
<1>5. ASSUME NEW j \in jobs, JobFinishes(j) PROVE ClusterTypeOK'
  <2>1. j \in Job
    BY DEF ClusterTypeOK
  <2>2. [j EXCEPT !.finished = TRUE] \in Job
    BY <2>1 DEF Job
  <2>3. <<Step(j), j.uid>> \in Steps \X (Nat \ {0})
    BY <2>1 DEF Job, JobLabelSet, Step
  <2> QED
    BY <1>5, <2>2, <2>3, WriteJobType DEF JobFinishes, ClusterTypeOK, wfStore, caches
<1>6. ASSUME NEW j \in jobs, JobGone(j) PROVE ClusterTypeOK'
  BY <1>6, RemoveJobType DEF JobGone, Edit, ClusterTypeOK, wfStore, caches
<1>7. CASE Tick
  BY <1>7 DEF Tick, ClusterTypeOK, wfStore, jobStore, caches, history
<1> QED
  BY <1>1, <1>2, <1>3, <1>4, <1>5, <1>6, <1>7 DEF Environment

(* The informers. *)
LEMMA InformersType ==
    ASSUME ClusterTypeOK, CacheWorkflow \/ CacheJob \/ Resync \/ Relist
    PROVE  ClusterTypeOK'
<1>1. CASE CacheWorkflow
  <2> DEFINE e == Head(wfWatch)
             note == [type |-> IF e.type = "del" THEN "delete"
                               ELSE IF wfCache = Nil THEN "add" ELSE "update",
                      obj |-> e.obj]
  <2>1. e \in WorkflowEvent /\ wfWatch' \in Seq(WorkflowEvent)
    BY <1>1 DEF CacheWorkflow, ClusterTypeOK
  <2>2. note \in WorkflowNote /\ e.obj \in Workflow
    BY <2>1 DEF WorkflowEvent, WorkflowNote
  <2>3. wfCache' \in Workflow \cup {Nil} /\ wfNotes' \in Seq(WorkflowNote)
    BY <1>1, <2>2 DEF CacheWorkflow, ClusterTypeOK
  <2>4. unsynced' \in [wf : Nat, job : Nat]
    <3>1. unsynced \in [wf : Nat, job : Nat]
      BY DEF ClusterTypeOK
    <3>2. unsynced' = [unsynced EXCEPT !.wf = IF @ > 0 THEN @ - 1 ELSE 0]
      BY <1>1 DEF CacheWorkflow
    <3> QED
      BY <3>1, <3>2
  <2> QED
    BY <1>1, <2>1, <2>3, <2>4 DEF CacheWorkflow, ClusterTypeOK, jobStore, history
<1>2. CASE CacheJob
  <2> DEFINE e == Head(jobWatch)
  <2>1. e \in JobEvent /\ jobWatch' \in Seq(JobEvent)
    BY <1>2 DEF CacheJob, ClusterTypeOK
  <2>2. e.obj \in Job
    BY <2>1 DEF JobEvent
  <2>3. jobCache' \subseteq Job /\ jobNotes' \in Seq(Job)
    BY <1>2, <2>2 DEF CacheJob, ClusterTypeOK
  <2>4. unsynced' \in [wf : Nat, job : Nat]
    <3>1. unsynced \in [wf : Nat, job : Nat]
      BY DEF ClusterTypeOK
    <3>2. unsynced' = [unsynced EXCEPT !.job = IF @ > 0 THEN @ - 1 ELSE 0]
      BY <1>2 DEF CacheJob
    <3> QED
      BY <3>1, <3>2
  <2> QED
    BY <1>2, <2>1, <2>3, <2>4 DEF CacheJob, ClusterTypeOK, wfStore, history
<1>3. CASE Resync
  <2>1. [type |-> "update", obj |-> wfCache] \in WorkflowNote
    BY <1>3 DEF Resync, ClusterTypeOK, WorkflowNote
  <2> QED
    BY <1>3, <2>1 DEF Resync, ClusterTypeOK, wfStore, jobStore, history
<1>4. CASE Relist
  <2>1. PICK f \in Orders(jobs) :
           /\ jobWatch' = [k \in DOMAIN f |-> [type |-> "set", obj |-> f[k]]]
           /\ unsynced' = [wf |-> IF wf = Nil THEN 0 ELSE 1, job |-> Len(f)]
    BY <1>4 DEF Relist
  <2>2. PICK n \in Nat : f \in [1..n -> jobs]
    BY ClusterAssumption DEF Orders
  <2>3. \A k \in 1..n : [type |-> "set", obj |-> f[k]] \in JobEvent
    BY <2>2 DEF ClusterTypeOK, JobEvent
  <2>4. jobWatch' \in Seq(JobEvent) /\ Len(f) \in Nat
    BY <2>1, <2>2, <2>3
  <2>5. unsynced' \in [wf : Nat, job : Nat]
    BY <2>1, <2>4
  <2>6. wf # Nil => [type |-> "set", obj |-> wf] \in WorkflowEvent
    BY DEF ClusterTypeOK, WorkflowEvent
  <2>7. wfWatch' \in Seq(WorkflowEvent)
    BY <1>4, <2>6 DEF Relist
  <2> QED
    BY <1>4, <2>4, <2>5, <2>7 DEF Relist, ClusterTypeOK, history
<1> QED
  BY <1>1, <1>2, <1>3, <1>4

(* The types of the worker's variables once sync has returned. *)
LEMMA ResetWorkerType ==
    ASSUME ResetWorker
    PROVE  /\ pc' \in {"idle", "sync", "manage", "cleanup"}
           /\ local' \in Workflow \cup {Nil}
           /\ pc' = "manage" => local' \in Workflow
           /\ began' \in Nat
           /\ i' \in 1..(Len(StepSeq) + 1)
           /\ toBeUpdated' \in BOOLEAN /\ complete' \in BOOLEAN
           /\ todo' \subseteq Job
           /\ cleanupErr' \in BOOLEAN
<1>1. Len(StepSeq) \in Nat
  BY ControllerAssumption
<1>2. i' \in 1..(Len(StepSeq) + 1)
  BY <1>1 DEF ResetWorker
<1> QED
  BY <1>2 DEF ResetWorker

(* The queue and the handlers. *)
LEMMA HandlersType ==
    ASSUME TypeOK, Handlers
    PROVE  TypeOK'
<1>1. CASE onAddWorkflow
  <2>1. wf' \in Workflow \cup {Nil} /\ wfWatch' \in Seq(WorkflowEvent) /\ faults' \in Nat
    BY <1>1, deleteWorkflowType DEF onAddWorkflow, TypeOK, ClusterTypeOK, wfStore
  <2>2. dirty' \in BOOLEAN
    BY <1>1 DEF onAddWorkflow, Enqueue, TypeOK
  <2>3. wfNotes' \in Seq(WorkflowNote)
    BY <1>1 DEF onAddWorkflow, TypeOK, ClusterTypeOK
  <2>4. ClusterTypeOK'
    BY <1>1, <2>1, <2>3 DEF onAddWorkflow, TypeOK, ClusterTypeOK, jobStore, history
  <2> QED
    BY <1>1, <2>2, <2>4 DEF onAddWorkflow, TypeOK, worker, cleanup
<1>2. CASE onUpdateWorkflow
  <2>1. wfNotes' \in Seq(WorkflowNote)
    BY <1>2 DEF onUpdateWorkflow, TypeOK, ClusterTypeOK
  <2>2. ClusterTypeOK'
    BY <1>2, <2>1 DEF onUpdateWorkflow, TypeOK, ClusterTypeOK, wfStore, jobStore, history
  <2>3. dirty' \in BOOLEAN
    BY <1>2 DEF onUpdateWorkflow, Enqueue, TypeOK
  <2> QED
    BY <1>2, <2>2, <2>3 DEF onUpdateWorkflow, TypeOK, worker, cleanup
<1>3. CASE onDeleteWorkflow
  <2>1. wfNotes' \in Seq(WorkflowNote)
    BY <1>3 DEF onDeleteWorkflow, TypeOK, ClusterTypeOK
  <2>2. ClusterTypeOK'
    BY <1>3, <2>1 DEF onDeleteWorkflow, TypeOK, ClusterTypeOK, wfStore, jobStore, history
  <2>3. dirty' \in BOOLEAN
    BY <1>3 DEF onDeleteWorkflow, Enqueue, TypeOK
  <2> QED
    BY <1>3, <2>2, <2>3 DEF onDeleteWorkflow, TypeOK, worker, cleanup
<1>4. CASE onJobEvent
  <2>1. jobNotes' \in Seq(Job)
    BY <1>4 DEF onJobEvent, TypeOK, ClusterTypeOK
  <2>2. ClusterTypeOK'
    BY <1>4, <2>1 DEF onJobEvent, TypeOK, ClusterTypeOK, wfStore, jobStore, history
  <2>3. dirty' \in BOOLEAN
    BY <1>4 DEF onJobEvent, Enqueue, TypeOK
  <2> QED
    BY <1>4, <2>2, <2>3 DEF onJobEvent, TypeOK, worker, cleanup
<1> QED
  BY <1>1, <1>2, <1>3, <1>4 DEF Handlers

(* A pass of sync that ends with a call about the workflow. *)
LEMMA ReturnType ==
    ASSUME TypeOK, NEW err \in BOOLEAN, Return(err), UNCHANGED OtherThanWorkflow,
           wf' \in Workflow \cup {Nil}, wfWatch' \in Seq(WorkflowEvent), faults' \in Nat
    PROVE  TypeOK'
<1>1. ClusterTypeOK'
  BY DEF TypeOK, ClusterTypeOK, OtherThanWorkflow, jobStore, caches, history
<1>2. waiting' \in BOOLEAN /\ dirty' \in BOOLEAN
  BY DEF Return, TypeOK
<1>3. restarts' \in Nat
  BY DEF TypeOK, OtherThanWorkflow
<1> QED
  BY <1>1, <1>2, <1>3, ResetWorkerType DEF Return, TypeOK

(* The workflow with one more condition. *)
LEMMA WithConditionType ==
    ASSUME NEW o \in Workflow, NEW c \in {"Complete", "Failed"}
    PROVE  WithCondition(o, c) \in Workflow
<1>1. o.conds \in Seq({"Complete", "Failed"})
  BY DEF Workflow
<1>2. Append(o.conds, c) \in Seq({"Complete", "Failed"})
  BY <1>1
<1>3. [o EXCEPT !.conds = Append(o.conds, c)] \in Workflow
  BY <1>2 DEF Workflow
<1> QED
  BY <1>3 DEF WithCondition

(* The passes of sync that do not reach manageWorkflow. *)
LEMMA SyncType ==
    ASSUME TypeOK, GetItem \/ sync
    PROVE  TypeOK'
<1> USE DEF TypeOK
<1>1. CASE GetItem
  BY <1>1 DEF GetItem, ClusterTypeOK, clusterVars, wfStore, jobStore, caches, history, cleanup
<1>2. CASE SyncIgnored \/ CleanupReturns
  <2>1. ClusterTypeOK' /\ restarts' \in Nat
    BY <1>2 DEF SyncIgnored, CleanupReturns, ClusterTypeOK, clusterVars, wfStore, jobStore,
                caches, history
  <2>2. PICK err \in BOOLEAN : Return(err)
    BY <1>2 DEF SyncIgnored, CleanupReturns
  <2>3. waiting' \in BOOLEAN /\ dirty' \in BOOLEAN
    BY <2>2 DEF Return
  <2> QED
    BY <2>1, <2>2, <2>3, ResetWorkerType DEF Return
<1>3. CASE SyncDefault
  <2>1. [wfCache EXCEPT !.defaulted = TRUE] \in Workflow
    BY <1>3 DEF SyncDefault, ClusterTypeOK, Workflow
  <2> QED
    BY <1>3, <2>1, updateWorkflowType, ReturnType DEF SyncDefault
<1>4. CASE SyncInvalid
  BY <1>4, deleteWorkflowType, ReturnType DEF SyncInvalid
<1>5. CASE SyncStart
  <2>1. wfCache \in Workflow /\ now \in Nat
    BY <1>5 DEF SyncStart, SyncProceeds, ClusterTypeOK
  <2>2. NoStatus \in [Steps -> StepStatus]
    BY DEF NoStatus, StepStatus
  <2>3. [wfCache EXCEPT !.status = NoStatus, !.start = now] \in Workflow
    BY <2>1, <2>2 DEF Workflow
  <2> QED
    BY <1>5, <2>3, updateWorkflowType, ReturnType DEF SyncStart
<1>6. CASE SyncDeadline
  <2>1. WithCondition(wfCache, "Failed") \in Workflow
    BY <1>6, WithConditionType DEF SyncDeadline, SyncProceeds, ClusterTypeOK
  <2>2. /\ wf' \in Workflow \cup {Nil} /\ wfWatch' \in Seq(WorkflowEvent)
        /\ faults' \in Nat
    BY <1>6, <2>1, updateWorkflowType DEF SyncDeadline
  <2>3. ClusterTypeOK'
    BY <1>6, <2>2 DEF SyncDeadline, OtherThanWorkflow, ClusterTypeOK, jobStore, caches,
                      history
  <2>4. todo' \subseteq Job
    BY <1>6 DEF SyncDeadline, JobsToDelete, ClusterTypeOK
  <2> QED
    BY <1>6, <2>3, <2>4 DEF SyncDeadline, OtherThanWorkflow, queue
<1>7. ASSUME NEW j \in todo, DeleteJob(j) PROVE TypeOK'
  <2>1. jobs' \subseteq Job /\ jobWatch' \in Seq(JobEvent)
    <3>1. CASE UNCHANGED <<jobs, jobWatch>>
      BY <3>1 DEF ClusterTypeOK
    <3>2. ASSUME NEW x \in jobs, WriteJob([x EXCEPT !.deleting = TRUE])
          PROVE  jobs' \subseteq Job /\ jobWatch' \in Seq(JobEvent)
      <4>1. [x EXCEPT !.deleting = TRUE] \in Job
        BY DEF ClusterTypeOK, Job
      <4> QED
        BY <3>2, <4>1, WriteJobType
    <3> QED
      BY <1>7, <3>1, <3>2 DEF DeleteJob
  <2>2. faults' \in Nat
    BY <1>7 DEF DeleteJob, NoFault, Fault, ClusterTypeOK
  <2>3. ClusterTypeOK'
    BY <1>7, <2>1, <2>2 DEF DeleteJob, ClusterTypeOK, wfStore, caches, history
  <2>4. todo' \subseteq Job /\ cleanupErr' \in BOOLEAN
    BY <1>7 DEF DeleteJob
  <2> QED
    BY <1>7, <2>3, <2>4 DEF DeleteJob, queue
<1>8. CASE SyncManage
  <2>1. ClusterTypeOK' /\ wfCache \in Workflow
    BY <1>8 DEF SyncManage, SyncProceeds, ClusterTypeOK, clusterVars, wfStore, jobStore,
                caches, history
  <2> QED
    BY <1>8, <2>1 DEF SyncManage, queue, cleanup
<1> QED
  BY <1>1, <1>2, <1>3, <1>4, <1>5, <1>6, <1>7, <1>8 DEF sync

(* The worker in manageWorkflow. *)
LEMMA ManageType ==
    ASSUME TypeOK, manageWorkflow
    PROVE  TypeOK'
<1> DEFINE s == CurrentStep
<1>1. ASSUME AtStep
      PROVE  /\ i' \in 1..(Len(StepSeq) + 1)
             /\ s \in Steps
             /\ local \in Workflow
  BY <1>1, ControllerAssumption DEF AtStep, TypeOK, CurrentStep
<1>2. ASSUME AtStep, UNCHANGED <<clusterVars, waiting, pc, began, cleanup, restarts>>,
             local' \in Workflow, dirty' \in BOOLEAN,
             toBeUpdated' \in BOOLEAN, complete' \in BOOLEAN
      PROVE  TypeOK'
  <2>1. ClusterTypeOK'
    BY <1>2 DEF TypeOK, ClusterTypeOK, clusterVars, wfStore, jobStore, caches, history
  <2> QED
    BY <1>1, <1>2, <2>1 DEF TypeOK, cleanup
<1>3. ASSUME AtStep PROVE WithStepLabels(local, s) \in Workflow
  <2>1. local \in Workflow /\ s \in Steps
    BY <1>1, <1>3
  <2>2. getJobLabelsSetFromWorkflow(local, s) \in LabelSet
    BY <2>1, JobLabels
  <2> QED
    BY <2>1, <2>2 DEF WithStepLabels, Workflow
<1>4. CASE StepComplete
  BY <1>1, <1>2, <1>4 DEF StepComplete, AtStep, queue, TypeOK
<1>5. CASE StepExternal
  BY <1>1, <1>2, <1>5 DEF StepExternal, AtPendingStep, queue, TypeOK
<1>6. CASE StepBlocked
  BY <1>1, <1>2, <1>6 DEF StepBlocked, AtPendingStep, queue, TypeOK
<1>7. CASE StepCreateJob
  <2>1. AtStep /\ complete' \in BOOLEAN
    BY <1>7 DEF StepCreateJob, AtReadyStep, AtPendingStep
  <2>2. local \in Workflow /\ s \in Steps /\ i' \in 1..(Len(StepSeq) + 1)
    BY <1>1, <2>1
  <2>3. jobCount + 1 \in Nat \ {0}
    BY DEF TypeOK, ClusterTypeOK
  <2>4. NewJob(local, s) \in Job
    BY <2>2, <2>3, JobLabels DEF NewJob, Job, Workflow
  <2>5. jobs' \subseteq Job /\ jobWatch' \in Seq(JobEvent)
    BY <1>7, <2>4, WriteJobType DEF StepCreateJob, TypeOK
  <2>6. dirty' \in BOOLEAN /\ toBeUpdated' \in BOOLEAN
    BY <1>7, Zenon DEF StepCreateJob, Enqueue, TypeOK
  <2>7. faults' \in Nat /\ jobCount' \in Nat
    BY <1>7 DEF StepCreateJob, Fault, NoFault, TypeOK, ClusterTypeOK
  <2>8. ClusterTypeOK'
    BY <1>7, <2>5, <2>7
    DEF StepCreateJob, TypeOK, ClusterTypeOK, wfStore, caches, history
  <2>9. local' \in Workflow
    BY <1>3, <1>7, <2>1 DEF StepCreateJob
  <2> QED
    BY <1>7, <2>1, <2>2, <2>6, <2>8, <2>9 DEF StepCreateJob, TypeOK, cleanup
<1>8. CASE StepCreateFails
  <2>1. AtStep /\ complete' \in BOOLEAN
    BY <1>8 DEF StepCreateFails, AtReadyStep, AtPendingStep
  <2>2. i' \in 1..(Len(StepSeq) + 1)
    BY <1>1, <2>1
  <2>3. local' \in Workflow
    BY <1>3, <1>8, <2>1 DEF StepCreateFails
  <2>4. faults' \in Nat
    BY <1>8 DEF StepCreateFails, Fault, NoFault, TypeOK, ClusterTypeOK
  <2>5. ClusterTypeOK'
    BY <1>8, <2>4
    DEF StepCreateFails, TypeOK, ClusterTypeOK, wfStore, jobStore, caches, history
  <2>6. dirty' \in BOOLEAN
    BY <1>8 DEF StepCreateFails, Enqueue
  <2> QED
    BY <1>8, <2>1, <2>2, <2>3, <2>5, <2>6 DEF StepCreateFails, TypeOK, cleanup
<1>9. CASE StepObserveJob
  <2>1. PICK j \in jobCache :
           /\ AtReadyStep({j})
           /\ local' = [WithStepLabels(local, s) EXCEPT !.status[s] =
                           IF IsJobFinished(j) THEN "complete" ELSE "running"]
           /\ toBeUpdated' = (\/ toBeUpdated
                              \/ local.status[s] = "none"
                              \/ IsJobFinished(j))
           /\ UNCHANGED <<clusterVars, queue, pc, began, cleanup, restarts>>
    BY <1>9 DEF StepObserveJob
  <2>2. AtStep /\ complete' \in BOOLEAN
    BY <2>1 DEF AtReadyStep, AtPendingStep
  <2>3. WithStepLabels(local, s) \in Workflow /\ s \in Steps
    BY <1>1, <1>3, <2>2
  <2>4. local' \in Workflow
    <3> DEFINE o == WithStepLabels(local, s)
               st == IF IsJobFinished(j) THEN "complete" ELSE "running"
    <3>1. o \in Workflow /\ st \in StepStatus
      BY <2>3 DEF StepStatus
    <3>2. o.status \in [Steps -> StepStatus]
      BY <3>1 DEF Workflow
    <3>3. [o.status EXCEPT ![s] = st] \in [Steps -> StepStatus]
      BY <3>1, <3>2
    <3>4. local' = [o EXCEPT !.status = [o.status EXCEPT ![s] = st]]
      BY <2>1
    <3> HIDE DEF o, st
    <3> QED
      BY <3>1, <3>3, <3>4 DEF Workflow
  <2>5. toBeUpdated \in BOOLEAN /\ dirty \in BOOLEAN /\ IsJobFinished(j) \in BOOLEAN
    BY DEF TypeOK, ClusterTypeOK, Job, IsJobFinished
  <2>6. toBeUpdated' \in BOOLEAN
    BY <2>1, <2>5
  <2>7. dirty' \in BOOLEAN
    BY <2>1, <2>5 DEF queue
  <2> QED
    BY <1>2, <2>1, <2>2, <2>4, <2>6, <2>7 DEF queue
<1>10. CASE StepTooManyJobs
  <2>1. PICK found \in SUBSET jobCache :
           /\ AtReadyStep(found)
           /\ local' = WithStepLabels(local, s)
           /\ UNCHANGED <<clusterVars, queue, pc, began, toBeUpdated, cleanup, restarts>>
    BY <1>10 DEF StepTooManyJobs
  <2>2. AtStep /\ complete' \in BOOLEAN
    BY <2>1 DEF AtReadyStep, AtPendingStep
  <2>3. dirty' \in BOOLEAN /\ toBeUpdated' \in BOOLEAN
    BY <2>1 DEF queue, TypeOK
  <2> QED
    BY <1>2, <1>3, <2>1, <2>2, <2>3 DEF queue
<1>11. CASE FinishManage
  <2>1. local \in Workflow
    BY <1>11 DEF FinishManage, TypeOK
  <2>2. WithCondition(local, "Complete") \in Workflow
    BY <2>1, WithConditionType
  <2>3. /\ wf' \in Workflow \cup {Nil} /\ wfWatch' \in Seq(WorkflowEvent)
        /\ faults' \in Nat
    BY <1>11, <2>1, <2>2, updateWorkflowType
    DEF FinishManage, TypeOK, ClusterTypeOK, wfStore
  <2> QED
    BY <1>11, <2>3, ReturnType DEF FinishManage
<1> QED
  BY <1>4, <1>5, <1>6, <1>7, <1>8, <1>9, <1>10, <1>11 DEF manageWorkflow

(* Every step keeps the type invariant. *)
LEMMA NextType ==
    ASSUME TypeOK, [Next]_vars
    PROVE  TypeOK'
<1>1. ASSUME ClusterTypeOK', UNCHANGED <<queue, worker, restarts>>
      PROVE  TypeOK'
  BY <1>1 DEF TypeOK, queue, worker, cleanup
<1>2. CASE Surroundings
  BY <1>1, <1>2, EnvironmentType, InformersType DEF Surroundings, Outside, TypeOK
<1>3. CASE Handlers
  BY <1>3, HandlersType
<1>4. CASE RetryFires
  <2>1. ClusterTypeOK'
    BY <1>4 DEF RetryFires, TypeOK, ClusterTypeOK, clusterVars, wfStore, jobStore, caches,
                history
  <2> QED
    BY <1>4, <2>1 DEF RetryFires, Enqueue, TypeOK, worker, cleanup
<1>5. CASE Worker
  BY <1>5, SyncType, ManageType DEF Worker
<1>6. CASE Restart
  <2>1. ClusterTypeOK'
    BY <1>6, InformersType DEF Restart, TypeOK
  <2>2. restarts' \in Nat
    BY <1>6 DEF Restart, TypeOK
  <2>3. dirty' \in BOOLEAN /\ waiting' \in BOOLEAN
    BY <1>6 DEF Restart
  <2> QED
    BY <1>6, <2>1, <2>2, <2>3, ResetWorkerType DEF Restart, TypeOK
<1>7. CASE UNCHANGED vars
  <2>1. ClusterTypeOK'
    BY <1>7 DEF vars, TypeOK, ClusterTypeOK, clusterVars, wfStore, jobStore, caches, history
  <2> QED
    BY <1>1, <1>7, <2>1 DEF vars
<1> QED
  BY <1>2, <1>3, <1>4, <1>5, <1>6, <1>7 DEF Next

LEMMA InitType ==
    ASSUME Init
    PROVE  TypeOK
<1>1. ClusterTypeOK
  BY DEF Init, ClusterInit, ClusterTypeOK
<1>2. Len(StepSeq) \in Nat
  BY ControllerAssumption
<1>3. i \in 1..(Len(StepSeq) + 1)
  BY <1>2 DEF Init
<1> QED
  BY <1>1, <1>3 DEF Init, TypeOK

(* The variables keep the types TypeOK gives them: in particular the worker  *)
(* is never in manageWorkflow without a workflow, nor past the end of        *)
(* Spec.Steps, whatever the notifications, failures and restarts.            *)
THEOREM TypeCorrect == Spec => []TypeOK
<1>1. Init => TypeOK
  BY InitType
<1>2. TypeOK /\ [Next]_vars => TypeOK'
  BY NextType
<1> QED
  BY <1>1, <1>2, PTL DEF Spec

--------------------------------------------------------------------------------
(* What has run stays so; what is right about it stays right.                *)

LEMMA RanGrows ==
    ASSUME TypeOK, [Next]_vars
    PROVE  ran \subseteq ran'
<1>1. CASE Surroundings
  BY <1>1 DEF Surroundings, Outside, Environment, UserCreate, UserEdit, UserDelete,
              Finalize, JobFinishes, JobGone, Tick, CacheWorkflow, CacheJob, Resync, history
<1>2. CASE Handlers \/ RetryFires
  BY <1>2 DEF Handlers, onAddWorkflow, onUpdateWorkflow, onDeleteWorkflow, onJobEvent,
              RetryFires, clusterVars, history
<1>3. CASE GetItem \/ sync
  BY <1>3 DEF GetItem, sync, SyncIgnored, SyncDefault, SyncInvalid, SyncStart,
              SyncDeadline, DeleteJob, CleanupReturns, SyncManage, OtherThanWorkflow,
              clusterVars, history
<1>4. CASE manageWorkflow
  BY <1>4 DEF manageWorkflow, StepComplete, StepExternal, StepBlocked, StepCreateJob,
              StepCreateFails, StepObserveJob, StepTooManyJobs, FinishManage,
              OtherThanWorkflow, clusterVars, history
<1>5. CASE Restart \/ UNCHANGED vars
  BY <1>5 DEF Restart, Relist, vars, clusterVars, history
<1> QED
  BY <1>1, <1>2, <1>3, <1>4, <1>5 DEF Next, Worker

LEMMA StepsRunGrow ==
    ASSUME TypeOK, [Next]_vars
    PROVE  StepsRun \subseteq StepsRun'
BY RanGrows DEF StepsRun

LEMMA SoundWorkflowStays ==
    ASSUME NEW R, NEW S, R \subseteq S, NEW o, SoundWorkflow(R, o)
    PROVE  SoundWorkflow(S, o)
BY DEF SoundWorkflow

LEMMA SoundJobStays ==
    ASSUME NEW R, NEW S, R \subseteq S, NEW j, SoundJob(R, j)
    PROVE  SoundJob(S, j)
BY DEF SoundJob

(* Soundness is about a workflow's status, conditions and start time only. *)
LEMMA SameStatus ==
    ASSUME NEW R, NEW o, NEW p, SoundWorkflow(R, o),
           p.status = o.status, p.conds = o.conds, p.start = o.start
    PROVE  SoundWorkflow(R, p)
BY DEF SoundWorkflow

--------------------------------------------------------------------------------
(* The copies of the workflow.                                               *)

(* Any change of the stored workflow that publishes nothing unsound. *)
WorkflowStep ==
    \/ UNCHANGED wfStore
    \/ wf # Nil /\ RemoveWorkflow
    \/ \E o \in Workflow : SoundWorkflow(StepsRun, o) /\ WriteWorkflow(o)

LEMMA StoreKeepsSound ==
    ASSUME TypeOK, WorkflowsSound, StepsRun \subseteq StepsRun', UNCHANGED wfCache,
           WorkflowStep
    PROVE  WorkflowsSound'
<1>1. \A o : SoundWorkflow(StepsRun, o) => SoundWorkflow(StepsRun', o)
  BY SoundWorkflowStays
<1>2. /\ wf # Nil => SoundWorkflow(StepsRun', wf)
      /\ wfCache' # Nil => SoundWorkflow(StepsRun', wfCache')
      /\ \A k \in 1..Len(wfWatch) : SoundWorkflow(StepsRun', wfWatch[k].obj)
  BY <1>1 DEF WorkflowsSound
<1>3. CASE UNCHANGED wfStore
  BY <1>2, <1>3 DEF WorkflowsSound, wfStore
<1>4. ASSUME NEW o, NEW t, SoundWorkflow(StepsRun', o),
             wfWatch' = Append(wfWatch, [type |-> t, obj |-> o])
      PROVE  \A k \in 1..Len(wfWatch') : SoundWorkflow(StepsRun', wfWatch'[k].obj)
  <2>1. wfWatch \in Seq(WorkflowEvent)
    BY DEF TypeOK, ClusterTypeOK
  <2>2. /\ Len(wfWatch') = Len(wfWatch) + 1
        /\ \A k \in 1..Len(wfWatch) : wfWatch'[k] = wfWatch[k]
        /\ wfWatch'[Len(wfWatch) + 1] = [type |-> t, obj |-> o]
        /\ Len(wfWatch) \in Nat
    BY <1>4, <2>1
  <2> QED
    BY <1>2, <1>4, <2>2
<1>5. CASE wf # Nil /\ RemoveWorkflow
  BY <1>2, <1>4, <1>5 DEF WorkflowsSound, RemoveWorkflow
<1>6. ASSUME NEW o \in Workflow, SoundWorkflow(StepsRun, o), WriteWorkflow(o)
      PROVE  WorkflowsSound'
  <2>1. SoundWorkflow(StepsRun', NextVersion(o))
    BY <1>1, <1>6, SameStatus DEF NextVersion, Workflow
  <2> QED
    BY <1>2, <1>4, <1>6, <2>1 DEF WorkflowsSound, WriteWorkflow
<1> QED
  BY <1>3, <1>5, <1>6 DEF WorkflowStep

(* The informer hands on what the store published. *)
LEMMA InformerKeepsSound ==
    ASSUME TypeOK, WorkflowsSound, StepsRun \subseteq StepsRun', CacheWorkflow \/ Relist
    PROVE  WorkflowsSound'
<1>1. \A o : SoundWorkflow(StepsRun, o) => SoundWorkflow(StepsRun', o)
  BY SoundWorkflowStays
<1>2. wf # Nil => SoundWorkflow(StepsRun', wf)
  BY <1>1 DEF WorkflowsSound
<1>3. CASE CacheWorkflow
  <2>1. /\ wfWatch \in Seq(WorkflowEvent) /\ wfWatch # <<>>
        /\ wfWatch' = Tail(wfWatch)
    BY <1>3 DEF CacheWorkflow, TypeOK, ClusterTypeOK
  <2>2. \A k \in 1..Len(wfWatch') : k + 1 \in 1..Len(wfWatch) /\ wfWatch'[k] = wfWatch[k + 1]
    BY <2>1
  <2>3. \A k \in 1..Len(wfWatch) : SoundWorkflow(StepsRun', wfWatch[k].obj)
    BY <1>1 DEF WorkflowsSound
  <2>4. SoundWorkflow(StepsRun', Head(wfWatch).obj)
    BY <2>1, <2>3
  <2>5. wfCache' # Nil => wfCache' = Head(wfWatch).obj
    BY <1>3 DEF CacheWorkflow
  <2>6. wf' = wf
    BY <1>3 DEF CacheWorkflow
  <2> QED
    BY <1>2, <2>2, <2>3, <2>4, <2>5, <2>6 DEF WorkflowsSound
<1>4. CASE Relist
  <2>1. wf' = wf /\ wfCache' = Nil
    BY <1>4 DEF Relist
  <2>2. \A k \in 1..Len(wfWatch') : wf # Nil /\ wfWatch'[k].obj = wf
    BY <1>4 DEF Relist
  <2> QED
    BY <1>2, <2>1, <2>2 DEF WorkflowsSound
<1> QED
  BY <1>3, <1>4

(* An update, accepted or not, of a sound copy. *)
LEMMA UpdateIsWorkflowStep ==
    ASSUME NEW o \in Workflow, SoundWorkflow(StepsRun, o), updateWorkflow(o)
    PROVE  WorkflowStep
BY DEF updateWorkflow, WorkflowStep

LEMMA DeleteIsWorkflowStep ==
    ASSUME NEW err, deleteWorkflow(err)
    PROVE  WorkflowStep
BY DEF deleteWorkflow, WorkflowStep

(* A condition can be added to a workflow that has started; Complete only    *)
(* when every step is complete.                                              *)
LEMMA ConditionSound ==
    ASSUME NEW o \in Workflow, SoundWorkflow(StepsRun, o), o.start # Nil,
           NEW c \in {"Complete", "Failed"},
           c = "Complete" => \A s \in Steps : o.status[s] = "complete"
    PROVE  SoundWorkflow(StepsRun, WithCondition(o, c))
<1> DEFINE p == [o EXCEPT !.conds = Append(o.conds, c)]
<1>1. o.conds \in Seq({"Complete", "Failed"})
  BY DEF Workflow
<1>2. p.status = o.status /\ p.start = o.start /\ p.conds = Append(o.conds, c)
  BY DEF Workflow
<1>3. \A k \in DOMAIN p.conds :
        (k \in DOMAIN o.conds /\ p.conds[k] = o.conds[k]) \/ p.conds[k] = c
  BY <1>1, <1>2
<1>4. SoundWorkflow(StepsRun, p)
  <2> HIDE DEF p
  <2> QED
    BY <1>2, <1>3 DEF SoundWorkflow
<1> QED
  BY <1>4 DEF WithCondition

(* Every step keeps the copies of the workflow sound. *)
LEMMA NextWorkflowsSound ==
    ASSUME TypeOK, CopiesSound, [Next]_vars
    PROVE  WorkflowsSound'
<1> USE DEF CopiesSound
<1>1. StepsRun \subseteq StepsRun'
  BY StepsRunGrow
<1>2. ASSUME WorkflowStep, UNCHANGED wfCache PROVE WorkflowsSound'
  BY <1>1, <1>2, StoreKeepsSound
<1>3. ASSUME UNCHANGED <<wfStore, wfCache>> PROVE WorkflowsSound'
  BY <1>2, <1>3 DEF WorkflowStep
<1>4. wf # Nil => wf \in Workflow /\ SoundWorkflow(StepsRun, wf)
  BY DEF TypeOK, ClusterTypeOK, WorkflowsSound
<1>5. wfCache # Nil => wfCache \in Workflow /\ SoundWorkflow(StepsRun, wfCache)
  BY DEF TypeOK, ClusterTypeOK, WorkflowsSound
<1>6. ASSUME NEW s \in Submissions, UserCreate(s) PROVE WorkflowsSound'
  <2>1. NewWorkflow(s) \in Workflow
    <3>1. s \in Submission
      BY ClusterAssumption
    <3> QED
      BY <3>1, ClusterAssumption
      DEF NewWorkflow, NoStatus, StepStatus, TypeOK, ClusterTypeOK, Workflow, Submission
  <2>2. SoundWorkflow(StepsRun, NewWorkflow(s))
    BY DEF SoundWorkflow, NewWorkflow, NoStatus
  <2> QED
    BY <1>2, <1>6, <2>1, <2>2 DEF UserCreate, WorkflowStep, caches
<1>7. ASSUME NEW s \in Submissions, UserEdit(s) PROVE WorkflowsSound'
  <2> DEFINE o == [wf EXCEPT !.defaulted = s.defaulted, !.valid = s.valid,
                             !.sel = UserSelector]
  <2>1. /\ wf \in Workflow /\ SoundWorkflow(StepsRun, wf)
        /\ o \in Workflow
        /\ o.status = wf.status /\ o.conds = wf.conds /\ o.start = wf.start
    BY <1>4, <1>7, ClusterAssumption DEF UserEdit, Workflow, Submission
  <2>2. SoundWorkflow(StepsRun, o)
    <3> HIDE DEF o
    <3> QED
      BY <2>1, SameStatus
  <2> QED
    BY <1>2, <1>7, <2>1, <2>2 DEF UserEdit, WorkflowStep, caches
<1>8. CASE UserDelete
  <2> DEFINE o == [wf EXCEPT !.deleting = TRUE]
  <2>1. /\ wf \in Workflow /\ SoundWorkflow(StepsRun, wf)
        /\ o \in Workflow
        /\ o.status = wf.status /\ o.conds = wf.conds /\ o.start = wf.start
    BY <1>4, <1>8 DEF UserDelete, Workflow
  <2>2. SoundWorkflow(StepsRun, o)
    <3> HIDE DEF o
    <3> QED
      BY <2>1, SameStatus
  <2> QED
    BY <1>2, <1>8, <2>1, <2>2 DEF UserDelete, WorkflowStep, caches
<1>9. CASE Finalize
  BY <1>2, <1>9 DEF Finalize, WorkflowStep, caches
<1>10. CASE Surroundings
  <2>1. ASSUME NEW j \in jobs, JobFinishes(j) \/ JobGone(j) PROVE WorkflowsSound'
    BY <1>3, <2>1 DEF JobFinishes, JobGone, caches
  <2>2. CASE Tick \/ CacheJob \/ Resync
    BY <1>3, <2>2 DEF Tick, CacheJob, Resync, caches
  <2>3. CASE CacheWorkflow
    BY <1>1, <2>3, InformerKeepsSound
  <2> QED
    BY <1>6, <1>7, <1>8, <1>9, <1>10, <2>1, <2>2, <2>3
    DEF Surroundings, Outside, Environment
<1>11. CASE onAddWorkflow
  <2>1. WorkflowStep
    BY <1>11, DeleteIsWorkflowStep DEF onAddWorkflow, WorkflowStep
  <2> QED
    BY <1>2, <1>11, <2>1 DEF onAddWorkflow
<1>12. CASE onUpdateWorkflow \/ onDeleteWorkflow \/ onJobEvent \/ RetryFires \/ GetItem
  BY <1>3, <1>12
  DEF onUpdateWorkflow, onDeleteWorkflow, onJobEvent, RetryFires, GetItem, clusterVars, caches
<1>13. CASE SyncIgnored \/ CleanupReturns \/ SyncManage \/ \E j \in todo : DeleteJob(j)
  BY <1>3, <1>13
  DEF SyncIgnored, CleanupReturns, SyncManage, DeleteJob, clusterVars, caches
<1>14. CASE SyncDefault
  <2> DEFINE o == [wfCache EXCEPT !.defaulted = TRUE]
  <2>1. /\ wfCache \in Workflow /\ SoundWorkflow(StepsRun, wfCache)
        /\ o \in Workflow
        /\ o.status = wfCache.status /\ o.conds = wfCache.conds /\ o.start = wfCache.start
    BY <1>5, <1>14 DEF SyncDefault, Workflow
  <2>2. SoundWorkflow(StepsRun, o)
    <3> HIDE DEF o
    <3> QED
      BY <2>1, SameStatus
  <2> QED
    BY <1>2, <1>14, <2>1, <2>2, UpdateIsWorkflowStep DEF SyncDefault, OtherThanWorkflow, caches
<1>15. CASE SyncInvalid
  BY <1>2, <1>15, DeleteIsWorkflowStep DEF SyncInvalid, OtherThanWorkflow, caches
<1>16. CASE SyncStart
  <2> DEFINE o == [wfCache EXCEPT !.status = NoStatus, !.start = now]
  <2>1. NoStatus \in [Steps -> StepStatus] /\ now \in Nat
    BY DEF NoStatus, StepStatus, TypeOK, ClusterTypeOK
  <2>2. o \in Workflow /\ o.status = NoStatus /\ o.start = now /\ o.conds = <<>>
    BY <1>5, <1>16, <2>1 DEF SyncStart, SyncProceeds, Workflow, SoundWorkflow
  <2>3. SoundWorkflow(StepsRun, o)
    <3> HIDE DEF o
    <3> QED
      BY <2>1, <2>2, ClusterAssumption DEF SoundWorkflow, NoStatus
  <2> QED
    BY <1>2, <1>16, <2>2, <2>3, UpdateIsWorkflowStep DEF SyncStart, OtherThanWorkflow, caches
<1>17. CASE SyncDeadline
  <2> DEFINE o == WithCondition(wfCache, "Failed")
  <2>1. o \in Workflow /\ SoundWorkflow(StepsRun, o)
    BY <1>5, <1>17, WithConditionType, ConditionSound DEF SyncDeadline, SyncProceeds
  <2> QED
    BY <1>2, <1>17, <2>1, UpdateIsWorkflowStep DEF SyncDeadline, OtherThanWorkflow, caches
<1>18. CASE FinishManage
  <2>1. /\ local \in Workflow /\ SoundWorkflow(StepsRun, local) /\ local.start # Nil
        /\ complete => \A k \in 1..(i - 1) : local.status[StepSeq[k]] = "complete"
    BY <1>18 DEF FinishManage, TypeOK, WorkerSound
  <2>2. complete => \A s \in Steps : local.status[s] = "complete"
    <3>1. i > Len(StepSeq)
      BY <1>18 DEF FinishManage
    <3>2. i \in 1..(Len(StepSeq) + 1)
      BY DEF TypeOK
    <3>3. Len(StepSeq) \in Nat
      BY ControllerAssumption
    <3>4. i - 1 = Len(StepSeq)
      BY <3>1, <3>2, <3>3
    <3> QED
      BY <2>1, <3>4, ControllerAssumption
  <2> DEFINE o == WithCondition(local, "Complete")
  <2>3. complete => o \in Workflow /\ SoundWorkflow(StepsRun, o)
    BY <2>1, <2>2, WithConditionType, ConditionSound
  <2>4. WorkflowStep
    BY <1>18, <2>1, <2>3, UpdateIsWorkflowStep DEF FinishManage, WorkflowStep
  <2> QED
    BY <1>2, <1>18, <2>4 DEF FinishManage, OtherThanWorkflow, caches
<1>19. CASE manageWorkflow
  BY <1>3, <1>18, <1>19
  DEF manageWorkflow, StepComplete, StepExternal, StepBlocked, StepCreateJob,
      StepCreateFails, StepObserveJob, StepTooManyJobs, clusterVars, caches
<1>20. CASE Restart
  BY <1>1, <1>20, InformerKeepsSound DEF Restart
<1>21. CASE UNCHANGED vars
  BY <1>3, <1>21 DEF vars, clusterVars, caches
<1> QED
  BY <1>10, <1>11, <1>12, <1>13, <1>14, <1>15, <1>16, <1>17, <1>19, <1>20, <1>21
  DEF Next, Handlers, Worker, sync

--------------------------------------------------------------------------------
(* The copies of the jobs.                                                   *)

LEMMA JobsStepSound ==
    ASSUME TypeOK, JobsSound, StepsRun \subseteq StepsRun', UNCHANGED jobCache,
           \/ UNCHANGED <<jobs, jobWatch>>
           \/ \E j \in Job : SoundJob(StepsRun', j) /\ WriteJob(j)
           \/ \E j \in jobs : RemoveJob(j)
    PROVE  JobsSound'
<1>1. /\ \A j \in jobs \cup jobCache : SoundJob(StepsRun', j)
      /\ \A k \in 1..Len(jobWatch) : SoundJob(StepsRun', jobWatch[k].obj)
  BY SoundJobStays DEF JobsSound
<1>2. ASSUME NEW j, NEW t, SoundJob(StepsRun', j),
             jobWatch' = Append(jobWatch, [type |-> t, obj |-> j])
      PROVE  \A k \in 1..Len(jobWatch') : SoundJob(StepsRun', jobWatch'[k].obj)
  <2>1. jobWatch \in Seq(JobEvent)
    BY DEF TypeOK, ClusterTypeOK
  <2>2. /\ Len(jobWatch') = Len(jobWatch) + 1
        /\ \A k \in 1..Len(jobWatch) : jobWatch'[k] = jobWatch[k]
        /\ jobWatch'[Len(jobWatch) + 1] = [type |-> t, obj |-> j]
        /\ Len(jobWatch) \in Nat
    BY <1>2, <2>1
  <2> QED
    BY <1>1, <1>2, <2>2
<1>3. CASE UNCHANGED <<jobs, jobWatch>>
  BY <1>1, <1>3 DEF JobsSound
<1>4. ASSUME NEW j \in Job, SoundJob(StepsRun', j), WriteJob(j) PROVE JobsSound'
  BY <1>1, <1>2, <1>4 DEF JobsSound, WriteJob
<1>5. ASSUME NEW j \in jobs, RemoveJob(j) PROVE JobsSound'
  BY <1>1, <1>2, <1>5 DEF JobsSound, RemoveJob
<1> QED
  BY <1>3, <1>4, <1>5

LEMMA InformerKeepsJobsSound ==
    ASSUME TypeOK, JobsSound, StepsRun \subseteq StepsRun', CacheJob \/ Relist
    PROVE  JobsSound'
<1>1. /\ \A j \in jobs \cup jobCache : SoundJob(StepsRun', j)
      /\ \A k \in 1..Len(jobWatch) : SoundJob(StepsRun', jobWatch[k].obj)
  BY SoundJobStays DEF JobsSound
<1>2. CASE CacheJob
  <2>1. /\ jobWatch \in Seq(JobEvent) /\ jobWatch # <<>>
        /\ jobWatch' = Tail(jobWatch)
    BY <1>2 DEF CacheJob, TypeOK, ClusterTypeOK
  <2>2. \A k \in 1..Len(jobWatch') : k + 1 \in 1..Len(jobWatch) /\ jobWatch'[k] = jobWatch[k + 1]
    BY <2>1
  <2>3. SoundJob(StepsRun', Head(jobWatch).obj)
    BY <1>1, <2>1
  <2>4. jobCache' \subseteq jobCache \cup {Head(jobWatch).obj} /\ jobs' = jobs
    BY <1>2 DEF CacheJob
  <2> QED
    BY <1>1, <2>2, <2>3, <2>4 DEF JobsSound
<1>3. CASE Relist
  <2>1. PICK f \in Orders(jobs) :
           jobWatch' = [k \in DOMAIN f |-> [type |-> "set", obj |-> f[k]]]
    BY <1>3 DEF Relist
  <2>2. PICK n \in Nat : f \in [1..n -> jobs]
    BY <2>1, ClusterAssumption DEF Orders
  <2>3. \A k \in 1..n : SoundJob(StepsRun', f[k])
    BY <1>1, <2>2
  <2>4. Len(jobWatch') = n /\ \A k \in 1..n : jobWatch'[k].obj = f[k]
    BY <2>1, <2>2
  <2>5. jobs' = jobs /\ jobCache' = {}
    BY <1>3 DEF Relist
  <2> QED
    BY <1>1, <2>3, <2>4, <2>5 DEF JobsSound
<1> QED
  BY <1>2, <1>3

(* Every step keeps the copies of the jobs sound. *)
LEMMA NextJobsSound ==
    ASSUME TypeOK, CopiesSound, [Next]_vars
    PROVE  JobsSound'
<1> USE DEF CopiesSound
<1>1. StepsRun \subseteq StepsRun'
  BY StepsRunGrow
<1>2. ASSUME UNCHANGED <<jobs, jobWatch, jobCache>> PROVE JobsSound'
  BY <1>1, <1>2, JobsStepSound
<1>3. ASSUME NEW j \in Job, SoundJob(StepsRun', j), WriteJob(j), UNCHANGED jobCache
      PROVE  JobsSound'
  BY <1>1, <1>3, JobsStepSound
<1>4. \A j \in jobs : j \in Job /\ SoundJob(StepsRun', j)
  BY <1>1, SoundJobStays DEF TypeOK, ClusterTypeOK, JobsSound
<1>5. CASE Environment
  <2>1. ASSUME NEW j \in jobs, JobFinishes(j) PROVE JobsSound'
    <3> DEFINE x == [j EXCEPT !.finished = TRUE]
    <3>1. x \in Job /\ Step(x) = Step(j)
      BY <1>4 DEF Job, Step
    <3>2. Step(j) \in StepsRun'
      <4>1. <<Step(j), j.uid>> \in ran'
        BY <2>1 DEF JobFinishes
      <4>2. <<Step(j), j.uid>>[1] = Step(j)
        OBVIOUS
      <4> QED
        BY <4>1, <4>2 DEF StepsRun
    <3>3. SoundJob(StepsRun', x)
      BY <1>4, <3>1, <3>2 DEF SoundJob
    <3> QED
      BY <1>3, <2>1, <3>1, <3>3 DEF JobFinishes, caches
  <2>2. ASSUME NEW j \in jobs, JobGone(j) PROVE JobsSound'
    BY <1>1, <2>2, JobsStepSound DEF JobGone, caches
  <2>3. ASSUME NEW s \in Submissions, UserCreate(s) \/ UserEdit(s) PROVE JobsSound'
    BY <1>2, <2>3 DEF UserCreate, UserEdit, jobStore, caches
  <2>4. CASE UserDelete \/ Finalize \/ Tick
    BY <1>2, <2>4 DEF UserDelete, Finalize, Tick, jobStore, caches
  <2> QED
    BY <1>5, <2>1, <2>2, <2>3, <2>4 DEF Environment
<1>6. CASE CacheWorkflow \/ Resync \/ Handlers \/ RetryFires \/ GetItem
  BY <1>2, <1>6
  DEF CacheWorkflow, Resync, Handlers, onAddWorkflow, onUpdateWorkflow, onDeleteWorkflow,
      onJobEvent, RetryFires, GetItem, clusterVars, jobStore, caches
<1>7. CASE CacheJob \/ Relist
  BY <1>1, <1>7, InformerKeepsJobsSound
<1>8. ASSUME NEW j \in todo, DeleteJob(j) PROVE JobsSound'
  <2>1. ASSUME NEW x \in jobs, WriteJob([x EXCEPT !.deleting = TRUE]) PROVE JobsSound'
    <3> DEFINE y == [x EXCEPT !.deleting = TRUE]
    <3>1. y \in Job /\ Step(y) = Step(x) /\ y.finished = x.finished
      BY <1>4 DEF Job, Step
    <3>2. SoundJob(StepsRun', y)
      BY <1>4, <3>1 DEF SoundJob
    <3> QED
      BY <1>3, <1>8, <2>1, <3>1, <3>2 DEF DeleteJob, caches
  <2>2. CASE UNCHANGED <<jobs, jobWatch>>
    BY <1>2, <1>8, <2>2 DEF DeleteJob, caches
  <2> QED
    BY <1>8, <2>1, <2>2 DEF DeleteJob
<1>9. CASE SyncIgnored \/ SyncDefault \/ SyncInvalid \/ SyncStart \/ SyncDeadline
           \/ CleanupReturns \/ SyncManage
  BY <1>2, <1>9
  DEF SyncIgnored, SyncDefault, SyncInvalid, SyncStart, SyncDeadline, CleanupReturns,
      SyncManage, OtherThanWorkflow, clusterVars, jobStore, caches
<1>10. CASE StepCreateJob
  <2> DEFINE s == CurrentStep
             j == NewJob(local, s)
  <2>1. local \in Workflow /\ s \in Steps /\ SoundWorkflow(StepsRun, local)
    <3>1. i \in 1..Len(StepSeq)
      BY <1>10, ControllerAssumption
      DEF StepCreateJob, AtReadyStep, AtPendingStep, AtStep, TypeOK
    <3>2. pc = "manage"
      BY <1>10 DEF StepCreateJob, AtReadyStep, AtPendingStep, AtStep
    <3> QED
      BY <3>1, <3>2, ControllerAssumption DEF CurrentStep, TypeOK, WorkerSound
  <2>2. DependenciesSatisfied(local, s)
    BY <1>10 DEF StepCreateJob, AtReadyStep
  <2>3. Deps[s] \subseteq StepsRun'
    BY <1>1, <2>1, <2>2, ControllerAssumption DEF DependenciesSatisfied, SoundWorkflow
  <2>4. Step(j) = s /\ ~j.finished
    BY <2>1, JobLabels DEF NewJob, Step
  <2>5. j \in Job
    <3>1. jobCount + 1 \in Nat \ {0}
      BY DEF TypeOK, ClusterTypeOK
    <3> QED
      BY <2>1, <3>1, JobLabels DEF NewJob, Job, Workflow
  <2>6. SoundJob(StepsRun', j)
    BY <2>3, <2>4 DEF SoundJob
  <2> QED
    BY <1>3, <1>10, <2>5, <2>6 DEF StepCreateJob, caches
<1>11. CASE manageWorkflow
  BY <1>2, <1>10, <1>11
  DEF manageWorkflow, StepComplete, StepExternal, StepBlocked, StepCreateFails,
      StepObserveJob, StepTooManyJobs, FinishManage, OtherThanWorkflow, clusterVars,
      jobStore, caches
<1>12. CASE UNCHANGED vars
  BY <1>2, <1>12 DEF vars, clusterVars, jobStore, caches
<1> QED
  BY <1>5, <1>6, <1>7, <1>8, <1>9, <1>11, <1>12
  DEF Next, Surroundings, Outside, Worker, sync, Restart

--------------------------------------------------------------------------------
(* The worker's copy.                                                        *)

(* A step of manageWorkflow that leaves the statuses of the copy alone. *)
LEMMA LoopKeepsSound ==
    ASSUME TypeOK, WorkerSound, StepsRun \subseteq StepsRun', AtStep, UNCHANGED pc,
           local' \in Workflow, local'.status = local.status,
           local'.conds = local.conds, local'.start = local.start,
           \/ complete' = FALSE
           \/ local.status[CurrentStep] = "complete" /\ complete' = complete
    PROVE  WorkerSound'
<1>1. /\ SoundWorkflow(StepsRun, local) /\ local.start # Nil
      /\ complete => \A k \in 1..(i - 1) : local.status[StepSeq[k]] = "complete"
  BY DEF AtStep, WorkerSound
<1>2. SoundWorkflow(StepsRun', local')
  BY <1>1, SameStatus, SoundWorkflowStays
<1>3. i \in Nat /\ i' = i + 1
  BY ControllerAssumption DEF AtStep, TypeOK
<1>4. complete' => \A k \in 1..(i' - 1) : local'.status[StepSeq[k]] = "complete"
  <2>1. CASE complete' = FALSE
    BY <2>1
  <2>2. CASE local.status[CurrentStep] = "complete" /\ complete' = complete
    <3>1. \A k \in 1..(i' - 1) : k \in 1..(i - 1) \/ k = i
      BY <1>3
    <3> QED
      BY <1>1, <2>2, <3>1 DEF CurrentStep
  <2> QED
    BY <2>1, <2>2
<1> QED
  BY <1>1, <1>2, <1>4 DEF WorkerSound, AtStep

(* Observing the step's job keeps the copy sound: what the job shows has     *)
(* happened, and it completes or starts a step whose dependencies are done.  *)
LEMMA ObserveKeepsSound ==
    ASSUME TypeOK, CopiesSound, StepsRun \subseteq StepsRun', StepObserveJob
    PROVE  WorkerSound'
<1> DEFINE s == CurrentStep
<1>1. PICK j \in jobCache :
         /\ AtReadyStep({j})
         /\ local' = [WithStepLabels(local, s) EXCEPT !.status[s] =
                         IF IsJobFinished(j) THEN "complete" ELSE "running"]
         /\ UNCHANGED pc
  BY DEF StepObserveJob
<1>2. /\ pc = "manage" /\ i \in 1..Len(StepSeq) /\ complete' = FALSE
      /\ local.status[s] # "complete"
      /\ DependenciesSatisfied(local, s)
      /\ Matches(getJobLabelsSetFromWorkflow(local, s), j.labels)
  BY <1>1, ControllerAssumption
  DEF AtReadyStep, AtPendingStep, AtStep, retrieveJobsStep, TypeOK
<1>3. /\ local \in Workflow /\ SoundWorkflow(StepsRun, local) /\ local.start # Nil
      /\ s \in Steps
  BY <1>2, ControllerAssumption DEF CurrentStep, TypeOK, CopiesSound, WorkerSound
<1>4. Step(j) = s
  BY <1>2, <1>3, MatchesStep
<1>5. IsJobFinished(j) => s \in StepsRun'
  BY <1>4, SoundJobStays DEF CopiesSound, JobsSound, SoundJob, IsJobFinished
<1> DEFINE st == IF IsJobFinished(j) THEN "complete" ELSE "running"
<1>6. /\ local'.status = [local.status EXCEPT ![s] = st]
      /\ local'.conds = local.conds /\ local'.start = local.start
  BY <1>1, <1>3 DEF WithStepLabels, Workflow
<1>7. local.status \in [Steps -> StepStatus]
  BY <1>3 DEF Workflow
<1>8. /\ local'.status[s] = st
      /\ \A r \in Steps : r # s => local'.status[r] = local.status[r]
      /\ \A r \in Steps : local.status[r] = "complete" => local'.status[r] = "complete"
  BY <1>2, <1>3, <1>6, <1>7
<1>9. \A r \in Steps : \A d \in Deps[r] : d \in Steps
  BY ControllerAssumption
<1>10. SoundWorkflow(StepsRun', local')
  <2>1. SoundWorkflow(StepsRun', local)
    BY <1>3, SoundWorkflowStays
  <2>2. \A r \in Steps : local'.status[r] = "complete" => r \in StepsRun'
    BY <1>5, <1>8, <2>1 DEF SoundWorkflow
  <2>3. \A r \in Steps : local'.status[r] # "none" =>
           \A d \in Deps[r] : local'.status[d] = "complete"
    BY <1>2, <1>3, <1>8, <1>9, <2>1 DEF SoundWorkflow, DependenciesSatisfied
  <2>4. ~ \E k \in DOMAIN local'.conds : local'.conds[k] = "Complete"
    BY <1>2, <1>3, <1>6 DEF SoundWorkflow
  <2> QED
    BY <1>3, <1>6, <2>2, <2>3, <2>4 DEF SoundWorkflow
<1> QED
  BY <1>1, <1>2, <1>3, <1>6, <1>10 DEF WorkerSound

(* Every step keeps the worker's copy sound. *)
LEMMA NextWorkerSound ==
    ASSUME TypeOK, CopiesSound, [Next]_vars
    PROVE  WorkerSound'
<1>1. StepsRun \subseteq StepsRun'
  BY StepsRunGrow
<1>2. ASSUME UNCHANGED <<pc, local, i, complete>> PROVE WorkerSound'
  <2>1. SoundWorkflow(StepsRun, local) => SoundWorkflow(StepsRun', local)
    BY <1>1, SoundWorkflowStays
  <2> QED
    BY <1>2, <2>1 DEF CopiesSound, WorkerSound
<1>3. ASSUME pc' # "manage", i' = 1 PROVE WorkerSound'
  BY <1>3 DEF WorkerSound
<1>4. CASE Surroundings \/ Handlers \/ RetryFires \/ (\E j \in todo : DeleteJob(j))
           \/ UNCHANGED vars
  BY <1>2, <1>4
  DEF Surroundings, Outside, Handlers, onAddWorkflow, onUpdateWorkflow, onDeleteWorkflow,
      onJobEvent, RetryFires, DeleteJob, vars, worker
<1>5. CASE SyncIgnored \/ SyncDefault \/ SyncInvalid \/ SyncStart
           \/ CleanupReturns \/ FinishManage \/ Restart
  BY <1>3, <1>5
  DEF SyncIgnored, SyncDefault, SyncInvalid, SyncStart, CleanupReturns, FinishManage,
      Restart, Return, ResetWorker
<1>6. CASE GetItem \/ SyncDeadline
  BY <1>3, <1>6 DEF GetItem, SyncDeadline, SyncProceeds, CopiesSound, WorkerSound
<1>7. CASE SyncManage
  <2>1. /\ local' = wfCache /\ wfCache.start # Nil
        /\ SoundWorkflow(StepsRun, wfCache)
    BY <1>7 DEF SyncManage, SyncProceeds, CopiesSound, WorkflowsSound
  <2>2. SoundWorkflow(StepsRun', wfCache)
    BY <1>1, <2>1, SoundWorkflowStays
  <2>3. i' = 1
    BY <1>7 DEF SyncManage, SyncProceeds, CopiesSound, WorkerSound
  <2> QED
    BY <2>1, <2>2, <2>3 DEF WorkerSound
<1>8. ASSUME AtStep, UNCHANGED pc,
             \/ complete' = FALSE
             \/ local.status[CurrentStep] = "complete" /\ complete' = complete,
             local' = local \/ local' = WithStepLabels(local, CurrentStep)
      PROVE  WorkerSound'
  <2>1. local \in Workflow /\ local' \in Workflow
    <3>1. local \in Workflow /\ CurrentStep \in Steps
      BY <1>8, ControllerAssumption DEF AtStep, TypeOK, CurrentStep
    <3>2. getJobLabelsSetFromWorkflow(local, CurrentStep) \in LabelSet
      BY <3>1, JobLabels
    <3> QED
      BY <1>8, <3>1, <3>2 DEF WithStepLabels, Workflow
  <2>2. /\ local'.status = local.status /\ local'.conds = local.conds
        /\ local'.start = local.start
    BY <1>8, <2>1 DEF WithStepLabels, Workflow
  <2> QED
    BY <1>1, <1>8, <2>1, <2>2, LoopKeepsSound DEF CopiesSound
<1>9. CASE StepComplete \/ StepExternal \/ StepBlocked \/ StepCreateJob
           \/ StepCreateFails \/ StepTooManyJobs
  BY <1>8, <1>9
  DEF StepComplete, StepExternal, StepBlocked, StepCreateJob, StepCreateFails,
      StepTooManyJobs, AtReadyStep, AtPendingStep
<1>10. CASE StepObserveJob
  BY <1>1, <1>10, ObserveKeepsSound
<1> QED
  BY <1>4, <1>5, <1>6, <1>7, <1>9, <1>10 DEF Next, Worker, sync, manageWorkflow

--------------------------------------------------------------------------------
(* The labels of the jobs.                                                   *)

(* getJobLabelsSetFromWorkflow changes the selector, and manageWorkflow      *)
(* publishes it.  If the templates carry the same labels (mostly none), what *)
(* it adds for one step is overridden for the next: a step's job has the     *)
(* same labels whichever copy they are computed from.                        *)
Selectors == {UserSelector} \cup {StepLabels(s) : s \in Steps}

Labelled(j) == j.labels = StepLabels(Step(j))

SelectorsKept ==
    /\ wf # Nil => wf.sel \in Selectors
    /\ wfCache # Nil => wfCache.sel \in Selectors
    /\ \A k \in 1..Len(wfWatch) : wfWatch[k].obj.sel \in Selectors
    /\ pc = "manage" => local.sel \in Selectors

JobsLabelled ==
    /\ \A j \in jobs \cup jobCache : Labelled(j)
    /\ \A k \in 1..Len(jobWatch) : Labelled(jobWatch[k].obj)

LabelsKept == SelectorsKept /\ JobsLabelled

LEMMA StepLabelsAgain ==
    ASSUME SameTemplates, NEW sel \in Selectors, NEW s \in Steps
    PROVE  Merge(Merge(sel, TemplateLabels[s]), OwnLabels(s)) = StepLabels(s)
<1>1. CASE sel = UserSelector
  BY <1>1 DEF StepLabels
<1>2. ASSUME NEW t \in Steps, sel = StepLabels(t)
      PROVE  Merge(Merge(sel, TemplateLabels[s]), OwnLabels(s)) = StepLabels(s)
  <2>1. TemplateLabels[t] = TemplateLabels[s] /\ DOMAIN OwnLabels(t) = DOMAIN OwnLabels(s)
    BY DEF SameTemplates, OwnLabels
  <2> DEFINE T == TemplateLabels[s]
             U == Merge(UserSelector, T)
             again == Merge(sel, T)
             f == Merge(again, OwnLabels(s))
             g == Merge(U, OwnLabels(s))
  <2>2. sel = Merge(U, OwnLabels(t)) /\ StepLabels(s) = g
    BY <1>2, <2>1 DEF StepLabels
  <2>3. /\ DOMAIN U = DOMAIN UserSelector \cup DOMAIN T
        /\ \A k \in DOMAIN T : U[k] = T[k]
    BY DEF Merge
  <2>4. /\ DOMAIN sel = DOMAIN U \cup DOMAIN OwnLabels(s)
        /\ \A k \in DOMAIN U : k \notin DOMAIN OwnLabels(s) => sel[k] = U[k]
    BY <2>1, <2>2 DEF Merge
  <2>5. /\ DOMAIN again = DOMAIN sel
        /\ \A k \in DOMAIN sel : again[k] = IF k \in DOMAIN T THEN T[k] ELSE sel[k]
    <3> HIDE DEF U, T
    <3> QED
      BY <2>3, <2>4 DEF Merge
  <2>6. /\ DOMAIN f = DOMAIN g
        /\ \A k \in DOMAIN g : f[k] = g[k]
    <3> HIDE DEF U, T, again
    <3> QED
      BY <2>3, <2>4, <2>5 DEF Merge
  <2>7. f = [k \in DOMAIN f |-> f[k]] /\ g = [k \in DOMAIN g |-> g[k]]
    BY DEF Merge
  <2> HIDE DEF f, g
  <2>8. f = g
    BY <2>6, <2>7
  <2> QED
    BY <2>2, <2>8 DEF f, g
<1> QED
  BY <1>1, <1>2 DEF Selectors

(* So the labels of the step's job are known, *)
LEMMA JobLabelsKnown ==
    ASSUME SameTemplates, NEW o, o.sel \in Selectors, NEW s \in Steps
    PROVE  getJobLabelsSetFromWorkflow(o, s) = StepLabels(s)
BY StepLabelsAgain DEF getJobLabelsSetFromWorkflow

(* and a job of the step is found by them. *)
LEMMA LabelledJobFound ==
    ASSUME SameTemplates, TypeOK, LabelsKept, AtStep, NEW j \in jobCache,
           Step(j) = CurrentStep
    PROVE  j \in retrieveJobsStep(local, CurrentStep)
<1>1. CurrentStep \in Steps /\ local.sel \in Selectors
  BY ControllerAssumption DEF AtStep, TypeOK, CurrentStep, LabelsKept, SelectorsKept
<1>2. j.labels = StepLabels(CurrentStep)
  BY DEF LabelsKept, JobsLabelled, Labelled
<1>3. getJobLabelsSetFromWorkflow(local, CurrentStep) = j.labels
  BY <1>1, <1>2, JobLabelsKnown
<1> QED
  BY <1>3 DEF retrieveJobsStep, Matches

(* A change of the stored workflow keeps the selectors. *)
LEMMA SelectorStep ==
    ASSUME TypeOK, SelectorsKept, UNCHANGED wfCache,
           pc' = "manage" => local'.sel \in Selectors,
           \/ UNCHANGED wfStore
           \/ wf # Nil /\ RemoveWorkflow
           \/ \E o \in Workflow : o.sel \in Selectors /\ WriteWorkflow(o)
    PROVE  SelectorsKept'
<1>1. ASSUME NEW o, NEW t, o.sel \in Selectors,
             wfWatch' = Append(wfWatch, [type |-> t, obj |-> o])
      PROVE  \A k \in 1..Len(wfWatch') : wfWatch'[k].obj.sel \in Selectors
  <2>1. wfWatch \in Seq(WorkflowEvent)
    BY DEF TypeOK, ClusterTypeOK
  <2>2. /\ Len(wfWatch') = Len(wfWatch) + 1
        /\ \A k \in 1..Len(wfWatch) : wfWatch'[k] = wfWatch[k]
        /\ wfWatch'[Len(wfWatch) + 1] = [type |-> t, obj |-> o]
        /\ Len(wfWatch) \in Nat
    BY <1>1, <2>1
  <2> QED
    BY <1>1, <2>2 DEF SelectorsKept
<1>2. CASE UNCHANGED wfStore
  BY <1>2 DEF SelectorsKept, wfStore
<1>3. CASE wf # Nil /\ RemoveWorkflow
  BY <1>1, <1>3 DEF SelectorsKept, RemoveWorkflow
<1>4. ASSUME NEW o \in Workflow, o.sel \in Selectors, WriteWorkflow(o) PROVE SelectorsKept'
  <2>1. NextVersion(o).sel = o.sel
    BY DEF NextVersion, Workflow
  <2> QED
    BY <1>1, <1>4, <2>1 DEF SelectorsKept, WriteWorkflow
<1> QED
  BY <1>2, <1>3, <1>4

LEMMA InformerKeepsSelectors ==
    ASSUME TypeOK, SelectorsKept, CacheWorkflow \/ Relist,
           pc' = "manage" => local'.sel \in Selectors
    PROVE  SelectorsKept'
<1>1. CASE CacheWorkflow
  <2>1. /\ wfWatch \in Seq(WorkflowEvent) /\ wfWatch # <<>>
        /\ wfWatch' = Tail(wfWatch)
    BY <1>1 DEF CacheWorkflow, TypeOK, ClusterTypeOK
  <2>2. \A k \in 1..Len(wfWatch') : k + 1 \in 1..Len(wfWatch) /\ wfWatch'[k] = wfWatch[k + 1]
    BY <2>1
  <2>3. Head(wfWatch).obj.sel \in Selectors
    BY <2>1 DEF SelectorsKept
  <2>4. wfCache' # Nil => wfCache' = Head(wfWatch).obj
    BY <1>1 DEF CacheWorkflow
  <2>5. wf' = wf
    BY <1>1 DEF CacheWorkflow
  <2> QED
    BY <2>2, <2>3, <2>4, <2>5 DEF SelectorsKept
<1>2. CASE Relist
  BY <1>2 DEF Relist, SelectorsKept
<1> QED
  BY <1>1, <1>2

LEMMA NextSelectors ==
    ASSUME SameTemplates, TypeOK, SelectorsKept, [Next]_vars
    PROVE  SelectorsKept'
<1>1. ASSUME UNCHANGED wfCache, pc' = "manage" => local'.sel \in Selectors,
             \/ UNCHANGED wfStore
             \/ wf # Nil /\ RemoveWorkflow
             \/ \E o \in Workflow : o.sel \in Selectors /\ WriteWorkflow(o)
      PROVE  SelectorsKept'
  BY <1>1, SelectorStep
<1>2. /\ wf # Nil => wf \in Workflow /\ wf.sel \in Selectors
      /\ wfCache # Nil => wfCache \in Workflow /\ wfCache.sel \in Selectors
      /\ pc = "manage" => local \in Workflow /\ local.sel \in Selectors
  BY DEF TypeOK, ClusterTypeOK, SelectorsKept
<1>3. UserSelector \in Selectors
  BY DEF Selectors
<1>4. CASE Outside(Environment)
  <2>1. UNCHANGED wfCache /\ (pc' = "manage" => local'.sel \in Selectors)
    BY <1>2, <1>4 DEF Outside, worker, Environment, UserCreate, UserEdit, UserDelete,
                      Finalize, JobFinishes, JobGone, Tick, caches
  <2>2. ASSUME NEW s \in Submissions, UserCreate(s) PROVE SelectorsKept'
    <3>1. NewWorkflow(s) \in Workflow
      <4>1. s \in Submission
        BY ClusterAssumption
      <4> QED
        BY <4>1, ClusterAssumption
        DEF NewWorkflow, NoStatus, StepStatus, TypeOK, ClusterTypeOK, Workflow, Submission
    <3>2. NewWorkflow(s).sel \in Selectors
      BY <1>3 DEF NewWorkflow
    <3> QED
      BY <1>1, <2>1, <2>2, <3>1, <3>2 DEF UserCreate
  <2>3. ASSUME NEW s \in Submissions, UserEdit(s) PROVE SelectorsKept'
    <3> DEFINE o == [wf EXCEPT !.defaulted = s.defaulted, !.valid = s.valid,
                               !.sel = UserSelector]
    <3>1. o \in Workflow /\ o.sel = UserSelector
      BY <1>2, <2>3, ClusterAssumption DEF UserEdit, Workflow, Submission
    <3>2. WriteWorkflow(o)
      BY <2>3 DEF UserEdit
    <3> HIDE DEF o
    <3> QED
      BY <1>1, <1>3, <2>1, <3>1, <3>2
  <2>4. CASE UserDelete \/ Finalize
    <3> DEFINE o == [wf EXCEPT !.deleting = TRUE]
    <3>1. wf # Nil => o \in Workflow /\ o.sel \in Selectors
      BY <1>2 DEF Workflow
    <3>2. wf # Nil /\ (RemoveWorkflow \/ WriteWorkflow(o))
      BY <2>4 DEF UserDelete, Finalize
    <3> HIDE DEF o
    <3> QED
      BY <1>1, <2>1, <3>1, <3>2
  <2>5. CASE Tick \/ \E j \in jobs : JobFinishes(j) \/ JobGone(j)
    BY <1>1, <2>1, <2>5 DEF Tick, JobFinishes, JobGone
  <2> QED
    BY <1>4, <2>2, <2>3, <2>4, <2>5 DEF Outside, Environment
<1>5. CASE Outside(CacheWorkflow)
  BY <1>2, <1>5, InformerKeepsSelectors DEF Outside, worker
<1>6. CASE Outside(CacheJob) \/ Outside(Resync) \/ RetryFires \/ UNCHANGED vars
  BY <1>1, <1>2, <1>6 DEF Outside, worker, CacheJob, Resync, RetryFires, vars, clusterVars,
                          wfStore, caches
<1>7. CASE Handlers
  BY <1>1, <1>2, <1>7
  DEF Handlers, onAddWorkflow, onUpdateWorkflow, onDeleteWorkflow, onJobEvent, worker,
      deleteWorkflow
<1>8. CASE GetItem \/ SyncIgnored \/ SyncInvalid \/ CleanupReturns
           \/ \E j \in todo : DeleteJob(j)
  BY <1>1, <1>2, <1>8
  DEF GetItem, SyncIgnored, SyncInvalid, CleanupReturns, DeleteJob, Return, ResetWorker,
      deleteWorkflow, OtherThanWorkflow, clusterVars, wfStore, caches
<1>9. CASE SyncManage
  BY <1>1, <1>2, <1>9 DEF SyncManage, SyncProceeds, clusterVars, wfStore, caches
<1>10. ASSUME NEW o \in Workflow, o.sel \in Selectors, updateWorkflow(o),
              pc' # "manage", UNCHANGED wfCache
       PROVE  SelectorsKept'
  BY <1>1, <1>10 DEF updateWorkflow
<1>11. CASE SyncDefault
  <2> DEFINE o == [wfCache EXCEPT !.defaulted = TRUE]
  <2>1. o \in Workflow /\ o.sel \in Selectors
    BY <1>2, <1>11 DEF SyncDefault, Workflow
  <2>2. updateWorkflow(o) /\ pc' # "manage" /\ UNCHANGED wfCache
    BY <1>11 DEF SyncDefault, Return, ResetWorker, OtherThanWorkflow, caches
  <2> HIDE DEF o
  <2> QED
    BY <1>10, <2>1, <2>2
<1>12. CASE SyncStart
  <2> DEFINE o == [wfCache EXCEPT !.status = NoStatus, !.start = now]
  <2>1. NoStatus \in [Steps -> StepStatus] /\ now \in Nat
    BY DEF NoStatus, StepStatus, TypeOK, ClusterTypeOK
  <2>2. o \in Workflow /\ o.sel \in Selectors
    BY <1>2, <1>12, <2>1 DEF SyncStart, SyncProceeds, Workflow
  <2>3. updateWorkflow(o) /\ pc' # "manage" /\ UNCHANGED wfCache
    BY <1>12 DEF SyncStart, Return, ResetWorker, OtherThanWorkflow, caches
  <2> HIDE DEF o
  <2> QED
    BY <1>10, <2>2, <2>3
<1>13. ASSUME NEW o \in Workflow, o.sel \in Selectors, NEW c \in {"Complete", "Failed"}
       PROVE  WithCondition(o, c) \in Workflow /\ WithCondition(o, c).sel \in Selectors
  <2>1. WithCondition(o, c).sel = o.sel
    BY DEF WithCondition, Workflow
  <2> QED
    BY <1>13, <2>1, WithConditionType
<1>14. CASE SyncDeadline
  BY <1>2, <1>10, <1>13, <1>14 DEF SyncDeadline, SyncProceeds, OtherThanWorkflow, caches
<1>15. CASE FinishManage
  BY <1>1, <1>2, <1>10, <1>13, <1>15
  DEF FinishManage, Return, ResetWorker, OtherThanWorkflow, caches, wfStore
<1>16. ASSUME AtStep, UNCHANGED <<wfStore, wfCache>>, local'.sel \in Selectors
       PROVE  SelectorsKept'
  BY <1>1, <1>16
<1>17. ASSUME AtStep
       PROVE  local.sel \in Selectors /\ WithStepLabels(local, CurrentStep).sel \in Selectors
  <2>1. local \in Workflow /\ local.sel \in Selectors /\ CurrentStep \in Steps
    BY <1>2, <1>17, ControllerAssumption DEF AtStep, TypeOK, CurrentStep
  <2>2. WithStepLabels(local, CurrentStep).sel = StepLabels(CurrentStep)
    BY <2>1, JobLabelsKnown DEF WithStepLabels, Workflow
  <2> QED
    BY <2>1, <2>2 DEF Selectors
<1>18. CASE StepComplete \/ StepExternal \/ StepBlocked \/ StepCreateJob
            \/ StepCreateFails \/ StepTooManyJobs
  BY <1>16, <1>17, <1>18
  DEF StepComplete, StepExternal, StepBlocked, StepCreateJob, StepCreateFails,
      StepTooManyJobs, AtReadyStep, AtPendingStep, clusterVars, caches
<1>19. CASE StepObserveJob
  <2>1. PICK j \in jobCache :
           /\ AtReadyStep({j})
           /\ local' = [WithStepLabels(local, CurrentStep) EXCEPT !.status[CurrentStep] =
                           IF IsJobFinished(j) THEN "complete" ELSE "running"]
           /\ UNCHANGED clusterVars
    BY <1>19 DEF StepObserveJob
  <2>2. AtStep
    BY <2>1 DEF AtReadyStep, AtPendingStep
  <2>3. local'.sel = WithStepLabels(local, CurrentStep).sel
    BY <1>2, <2>1, <2>2 DEF AtStep, WithStepLabels, Workflow
  <2> QED
    BY <1>16, <1>17, <2>1, <2>2, <2>3 DEF clusterVars, caches
<1>20. CASE Restart
  BY <1>20, InformerKeepsSelectors DEF Restart, ResetWorker
<1> QED
  BY <1>4, <1>5, <1>6, <1>7, <1>8, <1>9, <1>11, <1>12, <1>14, <1>15, <1>18, <1>19, <1>20
  DEF Next, Surroundings, Worker, sync, manageWorkflow

LEMMA JobsLabelStep ==
    ASSUME TypeOK, JobsLabelled, UNCHANGED jobCache,
           \/ UNCHANGED <<jobs, jobWatch>>
           \/ \E j \in Job : Labelled(j) /\ WriteJob(j)
           \/ \E j \in jobs : RemoveJob(j)
    PROVE  JobsLabelled'
<1>1. ASSUME NEW j, NEW t, Labelled(j),
             jobWatch' = Append(jobWatch, [type |-> t, obj |-> j])
      PROVE  \A k \in 1..Len(jobWatch') : Labelled(jobWatch'[k].obj)
  <2>1. jobWatch \in Seq(JobEvent)
    BY DEF TypeOK, ClusterTypeOK
  <2>2. /\ Len(jobWatch') = Len(jobWatch) + 1
        /\ \A k \in 1..Len(jobWatch) : jobWatch'[k] = jobWatch[k]
        /\ jobWatch'[Len(jobWatch) + 1] = [type |-> t, obj |-> j]
        /\ Len(jobWatch) \in Nat
    BY <1>1, <2>1
  <2> QED
    BY <1>1, <2>2 DEF JobsLabelled
<1>2. CASE UNCHANGED <<jobs, jobWatch>>
  BY <1>2 DEF JobsLabelled
<1>3. ASSUME NEW j \in Job, Labelled(j), WriteJob(j) PROVE JobsLabelled'
  BY <1>1, <1>3 DEF JobsLabelled, WriteJob
<1>4. ASSUME NEW j \in jobs, RemoveJob(j) PROVE JobsLabelled'
  BY <1>1, <1>4 DEF JobsLabelled, RemoveJob
<1> QED
  BY <1>2, <1>3, <1>4

LEMMA InformerKeepsLabels ==
    ASSUME TypeOK, JobsLabelled, CacheJob \/ Relist
    PROVE  JobsLabelled'
<1>1. CASE CacheJob
  <2>1. /\ jobWatch \in Seq(JobEvent) /\ jobWatch # <<>>
        /\ jobWatch' = Tail(jobWatch)
    BY <1>1 DEF CacheJob, TypeOK, ClusterTypeOK
  <2>2. \A k \in 1..Len(jobWatch') : k + 1 \in 1..Len(jobWatch) /\ jobWatch'[k] = jobWatch[k + 1]
    BY <2>1
  <2>3. Labelled(Head(jobWatch).obj)
    BY <2>1 DEF JobsLabelled
  <2>4. jobCache' \subseteq jobCache \cup {Head(jobWatch).obj} /\ jobs' = jobs
    BY <1>1 DEF CacheJob
  <2> QED
    BY <2>2, <2>3, <2>4 DEF JobsLabelled
<1>2. CASE Relist
  <2>1. PICK f \in Orders(jobs) :
           jobWatch' = [k \in DOMAIN f |-> [type |-> "set", obj |-> f[k]]]
    BY <1>2 DEF Relist
  <2>2. PICK n \in Nat : f \in [1..n -> jobs]
    BY <2>1, ClusterAssumption DEF Orders
  <2>3. Len(jobWatch') = n /\ \A k \in 1..n : jobWatch'[k].obj \in jobs
    BY <2>1, <2>2
  <2>4. jobs' = jobs /\ jobCache' = {}
    BY <1>2 DEF Relist
  <2> QED
    BY <2>3, <2>4 DEF JobsLabelled
<1> QED
  BY <1>1, <1>2

LEMMA NextJobsLabelled ==
    ASSUME SameTemplates, TypeOK, LabelsKept, [Next]_vars
    PROVE  JobsLabelled'
<1> USE DEF LabelsKept
<1>1. ASSUME UNCHANGED <<jobs, jobWatch, jobCache>> PROVE JobsLabelled'
  BY <1>1, JobsLabelStep
<1>2. ASSUME NEW j \in Job, Labelled(j), WriteJob(j), UNCHANGED jobCache PROVE JobsLabelled'
  BY <1>2, JobsLabelStep
<1>3. \A j \in jobs : j \in Job /\ Labelled(j)
  BY DEF TypeOK, ClusterTypeOK, JobsLabelled
<1>4. CASE Environment
  <2>1. ASSUME NEW j \in jobs, JobFinishes(j) PROVE JobsLabelled'
    <3> DEFINE x == [j EXCEPT !.finished = TRUE]
    <3>1. x \in Job /\ x.labels = j.labels
      BY <1>3 DEF Job
    <3>2. WriteJob(x) /\ UNCHANGED jobCache
      BY <2>1 DEF JobFinishes, caches
    <3> HIDE DEF x
    <3> QED
      BY <1>2, <1>3, <3>1, <3>2 DEF Labelled, Step
  <2>2. ASSUME NEW j \in jobs, JobGone(j) PROVE JobsLabelled'
    BY <2>2, JobsLabelStep DEF JobGone, caches
  <2>3. ASSUME NEW s \in Submissions, UserCreate(s) \/ UserEdit(s) PROVE JobsLabelled'
    BY <1>1, <2>3 DEF UserCreate, UserEdit, jobStore, caches
  <2>4. CASE UserDelete \/ Finalize \/ Tick
    BY <1>1, <2>4 DEF UserDelete, Finalize, Tick, jobStore, caches
  <2> QED
    BY <1>4, <2>1, <2>2, <2>3, <2>4 DEF Environment
<1>5. CASE CacheWorkflow \/ Resync \/ Handlers \/ RetryFires \/ GetItem
  BY <1>1, <1>5
  DEF CacheWorkflow, Resync, Handlers, onAddWorkflow, onUpdateWorkflow, onDeleteWorkflow,
      onJobEvent, RetryFires, GetItem, clusterVars, jobStore, caches
<1>6. CASE CacheJob \/ Relist
  BY <1>6, InformerKeepsLabels
<1>7. ASSUME NEW j \in todo, DeleteJob(j) PROVE JobsLabelled'
  <2>1. ASSUME NEW x \in jobs, WriteJob([x EXCEPT !.deleting = TRUE]) PROVE JobsLabelled'
    <3> DEFINE y == [x EXCEPT !.deleting = TRUE]
    <3>1. y \in Job /\ y.labels = x.labels
      BY <1>3 DEF Job
    <3>2. WriteJob(y) /\ UNCHANGED jobCache
      BY <1>7, <2>1 DEF DeleteJob, caches
    <3> HIDE DEF y
    <3> QED
      BY <1>2, <1>3, <3>1, <3>2 DEF Labelled, Step
  <2>2. CASE UNCHANGED <<jobs, jobWatch>>
    BY <1>1, <1>7, <2>2 DEF DeleteJob, caches
  <2> QED
    BY <1>7, <2>1, <2>2 DEF DeleteJob
<1>8. CASE SyncIgnored \/ SyncDefault \/ SyncInvalid \/ SyncStart \/ SyncDeadline
           \/ CleanupReturns \/ SyncManage
  BY <1>1, <1>8
  DEF SyncIgnored, SyncDefault, SyncInvalid, SyncStart, SyncDeadline, CleanupReturns,
      SyncManage, OtherThanWorkflow, clusterVars, jobStore, caches
<1>9. CASE StepCreateJob
  <2> DEFINE s == CurrentStep
             j == NewJob(local, s)
  <2>1. local \in Workflow /\ s \in Steps /\ local.sel \in Selectors
    BY <1>9, ControllerAssumption
    DEF StepCreateJob, AtReadyStep, AtPendingStep, AtStep, TypeOK, CurrentStep, SelectorsKept
  <2>2. jobCount + 1 \in Nat \ {0}
    BY DEF TypeOK, ClusterTypeOK
  <2>3. j \in Job /\ Step(j) = s
    BY <2>1, <2>2, JobLabels DEF NewJob, Job, Workflow, Step
  <2>4. j.labels = StepLabels(s)
    BY <2>1, JobLabelsKnown DEF NewJob
  <2>5. WriteJob(j) /\ UNCHANGED jobCache
    BY <1>9 DEF StepCreateJob, caches
  <2> HIDE DEF j
  <2> QED
    BY <1>2, <2>3, <2>4, <2>5 DEF Labelled
<1>10. CASE manageWorkflow
  BY <1>1, <1>9, <1>10
  DEF manageWorkflow, StepComplete, StepExternal, StepBlocked, StepCreateFails,
      StepObserveJob, StepTooManyJobs, FinishManage, OtherThanWorkflow, clusterVars,
      jobStore, caches
<1>11. CASE UNCHANGED vars
  BY <1>1, <1>11 DEF vars, clusterVars, jobStore, caches
<1> QED
  BY <1>4, <1>5, <1>6, <1>7, <1>8, <1>10, <1>11
  DEF Next, Surroundings, Outside, Worker, sync, Restart

(* Jobs are created in one place. *)
LEMMA OnlyStepCreatesJobs ==
    ASSUME TypeOK, [Next]_vars, jobCount' > jobCount
    PROVE  StepCreateJob
<1>1. jobCount \in Nat
  BY DEF TypeOK, ClusterTypeOK
<1>2. ASSUME UNCHANGED jobCount PROVE FALSE
  BY <1>1, <1>2
<1>3. CASE Surroundings
  BY <1>2, <1>3
  DEF Surroundings, Outside, Environment, UserCreate, UserEdit, UserDelete, Finalize,
      JobFinishes, JobGone, Tick, CacheWorkflow, CacheJob, Resync, jobStore
<1>4. CASE Handlers \/ RetryFires \/ GetItem \/ Restart \/ UNCHANGED vars
  BY <1>2, <1>4
  DEF Handlers, onAddWorkflow, onUpdateWorkflow, onDeleteWorkflow, onJobEvent, RetryFires,
      GetItem, Restart, Relist, vars, clusterVars, jobStore
<1>5. CASE sync
  BY <1>2, <1>5
  DEF sync, SyncIgnored, SyncDefault, SyncInvalid, SyncStart, SyncDeadline, DeleteJob,
      CleanupReturns, SyncManage, OtherThanWorkflow, clusterVars, jobStore
<1>6. CASE manageWorkflow
  BY <1>2, <1>6
  DEF manageWorkflow, StepComplete, StepExternal, StepBlocked, StepCreateFails,
      StepObserveJob, StepTooManyJobs, FinishManage, OtherThanWorkflow, clusterVars, jobStore
<1> QED
  BY <1>3, <1>4, <1>5, <1>6 DEF Next, Worker

--------------------------------------------------------------------------------
(* The jobs of reported steps.                                               *)

(* The steps of the jobs that the worker sees in the cache, or will see      *)
(* there before it begins its next pass.                                     *)
StepsShown ==
    {Step(j) : j \in jobCache} \cup {Step(jobWatch[k].obj) : k \in 1..unsynced.job}

CompleteIn(o) == {s \in Steps : o.status[s] = "complete"}

(* Of the jobs J one is the job that j is a copy of. *)
StillIn(J, j) == \E x \in J : x.id = j.id /\ Step(x) = Step(j)

(* While nobody removes jobs, every job that was seen stays: the caches only *)
(* gain jobs, and a new version replaces one of the same step.               *)
JobsStay ==
    /\ \A j \in jobs : ~j.deleting /\ j.id <= jobCount
    /\ \A j, x \in jobs : j.id = x.id => j = x
    /\ \A j \in jobCache : StillIn(jobs, j)
    /\ \A k \in 1..Len(jobWatch) : jobWatch[k].type = "set" /\ StillIn(jobs, jobWatch[k].obj)
    /\ pc # "cleanup" /\ todo = {}

ReportsShown ==
    /\ wf # Nil => CompleteIn(wf) \subseteq StepsShown
    /\ wfCache # Nil => CompleteIn(wfCache) \subseteq StepsShown
    /\ \A k \in 1..Len(wfWatch) : CompleteIn(wfWatch[k].obj) \subseteq StepsShown
    /\ pc = "manage" => CompleteIn(local) \subseteq StepsShown

ListedFirst ==
    /\ unsynced.job <= Len(jobWatch)
    /\ pc # "idle" => unsynced.job = 0

JobsKept == edits = 0 => ListedFirst /\ JobsStay /\ ReportsShown

JobsSame == UNCHANGED <<jobs, jobWatch, jobCount, jobCache>> /\ unsynced'.job = unsynced.job

JobFinished ==
    /\ UNCHANGED <<jobCount, jobCache>> /\ unsynced'.job = unsynced.job
    /\ \E j \in jobs : WriteJob([j EXCEPT !.finished = TRUE])

JobAdded ==
    /\ jobCount' = jobCount + 1 /\ UNCHANGED jobCache /\ unsynced'.job = unsynced.job
    /\ \E j \in Job : j.id = jobCount + 1 /\ ~j.deleting /\ WriteJob(j)

(* The worker deletes nothing, and begins a pass with its caches synced. *)
Calm ==
    /\ pc' # "cleanup" /\ todo' = {}
    /\ pc' # "idle" => pc # "idle" \/ unsynced.job = 0

(* Without a deadline and without edits this is all that happens to jobs. *)
LEMMA JobSteps ==
    ASSUME Deadline = Nil, TypeOK, JobsStay, edits = 0, edits' = 0, [Next]_vars
    PROVE  /\ JobsSame \/ JobFinished \/ JobAdded \/ CacheJob \/ (Relist /\ pc' = "idle")
           /\ Calm
<1>1. pc # "cleanup" /\ todo = {} /\ unsynced \in [wf : Nat, job : Nat] /\ edits \in Nat
  BY DEF JobsStay, TypeOK, ClusterTypeOK
<1>2. UNCHANGED worker => Calm
  BY <1>1 DEF worker, cleanup, Calm
<1>3. ~Edit
  BY DEF Edit
<1>4. ASSUME Outside(Environment)
      PROVE  JobsSame \/ JobFinished
  <2>1. UNCHANGED jobCache /\ unsynced'.job = unsynced.job
    BY <1>4 DEF Outside, Environment, UserCreate, UserEdit, UserDelete, Finalize,
                JobFinishes, JobGone, Tick, caches
  <2>2. ASSUME NEW j \in jobs, JobFinishes(j) \/ JobGone(j)
        PROVE  WriteJob([j EXCEPT !.finished = TRUE]) /\ UNCHANGED jobCount
    <3>1. ~j.deleting
      BY DEF JobsStay
    <3>2. JobFinishes(j)
      BY <1>3, <2>2, <3>1 DEF JobGone
    <3> QED
      BY <3>2 DEF JobFinishes
  <2>3. ASSUME \/ \E s \in Submissions : UserCreate(s) \/ UserEdit(s)
               \/ UserDelete \/ Finalize \/ Tick
        PROVE  UNCHANGED <<jobs, jobWatch, jobCount>>
    BY <2>3 DEF UserCreate, UserEdit, UserDelete, Finalize, Tick, jobStore
  <2> QED
    BY <1>4, <2>1, <2>2, <2>3 DEF Outside, Environment, JobsSame, JobFinished
<1>5. CASE Outside(Environment)
  BY <1>2, <1>4, <1>5 DEF Outside
<1>6. CASE Outside(CacheJob)
  BY <1>2, <1>6 DEF Outside
<1>7. CASE Outside(CacheWorkflow)
  <2>1. UNCHANGED jobCache /\ unsynced'.job = unsynced.job
    BY <1>1, <1>7 DEF Outside, CacheWorkflow
  <2> QED
    BY <1>2, <1>7, <2>1 DEF Outside, CacheWorkflow, jobStore, JobsSame
<1>8. CASE Outside(Resync) \/ Handlers \/ RetryFires \/ UNCHANGED vars
  <2>1. UNCHANGED <<jobs, jobWatch, jobCount, jobCache, unsynced, worker>>
    BY <1>8 DEF Outside, Resync, Handlers, onAddWorkflow, onUpdateWorkflow,
                onDeleteWorkflow, onJobEvent, RetryFires, vars, clusterVars, jobStore, caches
  <2> QED
    BY <1>2, <2>1 DEF JobsSame
<1>9. CASE GetItem \/ SyncIgnored \/ SyncDefault \/ SyncInvalid \/ SyncStart
           \/ CleanupReturns \/ SyncManage \/ FinishManage
  <2>1. UNCHANGED <<jobs, jobWatch, jobCount, jobCache, unsynced>>
    BY <1>9 DEF GetItem, SyncIgnored, SyncDefault, SyncInvalid, SyncStart, CleanupReturns,
                SyncManage, FinishManage, OtherThanWorkflow, clusterVars, jobStore, caches
  <2>2. Calm
    BY <1>1, <1>9 DEF GetItem, SyncIgnored, SyncDefault, SyncInvalid, SyncStart,
                CleanupReturns, SyncManage, SyncProceeds, FinishManage, Return, ResetWorker,
                cleanup, Calm
  <2> QED
    BY <2>1, <2>2 DEF JobsSame
<1>10. ~SyncDeadline /\ ~ \E j \in todo : DeleteJob(j)
  BY <1>1 DEF SyncDeadline, pastActiveDeadline
<1>11. CASE StepComplete \/ StepExternal \/ StepBlocked \/ StepCreateFails
            \/ StepObserveJob \/ StepTooManyJobs
  <2>1. UNCHANGED <<jobs, jobWatch, jobCount, jobCache, unsynced, pc, todo>>
    BY <1>11 DEF StepComplete, StepExternal, StepBlocked, StepCreateFails, StepObserveJob,
                 StepTooManyJobs, clusterVars, jobStore, caches, cleanup
  <2> QED
    BY <1>1, <2>1 DEF JobsSame, Calm
<1>12. CASE StepCreateJob
  <2> DEFINE j == NewJob(local, CurrentStep)
  <2>1. /\ WriteJob(j) /\ jobCount' = jobCount + 1
        /\ UNCHANGED <<jobCache, unsynced, pc, todo>>
    BY <1>12 DEF StepCreateJob, caches, cleanup
  <2>2. AtStep
    BY <1>12 DEF StepCreateJob, AtReadyStep, AtPendingStep
  <2>3. local \in Workflow /\ CurrentStep \in Steps
    BY <2>2, ControllerAssumption DEF AtStep, TypeOK, CurrentStep
  <2>4. jobCount + 1 \in Nat \ {0}
    BY DEF TypeOK, ClusterTypeOK
  <2>5. j \in Job /\ j.id = jobCount + 1 /\ ~j.deleting
    BY <2>3, <2>4, JobLabels DEF NewJob, Job, Workflow
  <2> HIDE DEF j
  <2> QED
    BY <1>1, <2>1, <2>5 DEF JobAdded, Calm
<1>13. CASE Restart
  BY <1>13 DEF Restart, ResetWorker, Calm
<1> QED
  BY <1>5, <1>6, <1>7, <1>8, <1>9, <1>10, <1>11, <1>12, <1>13
  DEF Next, Surroundings, Worker, sync, manageWorkflow

(* A write replaces the job of its number, which is for the same step. *)
LEMMA JobWritten ==
    ASSUME TypeOK, JobsStay, NEW j \in Job, ~j.deleting, WriteJob(j), UNCHANGED jobCache,
           \/ jobCount' = jobCount /\ j.id <= jobCount /\ StillIn(jobs, j)
           \/ jobCount' = jobCount + 1 /\ j.id = jobCount + 1,
           pc' # "cleanup", todo' = {}
    PROVE  JobsStay'
<1>1. /\ jobCount \in Nat /\ jobs \subseteq Job /\ jobWatch \in Seq(JobEvent)
      /\ \A x \in Job : x.id \in Nat
  BY DEF TypeOK, ClusterTypeOK, Job
<1>2. /\ jobs' = {x \in jobs : x.id # j.id} \cup {j}
      /\ jobWatch' = Append(jobWatch, [type |-> "set", obj |-> j])
  BY DEF WriteJob
<1>3. /\ \A x \in jobs' : ~x.deleting /\ x.id <= jobCount'
      /\ \A x, y \in jobs' : x.id = y.id => x = y
  BY <1>1, <1>2 DEF JobsStay
<1>4. ASSUME NEW x, StillIn(jobs, x)
      PROVE  StillIn(jobs', x)
  <2>1. PICK y \in jobs : y.id = x.id /\ Step(y) = Step(x)
    BY <1>4 DEF StillIn
  <2>2. CASE y.id # j.id
    <3>1. y \in jobs'
      BY <1>2, <2>1, <2>2
    <3> QED
      BY <2>1, <3>1 DEF StillIn
  <2>3. CASE y.id = j.id
    <3>1. y.id <= jobCount
      BY <2>1 DEF JobsStay
    <3>2. StillIn(jobs, j)
      BY <1>1, <2>1, <2>3, <3>1
    <3>3. PICK z \in jobs : z.id = j.id /\ Step(z) = Step(j)
      BY <3>2 DEF StillIn
    <3>4. y = z
      BY <2>1, <2>3, <3>3 DEF JobsStay
    <3>5. j \in jobs'
      BY <1>2
    <3> QED
      BY <2>1, <2>3, <3>3, <3>4, <3>5 DEF StillIn
  <2> QED
    BY <2>2, <2>3
<1>5. \A x \in jobCache' : StillIn(jobs', x)
  BY <1>4 DEF JobsStay
<1>6. StillIn(jobs', j)
  BY <1>2 DEF StillIn
<1>7. \A k \in 1..Len(jobWatch') : jobWatch'[k].type = "set" /\ StillIn(jobs', jobWatch'[k].obj)
  <2>1. /\ Len(jobWatch') = Len(jobWatch) + 1 /\ Len(jobWatch) \in Nat
        /\ \A k \in 1..Len(jobWatch) : jobWatch'[k] = jobWatch[k]
        /\ jobWatch'[Len(jobWatch) + 1] = [type |-> "set", obj |-> j]
    BY <1>1, <1>2
  <2>2. ASSUME NEW k \in 1..Len(jobWatch)
        PROVE  jobWatch'[k].type = "set" /\ StillIn(jobs', jobWatch'[k].obj)
    <3>1. jobWatch[k].type = "set" /\ StillIn(jobs, jobWatch[k].obj)
      BY DEF JobsStay
    <3>2. StillIn(jobs', jobWatch[k].obj)
      BY <3>1, <1>4
    <3> QED
      BY <2>1, <3>1, <3>2
  <2> QED
    BY <1>6, <2>1, <2>2
<1> QED
  BY <1>3, <1>5, <1>7 DEF JobsStay

(* A delivery moves one job from the watch to the cache, where it can only   *)
(* replace an older version of itself.                                       *)
LEMMA JobDelivered ==
    ASSUME TypeOK, JobsStay, ListedFirst, CacheJob, pc' # "cleanup", todo' = {},
           pc' # "idle" => pc # "idle" \/ unsynced.job = 0
    PROVE  JobsStay' /\ ListedFirst' /\ StepsShown \subseteq StepsShown'
<1> DEFINE e == Head(jobWatch)
           others == {x \in jobCache : x.id # e.obj.id}
           n == unsynced.job
<1>1. /\ jobWatch \in Seq(JobEvent) /\ jobWatch # <<>> /\ jobWatch' = Tail(jobWatch)
      /\ UNCHANGED <<jobs, jobCount>>
      /\ jobCache' = IF e.type = "set" THEN others \cup {e.obj} ELSE others
      /\ unsynced' = [unsynced EXCEPT !.job = IF n > 0 THEN n - 1 ELSE 0]
  BY DEF CacheJob, TypeOK, ClusterTypeOK
<1>2. unsynced \in [wf : Nat, job : Nat]
  BY DEF TypeOK, ClusterTypeOK
<1>3. n \in Nat /\ unsynced'.job = IF n > 0 THEN n - 1 ELSE 0
  BY <1>1, <1>2
<1>4. /\ Len(jobWatch) \in Nat /\ Len(jobWatch) > 0 /\ Len(jobWatch') = Len(jobWatch) - 1
      /\ e = jobWatch[1]
      /\ \A k \in 1..Len(jobWatch') : jobWatch'[k] = jobWatch[k + 1]
  BY <1>1
<1>5. /\ e.type = "set" /\ StillIn(jobs, e.obj)
      /\ \A k \in 1..Len(jobWatch) : jobWatch[k].type = "set" /\ StillIn(jobs, jobWatch[k].obj)
  BY <1>4 DEF JobsStay
<1> HIDE DEF e
<1>6. jobCache' = others \cup {e.obj} /\ others \subseteq jobCache
  BY <1>1, <1>5
<1>7. \A j \in jobCache' : StillIn(jobs, j)
  BY <1>5, <1>6 DEF JobsStay
<1>8. \A k \in 1..Len(jobWatch') : jobWatch'[k].type = "set" /\ StillIn(jobs, jobWatch'[k].obj)
  BY <1>4, <1>5
<1>9. JobsStay'
  BY <1>1, <1>7, <1>8 DEF JobsStay
<1>10. ListedFirst'
  BY <1>3, <1>4 DEF ListedFirst
<1>11. Step(e.obj) \in StepsShown'
  BY <1>6 DEF StepsShown
<1>12. ASSUME NEW j \in jobCache PROVE Step(j) \in StepsShown'
  <2>1. CASE j.id # e.obj.id
    <3>1. j \in jobCache'
      BY <1>6, <2>1
    <3> QED
      BY <3>1 DEF StepsShown
  <2>2. CASE j.id = e.obj.id
    <3>1. PICK x \in jobs : x.id = j.id /\ Step(x) = Step(j)
      BY DEF JobsStay, StillIn
    <3>2. PICK y \in jobs : y.id = e.obj.id /\ Step(y) = Step(e.obj)
      BY <1>5 DEF StillIn
    <3>3. x = y
      BY <2>2, <3>1, <3>2 DEF JobsStay
    <3> QED
      BY <1>11, <3>1, <3>2, <3>3
  <2> QED
    BY <2>1, <2>2
<1>13. ASSUME NEW k \in 1..n PROVE Step(jobWatch[k].obj) \in StepsShown'
  <2>1. CASE k = 1
    BY <1>4, <1>11, <2>1
  <2>2. CASE k # 1
    <3>1. k - 1 \in 1..unsynced'.job /\ k - 1 \in 1..Len(jobWatch')
      BY <1>3, <1>4, <2>2 DEF ListedFirst
    <3>2. jobWatch'[k - 1] = jobWatch[k]
      BY <1>3, <1>4, <3>1
    <3> QED
      BY <3>1, <3>2 DEF StepsShown
  <2> QED
    BY <2>1, <2>2
<1> QED
  BY <1>9, <1>10, <1>12, <1>13 DEF StepsShown

(* A new list has a job for each job that was seen. *)
LEMMA JobsListed ==
    ASSUME TypeOK, JobsStay, ListedFirst, Relist, pc' = "idle", todo' = {}
    PROVE  JobsStay' /\ ListedFirst' /\ StepsShown \subseteq StepsShown'
<1>1. PICK f \in Orders(jobs) :
         /\ jobWatch' = [k \in DOMAIN f |-> [type |-> "set", obj |-> f[k]]]
         /\ unsynced'.job = Len(f)
  BY DEF Relist
<1>2. PICK n \in Nat : f \in [1..n -> jobs]
  BY ClusterAssumption DEF Orders
<1>3. \A x \in jobs : \E k \in 1..n : f[k] = x
  BY <1>2 DEF Orders
<1>4. /\ Len(jobWatch') = n /\ unsynced'.job = n
      /\ \A k \in 1..n : jobWatch'[k] = [type |-> "set", obj |-> f[k]] /\ f[k] \in jobs
  BY <1>1, <1>2
<1>5. UNCHANGED <<jobs, jobCount>> /\ jobCache' = {}
  BY DEF Relist
<1>6. \A k \in 1..Len(jobWatch') : jobWatch'[k].type = "set" /\ StillIn(jobs, jobWatch'[k].obj)
  BY <1>4 DEF StillIn
<1>7. JobsStay'
  BY <1>5, <1>6 DEF JobsStay
<1>8. ListedFirst'
  BY <1>4 DEF ListedFirst
<1>9. ASSUME NEW x \in jobs PROVE Step(x) \in StepsShown'
  <2>1. PICK k \in 1..n : f[k] = x
    BY <1>3
  <2>2. k \in 1..unsynced'.job /\ jobWatch'[k].obj = x
    BY <1>4, <2>1
  <2> QED
    BY <2>2 DEF StepsShown
<1>10. ASSUME NEW x, StillIn(jobs, x) PROVE Step(x) \in StepsShown'
  BY <1>9, <1>10 DEF StillIn
<1>11. \A j \in jobCache : Step(j) \in StepsShown'
  BY <1>10 DEF JobsStay
<1>12. \A k \in 1..unsynced.job : Step(jobWatch[k].obj) \in StepsShown'
  <2>1. unsynced.job \in Nat /\ Len(jobWatch) \in Nat
    BY DEF TypeOK, ClusterTypeOK
  <2> QED
    BY <1>10, <2>1 DEF JobsStay, ListedFirst
<1> QED
  BY <1>7, <1>8, <1>11, <1>12 DEF StepsShown

LEMMA NextJobsStay ==
    ASSUME Deadline = Nil, TypeOK, JobsStay, ListedFirst, edits = 0, edits' = 0, [Next]_vars
    PROVE  JobsStay' /\ ListedFirst' /\ StepsShown \subseteq StepsShown'
<1>1. /\ pc' # "cleanup" /\ todo' = {}
      /\ pc' # "idle" => pc # "idle" \/ unsynced.job = 0
  BY JobSteps DEF Calm
<1>2. CASE CacheJob
  BY <1>1, <1>2, JobDelivered
<1>3. CASE Relist /\ pc' = "idle"
  BY <1>1, <1>3, JobsListed
<1>4. CASE JobsSame
  BY <1>1, <1>4 DEF JobsSame, JobsStay, ListedFirst, StepsShown
<1>5. ASSUME NEW j \in Job, ~j.deleting, WriteJob(j),
             UNCHANGED jobCache, unsynced'.job = unsynced.job,
             \/ jobCount' = jobCount /\ j.id <= jobCount /\ StillIn(jobs, j)
             \/ jobCount' = jobCount + 1 /\ j.id = jobCount + 1
      PROVE  JobsStay' /\ ListedFirst' /\ StepsShown \subseteq StepsShown'
  <2>1. JobsStay'
    BY <1>1, <1>5, JobWritten
  <2>2. /\ Len(jobWatch) \in Nat /\ Len(jobWatch') = Len(jobWatch) + 1
        /\ \A k \in 1..Len(jobWatch) : jobWatch'[k] = jobWatch[k]
        /\ unsynced.job \in Nat
    BY <1>5 DEF WriteJob, TypeOK, ClusterTypeOK
  <2> QED
    BY <1>1, <1>5, <2>1, <2>2 DEF ListedFirst, StepsShown
<1>6. ASSUME NEW j \in jobs, WriteJob([j EXCEPT !.finished = TRUE]),
             UNCHANGED <<jobCount, jobCache>>, unsynced'.job = unsynced.job
      PROVE  JobsStay' /\ ListedFirst' /\ StepsShown \subseteq StepsShown'
  <2> DEFINE x == [j EXCEPT !.finished = TRUE]
  <2>1. j \in Job /\ ~j.deleting /\ j.id <= jobCount
    BY DEF JobsStay, TypeOK, ClusterTypeOK
  <2>2. x \in Job /\ x.id = j.id /\ x.labels = j.labels /\ x.deleting = j.deleting
    BY <2>1 DEF Job
  <2> HIDE DEF x
  <2>3. StillIn(jobs, x)
    BY <2>2 DEF StillIn, Step
  <2>4. WriteJob(x)
    BY <1>6 DEF x
  <2> QED
    BY <1>5, <1>6, <2>1, <2>2, <2>3, <2>4
<1>7. CASE JobFinished
  BY <1>6, <1>7 DEF JobFinished
<1>8. CASE JobAdded
  BY <1>5, <1>8 DEF JobAdded
<1> QED
  BY <1>2, <1>3, <1>4, <1>7, <1>8, JobSteps

(* A change of the stored workflow reports only what was reported. *)
LEMMA ReportStep ==
    ASSUME TypeOK, ReportsShown, StepsShown \subseteq StepsShown', UNCHANGED wfCache,
           pc' = "manage" => CompleteIn(local') \subseteq StepsShown,
           \/ UNCHANGED wfStore
           \/ wf # Nil /\ RemoveWorkflow
           \/ \E o \in Workflow : CompleteIn(o) \subseteq StepsShown /\ WriteWorkflow(o)
    PROVE  ReportsShown'
<1> DEFINE R == StepsShown
           Rn == StepsShown'
<1>1. R \subseteq Rn
  OBVIOUS
<1>2. /\ wf # Nil => CompleteIn(wf) \subseteq R
      /\ wfCache # Nil => CompleteIn(wfCache) \subseteq R
      /\ \A k \in 1..Len(wfWatch) : CompleteIn(wfWatch[k].obj) \subseteq R
  BY DEF ReportsShown
<1>3. SUFFICES /\ wf' # Nil => CompleteIn(wf') \subseteq R
               /\ \A k \in 1..Len(wfWatch') : CompleteIn(wfWatch'[k].obj) \subseteq R
  BY <1>1, <1>2, <1>3 DEF ReportsShown
<1> HIDE DEF R, Rn
<1>4. ASSUME NEW o, NEW t, CompleteIn(o) \subseteq R,
             wfWatch' = Append(wfWatch, [type |-> t, obj |-> o])
      PROVE  \A k \in 1..Len(wfWatch') : CompleteIn(wfWatch'[k].obj) \subseteq R
  <2>1. wfWatch \in Seq(WorkflowEvent)
    BY DEF TypeOK, ClusterTypeOK
  <2>2. /\ Len(wfWatch') = Len(wfWatch) + 1
        /\ \A k \in 1..Len(wfWatch) : wfWatch'[k] = wfWatch[k]
        /\ wfWatch'[Len(wfWatch) + 1] = [type |-> t, obj |-> o]
        /\ Len(wfWatch) \in Nat
    BY <1>4, <2>1
  <2> QED
    BY <1>2, <1>4, <2>2
<1>5. CASE UNCHANGED wfStore
  BY <1>2, <1>5 DEF wfStore
<1>6. CASE wf # Nil /\ RemoveWorkflow
  BY <1>2, <1>4, <1>6 DEF RemoveWorkflow
<1>7. ASSUME NEW o \in Workflow, CompleteIn(o) \subseteq R, WriteWorkflow(o)
      PROVE  /\ wf' # Nil => CompleteIn(wf') \subseteq R
             /\ \A k \in 1..Len(wfWatch') : CompleteIn(wfWatch'[k].obj) \subseteq R
  <2>1. CompleteIn(NextVersion(o)) = CompleteIn(o)
    BY DEF NextVersion, Workflow, CompleteIn
  <2> QED
    BY <1>4, <1>7, <2>1 DEF WriteWorkflow
<1> QED
  BY <1>5, <1>6, <1>7 DEF R

LEMMA InformerKeepsReports ==
    ASSUME TypeOK, ReportsShown, StepsShown \subseteq StepsShown', CacheWorkflow \/ Relist,
           pc' = "manage" => CompleteIn(local') \subseteq StepsShown
    PROVE  ReportsShown'
<1>1. CASE CacheWorkflow
  <2>1. /\ wfWatch \in Seq(WorkflowEvent) /\ wfWatch # <<>>
        /\ wfWatch' = Tail(wfWatch)
    BY <1>1 DEF CacheWorkflow, TypeOK, ClusterTypeOK
  <2>2. \A k \in 1..Len(wfWatch') : k + 1 \in 1..Len(wfWatch) /\ wfWatch'[k] = wfWatch[k + 1]
    BY <2>1
  <2>3. CompleteIn(Head(wfWatch).obj) \subseteq StepsShown
    BY <2>1 DEF ReportsShown
  <2>4. wfCache' # Nil => wfCache' = Head(wfWatch).obj
    BY <1>1 DEF CacheWorkflow
  <2>5. wf' = wf
    BY <1>1 DEF CacheWorkflow
  <2> QED
    BY <2>2, <2>3, <2>4, <2>5 DEF ReportsShown
<1>2. CASE Relist
  BY <1>2 DEF Relist, ReportsShown
<1> QED
  BY <1>1, <1>2

(* A step is reported complete because of a job in the cache. *)
LEMMA ObserveReportsShown ==
    ASSUME TypeOK, ReportsShown, StepObserveJob
    PROVE  CompleteIn(local') \subseteq StepsShown
<1>1. PICK j \in jobCache :
         /\ AtReadyStep({j})
         /\ local' = [WithStepLabels(local, CurrentStep) EXCEPT !.status[CurrentStep] =
                         IF IsJobFinished(j) THEN "complete" ELSE "running"]
  BY DEF StepObserveJob
<1>2. /\ AtStep /\ retrieveJobsStep(local, CurrentStep) = {j}
      /\ local \in Workflow /\ CurrentStep \in Steps
  BY <1>1, ControllerAssumption DEF AtReadyStep, AtPendingStep, AtStep, TypeOK, CurrentStep
<1>3. CompleteIn(local) \subseteq StepsShown
  BY <1>2 DEF AtStep, ReportsShown
<1>4. Step(j) = CurrentStep
  BY <1>2, MatchesStep DEF retrieveJobsStep, TypeOK, ClusterTypeOK
<1>5. CurrentStep \in StepsShown
  BY <1>4 DEF StepsShown
<1>6. \A s \in Steps : s # CurrentStep => local'.status[s] = local.status[s]
  BY <1>1, <1>2 DEF WithStepLabels, Workflow
<1> QED
  BY <1>3, <1>5, <1>6 DEF CompleteIn

LEMMA NextReports ==
    ASSUME TypeOK, ReportsShown, StepsShown \subseteq StepsShown', [Next]_vars
    PROVE  ReportsShown'
<1> DEFINE R == StepsShown
<1>1. ASSUME UNCHANGED wfCache, pc' = "manage" => CompleteIn(local') \subseteq R,
             \/ UNCHANGED wfStore
             \/ wf # Nil /\ RemoveWorkflow
             \/ \E o \in Workflow : CompleteIn(o) \subseteq R /\ WriteWorkflow(o)
      PROVE  ReportsShown'
  BY <1>1, ReportStep
<1>2. /\ wf # Nil => wf \in Workflow /\ CompleteIn(wf) \subseteq R
      /\ wfCache # Nil => wfCache \in Workflow /\ CompleteIn(wfCache) \subseteq R
      /\ pc = "manage" => local \in Workflow /\ CompleteIn(local) \subseteq R
  BY DEF TypeOK, ClusterTypeOK, ReportsShown
<1>3. /\ /\ CacheWorkflow \/ Relist
         /\ pc' = "manage" => CompleteIn(local') \subseteq R
         => ReportsShown'
      /\ StepObserveJob => CompleteIn(local') \subseteq R
  BY InformerKeepsReports, ObserveReportsShown
<1> HIDE DEF R
<1>4. CASE Outside(Environment)
  <2>1. UNCHANGED wfCache /\ (pc' = "manage" => CompleteIn(local') \subseteq R)
    BY <1>2, <1>4 DEF Outside, worker, Environment, UserCreate, UserEdit, UserDelete,
                      Finalize, JobFinishes, JobGone, Tick, caches
  <2>2. ASSUME NEW s \in Submissions, UserCreate(s) PROVE ReportsShown'
    <3>1. NewWorkflow(s) \in Workflow
      <4>1. s \in Submission
        BY ClusterAssumption
      <4> QED
        BY <4>1, ClusterAssumption
        DEF NewWorkflow, NoStatus, StepStatus, TypeOK, ClusterTypeOK, Workflow, Submission
    <3>2. CompleteIn(NewWorkflow(s)) = {}
      BY DEF NewWorkflow, NoStatus, CompleteIn
    <3> QED
      BY <1>1, <2>1, <2>2, <3>1, <3>2 DEF UserCreate
  <2>3. ASSUME NEW s \in Submissions, UserEdit(s) PROVE ReportsShown'
    <3> DEFINE o == [wf EXCEPT !.defaulted = s.defaulted, !.valid = s.valid,
                               !.sel = UserSelector]
    <3>1. o \in Workflow /\ o.status = wf.status
      BY <1>2, <2>3, ClusterAssumption DEF UserEdit, Workflow, Submission
    <3>2. wf # Nil /\ WriteWorkflow(o)
      BY <2>3 DEF UserEdit
    <3> HIDE DEF o
    <3> QED
      BY <1>1, <1>2, <2>1, <3>1, <3>2 DEF CompleteIn
  <2>4. CASE UserDelete \/ Finalize
    <3> DEFINE o == [wf EXCEPT !.deleting = TRUE]
    <3>1. wf # Nil => o \in Workflow /\ o.status = wf.status
      BY <1>2 DEF Workflow
    <3>2. wf # Nil /\ (RemoveWorkflow \/ WriteWorkflow(o))
      BY <2>4 DEF UserDelete, Finalize
    <3> HIDE DEF o
    <3> QED
      BY <1>1, <1>2, <2>1, <3>1, <3>2 DEF CompleteIn
  <2>5. CASE Tick \/ \E j \in jobs : JobFinishes(j) \/ JobGone(j)
    BY <1>1, <2>1, <2>5 DEF Tick, JobFinishes, JobGone
  <2> QED
    BY <1>4, <2>2, <2>3, <2>4, <2>5 DEF Outside, Environment
<1>5. CASE Outside(CacheWorkflow)
  BY <1>2, <1>3, <1>5 DEF Outside, worker
<1>6. CASE Outside(CacheJob) \/ Outside(Resync) \/ RetryFires \/ UNCHANGED vars
  BY <1>1, <1>2, <1>6 DEF Outside, worker, CacheJob, Resync, RetryFires, vars, clusterVars,
                          wfStore, caches
<1>7. CASE Handlers
  BY <1>1, <1>2, <1>7
  DEF Handlers, onAddWorkflow, onUpdateWorkflow, onDeleteWorkflow, onJobEvent, worker,
      deleteWorkflow
<1>8. CASE GetItem \/ SyncIgnored \/ SyncInvalid \/ CleanupReturns
           \/ \E j \in todo : DeleteJob(j)
  BY <1>1, <1>2, <1>8
  DEF GetItem, SyncIgnored, SyncInvalid, CleanupReturns, DeleteJob, Return, ResetWorker,
      deleteWorkflow, OtherThanWorkflow, clusterVars, wfStore, caches
<1>9. CASE SyncManage
  BY <1>1, <1>2, <1>9 DEF SyncManage, SyncProceeds, clusterVars, wfStore, caches
<1>10. ASSUME NEW o \in Workflow, CompleteIn(o) \subseteq R, updateWorkflow(o),
              pc' # "manage", UNCHANGED wfCache
       PROVE  ReportsShown'
  BY <1>1, <1>10 DEF updateWorkflow
<1>11. CASE SyncDefault
  <2> DEFINE o == [wfCache EXCEPT !.defaulted = TRUE]
  <2>1. wfCache # Nil /\ o \in Workflow /\ o.status = wfCache.status
    BY <1>2, <1>11 DEF SyncDefault, Workflow
  <2>2. updateWorkflow(o) /\ pc' # "manage" /\ UNCHANGED wfCache
    BY <1>11 DEF SyncDefault, Return, ResetWorker, OtherThanWorkflow, caches
  <2> HIDE DEF o
  <2>3. CompleteIn(o) \subseteq R
    BY <1>2, <2>1 DEF CompleteIn
  <2> QED
    BY <1>10, <2>1, <2>2, <2>3
<1>12. CASE SyncStart
  <2> DEFINE o == [wfCache EXCEPT !.status = NoStatus, !.start = now]
  <2>1. NoStatus \in [Steps -> StepStatus] /\ now \in Nat
    BY DEF NoStatus, StepStatus, TypeOK, ClusterTypeOK
  <2>2. o \in Workflow /\ o.status = NoStatus
    BY <1>2, <1>12, <2>1 DEF SyncStart, SyncProceeds, Workflow
  <2>3. updateWorkflow(o) /\ pc' # "manage" /\ UNCHANGED wfCache
    BY <1>12 DEF SyncStart, Return, ResetWorker, OtherThanWorkflow, caches
  <2> HIDE DEF o
  <2>4. CompleteIn(o) = {}
    BY <2>2 DEF CompleteIn, NoStatus
  <2> QED
    BY <1>10, <2>2, <2>3, <2>4
<1>13. ASSUME NEW o \in Workflow, CompleteIn(o) \subseteq R, NEW c \in {"Complete", "Failed"}
       PROVE  WithCondition(o, c) \in Workflow /\ CompleteIn(WithCondition(o, c)) \subseteq R
  <2>1. WithCondition(o, c).status = o.status
    BY DEF WithCondition, Workflow
  <2> QED
    BY <1>13, <2>1, WithConditionType DEF CompleteIn
<1>14. CASE SyncDeadline
  BY <1>2, <1>10, <1>13, <1>14 DEF SyncDeadline, SyncProceeds, OtherThanWorkflow, caches
<1>15. CASE FinishManage
  BY <1>1, <1>2, <1>10, <1>13, <1>15
  DEF FinishManage, Return, ResetWorker, OtherThanWorkflow, caches, wfStore
<1>16. ASSUME AtStep, UNCHANGED <<wfStore, wfCache>>, CompleteIn(local') \subseteq R
       PROVE  ReportsShown'
  BY <1>1, <1>16
<1>17. ASSUME AtStep
       PROVE  CompleteIn(local) \subseteq R
              /\ CompleteIn(WithStepLabels(local, CurrentStep)) \subseteq R
  <2>1. local \in Workflow /\ CompleteIn(local) \subseteq R
    BY <1>2, <1>17 DEF AtStep
  <2>2. WithStepLabels(local, CurrentStep).status = local.status
    BY <2>1 DEF WithStepLabels, Workflow
  <2> QED
    BY <2>1, <2>2 DEF CompleteIn
<1>18. CASE StepComplete \/ StepExternal \/ StepBlocked \/ StepCreateJob
            \/ StepCreateFails \/ StepTooManyJobs
  BY <1>16, <1>17, <1>18
  DEF StepComplete, StepExternal, StepBlocked, StepCreateJob, StepCreateFails,
      StepTooManyJobs, AtReadyStep, AtPendingStep, clusterVars, caches
<1>19. CASE StepObserveJob
  BY <1>3, <1>16, <1>19 DEF StepObserveJob, AtReadyStep, AtPendingStep, clusterVars, caches
<1>20. CASE Restart
  BY <1>3, <1>20 DEF Restart, ResetWorker
<1> QED
  BY <1>4, <1>5, <1>6, <1>7, <1>8, <1>9, <1>11, <1>12, <1>14, <1>15, <1>18, <1>19, <1>20
  DEF Next, Surroundings, Worker, sync, manageWorkflow

(* The edits counted are never fewer. *)
LEMMA EditsGrow ==
    ASSUME TypeOK, [Next]_vars, edits' = 0
    PROVE  edits = 0
<1>1. edits \in Nat
  BY DEF TypeOK, ClusterTypeOK
<1>2. UNCHANGED edits => edits = 0
  OBVIOUS
<1>3. ~Edit
  BY <1>1 DEF Edit
<1>4. CASE Surroundings
  BY <1>2, <1>3, <1>4
  DEF Surroundings, Outside, Environment, UserCreate, UserEdit, UserDelete, Finalize,
      JobFinishes, JobGone, Tick, CacheWorkflow, CacheJob, Resync, history
<1>5. CASE Handlers \/ RetryFires \/ GetItem \/ Restart \/ UNCHANGED vars
  BY <1>2, <1>5
  DEF Handlers, onAddWorkflow, onUpdateWorkflow, onDeleteWorkflow, onJobEvent, RetryFires,
      GetItem, Restart, Relist, vars, clusterVars, history
<1>6. CASE sync
  BY <1>2, <1>6
  DEF sync, SyncIgnored, SyncDefault, SyncInvalid, SyncStart, SyncDeadline, DeleteJob,
      CleanupReturns, SyncManage, OtherThanWorkflow, clusterVars, history
<1>7. CASE manageWorkflow
  BY <1>2, <1>7
  DEF manageWorkflow, StepComplete, StepExternal, StepBlocked, StepCreateJob,
      StepCreateFails, StepObserveJob, StepTooManyJobs, FinishManage, OtherThanWorkflow,
      clusterVars, history
<1> QED
  BY <1>4, <1>5, <1>6, <1>7 DEF Next, Worker

(* A step that the workflow reports complete has a job in the synced cache. *)
LEMMA ReportedStepHasJob ==
    ASSUME TypeOK, JobsKept, edits = 0, pc # "idle", wf # Nil, NEW s \in CompleteIn(wf)
    PROVE  \E j \in jobCache : Step(j) = s
<1>1. s \in StepsShown /\ unsynced.job = 0
  BY DEF JobsKept, ReportsShown, ListedFirst
<1>2. 1..unsynced.job = {}
  BY <1>1
<1> QED
  BY <1>1, <1>2 DEF StepsShown

--------------------------------------------------------------------------------
(* The first workflow of the name, while nobody edits it.                    *)

(* No submission, and no update, changes what a copy of it says here. *)
Unedited(o) == o.valid = born[1].valid /\ ~o.deleting

AsCreated(o) == ~born[1].started => StatusEmpty(o)

(* The first version the cache gets is the created one, so that only this    *)
(* one is notified as an addition.                                           *)
CopiesUnedited ==
    /\ Unedited(wf)
    /\ wfCache # Nil => Unedited(wfCache)
    /\ \A k \in 1..Len(wfWatch) : wfWatch[k].type = "set" /\ Unedited(wfWatch[k].obj)
    /\ pc = "manage" => Unedited(local)
    /\ wfCache = Nil => wfWatch # <<>> /\ AsCreated(wfWatch[1].obj)
    /\ \A k \in 1..Len(wfNotes) : wfNotes[k].type = "add" => AsCreated(wfNotes[k].obj)

(* The uids count the workflows created, and nothing precedes the first. *)
NumberedByBirth ==
    /\ wf # Nil => wf.uid = Len(born)
    /\ born = <<>> => /\ wf = Nil /\ wfCache = Nil /\ wfWatch = <<>> /\ wfNotes = <<>>
                      /\ pc # "manage"

FirstUnedited == Len(born) = 1 /\ wf # Nil => CopiesUnedited

FirstsKept == edits = 0 => NumberedByBirth /\ FirstUnedited

(* The copy that the worker's update, or its pass, is based on. *)
UsesCopy(o) ==
    \/ wfCache # Nil /\ o.valid = wfCache.valid /\ o.deleting = wfCache.deleting
    \/ pc = "manage" /\ o.valid = local.valid /\ o.deleting = local.deleting

CopyTaken == pc' = "manage" => UsesCopy(local')

WorkflowRemoved == wf # Nil /\ RemoveWorkflow /\ (Finalize \/ onAddWorkflow \/ SyncInvalid)

WorkflowUpdated ==
    wf # Nil /\ \E o \in Workflow : o.uid = wf.uid /\ UsesCopy(o) /\ WriteWorkflow(o)

NotesHandled ==
    \/ UNCHANGED wfNotes
    \/ wfNotes # <<>> /\ wfNotes' = Tail(wfNotes)
    \/ wfCache # Nil /\ Len(wfNotes') = 1 /\ wfNotes'[1].type = "update"

Unborn == UNCHANGED <<born, wfCache>> /\ CopyTaken /\ NotesHandled

(* Without edits and restarts this is all that happens to the workflow. *)
LEMMA WorkflowSteps ==
    ASSUME ~Restart, TypeOK, [Next]_vars, edits' = 0
    PROVE  \/ (\E s \in Submissions : UserCreate(s)) /\ UNCHANGED pc
           \/ CacheWorkflow /\ CopyTaken
           \/ Unborn /\ (UNCHANGED wfStore \/ WorkflowRemoved \/ WorkflowUpdated)
<1>1. /\ wf # Nil => wf \in Workflow
      /\ wfCache # Nil => wfCache \in Workflow
      /\ pc = "manage" => local \in Workflow
      /\ edits \in Nat /\ restarts \in Nat
  BY DEF TypeOK, ClusterTypeOK
<1>2. ~Edit
  BY <1>1 DEF Edit
<1>3. UNCHANGED <<pc, local>> => CopyTaken
  BY DEF CopyTaken, UsesCopy
<1>4. CASE Outside(Environment)
  <2>1. UNCHANGED <<pc, local>>
    BY <1>4 DEF Outside, worker
  <2>2. CASE \E s \in Submissions : UserCreate(s) \/ UserEdit(s)
    BY <1>2, <2>1, <2>2 DEF UserEdit
  <2>3. CASE Finalize
    <3>1. wf # Nil /\ RemoveWorkflow /\ UNCHANGED <<born, wfCache, wfNotes>>
      BY <2>3 DEF Finalize, history, caches
    <3> QED
      BY <1>3, <2>1, <2>3, <3>1 DEF Unborn, NotesHandled, WorkflowRemoved
  <2>4. CASE Tick \/ \E j \in jobs : JobFinishes(j) \/ JobGone(j)
    <3>1. UNCHANGED <<born, wfCache, wfNotes, wfStore>>
      BY <2>4 DEF Tick, JobFinishes, JobGone, history, caches
    <3> QED
      BY <1>3, <2>1, <3>1 DEF Unborn, NotesHandled
  <2> QED
    BY <1>2, <1>4, <2>2, <2>3, <2>4 DEF Outside, Environment, UserDelete
<1>5. CASE Outside(CacheWorkflow)
  BY <1>3, <1>5 DEF Outside, worker
<1>6. CASE Outside(CacheJob) \/ Outside(Resync) \/ RetryFires \/ UNCHANGED vars
  <2>1. /\ UNCHANGED <<pc, local, born, wfCache, wfStore>>
        /\ \/ UNCHANGED wfNotes
           \/ wfCache # Nil /\ wfNotes' = <<[type |-> "update", obj |-> wfCache]>>
    BY <1>6 DEF Outside, worker, CacheJob, Resync, RetryFires, vars, clusterVars, caches,
                history
  <2> QED
    BY <1>3, <2>1 DEF Unborn, NotesHandled
<1>7. ASSUME NEW err, deleteWorkflow(err)
      PROVE  UNCHANGED wfStore \/ (wf # Nil /\ RemoveWorkflow)
  BY <1>7 DEF deleteWorkflow
<1>8. CASE Handlers
  <2>1. UNCHANGED <<pc, local, born, wfCache>> /\ NotesHandled
    BY <1>8 DEF Handlers, onAddWorkflow, onUpdateWorkflow, onDeleteWorkflow, onJobEvent,
                worker, history, NotesHandled
  <2>2. UNCHANGED wfStore \/ WorkflowRemoved
    BY <1>7, <1>8 DEF Handlers, onAddWorkflow, onUpdateWorkflow, onDeleteWorkflow,
                      onJobEvent, WorkflowRemoved
  <2> QED
    BY <1>3, <2>1, <2>2 DEF Unborn
<1>9. ASSUME UNCHANGED OtherThanWorkflow
      PROVE  UNCHANGED <<born, wfCache>> /\ NotesHandled
  BY <1>9 DEF OtherThanWorkflow, history, caches, NotesHandled
<1>10. CASE SyncInvalid
  <2>1. /\ UNCHANGED OtherThanWorkflow /\ pc' # "manage"
        /\ \E err \in BOOLEAN : deleteWorkflow(err)
    BY <1>10 DEF SyncInvalid, Return, ResetWorker
  <2>2. UNCHANGED wfStore \/ WorkflowRemoved
    BY <1>7, <1>10, <2>1 DEF WorkflowRemoved
  <2> QED
    BY <1>9, <2>1, <2>2 DEF Unborn, CopyTaken
<1>11. CASE GetItem \/ SyncIgnored \/ CleanupReturns \/ \E j \in todo : DeleteJob(j)
  <2>1. UNCHANGED <<born, wfCache, wfNotes, wfStore>> /\ pc' # "manage"
    BY <1>11 DEF GetItem, SyncIgnored, CleanupReturns, DeleteJob, Return, ResetWorker,
                 clusterVars, caches, history
  <2> QED
    BY <2>1 DEF Unborn, NotesHandled, CopyTaken
<1>12. CASE SyncManage
  <2>1. UNCHANGED <<born, wfCache, wfNotes, wfStore>> /\ wfCache # Nil /\ local' = wfCache
    BY <1>12 DEF SyncManage, SyncProceeds, clusterVars, caches, history
  <2> QED
    BY <2>1 DEF Unborn, NotesHandled, CopyTaken, UsesCopy
<1>13. ASSUME NEW o \in Workflow, UsesCopy(o), updateWorkflow(o)
       PROVE  UNCHANGED wfStore \/ WorkflowUpdated
  BY <1>13 DEF updateWorkflow, UpdateAccepted, WorkflowUpdated
<1>14. ASSUME NEW o \in Workflow, UsesCopy(o), updateWorkflow(o), pc' # "manage",
              UNCHANGED OtherThanWorkflow
       PROVE  Unborn /\ (UNCHANGED wfStore \/ WorkflowUpdated)
  BY <1>9, <1>13, <1>14 DEF Unborn, CopyTaken
<1>15. CASE SyncDefault
  <2> DEFINE o == [wfCache EXCEPT !.defaulted = TRUE]
  <2>1. o \in Workflow /\ UsesCopy(o)
    BY <1>1, <1>15 DEF SyncDefault, Workflow, UsesCopy
  <2>2. updateWorkflow(o) /\ pc' # "manage" /\ UNCHANGED OtherThanWorkflow
    BY <1>15 DEF SyncDefault, Return, ResetWorker
  <2> HIDE DEF o
  <2> QED
    BY <1>14, <2>1, <2>2
<1>16. CASE SyncStart
  <2> DEFINE o == [wfCache EXCEPT !.status = NoStatus, !.start = now]
  <2>1. NoStatus \in [Steps -> StepStatus] /\ now \in Nat
    BY DEF NoStatus, StepStatus, TypeOK, ClusterTypeOK
  <2>2. o \in Workflow /\ UsesCopy(o)
    BY <1>1, <1>16, <2>1 DEF SyncStart, SyncProceeds, Workflow, UsesCopy
  <2>3. updateWorkflow(o) /\ pc' # "manage" /\ UNCHANGED OtherThanWorkflow
    BY <1>16 DEF SyncStart, Return, ResetWorker
  <2> HIDE DEF o
  <2> QED
    BY <1>14, <2>2, <2>3
<1>17. ASSUME NEW o \in Workflow, UsesCopy(o), NEW c \in {"Complete", "Failed"}
       PROVE  WithCondition(o, c) \in Workflow /\ UsesCopy(WithCondition(o, c))
  <2>1. WithCondition(o, c).valid = o.valid /\ WithCondition(o, c).deleting = o.deleting
    BY DEF WithCondition, Workflow
  <2> QED
    BY <1>17, <2>1, WithConditionType DEF UsesCopy
<1>18. CASE SyncDeadline
  <2>1. wfCache \in Workflow /\ UsesCopy(wfCache)
    BY <1>1, <1>18 DEF SyncDeadline, SyncProceeds, UsesCopy
  <2>2. /\ updateWorkflow(WithCondition(wfCache, "Failed")) /\ pc' # "manage"
        /\ UNCHANGED OtherThanWorkflow
    BY <1>18 DEF SyncDeadline
  <2> QED
    BY <1>14, <1>17, <2>1, <2>2
<1>19. CASE FinishManage
  <2>1. local \in Workflow /\ UsesCopy(local)
    BY <1>1, <1>19 DEF FinishManage, UsesCopy
  <2>2. /\ \/ updateWorkflow(WithCondition(local, "Complete"))
           \/ updateWorkflow(local)
           \/ UNCHANGED wfStore
        /\ pc' # "manage" /\ UNCHANGED OtherThanWorkflow
    BY <1>19 DEF FinishManage, Return, ResetWorker
  <2>3. CASE UNCHANGED wfStore
    BY <1>9, <2>2, <2>3 DEF Unborn, CopyTaken
  <2> QED
    BY <1>14, <1>17, <2>1, <2>2, <2>3
<1>20. ASSUME AtStep
       PROVE  /\ UsesCopy(local)
              /\ WithStepLabels(local, CurrentStep).valid = local.valid
              /\ WithStepLabels(local, CurrentStep).deleting = local.deleting
  BY <1>1, <1>20 DEF AtStep, UsesCopy, WithStepLabels, Workflow
<1>21. CASE StepComplete \/ StepExternal \/ StepBlocked \/ StepCreateJob
            \/ StepCreateFails \/ StepTooManyJobs
  <2>1. /\ UNCHANGED <<born, wfCache, wfNotes, wfStore>> /\ AtStep
        /\ local' = local \/ local' = WithStepLabels(local, CurrentStep)
    BY <1>21 DEF StepComplete, StepExternal, StepBlocked, StepCreateJob, StepCreateFails,
                 StepTooManyJobs, AtReadyStep, AtPendingStep, clusterVars, caches, history
  <2>2. UsesCopy(local')
    BY <1>20, <2>1 DEF UsesCopy
  <2> QED
    BY <2>1, <2>2 DEF Unborn, NotesHandled, CopyTaken
<1>22. CASE StepObserveJob
  <2>1. PICK j \in jobCache :
           /\ AtReadyStep({j})
           /\ local' = [WithStepLabels(local, CurrentStep) EXCEPT !.status[CurrentStep] =
                           IF IsJobFinished(j) THEN "complete" ELSE "running"]
           /\ UNCHANGED clusterVars
    BY <1>22 DEF StepObserveJob
  <2>2. AtStep /\ UNCHANGED <<born, wfCache, wfNotes, wfStore>>
    BY <2>1 DEF AtReadyStep, AtPendingStep, clusterVars, caches, history
  <2>3. local'.valid = local.valid /\ local'.deleting = local.deleting
    BY <1>1, <2>1, <2>2 DEF AtStep, WithStepLabels, Workflow
  <2>4. UsesCopy(local')
    BY <1>20, <2>2, <2>3 DEF UsesCopy
  <2> QED
    BY <2>2, <2>4 DEF Unborn, NotesHandled, CopyTaken
<1> QED
  BY <1>4, <1>5, <1>6, <1>8, <1>10, <1>11, <1>12, <1>14, <1>15, <1>16, <1>18, <1>19,
     <1>21, <1>22
  DEF Next, Surroundings, Worker, sync, manageWorkflow

(* A step other than a creation or a delivery keeps the first workflow's     *)
(* copies as they were created.                                              *)
LEMMA UneditedStep ==
    ASSUME TypeOK, CopiesUnedited, Unborn,
           UNCHANGED wfStore \/ WorkflowUpdated
    PROVE  CopiesUnedited'
<1>1. ASSUME NEW o, UsesCopy(o) PROVE Unedited(o)
  BY <1>1 DEF UsesCopy, CopiesUnedited, Unedited
<1>2. pc' = "manage" => Unedited(local')
  BY <1>1 DEF Unborn, CopyTaken
<1>3. UNCHANGED <<born, wfCache>> /\ wfWatch \in Seq(WorkflowEvent)
  BY DEF Unborn, TypeOK, ClusterTypeOK
<1>4. \A k \in 1..Len(wfNotes') : wfNotes'[k].type = "add" => AsCreated(wfNotes'[k].obj)
  <2>1. CASE wfNotes # <<>> /\ wfNotes' = Tail(wfNotes)
    <3>1. \A k \in 1..Len(wfNotes') :
             k + 1 \in 1..Len(wfNotes) /\ wfNotes'[k] = wfNotes[k + 1]
      BY <2>1 DEF TypeOK, ClusterTypeOK
    <3> QED
      BY <3>1 DEF CopiesUnedited
  <2>2. CASE Len(wfNotes') = 1 /\ wfNotes'[1].type = "update"
    BY <2>2
  <2>3. CASE UNCHANGED wfNotes
    BY <2>3 DEF CopiesUnedited
  <2> QED
    BY <2>1, <2>2, <2>3 DEF Unborn, NotesHandled
<1>5. /\ Unedited(wf')
      /\ \A k \in 1..Len(wfWatch') : wfWatch'[k].type = "set" /\ Unedited(wfWatch'[k].obj)
      /\ wfCache = Nil => wfWatch' # <<>> /\ AsCreated(wfWatch'[1].obj)
  <2>1. CASE UNCHANGED wfStore
    BY <2>1 DEF CopiesUnedited, wfStore
  <2>2. CASE WorkflowUpdated
    <3>1. PICK o \in Workflow : Unedited(o) /\ WriteWorkflow(o)
      BY <1>1, <2>2 DEF WorkflowUpdated
    <3> DEFINE p == NextVersion(o)
    <3>2. Unedited(p)
      BY <3>1 DEF NextVersion, Workflow, Unedited
    <3>3. /\ wf' = p /\ Len(wfWatch') = Len(wfWatch) + 1 /\ Len(wfWatch) \in Nat
          /\ \A k \in 1..Len(wfWatch) : wfWatch'[k] = wfWatch[k]
          /\ wfWatch'[Len(wfWatch) + 1] = [type |-> "set", obj |-> p]
      BY <1>3, <3>1 DEF WriteWorkflow
    <3>4. wfCache = Nil => Len(wfWatch) > 0
      BY <1>3 DEF CopiesUnedited
    <3>5. wfCache = Nil => wfWatch' # <<>> /\ wfWatch'[1] = wfWatch[1]
      BY <1>3, <3>3, <3>4
    <3> HIDE DEF p
    <3>6. \A k \in 1..Len(wfWatch') :
             wfWatch'[k].type = "set" /\ Unedited(wfWatch'[k].obj)
      <4>1. ASSUME NEW k \in 1..Len(wfWatch'), k = Len(wfWatch) + 1
            PROVE  wfWatch'[k].type = "set" /\ Unedited(wfWatch'[k].obj)
        BY <3>2, <3>3, <4>1
      <4>2. ASSUME NEW k \in 1..Len(wfWatch)
            PROVE  wfWatch'[k].type = "set" /\ Unedited(wfWatch'[k].obj)
        BY <3>3 DEF CopiesUnedited
      <4> QED
        BY <3>3, <4>1, <4>2
    <3> QED
      BY <3>2, <3>3, <3>5, <3>6 DEF CopiesUnedited
  <2> QED
    BY <2>1, <2>2
<1>6. wfCache # Nil => Unedited(wfCache)
  BY DEF CopiesUnedited
<1> QED
  BY <1>2, <1>3, <1>4, <1>5, <1>6 DEF CopiesUnedited, Unedited, AsCreated

LEMMA DeliveryUnedited ==
    ASSUME TypeOK, CopiesUnedited, CacheWorkflow, CopyTaken
    PROVE  CopiesUnedited'
<1> DEFINE e == Head(wfWatch)
<1>1. /\ wfWatch \in Seq(WorkflowEvent) /\ wfWatch # <<>> /\ wfWatch' = Tail(wfWatch)
      /\ wfNotes \in Seq(WorkflowNote)
      /\ e = wfWatch[1] /\ e.type = "set" /\ e.obj \in Workflow /\ Unedited(e.obj)
  <2>1. /\ wfWatch \in Seq(WorkflowEvent) /\ wfWatch # <<>> /\ wfWatch' = Tail(wfWatch)
        /\ wfNotes \in Seq(WorkflowNote)
    BY DEF CacheWorkflow, TypeOK, ClusterTypeOK
  <2>2. e = wfWatch[1] /\ e \in WorkflowEvent /\ 1 \in 1..Len(wfWatch)
    BY <2>1
  <2> QED
    BY <2>1, <2>2 DEF CopiesUnedited, WorkflowEvent
<1>2. /\ wf' = wf /\ born' = born /\ wfCache' = e.obj /\ wfCache' # Nil
      /\ wfNotes' = Append(wfNotes, [type |-> IF wfCache = Nil THEN "add" ELSE "update",
                                     obj |-> e.obj])
  BY <1>1, NoWorkflowAssumption DEF CacheWorkflow, history
<1>3. \A k \in 1..Len(wfWatch') : k + 1 \in 1..Len(wfWatch) /\ wfWatch'[k] = wfWatch[k + 1]
  BY <1>1
<1>4. wfCache = Nil => AsCreated(e.obj)
  BY <1>1 DEF CopiesUnedited
<1> HIDE DEF e
<1>5. /\ Len(wfNotes') = Len(wfNotes) + 1 /\ Len(wfNotes) \in Nat
      /\ \A k \in 1..Len(wfNotes) : wfNotes'[k] = wfNotes[k]
      /\ wfNotes'[Len(wfNotes) + 1]
            = [type |-> IF wfCache = Nil THEN "add" ELSE "update", obj |-> e.obj]
  BY <1>1, <1>2
<1>6. \A k \in 1..Len(wfNotes') : wfNotes'[k].type = "add" => AsCreated(wfNotes'[k].obj)
  <2>1. ASSUME NEW k \in 1..Len(wfNotes'), k = Len(wfNotes) + 1
        PROVE  wfNotes'[k].type = "add" => AsCreated(wfNotes'[k].obj)
    BY <1>4, <1>5, <2>1
  <2>2. ASSUME NEW k \in 1..Len(wfNotes)
        PROVE  wfNotes'[k].type = "add" => AsCreated(wfNotes'[k].obj)
    BY <1>5 DEF CopiesUnedited
  <2> QED
    BY <1>5, <2>1, <2>2
<1>7. pc' = "manage" => Unedited(local')
  BY DEF CopyTaken, UsesCopy, CopiesUnedited, Unedited
<1>8. \A k \in 1..Len(wfWatch') : wfWatch'[k].type = "set" /\ Unedited(wfWatch'[k].obj)
  BY <1>3 DEF CopiesUnedited
<1> QED
  BY <1>1, <1>2, <1>6, <1>7, <1>8 DEF CopiesUnedited, Unedited, AsCreated

(* The first workflow is created when nothing of the name is around. *)
LEMMA CreationUnedited ==
    ASSUME TypeOK, NumberedByBirth, NEW s \in Submissions, UserCreate(s), UNCHANGED pc
    PROVE  NumberedByBirth' /\ FirstUnedited'
<1> DEFINE o == NewWorkflow(s)
           p == NextVersion(o)
<1>1. /\ born \in Seq(Submission) /\ s \in Submission
      /\ born' = Append(born, s) /\ UNCHANGED <<wfCache, wfNotes, pc>>
      /\ wf' = p /\ wfWatch' = Append(wfWatch, [type |-> "set", obj |-> p])
  BY ClusterAssumption DEF UserCreate, WriteWorkflow, TypeOK, ClusterTypeOK, caches
<1>2. /\ p.uid = Len(born) + 1 /\ p.valid = s.valid /\ ~p.deleting
      /\ p.start = IF s.started THEN now ELSE Nil
      /\ p.status = NoStatus /\ p.conds = <<>>
  BY DEF NextVersion, NewWorkflow
<1> HIDE DEF o, p
<1>3. Len(born') = Len(born) + 1 /\ Len(born) \in Nat /\ born' # <<>>
  BY <1>1
<1>4. NumberedByBirth'
  BY <1>1, <1>2, <1>3 DEF NumberedByBirth
<1>5. ASSUME Len(born') = 1 PROVE CopiesUnedited'
  <2>1. born = <<>>
    BY <1>1, <1>3, <1>5
  <2>2. born'[1] = s /\ wfCache = Nil /\ wfNotes = <<>> /\ wfWatch = <<>> /\ pc # "manage"
    BY <1>1, <2>1 DEF NumberedByBirth
  <2>3. Len(wfWatch') = 1 /\ wfWatch'[1] = [type |-> "set", obj |-> p] /\ wfWatch' # <<>>
    BY <1>1, <2>2
  <2>4. /\ p.valid = born'[1].valid /\ ~p.deleting
        /\ ~born'[1].started => StatusEmpty(p)
    BY <1>2, <2>2 DEF StatusEmpty
  <2> QED
    BY <1>1, <2>2, <2>3, <2>4 DEF CopiesUnedited, Unedited, AsCreated, StatusEmpty
<1> QED
  BY <1>4, <1>5 DEF FirstUnedited

LEMMA NextFirsts ==
    ASSUME ~Restart, TypeOK, NumberedByBirth, FirstUnedited, [Next]_vars, edits' = 0
    PROVE  NumberedByBirth' /\ FirstUnedited'
<1>1. CASE (\E s \in Submissions : UserCreate(s)) /\ UNCHANGED pc
  BY <1>1, CreationUnedited
<1>2. CASE CacheWorkflow /\ CopyTaken
  <2>1. UNCHANGED <<wf, born>> /\ wfWatch # <<>>
    BY <1>2 DEF CacheWorkflow, history
  <2> QED
    BY <1>2, <2>1, DeliveryUnedited DEF FirstUnedited, NumberedByBirth
<1>3. CASE Unborn /\ UNCHANGED wfStore
  <2>1. UNCHANGED <<wf, wfWatch, wfCache, born>>
    BY <1>3 DEF Unborn, wfStore
  <2>2. born = <<>> => wfNotes' = <<>> /\ pc' # "manage"
    BY <1>3 DEF Unborn, NotesHandled, CopyTaken, UsesCopy, NumberedByBirth
  <2> QED
    BY <1>3, <2>1, <2>2, UneditedStep DEF FirstUnedited, NumberedByBirth
<1>4. CASE Unborn /\ WorkflowRemoved
  <2>1. wf' = Nil /\ wf # Nil /\ born' = born
    BY <1>4 DEF Unborn, WorkflowRemoved, RemoveWorkflow
  <2> QED
    BY <2>1 DEF FirstUnedited, NumberedByBirth
<1>5. CASE Unborn /\ WorkflowUpdated
  <2>1. PICK o \in Workflow : o.uid = wf.uid /\ WriteWorkflow(o)
    BY <1>5 DEF WorkflowUpdated
  <2>2. wf'.uid = o.uid
    BY <2>1 DEF WriteWorkflow, NextVersion, Workflow
  <2>3. wf # Nil /\ born' = born
    BY <1>5 DEF Unborn, WorkflowUpdated
  <2> QED
    BY <1>5, <2>1, <2>2, <2>3, UneditedStep DEF FirstUnedited, NumberedByBirth
<1> QED
  BY <1>1, <1>2, <1>3, <1>4, <1>5, WorkflowSteps

LEMMA InitFirsts == Init => FirstsKept
BY DEF Init, ClusterInit, FirstsKept, NumberedByBirth, FirstUnedited

LEMMA FirstsStay ==
    ASSUME ~Restart, TypeOK, FirstsKept, [Next]_vars
    PROVE  FirstsKept'
BY EditsGrow, NextFirsts DEF FirstsKept

(* What OnlyBadWorkflowsRemoved asks of a step. *)
BadRemoved ==
    (wf # Nil /\ wf' = Nil /\ edits' = 0 /\ wf.uid = 1)
        => ~wf.valid \/ born[wf.uid].started

(* What is removed, then, is not a copy the cache got later. *)
LEMMA RemovedIsBad ==
    ASSUME ~Restart, TypeOK, FirstsKept, [Next]_vars
    PROVE  BadRemoved
<1> SUFFICES ASSUME wf # Nil, wf' = Nil, edits' = 0, wf.uid = 1
             PROVE  ~wf.valid \/ born[1].started
  BY DEF BadRemoved
<1>1. CopiesUnedited
  BY EditsGrow DEF FirstsKept, NumberedByBirth, FirstUnedited
<1>2. wf' # wf /\ wf' \notin Workflow
  BY NoWorkflowAssumption
<1>3. ~ \E o \in Workflow : WriteWorkflow(o)
  <2>1. ASSUME NEW o \in Workflow, WriteWorkflow(o) PROVE FALSE
    <3>1. NextVersion(o) \in Workflow
      BY DEF NextVersion, Workflow
    <3> QED
      BY <1>2, <2>1, <3>1 DEF WriteWorkflow
  <2> QED
    BY <2>1
<1>4. WorkflowRemoved /\ Unborn
  <2>1. ~ \E s \in Submissions : UserCreate(s)
    BY DEF UserCreate
  <2>2. ~CacheWorkflow /\ ~UNCHANGED wfStore
    BY <1>2 DEF CacheWorkflow, wfStore
  <2>3. ~WorkflowUpdated
    BY <1>3 DEF WorkflowUpdated
  <2> QED
    BY <2>1, <2>2, <2>3, WorkflowSteps
<1>5. ~Finalize
  BY <1>1 DEF CopiesUnedited, Unedited, Finalize
<1>6. CASE SyncInvalid
  BY <1>1, <1>6 DEF SyncInvalid, CopiesUnedited, Unedited
<1>7. CASE onAddWorkflow
  <2>1. /\ wfNotes \in Seq(WorkflowNote) /\ wfNotes # <<>> /\ Head(wfNotes).type = "add"
        /\ ~StatusEmpty(Head(wfNotes).obj)
    BY <1>2, <1>7 DEF onAddWorkflow, wfStore, TypeOK, ClusterTypeOK
  <2>2. 1 \in 1..Len(wfNotes) /\ Head(wfNotes) = wfNotes[1]
    BY <2>1
  <2>3. ~AsCreated(Head(wfNotes).obj) \/ born[1].started
    BY <2>1 DEF AsCreated
  <2> QED
    BY <1>1, <2>1, <2>2, <2>3 DEF CopiesUnedited
<1> QED
  BY <1>4, <1>5, <1>6, <1>7 DEF WorkflowRemoved

--------------------------------------------------------------------------------
(* The theorems.                                                             *)

(* Every copy of the workflow and of its jobs, in the store, on its way to   *)
(* the controller, cached or in sync's hands, is right about what has run.   *)
THEOREM CopiesAlwaysSound == Spec => []CopiesSound
<1>1. Init => CopiesSound
  BY DEF Init, ClusterInit, CopiesSound, WorkflowsSound, JobsSound, WorkerSound
<1>2. TypeOK /\ CopiesSound /\ [Next]_vars => CopiesSound'
  BY NextWorkflowsSound, NextJobsSound, NextWorkerSound DEF CopiesSound
<1> QED
  BY <1>1, <1>2, TypeCorrect, PTL DEF Spec

(* manageWorkflowJobStep honours dependencies whatever the caches lag, the   *)
(* calls that fail, the edits of users and the restarts of the controller.   *)
THEOREM DependenciesHonoured == Spec => []DependencyOrder
<1>1. CopiesSound => DependencyOrder
  BY DEF CopiesSound, JobsSound, SoundJob, DependencyOrder
<1> QED
  BY <1>1, CopiesAlwaysSound, PTL

(* The published status and the Complete condition never run ahead of the    *)
(* jobs.                                                                     *)
THEOREM StatusAlwaysSound == Spec => []StatusSound
<1>1. CopiesSound => StatusSound
  BY DEF CopiesSound, WorkflowsSound, SoundWorkflow, StatusSound
<1> QED
  BY <1>1, CopiesAlwaysSound, PTL

(* The published status is closed under dependencies.                        *)
THEOREM StatusAlwaysClosed == Spec => []StatusClosed
<1>1. CopiesSound => StatusClosed
  BY DEF CopiesSound, WorkflowsSound, SoundWorkflow, StatusClosed
<1> QED
  BY <1>1, CopiesAlwaysSound, PTL

(* The labels known of every copy of the workflow and of its jobs.           *)
LEMMA LabelsAlwaysKept ==
    ASSUME SameTemplates
    PROVE  Spec => []LabelsKept
<1>1. Init => LabelsKept
  BY DEF Init, ClusterInit, LabelsKept, SelectorsKept, JobsLabelled
<1>2. TypeOK /\ LabelsKept /\ [Next]_vars => LabelsKept'
  BY NextSelectors, NextJobsLabelled DEF LabelsKept
<1> QED
  BY <1>1, <1>2, TypeCorrect, PTL DEF Spec

(* A job the controller sees is not created again, although the labels it is *)
(* looked up by are written into the workflow and published: with templates  *)
(* that carry the same labels, or none (retrieveJobsStep).  With others the  *)
(* labels of one step's template hide the jobs of the next.                  *)
THEOREM JobOfCacheSeen ==
    ASSUME SameTemplates
    PROVE  Spec => CachedJobIsSeen
<1> DEFINE Seen == jobCount' > jobCount
                     => \A j \in jobCache : j.uid = local.uid => Step(j) # CurrentStep
<1>1. ASSUME TypeOK, LabelsKept, [Next]_vars PROVE Seen
  <2> SUFFICES ASSUME jobCount' > jobCount, NEW j \in jobCache, Step(j) = CurrentStep
               PROVE  FALSE
    OBVIOUS
  <2>1. AtStep /\ retrieveJobsStep(local, CurrentStep) = {}
    BY <1>1, OnlyStepCreatesJobs DEF StepCreateJob, AtReadyStep, AtPendingStep
  <2> QED
    BY <1>1, <2>1, LabelledJobFound
<1>2. TypeOK /\ LabelsKept /\ [Next]_vars => [Seen]_vars
  BY <1>1
<1> QED
  BY <1>2, LabelsAlwaysKept, TypeCorrect, PTL DEF Spec, CachedJobIsSeen

(* Until somebody edits objects, and with no deadline after which the        *)
(* controller deletes jobs itself, every job that was seen is in the store,  *)
(* and every step reported complete is one of a job that the worker will     *)
(* see: also after a restart, whose pass waits for the new lists.            *)
LEMMA JobsAlwaysKept ==
    ASSUME Deadline = Nil
    PROVE  Spec => []JobsKept
<1>1. Init => JobsKept
  BY DEF Init, ClusterInit, JobsKept, ListedFirst, JobsStay, ReportsShown
<1>2. ASSUME TypeOK, JobsKept, [Next]_vars PROVE JobsKept'
  <2> SUFFICES ASSUME edits' = 0 PROVE (ListedFirst /\ JobsStay /\ ReportsShown)'
    BY DEF JobsKept
  <2>1. edits = 0
    BY <1>2, EditsGrow
  <2>2. ListedFirst /\ JobsStay /\ ReportsShown
    BY <1>2, <2>1 DEF JobsKept
  <2>3. JobsStay' /\ ListedFirst' /\ StepsShown \subseteq StepsShown'
    BY <1>2, <2>1, <2>2, NextJobsStay
  <2> QED
    BY <1>2, <2>2, <2>3, NextReports
<1> QED
  BY <1>1, <1>2, TypeCorrect, PTL DEF Spec

(* A workflow with the Complete condition gets no new job: whatever copy     *)
(* manageWorkflow works on, the jobs of the reported steps are in the cache  *)
(* by then, and retrieveJobsStep finds them, with templates that carry the   *)
(* same labels, or none.  Without a deadline: deleteWorkflowJobs removes     *)
(* jobs on the controller's own account.                                     *)
THEOREM CompletedWorkflowGetsNoJob ==
    ASSUME SameTemplates, Deadline = Nil
    PROVE  Spec => NoJobAfterCompletion
<1> DEFINE Done == (jobCount' > jobCount /\ edits = 0 /\ wf # Nil /\ wf.uid = local.uid)
                     => \A k \in DOMAIN wf.conds : wf.conds[k] # "Complete"
<1>1. ASSUME TypeOK, StatusSound, LabelsKept, JobsKept, [Next]_vars PROVE Done
  <2> SUFFICES ASSUME jobCount' > jobCount, edits = 0, wf # Nil,
                      NEW k \in DOMAIN wf.conds, wf.conds[k] = "Complete"
               PROVE  FALSE
    OBVIOUS
  <2>1. AtStep /\ retrieveJobsStep(local, CurrentStep) = {}
    BY <1>1, OnlyStepCreatesJobs DEF StepCreateJob, AtReadyStep, AtPendingStep
  <2>2. pc # "idle" /\ CurrentStep \in Steps
    BY <1>1, <2>1, ControllerAssumption DEF AtStep, TypeOK, CurrentStep
  <2>3. CurrentStep \in CompleteIn(wf)
    BY <1>1, <2>2 DEF StatusSound, CompleteIn
  <2>4. PICK j \in jobCache : Step(j) = CurrentStep
    BY <1>1, <2>2, <2>3, ReportedStepHasJob
  <2> QED
    BY <1>1, <2>1, <2>4, LabelledJobFound
<1>2. TypeOK /\ StatusSound /\ LabelsKept /\ JobsKept /\ [Next]_vars => [Done]_vars
  BY <1>1
<1> QED
  BY <1>2, LabelsAlwaysKept, JobsAlwaysKept, StatusAlwaysSound, TypeCorrect, PTL
  DEF Spec, NoJobAfterCompletion

(* A workflow that nobody edits is removed by the controller only if it is   *)
(* invalid or was created with a status: the first version the cache gets    *)
(* of it is the created one.  Without restarts: the first version a          *)
(* restarted controller gets has a status, and onAddWorkflow removes it.     *)
THEOREM UnrestartedControllerRemovesBadOnly ==
    ASSUME MaxRestarts = 0
    PROVE  Spec => OnlyBadWorkflowsRemoved
<1>1. TypeOK => ~Restart
  BY DEF TypeOK, Restart
<1>2. TypeOK /\ FirstsKept /\ [Next]_vars => FirstsKept'
  BY <1>1, FirstsStay
<1>3. TypeOK /\ FirstsKept /\ [Next]_vars => [BadRemoved]_vars
  BY <1>1, RemovedIsBad
<1> QED
  BY <1>2, <1>3, InitFirsts, TypeCorrect, PTL
  DEF Spec, OnlyBadWorkflowsRemoved, BadRemoved

================================================================================

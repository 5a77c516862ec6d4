-------------------------- MODULE WorkflowWakeupProofs --------------------------
(***************************************************************************)
(* The Workflow controller does not fall silent on a workflow that it has  *)
(* still to advance (NoLostWakeup), for every order of steps that run one  *)
(* after another.                                                          *)
(*                                                                         *)
(* What is known of the workflow and of the jobs comes first (NewsSeen,    *)
(* CopiesPlain, JobsSeen), then what the controller waits for, then what   *)
(* each step of manageWorkflow does to a pass over the newest copy; the    *)
(* last section puts them together.                                        *)
(***************************************************************************)
EXTENDS WorkflowRefinementProofs, WorkflowWakeup, SequenceTheorems

--------------------------------------------------------------------------------
(* The news of the workflow.                                                 *)

(* The notifications of the workflow: only the informer adds them, of what   *)
(* it puts in the cache; the handlers take them from the front.              *)
LEMMA NoteSteps ==
    ASSUME NewsSeen, [Next]_vars
    PROVE  /\ \/ UNCHANGED <<wfNotes, wfCache>>
              \/ wfNotes # <<>> /\ wfNotes' = Tail(wfNotes) /\ UNCHANGED wfCache
              \/ /\ wfNotes' = <<[type |-> "update", obj |-> wfCache]>>
                 /\ UNCHANGED wfCache
              \/ CacheWorkflow \/ Relist
           /\ pc' # "manage" => complete'
<1>1. CASE Surroundings
  <2>1. pc' # "manage" => complete'
    BY <1>1 DEF Surroundings, Outside, worker, NewsSeen
  <2> QED
    BY <1>1, <2>1
    DEF Surroundings, Outside, Environment, UserCreate, UserEdit, UserDelete, Finalize,
        JobFinishes, JobGone, Tick, CacheJob, Resync, caches
<1>2. CASE Handlers \/ RetryFires \/ UNCHANGED vars
  BY <1>2
  DEF Handlers, onAddWorkflow, onUpdateWorkflow, onDeleteWorkflow, onJobEvent, RetryFires,
      vars, worker, clusterVars, caches, NewsSeen
<1>3. CASE GetItem \/ sync
  BY <1>3
  DEF GetItem, sync, SyncIgnored, SyncDefault, SyncInvalid, SyncStart, SyncDeadline,
      DeleteJob, CleanupReturns, SyncManage, SyncProceeds, Return, ResetWorker,
      OtherThanWorkflow, clusterVars, caches, NewsSeen
<1>4. CASE manageWorkflow
  <2>1. CASE FinishManage
    BY <2>1 DEF FinishManage, Return, ResetWorker, OtherThanWorkflow, caches
  <2>2. CASE ~FinishManage
    <3>1. pc = "manage" /\ pc' = pc
      BY <1>4, <2>2
      DEF manageWorkflow, StepComplete, StepExternal, StepBlocked, StepCreateJob,
          StepCreateFails, StepObserveJob, StepTooManyJobs, AtReadyStep, AtPendingStep, AtStep
    <3> QED
      BY <1>4, <2>2, <3>1
      DEF manageWorkflow, StepComplete, StepExternal, StepBlocked, StepCreateJob,
          StepCreateFails, StepObserveJob, StepTooManyJobs, clusterVars, caches
  <2> QED
    BY <2>1, <2>2
<1>5. CASE Restart
  BY <1>5 DEF Restart, ResetWorker
<1> QED
  BY <1>1, <1>2, <1>3, <1>4, <1>5 DEF Next, Worker

(* A sequence whose tail is empty has one element.                           *)
LEMMA LastOfOne ==
    ASSUME NEW S, NEW q \in Seq(S), q # <<>>, Tail(q) = <<>>
    PROVE  Len(q) = 1 /\ Head(q) = q[1]
<1>1. Len(q) \in Nat /\ Len(Tail(q)) = Len(q) - 1
  BY HeadTailProperties
<1>2. Len(Tail(q)) = 0
  BY EmptySeq
<1>3. Len(q) = 1
  BY <1>1, <1>2
<1> QED
  BY <1>3

(* Every write to the store is the last event of the watch, and every change *)
(* of the cache the last notification.                                       *)
LEMMA NextNewsSeen ==
    ASSUME TypeOK, NewsSeen, StoreStep, [Next]_vars
    PROVE  NewsSeen'
<1>1. wfWatch \in Seq(WorkflowEvent) /\ wfNotes \in Seq(WorkflowNote)
  BY DEF TypeOK, ClusterTypeOK
<1>2. wf' # Nil => IF wfWatch' = <<>> THEN wfCache' = wf'
                   ELSE wfWatch'[Len(wfWatch')] = [type |-> "set", obj |-> wf']
  <2>1. ASSUME NEW o, WriteWorkflow(o)
        PROVE  wfWatch' # <<>> /\ wfWatch'[Len(wfWatch')] = [type |-> "set", obj |-> wf']
    BY <1>1, <2>1 DEF WriteWorkflow
  <2>2. CASE Created \/ Published
    BY <2>1, <2>2 DEF Created, Published
  <2>3. CASE Removed
    BY <2>3 DEF Removed, RemoveWorkflow
  <2>4. CASE Untouched
    BY <2>4 DEF Untouched, NewsSeen
  <2>5. CASE CacheWorkflow
    <3>1. /\ wfWatch # <<>> /\ wf' = wf /\ wfWatch' = Tail(wfWatch)
          /\ Head(wfWatch).type = "set" => wfCache' = Head(wfWatch).obj
      BY <2>5 DEF CacheWorkflow
    <3>2. CASE wfWatch' = <<>>
      <4>1. Len(wfWatch) = 1 /\ Head(wfWatch) = wfWatch[1]
        BY <1>1, <3>1, <3>2, LastOfOne
      <4> QED
        BY <3>1, <3>2, <4>1 DEF NewsSeen
    <3>3. CASE wfWatch' # <<>>
      <4>1. wfWatch'[Len(wfWatch')] = wfWatch[Len(wfWatch)]
        BY <1>1, <3>1, <3>3
      <4> QED
        BY <3>1, <3>3, <4>1 DEF NewsSeen
    <3> QED
      BY <3>2, <3>3
  <2>6. CASE Relist
    BY <2>6 DEF Relist
  <2> QED
    BY <2>2, <2>3, <2>4, <2>5, <2>6 DEF StoreStep, Delivered
<1>3. (wfNotes' # <<>> /\ wfCache' # Nil)
         => wfNotes'[Len(wfNotes')] \in [type : {"add", "update"}, obj : {wfCache'}]
  <2>1. CASE UNCHANGED <<wfNotes, wfCache>>
    BY <2>1 DEF NewsSeen
  <2>2. CASE wfNotes # <<>> /\ wfNotes' = Tail(wfNotes) /\ UNCHANGED wfCache
    <3>1. wfNotes' # <<>> => wfNotes'[Len(wfNotes')] = wfNotes[Len(wfNotes)]
      BY <1>1, <2>2
    <3> QED
      BY <2>2, <3>1 DEF NewsSeen
  <2>3. CASE wfNotes' = <<[type |-> "update", obj |-> wfCache]>> /\ UNCHANGED wfCache
    <3>1. wfNotes'[Len(wfNotes')] = [type |-> "update", obj |-> wfCache']
      BY <2>3
    <3> QED
      BY <3>1
  <2>4. CASE CacheWorkflow
    <3> DEFINE note == [type |-> IF Head(wfWatch).type = "del" THEN "delete"
                                 ELSE IF wfCache = Nil THEN "add" ELSE "update",
                        obj |-> Head(wfWatch).obj]
    <3>1. /\ wfNotes' = Append(wfNotes, note)
          /\ wfCache' = IF Head(wfWatch).type = "set" THEN Head(wfWatch).obj ELSE Nil
      BY <2>4 DEF CacheWorkflow
    <3>2. wfCache' # Nil => note \in [type : {"add", "update"}, obj : {wfCache'}]
      BY <3>1
    <3> HIDE DEF note
    <3>3. wfNotes'[Len(wfNotes')] = note
      BY <1>1, <3>1
    <3> QED
      BY <3>2, <3>3
  <2>5. CASE Relist
    BY <2>5 DEF Relist
  <2> QED
    BY <2>1, <2>2, <2>3, <2>4, <2>5, NoteSteps
<1> QED
  BY <1>2, <1>3, NoteSteps DEF NewsSeen

--------------------------------------------------------------------------------
(* The copies of the workflow.                                               *)

(* A sound copy has one ready step at most.                                  *)
LEMMA OnlyOneReady ==
    ASSUME OneReady, NEW R, NEW o, SoundWorkflow(R, o), NEW s \in Steps, NEW t \in Steps,
           o.status[s] # "complete", o.status[t] # "complete",
           DependenciesSatisfied(o, s), DependenciesSatisfied(o, t)
    PROVE  s = t
<1>1. \A r \in Steps : Deps[r] \subseteq Steps
  BY ControllerAssumption
<1>2. /\ CompleteIn(o) \in SUBSET Steps
      /\ \A r \in CompleteIn(o) : Deps[r] \subseteq CompleteIn(o)
  BY <1>1 DEF CompleteIn, SoundWorkflow
<1>3. /\ s \in Steps \ CompleteIn(o) /\ t \in Steps \ CompleteIn(o)
      /\ Deps[s] \cup Deps[t] \subseteq CompleteIn(o)
  BY <1>1 DEF CompleteIn, DependenciesSatisfied
<1> QED
  BY <1>2, <1>3 DEF OneReady

(* At a ready step the copy is about to carry that step's labels; no other   *)
(* step is running.                                                          *)
LEMMA ReadyStep ==
    ASSUME SameTemplates, OneReady, TypeOK, CopiesSound, LabelsKept,
           NEW found, AtReadyStep(found)
    PROVE  /\ pc = "manage" /\ i \in 1..Len(StepSeq) /\ i' = i + 1 /\ complete' = FALSE
           /\ local \in Workflow /\ CurrentStep \in Steps
           /\ SoundWorkflow(StepsRun, local)
           /\ local.status[CurrentStep] # "complete"
           /\ DependenciesSatisfied(local, CurrentStep)
           /\ getJobLabelsSetFromWorkflow(local, CurrentStep) = StepLabels(CurrentStep)
           /\ WithStepLabels(local, CurrentStep)
                 = [local EXCEPT !.sel = StepLabels(CurrentStep)]
           /\ found = retrieveJobsStep(local, CurrentStep)
           /\ \A s \in Steps : (/\ local.status[s] # "complete"
                                /\ DependenciesSatisfied(local, s)) => s = CurrentStep
           /\ \A s \in Steps : local.status[s] = "running" => s = CurrentStep
<1>1. /\ pc = "manage" /\ i \in 1..Len(StepSeq) /\ i' = i + 1 /\ complete' = FALSE
      /\ local.status[CurrentStep] # "complete"
      /\ DependenciesSatisfied(local, CurrentStep)
      /\ found = retrieveJobsStep(local, CurrentStep)
  BY ControllerAssumption DEF AtReadyStep, AtPendingStep, AtStep, TypeOK
<1>2. /\ local \in Workflow /\ CurrentStep \in Steps
      /\ SoundWorkflow(StepsRun, local) /\ local.sel \in Selectors
  BY <1>1, ControllerAssumption
  DEF TypeOK, CurrentStep, CopiesSound, WorkerSound, LabelsKept, SelectorsKept
<1>3. getJobLabelsSetFromWorkflow(local, CurrentStep) = StepLabels(CurrentStep)
  BY <1>2, JobLabelsKnown
<1>4. \A s \in Steps : (/\ local.status[s] # "complete"
                        /\ DependenciesSatisfied(local, s)) => s = CurrentStep
  BY <1>1, <1>2, OnlyOneReady
<1>5. \A s \in Steps : local.status[s] = "running" => s = CurrentStep
  BY <1>2, <1>4 DEF SoundWorkflow, DependenciesSatisfied
<1> QED
  BY <1>1, <1>2, <1>3, <1>4, <1>5 DEF WithStepLabels

(* A copy without status reports no running step.                            *)
LEMMA StatusNeverIsPlain ==
    ASSUME NEW o, o.status = NoStatus, ~o.deleting
    PROVE  Plain(o)
BY DEF Plain, NoStatus

(* A write of a plain copy keeps the copies plain, and so do a removal and   *)
(* the informer.                                                             *)
LEMMA PlainStep ==
    ASSUME TypeOK, CopiesPlain, UNCHANGED wfCache, pc' = "manage" => Plain(local'),
           \/ UNCHANGED wfStore
           \/ wf # Nil /\ RemoveWorkflow
           \/ \E o \in Workflow : Plain(o) /\ WriteWorkflow(o)
    PROVE  CopiesPlain'
<1>1. wfWatch \in Seq(WorkflowEvent)
  BY DEF TypeOK, ClusterTypeOK
<1>2. ASSUME NEW o, NEW t, Plain(o), wfWatch' = Append(wfWatch, [type |-> t, obj |-> o])
      PROVE  \A k \in 1..Len(wfWatch') : Plain(wfWatch'[k].obj)
  BY <1>1, <1>2, AppendedEvent DEF CopiesPlain
<1>3. CASE UNCHANGED wfStore
  BY <1>3 DEF CopiesPlain, wfStore
<1>4. CASE wf # Nil /\ RemoveWorkflow
  BY <1>2, <1>4 DEF CopiesPlain, RemoveWorkflow
<1>5. ASSUME NEW o \in Workflow, Plain(o), WriteWorkflow(o) PROVE CopiesPlain'
  <2>1. Plain(NextVersion(o))
    BY <1>5 DEF NextVersion, Workflow, Plain
  <2> QED
    BY <1>2, <1>5, <2>1 DEF CopiesPlain, WriteWorkflow
<1> QED
  BY <1>3, <1>4, <1>5

LEMMA InformerKeepsPlain ==
    ASSUME TypeOK, CopiesPlain, CacheWorkflow \/ Relist, pc' = "manage" => Plain(local')
    PROVE  CopiesPlain'
<1>1. CASE CacheWorkflow
  <2>1. /\ wfWatch \in Seq(WorkflowEvent) /\ wfWatch # <<>>
        /\ wfWatch' = Tail(wfWatch) /\ wf' = wf
    BY <1>1 DEF CacheWorkflow, TypeOK, ClusterTypeOK
  <2>2. \A k \in 1..Len(wfWatch') : k + 1 \in 1..Len(wfWatch) /\ wfWatch'[k] = wfWatch[k + 1]
    BY <2>1
  <2>3. Plain(Head(wfWatch).obj)
    BY <2>1 DEF CopiesPlain
  <2>4. wfCache' # Nil => wfCache' = Head(wfWatch).obj
    BY <1>1 DEF CacheWorkflow
  <2> QED
    BY <2>1, <2>2, <2>3, <2>4 DEF CopiesPlain
<1>2. CASE Relist
  BY <1>2 DEF Relist, CopiesPlain
<1> QED
  BY <1>1, <1>2

(* The steps of the loop. *)
LEMMA LoopKeepsPlain ==
    ASSUME SameTemplates, OneReady, TypeOK, CopiesSound, LabelsKept, Plain(local),
           manageWorkflow, ~FinishManage
    PROVE  Plain(local')
<1>1. CASE StepComplete \/ StepExternal \/ StepBlocked
  BY <1>1 DEF StepComplete, StepExternal, StepBlocked
<1>2. CASE StepCreateJob \/ StepCreateFails \/ StepTooManyJobs
  <2>1. PICK found : AtReadyStep(found) /\ local' = WithStepLabels(local, CurrentStep)
    BY <1>2 DEF StepCreateJob, StepCreateFails, StepTooManyJobs
  <2>2. /\ local \in Workflow
        /\ WithStepLabels(local, CurrentStep) = [local EXCEPT !.sel = StepLabels(CurrentStep)]
        /\ \A s \in Steps : local.status[s] = "running" => s = CurrentStep
    BY <2>1, ReadyStep
  <2> QED
    BY <2>1, <2>2 DEF Plain, Workflow
<1>3. CASE StepObserveJob
  <2>1. PICK j \in jobCache :
           /\ AtReadyStep({j})
           /\ local' = [WithStepLabels(local, CurrentStep) EXCEPT !.status[CurrentStep] =
                           IF IsJobFinished(j) THEN "complete" ELSE "running"]
    BY <1>3 DEF StepObserveJob
  <2>2. /\ local \in Workflow /\ CurrentStep \in Steps
        /\ WithStepLabels(local, CurrentStep) = [local EXCEPT !.sel = StepLabels(CurrentStep)]
        /\ \A s \in Steps : local.status[s] = "running" => s = CurrentStep
    BY <2>1, ReadyStep
  <2>3. /\ local'.sel = StepLabels(CurrentStep) /\ local'.deleting = local.deleting
        /\ \A s \in Steps : s # CurrentStep => local'.status[s] = local.status[s]
    BY <2>1, <2>2 DEF Workflow
  <2> QED
    BY <2>2, <2>3 DEF Plain
<1> QED
  BY <1>1, <1>2, <1>3 DEF manageWorkflow

(* While nobody edits objects, every copy that reports a running step has    *)
(* the labels of that step.                                                  *)
LEMMA NextCopiesPlain ==
    ASSUME SameTemplates, OneReady, TypeOK, CopiesSound, LabelsKept, CopiesPlain,
           edits = 0, edits' = 0, [Next]_vars
    PROVE  CopiesPlain'
<1>1. /\ wf # Nil => wf \in Workflow
      /\ wfCache # Nil => wfCache \in Workflow /\ Plain(wfCache)
      /\ pc = "manage" => local \in Workflow /\ Plain(local)
  BY DEF TypeOK, ClusterTypeOK, CopiesPlain
<1>2. ASSUME UNCHANGED wfCache, pc' = "manage" => Plain(local'),
             \/ UNCHANGED wfStore
             \/ wf # Nil /\ RemoveWorkflow
             \/ \E o \in Workflow : Plain(o) /\ WriteWorkflow(o)
      PROVE  CopiesPlain'
  BY <1>2, PlainStep
<1>3. ASSUME NEW o \in Workflow, Plain(o), updateWorkflow(o), pc' # "manage",
             UNCHANGED wfCache
      PROVE  CopiesPlain'
  BY <1>2, <1>3 DEF updateWorkflow
<1>4. CASE Outside(Environment)
  <2>1. UNCHANGED wfCache /\ (pc' = "manage" => Plain(local'))
    BY <1>1, <1>4 DEF Outside, worker, Environment, UserCreate, UserEdit, UserDelete,
                      Finalize, JobFinishes, JobGone, Tick, caches
  <2>2. ASSUME NEW s \in Submissions, UserCreate(s) PROVE CopiesPlain'
    <3>1. s \in Submission
      BY ClusterAssumption
    <3>2. NewWorkflow(s) \in Workflow
      BY <3>1, ClusterAssumption
      DEF NewWorkflow, NoStatus, StepStatus, TypeOK, ClusterTypeOK, Workflow, Submission
    <3>3. Plain(NewWorkflow(s))
      BY StatusNeverIsPlain DEF NewWorkflow
    <3> QED
      BY <1>2, <2>1, <2>2, <3>2, <3>3 DEF UserCreate
  <2>3. ~Edit
    BY DEF Edit
  <2>4. CASE Finalize
    BY <1>2, <2>1, <2>4 DEF Finalize
  <2>5. CASE Tick \/ \E j \in jobs : JobFinishes(j) \/ JobGone(j)
    BY <1>2, <2>1, <2>5 DEF Tick, JobFinishes, JobGone
  <2> QED
    BY <1>4, <2>2, <2>3, <2>4, <2>5 DEF Outside, Environment, UserEdit, UserDelete
<1>5. CASE Outside(CacheWorkflow)
  BY <1>1, <1>5, InformerKeepsPlain DEF Outside, worker
<1>6. CASE Outside(CacheJob) \/ Outside(Resync) \/ RetryFires \/ UNCHANGED vars
  BY <1>1, <1>2, <1>6 DEF Outside, worker, CacheJob, Resync, RetryFires, vars, clusterVars,
                          wfStore, caches
<1>7. CASE Handlers
  BY <1>1, <1>2, <1>7
  DEF Handlers, onAddWorkflow, onUpdateWorkflow, onDeleteWorkflow, onJobEvent, worker,
      deleteWorkflow
<1>8. CASE GetItem \/ SyncIgnored \/ SyncInvalid \/ CleanupReturns
           \/ \E j \in todo : DeleteJob(j)
  BY <1>1, <1>2, <1>8
  DEF GetItem, SyncIgnored, SyncInvalid, CleanupReturns, DeleteJob, Return, ResetWorker,
      deleteWorkflow, OtherThanWorkflow, clusterVars, wfStore, caches
<1>9. CASE SyncManage
  BY <1>1, <1>2, <1>9 DEF SyncManage, SyncProceeds, clusterVars, wfStore, caches
<1>10. CASE SyncDefault
  <2> DEFINE o == [wfCache EXCEPT !.defaulted = TRUE]
  <2>1. o \in Workflow /\ Plain(o)
    BY <1>1, <1>10 DEF SyncDefault, Workflow, Plain
  <2>2. updateWorkflow(o) /\ pc' # "manage" /\ UNCHANGED wfCache
    BY <1>10 DEF SyncDefault, Return, ResetWorker, OtherThanWorkflow, caches
  <2> HIDE DEF o
  <2> QED
    BY <1>3, <2>1, <2>2
<1>11. CASE SyncStart
  <2> DEFINE o == [wfCache EXCEPT !.status = NoStatus, !.start = now]
  <2>1. NoStatus \in [Steps -> StepStatus] /\ now \in Nat
    BY DEF NoStatus, StepStatus, TypeOK, ClusterTypeOK
  <2>2. o \in Workflow /\ o.status = NoStatus /\ ~o.deleting
    BY <1>1, <1>11, <2>1 DEF SyncStart, SyncProceeds, Workflow, Plain
  <2>3. updateWorkflow(o) /\ pc' # "manage" /\ UNCHANGED wfCache
    BY <1>11 DEF SyncStart, Return, ResetWorker, OtherThanWorkflow, caches
  <2> HIDE DEF o
  <2> QED
    BY <1>3, <2>2, <2>3, StatusNeverIsPlain
<1>12. ASSUME NEW o \in Workflow, Plain(o), NEW c \in {"Complete", "Failed"}
       PROVE  WithCondition(o, c) \in Workflow /\ Plain(WithCondition(o, c))
  <2>1. /\ WithCondition(o, c).sel = o.sel /\ WithCondition(o, c).status = o.status
        /\ WithCondition(o, c).deleting = o.deleting
    BY DEF WithCondition, Workflow
  <2> QED
    BY <1>12, <2>1, WithConditionType DEF Plain
<1>13. CASE SyncDeadline
  BY <1>1, <1>3, <1>12, <1>13 DEF SyncDeadline, SyncProceeds, OtherThanWorkflow, caches
<1>14. CASE FinishManage
  BY <1>1, <1>2, <1>3, <1>12, <1>14
  DEF FinishManage, Return, ResetWorker, OtherThanWorkflow, caches, wfStore
<1>15. CASE manageWorkflow /\ ~FinishManage
  <2>1. pc = "manage" /\ UNCHANGED <<wfStore, wfCache>>
    BY <1>15
    DEF manageWorkflow, StepComplete, StepExternal, StepBlocked, StepCreateJob,
        StepCreateFails, StepObserveJob, StepTooManyJobs, AtReadyStep, AtPendingStep, AtStep,
        clusterVars, caches
  <2> QED
    BY <1>1, <1>2, <1>15, <2>1, LoopKeepsPlain
<1>16. CASE Restart
  BY <1>16, InformerKeepsPlain DEF Restart, ResetWorker
<1> QED
  BY <1>4, <1>5, <1>6, <1>7, <1>8, <1>9, <1>10, <1>11, <1>13, <1>14, <1>15, <1>16
  DEF Next, Surroundings, Worker, sync

--------------------------------------------------------------------------------
(* The news of the jobs.                                                     *)

(* A job that is written, delivered or listed leaves the cache and the watch *)
(* together up to date with the store.                                       *)
LEMMA WrittenJobSeen ==
    ASSUME TypeOK, JobsSeen, NEW j \in Job, WriteJob(j), UNCHANGED jobCache
    PROVE  JobsSeen'
<1> DEFINE n == Len(jobWatch)
<1>1. /\ n \in Nat /\ Len(jobWatch') = n + 1
      /\ \A k \in 1..n : jobWatch'[k] = jobWatch[k]
      /\ jobWatch'[n + 1] = [type |-> "set", obj |-> j]
      /\ jobs' = {x \in jobs : x.id # j.id} \cup {j}
  BY DEF WriteJob, TypeOK, ClusterTypeOK
<1>2. jobWatch'[n + 1].obj = j
  BY <1>1
<1> HIDE DEF n
<1>3. ASSUME NEW x \in jobCache, NoNews(x)' PROVE x \in jobs'
  <2>1. x.id # j.id /\ \A k \in 1..n : jobWatch[k].obj.id # x.id
    BY <1>1, <1>2, <1>3 DEF NoNews
  <2> QED
    BY <1>1, <2>1 DEF JobsSeen, NoNews, n
<1>4. ASSUME NEW k \in 1..n, Newest(k)' PROVE jobWatch'[k].obj \in jobs'
  <2>1. \A l \in (k + 1)..(n + 1) : jobWatch'[l].obj.id # jobWatch[k].obj.id
    BY <1>1, <1>4 DEF Newest
  <2>2. jobWatch[k].obj.id # j.id
    BY <1>1, <1>2, <2>1
  <2>3. \A l \in (k + 1)..n : jobWatch[l].obj.id # jobWatch[k].obj.id
    BY <1>1, <2>1
  <2>4. jobWatch[k].obj \in jobs
    BY <2>3 DEF JobsSeen, Newest, n
  <2> QED
    BY <1>1, <2>2, <2>4
<1>5. \A k \in 1..(n + 1) : Newest(k)' => jobWatch'[k].obj \in jobs'
  BY <1>1, <1>2, <1>4
<1> QED
  BY <1>1, <1>3, <1>5 DEF JobsSeen

LEMMA DeliveredJobSeen ==
    ASSUME TypeOK, JobsStay, JobsSeen, CacheJob
    PROVE  JobsSeen'
<1> DEFINE e == Head(jobWatch)
           n == Len(jobWatch)
<1>1. /\ jobWatch \in Seq(JobEvent) /\ jobWatch # <<>> /\ jobWatch' = Tail(jobWatch)
      /\ jobs' = jobs
  BY DEF CacheJob, TypeOK, ClusterTypeOK
<1>2. /\ n \in Nat \ {0} /\ Len(jobWatch') = n - 1 /\ e = jobWatch[1]
      /\ \A k \in 1..(n - 1) : jobWatch'[k] = jobWatch[k + 1]
  BY <1>1
<1>3. jobCache' = {x \in jobCache : x.id # e.obj.id} \cup {e.obj}
  <2>1. e.type = "set"
    BY <1>2 DEF JobsStay
  <2> QED
    BY <2>1 DEF CacheJob
<1> HIDE DEF e, n
<1>4. \A j, x \in jobCache' : j.id = x.id => j = x
  BY <1>3 DEF JobsSeen
<1>5. ASSUME NEW x \in jobCache', NoNews(x)' PROVE x \in jobs'
  <2>1. \A k \in 2..n : jobWatch[k].obj.id # x.id
    <3>1. ASSUME NEW k \in 2..n PROVE jobWatch[k].obj.id # x.id
      <4>1. k - 1 \in 1..(n - 1) /\ jobWatch'[k - 1] = jobWatch[k]
        BY <1>2
      <4> QED
        BY <1>2, <1>5, <4>1 DEF NoNews
    <3> QED
      BY <3>1
  <2>2. CASE x = e.obj
    <3>1. Newest(1)
      BY <1>2, <2>1, <2>2 DEF Newest, n
    <3> QED
      BY <1>1, <1>2, <2>2, <3>1 DEF JobsSeen, n
  <2>3. CASE x \in jobCache /\ x.id # e.obj.id
    <3>1. NoNews(x)
      BY <1>2, <2>1, <2>3 DEF NoNews, n
    <3> QED
      BY <1>1, <2>3, <3>1 DEF JobsSeen
  <2> QED
    BY <1>3, <2>2, <2>3
<1>6. ASSUME NEW k \in 1..(n - 1), Newest(k)' PROVE jobWatch'[k].obj \in jobs'
  <2>1. k + 1 \in 1..n /\ jobWatch'[k] = jobWatch[k + 1]
    BY <1>2
  <2>2. ASSUME NEW l \in (k + 2)..n PROVE jobWatch[l].obj.id # jobWatch[k + 1].obj.id
    <3>1. l - 1 \in (k + 1)..(n - 1) /\ jobWatch'[l - 1] = jobWatch[l]
      BY <1>2
    <3> QED
      BY <1>2, <1>6, <2>1, <3>1 DEF Newest
  <2>3. Newest(k + 1)
    BY <2>2 DEF Newest, n
  <2> QED
    BY <1>1, <2>1, <2>3 DEF JobsSeen, n
<1> QED
  BY <1>2, <1>4, <1>5, <1>6 DEF JobsSeen

LEMMA ListedJobsSeen ==
    ASSUME Relist
    PROVE  JobsSeen'
<1>1. PICK f \in Orders(jobs) :
         jobWatch' = [k \in DOMAIN f |-> [type |-> "set", obj |-> f[k]]]
  BY DEF Relist
<1>2. PICK n \in Nat : f \in [1..n -> jobs]
  BY <1>1, ClusterAssumption DEF Orders
<1>3. Len(jobWatch') = n /\ \A k \in 1..n : jobWatch'[k].obj \in jobs
  BY <1>1, <1>2
<1>4. jobs' = jobs /\ jobCache' = {}
  BY DEF Relist
<1> QED
  BY <1>3, <1>4 DEF JobsSeen

(* So they stay.                                                             *)
LEMMA NextJobsSeen ==
    ASSUME Deadline = Nil, TypeOK, JobsStay, JobsSeen, edits = 0, edits' = 0, [Next]_vars
    PROVE  JobsSeen'
<1>1. CASE JobsSame
  BY <1>1 DEF JobsSame, JobsSeen, NoNews, Newest
<1>2. CASE JobFinished
  <2>1. PICK j \in jobs : WriteJob([j EXCEPT !.finished = TRUE]) /\ UNCHANGED jobCache
    BY <1>2 DEF JobFinished
  <2>2. [j EXCEPT !.finished = TRUE] \in Job
    BY DEF TypeOK, ClusterTypeOK, Job
  <2> QED
    BY <2>1, <2>2, WrittenJobSeen
<1>3. CASE JobAdded
  BY <1>3, WrittenJobSeen DEF JobAdded
<1> QED
  BY <1>1, <1>2, <1>3, DeliveredJobSeen, ListedJobsSeen, JobSteps

--------------------------------------------------------------------------------
(* What the controller waits for stays, until it is told.                    *)

(* A job that is in the store stays there, finished or not.                  *)
LEMMA JobsRemain ==
    ASSUME Deadline = Nil, TypeOK, JobsStay, edits = 0, edits' = 0, [Next]_vars
    PROVE  \A x \in jobs : StillIn(jobs', x)
<1>1. CASE JobsSame \/ CacheJob \/ Relist
  BY <1>1 DEF JobsSame, CacheJob, Relist, StillIn
<1>2. CASE JobFinished
  <2>1. PICK j \in jobs : WriteJob([j EXCEPT !.finished = TRUE])
    BY <1>2 DEF JobFinished
  <2> DEFINE y == [j EXCEPT !.finished = TRUE]
  <2>2. y.id = j.id /\ Step(y) = Step(j) /\ jobs' = {x \in jobs : x.id # y.id} \cup {y}
    BY <2>1 DEF WriteJob, TypeOK, ClusterTypeOK, Job, Step
  <2> HIDE DEF y
  <2>3. ASSUME NEW x \in jobs PROVE StillIn(jobs', x)
    <3>1. CASE x.id = j.id
      <4>1. x = j /\ y \in jobs'
        BY <2>2, <3>1 DEF JobsStay
      <4> QED
        BY <2>2, <4>1 DEF StillIn
    <3>2. CASE x.id # j.id
      <4>1. x \in jobs'
        BY <2>2, <3>2
      <4> QED
        BY <4>1 DEF StillIn
    <3> QED
      BY <3>1, <3>2
  <2> QED
    BY <2>3
<1>3. CASE JobAdded
  <2>1. PICK j \in Job : j.id = jobCount + 1 /\ WriteJob(j)
    BY <1>3 DEF JobAdded
  <2>2. \A x \in jobs : x.id \in Nat /\ x.id <= jobCount /\ jobCount \in Nat
    BY DEF JobsStay, TypeOK, ClusterTypeOK, Job
  <2>3. \A x \in jobs : x \in jobs'
    BY <2>1, <2>2 DEF WriteJob
  <2> QED
    BY <2>3 DEF StillIn
<1> QED
  BY <1>1, <1>2, <1>3, JobSteps

(* So do two jobs of one step.                                               *)
LEMMA TwinsRemain ==
    ASSUME Deadline = Nil, TypeOK, JobsStay, edits = 0, edits' = 0, [Next]_vars, Twins
    PROVE  Twins'
<1>1. PICK j \in jobs, x \in jobs : j.id # x.id /\ Step(j) = Step(x)
  BY DEF Twins
<1>2. PICK y \in jobs' : y.id = j.id /\ Step(y) = Step(j)
  BY JobsRemain DEF StillIn
<1>3. PICK z \in jobs' : z.id = x.id /\ Step(z) = Step(x)
  BY JobsRemain DEF StillIn
<1> QED
  BY <1>1, <1>2, <1>3 DEF Twins

(* Notifications of jobs are added by the informer and taken by the handler. *)
LEMMA JobNoteSteps ==
    ASSUME [Next]_vars
    PROVE  UNCHANGED jobNotes \/ CacheJob \/ Relist \/ onJobEvent
<1>1. CASE Surroundings
  BY <1>1
  DEF Surroundings, Outside, Environment, UserCreate, UserEdit, UserDelete, Finalize,
      JobFinishes, JobGone, Tick, CacheWorkflow, Resync, caches
<1>2. CASE Handlers \/ RetryFires \/ GetItem \/ Restart \/ UNCHANGED vars
  BY <1>2
  DEF Handlers, onAddWorkflow, onUpdateWorkflow, onDeleteWorkflow, RetryFires, GetItem,
      Restart, vars, clusterVars, caches
<1>3. CASE sync
  BY <1>3
  DEF sync, SyncIgnored, SyncDefault, SyncInvalid, SyncStart, SyncDeadline, DeleteJob,
      CleanupReturns, SyncManage, OtherThanWorkflow, clusterVars, caches
<1>4. CASE manageWorkflow
  BY <1>4
  DEF manageWorkflow, StepComplete, StepExternal, StepBlocked, StepCreateJob,
      StepCreateFails, StepObserveJob, StepTooManyJobs, FinishManage, OtherThanWorkflow,
      clusterVars, caches
<1> QED
  BY <1>1, <1>2, <1>3, <1>4 DEF Next, Worker

(* Versions of a job carry the same labels. *)
LEMMA SameJobSameLabels ==
    ASSUME JobsStay, NEW j, NEW x, StillIn(jobs, j), StillIn(jobs, x), j.id = x.id,
           Labelled(j), Labelled(x)
    PROVE  j.labels = x.labels
BY DEF JobsStay, StillIn, Labelled

(* The finish of a job that the workflow waits for is on its way, or wakes   *)
(* the worker.                                                               *)
LEMMA AwaitedRemain ==
    ASSUME Deadline = Nil, TypeOK, LabelsKept, JobsStay, edits = 0, edits' = 0,
           [Next]_vars, ~Relist, UNCHANGED wfCache, JobAwaited
    PROVE  JobAwaited' \/ dirty'
<1>1. /\ jobWatch \in Seq(JobEvent) /\ jobNotes \in Seq(Job)
      /\ \A j : getWorkflowsFromJob(j) => getWorkflowsFromJob(j)'
  BY DEF TypeOK, ClusterTypeOK, getWorkflowsFromJob
<1>2. CASE CacheJob
  <2> DEFINE e == Head(jobWatch)
             n == Len(jobWatch)
  <2>1. /\ jobWatch # <<>> /\ jobWatch' = Tail(jobWatch)
        /\ jobNotes' = Append(jobNotes, e.obj)
        /\ \A x \in jobCache : x.id # e.obj.id => x \in jobCache'
    BY <1>2 DEF CacheJob
  <2>2. /\ n \in Nat \ {0} /\ Len(jobWatch') = n - 1 /\ e = jobWatch[1]
        /\ \A k \in 1..(n - 1) : jobWatch'[k] = jobWatch[k + 1]
        /\ Len(jobNotes') = Len(jobNotes) + 1 /\ Len(jobNotes) \in Nat
        /\ \A k \in 1..Len(jobNotes) : jobNotes'[k] = jobNotes[k]
        /\ jobNotes'[Len(jobNotes) + 1] = e.obj
    BY <1>1, <2>1
  <2>3. StillIn(jobs, e.obj) /\ Labelled(e.obj)
    BY <2>2 DEF JobsStay, LabelsKept, JobsLabelled
  <2> HIDE DEF e, n
  <2>4. getWorkflowsFromJob(e.obj) => JobAwaited'
    BY <1>1, <2>2 DEF JobAwaited
  <2>5. ASSUME NEW j \in jobCache, ~j.finished, getWorkflowsFromJob(j) PROVE JobAwaited'
    <3>1. CASE j.id # e.obj.id
      BY <1>1, <2>1, <2>5, <3>1 DEF JobAwaited
    <3>2. CASE j.id = e.obj.id
      <4>1. StillIn(jobs, j) /\ Labelled(j)
        BY DEF JobsStay, LabelsKept, JobsLabelled
      <4>2. j.labels = e.obj.labels
        BY <2>3, <3>2, <4>1, SameJobSameLabels
      <4> QED
        BY <2>4, <2>5, <4>2 DEF getWorkflowsFromJob
    <3> QED
      BY <3>1, <3>2
  <2>6. ASSUME NEW k \in 1..n, getWorkflowsFromJob(jobWatch[k].obj) PROVE JobAwaited'
    <3>1. CASE k = 1
      BY <2>2, <2>4, <2>6, <3>1
    <3>2. CASE k # 1
      <4>1. k - 1 \in 1..Len(jobWatch') /\ jobWatch'[k - 1] = jobWatch[k]
        BY <2>2, <3>2
      <4> QED
        BY <1>1, <2>6, <4>1 DEF JobAwaited
    <3> QED
      BY <3>1, <3>2
  <2>7. ASSUME NEW k \in 1..Len(jobNotes), getWorkflowsFromJob(jobNotes[k])
        PROVE  JobAwaited'
    BY <1>1, <2>2, <2>7 DEF JobAwaited
  <2> QED
    BY <2>5, <2>6, <2>7 DEF JobAwaited, n
<1>3. CASE onJobEvent
  <2>1. /\ jobNotes # <<>> /\ jobNotes' = Tail(jobNotes)
        /\ UNCHANGED <<jobWatch, jobCache>>
        /\ getWorkflowsFromJob(Head(jobNotes)) => dirty'
    BY <1>3 DEF onJobEvent, Enqueue, jobStore
  <2>2. /\ Len(jobNotes') = Len(jobNotes) - 1 /\ Head(jobNotes) = jobNotes[1]
        /\ Len(jobNotes) \in Nat
        /\ \A k \in 1..Len(jobNotes') : jobNotes'[k] = jobNotes[k + 1]
    BY <1>1, <2>1
  <2>3. ASSUME NEW k \in 1..Len(jobNotes), k # 1, getWorkflowsFromJob(jobNotes[k])
        PROVE  JobAwaited'
    <3>1. k - 1 \in 1..Len(jobNotes') /\ jobNotes'[k - 1] = jobNotes[k]
      BY <2>2, <2>3
    <3> QED
      BY <1>1, <2>3, <3>1 DEF JobAwaited
  <2> QED
    BY <1>1, <2>1, <2>2, <2>3 DEF JobAwaited
<1>4. CASE UNCHANGED jobNotes /\ ~CacheJob
  <2>1. CASE JobsSame
    BY <1>1, <1>4, <2>1 DEF JobsSame, JobAwaited
  <2>2. CASE JobFinished \/ JobAdded
    <3>1. UNCHANGED jobCache /\ \E x : WriteJob(x)
      BY <2>2 DEF JobFinished, JobAdded
    <3>2. /\ Len(jobWatch) \in Nat /\ Len(jobWatch') = Len(jobWatch) + 1
          /\ \A k \in 1..Len(jobWatch) : jobWatch'[k] = jobWatch[k]
      BY <1>1, <3>1 DEF WriteJob
    <3> QED
      BY <1>1, <1>4, <3>1, <3>2 DEF JobAwaited
  <2> QED
    BY <1>4, <2>1, <2>2, JobSteps
<1> QED
  BY <1>2, <1>3, <1>4, JobNoteSteps

--------------------------------------------------------------------------------
(* A pass over the newest copy.                                              *)

(* What the store and the worker hold when nothing is on its way. *)
(* What a pass over the newest copy holds: types, and a status no less than  *)
(* the stored one.                                                           *)
LEMMA PassFacts ==
    ASSUME TypeOK, VersionsAgree, wf # Nil, wfCache = wf, InPass
    PROVE  /\ wf \in Workflow /\ local \in Workflow
           /\ NoRankFalls(wfCache, local) /\ local.conds = wf.conds
           /\ local.uid = wf.uid /\ local.rv = wf.rv
           /\ \A o \in Workflow : \A s \in Steps :
                 Rank(o.status[s]) \in Nat /\ o.status[s] \in StepStatus
<1>1. wf \in Workflow /\ local \in Workflow
  BY DEF TypeOK, ClusterTypeOK, InPass
<1>2. \A st \in StepStatus : Rank(st) \in Nat
  BY DEF Rank, StepStatus
<1>3. \A o \in Workflow : \A s \in Steps : o.status[s] \in StepStatus
  BY DEF Workflow
<1> QED
  BY <1>1, <1>2, <1>3 DEF InPass, VersionsAgree, WorkerVersion, HeldCopy

(* A step that is complete, or not ready, leaves the pass as it is.          *)
LEMMA QuietStepInPass ==
    ASSUME TypeOK, InPass, StepComplete \/ StepBlocked
    PROVE  InPass'
<1>1. /\ AtStep /\ UNCHANGED <<pc, local, toBeUpdated, wfCache>>
      /\ \/ local.status[CurrentStep] = "complete" /\ complete' = complete
         \/ /\ local.status[CurrentStep] # "complete"
            /\ ~DependenciesSatisfied(local, CurrentStep)
  BY DEF StepComplete, StepBlocked, AtPendingStep, clusterVars, caches
<1>2. /\ i \in 1..Len(StepSeq) /\ i' = i + 1 /\ CurrentStep \in Steps
      /\ CurrentStep = StepSeq[i]
  BY <1>1, ControllerAssumption DEF AtStep, TypeOK, CurrentStep
<1>3. WillWrite => WillWrite'
  BY <1>1 DEF WillWrite, DependenciesSatisfied
<1>4. ASSUME NothingYet PROVE NothingYet'
  <2>1. \A k \in 1..(i' - 1) : k \in 1..(i - 1) \/ k = i
    BY <1>2
  <2>2. \A k \in 1..(i' - 1) : \/ local'.status[StepSeq[k]] = "complete"
                               \/ ~DependenciesSatisfied(local', StepSeq[k])
    BY <1>1, <1>2, <1>4, <2>1 DEF NothingYet, DependenciesSatisfied
  <2> QED
    BY <1>1, <1>2, <1>4, <2>2 DEF NothingYet
<1> QED
  BY <1>1, <1>3, <1>4 DEF InPass

(* The created job is matched by the cached selector, or the pass will       *)
(* publish the selector that matches it; without an answer the key is        *)
(* marked.                                                                   *)
LEMMA CreateStepInPass ==
    ASSUME SameTemplates, OneReady, TypeOK, CopiesSound, LabelsKept, InPass, StepCreateJob,
           wfCache # Nil
    PROVE  InPass' \/ dirty' \/ JobAwaited'
<1>1. PICK t \in Steps :
         /\ t = CurrentStep /\ local \in Workflow
         /\ local.status[t] # "complete" /\ DependenciesSatisfied(local, t)
         /\ local' = [local EXCEPT !.sel = StepLabels(t)]
         /\ getJobLabelsSetFromWorkflow(local, t) = StepLabels(t)
  <2>1. AtReadyStep({}) /\ local' = WithStepLabels(local, CurrentStep)
    BY DEF StepCreateJob
  <2> QED
    BY <2>1, ReadyStep
<1>2. PICK j : j.labels = StepLabels(t) /\ WriteJob(j)
  <2>1. WriteJob(NewJob(local, t)) /\ NewJob(local, t).labels = StepLabels(t)
    BY <1>1 DEF StepCreateJob, NewJob
  <2> QED
    BY <2>1
<1>3. UNCHANGED <<wfCache, pc>> /\ pc = "manage"
  BY DEF StepCreateJob, caches, InPass
<1>4. dirty' \/ toBeUpdated'
  BY DEF StepCreateJob, Enqueue
<1>5. /\ local'.sel = StepLabels(t) /\ local'.status = local.status
      /\ local'.uid = local.uid /\ local'.rv = local.rv
  BY <1>1 DEF Workflow
<1>6. CASE wfCache.sel = StepLabels(t)
  <2>1. /\ Len(jobWatch') \in Nat \ {0}
        /\ jobWatch'[Len(jobWatch')] = [type |-> "set", obj |-> j]
    BY <1>2 DEF WriteJob, TypeOK, ClusterTypeOK
  <2>2. getWorkflowsFromJob(j)'
    BY <1>2, <1>3, <1>6 DEF getWorkflowsFromJob, Matches
  <2>3. getWorkflowsFromJob(jobWatch[Len(jobWatch)].obj)'
    BY <2>1, <2>2
  <2> QED
    BY <2>1, <2>3 DEF JobAwaited
<1>7. CASE wfCache.sel # StepLabels(t) /\ toBeUpdated'
  <2>1. DependenciesSatisfied(local', t)
    BY <1>1, <1>5 DEF DependenciesSatisfied
  <2>2. WillWrite'
    BY <1>1, <1>3, <1>5, <1>7, <2>1 DEF WillWrite
  <2> QED
    BY <1>3, <1>5, <2>2 DEF InPass
<1> QED
  BY <1>4, <1>6, <1>7

(* A job whose status is news is published; one that runs, as reported, is   *)
(* matched by the cached selector, which has its labels.                     *)
LEMMA ObserveStepInPass ==
    ASSUME SameTemplates, OneReady, TypeOK, CopiesSound, VersionsAgree, LabelsKept,
           CopiesPlain, InPass, wf # Nil, wfCache = wf, StepObserveJob
    PROVE  InPass' \/ JobAwaited'
<1>0. PICK t \in Steps : t = CurrentStep
  BY ReadyStep DEF StepObserveJob
<1>1. PICK j \in jobCache :
         /\ AtReadyStep({j})
         /\ local' = [WithStepLabels(local, t) EXCEPT !.status[t] =
                         IF IsJobFinished(j) THEN "complete" ELSE "running"]
         /\ toBeUpdated' = (\/ toBeUpdated
                            \/ local.status[t] = "none"
                            \/ IsJobFinished(j))
         /\ UNCHANGED <<clusterVars, pc>>
  BY <1>0 DEF StepObserveJob
<1>2. UNCHANGED <<wfCache, pc, jobCache>>
  BY <1>1 DEF clusterVars, caches
<1>3. /\ local \in Workflow /\ t \in Steps
      /\ local.status[t] # "complete" /\ DependenciesSatisfied(local, t)
      /\ WithStepLabels(local, t) = [local EXCEPT !.sel = StepLabels(t)]
      /\ getJobLabelsSetFromWorkflow(local, t) = StepLabels(t)
      /\ j \in retrieveJobsStep(local, t)
      /\ \A s \in Steps : (/\ local.status[s] # "complete"
                           /\ DependenciesSatisfied(local, s)) => s = t
  <2>1. PICK found : found = {j} /\ AtReadyStep(found)
    BY <1>1
  <2>2. found = retrieveJobsStep(local, t)
    BY <1>0, <2>1 DEF AtReadyStep
  <2>3. /\ local \in Workflow
        /\ local.status[CurrentStep] # "complete"
        /\ DependenciesSatisfied(local, CurrentStep)
        /\ WithStepLabels(local, CurrentStep)
              = [local EXCEPT !.sel = StepLabels(CurrentStep)]
        /\ getJobLabelsSetFromWorkflow(local, CurrentStep) = StepLabels(CurrentStep)
        /\ \A s \in Steps : (/\ local.status[s] # "complete"
                             /\ DependenciesSatisfied(local, s)) => s = CurrentStep
    BY <2>1, ReadyStep
  <2> QED
    BY <1>0, <2>1, <2>2, <2>3
<1>4. /\ wf \in Workflow /\ NoRankFalls(wfCache, local)
      /\ \A o \in Workflow : \A s \in Steps :
            Rank(o.status[s]) \in Nat /\ o.status[s] \in StepStatus
  BY PassFacts
<1>5. /\ local'.sel = StepLabels(t)
      /\ local'.uid = local.uid /\ local'.rv = local.rv
      /\ local'.status = [local.status EXCEPT ![t] =
                             IF IsJobFinished(j) THEN "complete" ELSE "running"]
      /\ local.status \in [Steps -> StepStatus]
  BY <1>1, <1>3 DEF Workflow
<1>6. /\ local'.status[t] = IF IsJobFinished(j) THEN "complete" ELSE "running"
      /\ \A s \in Steps : s # t => local'.status[s] = local.status[s]
  BY <1>3, <1>5
<1>7. WillWrite' => InPass'
  BY <1>1, <1>2, <1>5 DEF InPass
<1>8. ASSUME toBeUpdated', NEW s \in Steps,
             Rank(wfCache.status[s]) < Rank(local'.status[s])
      PROVE  InPass'
  BY <1>2, <1>7, <1>8 DEF WillWrite
<1>9. Rank("none") = 0 /\ Rank("running") = 1 /\ Rank("complete") = 2
  BY DEF Rank
<1>10. Rank(wfCache.status[t]) <= Rank(local.status[t]) /\ Rank(wfCache.status[t]) \in Nat
  BY <1>3, <1>4 DEF NoRankFalls
<1>11. CASE IsJobFinished(j)
  <2>1. Rank(local.status[t]) < 2
    BY <1>3, <1>4, <1>9 DEF StepStatus
  <2> QED
    BY <1>1, <1>3, <1>4, <1>6, <1>8, <1>9, <1>10, <1>11, <2>1
<1>12. CASE ~IsJobFinished(j) /\ local.status[t] = "none"
  BY <1>1, <1>3, <1>6, <1>8, <1>9, <1>10, <1>12
<1>13. CASE ~IsJobFinished(j) /\ local.status[t] = "running"
  <2>1. \A s \in Steps : local'.status[s] = local.status[s]
    BY <1>6, <1>13
  <2>2. local.sel = StepLabels(t)
    BY <1>3, <1>13 DEF CopiesPlain, Plain, InPass
  <2>3. CASE WillWrite
    <3>1. CASE \E s \in Steps : Rank(wfCache.status[s]) < Rank(local.status[s])
      BY <1>1, <1>8, <2>1, <2>3, <3>1 DEF WillWrite
    <3>2. CASE local.sel # wfCache.sel
      <4>1. DependenciesSatisfied(local', t)
        BY <1>3, <2>1, ControllerAssumption DEF DependenciesSatisfied
      <4>2. WillWrite'
        BY <1>1, <1>2, <1>3, <1>5, <1>6, <1>13, <2>2, <2>3, <3>2, <4>1 DEF WillWrite
      <4> QED
        BY <1>7, <4>2
    <3> QED
      BY <2>3, <3>1, <3>2 DEF WillWrite
  <2>4. CASE NothingYet
    <3>1. wfCache.sel = StepLabels(t)
      BY <2>2, <2>4 DEF NothingYet
    <3>2. j.labels = StepLabels(t)
      <4>1. Step(j) = t
        BY <1>3, MatchesStep DEF retrieveJobsStep
      <4> QED
        BY <4>1 DEF LabelsKept, JobsLabelled, Labelled
    <3>3. getWorkflowsFromJob(j)'
      BY <1>2, <3>1, <3>2 DEF getWorkflowsFromJob, Matches
    <3> QED
      BY <1>2, <1>13, <3>3 DEF JobAwaited, IsJobFinished
  <2> QED
    BY <2>3, <2>4 DEF InPass
<1> QED
  BY <1>3, <1>4, <1>11, <1>12, <1>13 DEF StepStatus

(* Several jobs found for a step are several jobs of it in the store.        *)
LEMMA TooManyStep ==
    ASSUME SameTemplates, OneReady, TypeOK, CopiesSound, LabelsKept, JobsStay, JobsSeen,
           StepTooManyJobs
    PROVE  Twins'
<1>1. PICK found \in SUBSET jobCache : Cardinality(found) > 1 /\ AtReadyStep(found)
  BY DEF StepTooManyJobs
<1>2. PICK x \in found, y \in found : x # y
  <2>1. PICK x : x \in found
    BY <1>1, FS_EmptySet
  <2>2. found # {x}
    BY <1>1, FS_Singleton
  <2> QED
    BY <2>1, <2>2
<1>3. /\ local \in Workflow /\ CurrentStep \in Steps
      /\ found = retrieveJobsStep(local, CurrentStep)
  BY <1>1, ReadyStep
<1>4. Step(x) = CurrentStep /\ Step(y) = CurrentStep
  BY <1>3, MatchesStep DEF retrieveJobsStep
<1>5. x.id # y.id
  BY <1>2 DEF JobsSeen
<1>6. PICK u \in jobs : u.id = x.id /\ Step(u) = Step(x)
  BY DEF JobsStay, StillIn
<1>7. PICK v \in jobs : v.id = y.id /\ Step(v) = Step(y)
  BY DEF JobsStay, StillIn
<1>8. UNCHANGED jobs
  BY DEF StepTooManyJobs, clusterVars, jobStore
<1> QED
  BY <1>4, <1>5, <1>6, <1>7, <1>8 DEF Twins

(* A write without a fault puts an event in the watch. *)
LEMMA UpdateWrites ==
    ASSUME TypeOK, faults' = faults, NEW o, UpdateAccepted(o), updateWorkflow(o)
    PROVE  wfWatch' # <<>>
<1>1. faults \in Nat /\ wfWatch \in Seq(WorkflowEvent)
  BY DEF TypeOK, ClusterTypeOK
<1>2. WriteWorkflow(o)
  BY <1>1 DEF updateWorkflow, Fault
<1> QED
  BY <1>1, <1>2 DEF WriteWorkflow

(* A pass over the newest copy ends with a write: of the Complete condition, *)
(* or of what it has found. It cannot end with nothing found, for some step  *)
(* was ready.                                                                *)
LEMMA FinishWrites ==
    ASSUME DepsAcyclic, MaxConds # 0, TypeOK, VersionsAgree, InPass, wf # Nil,
           wfCache = wf, wf.conds = <<>>, FinishManage, faults' = faults
    PROVE  wfWatch' # <<>>
<1>1. /\ wf \in Workflow /\ local \in Workflow
      /\ NoRankFalls(wfCache, local) /\ local.conds = <<>>
      /\ local.uid = wf.uid /\ local.rv = wf.rv
      /\ \A o \in Workflow : \A s \in Steps :
            Rank(o.status[s]) \in Nat /\ o.status[s] \in StepStatus
  BY PassFacts
<1>2. CASE complete
  <2> DEFINE o == WithCondition(local, "Complete")
  <2>1. Len(local.conds) < MaxConds
    BY <1>1, ControllerAssumption
  <2>2. /\ o.uid = wf.uid /\ o.rv = wf.rv
        /\ o.conds = Append(local.conds, "Complete")
    BY <1>1, <2>1 DEF WithCondition, Workflow
  <2>3. Append(local.conds, "Complete") # <<>>
    BY <1>1
  <2>4. updateWorkflow(o)
    BY <1>2 DEF FinishManage
  <2> HIDE DEF o
  <2>5. UpdateAccepted(o)
    BY <2>2, <2>3 DEF UpdateAccepted
  <2> QED
    BY <2>4, <2>5, UpdateWrites
<1>3. CASE ~complete
  <2>1. ~NothingYet
    <3> SUFFICES ASSUME NothingYet PROVE FALSE
      OBVIOUS
    <3> DEFINE S == {s \in Steps : local.status[s] # "complete"}
    <3>1. S # {} /\ S \in SUBSET Steps
      BY <1>3 DEF NothingYet
    <3>2. PICK s \in S : Deps[s] \cap S = {}
      BY <3>1 DEF DepsAcyclic
    <3>3. local.status[s] # "complete" /\ DependenciesSatisfied(local, s)
      BY <3>2, ControllerAssumption DEF DependenciesSatisfied
    <3>4. i - 1 = Len(StepSeq)
      <4>1. i > Len(StepSeq) /\ i \in 1..(Len(StepSeq) + 1) /\ Len(StepSeq) \in Nat
        BY ControllerAssumption DEF FinishManage, TypeOK
      <4> QED
        BY <4>1
    <3>5. PICK k \in 1..(i - 1) : s = StepSeq[k]
      BY <3>2, <3>4, ControllerAssumption
    <3> QED
      BY <3>3, <3>5 DEF NothingYet
  <2>2. WillWrite
    BY <2>1 DEF InPass
  <2>3. local # wf
    <3>1. ASSUME NEW s \in Steps, Rank(wfCache.status[s]) < Rank(local.status[s]),
                 local = wf
          PROVE  FALSE
      BY <1>1, <3>1
    <3> QED
      BY <2>2, <3>1 DEF WillWrite
  <2>4. UpdateAccepted(local)
    BY <1>1, <2>3 DEF UpdateAccepted
  <2>5. updateWorkflow(local)
    BY <1>3, <2>2 DEF FinishManage, WillWrite
  <2> QED
    BY <2>4, <2>5, UpdateWrites
<1> QED
  BY <1>2, <1>3

--------------------------------------------------------------------------------
(* The controller stays awake.                                               *)

(* Failed calls are never forgotten.                                         *)
LEMMA FaultsGrow ==
    ASSUME TypeOK, [Next]_vars, faults' = 0
    PROVE  faults = 0
<1>1. faults \in Nat
  BY DEF TypeOK, ClusterTypeOK
<1>2. UNCHANGED faults => faults = 0
  OBVIOUS
<1>3. ~Fault
  BY <1>1 DEF Fault
<1>4. CASE Surroundings
  BY <1>2, <1>4
  DEF Surroundings, Outside, Environment, UserCreate, UserEdit, UserDelete, Finalize,
      JobFinishes, JobGone, Tick, CacheWorkflow, CacheJob, Resync
<1>5. CASE Handlers \/ RetryFires \/ GetItem \/ Restart \/ UNCHANGED vars
  BY <1>2, <1>3, <1>5
  DEF Handlers, onAddWorkflow, onUpdateWorkflow, onDeleteWorkflow, onJobEvent, RetryFires,
      GetItem, Restart, Relist, vars, clusterVars, deleteWorkflow, NoFault
<1>6. CASE sync
  BY <1>2, <1>3, <1>6
  DEF sync, SyncIgnored, SyncDefault, SyncInvalid, SyncStart, SyncDeadline, DeleteJob,
      CleanupReturns, SyncManage, clusterVars, updateWorkflow, deleteWorkflow, NoFault
<1>7. CASE manageWorkflow
  BY <1>2, <1>3, <1>7
  DEF manageWorkflow, StepComplete, StepExternal, StepBlocked, StepCreateJob,
      StepCreateFails, StepObserveJob, StepTooManyJobs, FinishManage, clusterVars,
      updateWorkflow, NoFault
<1> QED
  BY <1>4, <1>5, <1>6, <1>7 DEF Next, Worker

(* A deletion without a fault removes what is stored. *)
LEMMA DeletionRemoves ==
    ASSUME TypeOK, faults' = faults, wf # Nil, ~wf.deleting, NEW err, deleteWorkflow(err)
    PROVE  wf' = Nil
<1>1. ~Fault
  BY DEF Fault, TypeOK, ClusterTypeOK
<1> QED
  BY <1>1 DEF deleteWorkflow, RemoveWorkflow

(* A worker that has begun no pass ends with a write, or begins one. *)
(* A worker that takes up the newest copy writes or removes it, or begins a  *)
(* pass over it.                                                             *)
LEMMA SyncAwake ==
    ASSUME Deadline = Nil, TypeOK, CopiesSound, JobsStay, NewsSeen, faults' = faults,
           wf # Nil, wfCache = wf, UNCHANGED wfCache, Plain(wf), sync
    PROVE  wf' = Nil \/ wfWatch' # <<>> \/ InPass'
<1>1. wf \in Workflow /\ ~wf.deleting
  BY DEF Plain, TypeOK, ClusterTypeOK
<1>2. CASE SyncIgnored
  BY <1>1, <1>2 DEF SyncIgnored
<1>3. CASE SyncDefault
  <2> DEFINE o == [wfCache EXCEPT !.defaulted = TRUE]
  <2>1. o.uid = wf.uid /\ o.rv = wf.rv /\ o.defaulted # wf.defaulted
    BY <1>1, <1>3 DEF SyncDefault, Workflow
  <2>2. updateWorkflow(o)
    BY <1>3 DEF SyncDefault
  <2> HIDE DEF o
  <2>3. UpdateAccepted(o)
    BY <2>1 DEF UpdateAccepted
  <2> QED
    BY <2>2, <2>3, UpdateWrites
<1>4. CASE SyncInvalid
  BY <1>1, <1>4, DeletionRemoves DEF SyncInvalid
<1>5. CASE SyncStart
  <2> DEFINE o == [wfCache EXCEPT !.status = NoStatus, !.start = now]
  <2>1. o.uid = wf.uid /\ o.rv = wf.rv /\ o.start = now /\ wf.start = Nil
    BY <1>1, <1>5 DEF SyncStart, Workflow
  <2>2. updateWorkflow(o) /\ now # Nil
    BY <1>5, ClusterAssumption DEF SyncStart, TypeOK, ClusterTypeOK
  <2> HIDE DEF o
  <2>3. UpdateAccepted(o)
    BY <2>1, <2>2 DEF UpdateAccepted
  <2> QED
    BY <2>2, <2>3, UpdateWrites
<1>6. CASE SyncDeadline
  BY <1>6 DEF SyncDeadline, pastActiveDeadline
<1>7. CASE (\E j \in todo : DeleteJob(j)) \/ CleanupReturns
  BY <1>7 DEF DeleteJob, CleanupReturns, JobsStay
<1>8. CASE SyncManage
  <2>1. /\ pc = "sync" /\ pc' = "manage" /\ local' = wfCache'
        /\ UNCHANGED <<i, complete>>
    BY <1>8 DEF SyncManage, SyncProceeds
  <2>2. i = 1 /\ complete
    BY <2>1 DEF CopiesSound, WorkerSound, NewsSeen
  <2>3. NothingYet'
    BY <2>1, <2>2 DEF NothingYet
  <2> QED
    BY <2>1, <2>3 DEF InPass
<1> QED
  BY <1>2, <1>3, <1>4, <1>5, <1>6, <1>7, <1>8 DEF sync

(* The last notification of an unfinished workflow marks the key.            *)
LEMMA NotesAwake ==
    ASSUME TypeOK, NewsSeen, faults' = faults, wf # Nil, wfCache = wf, Plain(wf),
           ~IsWorkflowFinished(wf), wfNotes' = <<>>,
           onAddWorkflow \/ onUpdateWorkflow \/ onDeleteWorkflow
    PROVE  dirty' \/ wf' = Nil
<1>1. /\ wfNotes \in Seq(WorkflowNote) /\ wfNotes # <<>> /\ Tail(wfNotes) = <<>>
  BY DEF onAddWorkflow, onUpdateWorkflow, onDeleteWorkflow, TypeOK, ClusterTypeOK
<1>2. Head(wfNotes) \in [type : {"add", "update"}, obj : {wf}]
  <2>1. Len(wfNotes) = 1 /\ Head(wfNotes) = wfNotes[1]
    BY <1>1, LastOfOne
  <2> QED
    BY <1>1, <2>1 DEF NewsSeen
<1>3. CASE onAddWorkflow
  BY <1>2, <1>3, DeletionRemoves DEF onAddWorkflow, Enqueue, Plain
<1>4. CASE onUpdateWorkflow
  BY <1>2, <1>4 DEF onUpdateWorkflow, Enqueue
<1>5. CASE onDeleteWorkflow
  BY <1>5 DEF onDeleteWorkflow, Enqueue
<1> QED
  BY <1>3, <1>4, <1>5

(* A step of a pass over the newest copy keeps the controller awake.         *)
LEMMA ManageAwake ==
    ASSUME SameTemplates, DepsAcyclic, OneReady, MaxConds # 0, ExternalSteps = {},
           TypeOK, CopiesSound, VersionsAgree, LabelsKept, JobsStay, JobsSeen, CopiesPlain,
           faults' = faults, wf # Nil, wfCache = wf, wf.conds = <<>>, InPass,
           manageWorkflow
    PROVE  InPass' \/ dirty' \/ JobAwaited' \/ Twins' \/ wfWatch' # <<>>
<1>1. CASE StepExternal
  BY <1>1 DEF StepExternal
<1>2. CASE StepCreateFails
  BY <1>2 DEF StepCreateFails, Enqueue
<1> QED
  BY <1>1, <1>2, QuietStepInPass, CreateStepInPass, ObserveStepInPass, TooManyStep,
     FinishWrites
  DEF manageWorkflow

(* Every step of the system keeps it awake. If the next state were silent,   *)
(* nothing would have been written, cached or listed, so that the worker, or *)
(* a handler, has taken its step on the newest copy.                         *)
LEMMA NextAwake ==
    ASSUME SameTemplates, Deadline = Nil, DepsAcyclic, OneReady, MaxConds # 0,
           ExternalSteps = {},
           TypeOK, CopiesSound, VersionsAgree, LabelsKept, JobsStay,
           NewsSeen, CopiesPlain, JobsSeen, Awake,
           edits = 0, edits' = 0, faults' = faults, [Next]_vars
    PROVE  Awake'
<1> SUFFICES ASSUME Pending', ~dirty', ~waiting', wfNotes' = <<>>, pc' # "sync", ~InPass',
                    ~JobAwaited', ~Twins'
             PROVE  FALSE
  BY DEF Awake
<1>1. wf' # Nil /\ wfWatch' = <<>> /\ ~IsWorkflowFinished(wf')
  BY DEF Pending
<1>2. Untouched /\ ~Relist
  <2>1. \A o : ~WriteWorkflow(o)
    BY <1>1 DEF WriteWorkflow, TypeOK, ClusterTypeOK
  <2>2. ~Created /\ ~Published
    BY <2>1 DEF Created, Published
  <2>3. ~Removed
    BY <1>1 DEF Removed, RemoveWorkflow
  <2>4. ~Relist
    BY <1>1 DEF Relist
  <2>5. ~CacheWorkflow
    <3> SUFFICES ASSUME CacheWorkflow PROVE FALSE
      OBVIOUS
    <3>1. PICK e : wfNotes' = Append(wfNotes, e)
      BY DEF CacheWorkflow
    <3>2. wfNotes \in Seq(WorkflowNote)
      BY DEF TypeOK, ClusterTypeOK
    <3>3. Len(wfNotes') = Len(wfNotes) + 1 /\ Len(wfNotes) \in Nat
      BY <3>1, <3>2
    <3> QED
      BY <3>3
  <2> QED
    BY <2>2, <2>3, <2>4, <2>5, NextVersionsAgree DEF StoreStep, Delivered
<1>3. /\ wf' = wf /\ wf # Nil /\ wfCache' = wfCache /\ wfCache = wf /\ wfWatch' = wfWatch
      /\ wfWatch = <<>> /\ Plain(wf) /\ ~IsWorkflowFinished(wf) /\ wf.conds = <<>>
  BY <1>1, <1>2 DEF Untouched, NewsSeen, CopiesPlain, IsWorkflowFinished
<1>4. ~JobAwaited /\ ~Twins
  BY <1>2, <1>3, AwaitedRemain, TwinsRemain
<1>5. dirty \/ waiting \/ wfNotes # <<>> \/ pc = "sync" \/ InPass
  BY <1>3, <1>4 DEF Awake, Pending
<1>6. ASSUME UNCHANGED <<queue, worker, wfNotes>> PROVE FALSE
  <2>1. UNCHANGED <<dirty, waiting, wfNotes, pc, local, i, toBeUpdated, complete>>
    BY <1>6 DEF queue, worker
  <2>2. InPass => InPass'
    BY <1>3, <2>1 DEF InPass, WillWrite, NothingYet, DependenciesSatisfied
  <2> QED
    BY <1>5, <2>1, <2>2
<1>7. CASE Surroundings
  <2>1. ~Resync /\ ~CacheWorkflow
    BY <1>3 DEF Resync, CacheWorkflow
  <2>2. UNCHANGED <<queue, worker>>
    BY <1>7 DEF Surroundings, Outside
  <2>3. UNCHANGED wfNotes
    BY <1>7, <2>1
    DEF Surroundings, Outside, Environment, UserCreate, UserEdit, UserDelete, Finalize,
        JobFinishes, JobGone, Tick, CacheJob, caches
  <2> QED
    BY <1>6, <2>2, <2>3
<1>8. CASE onAddWorkflow \/ onUpdateWorkflow \/ onDeleteWorkflow
  BY <1>1, <1>3, <1>8, NotesAwake
<1>9. CASE onJobEvent
  <2>1. UNCHANGED <<wfNotes, waiting, worker, dirty>>
    BY <1>9 DEF onJobEvent, Enqueue
  <2> QED
    BY <1>6, <2>1 DEF queue
<1>10. CASE RetryFires \/ GetItem \/ UNCHANGED vars
  <2>1. CASE UNCHANGED vars
    BY <1>6, <2>1 DEF vars, clusterVars, caches
  <2> QED
    BY <1>10, <2>1 DEF RetryFires, GetItem, Enqueue
<1>11. CASE sync
  BY <1>1, <1>3, <1>11, SyncAwake
<1>12. CASE manageWorkflow
  <2>1. pc = "manage" /\ UNCHANGED wfNotes /\ (dirty => dirty') /\ (waiting => waiting')
    <3>1. CASE FinishManage
      <4>1. pc = "manage" /\ UNCHANGED <<wfNotes, dirty>> /\ waiting' = (waiting \/ FALSE)
        BY <3>1 DEF FinishManage, Return, OtherThanWorkflow, caches
      <4> QED
        BY <4>1 DEF TypeOK
    <3>2. CASE StepCreateJob \/ StepCreateFails
      BY <3>2
      DEF StepCreateJob, StepCreateFails, AtReadyStep, AtPendingStep, AtStep, Enqueue, caches
    <3>3. CASE StepComplete \/ StepExternal \/ StepBlocked \/ StepObserveJob \/ StepTooManyJobs
      <4>1. AtStep /\ UNCHANGED <<clusterVars, queue>>
        BY <3>3
        DEF StepComplete, StepExternal, StepBlocked, StepObserveJob, StepTooManyJobs,
            AtReadyStep, AtPendingStep
      <4> QED
        BY <4>1 DEF AtStep, queue, clusterVars, caches
    <3> QED
      BY <1>12, <3>1, <3>2, <3>3 DEF manageWorkflow
  <2>2. InPass
    BY <1>5, <2>1
  <2> QED
    BY <1>1, <1>3, <1>12, <2>2, ManageAwake
<1>13. CASE Restart
  BY <1>2, <1>13 DEF Restart
<1> QED
  BY <1>7, <1>8, <1>9, <1>10, <1>11, <1>12, <1>13 DEF Next, Handlers, Worker

(* The invariant is inductive, beside those of types, of sound copies, of    *)
(* their versions, of labels and of the jobs that stay.                      *)
LEMMA NextWake ==
    ASSUME SameTemplates, Deadline = Nil, DepsAcyclic, OneReady, MaxConds # 0,
           TypeOK, CopiesSound, VersionsAgree, LabelsKept, JobsKept, WakeInv, [Next]_vars
    PROVE  WakeInv'
<1>1. NewsSeen'
  BY NextVersionsAgree, NextNewsSeen DEF WakeInv
<1>2. ASSUME edits' = 0
      PROVE  /\ CopiesPlain' /\ JobsSeen'
             /\ (faults' = 0 /\ ExternalSteps = {}) => Awake'
  <2>1. edits = 0
    BY <1>2, EditsGrow
  <2>2. NewsSeen /\ CopiesPlain /\ JobsSeen /\ JobsStay
    BY <2>1 DEF WakeInv, JobsKept
  <2>3. CopiesPlain'
    BY <1>2, <2>1, <2>2, NextCopiesPlain
  <2>4. JobsSeen'
    BY <1>2, <2>1, <2>2, NextJobsSeen
  <2>5. ASSUME faults' = 0, ExternalSteps = {} PROVE Awake'
    <3>1. faults = 0
      BY <2>5, FaultsGrow
    <3>2. Awake
      BY <2>1, <2>5, <3>1 DEF WakeInv
    <3> QED
      BY <1>2, <2>1, <2>2, <2>5, <3>1, <3>2, NextAwake
  <2> QED
    BY <2>3, <2>4, <2>5
<1> QED
  BY <1>1, <1>2 DEF WakeInv

(* In a quiescent state only a job is left to wait for, and the watch has    *)
(* nothing on it: the cached job is the stored one.                          *)
LEMMA AwakeIsEnough ==
    ASSUME TypeOK, WakeInv
    PROVE  NoLostWakeup
<1> SUFFICES ASSUME Quiescent, faults = 0, edits = 0, wf # Nil, ~IsWorkflowFinished(wf),
                    ExternalSteps = {}
             PROVE  (\E j \in jobs : ~j.finished) \/ DuplicateJobs
  BY DEF NoLostWakeup
<1>1. Awake /\ JobsSeen
  BY DEF WakeInv
<1>2. JobAwaited \/ Twins
  BY <1>1 DEF Awake, Pending, Quiescent, InPass
<1>3. CASE Twins
  BY <1>3 DEF Twins, DuplicateJobs
<1>4. CASE JobAwaited
  <2>1. Len(jobWatch) = 0 /\ Len(jobNotes) = 0
    BY DEF Quiescent
  <2>2. PICK j \in jobCache : ~j.finished
    BY <1>4, <2>1 DEF JobAwaited
  <2>3. NoNews(j)
    BY <2>1 DEF NoNews
  <2> QED
    BY <1>1, <2>2, <2>3 DEF JobsSeen
<1> QED
  BY <1>2, <1>3, <1>4

(* A swallowed update conflict loses nothing, whatever the number of steps,  *)
(* the age of the copies and the restarts of the controller: as long as      *)
(* calls do not fail and nobody edits objects, silence on an unfinished      *)
(* workflow means that one of its jobs is still to finish or that a step has *)
(* several jobs. For valid workflows (DepsAcyclic) whose steps run one after *)
(* another, without a deadline; of steps that run side by side it is false.  *)
(* MaxConds # 0 says that the model keeps the Complete condition.            *)
THEOREM WakeupsNotLost ==
    ASSUME SameTemplates, Deadline = Nil, DepsAcyclic, OneReady, MaxConds # 0
    PROVE  Spec => []NoLostWakeup
<1>1. Init => WakeInv
  BY DEF Init, ClusterInit, WakeInv, NewsSeen, CopiesPlain, JobsSeen, Awake, Pending
<1>2. /\ TypeOK /\ CopiesSound /\ VersionsAgree /\ LabelsKept /\ JobsKept /\ WakeInv
      /\ [Next]_vars
      => WakeInv'
  BY NextWake
<1>3. TypeOK /\ WakeInv => NoLostWakeup
  BY AwakeIsEnough
<1> QED
  BY <1>1, <1>2, <1>3, TypeCorrect, CopiesAlwaysSound, CopiesOrdered, LabelsAlwaysKept,
     JobsAlwaysKept, PTL
  DEF Spec

================================================================================

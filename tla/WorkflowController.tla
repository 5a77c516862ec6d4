--------------------------- MODULE WorkflowController ---------------------------
(***************************************************************************)
(* The Workflow controller (pkg/controller/workflow.go) over one workflow  *)
(* key: the handlers of the informers' notifications, the rate limited     *)
(* work queue and the single worker goroutine that runs sync.  The worker  *)
(* decides on cached copies and never waits for its own writes to come     *)
(* back to the caches.                                                     *)
(*                                                                         *)
(* The steps, their dependencies and templates and the deadline of the     *)
(* workflow are constants; users change whether the specification is       *)
(* defaulted, whether it is valid and what its selector is.                *)
(*                                                                         *)
(* The definitions named Mutant... are variants that no specification      *)
(* uses; each shows that some property notices a mistake.                  *)
(***************************************************************************)
EXTENDS Cluster, Labels

CONSTANTS
    StepSeq,         \* Spec.Steps, in order
    Deps,            \* Deps[s]: the steps named by s.Dependencies
    ExternalSteps,   \* the steps with an ExternalRef instead of a JobTemplate
    TemplateLabels,  \* TemplateLabels[s]: the labels of s's pod template
    WorkflowName,
    \* Bounds
    MaxRestarts,     \* the controller's restarts
    MaxConds         \* conditions a workflow collects; later ones are not kept

ASSUME ControllerAssumption ==
    /\ StepSeq \in Seq(Steps)
    /\ Steps = {StepSeq[k] : k \in 1..Len(StepSeq)}
    /\ Deps \in [Steps -> SUBSET Steps]
    /\ ExternalSteps \subseteq Steps
    /\ TemplateLabels \in [Steps -> LabelSet]
    /\ WorkflowName \in LabelValues
    /\ {MaxRestarts, MaxConds} \subseteq Nat

VARIABLES
    \* the work queue
    dirty,       \* the key is marked for processing
    waiting,     \* the key is in the rate limiter's delay
    \* the worker
    pc,          \* "idle", "sync", "manage" or "cleanup"
    local,       \* sync's deep copy of the cached workflow, or Nil
    began,       \* sync's startTime
    i,           \* manageWorkflow's position in Spec.Steps
    toBeUpdated, \* workflowToBeUpdated
    complete,    \* workflowComplete
    todo,        \* the jobs deleteJobsFromLabelSelector has still to delete
    cleanupErr,  \* it has met an error
    restarts

queue == <<dirty, waiting>>
cleanup == <<todo, cleanupErr>>
worker == <<pc, local, began, i, toBeUpdated, complete, cleanup>>
vars == <<clusterVars, queue, worker, restarts>>

--------------------------------------------------------------------------------
(* Labels and status.                                                        *)

IsWorkflowFinished(o) == o.conds # <<>>

MutantIsJobFinished(j) == TRUE

IsJobFinished(j) == j.finished

MutantStatusEmpty(o) == FALSE

StatusEmpty(o) == o.start = Nil /\ o.status = NoStatus /\ o.conds = <<>>

OwnLabels(s) ==
    [k \in {WorkflowLabelKey, WorkflowStepLabelKey} |->
        IF k = WorkflowLabelKey THEN WorkflowName ELSE s]

(* The map it returns is the workflow's selector itself, changed in place. *)
getJobLabelsSetFromWorkflow(o, s) ==
    Merge(Merge(o.sel, TemplateLabels[s]), OwnLabels(s))

inferrWorkflowLabelSelectorForJobs(o) ==
    Merge(o.sel, [k \in {WorkflowLabelKey} |-> WorkflowName])

(* A condition is appended whatever the list already holds. *)
WithCondition(o, c) ==
    IF Len(o.conds) < MaxConds THEN [o EXCEPT !.conds = Append(@, c)] ELSE o

MutantPastActiveDeadline(o, t) ==
    Deadline # Nil /\ o.start # Nil /\ t - o.start > Deadline

MutantDeadlineReached(o, t) ==
    Deadline # Nil /\ o.start # Nil /\ t - o.start = Deadline

pastActiveDeadline(o, t) ==
    Deadline # Nil /\ o.start # Nil /\ t - o.start >= Deadline

--------------------------------------------------------------------------------
(* Calls to the API server.                                                  *)

MutantUpdateWorkflow(o) ==
    /\ NoFault
    /\ IF wf # Nil /\ wf.uid = o.uid THEN WriteWorkflow([o EXCEPT !.rv = wf.rv])
                                     ELSE UNCHANGED wfStore

(* updateWorkflow returns nil whatever Update returns: a conflict, a missing *)
(* object or a failed call goes unnoticed.                                   *)
updateWorkflow(o) ==
    \/ NoFault /\ UpdateAccepted(o) /\ WriteWorkflow(o)
    \/ NoFault /\ ~UpdateAccepted(o) /\ UNCHANGED wfStore
    \/ Fault /\ UNCHANGED wfStore

(* deleteWorkflow deletes by name, whatever the version, and returns err.    *)
(* A workflow that waits for its finalizers stays until they are done.       *)
deleteWorkflow(err) ==
    \/ ~err /\ NoFault /\ wf # Nil /\ ~wf.deleting /\ RemoveWorkflow
    \/ ~err /\ NoFault /\ wf # Nil /\ wf.deleting /\ UNCHANGED wfStore
    \/ err /\ NoFault /\ wf = Nil /\ UNCHANGED wfStore
    \/ err /\ Fault /\ UNCHANGED wfStore

--------------------------------------------------------------------------------
(* The handlers of the informers' notifications.                             *)

(* workqueue.Add: a key being processed is processed again afterwards. *)
Enqueue == dirty' = TRUE

onAddWorkflow ==
    /\ wfNotes # <<>>
    /\ Head(wfNotes).type = "add"
    /\ wfNotes' = Tail(wfNotes)
    /\ \/ /\ StatusEmpty(Head(wfNotes).obj)
          /\ Enqueue
          /\ UNCHANGED <<wfStore, faults>>
       \/ /\ ~StatusEmpty(Head(wfNotes).obj)
          /\ \E err \in BOOLEAN : deleteWorkflow(err)
          /\ UNCHANGED dirty
    /\ UNCHANGED <<jobStore, now, wfCache, jobCache, jobNotes, unsynced, history,
                   waiting, worker, restarts>>

onUpdateWorkflow ==
    /\ wfNotes # <<>>
    /\ Head(wfNotes).type = "update"
    /\ wfNotes' = Tail(wfNotes)
    /\ IF IsWorkflowFinished(Head(wfNotes).obj) THEN UNCHANGED dirty ELSE Enqueue
    /\ UNCHANGED <<wfStore, jobStore, now, wfCache, jobCache, jobNotes, unsynced,
                   history, faults, waiting, worker, restarts>>

onDeleteWorkflow ==
    /\ wfNotes # <<>>
    /\ Head(wfNotes).type = "delete"
    /\ wfNotes' = Tail(wfNotes)
    /\ Enqueue
    /\ UNCHANGED <<wfStore, jobStore, now, wfCache, jobCache, jobNotes, unsynced,
                   history, faults, waiting, worker, restarts>>

MutantGetWorkflowsFromJob(j) ==
    wfCache # Nil /\ Matches(wfCache.sel, j.labels) /\ ~j.finished

(* Whether the cached workflow is among the workflows of the job. *)
getWorkflowsFromJob(j) == wfCache # Nil /\ Matches(wfCache.sel, j.labels)

(* onAddJob, onUpdateJob and onDeleteJob do the same thing. *)
onJobEvent ==
    /\ jobNotes # <<>>
    /\ jobNotes' = Tail(jobNotes)
    /\ IF getWorkflowsFromJob(Head(jobNotes)) THEN Enqueue ELSE UNCHANGED dirty
    /\ UNCHANGED <<wfStore, jobStore, now, wfCache, jobCache, wfNotes, unsynced,
                   history, faults, waiting, worker, restarts>>

(* The rate limiter's delay is over. *)
RetryFires ==
    /\ waiting
    /\ waiting' = FALSE
    /\ Enqueue
    /\ UNCHANGED <<clusterVars, worker, restarts>>

--------------------------------------------------------------------------------
(* The worker: processNextItem and sync.                                     *)

(* Run has waited for the caches to sync; then the worker takes the key. *)
GetItem ==
    /\ pc = "idle"
    /\ dirty
    /\ unsynced.wf = 0 /\ unsynced.job = 0
    /\ dirty' = FALSE
    /\ pc' = "sync"
    /\ began' = now
    /\ UNCHANGED <<clusterVars, waiting, local, i, toBeUpdated, complete, cleanup,
                   restarts>>

ResetWorker ==
    /\ pc' = "idle"
    /\ local' = Nil
    /\ began' = 0
    /\ i' = 1
    /\ toBeUpdated' = FALSE
    /\ complete' = TRUE
    /\ todo' = {}
    /\ cleanupErr' = FALSE

(* sync returns: on an error the key is added again after a delay. *)
Return(err) == ResetWorker /\ waiting' = (waiting \/ err) /\ UNCHANGED dirty

(* What a call that may write the workflow leaves alone. *)
OtherThanWorkflow == <<jobStore, now, caches, history, restarts>>

SyncIgnored ==
    /\ pc = "sync"
    /\ \/ wfCache = Nil
       \/ wfCache # Nil /\ wfCache.defaulted /\ wfCache.valid /\ wfCache.deleting
    /\ Return(FALSE)
    /\ UNCHANGED <<clusterVars, restarts>>

SyncDefault ==
    /\ pc = "sync"
    /\ wfCache # Nil
    /\ ~wfCache.defaulted
    /\ updateWorkflow([wfCache EXCEPT !.defaulted = TRUE])
    /\ Return(FALSE)
    /\ UNCHANGED OtherThanWorkflow

MutantSyncInvalid ==
    /\ pc = "sync"
    /\ wfCache # Nil
    /\ wfCache.defaulted
    /\ ~wfCache.valid
    /\ Return(FALSE)
    /\ UNCHANGED <<clusterVars, restarts>>

(* An invalid workflow is deleted, RemoveInvalidWorkflow being TRUE. *)
SyncInvalid ==
    /\ pc = "sync"
    /\ wfCache # Nil
    /\ wfCache.defaulted
    /\ ~wfCache.valid
    /\ \E err \in BOOLEAN : deleteWorkflow(err) /\ Return(err)
    /\ UNCHANGED OtherThanWorkflow

(* The cached workflow has passed sync's first checks. *)
SyncProceeds ==
    /\ pc = "sync"
    /\ wfCache # Nil
    /\ wfCache.defaulted /\ wfCache.valid /\ ~wfCache.deleting

SyncStart ==
    /\ SyncProceeds
    /\ wfCache.start = Nil
    /\ updateWorkflow([wfCache EXCEPT !.status = NoStatus, !.start = now])
    /\ Return(FALSE)
    /\ UNCHANGED OtherThanWorkflow

(* The jobs that deleteJobsFromLabelSelector lists and does not skip. *)
JobsToDelete(o) ==
    {j \in jobCache : /\ Matches(inferrWorkflowLabelSelectorForJobs(o), j.labels)
                      /\ ~IsJobFinished(j)}

(* The deadline has passed: the workflow fails, then its jobs are deleted. *)
SyncDeadline ==
    /\ SyncProceeds
    /\ wfCache.start # Nil
    /\ pastActiveDeadline(wfCache, began)
    /\ updateWorkflow(WithCondition(wfCache, "Failed"))
    /\ todo' = JobsToDelete(wfCache)
    /\ pc' = "cleanup"
    /\ UNCHANGED <<OtherThanWorkflow, queue, local, began, i, toBeUpdated, complete,
                   cleanupErr>>

(* One job of the list is deleted, with foreground propagation; an error     *)
(* does not stop the loop.                                                   *)
DeleteJob(j) ==
    /\ pc = "cleanup"
    /\ todo' = todo \ {j}
    /\ \/ /\ NoFault
          /\ \E x \in jobs :
                /\ x.id = j.id
                /\ IF x.deleting THEN UNCHANGED <<jobs, jobWatch>>
                                 ELSE WriteJob([x EXCEPT !.deleting = TRUE])
          /\ UNCHANGED cleanupErr
       \/ /\ Fault \/ (NoFault /\ \A x \in jobs : x.id # j.id)
          /\ UNCHANGED <<jobs, jobWatch>>
          /\ cleanupErr' = TRUE
    /\ UNCHANGED <<wfStore, jobCount, now, caches, history, queue,
                   pc, local, began, i, toBeUpdated, complete, restarts>>

MutantCleanupReturns ==
    /\ pc = "cleanup"
    /\ todo = {}
    /\ Return(FALSE)
    /\ UNCHANGED <<clusterVars, restarts>>

CleanupReturns ==
    /\ pc = "cleanup"
    /\ todo = {}
    /\ Return(cleanupErr)
    /\ UNCHANGED <<clusterVars, restarts>>

SyncManage ==
    /\ SyncProceeds
    /\ wfCache.start # Nil
    /\ ~pastActiveDeadline(wfCache, began)
    /\ pc' = "manage"
    /\ local' = wfCache
    /\ UNCHANGED <<clusterVars, queue, began, i, toBeUpdated, complete, cleanup, restarts>>

--------------------------------------------------------------------------------
(* manageWorkflow's loop, one action per outcome of a step.                  *)

CurrentStep == StepSeq[i]

AtStep == pc = "manage" /\ i <= Len(StepSeq) /\ i' = i + 1

MutantAtPendingStep ==
    AtStep /\ local.status[CurrentStep] # "complete" /\ UNCHANGED complete

(* The step is not known to be complete, so the workflow is not. *)
AtPendingStep ==
    AtStep /\ local.status[CurrentStep] # "complete" /\ complete' = FALSE

StepComplete ==
    /\ AtStep
    /\ local.status[CurrentStep] = "complete"
    /\ UNCHANGED <<clusterVars, queue, pc, local, began, toBeUpdated, complete, cleanup,
                   restarts>>

(* manageWorkflowReferenceStep does nothing and asks for an update. *)
StepExternal ==
    /\ AtPendingStep
    /\ CurrentStep \in ExternalSteps
    /\ toBeUpdated' = TRUE
    /\ UNCHANGED <<clusterVars, queue, pc, local, began, cleanup, restarts>>

MutantDependenciesSatisfied(o, s) == \A d \in Deps[s] : o.status[d] # "none"

DependenciesSatisfied(o, s) == \A d \in Deps[s] : o.status[d] = "complete"

StepBlocked ==
    /\ AtPendingStep
    /\ CurrentStep \notin ExternalSteps
    /\ ~DependenciesSatisfied(local, CurrentStep)
    /\ UNCHANGED <<clusterVars, queue, pc, local, began, toBeUpdated, cleanup, restarts>>

MutantRetrieveJobsStep(o, s) ==
    {j \in jobCache : /\ Matches(getJobLabelsSetFromWorkflow(o, s), j.labels)
                      /\ ~IsJobFinished(j)}

(* The jobs of the cache that carry all the labels the step's job has. *)
retrieveJobsStep(o, s) ==
    {j \in jobCache : Matches(getJobLabelsSetFromWorkflow(o, s), j.labels)}

WithStepLabels(o, s) == [o EXCEPT !.sel = getJobLabelsSetFromWorkflow(o, s)]

(* manageWorkflowJobStep has found these jobs for the step. *)
AtReadyStep(found) ==
    /\ AtPendingStep
    /\ CurrentStep \notin ExternalSteps
    /\ DependenciesSatisfied(local, CurrentStep)
    /\ found = retrieveJobsStep(local, CurrentStep)

MutantNewJob(o, s) ==
    [id |-> jobCount + 1, uid |-> 0,
     labels |-> getJobLabelsSetFromWorkflow(o, s),
     finished |-> FALSE, deleting |-> FALSE]

(* CreateJobFromWorkflow's job; its owner reference is the workflow. *)
NewJob(o, s) ==
    [id |-> jobCount + 1, uid |-> o.uid,
     labels |-> getJobLabelsSetFromWorkflow(o, s),
     finished |-> FALSE, deleting |-> FALSE]

(* The job is created; the reply may be lost, which is an error. *)
StepCreateJob ==
    /\ AtReadyStep({})
    /\ jobCount < MaxJobs
    /\ WriteJob(NewJob(local, CurrentStep))
    /\ jobCount' = jobCount + 1
    /\ local' = WithStepLabels(local, CurrentStep)
    /\ \/ NoFault /\ toBeUpdated' = TRUE /\ UNCHANGED dirty
       \/ Fault /\ UNCHANGED toBeUpdated /\ Enqueue
    /\ UNCHANGED <<wfStore, now, caches, history, waiting, pc, began, cleanup, restarts>>

(* The call fails, or the API server refuses another job. *)
StepCreateFails ==
    /\ AtReadyStep({})
    /\ Fault \/ (jobCount = MaxJobs /\ NoFault)
    /\ local' = WithStepLabels(local, CurrentStep)
    /\ Enqueue
    /\ UNCHANGED <<wfStore, jobStore, now, caches, history, waiting, pc, began,
                   toBeUpdated, cleanup, restarts>>

(* The step's only job gives the step its status. *)
StepObserveJob ==
    \E j \in jobCache :
        /\ AtReadyStep({j})
        /\ local' = [WithStepLabels(local, CurrentStep) EXCEPT !.status[CurrentStep] =
                        IF IsJobFinished(j) THEN "complete" ELSE "running"]
        /\ toBeUpdated' = (\/ toBeUpdated
                           \/ local.status[CurrentStep] = "none"
                           \/ IsJobFinished(j))
        /\ UNCHANGED <<clusterVars, queue, pc, began, cleanup, restarts>>

(* "too many jobs reported... Need reconciliation": nothing is done. *)
StepTooManyJobs ==
    \E found \in SUBSET jobCache :
        /\ Cardinality(found) > 1
        /\ AtReadyStep(found)
        /\ local' = WithStepLabels(local, CurrentStep)
        /\ UNCHANGED <<clusterVars, queue, pc, began, toBeUpdated, cleanup, restarts>>

(* The loop is over: the Complete condition, and the update. *)
FinishManage ==
    /\ pc = "manage"
    /\ i > Len(StepSeq)
    /\ \/ complete /\ updateWorkflow(WithCondition(local, "Complete"))
       \/ ~complete /\ toBeUpdated /\ updateWorkflow(local)
       \/ ~complete /\ ~toBeUpdated /\ UNCHANGED <<wfStore, faults>>
    /\ Return(FALSE)
    /\ UNCHANGED OtherThanWorkflow

--------------------------------------------------------------------------------

(* The controller's process dies and a new one starts. *)
Restart ==
    /\ restarts < MaxRestarts
    /\ restarts' = restarts + 1
    /\ dirty' = FALSE
    /\ waiting' = FALSE
    /\ ResetWorker
    /\ Relist

Init ==
    /\ ClusterInit
    /\ dirty = FALSE /\ waiting = FALSE
    /\ pc = "idle" /\ local = Nil /\ began = 0 /\ i = 1
    /\ toBeUpdated = FALSE /\ complete = TRUE /\ todo = {} /\ cleanupErr = FALSE
    /\ restarts = 0

Outside(A) == A /\ UNCHANGED <<queue, worker, restarts>>

Surroundings ==
    \/ Outside(Environment)
    \/ Outside(CacheWorkflow) \/ Outside(CacheJob) \/ Outside(Resync)

Handlers == onAddWorkflow \/ onUpdateWorkflow \/ onDeleteWorkflow \/ onJobEvent

sync ==
    \/ SyncIgnored \/ SyncDefault \/ SyncInvalid \/ SyncStart
    \/ SyncDeadline \/ (\E j \in todo : DeleteJob(j)) \/ CleanupReturns
    \/ SyncManage

manageWorkflow ==
    \/ StepComplete \/ StepExternal \/ StepBlocked
    \/ StepCreateJob \/ StepCreateFails \/ StepObserveJob \/ StepTooManyJobs
    \/ FinishManage

Worker == GetItem \/ sync \/ manageWorkflow

Next == Surroundings \/ Handlers \/ RetryFires \/ Worker \/ Restart

Spec == Init /\ [][Next]_vars

(* Time passes, the informers deliver, handlers and worker are goroutines    *)
(* that get to run.  (SF because a resync's notification may use up MaxLag;  *)
(* no such limit exists in the code.)  Nothing is asked of users or jobs.    *)
Fairness ==
    /\ WF_vars(Outside(Tick))
    /\ SF_vars(Outside(CacheWorkflow))
    /\ WF_vars(Outside(CacheJob))
    /\ WF_vars(Outside(Resync))
    /\ WF_vars(onAddWorkflow \/ onUpdateWorkflow \/ onDeleteWorkflow)
    /\ WF_vars(onJobEvent)
    /\ WF_vars(RetryFires)
    /\ WF_vars(Worker)

FairSpec == Spec /\ Fairness

--------------------------------------------------------------------------------
(* Properties.                                                               *)

(* Type invariant of the controller and of the cluster around it. *)
TypeOK ==
    /\ ClusterTypeOK
    /\ dirty \in BOOLEAN /\ waiting \in BOOLEAN
    /\ pc \in {"idle", "sync", "manage", "cleanup"}
    /\ local \in Workflow \cup {Nil}
    /\ pc = "manage" => local \in Workflow
    /\ began \in Nat
    /\ i \in 1..(Len(StepSeq) + 1)
    /\ toBeUpdated \in BOOLEAN /\ complete \in BOOLEAN
    /\ todo \subseteq Job
    /\ cleanupErr \in BOOLEAN
    /\ restarts \in Nat

(* The steps some job of which has finished. *)
StepsRun == {r[1] : r \in ran}

(* Dependencies are honoured although every decision is taken on stale       *)
(* copies of the workflow and of its jobs: no job exists for a step before a *)
(* job of each of its dependencies has finished (manageWorkflowJobStep).     *)
DependencyOrder ==
    \A j \in jobs : Deps[Step(j)] \subseteq StepsRun

(* The published status never runs ahead of the jobs: a step reported        *)
(* complete has had a job that finished, and a workflow with the Complete    *)
(* condition has had one for every step (manageWorkflow, updateWorkflow).    *)
StatusSound ==
    wf # Nil =>
        /\ \A s \in Steps : wf.status[s] = "complete" => s \in StepsRun
        /\ (\E k \in DOMAIN wf.conds : wf.conds[k] = "Complete")
              => \A s \in Steps : wf.status[s] = "complete"

(* The published status is closed under dependencies, whichever passes       *)
(* contributed to it and whichever updates were lost: a step has a status    *)
(* only when all its dependencies are complete.                              *)
StatusClosed ==
    wf # Nil =>
        \A s \in Steps : wf.status[s] # "none" =>
            \A d \in Deps[s] : wf.status[d] = "complete"

(* Whether the templates carry the same labels; mostly they carry none.      *)
SameTemplates == \A s, t \in Steps : TemplateLabels[s] = TemplateLabels[t]

(* The labels that the job of a step has with the selector the user wrote.   *)
StepLabels(s) == Merge(Merge(UserSelector, TemplateLabels[s]), OwnLabels(s))

(* What holds of every copy of the workflow, and of every copy of a job,     *)
(* R being the steps that have run.                                          *)
SoundWorkflow(R, o) ==
    /\ \A s \in Steps : o.status[s] = "complete" => s \in R
    /\ \A s \in Steps : o.status[s] # "none" =>
          \A d \in Deps[s] : o.status[d] = "complete"
    /\ (\E k \in DOMAIN o.conds : o.conds[k] = "Complete")
          => \A s \in Steps : o.status[s] = "complete"
    /\ o.start = Nil => o.conds = <<>>

SoundJob(R, j) ==
    /\ Deps[Step(j)] \subseteq R
    /\ j.finished => Step(j) \in R

WorkflowsSound ==
    /\ wf # Nil => SoundWorkflow(StepsRun, wf)
    /\ wfCache # Nil => SoundWorkflow(StepsRun, wfCache)
    /\ \A k \in 1..Len(wfWatch) : SoundWorkflow(StepsRun, wfWatch[k].obj)

JobsSound ==
    /\ \A j \in jobs \cup jobCache : SoundJob(StepsRun, j)
    /\ \A k \in 1..Len(jobWatch) : SoundJob(StepsRun, jobWatch[k].obj)

WorkerSound ==
    IF pc # "manage" THEN i = 1
    ELSE /\ SoundWorkflow(StepsRun, local)
         /\ local.start # Nil
         /\ complete => \A k \in 1..(i - 1) : local.status[StepSeq[k]] = "complete"

(* The controller only ever decides on sound data: the copies in the store,  *)
(* in the watch, in the caches and in the worker's hands may be of different *)
(* ages and contradict each other, but each is right about what has run.     *)
(* With TypeOK it is inductive, and implies the three properties above.      *)
CopiesSound == WorkflowsSound /\ JobsSound /\ WorkerSound

Rank(st) == [none |-> 0, running |-> 1, complete |-> 2][st]

(* No write moves a workflow's published status backwards, although sync     *)
(* computes it from a cached copy and updateWorkflow rewrites the whole      *)
(* object: step statuses only advance, the start time is set once,           *)
(* conditions are only added.                                                *)
StatusMonotone ==
    [][ (wf # Nil /\ wf' # Nil /\ wf'.uid = wf.uid) =>
          /\ \A s \in Steps : Rank(wf.status[s]) <= Rank(wf'.status[s])
          /\ wf.start # Nil => wf'.start = wf.start
          /\ Len(wf.conds) <= Len(wf'.conds)
          /\ \A k \in DOMAIN wf.conds : wf'.conds[k] = wf.conds[k] ]_vars

(* A pass of sync that begins at or after the deadline of the workflow       *)
(* creates no job for it, however old the copy it works on.                  *)
NoJobAfterDeadline ==
    [][ (jobCount' > jobCount /\ wf # Nil /\ wf.uid = local.uid
           /\ wf.start # Nil /\ Deadline # Nil)
          => began < wf.start + Deadline ]_vars

(* As long as nobody else removes jobs, a workflow with the Complete         *)
(* condition gets no new job, even from a pass over a copy older than the    *)
(* condition.                                                                *)
NoJobAfterCompletion ==
    [][ (jobCount' > jobCount /\ edits = 0 /\ wf # Nil /\ wf.uid = local.uid)
          => \A k \in DOMAIN wf.conds : wf.conds[k] # "Complete" ]_vars

(* Nothing is on its way to the worker. *)
Quiescent ==
    /\ pc = "idle" /\ ~dirty /\ ~waiting
    /\ wfWatch = <<>> /\ jobWatch = <<>> /\ wfNotes = <<>> /\ jobNotes = <<>>

DuplicateJobs == \E j, k \in jobs : j # k /\ Step(j) = Step(k)

(* A swallowed update conflict loses nothing: as long as API calls do not    *)
(* fail and nobody removes jobs, the controller only falls silent on an      *)
(* unfinished workflow while one of its jobs is still to finish, or a step   *)
(* has several jobs, or is external.  It holds of steps that run one after   *)
(* another; see JobsObtained for those that run side by side.                *)
NoLostWakeup ==
    (Quiescent /\ faults = 0 /\ edits = 0 /\ wf # Nil)
        => \/ IsWorkflowFinished(wf)
           \/ \E j \in jobs : ~j.finished
           \/ DuplicateJobs
           \/ ExternalSteps # {}

(* As long as users neither edit nor recreate the workflow (a deletion goes  *)
(* by name, on the word of an older copy), the controller removes it only if *)
(* it is invalid or was created with a status (sync, onAddWorkflow).         *)
OnlyBadWorkflowsRemoved ==
    [][ (wf # Nil /\ wf' = Nil /\ edits' = 0 /\ wf.uid = 1)
          => ~wf.valid \/ born[wf.uid].started ]_vars

(* When the cache shows a job that the controller created for a step of the  *)
(* workflow, no other job is created for that step (retrieveJobsStep).       *)
CachedJobIsSeen ==
    [][ jobCount' > jobCount
          => \A j \in jobCache : j.uid = local.uid => Step(j) # CurrentStep ]_vars

(* With a deadline, a valid workflow finishes, whatever its jobs do, unless  *)
(* it is removed: neither the lost updates nor the lack of a timer for the   *)
(* deadline keep the worker from it for ever (onUpdateWorkflow, sync).       *)
EventuallyFinished ==
    (wf # Nil /\ wf.valid) ~> (wf = Nil \/ IsWorkflowFinished(wf))

(* An invalid workflow is removed, even when calls fail (sync), unless it is  *)
(* finished, and its updates ignored, or waits for its finalizers.           *)
InvalidRemoved ==
    (wf # Nil /\ ~wf.valid)
        ~> (wf = Nil \/ wf.valid \/ wf.deleting \/ IsWorkflowFinished(wf))

HasFailed == wf # Nil /\ \E k \in DOMAIN wf.conds : wf.conds[k] = "Failed"

(* When the deadline has failed a workflow, its jobs do not stay running,    *)
(* not even one created just before, which the pass that set the condition   *)
(* did not find in the cache (deleteWorkflowJobs).                           *)
FailedJobsStopped ==
    HasFailed ~> (wf = Nil \/ \A j \in jobs : j.finished \/ j.deleting)

================================================================================

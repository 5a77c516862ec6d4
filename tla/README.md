# TLA+ verification of the workflow controller

The repository is a Kubernetes operator: a `Workflow` custom resource lists steps
with dependencies, and the controller starts one batch `Job` per step when the
steps it depends on are complete. Two sibling resources run in the same process:
`DaemonSetJob` (one job per node) and `CronWorkflow` (workflows on a schedule).

This directory holds TLA+ modules translated from the code, TLC configurations
that check them on small instances, and TLAPS proofs of every safety property that
the passing configurations check.

    cd tla
    tlasany MCWorkflowController.tla
    tlc -workers 2 -config faults.cfg MCWorkflowController
    tlc -workers 2 -config cron.cfg MCCronWorkflow
    for m in *Proofs.tla; do tlapm $m; done

`PROJECT.json` lists the components, the runs, the source lines behind each
definition, the hazards and the properties that cover them, and, for every
property of a passing run, a mutated definition under which TLC refutes it.

## 1. Inventory

| Component | Code | State it keeps | Operations | Module |
|---|---|---|---|---|
| Workflow controller | `pkg/controller/workflow.go`, `controller_util.go`, `common.go`, `job_control.go` | work queue; nothing else between passes | `onAdd/Update/DeleteWorkflow`, `onAdd/Update/DeleteJob`, `processNextItem`, `sync`, `manageWorkflow`, `manageWorkflowJobStep`, `deleteWorkflowJobs`, `updateWorkflow`, `deleteWorkflow` | `WorkflowController`; what it promises: `WorkflowExecution` |
| API server, users, Job controller, nodes | outside the repository | workflows, DaemonSetJobs, jobs, nodes | create, update, delete, finish | `Cluster`, `DaemonSetJobCluster` |
| Shared informers | vendored `client-go/tools/cache` | caches, pending notifications | deliver, resync, list | `Cluster`, `DaemonSetJobController` |
| Work queue | vendored `client-go/util/workqueue` | dirty / processing sets, delayed keys | `Add`, `Get`, `Done`, `AddRateLimited` | flags of the controllers |
| Workflow API | `pkg/api/workflow/v1`, `pkg/api/common` | – | validation, update validation, defaulting | `WorkflowValidation`, `SharedObjects` |
| Garbage collectors | `pkg/garbagecollector` | one round's list | `CollectWorkflowJobs`, `CollectDaemonSetJobJobs`, every 10 s | `GarbageCollector`, composed in `WorkflowSystem`, `DaemonSetJobSystem` |
| DaemonSetJob controller | `pkg/controller/daemonsetjob.go`, `job_control.go` | work queue | handlers of DaemonSetJobs, jobs and nodes, `sync`, `manageDaemonSetJob` | `DaemonSetJobController` |
| CronWorkflow controller | `pkg/controller/cronworkflow.go`, `cronworkflow_util.go` | none (`LastScheduleTime` is never written) | `syncAll`, `syncOne`, `getRecentUnmetScheduleTimes` | `CronWorkflow` |
| Process, CRD registration | `app`, `main.go`, `pkg/client/client.go`, informer factories | informers, contexts | define resources, build, start, signal, exit | `Process` |
| Deep copies and listers | `zz_generated.deepcopy.go`, `listers` | – | `DeepCopy`, `Get` | `SharedObjects` |
| kubectl plugin, e2e tests, typed clients | `kubectl-plugin`, `test/e2e`, `clientset` | – | – | not modelled: printing, tests, request building |

How they interact. Controllers never talk to each other. Each one writes to the
API server and learns what it and the others wrote through its informers: a watch
event updates a local cache, then a notification reaches a handler, and the
handler puts a key into the work queue. One worker goroutine takes keys and runs
`sync`, which reads **only the caches** and writes **only the API server**. The
garbage collectors run beside them on their own timers and read both; the
CronWorkflow controller has no informer and lists everything every 10 seconds.
Inside the process they share the cached objects, which nobody may write to.

What is hard here, and what each component must get right:

* *Workflow controller.* Every decision is taken on copies that may be old, and of
  different ages from one another. Update conflicts are swallowed
  (`updateWorkflow` returns nil), there are no expectations (commented out), the
  deadline has no timer, and one object's label map is changed in place by a
  helper. It must honour dependencies, publish only statuses that are true and
  that never go back, not forget an unfinished workflow, stop at the deadline, and
  remove only workflows that deserve it.
* *Informers and queue.* Notifications lag behind the caches; a key marked while it
  is processed must be processed again; a restart empties the queue and replays
  everything as additions.
* *Garbage collectors.* They check a cache, then the live object, then delete by
  label: no owner they could have known of may lose its jobs; a failed deletion
  must be made good by a later round.
* *DaemonSetJob controller.* One job per matching node while nodes, templates and
  jobs change; counts and conditions that agree; a new template must get through
  although updates of a finished DaemonSetJob are ignored.
* *CronWorkflow controller.* No schedule time skipped or run twice, across failures,
  restarts and a second controller, with the bound of 100 missed times.
* *Validation.* Accept exactly acyclic, closed, well-formed step lists; protect
  started steps from updates.
* *Process.* A CRD taken back deletes every object of its kind, and stays there,
  Terminating, until they are gone; whatever two processes and failing calls do, what
  is served must be worked on in the end.
* *Memory.* `sync` merges labels, sets defaults and appends in place: only to copies.

The full list of places where such things can go wrong, each with its line, is
under `hazards` in `PROJECT.json`.

## 2. The modules

| Module | Is |
|---|---|
| `Labels` | label maps and selectors, shared by the two clusters |
| `Cluster` | what the Workflow controller meets |
| `WorkflowController` | EXTENDS `Cluster` with queue, worker and handlers; its properties |
| `WorkflowExecution` | the abstract specification: what a reader of the workflow may see |
| `WorkflowRefinement` | the refinement mapping and `ImplementsExecution` |
| `GarbageCollector` | one round of a collector, over owners' names; both collectors are the same code |
| `WorkflowSystem` | EXTENDS `WorkflowController`, INSTANCEs `GarbageCollector` on its jobs |
| `DaemonSetJobCluster`, `DaemonSetJobController`, `DaemonSetJobSystem` | the same three for DaemonSetJobs |
| `CronWorkflow` | the CronWorkflow controllers and their API server |
| `Process` | CRDs, construction, start, stop |
| `SharedObjects` | the heap behind the caches |
| `WorkflowValidation` | validation, standing alone: `WorkflowController` keeps of it only whether it accepts |
| `MC...` | values of the constants for TLC |
| `WorkflowWakeup` | what keeps the Workflow controller awake: the inductive invariant `WakeInv`; added to the invariants of `faults.cfg`, TLC checks it on that instance |
| `DaemonSetJobWakeup` | the same of the DaemonSetJob controller: `ReconcileInv`, which TLC checks when added to the invariants of `nodes.cfg`, as it is and with `MaxFaults = 1`, `MaxRestarts = 0` |
| `WorkflowControllerProofs`, `WorkflowRefinementProofs`, `WorkflowWakeupProofs` | proofs about the Workflow controller: types, copies, labels, jobs and removals; versions, the refinement, and `WorkflowSystem`; wakeups |
| `WorkflowValidationProofs`, `DaemonSetJobProofs`, `CronWorkflowProofs`, `ProcessProofs`, `SharedObjectsProofs` | proofs about the others; `DaemonSetJobProofs` includes the collector |

### Cluster: state and actions

One workflow key (namespace/name) is modelled, with all jobs of its namespace.

| Variable | Stands for |
|---|---|
| `wf`, `jobs`, `now` | the stored workflow, the stored jobs, the clock |
| `wfWatch`, `jobWatch` | events written by the API server and not yet in the caches (reflector + DeltaFIFO) |
| `wfCache`, `jobCache` | the indexers behind `WorkflowLister` and `JobLister` |
| `wfNotes`, `jobNotes` | notifications in the listeners' buffers; each informer has its own, in order |
| `unsynced` | what `WaitForCacheSync` still waits for |
| `ran`, `born` | history: which steps have had a job that finished; how each workflow was submitted |

The writes are those of the API server: `WriteWorkflow` gives each version its own
ResourceVersion, `UpdateAccepted` is optimistic concurrency, and an update that
changes nothing writes nothing. Users create, edit and delete (`UserCreate`,
`UserEdit`, `UserDelete`, `Finalize`); the Job controller finishes jobs and removes
those being deleted (`JobFinishes`, `JobGone`); `Tick` is the clock.
`CacheWorkflow`, `CacheJob`, `Resync` and `Relist` follow client-go.

A workflow carries what the controller's behaviour depends on: whether it is
defaulted, valid and being deleted, its start time, its selector, the status of
each step and the types of its conditions. Steps, dependencies, templates and the
deadline are constants: the code never changes them and no property here is about
a user changing them. Completion times and the job references of a status are left
out, because nothing in the controller reads them.

### WorkflowController: state and actions

| Code | Here |
|---|---|
| `onAddWorkflow`, `onUpdateWorkflow`, `onDeleteWorkflow` | actions of the same name, on the head of `wfNotes` |
| `onAddJob`, `onUpdateJob`, `onDeleteJob` | `onJobEvent`: all three look the workflow up by selector in the cache and enqueue it |
| the queue's dirty set, `AddRateLimited` | `dirty`, `waiting`, `RetryFires`; `processing` is `pc # "idle"` |
| `processNextItem` | `GetItem`, and `Return(err)` |
| `sync` | `SyncIgnored`, `SyncDefault`, `SyncInvalid`, `SyncStart`, `SyncDeadline`, `SyncManage`: one per way through it |
| `deleteJobsFromLabelSelector` | `todo` and `DeleteJob`, one API call per step; `CleanupReturns` |
| `manageWorkflow`'s loop | `pc = "manage"`, position `i`, one action per outcome of a step: `StepComplete`, `StepExternal`, `StepBlocked`, `StepCreateJob`, `StepCreateFails`, `StepObserveJob`, `StepTooManyJobs`; then `FinishManage` |
| `getJobLabelsSetFromWorkflow` | operator of the same name; since the Go map it returns *is* the workflow's selector, the `Step...` actions store it back into `local` (`WithStepLabels`) |

Between two steps of a pass anything may happen in the cluster and the informers:
each action makes at most one API call. Where an action joins a read of a cache to
the call that follows it, no step in between could change the outcome: a change of
the store after the read is the same as one before it that the cache does not show
yet, and a delivery after the read the same as one after the call. The workflow is
read once per pass (`local`, the deep copy), jobs are listed anew for each step.

### WorkflowExecution and the refinement

`WorkflowExecution` has no cache, queue, pass, version or fault: a workflow is
submitted and removed, steps end, each after those it depends on, and the published
report advances, truthfully, closed under dependencies, with `Complete` only when
everything is complete and conditions that are only ever appended. The mapping takes
`done` to `StepsRun` and the report to the stored workflow's statuses and conditions;
`ImplementsExecution` says that every step of the controller is one of these or a
stutter.

### GarbageCollector and its compositions

| Code | Here |
|---|---|
| `runGCs`: `WaitForCacheSync`, `wait.Until` | `gcpc = "start"`, `CacheSynced` |
| the list of labelled jobs of all namespaces | `ListJobs`, in any order; `ListFails` |
| label empty, owner collected already, owner in the lister | `SkipItem` |
| owner not in the lister; the live `Get` | `LookInCache`; `OwnerNotFound`, `OwnerNotMissing` |
| `DeleteCollection` | `DeleteCollection`; `DeleteCollectionFails` after deleting any part |

The collector sees owners as names. `WorkflowSystem` and `DaemonSetJobSystem` give it
the stored object, the cache and the jobs of their controller, so that every state
between its `Get` and its deletion is one the controller, the users and the informers
may act in. Restarts, which take both, are in `DaemonSetJobSystem`; in `WorkflowSystem`,
where `OnlyBadWorkflowsRemoved` would not survive them (`v_restart`), they are left out.

### DaemonSetJobCluster and DaemonSetJobController

The cluster has one DaemonSetJob, jobs of all namespaces, nodes with the one label its
selector asks for (`pools`; `Nil` is a node that is not there), three watches and three
caches. A job carries its node, the template it was made from (the MD5 annotation),
status and owner.

| Code | Here |
|---|---|
| `onAdd/Update/DeleteDaemonSetJob`, `onAdd/Update/DeleteJob` | actions, with the change of the cache |
| `onAddNode`, `onUpdateNode`, `onDeleteNode` | `onNodeEvent`, and `NodeHeartbeat` for updates of a node's status |
| `sync` | `SyncIgnored`, `SyncDefault`, `SyncInvalid`, `SyncStart`, `SyncDeadline` (+ `CleanupJob`, `CleanupReturns`), `SyncManage` |
| `manageDaemonSetJob`: jobs by node, duplicates | `SyncManage` chooses which of several is listed first; `DeleteDuplicate` |
| the list of nodes, the loop over it | `ListNodes`; per node `CreateNodeJob`, `CreateNodeJobFails`, `KeepNodeJob`, `KeepOutdatedFailed`, `DeleteOutdatedSucceeded`, `PassOverOutdatedActive`, one call to the API server each |
| the loop over what the map still holds | `DeleteLeftover` |
| counts, conditions, update | `FinishManage`, with `WithStatus`, `WithCondition` |

The nodes of the lister and the leftovers of the map come in any order.
ResourceVersions are numbers modulo `Versions`, compared for equality only, so that
the periodic updates of a complete DaemonSetJob do not make the state infinite. The
condition and completion times are one field, `probe`, which decides whether such an
update changes anything.

### CronWorkflow

| Code | Here |
|---|---|
| `syncAll`: the two lists, the loop | `ListWorkflows`, `ListCronWorkflows`, `ListFails`, `EndRound` |
| `syncOne`: the active list and `Update` | `UpdateStatus`, with `StillActive`; a conflict, an error or a lost reply end it |
| suspended, being deleted, no or too many times | `StartNothing` |
| `getRecentUnmetScheduleTimes` | `EarliestTime`, `UnmetTimes`, `TooManyMissed` |
| `scheduledTime`, the last of the times | operator of the same name |
| the generated name, `CreateWorkflow` | `generatedName`, `CreateWorkflow`: created, refused, or failed |

A schedule is the set of times it fires at, `Nil` one that cannot be parsed or never
fires (the cron library is external). Workflows the controller creates carry no owner
reference, so that only workflows made by users (`Adopt`) are ever in the active list:
that is how the code behaves. `time` of a workflow is history.

### Process

Each process defines the three resources in order (`CreateResource`, `PollResource`,
`UndoResource`), builds (`Build`: which informer each constructor asks its factory for),
runs the statements of `Run` one by one (`RunStep`), and lives with its informers
(`InformerSyncs`), actors (`BeginWork`), signals and exit. Kubernetes starts it again
(`StartAgain`). `Observed` processes are followed through `Run`; the others are there
for what they do to the CRDs, which is all they share.

A CRD that is deleted stays for as long as its cleanup finalizer takes (`deleting`,
`Finalize`; the vendored API types define both). Until then `Create` answers
AlreadyExists, as it does for every CRD that is there, and `NewWorkflowControllerApp`
goes on. `passed` is history: the CRDs that a process took for defined in that way.

### SharedObjects

An object is a function from its pointer fields to cells of a heap. `DeepCopy` gives
new cells, assignment replaces a cell, a map or slice write changes the cell in place,
and everything the code does to memory is one of the three. `cached` is the lister's
object, `shared` the one `sync` was given, `local` its copy. The informer may replace
`cached` between any two writes. Passes may begin at any time, the informer skips
to the stored version, and updates that only renew times count as none: the properties
do not see the difference.

### WorkflowValidation: state and actions

One behaviour validates one request: a workflow alone (`ValidateWorkflow`), or an
update against the workflow it replaces (`ValidateWorkflowUpdate`).

| Code | Here |
|---|---|
| `ValidateWorkflow`, `ValidateWorkflowSpec` | `ValidateSpec`, with `SpecErrors` |
| `topologicalSort`: the loop over the sorted keys | `VisitRoot`, `SortReturns`; `SortedNames` is the order of `sort.Strings` |
| its recursive closure `visit` | a stack of calls, each with its step and the dependency it visits next: `VisitUnknown`, `VisitTemporary`, `VisitPermanent`, `VisitNew`, `Leave`, and `Unwind` for the returns after a cycle was found |
| `temporary`, `permanent`, `sorted`, `isCyclic`, `cycleStart`, `cycle` | variables of the same names |
| the loop over the steps, `ValidateJobTemplateSpec`, `validateJobSpec` | `CheckSteps`, with `StepErrors` |
| `ValidateWorkflowUpdate`, `getWorkflowUnmodifiableSteps`, `ValidateWorkflowSpecUpdate` | `RefuseCompleted`; `CompareSteps`, with `Running`, `Completed`, `Modified`, `FirstOf` (the function returns at the first removed step that has started), `UpdateErrors` |

Errors are a set of kinds, one per rule; their wording and paths are left out.
Steps compare by name, dependencies, template and reference. Two oddities of the
code are kept: `sorted` starts with as many empty names as there are steps (it is made
with a length and then appended to), and an empty name is both a possible step and
`visit`'s "no cycle start", so that a cycle through a step without a name is found
but not reported whole (`CycleReported` says when). An update with more steps than the
old workflow reads past the end of a slice: `pc = "panic"`.
`pkg/api/workflow/validation` is the same code a second time, with unit tests of its own
(`topologicalSort`, `ValidateWorkflow`); the controllers call the one in `v1`. Some
definitions are mapped to the one copy and some to the other.

### Modelling choices

* **Faults** are requests that fail before they take effect; creations, and updates
  where the caller can tell the difference, may also succeed and have their reply
  lost. Errors of `GetReference` and of label parsing are not modelled: they depend on
  the scheme, not on the run.
* **Conflicts** are not faults: they follow from versions. Both leave `updateWorkflow`
  returning nil, as in the code.
* **Restart** loses queue, retries and the pass in progress, and the new informers
  list the current objects, jobs in any order. A list served from a stale API
  server cache is not modelled.
* **Resync** re-notifies the cached workflow; the job informer's resync carries an
  unchanged ResourceVersion, which `onUpdateJob` drops, so it is left out.
* **Deletion of jobs** is foreground: marked first (`deleting`), gone later.
* **Undefaulted and invalid** are attributes users choose in the controllers' modules.
* In `DaemonSetJobController` a handler runs together with the change of its cache; the
  delay between the two, which `WorkflowController` has, only lets the worker see a
  cache before its key is queued, and is left out to keep nodes, jobs and DaemonSetJob
  together within reach.
* Selectors are always present: validation requires one. A cached workflow without
  one makes `getWorkflowsFromJob` dereference nil (`workflow.go:434`); the same holds for
  tombstones in `onDeleteJob` (`workflow.go:395`), an empty selector map
  (`controller_util.go:81`) and a DaemonSetJob without template (`daemonsetjob.go:292`).
  All are listed as hazards; the crash itself is `Restart`.

## 3. The properties and the runs

| Run | Instance | Properties | What it shows |
|---|---|---|---|
| `faults` | steps a→b, up to three jobs, undefaulted at first, a failing call, a restart, a recreation | `TypeOK`, `NoLostWakeup`, `DependencyOrder`, `StatusSound`, `StatusClosed`, `CopiesSound`, `NoJobAfterCompletion`, `CachedJobIsSeen`, `StatusMonotone`, `ImplementsExecution` | stale copies, swallowed conflicts, failing calls, lost replies and a restart break neither dependencies nor the truth and the advance of the published status; a completed workflow gets no job although there is quota for one; no unfinished workflow falls asleep; the controller implements `WorkflowExecution` |
| `live` | a step with a job and an external one, deadline, good and invalid workflows, a failing call, fair | `NoJobAfterDeadline`, `EventuallyFinished`, `FailedJobsStopped` | the deadline fails the workflow although nothing but the resync wakes the worker, the job is stopped even when it was created a moment before, and no pass begun at or after the deadline creates one |
| `removal` | controller and collector, one step with up to two jobs, good and invalid workflows, an edit, a failing call, fair | `OnlyBadWorkflowsRemoved`, `InvalidRemoved`, `OrphansCollected` | while the controller runs it removes only what is invalid; what is invalid goes in the end, and so do the jobs a removed workflow leaves, when a deletion takes only one of two and when one is created late |
| `validation` | every graph of three steps (missing, repeated and empty names), steps of every kind, updates of up to two steps to up to three | `TypeOK`, `VerdictRight`, `DependenciesFirst`, `CycleReported`, `RecursionBounded`, `UpdateKeepsStarted` | a graph is refused exactly when it is not closed and acyclic, a reported cycle is one, the recursion is bounded, and an accepted update touches no started step, wherever it moves it |
| `nodes` | two nodes, one change, two jobs, jobs that fail, a restart | `TypeOK`, `Reconciled`, `StatusConsistent` | once the controller is silent each matching node has one job and no other node has any, whatever was created twice from a stale cache; conditions, times and counts agree at all times |
| `dsjlive` | one node, a change to another template with a deadline, or to an invalid one, fair | `StatusCatchesUp`, `TemplateRollsOut`, `DeadlineStopsJobs` | lost updates are made up for; node events carry a new template to a DaemonSetJob whose own updates are ignored; the deadline stops everything |
| `gc` | one node, a job of another namespace under the same name, a DaemonSetJob recreated after a restart removed it, collector | `CollectsMissedOnly` | an owned job is collected only if its owner came after the API server's NotFound |
| `cron` | two controllers, plain, restored (with a starting deadline) and suspended CronWorkflows, an edit, a fault, fair | `TypeOK`, `StartedOnce`, `DueIsStarted`, `ActiveListSettles` | no time is started twice, each due time or a later one is started, with one time due or two, until they are too many; the active list is tidied |
| `process` | two processes, a fault, a signal, fair | `TypeOK`, `OwnDefinitionsUndone`, `AllWork` | a process only takes back definitions of its own; in the end every resource is served unless a process took a deleted one for defined, and all controllers and collectors work whose resources are served |
| `copies` | a workflow or a DaemonSetJob, an edit, a failing update, fair | `TypeOK`, `CacheUntouched`, `TemplateKept`, `DefaultsReachServer` | no write reaches a cached object, no stale update takes an edit back, defaults are stored in the end |

Two runs expect a violation; each is a statement of the repository that the code does
not keep (quotes in `PROJECT.json`, `findings`):

| Run | Property | Behaviour found |
|---|---|---|
| `v_active` | `ActiveJobsAwaited` | a job of an older template still runs; the loop passes it over "to wait that the job finished", its `continue` leaves it in the map, and the loop over the map deletes it |
| `v_restart` | `OnlyBadWorkflowsRemoved` | after a restart the initial list arrives as additions with a non-empty status: running, valid workflows are deleted |

The models show more of the kind, which the properties above step around and say so:

* A job just created that is not yet in the cache is created again (`workflow.go:503`);
  the step then stays in the "too many jobs" case. `NoLostWakeup` excepts it.
* A pod template label of one step stays in the shared selector map and hides the cached
  job of the next (`controller_util.go:79`). `CachedJobIsSeen` holds for templates
  without labels, which `faults` has.
* The persisted selector names the last step looked at: events of other running steps'
  jobs find no workflow, so that only the resync, every 30 seconds, notices that they have
  finished, and the cleanup at the deadline leaves their jobs running (`workflow.go:565`).
  `NoLostWakeup` is false of two steps without dependencies (`Deps <- NoDeps` in `faults.cfg`
  shows it), and is checked and proved of steps that run one after another;
  `FailedJobsStopped` is checked with one step that has jobs.
* A finished workflow that is enqueued once more gets a second `Complete` condition
  (`workflow.go:475`); `WorkflowExecution` therefore lets conditions repeat.
* A DaemonSetJob is `Complete` from its first pass on, which counts no job
  (`daemonsetjob.go:376`); failed jobs of an older template are never replaced
  (`daemonsetjob.go:342`); a recreated DaemonSetJob adopts its predecessor's jobs, also
  those on their way out, which is why `nodes` has one uid and `gc` is a run of its own.
* A CronWorkflow without a starting deadline stops for good after 100 times, missed or
  not (`cronworkflow_util.go:34`), because `LastScheduleTime` is never written; one that a
  user deletes the workflow of starts it again in the next round.
* A process that takes back a CRD (`client.go:71`) and starts again may be told
  AlreadyExists by the CRD that is still being deleted. It tolerates that
  (`workflow-controller.go:90`), the CRD goes, and nobody defines it again, although
  `config.go:39` has the process "install the CRDs used by the controller": the informers
  of that kind never sync. `AllWork` excepts these CRDs (`passed`) from being served in the
  end, and what waits for them from working.

### Bounds, and why they are enough

The `Max...` constants appear in the guards of what they bound.

* Two steps show every relation between steps the code has: it looks at one step and
  its dependencies at a time, and the selector goes from one step to the next.
* `MaxJobs` is a quota: beyond it the API server refuses, which is an outcome of
  creation (`StepCreateFails`, `CreateNodeJobFails`), so nothing is cut off. `faults` has
  three, one more than its steps need, so that a workflow can complete and still be given
  a job it must not get. Two allow each node its own, or one of them two, and in `removal`
  an owner two jobs, of which a deletion may take one.
* `MaxFinished` limits the finished jobs there are at a time; a further job runs on, which
  a job may always do. In `faults` two may have finished, what completion takes; in `removal`
  none, where no property asks. In the other runs it is no less than `MaxJobs`.
* The users' selector of `removal` has the labels of the step's jobs already, so that no pass
  changes it; selectors that grow are in `faults` and `live`.
* `MaxLag` limits how far a cache runs ahead of its handlers (workflows), or how many
  events of jobs and nodes that change by themselves are pending (DaemonSetJobs). What the
  controller itself writes is not bounded: the caches may be arbitrarily far behind the
  store. One notification in hand while another waits to be delivered is enough to run a
  handler against a newer cache.
* One failing call is enough to lose any one write of a pass, and the restart meets it
  in the same pass or in a later one. One edit allows a deletion and a recreation.
* `MaxConds` caps the list of conditions, which the code lets grow. `nodes` keeps three:
  `Complete` is there at most once and only the first `Failed` may be withdrawn, so that
  the third tells of a deadline for good (`ThreeConditions` in `DaemonSetJobProofs`) and later
  ones repeat it. The other runs, whose properties do not look at conditions, keep two.
* `Tick` stops at `MaxTime` unless a pending deadline still needs time, so the clock
  never blocks a deadline. In `faults`, which has no deadline, it stands still: of
  `StatusMonotone`, that the start time is set once is left to the theorem `StatusNeverFalls`.
* `cron` has the schedule 1, 2, 3 and `MissedLimit = 2`. One time is due at 1, two at 2, of
  which the later is to be started, and three are too many. The restored CronWorkflow has the
  schedule 1, 2 and a starting deadline of 2: at 3 the first time is dropped, and the second
  is met a second time by rounds that must not start it again. Schedules that cannot be
  parsed start nothing and are left to the theorems.
* Two nodes, one of them leaving or joining, give every case of the loop and its
  leftovers; two processes every race for a CRD.
* Three steps, one of them of each empty, repeated or missing name, give every shape on
  which the search can go wrong: self-loop, cycle of two and three, diamond, dead end,
  a cycle reached from outside.

`faults` checks deadlock: it cannot stop, because the resync always comes
back. The others do not: once the object is gone, the clock at its end or the verdict
given, the system of the model has nothing left to do.

### Fairness

Weak fairness only of goroutines and timers that run unconditionally while the process
lives, of the clock and of the API server's delivery:

* Workflows, in `live`: the clock, the informers' delivery and resync timer, each listener's
  handler, the rate limiter's delay, the worker. `removal` needs less: the delivery and the
  handlers of workflows, the delay, the worker and the collector's rounds.
  `CacheWorkflow` gets strong fairness because the bound `MaxLag`, which the code does
  not have, may disable it again and again when a resync takes the slot.
* DaemonSetJobs: the same, without the resync (finished objects are not resynced into
  the queue) but with the kubelets' heartbeats, which every node sends.
* CronWorkflows: the clock, and each controller's loop.
* Process: the API server establishes CRDs and finishes deletions, the main goroutine,
  informers and actors get to run, Kubernetes restarts what died.
* Memory: the informer delivers, an unfinished object is queued every 30 s by the resync,
  a pass returns.

Nothing is assumed of users, of jobs finishing, of API calls succeeding (their failures
are finite in number), or of a restart not happening within its budget.

## 4. What is proved

TLAPS proves the following for every value of the constants. The specification is that of
the module named, `SystemSpec` for a composed one; `[]P` is written for an invariant, `P` for
an action property. The assumptions on constants are typing facts that TLC evaluates in the
runs: labels contain the controller's keys, `StepSeq` lists `Steps`, `Nil` is not a number, nor
a workflow, a job, a report or a cell, nodes and the jobs at the start are finitely many. A hypothesis of a theorem beyond them is
in the last column.

| Of | Theorem | Statement | Hypothesis |
|---|---|---|---|
| `WorkflowController` | `TypeCorrect` | `[]TypeOK` | |
| | `CopiesAlwaysSound` | `[]CopiesSound` | |
| | `DependenciesHonoured` | `[]DependencyOrder` | |
| | `StatusAlwaysSound`, `StatusAlwaysClosed` | `[]StatusSound`, `[]StatusClosed` | |
| | `CopiesOrdered` | `[]VersionsAgree` | |
| | `StatusNeverFalls` | `StatusMonotone` | |
| | `NoJobAfterTheDeadline` | `NoJobAfterDeadline` | |
| | `JobOfCacheSeen` | `CachedJobIsSeen` | `SameTemplates` |
| | `CompletedWorkflowGetsNoJob` | `NoJobAfterCompletion` | `SameTemplates`, `Deadline = Nil` |
| | `WakeupsNotLost` | `[]NoLostWakeup` | `SameTemplates`, `Deadline = Nil`, `DepsAcyclic`, `OneReady`, `MaxConds # 0` |
| | `UnrestartedControllerRemovesBadOnly` | `OnlyBadWorkflowsRemoved` | `MaxRestarts = 0` |
| `WorkflowRefinement` | `ControllerImplementsExecution` | `ImplementsExecution` | |
| `WorkflowSystem` | `SystemCopiesSound` | `[](CopiesSound /\ DependencyOrder /\ StatusSound)` | |
| | `SystemKeepsStatus` | `StatusMonotone /\ NoJobAfterDeadline` | |
| | `SystemRemovesBadOnly` | `OnlyBadWorkflowsRemoved` | |
| | `SystemImplementsExecution` | `ImplementsExecution` | |
| `WorkflowValidation` | `ValidationTypeCorrect`, `SearchInvariant` | `[]TypeOK`, `[]SearchInv` | |
| | `SortVerdictRight`, `SortListsDependenciesFirst`, `SortRecursionBounded`, `ReportedCycleIsOne` | `[]VerdictRight`, `[]DependenciesFirst`, `[]RecursionBounded`, `[]CycleReported`: graphs of any size | |
| | `AcceptedUpdateKeepsStarted` | `[]UpdateKeepsStarted` | `ReplacesValid` |
| `DaemonSetJobController` | `DaemonSetJobTypeCorrect` | `[]TypeOK` | |
| | `StatusNeverContradicts` | `[]StatusConsistent` | `MaxConds >= 3` |
| | `SilentMeansReconciled` | `[]Reconciled` | `MaxUID = 1`, `NoNamesakes`, `SelectorFits`, `RestartsOrFaults` |
| `DaemonSetJobSystem` | `CollectorSparesOwned` | `CollectsMissedOnly` | `OthersJobs` |
| `CronWorkflow` | `CronTypeCorrect`, `NoTimeStartedTwice` | `[]TypeOK`, `[]StartedOnce` | |
| `Process` | `ProcessTypeCorrect`, `OnlyOwnDefinitionsUndone` | `[]TypeOK`, `OwnDefinitionsUndone` | |
| `SharedObjects` | `CopiesApart`, `ObjectsTypeCorrect`, `CacheNeverWritten`, `UserTemplateKept` | `[]ObjectsInv`, `[]TypeOK`, `[]CacheUntouched`, `[]TemplateKept` | |

Where a property is not inductive, this is what makes it so.

**Copies are true (`CopiesSound`).** Whether `StepCreateJob` honours the dependencies depends on
the status in the worker's `local`, which came from `wfCache`, which came from `wfWatch`,
which came from `wf`, which was written by an earlier pass from jobs seen in `jobCache`, and
so on around the loop. The strengthening states the *same* fact of every place a copy can
be: each workflow copy reports complete only steps that have run, is closed under
dependencies and carries `Complete` only when all is complete (`SoundWorkflow`); each job copy
has dependencies that have run, and has itself run when it is finished (`SoundJob`). Both are
relative to the set of steps that have run, `StepsRun`, and monotone in it: time makes no
old copy wrong. That is why it does not matter how old copies are, nor whether updates are
lost, duplicated or refused – the reason the design works. `WorkerSound` relates the flag
`complete` to the positions of the loop already passed; it justifies the `Complete` condition.

**Copies are ordered (`VersionsAgree`).** Truth does not keep a status from going back: an old
copy is true, too, and reports less. Of a copy under way or in the cache and the stored
workflow of the same UID, the version is not later, equal versions are equal objects, and a
start time once set is that of every later version (`OldCopy`); the worker's copy may be
ahead of the version it was made from, never behind (`HeldCopy`). An update is accepted on
equal versions only, so that what it writes follows what is there: `StatusMonotone`. As
`local` has the stored start time, a pass begun at the deadline would not have come to
`manageWorkflow`: `NoJobAfterDeadline`.

**The refinement** puts the two together: every write of the controller follows the stored
workflow (`VersionsAgree`) and is true of what has run (`CopiesSound`), which are the conjuncts of
`WorkflowExecution`'s step that advances the report; finished jobs are its steps that end.
Each action is mapped in a lemma or a step of its own.

**Labels (`LabelsKept`).** `getJobLabelsSetFromWorkflow` changes the copy's selector in place, and
manageWorkflow publishes it. If all templates carry the same labels, and in practice they
carry none, what one step's call merges in is overridden by the next one's, and every
selector is the user's or that of one step (`Selectors`): the labels of a job are the same
from whichever copy they are computed, and the listing finds it. With different labels
the property is false; section 3 says how the code loses jobs then.

**No job after completion (`JobsKept`).** A pass over a copy without a completed step would create
its job again unless the job is in the cache. While nobody removes jobs, the steps of the
cached jobs, and of those listed but not yet delivered before the worker's next pass, only
grow (`JobsStay`, `ListedFirst`), and every copy's completed steps are among them
(`ReportsShown`): it was seen in that cache, or, after a restart, the initial list comes
first. A workflow with `Complete` has had every step reported (`StatusSound`), so every step
has a job that `retrieveJobsStep` finds. The deadline is left out because `deleteWorkflowJobs`
removes jobs on the controller's own account.

**No lost wakeup (`WakeInv`).** A silent controller is a fact about everything that is *not* there,
so the invariant says, for each stage between the store and the worker, what is still
there while the workflow is unfinished. `NewsSeen`: the last event of the watch, or else the
cache, is the stored workflow, and the last notification is of the cached one; `JobsSeen` is
the same of every single job, whose events share one watch. So a write of the controller or
of a user is followed by an event, a notification, a mark. What remains is a workflow whose
newest version is cached and handled (`Pending`): then the worker is about to take it up, or is
in a pass over that very version (`InPass`) which will write it, having found a status or
new labels (`WillWrite`), or having found nothing so far (`NothingYet`), with a ready step still
ahead of it: without one all steps are complete, for dependencies have an order
(`DepsAcyclic`), and the pass writes the condition. Such a write is not refused, the version
being the newest, which is what makes the swallowed conflicts harmless: a refused write means
that another one is under way. Otherwise a job is awaited (`JobAwaited`), and its event
has to find the workflow: the cached selector matches it, because a copy that reports a
running step carries that step's labels (`Plain`). This is where `OneReady` is needed, and where
the code goes wrong without it. After a restart the initial lists are the
events. Two jobs of one step (`Twins`) end the matter for good, which the property excepts.
The proof has a lemma for each way a step of manageWorkflow can leave a pass, and one for each
thing that must not vanish meanwhile (`AwaitedRemain`, `TwinsRemain`, `JobsRemain`).

**Removals (`FirstsKept`).** `onAddWorkflow` deletes an added workflow whose status is not empty. While
the controller runs, the first version its cache gets of the first workflow is the created
one (`AsCreated`): until then it is at the head of the watch, and later versions are notified
as updates. No update changes what `Unedited` is about, so `SyncInvalid` removes only what was
submitted invalid. With a restart both fail, which is `v_restart`.

**Beside the collector (`SystemInv`).** In `WorkflowSystem` the invariants above hold together, with
the jobs finitely many, as the collector's listing needs. Each step is one of the
controller's other than a restart, for which the lemmas above stand, or one of the
collector's, which marks some jobs as deleted and appends as many events; a job is as sound
marked as it was before (`MarkDeletedJobs`), and nothing else the invariants read changes
(`BesideJobs`). `NoJobAfterCompletion` is not claimed there: a collector that has been told of
a missing workflow may take the jobs of its successor.

**The search (`SearchInv`).** `ListedInOrder`: what is listed is what is permanent, dependencies
first. `CallsInOrder`: the calls on the stack are for different steps, which are exactly those
with the temporary mark while no cycle is found; the dependencies a call has passed are
permanent, except that of a call below the top the last one is the call above. `Progress`: all
keys passed are marked, and every graph error is justified. Then a temporary mark met again
is a cycle, whose steps are the calls from its own to the top (`TemporaryIsCycle`); and when
the search ends without an error everything is permanent, hence listed in order, hence
acyclic: of a set of steps the one listed first depends on none of the others
(`OrderIsAcyclic`, by the well-ordering of positions). Recursion is bounded because the calls are
for different steps, an injection into a finite set. For the steps an error names, `CycleInv`
keeps them a cycle while the calls that found it return.

**Updates.** The code compares old and new steps through maps by name. `ReplacesValid` says that
the replaced workflow has no two steps of one name, which its own validation saw to;
without it the map forgets one of them, and an update from `<<a, a>>` to `<<b, a>>` takes a
started step away unnoticed.

**DaemonSetJob status (`StatusInv`).** `StatusOK` is asked of every copy. `Complete` is there at most
once and of the `Failed` conditions only the first is ever withdrawn, because
`updateDaemonSetJobStatusCondition` changes the first of its type and the deadline appends
blindly; what the pass has counted and the nodes still to come are together no more than the
nodes there are (`Counted`). The model drops conditions at `MaxConds`; it must keep three, or
the deadline's own would be lost: of three one is a `Failed` for good (`ThreeConditions`).

**Jobs and nodes agree (`ReconcileInv`).** As for wakeups the invariant says what is still there.
`JobsSeen` and `NodesSeen`: the last event on a job or node, or else the cache, tells how it is;
`DaemonSetJobSeen`: the cache has the stored DaemonSetJob or its one event is on the way, and it
differs in its status at most. `Awake` lists all that makes another pass certain: a marked or
delayed key, an error of the pass that is not returned yet, an event on a node or on a job of the
DaemonSetJob, or on the DaemonSetJob itself unless it is finished, because updates of a finished
one wake nobody. Nothing is claimed while one of these holds; so a step may spoil a pass only
by an event or an error of its own, and `AwakeStays` says that `Awake` ends only when the key is
taken. Otherwise the caches are right, the jobs and nodes stay as they are through the
step (`Calm`), and so does what the pass has made of them (`PassRight`): in the first loop every job
is kept in the map, still to be deleted, or on its way out (`DuplicatesRight`); in the second
every matching node is still to come or has a job (`NodesRight`); at the end jobs and nodes agree
(`Settled`). A call that creates or deletes a job leads to its event and so to another pass
(`CreationHeard`, `DeletionKnown`): the pass that changes nothing is the one that counts. The events
of jobs find the DaemonSetJob through the cached selector, the users' or that of the jobs,
hence `SelectorFits`: jobs carry the selector's labels, unless the template overrides one; jobs are
told apart by names that are given once (`JobsApart`, `NoNamesakes`). `MaxUID = 1`: a DaemonSetJob that is created again
takes its predecessor's jobs for its own. `RestartsOrFaults`: after a restart
`onAddDaemonSetJob` deletes a DaemonSetJob that has a status, and if that fails nothing wakes
the worker before a node reports. TLC finds `Reconciled` violated with either bound raised.

**The collector (`CollectorInv`).** It deletes by name what it was told has no owner, and the
owner may be created in between. A job of a DaemonSetJob carries the key's namespace and
name (`JobsNamed`, from the labels `NewJob` merges last); UIDs only grow; so when the collector
is about to delete under this name, an owner that exists is younger than the answer
(`MissingKnown`). `OthersJobs`: the jobs there are at the start belong to others and have names
of their own.

**CronWorkflow, process, memory.** `WorkflowNames`: the API server gives a name once, and a started
workflow has its scheduled time in the name, however many controllers generate it.
`DefinesOwn`: a process that waits for a CRD or takes it back has created it itself; the way
from AlreadyExists to the deletion does not exist, and what is not deleted stays. `ObjectsInv`: the worker's copy shares no cell
with the cached object or with the one `sync` was given, each object's cells are its own, and
the cached object reads as the informer decoded it; new cells come from outside the heap, so
that every in-place write stays within the copy.

### Only model-checked

* `NoLostWakeup` with a deadline, after whose cleanup jobs are no longer there to be waited for.
* All liveness: `EventuallyFinished`, `FailedJobsStopped`, `InvalidRemoved`, `OrphansCollected`,
  `StatusCatchesUp`, `TemplateRollsOut`, `DeadlineStopsJobs`, `DueIsStarted`,
  `ActiveListSettles`, `AllWork`, `DefaultsReachServer`. The prover has no rules for fairness
  and ENABLED.

`DependencyOrder` speaks of steps of the name, not of one workflow instance: jobs are matched by
labels that hold the name and not the UID, so a workflow recreated under its name adopts its
predecessor's jobs.

## 5. Not modelled, and the plan

Not modelled: several keys sharing a worker (the queue keeps them apart and no state is
shared), ExternalRef steps beyond the empty `manageWorkflowReferenceStep`, relists of a
running process and their tombstones, crashes by nil dereference other than as a restart,
a stale initial list, events sent to the recorder, metrics, logs, the health server's
socket. In validation: object metadata and the syntax of selectors (library calls), and
`ValidateWorkflowStatus`. Of CronWorkflows: defaulting and validation of the API, which no
running code calls, and the second half of `cronworkflow.go`, which is commented out. The
kubectl plugin lists and prints; the typed clients build requests; the end-to-end tests
were read for what they expect.

Left of the plan, most important first:

1. A module of the work queue: the dirty/processing/queue sets of client-go over several
   keys, refining the pair "marked / in hand" the controllers use.
2. Relists in a running process with tombstones, and objects without selectors.

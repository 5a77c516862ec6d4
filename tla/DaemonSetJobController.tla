------------------------- MODULE DaemonSetJobController -------------------------
(***************************************************************************)
(* The DaemonSetJob controller (pkg/controller/daemonsetjob.go) over one   *)
(* DaemonSetJob: a job of the template on every node the node selector     *)
(* matches.  A pass of its worker reads the three caches at different      *)
(* times, deletes and creates jobs one call at a time and publishes the    *)
(* counts; it decides on whatever the caches then held.                    *)
(*                                                                         *)
(* An informer's handler runs with the change of its cache, in one action: *)
(* the delay between them, which WorkflowController has, is left out here. *)
(***************************************************************************)
EXTENDS DaemonSetJobCluster

CONSTANTS
    \* Bounds
    MaxRestarts,     \* the controller's restarts
    MaxConds         \* conditions a DaemonSetJob collects; later ones are not kept

ASSUME DaemonSetJobAssumption == {MaxRestarts, MaxConds} \subseteq Nat

VARIABLES
    \* the work queue
    dirty,       \* the key is marked for processing
    waiting,     \* the key is in the rate limiter's delay
    \* the worker
    pc,          \* "idle", "sync", "duplicates", "nodes" or "cleanup"
    local,       \* sync's deep copy of the cached DaemonSetJob, or Nil
    began,       \* sync's startTime
    byNode,      \* jobsByNodeName; Nil where the map has no entry
    todo,        \* jobs of a loop that are still to be deleted
    todoNodes,   \* listed nodes still to be looked at
    tally,       \* how many of allJobs have each status
    toBeUpdated, \* daemonsetjobToBeUpdated
    failing,     \* errs is not empty
    restarts

queue == <<dirty, waiting>>
pass == <<local, began, byNode, todo, todoNodes, tally, toBeUpdated, failing>>
worker == <<pc, pass>>
vars == <<clusterVars, queue, worker, restarts>>

--------------------------------------------------------------------------------
(* Labels and status.                                                        *)

IsDaemonSetJobFinished(o) == \E k \in DOMAIN o.conds : o.conds[k].true

StatusEmpty(o) ==
    /\ o.start = Nil /\ ~o.completion /\ o.conds = <<>>
    /\ o.active = 0 /\ o.succeeded = 0 /\ o.failed = 0

NameLabel == [k \in {DaemonSetJobLabelKey} |-> Name]

(* The map it returns is the DaemonSetJob's selector, changed in place.      *)
getJobLabelsSetFromDaemonSetJob(o) ==
    Merge(Merge(o.sel, TemplateLabels[o.tmpl]), NameLabel)

InferDaemonSetJobLabelSelectorForJobs(o) == Merge(o.sel, NameLabel)

pastActiveDeadline(o, t) ==
    o.deadline # Nil /\ o.start # Nil /\ t - o.start >= o.deadline

MutantWithCondition(conds, t, true) ==
    IF true THEN Append(conds, [type |-> t, true |-> TRUE]) ELSE conds

(* updateDaemonSetJobStatusCondition: the first condition of the type takes  *)
(* the new status; a missing one is added only if it is True.                *)
WithCondition(conds, t, true) ==
    LET same == {k \in DOMAIN conds : conds[k].type = t}
        first == CHOOSE k \in same : \A l \in same : k <= l
    IN  IF same # {} THEN [conds EXCEPT ![first].true = true]
        ELSE IF true THEN Append(conds, [type |-> t, true |-> TRUE])
        ELSE conds

Zero == [s \in JobStatus |-> 0]

(* The counts, and updateDaemonSetJobStatusConditions.  A pass that found no *)
(* active job calls the DaemonSetJob complete.                               *)
WithStatus(o) ==
    LET complete == tally.active = 0
        conds == WithCondition(WithCondition(o.conds, "Complete", complete),
                               "Failed", tally.failed > 0)
    IN  [o EXCEPT !.active = tally.active, !.succeeded = tally.succeeded,
                  !.failed = tally.failed, !.completion = complete,
                  !.conds = conds,
                  !.probe = IF conds = <<>> THEN @ ELSE now]

(* The deadline's Failed condition is appended whatever the list holds.      *)
WithDeadlineExceeded(o) ==
    [o EXCEPT !.completion = TRUE, !.probe = now,
              !.conds = IF Len(@) < MaxConds
                        THEN Append(@, [type |-> "Failed", true |-> TRUE]) ELSE @]

--------------------------------------------------------------------------------
(* Calls to the API server.                                                  *)

(* updateDaemonSetJob returns nil whatever Update returns. *)
updateDaemonSetJob(o) ==
    \/ NoFault /\ UpdateAccepted(o) /\ WriteDaemonSetJob(o)
    \/ NoFault /\ ~UpdateAccepted(o) /\ UNCHANGED dsjStore
    \/ Fault /\ UNCHANGED dsjStore

(* deleteDaemonSetJob deletes by name, whatever the version, and returns err. *)
deleteDaemonSetJob(err) ==
    \/ ~err /\ NoFault /\ dsj # Nil /\ ~dsj.deleting /\ RemoveDaemonSetJob
    \/ ~err /\ NoFault /\ dsj # Nil /\ dsj.deleting /\ UNCHANGED dsjStore
    \/ err /\ NoFault /\ dsj = Nil /\ UNCHANGED dsjStore
    \/ err /\ Fault /\ UNCHANGED dsjStore

(* DeleteJob with foreground propagation: the job goes when its pods have. *)
DeleteJob(j, err) ==
    /\ \/ /\ ~err /\ NoFault
          /\ \E x \in jobs :
                /\ x.id = j.id
                /\ IF x.deleting THEN UNCHANGED <<jobs, jobWatch>>
                                 ELSE WriteJob([x EXCEPT !.deleting = TRUE])
       \/ /\ err
          /\ Fault \/ (NoFault /\ \A x \in jobs : x.id # j.id)
          /\ UNCHANGED <<jobs, jobWatch>>
    /\ UNCHANGED jobCount

--------------------------------------------------------------------------------
(* The informers and the handlers of their events.                           *)

(* workqueue.Add: a key being processed is processed again afterwards. *)
Enqueue == dirty' = TRUE

Delivered(kind) ==
    unsynced' = [unsynced EXCEPT ![kind] = IF @ > 0 THEN @ - 1 ELSE 0]

onAddDaemonSetJob ==
    /\ dsjCache = Nil
    /\ dsjWatch # <<>>
    /\ Head(dsjWatch).type = "set"
    /\ dsjCache' = Head(dsjWatch).obj
    /\ Delivered("dsj")
    /\ \/ /\ StatusEmpty(Head(dsjWatch).obj)
          /\ dsjWatch' = Tail(dsjWatch)
          /\ Enqueue
          /\ UNCHANGED <<dsj, faults>>
       \/ /\ ~StatusEmpty(Head(dsjWatch).obj)
          /\ \/ /\ NoFault /\ dsj # Nil /\ ~dsj.deleting
                /\ dsj' = Nil
                /\ dsjWatch' = Append(Tail(dsjWatch), [type |-> "del", obj |-> dsj])
             \/ /\ Fault \/ (NoFault /\ (dsj = Nil \/ dsj.deleting))
                /\ dsjWatch' = Tail(dsjWatch)
                /\ UNCHANGED dsj
          /\ UNCHANGED dirty
    /\ UNCHANGED <<jobStore, nodeStore, now, jobCache, nodeCache, uids, edits,
                   waiting, worker, restarts>>

(* Updates of a finished DaemonSetJob are ignored. *)
onUpdateDaemonSetJob ==
    /\ dsjCache # Nil
    /\ dsjWatch # <<>>
    /\ Head(dsjWatch).type = "set"
    /\ dsjCache' = Head(dsjWatch).obj
    /\ dsjWatch' = Tail(dsjWatch)
    /\ IF IsDaemonSetJobFinished(Head(dsjWatch).obj) THEN UNCHANGED dirty ELSE Enqueue
    /\ UNCHANGED <<dsj, jobStore, nodeStore, now, jobCache, nodeCache, unsynced, uids,
                   edits, faults, waiting, worker, restarts>>

onDeleteDaemonSetJob ==
    /\ dsjWatch # <<>>
    /\ Head(dsjWatch).type = "del"
    /\ dsjCache' = Nil
    /\ dsjWatch' = Tail(dsjWatch)
    /\ Enqueue
    /\ UNCHANGED <<dsj, jobStore, nodeStore, now, jobCache, nodeCache, unsynced, uids,
                   edits, faults, waiting, worker, restarts>>

(* Every 30 seconds the informer notifies the cached object as an update.    *)
(* Resyncs of jobs and nodes carry an unchanged ResourceVersion and are      *)
(* ignored.                                                                  *)
Resync ==
    /\ dsjCache # Nil
    /\ ~IsDaemonSetJobFinished(dsjCache)
    /\ Enqueue
    /\ UNCHANGED <<clusterVars, waiting, worker, restarts>>

(* Whether the cached DaemonSetJob is among those of the job. *)
getDaemonSetJobFromJob(j) ==
    /\ DOMAIN j.labels # {}
    /\ dsjCache # Nil
    /\ j.ns = Namespace
    /\ Matches(dsjCache.sel, j.labels)

(* onAddJob, onUpdateJob and onDeleteJob do the same thing. *)
onJobEvent ==
    /\ jobWatch # <<>>
    /\ LET e == Head(jobWatch)
           others == {x \in jobCache : x.id # e.obj.id}
       IN  /\ jobCache' = IF e.type = "set" THEN others \cup {e.obj} ELSE others
           /\ IF getDaemonSetJobFromJob(e.obj) THEN Enqueue ELSE UNCHANGED dirty
    /\ jobWatch' = Tail(jobWatch)
    /\ Delivered("job")
    /\ UNCHANGED <<dsjStore, jobs, jobCount, nodeStore, now, dsjCache, nodeCache, uids,
                   edits, faults, waiting, worker, restarts>>

MutantNodeEventWakes ==
    IF dsjCache # Nil /\ ~IsDaemonSetJobFinished(dsjCache) THEN Enqueue
                                                           ELSE UNCHANGED dirty

(* Any node event wakes every DaemonSetJob of the cache. *)
NodeEventWakes == IF dsjCache # Nil THEN Enqueue ELSE UNCHANGED dirty

(* onAddNode, onUpdateNode and onDeleteNode. *)
onNodeEvent ==
    /\ nodeWatch # <<>>
    /\ nodeCache' = [nodeCache EXCEPT ![Head(nodeWatch).node] = Head(nodeWatch).pool]
    /\ nodeWatch' = Tail(nodeWatch)
    /\ NodeEventWakes
    /\ Delivered("node")
    /\ UNCHANGED <<dsjStore, jobStore, nodes, nodeChanges, now, dsjCache, jobCache, uids,
                   edits, faults, waiting, worker, restarts>>

(* A kubelet reports the status of its node: to onUpdateNode, which looks at *)
(* the ResourceVersion only, an event like the others.                       *)
NodeHeartbeat ==
    /\ \E n \in Nodes : nodeCache[n] # Nil
    /\ NodeEventWakes
    /\ UNCHANGED <<clusterVars, waiting, worker, restarts>>

(* The rate limiter's delay is over. *)
RetryFires ==
    /\ waiting
    /\ waiting' = FALSE
    /\ Enqueue
    /\ UNCHANGED <<clusterVars, worker, restarts>>

--------------------------------------------------------------------------------
(* The worker: processNextItem and sync.                                     *)

Synced == \A kind \in DOMAIN unsynced : unsynced[kind] = 0

(* Run has waited for the caches to sync; then the worker takes the key. *)
GetItem ==
    /\ pc = "idle"
    /\ dirty
    /\ Synced
    /\ dirty' = FALSE
    /\ pc' = "sync"
    /\ began' = now
    /\ UNCHANGED <<clusterVars, waiting, local, byNode, todo, todoNodes, tally,
                   toBeUpdated, failing, restarts>>

NoJobs == [n \in Nodes |-> Nil]

ResetWorker ==
    /\ pc' = "idle" /\ local' = Nil /\ began' = 0
    /\ byNode' = NoJobs /\ todo' = {} /\ todoNodes' = {} /\ tally' = Zero
    /\ toBeUpdated' = FALSE /\ failing' = FALSE

(* sync returns: on an error the key is added again after a delay. *)
Return(err) == ResetWorker /\ waiting' = (waiting \/ err) /\ UNCHANGED dirty

(* What a call that may write the DaemonSetJob leaves alone. *)
OtherThanDaemonSetJob == <<jobStore, nodeStore, now, caches, uids, edits, restarts>>

(* What a call that may write a job leaves alone. *)
OtherThanJobs == <<dsjStore, nodeStore, now, caches, uids, edits, restarts>>

SyncIgnored ==
    /\ pc = "sync"
    /\ \/ dsjCache = Nil
       \/ dsjCache # Nil /\ dsjCache.defaulted /\ dsjCache.valid /\ dsjCache.deleting
    /\ Return(FALSE)
    /\ UNCHANGED <<clusterVars, restarts>>

SyncDefault ==
    /\ pc = "sync"
    /\ dsjCache # Nil
    /\ ~dsjCache.defaulted
    /\ updateDaemonSetJob([dsjCache EXCEPT !.defaulted = TRUE])
    /\ Return(FALSE)
    /\ UNCHANGED OtherThanDaemonSetJob

(* An invalid DaemonSetJob is deleted, RemoveInvalidDaemonSetJob being TRUE. *)
SyncInvalid ==
    /\ pc = "sync"
    /\ dsjCache # Nil
    /\ dsjCache.defaulted
    /\ ~dsjCache.valid
    /\ \E err \in BOOLEAN : deleteDaemonSetJob(err) /\ Return(err)
    /\ UNCHANGED OtherThanDaemonSetJob

(* The cached DaemonSetJob has passed sync's first checks. *)
SyncProceeds ==
    /\ pc = "sync"
    /\ dsjCache # Nil
    /\ dsjCache.defaulted /\ dsjCache.valid /\ ~dsjCache.deleting

SyncStart ==
    /\ SyncProceeds
    /\ dsjCache.start = Nil
    /\ updateDaemonSetJob([dsjCache EXCEPT !.start = now])
    /\ Return(FALSE)
    /\ UNCHANGED OtherThanDaemonSetJob

MutantJobsToDelete(o) ==
    {j \in jobCache : /\ j.ns = Namespace
                      /\ Matches(InferDaemonSetJobLabelSelectorForJobs(o), j.labels)
                      /\ j.status # "active"}

(* deleteJobsFromLabelSelector's list: unfinished jobs of the namespace. *)
JobsToDelete(o) ==
    {j \in jobCache : /\ j.ns = Namespace
                      /\ Matches(InferDaemonSetJobLabelSelectorForJobs(o), j.labels)
                      /\ j.status = "active"}

(* The deadline has passed: the DaemonSetJob fails, its jobs are deleted. *)
SyncDeadline ==
    /\ SyncProceeds
    /\ dsjCache.start # Nil
    /\ pastActiveDeadline(dsjCache, began)
    /\ updateDaemonSetJob(WithDeadlineExceeded(dsjCache))
    /\ todo' = JobsToDelete(dsjCache)
    /\ pc' = "cleanup"
    /\ UNCHANGED <<OtherThanDaemonSetJob, queue, local, began, byNode, todoNodes, tally,
                   toBeUpdated, failing>>

CleanupJob(j) ==
    /\ pc = "cleanup"
    /\ todo' = todo \ {j}
    /\ \E err \in BOOLEAN : DeleteJob(j, err) /\ failing' = (failing \/ err)
    /\ UNCHANGED <<OtherThanJobs, queue, pc, local, began, byNode, todoNodes, tally,
                   toBeUpdated>>

CleanupReturns ==
    /\ pc = "cleanup"
    /\ todo = {}
    /\ Return(failing)
    /\ UNCHANGED <<clusterVars, restarts>>

--------------------------------------------------------------------------------
(* manageDaemonSetJob.                                                       *)

(* The jobs of the cache that carry the name, in whatever namespace. *)
ListedJobs == {j \in jobCache : Matches(NameLabel, j.labels)}

(* The cache lists them in any order: of several jobs for a node any one may *)
(* be the first, which is kept.                                              *)
SyncManage ==
    /\ SyncProceeds
    /\ dsjCache.start # Nil
    /\ ~pastActiveDeadline(dsjCache, began)
    /\ local' = dsjCache
    /\ \E f \in [Nodes -> ListedJobs \cup {Nil}] :
          /\ \A n \in Nodes :
                LET here == {j \in ListedJobs : j.node = n}
                IN  IF here = {} THEN f[n] = Nil ELSE f[n] \in here
          /\ byNode' = f
          /\ todo' = ListedJobs \ {f[n] : n \in Nodes}
    /\ pc' = "duplicates"
    /\ UNCHANGED <<clusterVars, queue, began, todoNodes, tally, toBeUpdated, failing,
                   restarts>>

DeleteDuplicate(j) ==
    /\ pc = "duplicates"
    /\ todo' = todo \ {j}
    /\ \E err \in BOOLEAN : DeleteJob(j, err) /\ failing' = (failing \/ err)
    /\ UNCHANGED <<OtherThanJobs, queue, pc, local, began, byNode, todoNodes, tally,
                   toBeUpdated>>

ListNodes ==
    /\ pc = "duplicates"
    /\ todo = {}
    /\ todoNodes' = {n \in Nodes : nodeCache[n] \in local.pools}
    /\ pc' = "nodes"
    /\ UNCHANGED <<clusterVars, queue, local, began, byNode, todo, tally, toBeUpdated,
                   failing, restarts>>

AtNode(n) ==
    /\ pc = "nodes"
    /\ n \in todoNodes
    /\ todoNodes' = todoNodes \ {n}
    /\ UNCHANGED <<OtherThanJobs, queue, pc, began, todo>>

MutantNewJob(n) ==
    [id |-> jobCount + 1, uid |-> local.uid, ns |-> Namespace,
     labels |-> getJobLabelsSetFromDaemonSetJob(local), node |-> Nil,
     tmpl |-> local.tmpl, status |-> "active", deleting |-> FALSE]

NewJob(n) ==
    [id |-> jobCount + 1, uid |-> local.uid, ns |-> Namespace,
     labels |-> getJobLabelsSetFromDaemonSetJob(local), node |-> n,
     tmpl |-> local.tmpl, status |-> "active", deleting |-> FALSE]

WithJobLabels(o) == [o EXCEPT !.sel = getJobLabelsSetFromDaemonSetJob(o)]

(* The job is created; the reply may be lost, which is an error.  It is not  *)
(* counted in this pass.                                                     *)
CreateNodeJob(n) ==
    /\ AtNode(n)
    /\ byNode[n] = Nil
    /\ jobCount < MaxJobs
    /\ WriteJob(NewJob(n))
    /\ jobCount' = jobCount + 1
    /\ local' = WithJobLabels(local)
    /\ toBeUpdated' = TRUE
    /\ \/ NoFault /\ UNCHANGED failing
       \/ Fault /\ failing' = TRUE
    /\ UNCHANGED <<byNode, tally>>

(* The call fails, or the API server refuses another job. *)
CreateNodeJobFails(n) ==
    /\ AtNode(n)
    /\ byNode[n] = Nil
    /\ Fault \/ (jobCount = MaxJobs /\ NoFault)
    /\ local' = WithJobLabels(local)
    /\ toBeUpdated' = TRUE
    /\ failing' = TRUE
    /\ UNCHANGED <<jobStore, byNode, tally>>

(* compareJobSpecMD5Hash: the job was created from the current template. *)
UpToDate(j) == j.tmpl = local.tmpl

KeepNodeJob(n) ==
    /\ AtNode(n)
    /\ byNode[n] # Nil
    /\ UpToDate(byNode[n])
    /\ tally' = [tally EXCEPT ![byNode[n].status] = @ + 1]
    /\ byNode' = [byNode EXCEPT ![n] = Nil]
    /\ UNCHANGED <<jobStore, faults, local, toBeUpdated, failing>>

OutdatedNodeJob(n, s) ==
    /\ AtNode(n)
    /\ byNode[n] # Nil
    /\ ~UpToDate(byNode[n])
    /\ byNode[n].status = s
    /\ UNCHANGED <<local, tally>>

(* A Go case does not fall through: a failed job is left as it is. *)
KeepOutdatedFailed(n) ==
    /\ OutdatedNodeJob(n, "failed")
    /\ byNode' = [byNode EXCEPT ![n] = Nil]
    /\ toBeUpdated' = TRUE
    /\ UNCHANGED <<jobStore, faults, failing>>

DeleteOutdatedSucceeded(n) ==
    /\ OutdatedNodeJob(n, "succeeded")
    /\ \E err \in BOOLEAN : DeleteJob(byNode[n], err) /\ failing' = (failing \/ err)
    /\ byNode' = [byNode EXCEPT ![n] = Nil]
    /\ toBeUpdated' = TRUE

(* The loop goes on with the next node, and leaves the job in the map. *)
PassOverOutdatedActive(n) ==
    /\ OutdatedNodeJob(n, "active")
    /\ UNCHANGED <<jobStore, faults, byNode, toBeUpdated, failing>>

AllNodesSeen == pc = "nodes" /\ todoNodes = {}

(* What the map still holds is deleted. *)
DeleteLeftover(n) ==
    /\ AllNodesSeen
    /\ byNode[n] # Nil
    /\ byNode' = [byNode EXCEPT ![n] = Nil]
    /\ \E err \in BOOLEAN : DeleteJob(byNode[n], err) /\ failing' = (failing \/ err)
    /\ UNCHANGED <<OtherThanJobs, queue, pc, local, began, todo, todoNodes, tally,
                   toBeUpdated>>

MutantFinishManage ==
    /\ AllNodesSeen
    /\ byNode = NoJobs
    /\ IF toBeUpdated \/ tally.active = 0
       THEN updateDaemonSetJob(WithStatus(local)) ELSE UNCHANGED <<dsjStore, faults>>
    /\ Return(failing)
    /\ UNCHANGED OtherThanDaemonSetJob

(* The status is published.  Its errors, unlike those of the jobs' calls,    *)
(* are lost in updateDaemonSetJob.                                           *)
FinishManage ==
    /\ AllNodesSeen
    /\ byNode = NoJobs
    /\ LET o == WithStatus(local)
           counts(x) == <<x.active, x.succeeded, x.failed>>
       IN  IF toBeUpdated \/ tally.active = 0 \/ counts(o) # counts(local)
           THEN updateDaemonSetJob(o) ELSE UNCHANGED <<dsjStore, faults>>
    /\ Return(failing)
    /\ UNCHANGED OtherThanDaemonSetJob

--------------------------------------------------------------------------------

(* The controller's process dies and a new one starts. *)
Restart ==
    /\ restarts < MaxRestarts
    /\ restarts' = restarts + 1
    /\ dirty' = FALSE
    /\ waiting' = FALSE
    /\ ResetWorker
    /\ Relist

Init ==
    /\ ClusterInit
    /\ dirty = FALSE /\ waiting = FALSE
    /\ pc = "idle" /\ local = Nil /\ began = 0
    /\ byNode = NoJobs /\ todo = {} /\ todoNodes = {} /\ tally = Zero
    /\ toBeUpdated = FALSE /\ failing = FALSE
    /\ restarts = 0

Surroundings == Environment /\ UNCHANGED <<queue, worker, restarts>>

Handlers ==
    \/ onAddDaemonSetJob \/ onUpdateDaemonSetJob \/ onDeleteDaemonSetJob \/ Resync
    \/ onJobEvent
    \/ onNodeEvent \/ NodeHeartbeat

sync ==
    \/ SyncIgnored \/ SyncDefault \/ SyncInvalid \/ SyncStart
    \/ SyncDeadline \/ (\E j \in todo : CleanupJob(j)) \/ CleanupReturns
    \/ SyncManage

manageNode(n) ==
    \/ CreateNodeJob(n) \/ CreateNodeJobFails(n) \/ KeepNodeJob(n)
    \/ KeepOutdatedFailed(n) \/ DeleteOutdatedSucceeded(n) \/ PassOverOutdatedActive(n)

manageDaemonSetJob ==
    \/ \E j \in todo : DeleteDuplicate(j)
    \/ ListNodes
    \/ \E n \in Nodes : manageNode(n) \/ DeleteLeftover(n)
    \/ FinishManage

Worker == GetItem \/ sync \/ manageDaemonSetJob

Next == Surroundings \/ Handlers \/ RetryFires \/ Worker \/ Restart

Spec == Init /\ [][Next]_vars

(* Time passes, the informers deliver, nodes report, the worker is a         *)
(* goroutine that gets to run.  Nothing is asked of users, jobs or the       *)
(* nodes' coming and going.                                                  *)
Fairness ==
    /\ WF_vars(Tick /\ UNCHANGED <<queue, worker, restarts>>)
    /\ WF_vars(onAddDaemonSetJob \/ onUpdateDaemonSetJob \/ onDeleteDaemonSetJob)
    /\ WF_vars(onJobEvent)
    /\ WF_vars(onNodeEvent)
    /\ WF_vars(NodeHeartbeat)
    /\ WF_vars(RetryFires)
    /\ WF_vars(Worker)

FairSpec == Spec /\ Fairness

--------------------------------------------------------------------------------
(* Properties.                                                               *)

(* Type invariant of the controller and of the cluster around it. *)
TypeOK ==
    /\ ClusterTypeOK
    /\ dirty \in BOOLEAN /\ waiting \in BOOLEAN
    /\ pc \in {"idle", "sync", "duplicates", "nodes", "cleanup"}
    /\ local \in DaemonSetJob \cup {Nil}
    /\ pc \in {"duplicates", "nodes"} => local \in DaemonSetJob
    /\ began \in Nat
    /\ byNode \in [Nodes -> Job \cup {Nil}]
    /\ todo \subseteq Job
    /\ todoNodes \subseteq Nodes
    /\ tally \in [JobStatus -> Nat]
    /\ toBeUpdated \in BOOLEAN /\ failing \in BOOLEAN
    /\ restarts \in Nat

(* Nothing is on its way to the worker. *)
Quiescent ==
    /\ pc = "idle" /\ ~dirty /\ ~waiting
    /\ dsjWatch = <<>> /\ jobWatch = <<>> /\ nodeWatch = <<>>

(* The stored DaemonSetJob is one that sync manages. *)
Managed ==
    /\ dsj # Nil
    /\ dsj.defaulted /\ dsj.valid /\ ~dsj.deleting
    /\ dsj.start # Nil
    /\ ~pastActiveDeadline(dsj, now)

OwnJobs == {j \in jobs : dsj # Nil /\ j.uid = dsj.uid}

(* When the controller falls silent, jobs and nodes agree, whatever nodes    *)
(* came, went and changed while passes ran on older copies, whatever calls   *)
(* failed and whatever a stale cache made it create twice: every node the    *)
(* selector matches has a job, and apart from jobs on their way out no node  *)
(* has two and no other node has one (manageDaemonSetJob).  It does not hold *)
(* of a call that fails after a restart: if it is the deletion in            *)
(* onAddDaemonSetJob nothing wakes the worker before a node reports.         *)
Reconciled ==
    (Quiescent /\ Managed /\ edits = 0) =>
        /\ \A n \in Nodes : nodes[n] \in dsj.pools => \E j \in OwnJobs : j.node = n
        /\ \A j \in OwnJobs : j.deleting \/ nodes[j.node] \in dsj.pools
        /\ \A j, k \in OwnJobs :
              (j.node = k.node /\ ~j.deleting /\ ~k.deleting) => j = k

IsTrue(o, t) == \E k \in DOMAIN o.conds : o.conds[k] = [type |-> t, true |-> TRUE]

(* Whatever order passes, conflicts and deadlines come in, the published     *)
(* status never contradicts itself: Complete goes with no active job counted *)
(* and with a completion time, a completion time without Complete only with  *)
(* the deadline's Failed, and no node is counted twice (FinishManage,        *)
(* SyncDeadline).                                                            *)
StatusConsistent ==
    dsj # Nil =>
        /\ IsTrue(dsj, "Complete") => dsj.completion
        /\ dsj.completion => IsTrue(dsj, "Complete") \/ IsTrue(dsj, "Failed")
        /\ IsTrue(dsj, "Complete") => dsj.active = 0
        /\ dsj.failed > 0 => IsTrue(dsj, "Failed")
        /\ dsj.active + dsj.succeeded + dsj.failed <= Cardinality(Nodes)

(* The jobs this step marks for deletion. *)
MarkedNow == {j \in jobs : ~j.deleting /\ \E x \in jobs' : x.id = j.id /\ x.deleting}

(* A job whose template has changed is left to finish or fail before it is   *)
(* deleted ("wait that the job finished or failed before deleting it").      *)
ActiveJobsAwaited ==
    [][ \A j \in MarkedNow :
          (dsj # Nil /\ j.uid = dsj.uid /\ nodes[j.node] \in dsj.pools
             /\ j.tmpl # dsj.tmpl) => j.status # "active" ]_vars

(* The jobs of nodes the selector matches, at most one of each. *)
CountedJobs == {j \in OwnJobs : nodes[j.node] \in dsj.pools}

OnePerNode == \A j, k \in OwnJobs : j.node = k.node => j = k

CountsRight ==
    LET count(s) == Cardinality({j \in CountedJobs : j.status = s})
    IN  <<dsj.active, dsj.succeeded, dsj.failed>>
            = <<count("active"), count("succeeded"), count("failed")>>

(* Updates that conflict are lost, and those of a finished DaemonSetJob wake *)
(* nobody; still, while users change nothing, the published counts come to   *)
(* be those of the jobs again and again (FinishManage, onUpdateNode).        *)
StatusCatchesUp ==
    []<>(~Managed \/ edits > 0 \/ ~OnePerNode \/ CountsRight)

(* A new template reaches the nodes, although updates of a finished          *)
(* DaemonSetJob are ignored: again and again every job that is left was made *)
(* from the current template, but for failed ones, which are never replaced  *)
(* (manageDaemonSetJob, onUpdateNode).                                       *)
TemplateRollsOut ==
    []<>(~Managed \/ \A j \in OwnJobs :
                        j.deleting \/ j.tmpl = dsj.tmpl \/ j.status = "failed")

(* The deadline stops the jobs of a DaemonSetJob that is not being removed   *)
(* and whose deadline users do not put off,                                  *)
(* also those a pass that began before it creates after it, and although a   *)
(* finished DaemonSetJob is not enqueued by its own resyncs (SyncDeadline).  *)
DeadlineStopsJobs ==
    (dsj # Nil /\ pastActiveDeadline(dsj, now))
        ~> (dsj = Nil \/ dsj.deleting \/ ~pastActiveDeadline(dsj, now)
               \/ \A j \in OwnJobs : j.deleting \/ j.status # "active")

================================================================================

--------------------------- MODULE DaemonSetJobWakeup ---------------------------
(***************************************************************************)
(* What wakes the DaemonSetJob controller: the inductive invariant behind  *)
(* Reconciled.  As long as nothing of the jobs and nodes is on its way to  *)
(* the worker, its copies of them are right and so is what it makes of     *)
(* them: every pass that is not sure to be followed by another one leaves  *)
(* a job on each node that the selector matches and on no other.           *)
(***************************************************************************)
EXTENDS DaemonSetJobController

(* The labels of the jobs made from template t. *)
JobLabels(t) == Merge(Merge(UserSelector, TemplateLabels[t]), NameLabel)

(* The selector users write matches the jobs, which carry its labels unless  *)
(* the template overrides them: their events find the DaemonSetJob also      *)
(* before it is stored with the selector of a pass.                          *)
SelectorFits == \A t \in Templates : Matches(UserSelector, JobLabels(t))

(* The jobs there are at the start are others': they do not carry the name,  *)
(* and no two jobs are called the same.                                      *)
NoNamesakes ==
    \A j \in InitialJobs :
        /\ j.uid = 0 /\ ~Matches(NameLabel, j.labels)
        /\ j.id \notin 1..MaxJobs
        /\ \A x \in InitialJobs : x.id = j.id => x = j

(* Calls fail, or the controller is restarted: not both. *)
RestartsOrFaults == MaxFaults = 0 \/ MaxRestarts = 0

--------------------------------------------------------------------------------
(* What is told of the jobs and of the nodes.                                *)

(* The copies of jobs there are: stored, cached or on their way. *)
JobCopies == jobs \cup jobCache \cup {jobWatch[k].obj : k \in 1..Len(jobWatch)}

(* Copies called the same are of one owner, and no job has a name that is    *)
(* still to be given.                                                        *)
JobsApart ==
    /\ \A j, x \in JobCopies : j.id = x.id => j.uid = x.uid
    /\ \A j \in JobCopies : j.id \notin (jobCount + 1)..MaxJobs

(* The watch has nothing on a job. *)
NoNews(j) == \A k \in 1..Len(jobWatch) : jobWatch[k].obj.id # j.id

(* Event k is the last on its job. *)
Newest(k) == \A l \in (k + 1)..Len(jobWatch) : jobWatch[l].obj.id # jobWatch[k].obj.id

(* The last thing the watch, or the cache, tells of a job is how it is. *)
JobsSeen ==
    /\ \A j, x \in jobs : j.id = x.id => j = x
    /\ \A j \in jobs \cup jobCache : NoNews(j) => (j \in jobs <=> j \in jobCache)
    /\ \A k \in 1..Len(jobWatch) : Newest(k) =>
          IF jobWatch[k].type = "set" THEN jobWatch[k].obj \in jobs
          ELSE \A j \in jobs : j.id # jobWatch[k].obj.id

(* Event k is the last on its node. *)
NewestOfNode(k) ==
    \A l \in (k + 1)..Len(nodeWatch) : nodeWatch[l].node # nodeWatch[k].node

NodesSeen ==
    /\ \A n \in Nodes :
          (\A k \in 1..Len(nodeWatch) : nodeWatch[k].node # n) => nodeCache[n] = nodes[n]
    /\ \A k \in 1..Len(nodeWatch) :
          NewestOfNode(k) => nodeWatch[k].pool = nodes[nodeWatch[k].node]

--------------------------------------------------------------------------------
(* The copies of the DaemonSetJob and of its jobs.                           *)

(* A copy of the stored DaemonSetJob, perhaps of another age: it has the     *)
(* same specification, and a status only once it is started.                 *)
SpecOf(o) ==
    /\ <<o.uid, o.tmpl, o.pools, o.deadline, o.valid, o.deleting>>
          = <<dsj.uid, dsj.tmpl, dsj.pools, dsj.deadline, dsj.valid, FALSE>>
    /\ o.sel \in {UserSelector, JobLabels(o.tmpl)}

CopyOf(o) ==
    /\ SpecOf(o)
    /\ o.start = Nil => StatusEmpty(o)
    /\ o.start # Nil => o.start = dsj.start /\ o.defaulted

(* The cache has the stored DaemonSetJob or is about to get it.  The worker  *)
(* can then only write from the stored version, and only start it once.      *)
DaemonSetJobSeen ==
    /\ CopyOf(dsj)
    /\ \/ dsjWatch = <<>> /\ dsjCache = dsj
       \/ dsjWatch = <<[type |-> "set", obj |-> dsj]>>
    /\ dsjCache # Nil =>
          /\ CopyOf(dsjCache)
          /\ dsjCache.rv = dsj.rv => dsjWatch = <<>>
          /\ dsj.start # Nil => dsjCache.defaulted
          /\ dsjCache.start = Nil => dsj.conds = <<>>
    /\ (dsjCache = Nil /\ MaxRestarts = 0) => StatusEmpty(dsj)

PassSeen ==
    /\ began <= now
    /\ pc \in {"duplicates", "nodes"} =>
          /\ CopyOf(local) /\ local.start # Nil
          /\ local.rv = dsj.rv => dsjWatch = <<>>
          /\ dsjCache # Nil /\ dsjCache.start # Nil
    /\ pc = "cleanup" => pastActiveDeadline(dsj, now)

(* A job is the DaemonSetJob's own or does not carry its name. *)
Proper(j) ==
    IF j.uid = dsj.uid THEN j.ns = Namespace /\ j.labels = JobLabels(dsj.tmpl)
    ELSE ~Matches(NameLabel, j.labels)

JobsProper ==
    /\ \A j \in jobs \cup jobCache : Proper(j)
    /\ \A k \in 1..Len(jobWatch) : Proper(jobWatch[k].obj)

(* Before the DaemonSetJob is created there is no trace of it. *)
NothingBefore ==
    uids = 0 =>
        /\ dsj = Nil /\ dsjCache = Nil /\ dsjWatch = <<>>
        /\ pc \in {"idle", "sync"} /\ began <= now
        /\ \A j \in jobs \cup jobCache : j.uid = 0 /\ ~Matches(NameLabel, j.labels)
        /\ \A k \in 1..Len(jobWatch) : LET j == jobWatch[k].obj IN
              j.uid = 0 /\ ~Matches(NameLabel, j.labels)

--------------------------------------------------------------------------------
(* What the worker knows.                                                    *)

(* Another pass is sure to begin. *)
Awake ==
    \/ dirty \/ waiting
    \/ failing /\ pc \in {"duplicates", "nodes", "cleanup"}
    \/ dsjCache = Nil
    \/ dsjWatch # <<>> /\ ~IsDaemonSetJobFinished(dsj)
    \/ nodeWatch # <<>>
    \/ \E k \in 1..Len(jobWatch) : jobWatch[k].obj.uid = dsj.uid

Matching(n) == nodes[n] \in dsj.pools

OneEach == \A j, k \in OwnJobs : (j.node = k.node /\ ~j.deleting /\ ~k.deleting) => j = k

Settled ==
    /\ \A n \in Nodes : Matching(n) => \E j \in OwnJobs : j.node = n
    /\ \A j \in OwnJobs : j.deleting \/ Matching(j.node)
    /\ OneEach

(* The map holds jobs that there are, each at its node. *)
MapRight == \A n \in Nodes : byNode[n] # Nil => byNode[n] \in OwnJobs /\ byNode[n].node = n

DuplicatesRight ==
    /\ MapRight
    /\ todo \subseteq OwnJobs
    /\ \A j \in OwnJobs : j.deleting \/ j \in todo \/ j = byNode[j.node]

NodesRight ==
    /\ MapRight
    /\ OneEach
    /\ \A n \in todoNodes : Matching(n)
    /\ \A n \in Nodes : Matching(n) => n \in todoNodes \/ \E j \in OwnJobs : j.node = n
    /\ \A j \in OwnJobs : j.deleting \/ Matching(j.node) \/ j = byNode[j.node]

PassRight ==
    /\ pc = "idle" => Settled
    /\ pc = "duplicates" => DuplicatesRight
    /\ pc = "nodes" => NodesRight

(* As long as users change nothing, a DaemonSetJob that is managed and whose *)
(* controller is not going to look again has the jobs it should have, or the *)
(* pass in progress has found all that is left to do (the handlers, sync,    *)
(* manageDaemonSetJob).                                                      *)
ReconcileInv ==
    /\ JobsApart /\ JobsSeen /\ NodesSeen /\ NothingBefore
    /\ (dsj # Nil /\ edits = 0) =>
         /\ DaemonSetJobSeen /\ PassSeen /\ JobsProper
         /\ (Managed /\ ~Awake) => PassRight

================================================================================

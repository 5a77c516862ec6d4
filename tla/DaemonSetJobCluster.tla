-------------------------- MODULE DaemonSetJobCluster --------------------------
(***************************************************************************)
(* The Kubernetes cluster as the DaemonSetJob controller meets it, seen    *)
(* from one DaemonSetJob key: the stored DaemonSetJob, the jobs of all     *)
(* namespaces and the nodes, the users, node and Job controllers that      *)
(* change them, and the watches of the controller's three informers.       *)
(* Nothing here is code of the repository; it is modelled from the way     *)
(* pkg/controller uses it.                                                 *)
(***************************************************************************)
EXTENDS Integers, Sequences, FiniteSets, Labels

CONSTANTS
    Nodes,           \* the names of the nodes
    Pools,           \* the values of the node label the node selector asks for
    Templates,       \* the values of Spec.JobTemplate
    TemplateLabels,  \* TemplateLabels[t]: the labels of template t
    LabelKeys, LabelValues,
    UserSelector,    \* Spec.Selector.MatchLabels as users write it
    Specs,           \* the specifications users write:
                     \* [defaulted, valid, tmpl, pools, deadline]
    InitialNodes,    \* the pools of the nodes at the start
    InitialJobs,     \* the jobs of others that carry the label
    Name, Namespace, \* of the DaemonSetJob
    Nil,
    Outcomes,        \* how jobs end: of "succeeded" and "failed"
    \* Bounds
    MaxUID,          \* DaemonSetJobs created under this key
    MaxJobs,         \* jobs created; at the bound the API server refuses more
    MaxEdits,        \* user edits and deletions, jobs removed by others
    MaxNodeChanges,
    MaxFaults,       \* API calls that fail
    MaxTime,         \* clock ticks not needed to reach a deadline
    MaxLag           \* events a watch holds when its objects change by themselves

DaemonSetJobLabelKey == "kubernetes.io/DaemonSetJob"

LabelSet == UNION {[K -> LabelValues] : K \in SUBSET LabelKeys}

JobStatus == {"active", "succeeded", "failed"}

Specification ==
    [defaulted : BOOLEAN, valid : BOOLEAN, tmpl : Templates, pools : SUBSET Pools,
     deadline : Nat \cup {Nil}]      \* Spec.ActiveDeadlineSeconds

Job ==
    [id : Nat, uid : Nat, ns : STRING, labels : LabelSet, node : Nodes,
     tmpl : Templates, status : JobStatus, deleting : BOOLEAN]

ASSUME NoJobAssumption == Nil \notin Job

ASSUME DaemonSetJobClusterAssumption ==
    /\ DaemonSetJobLabelKey \in LabelKeys
    /\ Name \in LabelValues
    /\ Namespace \in STRING
    /\ UserSelector \in LabelSet
    /\ TemplateLabels \in [Templates -> LabelSet]
    /\ Specs \subseteq Specification
    /\ Nil \notin Nat \cup Pools
    /\ InitialNodes \in [Nodes -> Pools \cup {Nil}] /\ IsFiniteSet(Nodes)
    /\ InitialJobs \subseteq Job /\ IsFiniteSet(InitialJobs)
    /\ Outcomes \subseteq JobStatus \ {"active"}
    /\ {MaxUID, MaxJobs, MaxEdits, MaxNodeChanges, MaxFaults, MaxTime, MaxLag}
          \subseteq Nat

VARIABLES
    \* the API server
    dsj,                           \* the DaemonSetJob under the key, or Nil
    jobs,                          \* the jobs of all namespaces
    nodes,                         \* nodes[n]: n's pool, Nil if it is not there
    now,                           \* the clock
    \* the informers
    dsjWatch, jobWatch, nodeWatch, \* events not yet delivered
    dsjCache, jobCache, nodeCache, \* what the listers return
    unsynced,                      \* objects of the initial lists to deliver
    \* history and budgets
    uids, jobCount, edits, nodeChanges, faults

dsjStore == <<dsj, dsjWatch>>
jobStore == <<jobs, jobWatch, jobCount>>
nodeStore == <<nodes, nodeWatch, nodeChanges>>
caches == <<dsjCache, jobCache, nodeCache, unsynced>>
clusterVars == <<dsjStore, jobStore, nodeStore, now, caches, uids, edits, faults>>

--------------------------------------------------------------------------------
(* Of a condition the type is kept and whether its status is True.  The      *)
(* times of the conditions and of the completion are one field, probe: the   *)
(* time of the last pass that set them.  It has the clock's resolution, one  *)
(* second in the code, and decides whether an update changes anything.       *)

Condition == [type : {"Complete", "Failed"}, true : BOOLEAN]

DaemonSetJob ==
    [uid : Nat \ {0}, rv : Nat,
     defaulted : BOOLEAN, valid : BOOLEAN, deleting : BOOLEAN,
     tmpl : Templates,                \* Spec.JobTemplate
     pools : SUBSET Pools,            \* the pools Spec.NodeSelector matches
     deadline : Nat \cup {Nil},       \* Spec.ActiveDeadlineSeconds
     sel : LabelSet,                  \* Spec.Selector.MatchLabels
     start : Nat \cup {Nil},          \* Status.StartTime
     completion : BOOLEAN,            \* Status.CompletionTime is set
     active : Nat, succeeded : Nat, failed : Nat,
     conds : Seq(Condition),
     probe : Nat \cup {Nil}]

(* Versions are only compared for equality, so that their numbers may come   *)
(* round: the copies in flight are the results of the edits and of the one   *)
(* update that the worker can make before it sees a newer version.           *)
Versions == MaxEdits + 4

NextVersion(o) == [o EXCEPT !.rv = (@ + 1) % Versions]

WriteDaemonSetJob(o) ==
    /\ dsj' = NextVersion(o)
    /\ dsjWatch' = Append(dsjWatch, [type |-> "set", obj |-> NextVersion(o)])

RemoveDaemonSetJob ==
    /\ dsj' = Nil
    /\ dsjWatch' = Append(dsjWatch, [type |-> "del", obj |-> dsj])

UpdateAccepted(o) ==
    dsj # Nil /\ dsj.uid = o.uid /\ dsj.rv = o.rv /\ dsj # o

WriteJob(j) ==
    /\ jobs' = {x \in jobs : x.id # j.id} \cup {j}
    /\ jobWatch' = Append(jobWatch, [type |-> "set", obj |-> j])

RemoveJob(j) ==
    /\ jobs' = jobs \ {j}
    /\ jobWatch' = Append(jobWatch, [type |-> "del", obj |-> j])

NoFault == UNCHANGED faults

Fault == faults < MaxFaults /\ faults' = faults + 1

--------------------------------------------------------------------------------
(* Users, the Job controller, the nodes and the clock.                       *)

UserCreate(s) ==
    /\ dsj = Nil
    /\ uids < MaxUID
    /\ uids' = uids + 1
    /\ WriteDaemonSetJob(
          [uid |-> uids + 1, rv |-> 0, deleting |-> FALSE,
           defaulted |-> s.defaulted, valid |-> s.valid,
           tmpl |-> s.tmpl, pools |-> s.pools, deadline |-> s.deadline,
           sel |-> UserSelector,
           start |-> Nil, completion |-> FALSE,
           active |-> 0, succeeded |-> 0, failed |-> 0,
           conds |-> <<>>, probe |-> Nil])
    /\ UNCHANGED <<jobStore, nodeStore, now, caches, edits, faults>>

Edit == edits < MaxEdits /\ edits' = edits + 1

UserEdit(s) ==
    /\ dsj # Nil
    /\ Edit
    /\ LET o == [dsj EXCEPT !.defaulted = s.defaulted, !.valid = s.valid,
                            !.tmpl = s.tmpl, !.pools = s.pools,
                            !.deadline = s.deadline, !.sel = UserSelector]
       IN  o # dsj /\ WriteDaemonSetJob(o)
    /\ UNCHANGED <<jobStore, nodeStore, now, caches, uids, faults>>

(* A deletion takes effect at once or waits for finalizers. *)
UserDelete ==
    /\ dsj # Nil
    /\ ~dsj.deleting
    /\ Edit
    /\ RemoveDaemonSetJob \/ WriteDaemonSetJob([dsj EXCEPT !.deleting = TRUE])
    /\ UNCHANGED <<jobStore, nodeStore, now, caches, uids, faults>>

Finalize ==
    /\ dsj # Nil
    /\ dsj.deleting
    /\ RemoveDaemonSetJob
    /\ UNCHANGED <<jobStore, nodeStore, now, caches, uids, edits, faults>>

JobFinishes(j) ==
    /\ j.status = "active"
    /\ Len(jobWatch) < MaxLag
    /\ \E s \in Outcomes : WriteJob([j EXCEPT !.status = s])
    /\ UNCHANGED <<dsjStore, jobCount, nodeStore, now, caches, uids, edits, faults>>

(* A job goes: one being deleted, or one that somebody else removes. *)
JobGone(j) ==
    /\ \/ j.deleting /\ UNCHANGED edits
       \/ ~j.deleting /\ Edit
    /\ Len(jobWatch) < MaxLag
    /\ RemoveJob(j)
    /\ UNCHANGED <<dsjStore, jobCount, nodeStore, now, caches, uids, faults>>

(* A node joins, leaves, or is given another label. *)
NodeChanges(n, p) ==
    /\ nodeChanges < MaxNodeChanges
    /\ nodeChanges' = nodeChanges + 1
    /\ p # nodes[n]
    /\ Len(nodeWatch) < MaxLag
    /\ nodes' = [nodes EXCEPT ![n] = p]
    /\ nodeWatch' = Append(nodeWatch, [node |-> n, pool |-> p])
    /\ UNCHANGED <<dsjStore, jobStore, now, caches, uids, edits, faults>>

Tick ==
    /\ \/ now < MaxTime
       \/ /\ dsj # Nil /\ dsj.deadline # Nil /\ dsj.start # Nil
          /\ now < dsj.start + dsj.deadline
    /\ now' = now + 1
    /\ UNCHANGED <<dsjStore, jobStore, nodeStore, caches, uids, edits, faults>>

Environment ==
    \/ \E s \in Specs : UserCreate(s) \/ UserEdit(s)
    \/ UserDelete
    \/ Finalize
    \/ \E j \in jobs : JobFinishes(j) \/ JobGone(j)
    \/ \E n \in Nodes, p \in Pools \cup {Nil} : NodeChanges(n, p)
    \/ Tick

(* The sequences that hold each element of the finite set S once. *)
Listings(S) ==
    {f \in [1..Cardinality(S) -> S] : \A x \in S : \E k \in DOMAIN f : f[k] = x}

(* New informers list the existing objects before they watch. *)
Relist ==
    /\ dsjCache' = Nil
    /\ jobCache' = {}
    /\ nodeCache' = [n \in Nodes |-> Nil]
    /\ dsjWatch' = IF dsj = Nil THEN <<>> ELSE <<[type |-> "set", obj |-> dsj]>>
    /\ \E f \in Listings(jobs), g \in Listings({n \in Nodes : nodes[n] # Nil}) :
          /\ jobWatch' = [k \in DOMAIN f |-> [type |-> "set", obj |-> f[k]]]
          /\ nodeWatch' = [k \in DOMAIN g |-> [node |-> g[k], pool |-> nodes[g[k]]]]
          /\ unsynced' = [dsj |-> IF dsj = Nil THEN 0 ELSE 1,
                          job |-> Len(f), node |-> Len(g)]
    /\ UNCHANGED <<dsj, jobs, jobCount, nodes, nodeChanges, now, uids, edits, faults>>

(* The controller starts on a cluster with nodes and with jobs of others. *)
ClusterInit ==
    /\ dsj = Nil /\ dsjWatch = <<>> /\ dsjCache = Nil
    /\ jobs = InitialJobs /\ jobWatch = <<>> /\ jobCache = InitialJobs
    /\ nodes = InitialNodes /\ nodeWatch = <<>> /\ nodeCache = InitialNodes
    /\ unsynced = [dsj |-> 0, job |-> 0, node |-> 0]
    /\ now = 0 /\ uids = 0 /\ jobCount = 0 /\ edits = 0 /\ nodeChanges = 0 /\ faults = 0

ClusterTypeOK ==
    /\ dsj \in DaemonSetJob \cup {Nil}
    /\ jobs \subseteq Job
    /\ nodes \in [Nodes -> Pools \cup {Nil}]
    /\ now \in Nat
    /\ dsjWatch \in Seq([type : {"set", "del"}, obj : DaemonSetJob])
    /\ jobWatch \in Seq([type : {"set", "del"}, obj : Job])
    /\ nodeWatch \in Seq([node : Nodes, pool : Pools \cup {Nil}])
    /\ dsjCache \in DaemonSetJob \cup {Nil}
    /\ jobCache \subseteq Job
    /\ nodeCache \in [Nodes -> Pools \cup {Nil}]
    /\ unsynced \in [dsj : Nat, job : Nat, node : Nat]
    /\ {uids, jobCount, edits, nodeChanges, faults} \subseteq Nat

================================================================================

-------------------------------- MODULE Cluster --------------------------------
(***************************************************************************)
(* The Kubernetes cluster as the workflow controller meets it, seen from   *)
(* one workflow key (namespace/name): the API server holding the workflow  *)
(* and the jobs of the namespace, the users and the Job controller that    *)
(* act on it, and the two shared informers that carry its changes to the   *)
(* controller.  The informers are client-go's, whose vendored sources      *)
(* (HandleDeltas, DeltaFIFO.Resync, ListAndWatch) CacheWorkflow, CacheJob, *)
(* Resync and Relist follow; the rest is not code of the repository and is *)
(* modelled from the way pkg/controller uses it.                           *)
(*                                                                         *)
(* The actions leave out the variables of the modules that extend this     *)
(* one.                                                                    *)
(***************************************************************************)
EXTENDS Integers, Sequences, FiniteSets

CONSTANTS
    Steps,           \* the names of the steps of Spec.Steps
    LabelKeys, LabelValues,
    UserSelector,    \* Spec.Selector.MatchLabels as users write it
    Deadline,        \* Spec.ActiveDeadlineSeconds, or Nil
    Submissions,     \* the workflows users submit: [defaulted, valid, started]
    Nil,
    \* Bounds
    MaxUID,          \* workflows created under this name
    MaxJobs,         \* jobs created; at the bound the API server refuses more
    MaxFinished,     \* jobs there are that have finished
    MaxEdits,        \* user edits and deletions, jobs removed by others
    MaxFaults,       \* API calls that fail
    MaxTime,         \* clock ticks not needed to reach a deadline
    MaxLag           \* notifications a cache may be ahead of its handlers

WorkflowLabelKey == "kubernetes.io/workflow"
WorkflowStepLabelKey == "kubernetes.io/workflow-step"

(* Label sets are maps from label keys to label values. *)
LabelSet == UNION {[K -> LabelValues] : K \in SUBSET LabelKeys}

Submission == [defaulted : BOOLEAN, valid : BOOLEAN, started : BOOLEAN]

ASSUME ClusterAssumption ==
    /\ {WorkflowLabelKey, WorkflowStepLabelKey} \subseteq LabelKeys
    /\ Steps \subseteq LabelValues
    /\ UserSelector \in LabelSet
    /\ Submissions \subseteq Submission
    /\ Nil \notin Nat
    /\ Deadline \in Nat \cup {Nil}
    /\ {MaxUID, MaxJobs, MaxFinished, MaxEdits, MaxFaults, MaxTime, MaxLag} \subseteq Nat

VARIABLES
    \* the API server
    wf,                  \* the workflow stored under the key, or Nil
    jobs,                \* the jobs of the namespace
    now,                 \* the clock
    \* the informers
    wfWatch, jobWatch,   \* watch events not yet applied to the caches
    wfCache, jobCache,   \* what WorkflowLister and JobLister return
    wfNotes, jobNotes,   \* notifications not yet handled by the on... handlers
    unsynced,            \* objects of the initial lists not yet in the caches
    \* history and budgets
    ran,                 \* <<step, uid>>: a job of that step and owner has finished
    born,                \* born[uid]: the submission that created workflow uid
    jobCount, edits, faults

wfStore == <<wf, wfWatch>>
jobStore == <<jobs, jobWatch, jobCount>>
caches == <<wfCache, jobCache, wfNotes, jobNotes, unsynced>>
history == <<ran, born, edits>>
clusterVars == <<wfStore, jobStore, now, caches, history, faults>>

--------------------------------------------------------------------------------
(* The objects.  Only the conditions' types are kept: each has status True.  *)
(* CompletionTime is set with each condition and carries nothing more.       *)

StepStatus == {"none", "running", "complete"}

Workflow ==
    [uid : Nat \ {0}, rv : Nat,
     defaulted : BOOLEAN, valid : BOOLEAN, deleting : BOOLEAN,
     start : Nat \cup {Nil},          \* Status.StartTime
     sel : LabelSet,                  \* Spec.Selector.MatchLabels
     status : [Steps -> StepStatus],  \* Status.Statuses
     conds : Seq({"Complete", "Failed"})]

(* Nil stands for no workflow. *)
ASSUME NoWorkflowAssumption == Nil \notin Workflow

(* Every job of the model was created for a step. *)
JobLabelSet ==
    {l \in LabelSet : /\ WorkflowStepLabelKey \in DOMAIN l
                      /\ l[WorkflowStepLabelKey] \in Steps}

Job ==
    [id : Nat \ {0}, uid : Nat \ {0}, labels : JobLabelSet,
     finished : BOOLEAN, deleting : BOOLEAN]

WorkflowEvent == [type : {"set", "del"}, obj : Workflow]
JobEvent == [type : {"set", "del"}, obj : Job]
WorkflowNote == [type : {"add", "update", "delete"}, obj : Workflow]

(* The step a job was created for. *)
Step(j) == j.labels[WorkflowStepLabelKey]

NoStatus == [s \in Steps |-> "none"]

--------------------------------------------------------------------------------
(* The API server: writes and the watch events they cause.                   *)

(* Every version of the workflow has a ResourceVersion of its own. *)
NextVersion(o) == [o EXCEPT !.rv = @ + 1]

WriteWorkflow(o) ==
    /\ wf' = NextVersion(o)
    /\ wfWatch' = Append(wfWatch, [type |-> "set", obj |-> NextVersion(o)])

RemoveWorkflow ==
    /\ wf' = Nil
    /\ wfWatch' = Append(wfWatch, [type |-> "del", obj |-> wf])

WriteJob(j) ==
    /\ jobs' = {x \in jobs : x.id # j.id} \cup {j}
    /\ jobWatch' = Append(jobWatch, [type |-> "set", obj |-> j])

RemoveJob(j) ==
    /\ jobs' = jobs \ {j}
    /\ jobWatch' = Append(jobWatch, [type |-> "del", obj |-> j])

Fault == faults < MaxFaults /\ faults' = faults + 1

NoFault == UNCHANGED faults

(* An Update is accepted on the version it was computed from; one that       *)
(* changes nothing is accepted but writes nothing.                           *)
UpdateAccepted(o) ==
    wf # Nil /\ wf.uid = o.uid /\ wf.rv = o.rv /\ wf # o

--------------------------------------------------------------------------------
(* Users, the Job controller and the clock.                                  *)

NewWorkflow(s) ==
    [uid |-> Len(born) + 1, rv |-> 0,
     defaulted |-> s.defaulted, valid |-> s.valid, deleting |-> FALSE,
     start |-> IF s.started THEN now ELSE Nil,
     sel |-> UserSelector, status |-> NoStatus, conds |-> <<>>]

UserCreate(s) ==
    /\ wf = Nil
    /\ Len(born) < MaxUID
    /\ born' = Append(born, s)
    /\ WriteWorkflow(NewWorkflow(s))
    /\ UNCHANGED <<jobStore, now, caches, ran, edits, faults>>

(* Users' changes to existing objects are bounded together. *)
Edit == edits < MaxEdits /\ edits' = edits + 1

(* A user replaces the specification by that of submission s. *)
UserEdit(s) ==
    /\ wf # Nil
    /\ Edit
    /\ LET o == [wf EXCEPT !.defaulted = s.defaulted, !.valid = s.valid,
                           !.sel = UserSelector]
       IN  /\ o # wf
           /\ WriteWorkflow(o)
    /\ UNCHANGED <<jobStore, now, caches, ran, born, faults>>

(* A user deletes the workflow: at once, or with foreground propagation,     *)
(* which sets DeletionTimestamp and lets Finalize remove it.                 *)
UserDelete ==
    /\ wf # Nil
    /\ ~wf.deleting
    /\ Edit
    /\ \/ RemoveWorkflow
       \/ WriteWorkflow([wf EXCEPT !.deleting = TRUE])
    /\ UNCHANGED <<jobStore, now, caches, ran, born, faults>>

Finalize ==
    /\ wf # Nil
    /\ wf.deleting
    /\ RemoveWorkflow
    /\ UNCHANGED <<jobStore, now, caches, history, faults>>

(* The job ends, with success or not: its Complete or Failed condition. *)
JobFinishes(j) ==
    /\ ~j.finished
    /\ Cardinality({x \in jobs : x.finished}) < MaxFinished
    /\ WriteJob([j EXCEPT !.finished = TRUE])
    /\ ran' = ran \cup {<<Step(j), j.uid>>}
    /\ UNCHANGED <<wfStore, jobCount, now, caches, born, edits, faults>>

(* A job goes: one being deleted, or one that somebody else removes. *)
JobGone(j) ==
    /\ \/ j.deleting /\ UNCHANGED edits
       \/ ~j.deleting /\ Edit
    /\ RemoveJob(j)
    /\ UNCHANGED <<wfStore, jobCount, now, caches, ran, born, faults>>

(* Time passes: MaxTime ticks, and as many more as a pending deadline needs. *)
Tick ==
    /\ \/ now < MaxTime
       \/ wf # Nil /\ Deadline # Nil /\ wf.start # Nil /\ now < wf.start + Deadline
    /\ now' = now + 1
    /\ UNCHANGED <<wfStore, jobStore, caches, history, faults>>

Environment ==
    \/ \E s \in Submissions : UserCreate(s) \/ UserEdit(s)
    \/ UserDelete
    \/ Finalize
    \/ \E j \in jobs : JobFinishes(j) \/ JobGone(j)
    \/ Tick

--------------------------------------------------------------------------------
(* The informers.  A watch event updates the cache; the handler it is meant  *)
(* for runs later, in the same order.                                        *)

CacheWorkflow ==
    /\ wfWatch # <<>>
    /\ Len(wfNotes) < MaxLag
    /\ LET e == Head(wfWatch)
       IN  /\ wfCache' = IF e.type = "set" THEN e.obj ELSE Nil
           /\ wfNotes' = Append(wfNotes,
                 [type |-> IF e.type = "del" THEN "delete"
                           ELSE IF wfCache = Nil THEN "add" ELSE "update",
                  obj |-> e.obj])
    /\ wfWatch' = Tail(wfWatch)
    /\ unsynced' = [unsynced EXCEPT !.wf = IF @ > 0 THEN @ - 1 ELSE 0]
    /\ UNCHANGED <<wf, jobStore, now, jobCache, jobNotes, history, faults>>

CacheJob ==
    /\ jobWatch # <<>>
    /\ Len(jobNotes) < MaxLag
    /\ LET e == Head(jobWatch)
           others == {x \in jobCache : x.id # e.obj.id}
       IN  /\ jobCache' = IF e.type = "set" THEN others \cup {e.obj} ELSE others
           /\ jobNotes' = Append(jobNotes, e.obj)
    /\ jobWatch' = Tail(jobWatch)
    /\ unsynced' = [unsynced EXCEPT !.job = IF @ > 0 THEN @ - 1 ELSE 0]
    /\ UNCHANGED <<wfStore, jobs, jobCount, now, wfCache, wfNotes, history, faults>>

(* Every 30 seconds the workflow informer notifies the cached workflow again *)
(* as an update; earlier notifications are then long handled.  Resyncs of    *)
(* jobs carry an unchanged ResourceVersion, which onUpdateJob ignores.       *)
Resync ==
    /\ wfCache # Nil
    /\ unsynced.wf = 0
    /\ wfNotes = <<>>
    /\ wfNotes' = <<[type |-> "update", obj |-> wfCache]>>
    /\ UNCHANGED <<wfStore, jobStore, now, wfCache, jobCache, jobNotes, unsynced,
                   history, faults>>

(* The sequences that list the set S. *)
Orders(S) ==
    {f \in UNION {[1..n -> S] : n \in 0..MaxJobs} :
        /\ \A x \in S : \E k \in DOMAIN f : f[k] = x
        /\ \A k, l \in DOMAIN f : f[k] = f[l] => k = l}

(* New informers list the existing objects before they watch. *)
Relist ==
    /\ wfCache' = Nil
    /\ jobCache' = {}
    /\ wfNotes' = <<>>
    /\ jobNotes' = <<>>
    /\ wfWatch' = IF wf = Nil THEN <<>> ELSE <<[type |-> "set", obj |-> wf]>>
    /\ \E f \in Orders(jobs) :
          /\ jobWatch' = [k \in DOMAIN f |-> [type |-> "set", obj |-> f[k]]]
          /\ unsynced' = [wf |-> IF wf = Nil THEN 0 ELSE 1, job |-> Len(f)]
    /\ UNCHANGED <<wf, jobs, jobCount, now, history, faults>>

ClusterInit ==
    /\ wf = Nil /\ jobs = {} /\ now = 0
    /\ wfWatch = <<>> /\ jobWatch = <<>> /\ wfCache = Nil /\ jobCache = {}
    /\ wfNotes = <<>> /\ jobNotes = <<>> /\ unsynced = [wf |-> 0, job |-> 0]
    /\ ran = {} /\ born = <<>> /\ jobCount = 0 /\ edits = 0 /\ faults = 0

ClusterTypeOK ==
    /\ wf \in Workflow \cup {Nil}
    /\ jobs \subseteq Job
    /\ now \in Nat
    /\ wfWatch \in Seq(WorkflowEvent)
    /\ jobWatch \in Seq(JobEvent)
    /\ wfCache \in Workflow \cup {Nil}
    /\ jobCache \subseteq Job
    /\ wfNotes \in Seq(WorkflowNote)
    /\ jobNotes \in Seq(Job)
    /\ unsynced \in [wf : Nat, job : Nat]
    /\ ran \subseteq Steps \X (Nat \ {0})
    /\ born \in Seq(Submission)
    /\ jobCount \in Nat /\ edits \in Nat /\ faults \in Nat

================================================================================

----------------------------- MODULE WorkflowSystem -----------------------------
(***************************************************************************)
(* The Workflow controller and the collector of workflow jobs, which runs  *)
(* beside it in the same process and reads the same workflow lister.  They *)
(* share nothing else: the collector deletes, by name, jobs the controller *)
(* may still be creating from an old copy of a workflow.                   *)
(***************************************************************************)
EXTENDS WorkflowController

VARIABLES
    gcpc, items, collected   \* the collector's round

collector == <<gcpc, items, collected>>
systemVars == <<vars, collector>>

(* Every job of this namespace was created for a workflow of this name. *)
OwnerOf(j) == j.labels[WorkflowLabelKey]

Names(o) == IF o = Nil THEN {} ELSE {WorkflowName}

GC == INSTANCE GarbageCollector WITH
    OwnerName <- OwnerOf, Unnamed <- "", Unlabelled <- Nil,
    stored <- Names(wf), cached <- Names(wfCache), synced <- unsynced.wf = 0

CollectWorkflowJobs ==
    /\ GC!Collect
    /\ UNCHANGED <<wfStore, jobCount, now, caches, history, queue, worker, restarts>>

SystemInit == Init /\ GC!GCInit

(* Restarts, which take both, are left to WorkflowController (the            *)
(* controller's) and DaemonSetJobSystem (the collector's).                   *)
SystemNext ==
    \/ (Surroundings \/ Handlers \/ RetryFires \/ Worker) /\ UNCHANGED collector
    \/ CollectWorkflowJobs

SystemSpec == SystemInit /\ [][SystemNext]_systemVars

(* The collector is one more goroutine that gets to run.  Of Fairness the    *)
(* properties below need neither the clock nor resyncs nor events of jobs.   *)
SystemFairSpec ==
    /\ SystemSpec
    /\ SF_vars(Outside(CacheWorkflow))
    /\ WF_vars(onAddWorkflow \/ onUpdateWorkflow \/ onDeleteWorkflow)
    /\ WF_vars(RetryFires)
    /\ WF_vars(Worker)
    /\ WF_systemVars(CollectWorkflowJobs)

--------------------------------------------------------------------------------
(* Properties.                                                               *)

(* The jobs a removed workflow leaves are stopped, those too that the        *)
(* controller creates later from a copy it still has, and in spite of failed *)
(* or partial deletions (CollectWorkflowJobs).                               *)
OrphansCollected ==
    wf = Nil ~> (wf # Nil \/ \A j \in jobs : j.deleting)

================================================================================

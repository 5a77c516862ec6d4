---------------------------- MODULE WorkflowWakeup ----------------------------
(***************************************************************************)
(* What wakes the Workflow controller: the inductive invariant behind      *)
(* NoLostWakeup.  A workflow that is not finished, and newly cached, has a *)
(* notification, a mark or a delay on its way to the worker, or the worker *)
(* has it in hand and will write it, or one of its jobs is still to tell.  *)
(*                                                                         *)
(* The jobs are matched with the workflow by its selector, into which the  *)
(* label of one step is written; so the steps have to run one after        *)
(* another (OneReady), with templates of the same labels (SameTemplates).  *)
(***************************************************************************)
EXTENDS WorkflowController

(* What the steps wait for has an order, which validation sees to: of any    *)
(* steps one waits for none of the others.                                   *)
DepsAcyclic == \A S \in SUBSET Steps : S # {} => \E s \in S : Deps[s] \cap S = {}

(* The steps run one after another: whatever is complete, one step is ready. *)
OneReady ==
    \A C \in SUBSET Steps : (\A s \in C : Deps[s] \subseteq C) =>
        \A s, t \in Steps \ C : Deps[s] \cup Deps[t] \subseteq C => s = t

--------------------------------------------------------------------------------
(* What is told of the workflow.                                             *)

(* The last thing the watch, or the cache, tells is the stored workflow; the *)
(* last notification is of the cached one.  Between passes the flag          *)
(* workflowComplete is as a pass finds it.                                   *)
NewsSeen ==
    /\ wf # Nil => IF wfWatch = <<>> THEN wfCache = wf
                   ELSE wfWatch[Len(wfWatch)] = [type |-> "set", obj |-> wf]
    /\ (wfNotes # <<>> /\ wfCache # Nil)
          => wfNotes[Len(wfNotes)] \in [type : {"add", "update"}, obj : {wfCache}]
    /\ pc # "manage" => complete

(* A copy that reports a running step has that step's labels. *)
Plain(o) ==
    /\ ~o.deleting
    /\ \A s \in Steps : o.status[s] = "running" => o.sel = StepLabels(s)

CopiesPlain ==
    /\ wf # Nil => Plain(wf)
    /\ wfCache # Nil => Plain(wfCache)
    /\ \A k \in 1..Len(wfWatch) : Plain(wfWatch[k].obj)
    /\ pc = "manage" => Plain(local)

--------------------------------------------------------------------------------
(* What is told of the jobs.                                                 *)

(* The watch has nothing on a job. *)
NoNews(j) == \A k \in 1..Len(jobWatch) : jobWatch[k].obj.id # j.id

(* Event k is the last on its job. *)
Newest(k) == \A l \in (k + 1)..Len(jobWatch) : jobWatch[l].obj.id # jobWatch[k].obj.id

(* The last thing the watch, or the cache, tells of a job is the stored job. *)
JobsSeen ==
    /\ \A j, x \in jobCache : j.id = x.id => j = x
    /\ \A j \in jobCache : NoNews(j) => j \in jobs
    /\ \A k \in 1..Len(jobWatch) : Newest(k) => jobWatch[k].obj \in jobs

(* A step has two jobs: manageWorkflowJobStep then does nothing. *)
Twins == \E j, x \in jobs : j.id # x.id /\ Step(j) = Step(x)

(* A job whose event will mark the key: it runs, or the event is on its way. *)
JobAwaited ==
    \/ \E j \in jobCache : ~j.finished /\ getWorkflowsFromJob(j)
    \/ \E k \in 1..Len(jobWatch) : getWorkflowsFromJob(jobWatch[k].obj)
    \/ \E k \in 1..Len(jobNotes) : getWorkflowsFromJob(jobNotes[k])

--------------------------------------------------------------------------------
(* A pass in progress.                                                       *)

(* The pass has found something to publish: a status, or the labels of the   *)
(* step it has just created the job for.                                     *)
WillWrite ==
    /\ toBeUpdated
    /\ \/ \E s \in Steps : Rank(wfCache.status[s]) < Rank(local.status[s])
       \/ /\ local.sel # wfCache.sel
          /\ \E s \in Steps : /\ local.sel = StepLabels(s)
                              /\ local.status[s] # "complete"
                              /\ DependenciesSatisfied(local, s)

(* It has found nothing yet: no step it has passed was ready. *)
NothingYet ==
    /\ local = wfCache
    /\ complete \/ \E s \in Steps : local.status[s] # "complete"
    /\ \A k \in 1..(i - 1) : \/ local.status[StepSeq[k]] = "complete"
                             \/ ~DependenciesSatisfied(local, StepSeq[k])

(* The worker is in a pass over the cached version that will write it: with  *)
(* what it has found, or with what the ready step still ahead of it gives.   *)
InPass ==
    /\ pc = "manage"
    /\ local.uid = wfCache.uid /\ local.rv = wfCache.rv
    /\ WillWrite \/ NothingYet

--------------------------------------------------------------------------------
(* The invariant.                                                            *)

(* The stored workflow is unfinished and nothing about it is on its way. *)
Pending == wf # Nil /\ ~IsWorkflowFinished(wf) /\ wfWatch = <<>>

Awake ==
    Pending =>
       \/ dirty \/ waiting \/ wfNotes # <<>> \/ pc = "sync"
       \/ InPass \/ JobAwaited \/ Twins

(* Nothing the worker has to know is lost between the store and its queue:   *)
(* the caches are behind the store by just what the watches hold, and, as    *)
(* long as API calls do not fail and nobody edits objects, an unfinished     *)
(* workflow keeps the controller awake, or waits for one of its jobs that    *)
(* will (the handlers, updateWorkflow, manageWorkflow).                      *)
WakeInv ==
    /\ NewsSeen
    /\ edits = 0 =>
         /\ CopiesPlain
         /\ JobsSeen
         /\ (faults = 0 /\ ExternalSteps = {}) => Awake

================================================================================

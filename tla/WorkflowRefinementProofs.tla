------------------------ MODULE WorkflowRefinementProofs ------------------------
(***************************************************************************)
(* The Workflow controller implements WorkflowExecution, its writes never  *)
(* take a status back, and no pass begun after the deadline creates a job. *)
(*                                                                         *)
(* WorkflowControllerProofs shows that every copy of the workflow is true. *)
(* Here the copies are ordered by their versions: an update is accepted    *)
(* only on the version it was computed from, so that what is written       *)
(* follows what was there.  The last section shows that all of it, and     *)
(* what is removed, stays true beside the collector (WorkflowSystem).      *)
(***************************************************************************)
EXTENDS WorkflowControllerProofs, WorkflowRefinement, WorkflowSystem, FiniteSetTheorems

--------------------------------------------------------------------------------
(* The order of the copies.                                                  *)

(* A workflow that has not started has no status yet. *)
Fresh(o) == o.start = Nil => o.status = NoStatus

NoRankFalls(o, p) == \A s \in Steps : Rank(o.status[s]) <= Rank(p.status[s])

(* A copy o on its way to the controller or cached there, w being stored and *)
(* n workflows created so far: of the same workflow it has an earlier        *)
(* version, or is the same, and a start time is never changed.               *)
OldCopy(o, w, n) ==
    /\ o.uid <= n
    /\ Fresh(o)
    /\ (w # Nil /\ o.uid = w.uid) =>
          /\ o.rv <= w.rv
          /\ o.rv = w.rv => o = w
          /\ o.start # Nil => w.start = o.start

(* The copy manageWorkflow works on may be ahead of what it was made from. *)
HeldCopy(o, w, n) ==
    /\ o.uid <= n
    /\ (w # Nil /\ o.uid = w.uid) =>
          /\ o.rv <= w.rv
          /\ o.rv = w.rv => NoRankFalls(w, o) /\ o.conds = w.conds
          /\ w.start = o.start

StoreVersions ==
    /\ wf # Nil => wf.uid = Len(born) /\ Fresh(wf)
    /\ wfCache # Nil => OldCopy(wfCache, wf, Len(born))
    /\ \A k \in 1..Len(wfWatch) : OldCopy(wfWatch[k].obj, wf, Len(born))

WorkerVersion ==
    pc = "manage" =>
        /\ HeldCopy(local, wf, Len(born))
        /\ ~pastActiveDeadline(local, began)

(* With TypeOK and CopiesSound it is inductive. *)
VersionsAgree == StoreVersions /\ WorkerVersion

--------------------------------------------------------------------------------
(* What a step may do to the stored workflow.                                *)

(* o may be written over w. *)
Follows(w, o) ==
    /\ o.uid = w.uid /\ o.rv = w.rv
    /\ Fresh(o)
    /\ NoRankFalls(w, o)
    /\ w.start # Nil => o.start = w.start
    /\ \/ o.conds = w.conds
       \/ /\ o.conds = Append(w.conds, "Complete")
          /\ \A s \in Steps : o.status[s] = "complete"
       \/ o.conds = Append(w.conds, "Failed") /\ o.status = w.status

Created ==
    /\ wf = Nil
    /\ \E s \in Submissions : WriteWorkflow(NewWorkflow(s)) /\ born' = Append(born, s)
    /\ UNCHANGED wfCache

Removed == wf # Nil /\ RemoveWorkflow /\ UNCHANGED <<born, wfCache>>

Published ==
    /\ wf # Nil
    /\ \E o \in Workflow : Follows(wf, o) /\ WriteWorkflow(o)
    /\ UNCHANGED <<born, wfCache>>

Delivered == (CacheWorkflow \/ Relist) /\ UNCHANGED <<wf, born>>

Untouched == UNCHANGED <<wf, wfWatch, born, wfCache>>

StoreStep == Created \/ Removed \/ Published \/ Delivered \/ Untouched

LEMMA RankOfSame ==
    ASSUME NEW o \in Workflow, NEW p, p.status = o.status
    PROVE  NoRankFalls(o, p)
<1>1. \A s \in Steps : o.status[s] \in StepStatus
  BY DEF Workflow
<1>2. \A st \in StepStatus : Rank(st) \in Nat
  BY DEF Rank, StepStatus
<1> QED
  BY <1>1, <1>2 DEF NoRankFalls

(* A write that leaves the status alone. *)
LEMMA SameStatusFollows ==
    ASSUME NEW w \in Workflow, Fresh(w), NEW o, o.uid = w.uid, o.rv = w.rv,
           o.status = w.status, o.start = w.start, o.conds = w.conds
    PROVE  Follows(w, o)
BY RankOfSame DEF Follows, Fresh

LEMMA updateWorkflowPublishes ==
    ASSUME UNCHANGED <<born, wfCache>>, NEW o \in Workflow, updateWorkflow(o),
           UpdateAccepted(o) => Follows(wf, o)
    PROVE  StoreStep
BY DEF updateWorkflow, UpdateAccepted, StoreStep, Published, Untouched, wfStore

LEMMA deleteWorkflowRemoves ==
    ASSUME UNCHANGED <<born, wfCache>>, NEW err, deleteWorkflow(err)
    PROVE  StoreStep
BY DEF deleteWorkflow, StoreStep, Removed, Untouched, wfStore

(* WithCondition appends, or keeps the list. *)
LEMMA WithConditionParts ==
    ASSUME NEW o \in Workflow, NEW c \in {"Complete", "Failed"}
    PROVE  /\ WithCondition(o, c).uid = o.uid /\ WithCondition(o, c).rv = o.rv
           /\ WithCondition(o, c).status = o.status
           /\ WithCondition(o, c).start = o.start
           /\ WithCondition(o, c).conds \in {o.conds, Append(o.conds, c)}
BY DEF WithCondition, Workflow

LEMMA NextStoreStep ==
    ASSUME TypeOK, CopiesSound, VersionsAgree, [Next]_vars
    PROVE  StoreStep
<1>1. wf # Nil => wf \in Workflow /\ Fresh(wf) /\ wf.uid = Len(born)
  BY DEF TypeOK, ClusterTypeOK, VersionsAgree, StoreVersions
<1>2. wfCache # Nil => /\ wfCache \in Workflow
                       /\ SoundWorkflow(StepsRun, wfCache)
                       /\ OldCopy(wfCache, wf, Len(born))
  BY DEF TypeOK, ClusterTypeOK, CopiesSound, WorkflowsSound, VersionsAgree, StoreVersions
<1>3. ASSUME UNCHANGED <<wfStore, born, wfCache>> PROVE StoreStep
  BY <1>3 DEF StoreStep, Untouched, wfStore
<1>4. ASSUME NEW o \in Workflow, wfCache # Nil, UpdateAccepted(o),
             o.uid = wfCache.uid, o.rv = wfCache.rv
      PROVE  wf = wfCache
  BY <1>2, <1>4 DEF UpdateAccepted, OldCopy
<1>5. ASSUME NEW s \in Submissions, UserCreate(s) PROVE StoreStep
  BY <1>5 DEF UserCreate, StoreStep, Created, caches
<1>6. ASSUME NEW s \in Submissions, UserEdit(s) PROVE StoreStep
  <2> DEFINE o == [wf EXCEPT !.defaulted = s.defaulted, !.valid = s.valid,
                             !.sel = UserSelector]
  <2>1. /\ wf \in Workflow /\ wf # Nil /\ o \in Workflow
        /\ o.uid = wf.uid /\ o.rv = wf.rv
        /\ o.status = wf.status /\ o.conds = wf.conds /\ o.start = wf.start
    BY <1>1, <1>6, ClusterAssumption DEF UserEdit, Workflow, Submission
  <2>2. WriteWorkflow(o) /\ UNCHANGED <<born, wfCache>>
    BY <1>6 DEF UserEdit, caches
  <2> HIDE DEF o
  <2>3. Follows(wf, o)
    BY <1>1, <2>1, SameStatusFollows
  <2> QED
    BY <2>1, <2>2, <2>3 DEF StoreStep, Published
<1>7. CASE UserDelete
  <2> DEFINE o == [wf EXCEPT !.deleting = TRUE]
  <2>1. /\ wf \in Workflow /\ wf # Nil /\ o \in Workflow
        /\ o.uid = wf.uid /\ o.rv = wf.rv
        /\ o.status = wf.status /\ o.conds = wf.conds /\ o.start = wf.start
    BY <1>1, <1>7 DEF UserDelete, Workflow
  <2>2. (RemoveWorkflow \/ WriteWorkflow(o)) /\ UNCHANGED <<born, wfCache>>
    BY <1>7 DEF UserDelete, caches
  <2> HIDE DEF o
  <2>3. Follows(wf, o)
    BY <1>1, <2>1, SameStatusFollows
  <2> QED
    BY <2>1, <2>2, <2>3 DEF StoreStep, Published, Removed
<1>8. CASE Finalize
  BY <1>8 DEF Finalize, StoreStep, Removed, caches, history
<1>9. CASE Surroundings
  <2>1. ASSUME NEW j \in jobs, JobFinishes(j) \/ JobGone(j) PROVE StoreStep
    BY <1>3, <2>1 DEF JobFinishes, JobGone, caches
  <2>2. CASE Tick \/ CacheJob \/ Resync
    BY <1>3, <2>2 DEF Tick, CacheJob, Resync, caches, history
  <2>3. CASE CacheWorkflow
    BY <2>3 DEF StoreStep, Delivered, CacheWorkflow, history
  <2> QED
    BY <1>5, <1>6, <1>7, <1>8, <1>9, <2>1, <2>2, <2>3
    DEF Surroundings, Outside, Environment
<1>10. CASE onAddWorkflow
  BY <1>3, <1>10, deleteWorkflowRemoves DEF onAddWorkflow, history
<1>11. CASE onUpdateWorkflow \/ onDeleteWorkflow \/ onJobEvent \/ RetryFires \/ GetItem
            \/ UNCHANGED vars
  BY <1>3, <1>11
  DEF onUpdateWorkflow, onDeleteWorkflow, onJobEvent, RetryFires, GetItem, vars,
      clusterVars, caches, history
<1>12. CASE SyncIgnored \/ CleanupReturns \/ SyncManage \/ \E j \in todo : DeleteJob(j)
  BY <1>3, <1>12
  DEF SyncIgnored, CleanupReturns, SyncManage, DeleteJob, clusterVars, caches, history
<1>13. CASE SyncDefault
  <2> DEFINE o == [wfCache EXCEPT !.defaulted = TRUE]
  <2>1. /\ o \in Workflow /\ wfCache # Nil
        /\ o.uid = wfCache.uid /\ o.rv = wfCache.rv
        /\ o.status = wfCache.status /\ o.conds = wfCache.conds /\ o.start = wfCache.start
    BY <1>2, <1>13 DEF SyncDefault, Workflow
  <2>2. updateWorkflow(o) /\ UNCHANGED <<born, wfCache>>
    BY <1>13 DEF SyncDefault, OtherThanWorkflow, caches, history
  <2> HIDE DEF o
  <2>3. UpdateAccepted(o) => Follows(wf, o)
    BY <1>1, <1>4, <2>1, SameStatusFollows
  <2> QED
    BY <2>1, <2>2, <2>3, updateWorkflowPublishes
<1>14. CASE SyncInvalid
  BY <1>14, deleteWorkflowRemoves DEF SyncInvalid, OtherThanWorkflow, caches, history
<1>15. CASE SyncStart
  <2> DEFINE o == [wfCache EXCEPT !.status = NoStatus, !.start = now]
  <2>1. NoStatus \in [Steps -> StepStatus] /\ now \in Nat
    BY DEF NoStatus, StepStatus, TypeOK, ClusterTypeOK
  <2>2. /\ o \in Workflow /\ wfCache # Nil /\ wfCache.start = Nil
        /\ o.uid = wfCache.uid /\ o.rv = wfCache.rv
        /\ o.status = NoStatus /\ o.start = now /\ o.conds = wfCache.conds
    BY <1>2, <1>15, <2>1 DEF SyncStart, SyncProceeds, Workflow
  <2>3. updateWorkflow(o) /\ UNCHANGED <<born, wfCache>>
    BY <1>15 DEF SyncStart, OtherThanWorkflow, caches, history
  <2> HIDE DEF o
  <2>4. ASSUME UpdateAccepted(o) PROVE Follows(wf, o)
    <3>1. wf = wfCache /\ wfCache.status = NoStatus
      BY <1>2, <1>4, <2>2, <2>4 DEF OldCopy, Fresh
    <3>2. NoRankFalls(wf, o)
      BY <1>2, <2>2, <3>1, RankOfSame
    <3> QED
      BY <2>1, <2>2, <3>1, <3>2, ClusterAssumption DEF Follows, Fresh
  <2> QED
    BY <2>2, <2>3, <2>4, updateWorkflowPublishes
<1>16. CASE SyncDeadline
  <2> DEFINE o == WithCondition(wfCache, "Failed")
  <2>1. /\ o \in Workflow /\ wfCache # Nil
        /\ o.uid = wfCache.uid /\ o.rv = wfCache.rv
        /\ o.status = wfCache.status /\ o.start = wfCache.start
        /\ o.conds \in {wfCache.conds, Append(wfCache.conds, "Failed")}
    BY <1>2, <1>16, WithConditionType, WithConditionParts DEF SyncDeadline, SyncProceeds
  <2>2. updateWorkflow(o) /\ UNCHANGED <<born, wfCache>>
    BY <1>16 DEF SyncDeadline, OtherThanWorkflow, caches, history
  <2> HIDE DEF o
  <2>3. ASSUME UpdateAccepted(o) PROVE Follows(wf, o)
    <3>1. wf = wfCache
      BY <1>4, <2>1, <2>3
    <3>2. NoRankFalls(wf, o) /\ Fresh(o)
      BY <1>2, <2>1, <3>1, RankOfSame DEF OldCopy, Fresh
    <3> QED
      BY <2>1, <3>1, <3>2 DEF Follows
  <2> QED
    BY <2>1, <2>2, <2>3, updateWorkflowPublishes
<1>17. CASE FinishManage
  <2>1. /\ local \in Workflow /\ SoundWorkflow(StepsRun, local) /\ local.start # Nil
        /\ complete => \A k \in 1..(i - 1) : local.status[StepSeq[k]] = "complete"
        /\ HeldCopy(local, wf, Len(born))
    BY <1>17 DEF FinishManage, TypeOK, CopiesSound, WorkerSound, VersionsAgree, WorkerVersion
  <2>2. complete => \A s \in Steps : local.status[s] = "complete"
    <3>1. i > Len(StepSeq) /\ i \in 1..(Len(StepSeq) + 1) /\ Len(StepSeq) \in Nat
      BY <1>17, ControllerAssumption DEF FinishManage, TypeOK
    <3>2. i - 1 = Len(StepSeq)
      BY <3>1
    <3> QED
      BY <2>1, <3>2, ControllerAssumption
  <2>3. ASSUME NEW o \in Workflow, UpdateAccepted(o),
               o.uid = local.uid, o.rv = local.rv,
               o.status = local.status, o.start = local.start,
               \/ o.conds = local.conds
               \/ complete /\ o.conds = Append(local.conds, "Complete")
        PROVE  Follows(wf, o)
    <3>1. wf # Nil /\ o.uid = wf.uid /\ o.rv = wf.rv
      BY <2>3 DEF UpdateAccepted
    <3>2. NoRankFalls(wf, local) /\ local.conds = wf.conds /\ wf.start = local.start
      BY <2>1, <2>3, <3>1 DEF HeldCopy
    <3>3. NoRankFalls(wf, o) /\ Fresh(o)
      BY <2>1, <2>3, <3>2 DEF NoRankFalls, Fresh
    <3> QED
      BY <2>2, <2>3, <3>1, <3>2, <3>3 DEF Follows
  <2>4. UNCHANGED <<born, wfCache>>
    BY <1>17 DEF FinishManage, OtherThanWorkflow, caches, history
  <2>5. CASE complete /\ updateWorkflow(WithCondition(local, "Complete"))
    <3> DEFINE o == WithCondition(local, "Complete")
    <3>1. /\ o \in Workflow
          /\ o.uid = local.uid /\ o.rv = local.rv
          /\ o.status = local.status /\ o.start = local.start
          /\ o.conds \in {local.conds, Append(local.conds, "Complete")}
      BY <2>1, WithConditionType, WithConditionParts
    <3> HIDE DEF o
    <3>2. updateWorkflow(o)
      BY <2>5 DEF o
    <3> QED
      BY <2>3, <2>4, <2>5, <3>1, <3>2, updateWorkflowPublishes
  <2>6. CASE updateWorkflow(local)
    BY <2>1, <2>3, <2>4, <2>6, updateWorkflowPublishes
  <2> QED
    BY <1>3, <1>17, <2>4, <2>5, <2>6 DEF FinishManage
<1>18. CASE manageWorkflow
  BY <1>3, <1>17, <1>18
  DEF manageWorkflow, StepComplete, StepExternal, StepBlocked, StepCreateJob,
      StepCreateFails, StepObserveJob, StepTooManyJobs, clusterVars, caches, history
<1>19. CASE Restart
  BY <1>19 DEF Restart, StoreStep, Delivered, Relist, history
<1> QED
  BY <1>9, <1>10, <1>11, <1>12, <1>13, <1>14, <1>15, <1>16, <1>18, <1>19
  DEF Next, Handlers, Worker, sync

--------------------------------------------------------------------------------
(* The order of the copies is kept.                                          *)

(* What was an old copy of w is one of what follows w, *)
LEMMA OldCopyStays ==
    ASSUME NEW o, NEW w \in Workflow, NEW p \in Workflow, NEW n \in Nat,
           o.rv \in Nat, OldCopy(o, w, n), w # Nil, Follows(w, p)
    PROVE  OldCopy(o, NextVersion(p), n)
<1>1. /\ NextVersion(p).uid = w.uid /\ NextVersion(p).rv = w.rv + 1
      /\ NextVersion(p).start = p.start
      /\ w.rv \in Nat
  BY DEF NextVersion, Workflow, Follows
<1> QED
  BY <1>1 DEF OldCopy, Follows

(* and of a workflow created later. *)
LEMMA OldCopyOfOther ==
    ASSUME NEW o, NEW w, NEW n \in Nat, o.uid \in Nat, OldCopy(o, w, n)
    PROVE  /\ OldCopy(o, Nil, n)
           /\ \A p : p.uid = n + 1 => OldCopy(o, p, n + 1)
BY DEF OldCopy

LEMMA VersionTypes ==
    ASSUME TypeOK
    PROVE  /\ Len(born) \in Nat
           /\ wf # Nil => wf \in Workflow
           /\ wfCache # Nil => wfCache \in Workflow
           /\ wfWatch \in Seq(WorkflowEvent)
           /\ \A k \in 1..Len(wfWatch) : wfWatch[k].obj \in Workflow
<1>1. wfWatch \in Seq(WorkflowEvent) /\ born \in Seq(Submission)
  BY DEF TypeOK, ClusterTypeOK
<1>2. \A k \in 1..Len(wfWatch) : wfWatch[k] \in WorkflowEvent
  BY <1>1
<1> QED
  BY <1>1, <1>2 DEF TypeOK, ClusterTypeOK, WorkflowEvent

(* A write appends one event. *)
LEMMA AppendedEvent ==
    ASSUME NEW q \in Seq(WorkflowEvent), NEW e
    PROVE  \A k \in 1..Len(Append(q, e)) :
              (k \in 1..Len(q) /\ Append(q, e)[k] = q[k]) \/ Append(q, e)[k] = e
OBVIOUS

LEMMA NextStoreVersions ==
    ASSUME TypeOK, StoreVersions, StoreStep
    PROVE  StoreVersions'
<1> DEFINE n == Len(born)
<1>1. /\ n \in Nat
      /\ wf # Nil => wf \in Workflow /\ wf.uid = n /\ Fresh(wf)
      /\ wfCache # Nil => wfCache \in Workflow /\ OldCopy(wfCache, wf, n)
      /\ wfWatch \in Seq(WorkflowEvent)
      /\ \A k \in 1..Len(wfWatch) : wfWatch[k].obj \in Workflow /\ OldCopy(wfWatch[k].obj, wf, n)
  BY VersionTypes DEF StoreVersions
<1>2. \A o \in Workflow : o.uid \in Nat /\ o.rv \in Nat
  BY DEF Workflow
<1>3. ASSUME NEW o, NEW t, wfWatch' = Append(wfWatch, [type |-> t, obj |-> o]),
             OldCopy(o, wf', Len(born)'),
             \A p \in Workflow : OldCopy(p, wf, n) => OldCopy(p, wf', Len(born)')
      PROVE  /\ \A k \in 1..Len(wfWatch') : OldCopy(wfWatch'[k].obj, wf', Len(born)')
             /\ wfCache # Nil => OldCopy(wfCache, wf', Len(born)')
  BY <1>1, <1>3, AppendedEvent
<1>4. CASE Created
  <2>1. PICK s \in Submissions : /\ WriteWorkflow(NewWorkflow(s))
                                 /\ born' = Append(born, s)
    BY <1>4 DEF Created
  <2> DEFINE o == NextVersion(NewWorkflow(s))
  <2>2. Len(born)' = n + 1
    BY <2>1, ClusterAssumption DEF TypeOK, ClusterTypeOK
  <2>3. o.uid = n + 1 /\ o.rv = 1 /\ o.status = NoStatus
    BY DEF NextVersion, NewWorkflow
  <2>4. wf' = o /\ wfWatch' = Append(wfWatch, [type |-> "set", obj |-> o])
    BY <2>1 DEF WriteWorkflow
  <2> HIDE DEF o
  <2>5. \A p \in Workflow : OldCopy(p, wf, n) => OldCopy(p, wf', Len(born)')
    BY <1>1, <1>2, <2>2, <2>3, <2>4, OldCopyOfOther
  <2>6. Fresh(o) /\ o.uid \in Nat /\ o.rv \in Nat /\ o.uid = Len(born)'
    BY <1>1, <2>2, <2>3 DEF Fresh
  <2>7. OldCopy(o, wf', Len(born)')
    BY <2>4, <2>6 DEF OldCopy
  <2>8. UNCHANGED wfCache
    BY <1>4 DEF Created
  <2> QED
    BY <1>3, <2>4, <2>5, <2>6, <2>7, <2>8 DEF StoreVersions
<1>5. CASE Removed
  <2>1. \A p \in Workflow : OldCopy(p, wf, n) => OldCopy(p, Nil, n)
    BY <1>1, <1>2, OldCopyOfOther
  <2>2. wf' = Nil /\ UNCHANGED <<born, wfCache>> /\ wf # Nil
    BY <1>5 DEF Removed, RemoveWorkflow
  <2>3. wfWatch' = Append(wfWatch, [type |-> "del", obj |-> wf])
    BY <1>5 DEF Removed, RemoveWorkflow
  <2>4. OldCopy(wf, wf', Len(born)')
    BY <1>1, <1>2, <2>2 DEF OldCopy
  <2> QED
    BY <1>3, <2>1, <2>2, <2>3, <2>4 DEF StoreVersions
<1>6. CASE Published
  <2>1. PICK p \in Workflow : Follows(wf, p) /\ WriteWorkflow(p)
    BY <1>6 DEF Published
  <2> DEFINE o == NextVersion(p)
  <2>2. wf # Nil /\ wf \in Workflow /\ UNCHANGED <<born, wfCache>>
    BY <1>1, <1>6 DEF Published
  <2>3. o.uid = n /\ Fresh(o)
    BY <1>1, <2>1, <2>2 DEF Follows, Fresh, NextVersion, Workflow
  <2>4. \A q \in Workflow : OldCopy(q, wf, n) => OldCopy(q, o, n)
    BY <1>1, <1>2, <2>1, <2>2, OldCopyStays
  <2>5. wf' = o /\ wfWatch' = Append(wfWatch, [type |-> "set", obj |-> o])
    BY <2>1 DEF WriteWorkflow
  <2>6. o.rv \in Nat
    BY <2>1 DEF NextVersion, Workflow
  <2> HIDE DEF o
  <2>7. OldCopy(o, wf', Len(born)')
    BY <1>1, <2>2, <2>3, <2>5, <2>6 DEF OldCopy
  <2> QED
    BY <1>3, <2>2, <2>3, <2>4, <2>5, <2>7 DEF StoreVersions
<1>7. CASE Delivered
  <2>1. wf' = wf /\ born' = born
    BY <1>7 DEF Delivered
  <2>2. CASE CacheWorkflow
    <3>1. wfWatch # <<>> /\ wfWatch' = Tail(wfWatch)
      BY <2>2 DEF CacheWorkflow
    <3>2. \A k \in 1..Len(wfWatch') :
             k + 1 \in 1..Len(wfWatch) /\ wfWatch'[k] = wfWatch[k + 1]
      BY <1>1, <3>1
    <3>3. OldCopy(Head(wfWatch).obj, wf, n)
      BY <1>1, <3>1
    <3>4. wfCache' # Nil => wfCache' = Head(wfWatch).obj
      BY <2>2 DEF CacheWorkflow
    <3> QED
      BY <1>1, <2>1, <3>2, <3>3, <3>4 DEF StoreVersions
  <2>3. CASE Relist
    <3>1. wfCache' = Nil /\ \A k \in 1..Len(wfWatch') : wf # Nil /\ wfWatch'[k].obj = wf
      BY <2>3 DEF Relist
    <3>2. wf # Nil => OldCopy(wf, wf, n)
      BY <1>1, <1>2 DEF OldCopy
    <3> QED
      BY <1>1, <2>1, <3>1, <3>2 DEF StoreVersions
  <2> QED
    BY <1>7, <2>2, <2>3 DEF Delivered
<1>8. CASE Untouched
  BY <1>8 DEF Untouched, StoreVersions
<1> QED
  BY <1>4, <1>5, <1>6, <1>7, <1>8 DEF StoreStep

--------------------------------------------------------------------------------
(* The worker's copy.                                                        *)

(* It stays one while others write. *)
LEMMA HeldCopyStays ==
    ASSUME TypeOK, StoreVersions, StoreStep, NEW o \in Workflow, o.start # Nil,
           HeldCopy(o, wf, Len(born))
    PROVE  HeldCopy(o, wf', Len(born)')
<1>1. /\ Len(born) \in Nat
      /\ wf # Nil => wf \in Workflow /\ wf.uid = Len(born)
      /\ o.uid \in Nat /\ o.rv \in Nat
  BY VersionTypes DEF StoreVersions, Workflow
<1>2. CASE Created
  <2>1. PICK s \in Submissions : /\ WriteWorkflow(NewWorkflow(s))
                                 /\ born' = Append(born, s)
    BY <1>2 DEF Created
  <2>2. Len(born)' = Len(born) + 1
    BY <2>1, ClusterAssumption DEF TypeOK, ClusterTypeOK
  <2>3. wf'.uid = Len(born) + 1
    BY <2>1 DEF WriteWorkflow, NextVersion, NewWorkflow
  <2> QED
    BY <1>1, <2>2, <2>3 DEF HeldCopy
<1>3. CASE Removed
  BY <1>1, <1>3 DEF Removed, RemoveWorkflow, HeldCopy
<1>4. CASE Published
  <2>1. PICK p \in Workflow : Follows(wf, p) /\ WriteWorkflow(p)
    BY <1>4 DEF Published
  <2>2. wf # Nil /\ UNCHANGED born
    BY <1>4 DEF Published
  <2>3. wf'.uid = wf.uid /\ wf'.rv = wf.rv + 1 /\ wf'.start = p.start /\ wf.rv \in Nat
    BY <1>1, <2>1, <2>2 DEF WriteWorkflow, NextVersion, Workflow, Follows
  <2>4. wf.start # Nil => wf'.start = wf.start
    BY <2>1, <2>3 DEF Follows
  <2> QED
    BY <1>1, <2>2, <2>3, <2>4 DEF HeldCopy
<1>5. CASE Delivered \/ Untouched
  BY <1>5 DEF Delivered, Untouched
<1> QED
  BY <1>2, <1>3, <1>4, <1>5 DEF StoreStep

(* A step of the loop leaves the copy, its labels apart. *)
LEMMA LoopLabels ==
    ASSUME TypeOK, AtStep, local' \in {local, WithStepLabels(local, CurrentStep)}
    PROVE  /\ local'.uid = local.uid /\ local'.rv = local.rv
           /\ local'.status = local.status /\ local'.conds = local.conds
           /\ local'.start = local.start
BY DEF AtStep, TypeOK, WithStepLabels, Workflow

(* Observing a job takes the status of the step forward. *)
LEMMA ObserveForward ==
    ASSUME TypeOK, StepObserveJob
    PROVE  /\ local'.uid = local.uid /\ local'.rv = local.rv
           /\ NoRankFalls(local, local') /\ local'.conds = local.conds
           /\ local'.start = local.start
<1> DEFINE s == CurrentStep
<1>1. PICK j \in jobCache :
         /\ AtReadyStep({j})
         /\ local' = [WithStepLabels(local, s) EXCEPT !.status[s] =
                         IF IsJobFinished(j) THEN "complete" ELSE "running"]
  BY DEF StepObserveJob
<1>2. pc = "manage" /\ i \in 1..Len(StepSeq) /\ local.status[s] # "complete"
  BY <1>1, ControllerAssumption DEF AtReadyStep, AtPendingStep, AtStep, TypeOK
<1>3. local \in Workflow /\ s \in Steps
  BY <1>2, ControllerAssumption DEF CurrentStep, TypeOK
<1> DEFINE st == IF IsJobFinished(j) THEN "complete" ELSE "running"
<1>4. /\ local'.status = [local.status EXCEPT ![s] = st]
      /\ local'.uid = local.uid /\ local'.rv = local.rv
      /\ local'.conds = local.conds /\ local'.start = local.start
  BY <1>1, <1>3 DEF WithStepLabels, Workflow
<1>5. local.status \in [Steps -> StepStatus]
  BY <1>3 DEF Workflow
<1>6. \A r \in Steps : r # s => local'.status[r] = local.status[r]
  BY <1>4, <1>5
<1>7. local'.status[s] \in {"running", "complete"} /\ local.status[s] \in {"none", "running"}
  BY <1>2, <1>3, <1>4, <1>5 DEF StepStatus
<1>8. /\ \A x \in StepStatus : Rank(x) \in Nat
      /\ \A x \in {"none", "running"}, y \in {"running", "complete"} : Rank(x) <= Rank(y)
  BY DEF Rank, StepStatus
<1>9. NoRankFalls(local, local')
  BY <1>5, <1>6, <1>7, <1>8 DEF NoRankFalls
<1> QED
  BY <1>4, <1>9

LEMMA NextWorkerVersion ==
    ASSUME TypeOK, CopiesSound, VersionsAgree, StoreStep, [Next]_vars
    PROVE  WorkerVersion'
<1>1. pc = "manage" => /\ local \in Workflow /\ local.start # Nil
                       /\ HeldCopy(local, wf, Len(born))
                       /\ HeldCopy(local, wf', Len(born)')
                       /\ ~pastActiveDeadline(local, began)
  BY HeldCopyStays DEF TypeOK, CopiesSound, WorkerSound, VersionsAgree, WorkerVersion
<1>2. ASSUME UNCHANGED <<pc, local, began>> PROVE WorkerVersion'
  BY <1>1, <1>2 DEF WorkerVersion
<1>3. ASSUME pc' # "manage" PROVE WorkerVersion'
  BY <1>3 DEF WorkerVersion
<1>4. CASE Surroundings \/ Handlers \/ RetryFires \/ (\E j \in todo : DeleteJob(j))
           \/ UNCHANGED vars
  BY <1>2, <1>4
  DEF Surroundings, Outside, Handlers, onAddWorkflow, onUpdateWorkflow, onDeleteWorkflow,
      onJobEvent, RetryFires, DeleteJob, vars, worker
<1>5. CASE GetItem \/ SyncIgnored \/ SyncDefault \/ SyncInvalid \/ SyncStart
           \/ SyncDeadline \/ CleanupReturns \/ FinishManage \/ Restart
  BY <1>3, <1>5
  DEF GetItem, SyncIgnored, SyncDefault, SyncInvalid, SyncStart, SyncDeadline,
      CleanupReturns, FinishManage, Restart, Return, ResetWorker
<1>6. CASE SyncManage
  <2>1. /\ wfCache # Nil /\ wfCache.start # Nil /\ local' = wfCache
        /\ ~pastActiveDeadline(wfCache, began) /\ began' = began
        /\ wf' = wf /\ born' = born
    BY <1>6 DEF SyncManage, SyncProceeds, clusterVars, wfStore, history
  <2>2. wfCache \in Workflow /\ OldCopy(wfCache, wf, Len(born))
    BY <2>1, VersionTypes DEF VersionsAgree, StoreVersions
  <2>3. NoRankFalls(wfCache, wfCache)
    BY <2>2, RankOfSame
  <2>4. HeldCopy(wfCache, wf, Len(born))
    BY <2>1, <2>2, <2>3 DEF OldCopy, HeldCopy
  <2> QED
    BY <2>1, <2>4 DEF WorkerVersion
<1>7. ASSUME AtStep, UNCHANGED <<pc, began, wf, born>>,
             local'.uid = local.uid, local'.rv = local.rv,
             NoRankFalls(local, local'), local'.conds = local.conds,
             local'.start = local.start, local' \in Workflow
      PROVE  WorkerVersion'
  <2>1. pc = "manage"
    BY <1>7 DEF AtStep
  <2>2. ~pastActiveDeadline(local', began')
    BY <1>1, <1>7, <2>1 DEF pastActiveDeadline
  <2>3. ASSUME wf # Nil, NoRankFalls(wf, local) PROVE NoRankFalls(wf, local')
    <3>1. \A x \in StepStatus : Rank(x) \in Nat
      BY DEF Rank, StepStatus
    <3>2. /\ wf.status \in [Steps -> StepStatus]
          /\ local.status \in [Steps -> StepStatus]
          /\ local'.status \in [Steps -> StepStatus]
      BY <1>1, <1>7, <2>1, <2>3, VersionTypes DEF Workflow
    <3> QED
      BY <1>7, <2>3, <3>1, <3>2 DEF NoRankFalls
  <2> QED
    BY <1>1, <1>7, <2>1, <2>2, <2>3 DEF HeldCopy, WorkerVersion
<1>8. ASSUME AtStep, UNCHANGED <<pc, began, wf, born>>,
             local' \in {local, WithStepLabels(local, CurrentStep)}
      PROVE  WorkerVersion'
  <2>1. pc = "manage" /\ local' \in Workflow
    BY <1>8, NextType DEF AtStep, TypeOK
  <2>2. NoRankFalls(local, local')
    BY <1>1, <1>8, <2>1, LoopLabels, RankOfSame
  <2> QED
    BY <1>7, <1>8, <2>1, <2>2, LoopLabels
<1>9. CASE StepComplete \/ StepExternal \/ StepBlocked \/ StepCreateJob
           \/ StepCreateFails \/ StepTooManyJobs
  BY <1>8, <1>9
  DEF StepComplete, StepExternal, StepBlocked, StepCreateJob, StepCreateFails,
      StepTooManyJobs, AtReadyStep, AtPendingStep, clusterVars, wfStore, history
<1>10. CASE StepObserveJob
  <2>1. AtStep /\ UNCHANGED <<pc, began, wf, born>>
    BY <1>10 DEF StepObserveJob, AtReadyStep, AtPendingStep, clusterVars, wfStore, history
  <2>2. local' \in Workflow
    BY <2>1, NextType DEF AtStep, TypeOK
  <2> QED
    BY <1>7, <1>10, <2>1, <2>2, ObserveForward
<1> QED
  BY <1>4, <1>5, <1>6, <1>9, <1>10 DEF Next, Worker, sync, manageWorkflow

LEMMA NextVersionsAgree ==
    ASSUME TypeOK, CopiesSound, VersionsAgree, [Next]_vars
    PROVE  StoreStep /\ VersionsAgree'
<1>1. StoreStep
  BY NextStoreStep
<1> QED
  BY <1>1, NextStoreVersions, NextWorkerVersion DEF VersionsAgree

(* Of two copies of a workflow the one with the older version is older, and  *)
(* equal versions are equal objects, wherever the copies are: the optimistic *)
(* concurrency of the API server, which updateWorkflow relies on.            *)
THEOREM CopiesOrdered == Spec => []VersionsAgree
<1>1. Init => VersionsAgree
  BY DEF Init, ClusterInit, VersionsAgree, StoreVersions, WorkerVersion
<1>2. TypeOK /\ CopiesSound /\ VersionsAgree /\ [Next]_vars => VersionsAgree'
  BY NextVersionsAgree
<1> QED
  BY <1>1, <1>2, TypeCorrect, CopiesAlwaysSound, PTL DEF Spec

--------------------------------------------------------------------------------
(* No write takes a status back.                                             *)

LEMMA FollowsForward ==
    ASSUME NEW w \in Workflow, NEW o \in Workflow, Follows(w, o)
    PROVE  /\ NoRankFalls(w, o)
           /\ Len(w.conds) <= Len(o.conds)
           /\ \A k \in DOMAIN w.conds : o.conds[k] = w.conds[k]
<1>1. w.conds \in Seq({"Complete", "Failed"})
  BY DEF Workflow
<1>2. \A c \in {"Complete", "Failed"} :
         /\ Len(w.conds) <= Len(Append(w.conds, c))
         /\ \A k \in DOMAIN w.conds : Append(w.conds, c)[k] = w.conds[k]
  BY <1>1
<1> QED
  BY <1>1, <1>2 DEF Follows

(* What StatusMonotone asks of a step. *)
Forward ==
    (wf # Nil /\ wf' # Nil /\ wf'.uid = wf.uid) =>
        /\ \A s \in Steps : Rank(wf.status[s]) <= Rank(wf'.status[s])
        /\ wf.start # Nil => wf'.start = wf.start
        /\ Len(wf.conds) <= Len(wf'.conds)
        /\ \A k \in DOMAIN wf.conds : wf'.conds[k] = wf.conds[k]

LEMMA StoreForward ==
    ASSUME TypeOK, StoreStep
    PROVE  Forward
<1> SUFFICES ASSUME wf # Nil, wf' # Nil, wf'.uid = wf.uid PROVE Forward
  BY DEF Forward
<1>1. wf \in Workflow
  BY VersionTypes
<1>2. CASE Published
  <2>1. PICK o \in Workflow : Follows(wf, o) /\ WriteWorkflow(o)
    BY <1>2 DEF Published
  <2>2. wf'.status = o.status /\ wf'.start = o.start /\ wf'.conds = o.conds
    BY <2>1 DEF WriteWorkflow, NextVersion, Workflow
  <2>3. wf.start # Nil => o.start = wf.start
    BY <2>1 DEF Follows
  <2> QED
    BY <1>1, <2>1, <2>2, <2>3, FollowsForward DEF NoRankFalls, Forward
<1>3. CASE Delivered \/ Untouched
  <2>1. wf' = wf /\ NoRankFalls(wf, wf)
    BY <1>1, <1>3, RankOfSame DEF Delivered, Untouched
  <2>2. Len(wf.conds) \in Nat
    BY <1>1 DEF Workflow
  <2> QED
    BY <2>1, <2>2 DEF NoRankFalls, Forward
<1> QED
  BY <1>2, <1>3 DEF StoreStep, Created, Removed, RemoveWorkflow

(* sync computes a status from a cached copy and updateWorkflow writes the   *)
(* whole object, yet steps only advance, the start time is set once and      *)
(* conditions are only added: an update that would take something back is    *)
(* one of an older version.                                                  *)
THEOREM StatusNeverFalls == Spec => StatusMonotone
<1>1. TypeOK /\ CopiesSound /\ VersionsAgree /\ [Next]_vars => [Forward]_vars
  BY NextStoreStep, StoreForward
<1> QED
  BY <1>1, TypeCorrect, CopiesAlwaysSound, CopiesOrdered, PTL
  DEF Spec, StatusMonotone, Forward

--------------------------------------------------------------------------------
(* No job after the deadline.                                                *)

(* What NoJobAfterDeadline asks of a step. *)
InTime ==
    (jobCount' > jobCount /\ wf # Nil /\ wf.uid = local.uid
       /\ wf.start # Nil /\ Deadline # Nil)
        => began < wf.start + Deadline

LEMMA JobInTime ==
    ASSUME TypeOK, VersionsAgree, [Next]_vars
    PROVE  InTime
<1> SUFFICES ASSUME jobCount' > jobCount, wf # Nil, wf.uid = local.uid,
                    wf.start # Nil, Deadline # Nil
             PROVE  began < wf.start + Deadline
  BY DEF InTime
<1>1. pc = "manage"
  BY OnlyStepCreatesJobs DEF StepCreateJob, AtReadyStep, AtPendingStep, AtStep
<1>2. wf.start = local.start /\ ~pastActiveDeadline(local, began)
  BY <1>1 DEF VersionsAgree, WorkerVersion, HeldCopy
<1>3. began \in Nat /\ Deadline \in Nat /\ wf.start \in Nat
  BY ClusterAssumption DEF TypeOK, ClusterTypeOK, Workflow
<1> QED
  BY <1>2, <1>3 DEF pastActiveDeadline

(* The deadline is looked at once, on a cached copy, before the loop         *)
(* (pastActiveDeadline); the start time it was looked at with is the one the *)
(* workflow has.                                                             *)
THEOREM NoJobAfterTheDeadline == Spec => NoJobAfterDeadline
<1>1. TypeOK /\ VersionsAgree /\ [Next]_vars => [InTime]_vars
  BY JobInTime
<1> QED
  BY <1>1, TypeCorrect, CopiesOrdered, PTL DEF Spec, NoJobAfterDeadline, InTime

--------------------------------------------------------------------------------
(* The refinement.                                                           *)

LEMMA ReportOf ==
    ASSUME NEW o \in Workflow
    PROVE  [status |-> o.status, conds |-> o.conds] # Nil
<1>1. o.status \in [Steps -> StepStatus] /\ o.conds \in Seq({"Complete", "Failed"})
  BY DEF Workflow
<1> QED
  BY <1>1, ReportAssumption

LEMMA RefinedInit == Init => Execution!Init
BY DEF Init, ClusterInit, Execution!Init, StepsRun, Report

(* A job that finishes is the end of its step, once. *)
LEMMA JobFinishesRefined ==
    ASSUME TypeOK, CopiesSound, NEW j \in jobs, JobFinishes(j)
    PROVE  [Execution!Next]_(Execution!executionVars)
<1>1. Step(j) \in Steps /\ Deps[Step(j)] \subseteq StepsRun
  BY DEF TypeOK, ClusterTypeOK, Job, JobLabelSet, Step, CopiesSound, JobsSound, SoundJob
<1>2. ran' = ran \cup {<<Step(j), j.uid>>} /\ Report' = Report
  BY DEF JobFinishes, wfStore, Report
<1>3. StepsRun' = StepsRun \cup {Step(j)}
  <2> DEFINE new == <<Step(j), j.uid>>
  <2>1. new[1] = Step(j)
    OBVIOUS
  <2>2. ran' = ran \cup {new}
    BY <1>2
  <2> HIDE DEF new
  <2> QED
    BY <2>1, <2>2 DEF StepsRun
<1>4. CASE Step(j) \in StepsRun
  BY <1>2, <1>3, <1>4 DEF Execution!executionVars
<1>5. CASE Step(j) \notin StepsRun
  <2>1. Execution!StepEnds(Step(j))
    BY <1>1, <1>2, <1>3, <1>5 DEF Execution!StepEnds
  <2> QED
    BY <1>1, <2>1 DEF Execution!Next
<1> QED
  BY <1>4, <1>5

(* Other steps leave what has run as it is. *)
LEMMA OnlyJobsRun ==
    ASSUME [Next]_vars, ~ \E j \in jobs : JobFinishes(j)
    PROVE  StepsRun' = StepsRun
<1>1. CASE Surroundings
  <2>1. ran' = ran
    BY <1>1 DEF Surroundings, Outside, Environment, UserCreate, UserEdit, UserDelete,
                Finalize, JobGone, Tick, CacheWorkflow, CacheJob, Resync, history
  <2> QED
    BY <2>1 DEF StepsRun
<1>2. CASE Handlers \/ RetryFires \/ GetItem \/ Restart \/ UNCHANGED vars
  <2>1. ran' = ran
    BY <1>2 DEF Handlers, onAddWorkflow, onUpdateWorkflow, onDeleteWorkflow, onJobEvent,
                RetryFires, GetItem, Restart, Relist, vars, clusterVars, history
  <2> QED
    BY <2>1 DEF StepsRun
<1>3. CASE sync
  <2>1. ran' = ran
    BY <1>3 DEF sync, SyncIgnored, SyncDefault, SyncInvalid, SyncStart, SyncDeadline,
                DeleteJob, CleanupReturns, SyncManage, OtherThanWorkflow, clusterVars, history
  <2> QED
    BY <2>1 DEF StepsRun
<1>4. CASE manageWorkflow
  <2>1. ran' = ran
    BY <1>4 DEF manageWorkflow, StepComplete, StepExternal, StepBlocked, StepCreateJob,
                StepCreateFails, StepObserveJob, StepTooManyJobs, FinishManage,
                OtherThanWorkflow, clusterVars, history
  <2> QED
    BY <2>1 DEF StepsRun
<1> QED
  BY <1>1, <1>2, <1>3, <1>4 DEF Next, Worker

(* A version written over another is an advance, or the deadline's failure. *)
LEMMA PublishedRefined ==
    ASSUME TypeOK, Published, WorkflowsSound', StepsRun' = StepsRun, wf' # Nil
    PROVE  Execution!Advance \/ Execution!Fail
<1>1. PICK o \in Workflow : Follows(wf, o) /\ WriteWorkflow(o)
  BY DEF Published
<1>2. wf # Nil /\ wf \in Workflow
  BY VersionTypes DEF Published
<1>3. wf' \in Workflow /\ wf'.status = o.status /\ wf'.conds = o.conds
  <2>1. wf' \in Workflow
    BY <1>1, WriteWorkflowType DEF TypeOK
  <2>2. wf' = [o EXCEPT !.rv = @ + 1]
    BY <1>1 DEF WriteWorkflow, NextVersion
  <2> QED
    BY <2>1, <2>2 DEF Workflow
<1>4. /\ Report = [status |-> wf.status, conds |-> wf.conds]
      /\ Report' = [status |-> o.status, conds |-> o.conds]
      /\ Report # Nil /\ Report' # Nil
  BY <1>2, <1>3, ReportOf DEF Report
<1>5. Execution!Truthful(Report'.status)
  <2>1. SoundWorkflow(StepsRun, wf')
    BY DEF WorkflowsSound
  <2> QED
    BY <1>3, <1>4, <2>1 DEF SoundWorkflow, Execution!Truthful
<1>6. \A s \in Steps : Execution!Level[Report.status[s]] <= Execution!Level[Report'.status[s]]
  BY <1>1, <1>4 DEF Follows, NoRankFalls, Rank, Execution!Level
<1>7. CASE o.conds = Append(wf.conds, "Failed") /\ o.status = wf.status
  <2> DEFINE C == Append(wf.conds, "Failed")
  <2>1. Report.conds = wf.conds /\ Report' = [status |-> wf.status, conds |-> C]
    BY <1>4, <1>7
  <2>2. [Report EXCEPT !.conds = C] = [status |-> wf.status, conds |-> C]
    <3> HIDE DEF C
    <3> QED
      BY <1>4
  <2>3. Report' = [Report EXCEPT !.conds = Append(Report.conds, "Failed")]
    BY <2>1, <2>2
  <2> QED
    BY <1>4, <2>3 DEF Execution!Fail
<1>8. CASE \/ o.conds = wf.conds
           \/ /\ o.conds = Append(wf.conds, "Complete")
              /\ \A s \in Steps : o.status[s] = "complete"
  BY <1>4, <1>5, <1>6, <1>8 DEF Execution!Advance
<1> QED
  BY <1>1, <1>7, <1>8 DEF Follows

LEMMA RefinedNext ==
    ASSUME TypeOK, CopiesSound, VersionsAgree, WorkflowsSound', [Next]_vars
    PROVE  [Execution!Next]_(Execution!executionVars)
<1>1. CASE \E j \in jobs : JobFinishes(j)
  BY <1>1, JobFinishesRefined
<1>2. CASE ~ \E j \in jobs : JobFinishes(j)
  <2>1. StoreStep /\ StepsRun' = StepsRun
    BY <1>2, NextStoreStep, OnlyJobsRun
  <2>2. CASE Report' = Report
    BY <2>1, <2>2 DEF Execution!executionVars
  <2>3. CASE Created /\ wf' # Nil
    <3>1. PICK s \in Submissions : WriteWorkflow(NewWorkflow(s))
      BY <2>3 DEF Created
    <3>2. Report' = [status |-> NoStatus, conds |-> <<>>]
      BY <2>3, <3>1 DEF WriteWorkflow, NextVersion, NewWorkflow, Report
    <3>3. Report = Nil
      BY <2>3 DEF Created, Report
    <3>4. Execution!Submit
      BY <3>2, <3>3 DEF Execution!Submit, Execution!NoNews, NoStatus
    <3> QED
      BY <2>1, <3>4 DEF Execution!Next
  <2>4. CASE wf # Nil /\ wf' = Nil
    <3>1. Report # Nil /\ Report' = Nil
      BY <2>4, VersionTypes, ReportOf DEF Report
    <3> QED
      BY <2>1, <3>1 DEF Execution!Next, Execution!Remove
  <2>5. CASE Published /\ wf' # Nil
    BY <2>1, <2>5, PublishedRefined DEF Execution!Next
  <2>6. CASE Delivered \/ Untouched
    BY <2>2, <2>6 DEF Delivered, Untouched, Report
  <2>7. CASE Created /\ wf' = Nil
    BY <2>2, <2>7 DEF Created, Report
  <2> QED
    BY <2>1, <2>3, <2>4, <2>5, <2>6, <2>7
    DEF StoreStep, Published, Removed, RemoveWorkflow
<1> QED
  BY <1>1, <1>2

(* The controller implements WorkflowExecution: for who reads the workflow   *)
(* and sees steps run, caches, queue, passes, conflicting and failed calls,  *)
(* edits and restarts are invisible.                                         *)
THEOREM ControllerImplementsExecution == Spec => ImplementsExecution
<1>1. Init => Execution!Init
  BY RefinedInit
<1>2. TypeOK /\ CopiesSound /\ VersionsAgree /\ WorkflowsSound' /\ [Next]_vars
         => [Execution!Next]_(Execution!executionVars)
  BY RefinedNext
<1>3. CopiesSound => WorkflowsSound
  BY DEF CopiesSound
<1> QED
  BY <1>1, <1>2, <1>3, TypeCorrect, CopiesAlwaysSound, CopiesOrdered, PTL
  DEF Spec, ImplementsExecution, Execution!Spec

--------------------------------------------------------------------------------
(* The collector beside the controller (WorkflowSystem): it shares the jobs  *)
(* with it and nothing else, and only marks them as deleted.                 *)

(* The job x when those of S have been marked. *)
Marked(S, x) == IF x \in S /\ ~x.deleting THEN [x EXCEPT !.deleting = TRUE] ELSE x

LEMMA MarkedSame ==
    ASSUME NEW x \in Job, NEW S
    PROVE  /\ Marked(S, x) \in Job
           /\ \A R : SoundJob(R, x) => SoundJob(R, Marked(S, x))
BY DEF Marked, Job, SoundJob, Step

(* An instance has a Cardinality of its own, which is the same. *)
LEMMA ListingOf ==
    ASSUME NEW S, IsFiniteSet(S), NEW f \in GC!Listings(S)
    PROVE  \E n \in Nat : f \in [1..n -> S]
<1>1. GC!Cardinality(S) = Cardinality(S)
  BY DEF GC!Cardinality, Cardinality
<1>2. f \in [1..Cardinality(S) -> S]
  BY <1>1 DEF GC!Listings
<1> QED
  BY <1>2, FS_CardinalityType

(* Jobs that are sound are so when they are marked, and so are the events. *)
LEMMA MarkDeletedJobs ==
    ASSUME TypeOK, JobsSound, IsFiniteSet(jobs), UNCHANGED <<ran, jobCache>>,
           NEW S \in SUBSET jobs, GC!MarkDeleted(S)
    PROVE  /\ jobs' \subseteq Job /\ IsFiniteSet(jobs')
           /\ jobWatch' \in Seq(JobEvent)
           /\ JobsSound'
<1> DEFINE doomed == {j \in S : ~j.deleting}
           mark(j) == [j EXCEPT !.deleting = TRUE]
<1>1. PICK f \in GC!Listings(doomed) :
         /\ jobs' = (jobs \ doomed) \cup {mark(j) : j \in doomed}
         /\ jobWatch' = jobWatch \o [k \in DOMAIN f |-> [type |-> "set", obj |-> mark(f[k])]]
  BY DEF GC!MarkDeleted
<1>2. /\ jobs \subseteq Job /\ jobWatch \in Seq(JobEvent) /\ StepsRun' = StepsRun
      /\ \A j \in jobs \cup jobCache : SoundJob(StepsRun, j)
      /\ \A k \in 1..Len(jobWatch) : SoundJob(StepsRun, jobWatch[k].obj)
  BY DEF TypeOK, ClusterTypeOK, JobsSound, StepsRun
<1>3. jobs' = {Marked(S, x) : x \in jobs}
  BY <1>1 DEF Marked
<1>4. IsFiniteSet(jobs')
  <2> DEFINE g == [x \in jobs |-> Marked(S, x)]
  <2>1. g \in Surjection(jobs, jobs')
    BY <1>3 DEF Surjection
  <2> QED
    BY <2>1, FS_Surjection
<1>5. jobs' \subseteq Job /\ \A j \in jobs' : SoundJob(StepsRun, j)
  BY <1>2, <1>3, MarkedSame
<1>6. IsFiniteSet(doomed)
  BY FS_Subset
<1>7. PICK n \in Nat : f \in [1..n -> doomed]
  BY <1>1, <1>6, ListingOf
<1> DEFINE e == [k \in 1..n |-> [type |-> "set", obj |-> mark(f[k])]]
<1>8. \A j \in doomed : mark(j) \in Job /\ SoundJob(StepsRun, mark(j))
  <2>1. \A j \in doomed : mark(j) = Marked(S, j) /\ j \in Job /\ SoundJob(StepsRun, j)
    BY <1>2 DEF Marked
  <2> HIDE DEF mark
  <2> QED
    BY <2>1, MarkedSame
<1>9. \A k \in 1..n : /\ [type |-> "set", obj |-> mark(f[k])] \in JobEvent
                      /\ SoundJob(StepsRun, mark(f[k]))
  <2>1. \A k \in 1..n : mark(f[k]) \in Job /\ SoundJob(StepsRun, mark(f[k]))
    BY <1>7, <1>8
  <2> HIDE DEF mark
  <2> QED
    BY <2>1 DEF JobEvent
<1>10. jobWatch' = jobWatch \o e
  BY <1>1, <1>7
<1>11. e \in Seq(JobEvent) /\ Len(e) = n
  BY <1>9
<1>12. \A k \in 1..n : e[k].obj = mark(f[k])
  OBVIOUS
<1> HIDE DEF e, mark, doomed
<1>13. /\ jobWatch' \in Seq(JobEvent)
       /\ \A k \in 1..Len(jobWatch') :
             \/ k \in 1..Len(jobWatch) /\ jobWatch'[k] = jobWatch[k]
             \/ k - Len(jobWatch) \in 1..n /\ jobWatch'[k] = e[k - Len(jobWatch)]
  BY <1>2, <1>10, <1>11
<1>14. \A k \in 1..Len(jobWatch') : SoundJob(StepsRun, jobWatch'[k].obj)
  BY <1>2, <1>9, <1>12, <1>13
<1> QED
  BY <1>2, <1>4, <1>5, <1>13, <1>14 DEF JobsSound

(* What a step of the collector does to the jobs: it marks some of them, or  *)
(* none.                                                                     *)
LEMMA CollectSteps ==
    ASSUME GC!Collect
    PROVE  \/ UNCHANGED jobs /\ UNCHANGED jobWatch
           \/ \E S \in SUBSET jobs : GC!MarkDeleted(S)
BY DEF GC!Collect, GC!CacheSynced, GC!ListJobs, GC!ListFails, GC!SkipItem,
       GC!LookInCache, GC!OwnerNotFound, GC!OwnerNotMissing, GC!DeleteCollection,
       GC!DeleteCollectionFails, GC!Named

LEMMA CollectFaults ==
    ASSUME GC!Collect, faults \in Nat
    PROVE  faults' \in Nat
<1>1. UNCHANGED faults \/ GC!CallFails
  BY DEF GC!Collect, GC!CacheSynced, GC!ListJobs, GC!ListFails, GC!SkipItem,
         GC!LookInCache, GC!OwnerNotFound, GC!OwnerNotMissing, GC!DeleteCollection,
         GC!DeleteCollectionFails
<1> QED
  BY <1>1 DEF GC!CallFails

(* The controller creates and removes one job at a time. *)
LEMMA JobWrites ==
    ASSUME [Next]_vars
    PROVE  UNCHANGED jobs \/ \E j : WriteJob(j) \/ RemoveJob(j)
<1>1. CASE Surroundings
  BY <1>1 DEF Surroundings, Outside, Environment, UserCreate, UserEdit, UserDelete,
              Finalize, JobFinishes, JobGone, Tick, CacheWorkflow, CacheJob, Resync,
              jobStore
<1>2. CASE Handlers \/ RetryFires \/ GetItem \/ Restart \/ UNCHANGED vars
  BY <1>2 DEF Handlers, onAddWorkflow, onUpdateWorkflow, onDeleteWorkflow, onJobEvent,
              RetryFires, GetItem, Restart, Relist, vars, clusterVars, jobStore
<1>3. CASE sync
  BY <1>3 DEF sync, SyncIgnored, SyncDefault, SyncInvalid, SyncStart, SyncDeadline,
              DeleteJob, CleanupReturns, SyncManage, OtherThanWorkflow, clusterVars,
              jobStore
<1>4. CASE manageWorkflow
  BY <1>4 DEF manageWorkflow, StepComplete, StepExternal, StepBlocked, StepCreateJob,
              StepCreateFails, StepObserveJob, StepTooManyJobs, FinishManage,
              OtherThanWorkflow, clusterVars, jobStore
<1> QED
  BY <1>1, <1>2, <1>3, <1>4 DEF Next, Worker

LEMMA JobsStayFinite ==
    ASSUME IsFiniteSet(jobs), [Next]_vars
    PROVE  IsFiniteSet(jobs')
<1>1. ASSUME NEW j, WriteJob(j) PROVE IsFiniteSet(jobs')
  <2>1. IsFiniteSet({x \in jobs : x.id # j.id})
    BY FS_Subset
  <2> QED
    BY <1>1, <2>1, FS_AddElement DEF WriteJob
<1>2. ASSUME NEW j, RemoveJob(j) PROVE IsFiniteSet(jobs')
  BY <1>2, FS_Subset DEF RemoveJob
<1> QED
  BY <1>1, <1>2, JobWrites

(* WorkflowSystem leaves restarts out. *)
LEMMA NotRestart ==
    ASSUME TypeOK, Surroundings \/ Handlers \/ RetryFires \/ Worker
    PROVE  ~Restart
<1>1. restarts \in Nat
  BY DEF TypeOK
<1>2. UNCHANGED restarts
  <2>1. CASE Surroundings
    BY <2>1 DEF Surroundings, Outside
  <2>2. CASE Handlers \/ RetryFires \/ GetItem
    BY <2>2 DEF Handlers, onAddWorkflow, onUpdateWorkflow, onDeleteWorkflow, onJobEvent,
                RetryFires, GetItem
  <2>3. CASE sync
    BY <2>3 DEF sync, SyncIgnored, SyncDefault, SyncInvalid, SyncStart, SyncDeadline,
                DeleteJob, CleanupReturns, SyncManage, OtherThanWorkflow
  <2>4. CASE manageWorkflow
    BY <2>4 DEF manageWorkflow, StepComplete, StepExternal, StepBlocked, StepCreateJob,
                StepCreateFails, StepObserveJob, StepTooManyJobs, FinishManage,
                OtherThanWorkflow
  <2> QED
    BY <2>1, <2>2, <2>3, <2>4 DEF Worker
<1> QED
  BY <1>1, <1>2 DEF Restart

(* What every step of the system keeps. *)
SystemInv ==
    /\ TypeOK /\ IsFiniteSet(jobs)
    /\ CopiesSound /\ VersionsAgree /\ FirstsKept

LEMMA SystemSteps ==
    ASSUME TypeOK, [SystemNext]_systemVars
    PROVE  ([Next]_vars /\ ~Restart) \/ CollectWorkflowJobs
<1>1. CASE UNCHANGED systemVars
  BY <1>1 DEF systemVars, vars, Restart, TypeOK
<1>2. CASE Surroundings \/ Handlers \/ RetryFires \/ Worker
  BY <1>2, NotRestart DEF Next
<1> QED
  BY <1>1, <1>2 DEF SystemNext

(* The collector touches the jobs, their watch and the faults. *)
BesideJobs ==
    UNCHANGED <<wf, wfWatch, born, wfCache, wfNotes, ran, edits, jobCount, jobCache, pc,
                local, began, i, complete>>

LEMMA CollectorBesideJobs ==
    ASSUME CollectWorkflowJobs
    PROVE  BesideJobs
BY DEF CollectWorkflowJobs, BesideJobs, wfStore, caches, history, worker

LEMMA CollectorKeeps ==
    ASSUME SystemInv, CollectWorkflowJobs
    PROVE  SystemInv'
<1> USE DEF SystemInv
<1>1. BesideJobs
  BY CollectorBesideJobs
<1>2. /\ jobs' \subseteq Job /\ IsFiniteSet(jobs')
      /\ jobWatch' \in Seq(JobEvent)
      /\ JobsSound'
  <2>1. UNCHANGED <<ran, jobCache>> /\ GC!Collect
    BY <1>1 DEF BesideJobs, CollectWorkflowJobs
  <2>2. CASE UNCHANGED jobs /\ UNCHANGED jobWatch
    BY <2>1, <2>2 DEF TypeOK, ClusterTypeOK, CopiesSound, JobsSound, StepsRun
  <2>3. CASE \E S \in SUBSET jobs : GC!MarkDeleted(S)
    BY <2>1, <2>3, MarkDeletedJobs DEF CopiesSound
  <2> QED
    BY <2>1, <2>2, <2>3, CollectSteps
<1>3. TypeOK'
  <2>1. faults' \in Nat
    BY CollectFaults DEF CollectWorkflowJobs, TypeOK, ClusterTypeOK
  <2> QED
    BY <1>2, <2>1
    DEF CollectWorkflowJobs, TypeOK, ClusterTypeOK, wfStore, caches, history, queue,
        worker, cleanup
<1>4. CopiesSound'
  BY <1>1, <1>2
  DEF BesideJobs, CopiesSound, WorkflowsSound, WorkerSound, StepsRun
<1>5. VersionsAgree'
  BY <1>1 DEF BesideJobs, VersionsAgree, StoreVersions, WorkerVersion
<1>6. FirstsKept'
  BY <1>1
  DEF BesideJobs, FirstsKept, NumberedByBirth, FirstUnedited, CopiesUnedited, Unedited,
      AsCreated
<1> QED
  BY <1>2, <1>3, <1>4, <1>5, <1>6

LEMMA SystemAlwaysInv == SystemSpec => []SystemInv
<1>1. SystemInit => SystemInv
  <2>1. Init => TypeOK
    BY InitType
  <2>2. Init => IsFiniteSet(jobs)
    BY FS_EmptySet DEF Init, ClusterInit
  <2>3. Init => CopiesSound
    BY DEF Init, ClusterInit, CopiesSound, WorkflowsSound, JobsSound, WorkerSound
  <2>4. Init => VersionsAgree
    BY DEF Init, ClusterInit, VersionsAgree, StoreVersions, WorkerVersion
  <2> QED
    BY <2>1, <2>2, <2>3, <2>4, InitFirsts DEF SystemInit, SystemInv
<1>2. SystemInv /\ [SystemNext]_systemVars => SystemInv'
  <2> SUFFICES ASSUME SystemInv, [SystemNext]_systemVars PROVE SystemInv'
    OBVIOUS
  <2>1. CASE [Next]_vars /\ ~Restart
    <3>1. TypeOK' /\ VersionsAgree' /\ FirstsKept'
      BY <2>1, NextType, NextVersionsAgree, FirstsStay DEF SystemInv
    <3>2. CopiesSound'
      BY <2>1, NextWorkflowsSound, NextJobsSound, NextWorkerSound DEF SystemInv, CopiesSound
    <3> QED
      BY <2>1, <3>1, <3>2, JobsStayFinite DEF SystemInv
  <2>2. CASE CollectWorkflowJobs
    BY <2>2, CollectorKeeps
  <2> QED
    BY <2>1, <2>2, SystemSteps DEF SystemInv
<1> QED
  BY <1>1, <1>2, PTL DEF SystemSpec

(* Beside the collector, too, every copy of the workflow and of its jobs is  *)
(* right about what has run: dependencies are honoured, and the published    *)
(* status never runs ahead of the jobs.                                      *)
THEOREM SystemCopiesSound == SystemSpec => [](CopiesSound /\ DependencyOrder /\ StatusSound)
<1>1. SystemInv => CopiesSound /\ DependencyOrder /\ StatusSound
  BY DEF SystemInv, CopiesSound, JobsSound, SoundJob, DependencyOrder,
         WorkflowsSound, SoundWorkflow, StatusSound
<1> QED
  BY <1>1, SystemAlwaysInv, PTL

(* Nor does the collector bring the controller to take a status back or to   *)
(* create a job after the deadline: it changes no workflow.                  *)
THEOREM SystemKeepsStatus == SystemSpec => StatusMonotone /\ NoJobAfterDeadline
<1>1. SystemInv /\ [SystemNext]_systemVars => [Forward /\ InTime]_vars
  <2> SUFFICES ASSUME SystemInv, [SystemNext]_systemVars PROVE [Forward /\ InTime]_vars
    OBVIOUS
  <2>1. CASE [Next]_vars
    BY <2>1, NextStoreStep, StoreForward, JobInTime DEF SystemInv
  <2>2. CASE CollectWorkflowJobs
    <3>1. BesideJobs
      BY <2>2, CollectorBesideJobs
    <3>2. Forward
      BY <3>1, StoreForward DEF SystemInv, BesideJobs, StoreStep, Untouched
    <3>3. InTime
      BY <3>1 DEF InTime, BesideJobs, SystemInv, TypeOK, ClusterTypeOK
    <3> QED
      BY <3>2, <3>3
  <2> QED
    BY <2>1, <2>2, SystemSteps DEF SystemInv
<1> QED
  BY <1>1, SystemAlwaysInv, PTL
  DEF SystemSpec, StatusMonotone, NoJobAfterDeadline, Forward, InTime

(* A workflow that nobody edits is removed only if it is invalid or was      *)
(* created with a status (sync, onAddWorkflow): the collector removes jobs   *)
(* only, and has no part in what the cache gets first.  WorkflowSystem       *)
(* leaves restarts out, after which it would not hold.                       *)
THEOREM SystemRemovesBadOnly == SystemSpec => OnlyBadWorkflowsRemoved
<1>1. SystemInv /\ [SystemNext]_systemVars => [BadRemoved]_vars
  <2> SUFFICES ASSUME SystemInv, [SystemNext]_systemVars PROVE BadRemoved
    OBVIOUS
  <2>1. CASE [Next]_vars /\ ~Restart
    BY <2>1, RemovedIsBad DEF SystemInv
  <2>2. CASE CollectWorkflowJobs
    BY <2>2, CollectorBesideJobs DEF BesideJobs, BadRemoved
  <2> QED
    BY <2>1, <2>2, SystemSteps DEF SystemInv
<1> QED
  BY <1>1, SystemAlwaysInv, PTL DEF SystemSpec, OnlyBadWorkflowsRemoved, BadRemoved

(* For who reads the workflow and sees steps run, the collector is           *)
(* invisible.                                                                *)
THEOREM SystemImplementsExecution == SystemSpec => ImplementsExecution
<1>1. SystemInit => Execution!Init
  BY RefinedInit DEF SystemInit
<1>2. SystemInv /\ SystemInv' /\ [SystemNext]_systemVars
         => [Execution!Next]_(Execution!executionVars)
  <2> SUFFICES ASSUME SystemInv, SystemInv', [SystemNext]_systemVars
               PROVE  [Execution!Next]_(Execution!executionVars)
    OBVIOUS
  <2>1. CASE [Next]_vars
    <3>1. WorkflowsSound'
      BY DEF SystemInv, CopiesSound
    <3> QED
      BY <2>1, <3>1, RefinedNext DEF SystemInv
  <2>2. CASE CollectWorkflowJobs
    BY <2>2, CollectorBesideJobs
    DEF BesideJobs, Execution!executionVars, Report, StepsRun
  <2> QED
    BY <2>1, <2>2, SystemSteps DEF SystemInv
<1> QED
  BY <1>1, <1>2, SystemAlwaysInv, PTL DEF SystemSpec, ImplementsExecution, Execution!Spec

================================================================================

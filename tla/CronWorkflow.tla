------------------------------ MODULE CronWorkflow ------------------------------
(***************************************************************************)
(* The CronWorkflow controller (pkg/controller/cronworkflow.go,            *)
(* cronworkflow_util.go), one or several of them: nothing elects a leader, *)
(* and a rolling update runs two.  Every 10 seconds syncAll lists the      *)
(* workflows and then the CronWorkflows; for each of these it tidies the   *)
(* list of active workflows, writes it back and starts the workflow of the *)
(* most recent scheduled time that is due.                                 *)
(*                                                                         *)
(* Nothing remembers which times were started: the name of a workflow is   *)
(* made of its CronWorkflow's and its scheduled time, and the API server   *)
(* refuses a second one of a name.                                         *)
(***************************************************************************)
EXTENDS Integers, FiniteSets, FiniteSetsExt

CONSTANTS
    CronWorkflows,   \* names
    Controllers,     \* processes that run the controller
    Children,        \* workflows that users make a CronWorkflow's own
    Submissions,     \* [CronWorkflows -> sets of what users may ask for]
    Nil,
    MissedLimit,     \* 100 in the code
    \* Bounds
    MaxTime,         \* the clock's last reading
    MaxEdits,        \* users' changes, and CronWorkflows that they add
    MaxFaults        \* API calls that fail and controllers that restart

Times == 0..MaxTime

(* A schedule is the set of times it fires at.  Nil is one that cannot be    *)
(* parsed, or that never fires: sched.Next then returns year 1, which is     *)
(* counted as missed over and over.                                          *)
CronWorkflowSpec ==
    [schedule : (SUBSET Times) \cup {Nil}, startingDeadline : Nat \cup {Nil},
     suspend : BOOLEAN, active : SUBSET Children, last : Times \cup {Nil}]

(* The status is among what users ask for: a CronWorkflow may be restored.   *)
CronWorkflow ==
    [name : CronWorkflows, uid : Nat, created : Times, rv : Nat, deleting : BOOLEAN,
     spec : CronWorkflowSpec]

(* A workflow of this controller carries its scheduled time in its name and  *)
(* no owner reference; `time' is history.                                    *)
Workflow ==
    [name : (CronWorkflows \X Times) \cup Children, time : Times \cup {Nil},
     owner : Nat \cup {Nil}, finished : BOOLEAN]

ASSUME CronAssumption ==
    /\ {MissedLimit, MaxTime, MaxEdits, MaxFaults} \subseteq Nat
    /\ \A c \in CronWorkflows : Submissions[c] # {} /\ Submissions[c] \subseteq CronWorkflowSpec
    /\ Nil \notin CronWorkflow

VARIABLES
    \* the API server and its users
    cronWorkflows, workflows, now, uids, edits, faults,
    \* the controllers: where each one is in syncAll,
    pc,              \* "idle", "listed", "sync" or "create"
    children,        \* listed workflows that a CronWorkflow controls
    todo,            \* listed CronWorkflows still to be synced
    updated,         \* updatedCronWorkflow, or Nil
    began            \* the time syncOne was called with

store == <<cronWorkflows, workflows, now, uids, edits, faults>>
round == <<pc, children, todo, updated, began>>
vars == <<store, round>>

NewCronWorkflow(c, uid, s) ==
    [name |-> c, uid |-> uid, created |-> now, rv |-> 1, deleting |-> FALSE, spec |-> s]

--------------------------------------------------------------------------------
(* The rest of the world.                                                    *)

NoFault == UNCHANGED faults
Fault == faults < MaxFaults /\ faults' = faults + 1

Tick ==
    /\ now < MaxTime
    /\ now' = now + 1
    /\ UNCHANGED <<cronWorkflows, workflows, uids, edits, faults>>

UserEdits == edits < MaxEdits /\ edits' = edits + 1

Submit(c) ==
    /\ \A cw \in cronWorkflows : cw.name # c
    /\ uids <= MaxEdits
    /\ \E s \in Submissions[c] :
          cronWorkflows' = cronWorkflows \cup {NewCronWorkflow(c, uids + 1, s)}
    /\ uids' = uids + 1
    /\ UNCHANGED <<workflows, now, edits, faults>>

Replaced(old, new) == (cronWorkflows \ {old}) \cup {new}

Edit(cw) ==
    /\ UserEdits
    /\ \E s \in Submissions[cw.name] :
          /\ s # cw.spec
          /\ cronWorkflows' = Replaced(cw, [cw EXCEPT !.spec = s, !.rv = @ + 1])
    /\ UNCHANGED <<workflows, now, uids, faults>>

(* A CronWorkflow with a finalizer stays for a while. *)
Delete(cw) ==
    /\ ~cw.deleting
    /\ UserEdits
    /\ \/ cronWorkflows' = cronWorkflows \ {cw}
       \/ cronWorkflows' = Replaced(cw, [cw EXCEPT !.deleting = TRUE, !.rv = @ + 1])
    /\ UNCHANGED <<workflows, now, uids, faults>>

Gone(cw) ==
    /\ cw.deleting
    /\ cronWorkflows' = cronWorkflows \ {cw}
    /\ UNCHANGED <<workflows, now, uids, edits, faults>>

(* A user makes a workflow that the CronWorkflow controls and lists it. *)
Adopt(cw, x) ==
    /\ \A w \in workflows : w.name # x
    /\ UserEdits
    /\ workflows' = workflows \cup
           {[name |-> x, time |-> Nil, owner |-> cw.uid, finished |-> FALSE]}
    /\ cronWorkflows' =
           Replaced(cw, [cw EXCEPT !.spec.active = @ \cup {x}, !.rv = @ + 1])
    /\ UNCHANGED <<now, uids, faults>>

(* Of the others, nothing here asks whether they have finished. *)
WorkflowFinishes(w) ==
    /\ w.owner # Nil /\ ~w.finished
    /\ workflows' = (workflows \ {w}) \cup {[w EXCEPT !.finished = TRUE]}
    /\ UNCHANGED <<cronWorkflows, now, uids, edits, faults>>

DeleteWorkflow(w) ==
    /\ UserEdits
    /\ workflows' = workflows \ {w}
    /\ UNCHANGED <<cronWorkflows, now, uids, faults>>

Environment ==
    /\ \/ Tick
       \/ \E c \in CronWorkflows : Submit(c)
       \/ \E cw \in cronWorkflows :
             Edit(cw) \/ Delete(cw) \/ Gone(cw) \/ \E x \in Children : Adopt(cw, x)
       \/ \E w \in workflows : WorkflowFinishes(w) \/ DeleteWorkflow(w)
    /\ UNCHANGED round

--------------------------------------------------------------------------------
(* getRecentUnmetScheduleTimes.                                              *)

EarliestTime(cw, t) ==
    LET since == IF cw.spec.last = Nil THEN cw.created ELSE cw.spec.last
    IN  IF cw.spec.startingDeadline = Nil THEN since
        ELSE Max({since, t - cw.spec.startingDeadline})

UnmetTimes(cw, t) == {x \in cw.spec.schedule : EarliestTime(cw, t) < x /\ x <= t}

TooManyMissed(cw, t) ==
    cw.spec.schedule # Nil /\ Cardinality(UnmetTimes(cw, t)) > MissedLimit

(* The times are known, and there is one. *)
TimesKnown(cw, t) ==
    /\ cw.spec.schedule # Nil
    /\ ~TooManyMissed(cw, t)
    /\ UnmetTimes(cw, t) # {}

MutantScheduledTime(cw, t) == Min(UnmetTimes(cw, t))

(* The most recent one is to be started. *)
scheduledTime(cw, t) == Max(UnmetTimes(cw, t))

--------------------------------------------------------------------------------
(* syncAll and syncOne of the controller r.                                  *)

(* groupWorkflowsByCronWorkflows: those that a CronWorkflow controls.        *)
Grouped == {w \in workflows : w.owner # Nil}

ListWorkflows(r) ==
    /\ pc[r] = "idle"
    /\ pc' = [pc EXCEPT ![r] = "listed"]
    /\ children' = [children EXCEPT ![r] = Grouped]
    /\ UNCHANGED <<store, todo, updated, began>>

ResetRound(r) ==
    /\ pc' = [pc EXCEPT ![r] = "idle"]
    /\ children' = [children EXCEPT ![r] = {}]
    /\ todo' = [todo EXCEPT ![r] = {}]
    /\ updated' = [updated EXCEPT ![r] = Nil]
    /\ began' = [began EXCEPT ![r] = 0]

(* Either listing fails, and with it the round. *)
ListFails(r) ==
    /\ pc[r] \in {"idle", "listed"}
    /\ Fault
    /\ ResetRound(r)
    /\ UNCHANGED <<cronWorkflows, workflows, now, uids, edits>>

ListCronWorkflows(r) ==
    /\ pc[r] = "listed"
    /\ pc' = [pc EXCEPT ![r] = "sync"]
    /\ todo' = [todo EXCEPT ![r] = cronWorkflows]
    /\ UNCHANGED <<store, children, updated, began>>

MutantStillActive(cw, ws) ==
    {x \in cw.spec.active :
        \E w \in ws : w.name = x /\ w.owner = cw.uid}

(* inActiveList and deleteFromActiveList: listed children of the             *)
(* CronWorkflow that are unfinished stay.                                    *)
StillActive(cw, ws) ==
    {x \in cw.spec.active :
        \E w \in ws : w.name = x /\ w.owner = cw.uid /\ ~w.finished}

(* An update that changes nothing leaves the version.  One that the API      *)
(* server takes may look failed to the caller.                               *)
UpdateStatus(r, cw) ==
    LET tidy == StillActive(cw, children[r])
        new == IF tidy = cw.spec.active THEN cw
               ELSE [cw EXCEPT !.spec.active = tidy, !.rv = @ + 1]
        Writes == cw \in cronWorkflows /\ cronWorkflows' = Replaced(cw, new)
        Proceeds == /\ updated' = [updated EXCEPT ![r] = new]
                    /\ began' = [began EXCEPT ![r] = now]
                    /\ pc' = [pc EXCEPT ![r] = "create"]
        Returns == UNCHANGED <<updated, began, pc>>
    IN  /\ pc[r] = "sync"
        /\ \/ Writes /\ NoFault /\ Proceeds
           \/ Writes /\ Fault /\ Returns
           \/ cw \notin cronWorkflows /\ UNCHANGED cronWorkflows /\ NoFault /\ Returns
           \/ UNCHANGED cronWorkflows /\ Fault /\ Returns
        /\ todo' = [todo EXCEPT ![r] = @ \ {cw}]
        /\ UNCHANGED <<workflows, now, uids, edits, children>>

MutantNextCronWorkflow(r) ==
    /\ updated' = [updated EXCEPT ![r] = Nil]
    /\ began' = [began EXCEPT ![r] = 0]
    /\ UNCHANGED <<pc, children, todo>>

(* syncOne returns. *)
NextCronWorkflow(r) ==
    /\ pc' = [pc EXCEPT ![r] = "sync"]
    /\ updated' = [updated EXCEPT ![r] = Nil]
    /\ began' = [began EXCEPT ![r] = 0]
    /\ UNCHANGED <<children, todo>>

Startable(cw, t) == ~cw.deleting /\ ~cw.spec.suspend /\ TimesKnown(cw, t)

(* Being deleted or suspended, without a schedule that can be followed, with *)
(* too many times or with none: nothing is started.                          *)
StartNothing(r) ==
    /\ pc[r] = "create"
    /\ ~Startable(updated[r], began[r])
    /\ NextCronWorkflow(r)
    /\ UNCHANGED store

MutantGeneratedName(cw, scheduled, t) == <<cw.name, t>>

generatedName(cw, scheduled, t) == <<cw.name, scheduled>>

(* The workflow of the most recent time is created.  The reply is only       *)
(* logged: it may be an error, that the name is taken or that the call       *)
(* failed.                                                                   *)
CreateWorkflow(r) ==
    LET t == scheduledTime(updated[r], began[r])
        name == generatedName(updated[r], t, began[r])
        taken == \E w \in workflows : w.name = name
    IN  /\ pc[r] = "create"
        /\ Startable(updated[r], began[r])
        /\ \/ /\ ~taken /\ NoFault
              /\ workflows' = workflows \cup
                     {[name |-> name, time |-> t, owner |-> Nil, finished |-> FALSE]}
           \/ taken /\ NoFault /\ UNCHANGED workflows
           \/ Fault /\ UNCHANGED workflows
        /\ NextCronWorkflow(r)
        /\ UNCHANGED <<cronWorkflows, now, uids, edits>>

(* All CronWorkflows of the listing are done; 10 seconds go by. *)
EndRound(r) ==
    /\ pc[r] = "sync"
    /\ todo[r] = {}
    /\ ResetRound(r)
    /\ UNCHANGED store

Restart(r) ==
    /\ pc[r] # "idle"
    /\ Fault
    /\ ResetRound(r)
    /\ UNCHANGED <<cronWorkflows, workflows, now, uids, edits>>

syncOne(r) ==
    \/ \E cw \in todo[r] : UpdateStatus(r, cw)
    \/ StartNothing(r) \/ CreateWorkflow(r)

syncAll(r) ==
    ListWorkflows(r) \/ ListFails(r) \/ ListCronWorkflows(r) \/ syncOne(r) \/ EndRound(r)

--------------------------------------------------------------------------------
(* Any CronWorkflows may exist when the controllers start. *)
Init ==
    /\ now = 0 /\ uids = 1 /\ edits = 0 /\ faults = 0
    /\ \E C \in SUBSET CronWorkflows :
          \E f \in [C -> UNION {Submissions[c] : c \in C}] :
             /\ \A c \in C : f[c] \in Submissions[c]
             /\ cronWorkflows = {NewCronWorkflow(c, 1, f[c]) : c \in C}
    /\ workflows = {}
    /\ pc = [r \in Controllers |-> "idle"]
    /\ children = [r \in Controllers |-> {}]
    /\ todo = [r \in Controllers |-> {}]
    /\ updated = [r \in Controllers |-> Nil]
    /\ began = [r \in Controllers |-> 0]

Next ==
    \/ Environment
    \/ \E r \in Controllers : syncAll(r) \/ Restart(r)

Spec == Init /\ [][Next]_vars

(* Time passes and each controller's loop runs on; nothing is asked of users *)
(* and of workflows.                                                         *)
FairSpec ==
    /\ Spec
    /\ WF_vars(Tick /\ UNCHANGED round)
    /\ \A r \in Controllers : WF_vars(syncAll(r))

--------------------------------------------------------------------------------
(* Properties.                                                               *)

(* Type invariant. *)
TypeOK ==
    /\ cronWorkflows \subseteq CronWorkflow
    /\ \A v, w \in cronWorkflows : v.name = w.name => v = w
    /\ workflows \subseteq Workflow
    /\ now \in Times /\ {uids, edits, faults} \subseteq Nat
    /\ pc \in [Controllers -> {"idle", "listed", "sync", "create"}]
    /\ children \in [Controllers -> SUBSET Workflow]
    /\ todo \in [Controllers -> SUBSET CronWorkflow]
    /\ updated \in [Controllers -> CronWorkflow \cup {Nil}]
    /\ \A r \in Controllers : pc[r] = "create" => updated[r] # Nil
    /\ began \in [Controllers -> Times]

(* No scheduled time is started twice, although nothing records which ones   *)
(* were: not by two controllers in the same round, not after a reply that    *)
(* got lost, a restart, an edit or a CronWorkflow recreated under its name   *)
(* (inferrWorkflowDefinitionFromCronWorkflow).  A workflow that users delete *)
(* is started again, but never beside another of its time.                   *)
StartedOnce ==
    \A v, w \in workflows :
        (v.time # Nil /\ v.time = w.time /\ v.name[1] = w.name[1]) => v = w

Started(c, t) == \E w \in workflows : w.name \notin Children /\ w.name[1] = c /\ w.time = t

(* The scheduled times that have come since cw was created or last           *)
(* scheduled, and are not past their deadline.                               *)
Due(cw) ==
    {t \in cw.spec.schedule :
        /\ t <= now
        /\ t > IF cw.spec.last = Nil THEN cw.created ELSE cw.spec.last
        /\ cw.spec.startingDeadline # Nil => t > now - cw.spec.startingDeadline}

(* Again and again every time that is due has been started, or a later one   *)
(* in its place: failing calls, updates that conflict with users' and a      *)
(* second controller only delay it (syncAll, syncOne).                       *)
DueIsStarted ==
    []<>(\A cw \in cronWorkflows :
            (/\ ~cw.deleting /\ ~cw.spec.suspend /\ cw.spec.schedule # Nil
             /\ Cardinality(Due(cw)) <= MissedLimit)
                => \A t \in Due(cw) : \E u \in Times : u >= t /\ Started(cw.name, u))

(* Children that finished or disappeared leave the list of active workflows, *)
(* whatever round the list was read in (StillActive, UpdateStatus).          *)
ActiveListSettles ==
    []<>(\A cw \in cronWorkflows : \A x \in cw.spec.active :
            \E w \in workflows : w.name = x /\ ~w.finished)

================================================================================

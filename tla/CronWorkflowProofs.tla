---------------------------- MODULE CronWorkflowProofs ----------------------------
(***************************************************************************)
(* Theorems about the CronWorkflow controllers, for any number of them,    *)
(* any schedules and any number of edits and faults: the types, and that   *)
(* no scheduled time is started twice.                                     *)
(***************************************************************************)
EXTENDS CronWorkflow, FiniteSetTheorems, WellFoundedInduction, TLAPS

--------------------------------------------------------------------------------
(* A non-empty set of the clock's times has a last one.  The sets of the     *)
(* times after x, for x in S, are finite; one of them has no other below it  *)
(* and is empty.                                                             *)
LEMMA LastTime ==
    ASSUME NEW S \in SUBSET Times, S # {}
    PROVE  Max(S) \in S
<1> DEFINE After(x) == {y \in S : y > x}
           F == {After(x) : x \in S}
<1>1. MaxTime \in Nat /\ S \subseteq Nat /\ \A x \in S : x <= MaxTime
  BY CronAssumption DEF Times
<1>2. IsFiniteSet(S)
  BY <1>1, FS_BoundedSetOfNaturals
<1>3. F \subseteq FiniteSubsetsOf(S)
  <2>1. \A x \in S : After(x) \in SUBSET S
    OBVIOUS
  <2>2. \A x \in S : IsFiniteSet(After(x))
    BY <1>2, <2>1, FS_Subset
  <2> QED
    BY <2>1, <2>2 DEF FiniteSubsetsOf
<1>4. F # {}
  OBVIOUS
<1>5. IsWellFoundedOn(StrictSubsetOrdering(S), FiniteSubsetsOf(S))
  BY FS_StrictSubsetOrderingWellFounded
<1>6. PICK T \in F : \A U \in F : <<U, T>> \notin StrictSubsetOrdering(S)
  <2> HIDE DEF F
  <2> QED
    BY <1>3, <1>4, <1>5, WFMin
<1>7. PICK x \in S : T = After(x)
  OBVIOUS
<1>8. \A y \in S : x >= y
  <2> SUFFICES ASSUME NEW y \in S, ~(x >= y) PROVE FALSE
    OBVIOUS
  <2>1. y > x /\ x \in Nat /\ y \in Nat
    BY <1>1
  <2>2. y \in T /\ y \notin After(y) /\ T \subseteq S
    BY <1>7, <2>1
  <2>3. \A z \in After(y) : z \in T
    BY <1>1, <1>7, <2>1
  <2>4. <<After(y), T>> \in StrictSubsetOrdering(S)
    BY <2>2, <2>3 DEF StrictSubsetOrdering
  <2> QED
    BY <1>6, <2>4
<1> QED
  BY <1>8 DEF Max

--------------------------------------------------------------------------------
(* The type invariant.                                                       *)

(* One part of it is more than a type: names are not given twice. *)
NamesUnique == \A v, w \in cronWorkflows : v.name = w.name => v = w

StoreType ==
    /\ cronWorkflows \subseteq CronWorkflow
    /\ NamesUnique
    /\ workflows \subseteq Workflow
    /\ now \in Times /\ {uids, edits, faults} \subseteq Nat

RoundType ==
    /\ pc \in [Controllers -> {"idle", "listed", "sync", "create"}]
    /\ children \in [Controllers -> SUBSET Workflow]
    /\ todo \in [Controllers -> SUBSET CronWorkflow]
    /\ updated \in [Controllers -> CronWorkflow \cup {Nil}]
    /\ \A r \in Controllers : pc[r] = "create" => updated[r] # Nil
    /\ began \in [Controllers -> Times]

LEMMA EditsType ==
    ASSUME edits \in Nat, UserEdits
    PROVE  edits' \in Nat
BY DEF UserEdits

LEMMA FaultType ==
    ASSUME faults \in Nat, NoFault \/ Fault
    PROVE  faults' \in Nat
BY DEF NoFault, Fault

(* A CronWorkflow replaced by one of its own name. *)
LEMMA ReplacedType ==
    ASSUME StoreType, NEW old \in cronWorkflows, NEW new \in CronWorkflow,
           new.name = old.name, cronWorkflows' = Replaced(old, new)
    PROVE  cronWorkflows' \subseteq CronWorkflow /\ NamesUnique'
BY DEF StoreType, NamesUnique, Replaced

(* What becomes of a CronWorkflow: a new version of it, *)
LEMMA NextVersionType ==
    ASSUME NEW cw \in CronWorkflow
    PROVE  /\ [cw EXCEPT !.rv = @ + 1] \in CronWorkflow
           /\ [cw EXCEPT !.rv = @ + 1].name = cw.name
<1>1. cw.rv + 1 \in Nat
  BY DEF CronWorkflow
<1> QED
  BY <1>1 DEF CronWorkflow

(* with another specification, *)
LEMMA EditedType ==
    ASSUME NEW cw \in CronWorkflow, NEW s \in CronWorkflowSpec
    PROVE  /\ [cw EXCEPT !.spec = s, !.rv = @ + 1] \in CronWorkflow
           /\ [cw EXCEPT !.spec = s, !.rv = @ + 1].name = cw.name
<1> DEFINE new == [cw EXCEPT !.spec = s]
<1>1. new \in CronWorkflow /\ new.name = cw.name
  BY DEF CronWorkflow
<1>2. [cw EXCEPT !.spec = s, !.rv = @ + 1] = [new EXCEPT !.rv = @ + 1]
  BY DEF CronWorkflow
<1> HIDE DEF new
<1> QED
  BY <1>1, <1>2, NextVersionType

(* a deletion timestamp, *)
LEMMA DeletingType ==
    ASSUME NEW cw \in CronWorkflow
    PROVE  /\ [cw EXCEPT !.deleting = TRUE, !.rv = @ + 1] \in CronWorkflow
           /\ [cw EXCEPT !.deleting = TRUE, !.rv = @ + 1].name = cw.name
<1> DEFINE new == [cw EXCEPT !.deleting = TRUE]
<1>1. new \in CronWorkflow /\ new.name = cw.name
  BY DEF CronWorkflow
<1>2. [cw EXCEPT !.deleting = TRUE, !.rv = @ + 1] = [new EXCEPT !.rv = @ + 1]
  BY DEF CronWorkflow
<1> HIDE DEF new
<1> QED
  BY <1>1, <1>2, NextVersionType

(* or another list of active workflows. *)
LEMMA ActiveType ==
    ASSUME NEW cw \in CronWorkflow, NEW A \in SUBSET Children
    PROVE  /\ [cw EXCEPT !.spec.active = A, !.rv = @ + 1] \in CronWorkflow
           /\ [cw EXCEPT !.spec.active = A, !.rv = @ + 1].name = cw.name
<1> DEFINE s == [cw.spec EXCEPT !.active = A]
<1>1. cw.spec \in CronWorkflowSpec
  BY DEF CronWorkflow
<1>2. s \in CronWorkflowSpec
  BY <1>1 DEF CronWorkflowSpec
<1>3. [cw EXCEPT !.spec.active = A, !.rv = @ + 1] = [cw EXCEPT !.spec = s, !.rv = @ + 1]
  BY DEF CronWorkflow
<1> HIDE DEF s
<1> QED
  BY <1>2, <1>3, EditedType

LEMMA InitType == Init => StoreType /\ RoundType
<1> SUFFICES ASSUME Init PROVE StoreType /\ RoundType
  OBVIOUS
<1>1. 0 \in Times
  BY CronAssumption DEF Times
<1>2. PICK C, f :
          /\ C \in SUBSET CronWorkflows
          /\ \A c \in C : f[c] \in Submissions[c]
          /\ cronWorkflows = {NewCronWorkflow(c, 1, f[c]) : c \in C}
  BY DEF Init
<1>3. \A c \in C : /\ NewCronWorkflow(c, 1, f[c]) \in CronWorkflow
                   /\ NewCronWorkflow(c, 1, f[c]).name = c
  BY <1>1, <1>2, CronAssumption DEF Init, NewCronWorkflow, CronWorkflow
<1>4. cronWorkflows \subseteq CronWorkflow /\ NamesUnique
  BY <1>2, <1>3 DEF NamesUnique
<1>6. StoreType
  BY <1>1, <1>4 DEF Init, StoreType
<1>5. RoundType
  BY <1>1 DEF Init, RoundType
<1> QED
  BY <1>5, <1>6

LEMMA EnvironmentType ==
    ASSUME StoreType, RoundType, Environment
    PROVE  StoreType' /\ RoundType'
<1>1. StoreType /\ RoundType
  OBVIOUS
<1>2. RoundType'
  BY <1>1 DEF Environment, round, RoundType
<1>3. StoreType'
  <2>1. CASE Tick
    <3>1. now' \in Times
      BY <1>1, <2>1, CronAssumption DEF Tick, StoreType, Times
    <3> QED
      BY <1>1, <2>1, <3>1 DEF Tick, StoreType, NamesUnique
  <2>2. ASSUME NEW c \in CronWorkflows, Submit(c) PROVE StoreType'
    <3>1. PICK s \in Submissions[c] :
             cronWorkflows' = cronWorkflows \cup {NewCronWorkflow(c, uids + 1, s)}
      BY <2>2 DEF Submit
    <3>2. /\ NewCronWorkflow(c, uids + 1, s) \in CronWorkflow
          /\ NewCronWorkflow(c, uids + 1, s).name = c
      BY <1>1, CronAssumption DEF NewCronWorkflow, CronWorkflow, StoreType
    <3> QED
      BY <1>1, <2>2, <3>1, <3>2 DEF Submit, StoreType, NamesUnique
  <2>3. ASSUME NEW cw \in cronWorkflows,
               Edit(cw) \/ Delete(cw) \/ Gone(cw) \/ \E x \in Children : Adopt(cw, x)
        PROVE  StoreType'
    <3>1. cw \in CronWorkflow
      BY <1>1 DEF StoreType
    <3>2. ASSUME NEW new \in CronWorkflow, new.name = cw.name,
                 cronWorkflows' = Replaced(cw, new)
          PROVE  cronWorkflows' \subseteq CronWorkflow /\ NamesUnique'
      BY <1>1, <3>2, ReplacedType
    <3>3. CASE Edit(cw)
      <4>1. PICK s \in Submissions[cw.name] :
               cronWorkflows' = Replaced(cw, [cw EXCEPT !.spec = s, !.rv = @ + 1])
        BY <3>3 DEF Edit
      <4>2. s \in CronWorkflowSpec
        BY <3>1, CronAssumption DEF CronWorkflow
      <4>3. cronWorkflows' \subseteq CronWorkflow /\ NamesUnique'
        BY <3>1, <3>2, <4>1, <4>2, EditedType
      <4>4. edits' \in Nat
        BY <1>1, <3>3, EditsType DEF Edit, StoreType
      <4> QED
        BY <1>1, <3>3, <4>3, <4>4 DEF Edit, StoreType
    <3>4. CASE Delete(cw)
      <4>1. ASSUME cronWorkflows' = cronWorkflows \ {cw}
            PROVE  cronWorkflows' \subseteq CronWorkflow /\ NamesUnique'
        BY <1>1, <4>1 DEF StoreType, NamesUnique
      <4>2. ASSUME cronWorkflows' = Replaced(cw, [cw EXCEPT !.deleting = TRUE, !.rv = @ + 1])
            PROVE  cronWorkflows' \subseteq CronWorkflow /\ NamesUnique'
        <5> DEFINE new == [cw EXCEPT !.deleting = TRUE, !.rv = @ + 1]
        <5>1. new \in CronWorkflow /\ new.name = cw.name
          BY <3>1, DeletingType
        <5>2. cronWorkflows' = Replaced(cw, new)
          BY <4>2
        <5> HIDE DEF new
        <5> QED
          BY <3>2, <5>1, <5>2
      <4>3. cronWorkflows' \subseteq CronWorkflow /\ NamesUnique'
        BY <1>1, <3>4, <4>1, <4>2 DEF Delete
      <4>4. edits' \in Nat
        BY <1>1, <3>4, EditsType DEF Delete, StoreType
      <4> QED
        BY <1>1, <3>4, <4>3, <4>4 DEF Delete, StoreType
    <3>5. CASE Gone(cw)
      BY <1>1, <3>5 DEF Gone, StoreType, NamesUnique
    <3>6. ASSUME NEW x \in Children, Adopt(cw, x) PROVE StoreType'
      <4>1. cw.spec.active \cup {x} \in SUBSET Children /\ cw.uid \in Nat
        BY <3>1 DEF CronWorkflow, CronWorkflowSpec
      <4>2. [name |-> x, time |-> Nil, owner |-> cw.uid, finished |-> FALSE] \in Workflow
        BY <4>1 DEF Workflow
      <4>3. workflows' \subseteq Workflow
        BY <1>1, <3>6, <4>2 DEF Adopt, StoreType
      <4>4. cronWorkflows' \subseteq CronWorkflow /\ NamesUnique'
        BY <3>1, <3>2, <3>6, <4>1, ActiveType DEF Adopt
      <4> QED
        BY <1>1, <3>6, <4>3, <4>4 DEF Adopt, UserEdits, StoreType
    <3> QED
      BY <2>3, <3>3, <3>4, <3>5, <3>6
  <2>4. ASSUME NEW w \in workflows, WorkflowFinishes(w) \/ DeleteWorkflow(w)
        PROVE  StoreType'
    <3>1. [w EXCEPT !.finished = TRUE] \in Workflow
      BY <1>1 DEF StoreType, Workflow
    <3>2. workflows' \subseteq Workflow
      BY <1>1, <2>4, <3>1 DEF WorkflowFinishes, DeleteWorkflow, StoreType
    <3>3. edits' \in Nat
      BY <1>1, <2>4, EditsType DEF WorkflowFinishes, DeleteWorkflow, StoreType
    <3> QED
      BY <1>1, <2>4, <3>2, <3>3 DEF WorkflowFinishes, DeleteWorkflow, StoreType, NamesUnique
  <2> QED
    BY <2>1, <2>2, <2>3, <2>4 DEF Environment
<1> QED
  BY <1>2, <1>3

(* A controller's round ends, *)
LEMMA ResetType ==
    ASSUME RoundType, NEW r \in Controllers, ResetRound(r)
    PROVE  RoundType'
<1>1. RoundType /\ 0 \in Times
  BY CronAssumption DEF Times
<1> QED
  BY <1>1 DEF ResetRound, RoundType

(* or goes on to the next CronWorkflow. *)
LEMMA NextType ==
    ASSUME RoundType, NEW r \in Controllers, NextCronWorkflow(r)
    PROVE  RoundType'
<1>1. RoundType /\ 0 \in Times
  BY CronAssumption DEF Times
<1> QED
  BY <1>1 DEF NextCronWorkflow, RoundType

(* A time that is started is one of the clock's. *)
LEMMA ScheduledTime ==
    ASSUME RoundType, NEW r \in Controllers, pc[r] = "create",
           Startable(updated[r], began[r])
    PROVE  /\ updated[r] \in CronWorkflow
           /\ scheduledTime(updated[r], began[r]) \in Times
<1>1. updated[r] \in CronWorkflow
  BY DEF RoundType
<1>2. updated[r].spec.schedule \in SUBSET Times
  BY <1>1 DEF CronWorkflow, CronWorkflowSpec, Startable, TimesKnown
<1>3. UnmetTimes(updated[r], began[r]) \in SUBSET Times
  BY <1>2 DEF UnmetTimes
<1>4. UnmetTimes(updated[r], began[r]) # {}
  BY DEF Startable, TimesKnown
<1> QED
  BY <1>1, <1>3, <1>4, LastTime DEF scheduledTime

LEMMA UpdateStatusType ==
    ASSUME StoreType, RoundType, NEW r \in Controllers, NEW cw \in todo[r],
           UpdateStatus(r, cw)
    PROVE  StoreType' /\ RoundType'
<1> DEFINE tidy == StillActive(cw, children[r])
           new == IF tidy = cw.spec.active THEN cw
                  ELSE [cw EXCEPT !.spec.active = tidy, !.rv = @ + 1]
<1>1. StoreType /\ RoundType
  OBVIOUS
<1>2. cw \in CronWorkflow
  BY <1>1 DEF RoundType
<1>3. tidy \in SUBSET Children
  BY <1>2 DEF StillActive, CronWorkflow, CronWorkflowSpec
<1>4. new \in CronWorkflow /\ new.name = cw.name
  <2> HIDE DEF tidy
  <2> QED
    BY <1>2, <1>3, ActiveType
<1>5. /\ \/ cw \in cronWorkflows /\ cronWorkflows' = Replaced(cw, new)
         \/ UNCHANGED cronWorkflows
      /\ \/ /\ updated' = [updated EXCEPT ![r] = new]
            /\ began' = [began EXCEPT ![r] = now]
            /\ pc' = [pc EXCEPT ![r] = "create"]
         \/ UNCHANGED <<updated, began, pc>>
      /\ NoFault \/ Fault
      /\ todo' = [todo EXCEPT ![r] = @ \ {cw}]
      /\ UNCHANGED <<workflows, now, uids, edits, children>>
  BY DEF UpdateStatus
<1> HIDE DEF new
<1>6. cronWorkflows' \subseteq CronWorkflow /\ NamesUnique'
  BY <1>1, <1>4, <1>5, ReplacedType DEF StoreType, NamesUnique
<1>7. faults' \in Nat
  BY <1>1, <1>5, FaultType DEF StoreType
<1>8. StoreType'
  BY <1>1, <1>5, <1>6, <1>7 DEF StoreType
<1>9. new # Nil
  BY <1>4, CronAssumption
<1>10. RoundType'
  BY <1>1, <1>4, <1>5, <1>9 DEF RoundType, StoreType
<1> QED
  BY <1>8, <1>10

LEMMA CreateWorkflowType ==
    ASSUME StoreType, RoundType, NEW r \in Controllers, CreateWorkflow(r)
    PROVE  StoreType' /\ RoundType'
<1> DEFINE t == scheduledTime(updated[r], began[r])
           name == generatedName(updated[r], t, began[r])
           new == [name |-> name, time |-> t, owner |-> Nil, finished |-> FALSE]
<1>1. StoreType /\ RoundType
  OBVIOUS
<1>2. updated[r] \in CronWorkflow /\ t \in Times
  BY <1>1, ScheduledTime DEF CreateWorkflow
<1>3. /\ workflows' = workflows \cup {new} \/ UNCHANGED workflows
      /\ NoFault \/ Fault
      /\ NextCronWorkflow(r)
      /\ UNCHANGED <<cronWorkflows, now, uids, edits>>
  BY DEF CreateWorkflow
<1>4. new \in Workflow
  <2> HIDE DEF t
  <2> QED
    BY <1>2 DEF Workflow, generatedName, CronWorkflow
<1> HIDE DEF t, name, new
<1>5. workflows' \subseteq Workflow /\ faults' \in Nat
  BY <1>1, <1>3, <1>4, FaultType DEF StoreType
<1>6. StoreType'
  BY <1>1, <1>3, <1>5 DEF StoreType, NamesUnique
<1> QED
  BY <1>3, <1>6, NextType

LEMMA ControllerType ==
    ASSUME StoreType, RoundType, NEW r \in Controllers, syncAll(r) \/ Restart(r)
    PROVE  StoreType' /\ RoundType'
<1>1. StoreType /\ RoundType
  OBVIOUS
<1>2. CASE ListWorkflows(r)
  <2>1. Grouped \in SUBSET Workflow
    BY <1>1 DEF Grouped, StoreType
  <2>2. StoreType'
    BY <1>1, <1>2 DEF ListWorkflows, store, StoreType, NamesUnique
  <2>3. RoundType'
    BY <1>1, <1>2, <2>1 DEF ListWorkflows, RoundType
  <2> QED
    BY <2>2, <2>3
<1>3. CASE ListFails(r) \/ Restart(r)
  <2>1. /\ Fault /\ ResetRound(r)
        /\ UNCHANGED <<cronWorkflows, workflows, now, uids, edits>>
    BY <1>3 DEF ListFails, Restart
  <2>2. faults' \in Nat
    BY <1>1, <2>1, FaultType DEF StoreType
  <2>3. StoreType'
    BY <1>1, <2>1, <2>2 DEF StoreType, NamesUnique
  <2> QED
    BY <2>1, <2>3, ResetType
<1>4. CASE ListCronWorkflows(r)
  <2>1. StoreType'
    BY <1>1, <1>4 DEF ListCronWorkflows, store, StoreType, NamesUnique
  <2>2. RoundType'
    BY <1>1, <1>4 DEF ListCronWorkflows, store, RoundType, StoreType
  <2> QED
    BY <2>1, <2>2
<1>5. CASE EndRound(r)
  <2>1. StoreType'
    BY <1>1, <1>5 DEF EndRound, store, StoreType, NamesUnique
  <2> QED
    BY <1>5, <2>1, ResetType DEF EndRound
<1>6. CASE StartNothing(r)
  <2>1. StoreType'
    BY <1>1, <1>6 DEF StartNothing, store, StoreType, NamesUnique
  <2> QED
    BY <1>6, <2>1, NextType DEF StartNothing
<1>7. CASE CreateWorkflow(r)
  BY <1>7, CreateWorkflowType
<1>8. CASE \E cw \in todo[r] : UpdateStatus(r, cw)
  BY <1>8, UpdateStatusType
<1> QED
  BY <1>2, <1>3, <1>4, <1>5, <1>6, <1>7, <1>8 DEF syncAll, syncOne

(* The types: among others, CronWorkflows have names of their own, whatever  *)
(* versions a controller writes back, and a controller that creates a        *)
(* workflow has the CronWorkflow it read (updatedCronWorkflow).              *)
THEOREM CronTypeCorrect == Spec => []TypeOK
<1>1. StoreType /\ RoundType <=> TypeOK
  BY DEF StoreType, NamesUnique, RoundType, TypeOK
<1>2. Init => TypeOK
  BY <1>1, InitType
<1>3. StoreType /\ RoundType /\ [Next]_vars => StoreType' /\ RoundType'
  <2> SUFFICES ASSUME StoreType, RoundType, [Next]_vars PROVE StoreType' /\ RoundType'
    OBVIOUS
  <2>1. CASE UNCHANGED vars
    BY <2>1 DEF vars, store, round, StoreType, NamesUnique, RoundType
  <2> QED
    BY <2>1, EnvironmentType, ControllerType DEF Next
<1> QED
  BY <1>1, <1>3, InitType, PTL DEF Spec

--------------------------------------------------------------------------------
(* The names of workflows.                                                   *)

(* The API server gives a name once, and a workflow of a CronWorkflow has    *)
(* its scheduled time in the name. *)
TimedName(w) == w.time # Nil => w.name = <<w.name[1], w.time>>

WorkflowNames ==
    /\ \A v, w \in workflows : v.name = w.name => v = w
    /\ \A w \in workflows : TimedName(w)

LEMMA AddedName ==
    ASSUME WorkflowNames, NEW new, TimedName(new),
           \A w \in workflows : w.name # new.name,
           workflows' = workflows \cup {new}
    PROVE  WorkflowNames'
BY DEF WorkflowNames

LEMMA NamesStep ==
    ASSUME TypeOK, WorkflowNames, [Next]_vars
    PROVE  WorkflowNames'
<1>1. WorkflowNames
  OBVIOUS
<1>2. CASE UNCHANGED workflows
  BY <1>1, <1>2 DEF WorkflowNames
<1>3. ASSUME NEW w \in workflows, WorkflowFinishes(w) \/ DeleteWorkflow(w)
      PROVE  WorkflowNames'
  <2>1. CASE DeleteWorkflow(w)
    BY <1>1, <2>1 DEF DeleteWorkflow, WorkflowNames
  <2>2. CASE WorkflowFinishes(w)
    <3> DEFINE done == [w EXCEPT !.finished = TRUE]
    <3>1. done.name = w.name /\ done.time = w.time
      BY DEF TypeOK, Workflow
    <3>2. workflows' = (workflows \ {w}) \cup {done}
      BY <2>2 DEF WorkflowFinishes
    <3> HIDE DEF done
    <3> QED
      BY <1>1, <3>1, <3>2 DEF WorkflowNames, TimedName
  <2> QED
    BY <1>3, <2>1, <2>2
<1>4. ASSUME NEW cw \in cronWorkflows, NEW x \in Children, Adopt(cw, x)
      PROVE  WorkflowNames'
  <2> DEFINE new == [name |-> x, time |-> Nil, owner |-> cw.uid, finished |-> FALSE]
  <2>1. new.name = x /\ TimedName(new)
    BY DEF TimedName
  <2>2. /\ \A w \in workflows : w.name # x
        /\ workflows' = workflows \cup {new}
    BY <1>4 DEF Adopt
  <2> HIDE DEF new
  <2> QED
    BY <1>1, <2>1, <2>2, AddedName
<1>5. ASSUME NEW r \in Controllers, CreateWorkflow(r)
      PROVE  WorkflowNames'
  <2> DEFINE t == scheduledTime(updated[r], began[r])
             name == generatedName(updated[r], t, began[r])
             new == [name |-> name, time |-> t, owner |-> Nil, finished |-> FALSE]
  <2>1. new.name = name /\ TimedName(new)
    BY DEF TimedName, generatedName
  <2>2. \/ (\A w \in workflows : w.name # name) /\ workflows' = workflows \cup {new}
        \/ UNCHANGED workflows
    BY <1>5 DEF CreateWorkflow
  <2> HIDE DEF name, new
  <2> QED
    BY <1>1, <1>2, <2>1, <2>2, AddedName
<1>6. ASSUME NEW r \in Controllers, syncAll(r) \/ Restart(r), ~CreateWorkflow(r)
      PROVE  UNCHANGED workflows
  BY <1>6 DEF syncAll, syncOne, Restart, ListWorkflows, ListFails, ListCronWorkflows,
              UpdateStatus, StartNothing, EndRound, store
<1>7. CASE Environment
  BY <1>2, <1>3, <1>4, <1>7 DEF Environment, Tick, Submit, Edit, Delete, Gone
<1> QED
  BY <1>2, <1>5, <1>6, <1>7 DEF Next, vars, store

(* No scheduled time is started twice, whatever number of controllers run,   *)
(* calls fail, replies get lost and users do: the scheduled time is in the   *)
(* name, and of a name there is one (inferrWorkflowDefinitionFromCronWorkflow). *)
THEOREM NoTimeStartedTwice == Spec => []StartedOnce
<1>1. Init => WorkflowNames
  BY DEF Init, WorkflowNames
<1>2. TypeOK /\ WorkflowNames /\ [Next]_vars => WorkflowNames'
  BY NamesStep
<1>3. WorkflowNames => StartedOnce
  BY DEF WorkflowNames, TimedName, StartedOnce
<1> QED
  BY <1>1, <1>2, <1>3, CronTypeCorrect, PTL DEF Spec

================================================================================

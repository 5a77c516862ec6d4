----------------------------- MODULE SharedObjects -----------------------------
(***************************************************************************)
(* The memory behind the caches.  A lister hands out a pointer to the very *)
(* object that the informer, the event handlers and the other goroutines   *)
(* read, and a workflow or a DaemonSetJob is a structure full of pointers, *)
(* maps and slices.  sync merges labels in place, assigns defaults and     *)
(* collects a status: it may do so only to copies that share nothing with  *)
(* the original (DeepCopy, zz_generated.deepcopy.go).                      *)
(*                                                                         *)
(* One object and one worker are followed, and of sync's passes only what  *)
(* they write to memory; the other modules have the rest.  An update that  *)
(* only renews times counts as none.                                       *)
(***************************************************************************)
EXTENDS Integers, FiniteSets

CONSTANTS
    Templates,       \* job templates that users write
    Nil,             \* the nil pointer
    MaxEdits,        \* bounds: users' changes,
    MaxFaults        \* and updates that fail

Workflow == "workflow"
DaemonSetJob == "daemonsetjob"

(* What an object refers to and sync writes to.  Fields that are only ever   *)
(* given a new pointer stand for each other (startTime, completionTime).     *)
WorkflowFields == {"template", "selector", "startTime", "conditions", "statuses"}

DaemonSetJobFields == {"template", "selector", "startTime", "conditions"}

Fields(k) == IF k = Workflow THEN WorkflowFields ELSE DaemonSetJobFields

Counts == {1, 2}

(* Of a template: completions, parallelism, and whether the pod has a node.  *)
Template == [completions : Counts \cup {Nil}, parallelism : Counts \cup {Nil}, node : BOOLEAN]

(* A cell of memory is named after the field it is for.                      *)
Cell == WorkflowFields \X Nat

ASSUME ObjectsAssumption ==
    /\ Templates \subseteq Template
    /\ {MaxEdits, MaxFaults} \subseteq Nat

(* nil is none of the values, cells or objects.                              *)
ASSUME NilAssumption ==
    /\ Nil \notin Template /\ Nil \notin BOOLEAN /\ Nil \notin Cell
    /\ \A k \in {Workflow, DaemonSetJob} : Nil \notin [Fields(k) -> Cell \cup {Nil}]

VARIABLES
    kind,            \* of the object that is followed
    stored,          \* at the API server: values, no pointers
    written,         \* history: the template as the user wrote it last
    edits, faults,
    heap,            \* the cells in use and what they hold
    cached,          \* the lister's object
    current,         \* the cached object is the stored version
    decoded,         \* history: what the informer made the cached object of
    pc,              \* "idle", "default" or "manage"
    shared, seen,    \* sync's pointer to a cached object, or Nil; history: what that
                     \* object was made of
    local,           \* sync's copy, or Nil
    fresh            \* what sync works on is the stored version

server == <<stored, written, edits, faults>>
process == <<heap, cached, current, decoded, pc, shared, seen, local, fresh>>
vars == <<kind, server, process>>

--------------------------------------------------------------------------------
(* Memory.  An object is a function from its fields to cells; a cell that    *)
(* holds a template, a map, a slice or a time is named after its field.      *)

Cells(o) == IF o = Nil THEN {} ELSE {o[f] : f \in DOMAIN o} \ {Nil}

FreeCell(h, f) == <<f, CHOOSE n \in 0..Cardinality(DOMAIN h) : <<f, n>> \notin DOMAIN h>>

(* What o refers to: what DeepEqual compares, and what is sent.              *)
Contents(h, o) == [f \in DOMAIN o |-> IF o[f] = Nil THEN Nil ELSE h[o[f]]]

(* A new object for the contents d, all of its cells unused. *)
NewObject(h, d) == [f \in DOMAIN d |-> IF d[f] = Nil THEN Nil ELSE FreeCell(h, f)]

RefersTo(o, c) == c[1] \in DOMAIN o /\ o[c[1]] = c

(* The heap h once the cells of o hold the contents d. *)
Store(h, o, d) ==
    [c \in Cells(o) \cup DOMAIN h |-> IF RefersTo(o, c) THEN d[c[1]] ELSE h[c]]

(* Cells that none of the objects refers to are collected. *)
Collect(h, objects) == [c \in UNION {Cells(o) : o \in objects} |-> h[c]]

(* A write through the field f. *)
WriteThrough(h, o, f, v) == [h EXCEPT ![o[f]] = v]

MutantDeepCopy(h, o) == [NewObject(h, Contents(h, o)) EXCEPT !.selector = o.selector]

(* Cells of its own for everything o refers to. *)
DeepCopy(h, o) == NewObject(h, Contents(h, o))

MutantSetDefaults(t) ==
    [t EXCEPT !.completions = IF @ = Nil /\ t.parallelism = Nil THEN 1 ELSE @,
              !.parallelism = IF @ = Nil THEN 0 ELSE @]

SetDefaults_Job(t) ==
    [t EXCEPT !.completions = IF @ = Nil /\ t.parallelism = Nil THEN 1 ELSE @,
              !.parallelism = IF @ = Nil THEN 1 ELSE @]

(* External steps have no template. *)
Defaulted(t) == IF t = Nil THEN Nil ELSE SetDefaults_Job(t)

MutantDefault(h, o) ==
    LET d == Contents(h, o)
    IN  [object |-> o, heap |-> Store(h, o, [d EXCEPT !.template = Defaulted(@)])]

(* DefaultWorkflow and DefaultDaemonSetJob: a copy, and the heap with it.    *)
Default(h, o) ==
    LET copy == DeepCopy(h, o)
        d == Contents(h, o)
    IN  [object |-> copy,
         heap |-> Store(h, copy, [d EXCEPT !.template = Defaulted(@)])]

(* IsWorkflowDefaulted and IsDaemonSetJobDefaulted, once Default has made m. *)
IsDefaulted(m, o) == Contents(m.heap, m.object).template = Contents(m.heap, o).template

--------------------------------------------------------------------------------
(* The API server, users and the informer.                                   *)

Manifest(k, t) ==
    [f \in Fields(k) |->
        CASE f = "template" -> t
          [] f = "selector" -> FALSE   \* the controller's labels are not in it
          [] OTHER -> Nil]

(* An external step has no template; of a DaemonSetJob one is required.      *)
Writable(k) == IF k = Workflow THEN Templates \cup {Nil} ELSE Templates

UserEdits ==
    /\ edits < MaxEdits
    /\ edits' = edits + 1
    /\ \E t \in Writable(kind) :
          /\ stored' = [stored EXCEPT !.template = t, !.selector = FALSE]
          /\ written' = t
    /\ stored' # stored
    /\ current' = FALSE /\ fresh' = FALSE
    /\ UNCHANGED <<kind, faults, heap, cached, decoded, pc, shared, seen, local>>

Finished(d) == d.conditions = TRUE

(* The informer decodes the stored version into an object of its own.        *)
Deliver ==
    /\ ~current
    /\ cached' = NewObject(heap, stored)
    /\ heap' = Collect(Store(heap, cached', stored), {cached', shared, local})
    /\ current' = TRUE
    /\ decoded' = stored
    /\ UNCHANGED <<kind, server, pc, shared, seen, local, fresh>>

--------------------------------------------------------------------------------
(* sync.                                                                     *)

(* A pass may begin at any time: events of jobs and nodes queue the key, too. *)
SyncGet ==
    /\ pc = "idle"
    /\ pc' = "default"
    /\ shared' = cached /\ seen' = decoded /\ fresh' = current
    /\ UNCHANGED <<kind, server, heap, cached, current, decoded, local>>

(* sync returns, h being what it leaves of the heap. *)
Return(h) ==
    /\ pc' = "idle"
    /\ shared' = Nil /\ seen' = Nil /\ local' = Nil
    /\ heap' = Collect(h, {cached})
    /\ UNCHANGED <<kind, written, edits, cached, decoded>>

(* updateHandler sends o; the API server takes it when it is made of the     *)
(* stored version.                                                           *)
Update(h, o) ==
    LET d == Contents(h, o)
    IN  \/ /\ fresh
           /\ stored' = d
           /\ current' = (current /\ d = stored)
           /\ fresh' = (d = stored)
           /\ UNCHANGED faults
        \/ ~fresh /\ UNCHANGED <<stored, faults, current, fresh>>
        \/ /\ faults < MaxFaults
           /\ faults' = faults + 1
           /\ UNCHANGED <<stored, current, fresh>>

SyncDefault ==
    LET m == Default(heap, shared)
    IN  /\ pc = "default"
        /\ ~IsDefaulted(m, shared)
        /\ Update(m.heap, m.object)
        /\ Return(m.heap)

(* The object is defaulted (and valid); sync goes on with a copy. *)
SyncCopy ==
    LET m == Default(heap, shared)
    IN  /\ pc = "default"
        /\ IsDefaulted(m, shared)
        /\ local' = DeepCopy(m.heap, shared)
        /\ heap' = Collect(Store(m.heap, local', Contents(m.heap, shared)),
                           {cached, shared, local'})
        /\ pc' = "manage"
        /\ UNCHANGED <<kind, server, cached, current, decoded, shared, seen, fresh>>

(* local's field f gets a new cell, whatever it referred to. *)
Assigned(h, o, f, v) ==
    LET new == [o EXCEPT ![f] = FreeCell(h, f)]
    IN  [object |-> new, heap |-> Store(h, new, [Contents(h, o) EXCEPT ![f] = v])]

SyncStart ==
    LET started == Assigned(heap, local, "startTime", TRUE)
        m == IF kind = Workflow
             THEN Assigned(started.heap, started.object, "statuses", FALSE)
             ELSE started
    IN  /\ pc = "manage"
        /\ local.startTime = Nil
        /\ Update(m.heap, m.object)
        /\ Return(m.heap)

Managing == pc = "manage" /\ local.startTime # Nil

(* manageWorkflow and manageDaemonSetJob write to their copy. *)
Writes(h, o) ==
    /\ heap' = Collect(h, {cached, shared, o})
    /\ local' = o
    /\ UNCHANGED <<kind, server, cached, current, decoded, pc, shared, seen, fresh>>

(* getJobLabelsSetFromWorkflow and its likes merge the controller's labels   *)
(* into the selector.                                                        *)
WithLabels(h, o) == WriteThrough(h, o, "selector", TRUE)

(* createWorkflowJobLabelSelector, CreateJobFromWorkflow, and                *)
(* inferrWorkflowLabelSelectorForJobs after the deadline.                    *)
LabelWorkflowJobs ==
    /\ Managing
    /\ kind = Workflow
    /\ Writes(WithLabels(heap, local), local)

MutantTemplateCopy(h, o) == o.template

(* The template that NodeName is written to. *)
TemplateCopy(h, o) == FreeCell(h, "template")

CreateJobFromDaemonSetJob ==
    LET c == TemplateCopy(heap, local)
        t == [heap[local.template] EXCEPT !.node = TRUE]
        h == Store(heap, [template |-> c], [template |-> t])
    IN  /\ Managing
        /\ kind = DaemonSetJob
        /\ Writes(WithLabels(h, local), local)

(* A step is complete, in its status that is there or appended. *)
WriteStatuses ==
    /\ Managing
    /\ kind = Workflow
    /\ Writes(WriteThrough(heap, local, "statuses", TRUE), local)

(* A condition is appended: to a slice of its own, the copy having no room   *)
(* for more.  A DaemonSetJob's is changed in place when it is there.         *)
WriteConditions ==
    /\ Managing
    /\ \/ LET m == Assigned(heap, local, "conditions", TRUE)
          IN  /\ kind = Workflow \/ local.conditions = Nil
              /\ Writes(m.heap, m.object)
       \/ /\ kind = DaemonSetJob
          /\ local.conditions # Nil
          /\ \E complete \in BOOLEAN :
                Writes(WriteThrough(heap, local, "conditions", complete), local)

(* The labels alone are no reason to send the object. *)
FinishManage ==
    LET d == Contents(heap, local)
        status == {"conditions", "statuses"} \cap Fields(kind)
    IN  /\ Managing
        /\ IF \E f \in status : d[f] # seen[f]
           THEN Update(heap, local)
           ELSE UNCHANGED <<stored, faults, current, fresh>>
        /\ Return(heap)

sync ==
    \/ SyncGet \/ SyncDefault \/ SyncCopy \/ SyncStart
    \/ LabelWorkflowJobs \/ CreateJobFromDaemonSetJob
    \/ WriteStatuses \/ WriteConditions \/ FinishManage

--------------------------------------------------------------------------------
(* The object was just created and listed. *)
Init ==
    /\ kind \in {Workflow, DaemonSetJob}
    /\ written \in Writable(kind)
    /\ stored = Manifest(kind, written) /\ decoded = stored
    /\ edits = 0 /\ faults = 0
    /\ cached = NewObject(<<>>, stored)
    /\ heap = Store(<<>>, cached, stored)
    /\ current = TRUE /\ fresh = TRUE
    /\ pc = "idle" /\ shared = Nil /\ seen = Nil /\ local = Nil

Next == UserEdits \/ Deliver \/ sync

Spec == Init /\ [][Next]_vars

(* The watch delivers, a resync queues what is not finished every 30         *)
(* seconds, and the worker's passes return.                                  *)
FairSpec ==
    /\ Spec
    /\ WF_vars(Deliver)
    /\ WF_vars(SyncGet /\ ~Finished(decoded))
    /\ WF_vars(SyncDefault \/ SyncCopy \/ SyncStart)
    /\ WF_vars(FinishManage)

--------------------------------------------------------------------------------
(* Properties.                                                               *)

Object(k) == [Fields(k) -> DOMAIN heap \cup {Nil}]

Value(f) == IF f = "template" THEN Template ELSE BOOLEAN

ContentsOK(k, d) ==
    /\ d = [f \in Fields(k) |-> d[f]]
    /\ \A f \in Fields(k) : d[f] \in Value(f) \cup {Nil}

(* Type invariant: no object refers to memory that is not there, and what a  *)
(* cell holds fits the field that refers to it.                              *)
TypeOK ==
    /\ kind \in {Workflow, DaemonSetJob}
    /\ ContentsOK(kind, stored) /\ ContentsOK(kind, decoded)
    /\ written \in Template \cup {Nil}
    /\ edits \in 0..MaxEdits /\ faults \in 0..MaxFaults
    /\ cached \in Object(kind)
    /\ {shared, local} \subseteq Object(kind) \cup {Nil}
    /\ \A o \in {cached, shared, local} \ {Nil} : ContentsOK(kind, Contents(heap, o))
    /\ {current, fresh} \subseteq BOOLEAN
    /\ pc \in {"idle", "default", "manage"}
    /\ seen # Nil => ContentsOK(kind, seen)

(* Nothing that sync does reaches the objects in the cache: the one the      *)
(* lister holds and the one sync was given still say what the API server     *)
(* sent, while sync defaults, labels, appends and overwrites (DeepCopy of    *)
(* both kinds, DefaultWorkflow, DefaultDaemonSetJob,                         *)
(* CreateJobFromDaemonSetJob).                                               *)
CacheUntouched ==
    /\ Contents(heap, cached) = decoded
    /\ shared # Nil => Contents(heap, shared) = seen

(* Whatever is written back, the stored template is the one the user wrote   *)
(* last, or that one defaulted: no update of a stale copy takes an edit      *)
(* back, and the node a job was made for does not get into it (sync,         *)
(* CreateJobFromDaemonSetJob).                                               *)
TemplateKept == stored.template \in {written, Defaulted(written)}

(* Again and again the stored object is defaulted, unless it has finished:   *)
(* comparing the cached object with its defaulted copy does not default it   *)
(* on the way, and an update that fails is repeated, even where its error is *)
(* dropped (IsWorkflowDefaulted, IsDaemonSetJobDefaulted, updateWorkflow).   *)
DefaultsReachServer ==
    []<>(Finished(stored) \/ stored.template = Defaulted(stored.template))

================================================================================

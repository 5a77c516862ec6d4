------------------------------ MODULE ProcessProofs ------------------------------
(***************************************************************************)
(* Theorems about the processes, for any number of them, any set of        *)
(* installers and any number of faults and signals: the types, and that    *)
(* only who has created a CRD deletes it.                                  *)
(***************************************************************************)
EXTENDS Process, TLAPS

Kinds == {"absent", "defined", "established"}
Phases == {"create", "poll", "undo", "build", "run", "dead"}

LEMMA FaultType ==
    ASSUME faults \in Nat, NoFault \/ Fault
    PROVE  faults' \in Nat
BY DEF NoFault, Fault

--------------------------------------------------------------------------------
(* The type invariant.                                                       *)

LEMMA InitType == Init => TypeOK
<1> SUFFICES ASSUME Init PROVE TypeOK
  OBVIOUS
<1>1. /\ crds \in [Resources -> Kinds] /\ {faults, signals} \subseteq Nat
      /\ deleting = {} /\ passed = {}
  BY DEF Init, Kinds
<1>2. /\ phase \in [Processes -> {"create", "build"}]
      /\ resource \in [Processes -> Resources \cup {""}]
      /\ created \in [Processes -> SUBSET Resources]
      /\ synced \in [Processes -> SUBSET Informers]
      /\ cancelled \in [Processes -> BOOLEAN]
  BY DEF Init, First, Resources
<1>3. informers \in [Processes -> {InformerFor({})}]
  BY DEF Init
<1>4. step \in [Processes -> 0..(Len(Run) + 1)]
  BY DEF Init, Run
<1>5. actors \in [Processes -> [Actors -> {"none", "waiting", "working"}]]
  BY DEF Init, NoActors
<1>6. \A p \in Processes : phase[p] # "run"
  BY <1>2
<1> HIDE DEF Init
<1> QED
  BY <1>1, <1>2, <1>3, <1>4, <1>5, <1>6 DEF TypeOK, Kinds

LEMMA DefineType ==
    ASSUME TypeOK, NEW p \in Processes, NEW k \in Resources,
           NEW next \in Resources \cup {""}, Define(p, k, next)
    PROVE  TypeOK'
<1> DEFINE Moved == \E ph \in Phases \ {"run"} : phase' = [phase EXCEPT ![p] = ph]
<1>1. /\ crds' \in [Resources -> Kinds] /\ faults' \in Nat
      /\ deleting' \subseteq {r \in Resources : crds'[r] # "absent"}
      /\ passed' \subseteq Resources
      /\ Moved
      /\ UNCHANGED <<signals, informers, synced, step, actors, cancelled>>
      /\ resource' \in [Processes -> Resources \cup {""}]
      /\ created' \in [Processes -> SUBSET Resources]
  <2> USE DEF TypeOK
  <2>1. CASE CreateResource(p, k, next)
    <3>1. faults' \in Nat
      BY <2>1, FaultType DEF CreateResource
    <3>2. /\ crds' \in [Resources -> Kinds]
          /\ deleting' \subseteq {r \in Resources : crds'[r] # "absent"}
          /\ passed' \subseteq Resources
      <4>1. CASE Create(k)
        BY <4>1 DEF Create, Kinds
      <4>2. CASE UNCHANGED <<crds, deleting>> /\ passed' = passed \cup (deleting \cap {k})
        BY <4>2 DEF Kinds
      <4>3. CASE UNCHANGED definitions
        BY <4>3 DEF definitions, Kinds
      <4> QED
        BY <2>1, <4>1, <4>2, <4>3 DEF CreateResource
    <3>3. Moved
      BY <2>1 DEF CreateResource, Goto, AlreadyExists, Defined, Dies, Phases
    <3>4. resource' \in [Processes -> Resources \cup {""}]
      BY <2>1 DEF CreateResource, AlreadyExists, Defined, Dies
    <3>5. created' = created \/ created' = [created EXCEPT ![p] = @ \cup {k}]
      BY <2>1 DEF CreateResource, Dies
    <3>6. created' \in [Processes -> SUBSET Resources]
      <4>1. created \in [Processes -> SUBSET Resources]
        OBVIOUS
      <4>2. created[p] \cup {k} \in SUBSET Resources
        BY <4>1
      <4> HIDE DEF TypeOK
      <4> QED
        BY <3>5, <4>1, <4>2
    <3> QED
      BY <2>1, <3>1, <3>2, <3>3, <3>4, <3>6 DEF CreateResource, Dies
  <2>2. CASE PollResource(p, k, next)
    <3>1. faults' \in Nat
      BY <2>2, FaultType DEF PollResource
    <3>2. Moved /\ resource' \in [Processes -> Resources \cup {""}]
      <4>1. Defined(p, next) \/ (Goto(p, "undo") /\ UNCHANGED resource)
        BY <2>2 DEF PollResource
      <4>2. CASE Defined(p, next)
        BY <4>2 DEF Goto, Defined, Phases
      <4>3. CASE Goto(p, "undo") /\ UNCHANGED resource
        BY <4>3 DEF Goto, Phases
      <4> QED
        BY <4>1, <4>2, <4>3
    <3> QED
      BY <2>2, <3>1, <3>2 DEF PollResource, definitions, Kinds
  <2>3. CASE UndoResource(p, k)
    <3>1. faults' \in Nat
      BY <2>3, FaultType DEF UndoResource
    <3>2. /\ crds' = crds /\ passed' = passed
          /\ deleting' \subseteq {r \in Resources : crds'[r] # "absent"}
      BY <2>3 DEF UndoResource
    <3>3. Moved
      BY <2>3 DEF UndoResource, Dies, Phases
    <3> QED
      BY <2>3, <3>1, <3>2, <3>3 DEF UndoResource, Dies, Kinds
  <2> QED
    BY <2>1, <2>2, <2>3 DEF Define
<1>2. /\ phase' \in [Processes -> Phases]
      /\ \A q \in Processes : phase'[q] = "run" => phase[q] = "run"
  BY <1>1 DEF TypeOK, Phases
<1> QED
  BY <1>1, <1>2 DEF TypeOK, Kinds, Phases

(* A statement of Run starts informers or goroutines. *)
LEMMA RunStepType ==
    ASSUME TypeOK, NEW p \in Processes, RunStep(p)
    PROVE  TypeOK'
<1>1. Len(Run) = 7 /\ DOMAIN Run = 1..7
  BY DEF Run
<1>2. step[p] \in 1..7 /\ step' = [step EXCEPT ![p] = @ + 1]
  BY <1>1 DEF RunStep
<1>3. step' \in [Processes -> 0..(Len(Run) + 1)]
  <2>1. step[p] + 1 \in 0..8 /\ 0..(Len(Run) + 1) = 0..8
    BY <1>1, <1>2
  <2> QED
    BY <1>2, <2>1 DEF TypeOK
<1>4. PICK f, S : Go(p, S) \/ Start(p, f)
  BY Zenon DEF RunStep
<1>5. CASE Go(p, S)
  <2> DEFINE new == [a \in Actors |-> IF a \in S THEN "waiting" ELSE actors[p][a]]
  <2>1. new \in [Actors -> {"none", "waiting", "working"}]
    BY DEF TypeOK
  <2>2. actors' = [actors EXCEPT ![p] = new] /\ informers' = informers
    BY <1>5 DEF Go
  <2> HIDE DEF new
  <2> QED
    BY <1>3, <2>1, <2>2 DEF RunStep, TypeOK, cluster, definitions
<1>6. CASE Start(p, f)
  <2> DEFINE new == [i \in Informers |->
                       IF i \in Factory(f) /\ informers[p][i] = 0 THEN 1 ELSE informers[p][i]]
  <2>1. new \in [Informers -> {0, 1}]
    BY DEF TypeOK, RunStep
  <2>2. informers' = [informers EXCEPT ![p] = new] /\ actors' = actors
    BY <1>6 DEF Start
  <2> HIDE DEF new
  <2>3. informers' \in [Processes -> [Informers -> {0, 1}] \cup {InformerFor({})}]
    BY <2>1, <2>2 DEF TypeOK
  <2>4. \A q \in Processes : phase[q] = "run" => informers'[q] \in [Informers -> {0, 1}]
    BY <2>1, <2>2 DEF TypeOK
  <2> QED
    BY <1>3, <2>2, <2>3, <2>4 DEF RunStep, TypeOK, cluster, definitions
<1> QED
  BY <1>4, <1>5, <1>6

(* Building, ending and starting again. *)
LEMMA LifeType ==
    ASSUME TypeOK, NEW p \in Processes, Build(p) \/ Exit(p) \/ StartAgain(p) \/ Signal(p)
    PROVE  TypeOK'
<1>1. 0 \in 0..(Len(Run) + 1) /\ 1 \in 0..(Len(Run) + 1)
  BY DEF Run
<1>2. CASE Build(p)
  <2>1. InformerFor(Informers) \in [Informers -> {0, 1}]
    BY DEF InformerFor
  <2>2. /\ informers' \in [Processes -> [Informers -> {0, 1}] \cup {InformerFor({})}]
        /\ informers'[p] \in [Informers -> {0, 1}]
        /\ \A q \in Processes \ {p} : informers'[q] = informers[q]
    BY <1>2, <2>1 DEF Build, TypeOK
  <2>3. /\ phase' \in [Processes -> Phases]
        /\ \A q \in Processes \ {p} : phase'[q] = phase[q]
    BY <1>2 DEF Build, Goto, TypeOK, Phases
  <2>4. step' \in [Processes -> 0..(Len(Run) + 1)]
    BY <1>1, <1>2 DEF Build, TypeOK
  <2>5. \A q \in Processes : phase'[q] = "run" => informers'[q] \in [Informers -> {0, 1}]
    BY <2>2, <2>3 DEF TypeOK
  <2> QED
    BY <1>2, <2>2, <2>3, <2>4, <2>5 DEF Build, TypeOK, cluster, definitions, Phases
<1>3. ASSUME Dies(p), UNCHANGED <<definitions, faults>>, signals' \in Nat PROVE TypeOK'
  <2>1. /\ phase' \in [Processes -> Phases]
        /\ \A q \in Processes : phase'[q] = "run" => phase[q] = "run"
    BY <1>3 DEF Dies, TypeOK, Phases
  <2> QED
    BY <1>3, <2>1 DEF Dies, TypeOK, definitions, Phases
<1>4. CASE Exit(p)
  BY <1>3, <1>4 DEF Exit, cluster, TypeOK
<1>5. CASE Signal(p)
  <2>1. UNCHANGED <<definitions, faults>> /\ signals' = signals + 1
    BY <1>5, Zenon DEF Signal
  <2>2. signals' \in Nat
    <3>1. signals \in Nat
      BY DEF TypeOK
    <3> QED
      BY <2>1, <3>1
  <2>3. CASE Dies(p)
    BY <1>3, <2>1, <2>2, <2>3
  <2>4. ASSUME cancelled' = [cancelled EXCEPT ![p] = TRUE],
               UNCHANGED <<phase, resource, created, informers, synced, step, actors>>
        PROVE  TypeOK'
    BY <2>1, <2>2, <2>4 DEF TypeOK, definitions
  <2> QED
    BY <1>5, <2>3, <2>4 DEF Signal
<1>6. CASE StartAgain(p)
  <2>1. /\ phase' \in [Processes -> Phases]
        /\ \A q \in Processes : phase'[q] = "run" => q # p /\ phase[q] = "run"
    BY <1>6 DEF StartAgain, Goto, First, TypeOK, Phases
  <2>2. /\ informers' \in [Processes -> [Informers -> {0, 1}] \cup {InformerFor({})}]
        /\ \A q \in Processes \ {p} : informers'[q] = informers[q]
    BY <1>6 DEF StartAgain, TypeOK
  <2>3. /\ resource' \in [Processes -> Resources \cup {""}]
        /\ created' \in [Processes -> SUBSET Resources]
        /\ synced' \in [Processes -> SUBSET Informers]
        /\ cancelled' \in [Processes -> BOOLEAN]
    BY <1>6 DEF StartAgain, TypeOK, Resources
  <2>4. step' \in [Processes -> 0..(Len(Run) + 1)]
    BY <1>1, <1>6 DEF StartAgain, TypeOK
  <2>5. actors' \in [Processes -> [Actors -> {"none", "waiting", "working"}]]
    BY <1>6 DEF StartAgain, NoActors, TypeOK
  <2>6. UNCHANGED <<crds, deleting, passed, faults, signals>>
    BY <1>6 DEF StartAgain, cluster, definitions
  <2>7. \A q \in Processes : phase'[q] = "run" => informers'[q] \in [Informers -> {0, 1}]
    BY <2>1, <2>2 DEF TypeOK
  <2> QED
    BY <2>1, <2>2, <2>3, <2>4, <2>5, <2>6, <2>7 DEF TypeOK, Phases
<1> QED
  BY <1>2, <1>4, <1>5, <1>6

LEMMA NextType ==
    ASSUME TypeOK, [Next]_vars
    PROVE  TypeOK'
<1>1. ASSUME NEW k \in Resources, Establish(k) \/ Finalize(k) PROVE TypeOK'
  <2>1. /\ crds' \in [Resources -> Kinds]
        /\ deleting' \subseteq {r \in Resources : crds'[r] # "absent"}
    <3>1. CASE Establish(k)
      BY <3>1 DEF Establish, TypeOK, Kinds
    <3>2. CASE Finalize(k)
      BY <3>2 DEF Finalize, TypeOK, Kinds
    <3> QED
      BY <1>1, <3>1, <3>2
  <2>2. UNCHANGED <<passed, faults, signals, process>>
    BY <1>1 DEF Establish, Finalize
  <2> QED
    BY <2>1, <2>2 DEF TypeOK, Kinds, process
<1>2. ASSUME NEW p \in Processes, Main(p) \/ Signal(p) PROVE TypeOK'
  <2>1. ASSUME \/ DefineWorklowResource(p) \/ DefineCronWorkflowResource(p)
               \/ DefineDaemonSetJobResource(p)
        PROVE  TypeOK'
    BY <2>1, DefineType
    DEF DefineWorklowResource, DefineCronWorkflowResource, DefineDaemonSetJobResource,
        Resources
  <2> QED
    BY <1>2, <2>1, RunStepType, LifeType DEF Main, NewWorkflowControllerApp
<1>3. ASSUME NEW p \in Processes, NEW i \in Informers, InformerSyncs(p, i) PROVE TypeOK'
  <2>1. synced' \in [Processes -> SUBSET Informers]
    BY <1>3 DEF InformerSyncs, TypeOK
  <2> QED
    BY <1>3, <2>1 DEF InformerSyncs, TypeOK, cluster, definitions
<1>4. ASSUME NEW p \in Processes, NEW a \in Actors, BeginWork(p, a) PROVE TypeOK'
  <2>1. actors' \in [Processes -> [Actors -> {"none", "waiting", "working"}]]
    BY <1>4 DEF BeginWork, TypeOK
  <2> QED
    BY <1>4, <2>1 DEF BeginWork, TypeOK, cluster, definitions
<1>5. CASE UNCHANGED vars
  BY <1>5 DEF vars, cluster, definitions, process, TypeOK
<1> QED
  BY <1>1, <1>2, <1>3, <1>4, <1>5 DEF Next

(* The variables keep the types TypeOK gives them: in particular a process   *)
(* never executes a statement past the end of Run, nor starts an informer    *)
(* that its factories do not have.                                           *)
THEOREM ProcessTypeCorrect == Spec => []TypeOK
<1>1. TypeOK /\ [Next]_vars => TypeOK'
  BY NextType
<1> QED
  BY <1>1, InitType, PTL DEF Spec

--------------------------------------------------------------------------------
(* Who deletes a CRD.                                                        *)

(* A process that waits for a CRD, or takes it back, has created it.  This   *)
(* is what makes OwnDefinitionsUndone hold: the way from AlreadyExists to    *)
(* the deletion does not exist.                                              *)
DefinesOwn ==
    \A p \in Processes : phase[p] \in {"poll", "undo"} => resource[p] \in created[p]

(* A process other than p keeps what DefinesOwn is about. *)
LEMMA OthersKeep ==
    ASSUME TypeOK, DefinesOwn, NEW p \in Processes,
           NEW ph, phase' = [phase EXCEPT ![p] = ph],
           \A q \in Processes \ {p} : resource'[q] = resource[q] /\ created'[q] = created[q],
           ph \in {"poll", "undo"} => resource'[p] \in created'[p]
    PROVE  DefinesOwn'
<1>1. phase'[p] = ph /\ \A q \in Processes \ {p} : phase'[q] = phase[q]
  BY DEF TypeOK
<1> QED
  BY <1>1 DEF DefinesOwn

LEMMA DefineOwn ==
    ASSUME TypeOK, DefinesOwn, NEW p \in Processes, NEW k \in Resources, NEW next,
           Define(p, k, next)
    PROVE  DefinesOwn'
<1>1. /\ phase \in [Processes -> Phases]
      /\ resource \in [Processes -> Resources \cup {""}]
      /\ created \in [Processes -> SUBSET Resources]
  BY DEF TypeOK, Phases
<1>2. ASSUME Dies(p) PROVE DefinesOwn'
  BY <1>2, OthersKeep DEF Dies
<1>3. ASSUME Defined(p, next), UNCHANGED created PROVE DefinesOwn'
  <2>1. PICK ph \in {"build", "create"} : phase' = [phase EXCEPT ![p] = ph]
    BY <1>3 DEF Defined, Goto
  <2>2. \A q \in Processes \ {p} : resource'[q] = resource[q]
    BY <1>1, <1>3 DEF Defined
  <2> QED
    BY <1>3, <2>1, <2>2, OthersKeep
<1>4. CASE CreateResource(p, k, next)
  <2>1. ASSUME created' = [created EXCEPT ![p] = @ \cup {k}], Goto(p, "poll"),
               UNCHANGED resource
        PROVE  DefinesOwn'
    <3>1. /\ created'[p] = created[p] \cup {k}
          /\ \A q \in Processes \ {p} : created'[q] = created[q]
      BY <1>1, <2>1
    <3>2. resource'[p] \in created'[p]
      BY <1>4, <2>1, <3>1 DEF CreateResource, AtResource
    <3> QED
      BY <2>1, <3>1, <3>2, OthersKeep DEF Goto
  <2> QED
    BY <1>2, <1>3, <1>4, <2>1 DEF CreateResource, AlreadyExists
<1>5. CASE PollResource(p, k, next)
  <2>1. ASSUME Goto(p, "undo"), UNCHANGED <<resource, created>> PROVE DefinesOwn'
    <3>1. resource[p] \in created[p]
      BY <1>5 DEF PollResource, AtResource, DefinesOwn
    <3> QED
      BY <2>1, <3>1, OthersKeep DEF Goto
  <2> QED
    BY <1>3, <1>5, <2>1 DEF PollResource
<1>6. CASE UndoResource(p, k)
  BY <1>2, <1>6 DEF UndoResource
<1> QED
  BY <1>4, <1>5, <1>6 DEF Define

LEMMA NextOwn ==
    ASSUME TypeOK, DefinesOwn, [Next]_vars
    PROVE  DefinesOwn'
<1>1. ASSUME UNCHANGED <<phase, resource, created>> PROVE DefinesOwn'
  BY <1>1 DEF DefinesOwn
<1>2. ASSUME NEW p \in Processes, Main(p) PROVE DefinesOwn'
  <2>1. ASSUME \/ DefineWorklowResource(p) \/ DefineCronWorkflowResource(p)
               \/ DefineDaemonSetJobResource(p)
        PROVE  DefinesOwn'
    BY <2>1, DefineOwn
    DEF DefineWorklowResource, DefineCronWorkflowResource, DefineDaemonSetJobResource,
        Resources
  <2>2. CASE Build(p)
    <3>1. \A q \in Processes \ {p} : resource'[q] = resource[q] /\ created'[q] = created[q]
      BY <2>2 DEF Build, TypeOK
    <3> QED
      BY <2>2, <3>1, OthersKeep DEF Build, Goto
  <2>3. CASE RunStep(p)
    BY <1>1, <2>3 DEF RunStep
  <2>4. CASE Exit(p)
    BY <2>4, OthersKeep DEF Exit, Dies
  <2>5. CASE StartAgain(p)
    <3>1. \A q \in Processes \ {p} : resource'[q] = resource[q] /\ created'[q] = created[q]
      BY <2>5 DEF StartAgain, TypeOK
    <3> QED
      BY <2>5, <3>1, OthersKeep DEF StartAgain, Goto, First
  <2> QED
    BY <1>2, <2>1, <2>2, <2>3, <2>4, <2>5 DEF Main, NewWorkflowControllerApp
<1>3. ASSUME NEW p \in Processes, Signal(p) PROVE DefinesOwn'
  <2>1. CASE Dies(p)
    BY <2>1, OthersKeep DEF Dies
  <2> QED
    BY <1>1, <1>3, <2>1 DEF Signal
<1>4. ASSUME NEW p \in Processes, NEW i \in Informers, InformerSyncs(p, i)
      PROVE  DefinesOwn'
  BY <1>1, <1>4 DEF InformerSyncs
<1>5. ASSUME NEW p \in Processes, NEW a \in Actors, BeginWork(p, a) PROVE DefinesOwn'
  BY <1>1, <1>5 DEF BeginWork
<1>6. ASSUME NEW k \in Resources, Establish(k) \/ Finalize(k) PROVE DefinesOwn'
  BY <1>1, <1>6 DEF Establish, Finalize, process
<1>7. CASE UNCHANGED vars
  BY <1>1, <1>7 DEF vars, process
<1> QED
  BY <1>2, <1>3, <1>4, <1>5, <1>6, <1>7 DEF Next

(* The only step that deletes a CRD is UndoResource. *)
LEMMA OnlyUndoDeletes ==
    ASSUME [Next]_vars, NEW k \in Resources, k \in deleting' \ deleting
    PROVE  \E p \in Processes : UndoResource(p, k)
<1>1. deleting' # deleting
  OBVIOUS
<1>2. ASSUME NEW l \in Resources, Establish(l) \/ Finalize(l) PROVE FALSE
  BY <1>2 DEF Establish, Finalize
<1>3. ASSUME NEW p \in Processes, NEW l \in Resources, NEW next, Define(p, l, next)
      PROVE  UndoResource(p, k)
  <2>1. ~CreateResource(p, l, next)
    BY <1>1 DEF CreateResource, Create, definitions
  <2>2. ~PollResource(p, l, next)
    BY <1>1 DEF PollResource, definitions
  <2>3. UndoResource(p, l)
    BY <1>3, <2>1, <2>2 DEF Define
  <2>4. l = k
    BY <2>3 DEF UndoResource
  <2> QED
    BY <2>3, <2>4
<1>4. ASSUME NEW p \in Processes, Main(p) PROVE UndoResource(p, k)
  <2>1. ~Build(p) /\ ~RunStep(p) /\ ~Exit(p) /\ ~StartAgain(p)
    BY <1>1 DEF Build, RunStep, Exit, StartAgain, cluster, definitions
  <2> QED
    BY <1>3, <1>4, <2>1
    DEF Main, NewWorkflowControllerApp, DefineWorklowResource, DefineCronWorkflowResource,
        DefineDaemonSetJobResource, Resources
<1>5. /\ \A p \in Processes : ~Signal(p)
      /\ \A p \in Processes, i \in Informers : ~InformerSyncs(p, i)
      /\ \A p \in Processes, a \in Actors : ~BeginWork(p, a)
      /\ ~UNCHANGED vars
  BY <1>1 DEF Signal, InformerSyncs, BeginWork, vars, cluster, definitions
<1> QED
  BY <1>2, <1>4, <1>5 DEF Next

(* Nor does a CRD disappear that nobody has deleted. *)
LEMMA OnlyDeletedDisappear ==
    ASSUME TypeOK, [Next]_vars, NEW k \in Resources,
           crds[k] # "absent", crds'[k] = "absent"
    PROVE  k \in deleting
<1>1. crds' # crds
  OBVIOUS
<1>2. crds \in [Resources -> Kinds]
  BY DEF TypeOK, Kinds
<1>3. ASSUME NEW l \in Resources, Establish(l) \/ Finalize(l) PROVE k \in deleting
  <2>1. ~Establish(l)
    BY <1>2 DEF Establish
  <2> QED
    BY <1>2, <1>3, <2>1 DEF Finalize
<1>4. ASSUME NEW p \in Processes, Main(p) PROVE FALSE
  <2>1. \A l \in Resources : ~(Create(l))
    BY <1>2 DEF Create
  <2>2. \A l \in Resources : \A next : ~Define(p, l, next)
    BY <1>1, <2>1 DEF Define, CreateResource, PollResource, UndoResource, definitions
  <2> QED
    BY <1>1, <1>4, <2>2
    DEF Main, NewWorkflowControllerApp, DefineWorklowResource, DefineCronWorkflowResource,
        DefineDaemonSetJobResource, Resources, Build, RunStep, Exit, StartAgain, cluster,
        definitions
<1>5. /\ \A p \in Processes : ~Signal(p)
      /\ \A p \in Processes, i \in Informers : ~InformerSyncs(p, i)
      /\ \A p \in Processes, a \in Actors : ~BeginWork(p, a)
      /\ ~UNCHANGED vars
  BY <1>1 DEF Signal, InformerSyncs, BeginWork, vars, cluster, definitions
<1> QED
  BY <1>3, <1>4, <1>5 DEF Next

(* A CRD is deleted only by a process that has created it since it started,  *)
(* whatever calls fail and whenever processes are signalled or restarted,    *)
(* and only a deleted one disappears (DefineWorklowResource and its two      *)
(* copies).                                                                  *)
THEOREM OnlyOwnDefinitionsUndone == Spec => OwnDefinitionsUndone
<1>1. Init => DefinesOwn
  BY DEF Init, First, DefinesOwn
<1>2. TypeOK /\ DefinesOwn /\ [Next]_vars => DefinesOwn'
  BY NextOwn
<1>3. TypeOK /\ DefinesOwn /\ [Next]_vars =>
        [\A k \in Resources :
            /\ (k \in deleting' \ deleting)
                  => \E p \in Processes : k \in created[p] /\ phase[p] = "undo"
            /\ (crds[k] # "absent" /\ crds'[k] = "absent") => k \in deleting]_vars
  <2> SUFFICES ASSUME TypeOK, DefinesOwn, [Next]_vars, NEW k \in Resources
               PROVE  /\ (k \in deleting' \ deleting)
                            => \E p \in Processes : k \in created[p] /\ phase[p] = "undo"
                      /\ (crds[k] # "absent" /\ crds'[k] = "absent") => k \in deleting
    OBVIOUS
  <2>1. ASSUME k \in deleting' \ deleting
        PROVE  \E p \in Processes : k \in created[p] /\ phase[p] = "undo"
    <3>1. PICK p \in Processes : UndoResource(p, k)
      BY <2>1, OnlyUndoDeletes
    <3> QED
      BY <3>1 DEF UndoResource, AtResource, DefinesOwn
  <2> QED
    BY <2>1, OnlyDeletedDisappear
<1> QED
  BY <1>1, <1>2, <1>3, ProcessTypeCorrect, PTL DEF Spec, OwnDefinitionsUndone

================================================================================

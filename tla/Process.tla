--------------------------------- MODULE Process --------------------------------
(***************************************************************************)
(* The life of the program's processes (app/workflow-controller.go,        *)
(* pkg/client): each one defines the custom resources, builds the          *)
(* informers and the controllers, starts them, and runs until it is        *)
(* signalled or dies; Kubernetes then starts it again.  During a rolling   *)
(* update there are two.                                                   *)
(*                                                                         *)
(* What controllers and collectors do once they run is in the modules of   *)
(* their own.                                                              *)
(***************************************************************************)
EXTENDS Integers, Sequences, FiniteSets

CONSTANTS
    Processes,
    Observed,        \* the processes that are followed beyond Build; the others are
                     \* there for what they do to the CRDs
    Installers,      \* the processes whose InstallCRDs is set
    MaxFaults,       \* bound: API calls that fail, and polls that time out
    MaxSignals       \* bound: signals to processes

ASSUME ProcessAssumption ==
    /\ Installers \subseteq Processes /\ Observed \subseteq Processes
    /\ {MaxFaults, MaxSignals} \subseteq Nat

Workflows == "workflows"
CronWorkflows == "cronworkflows"
DaemonSetJobs == "daemonsetjobs"
Resources == {Workflows, CronWorkflows, DaemonSetJobs}

Informers == {"jobs", "nodes", Workflows, DaemonSetJobs}

Controllers == {"workflow", "cronworkflow", "daemonsetjob"}
Collectors == {"workflowGC", "daemonsetjobGC"}
Actors == Controllers \cup Collectors

VARIABLES
    crds,       \* the CRDs: "absent", "defined" or "established"
    deleting,   \* the CRDs that are deleted but wait for their cleanup finalizer
    passed,     \* history: the CRDs that a process took for defined while they were
                \* being deleted, and that nobody has created since
    faults, signals,
    \* of each process:
    phase,      \* "create", "poll" or "undo" a resource, "build", "run" or "dead"
    resource,   \* the resource being defined
    created,    \* history: the CRDs it has created since it started, until it is built
    informers,  \* informers of its factories: a function to how often they run
    synced,     \* informers whose HasSynced is TRUE
    step,       \* the next statement of Run
    actors,     \* "none", "waiting" for caches, or "working"
    cancelled   \* ctx is done

definitions == <<crds, deleting, passed>>
cluster == <<definitions, faults, signals>>
process == <<phase, resource, created, informers, synced, step, actors, cancelled>>
vars == <<cluster, process>>

NoFault == UNCHANGED faults
Fault == faults < MaxFaults /\ faults' = faults + 1

(* InformerFor: each kind asked of a factory gets one informer.              *)
InformerFor(kinds) == [i \in kinds |-> 0]

(* The informers NewWorkflowController, NewDaemonSetJobController and the    *)
(* collectors wait for.                                                      *)
Awaited(a) ==
    CASE a = "workflow" -> {"jobs", Workflows}
      [] a = "daemonsetjob" -> {"jobs", "nodes", DaemonSetJobs}
      [] a = "workflowGC" -> {Workflows}
      [] a = "daemonsetjobGC" -> {DaemonSetJobs}
      [] a = "cronworkflow" -> {}

--------------------------------------------------------------------------------
(* The API server.                                                           *)

(* The names are accepted and the resource is served, until it is gone. *)
Establish(k) ==
    /\ crds[k] = "defined"
    /\ crds' = [crds EXCEPT ![k] = "established"]
    /\ UNCHANGED <<deleting, passed, faults, signals, process>>

(* A deleted CRD is Terminating while its objects are cleaned up; then its   *)
(* finalizer is done, and it is gone.                                        *)
Finalize(k) ==
    /\ k \in deleting
    /\ crds' = [crds EXCEPT ![k] = "absent"]
    /\ deleting' = deleting \ {k}
    /\ UNCHANGED <<passed, faults, signals, process>>

--------------------------------------------------------------------------------
(* Definition of the resources.                                              *)

Goto(p, ph) == phase' = [phase EXCEPT ![p] = ph]

(* glog.Fatalf, and the end of Run. *)
Dies(p) ==
    /\ phase' = [phase EXCEPT ![p] = "dead"]
    /\ UNCHANGED <<resource, created, informers, synced, step, actors, cancelled>>

AtResource(p, k, ph) == phase[p] = ph /\ resource[p] = k

(* On to the next resource; after the last one the process is built. *)
Defined(p, next) ==
    /\ Goto(p, IF next = "" THEN "build" ELSE "create")
    /\ resource' = [resource EXCEPT ![p] = next]

MutantAlreadyExists(p, next) == Goto(p, "poll") /\ UNCHANGED resource

(* The app tolerates that the CRD exists, and does not look at its status.   *)
AlreadyExists(p, next) == Defined(p, next)

Create(k) ==
    /\ crds[k] = "absent"
    /\ crds' = [crds EXCEPT ![k] = "defined"]
    /\ passed' = passed \ {k}
    /\ UNCHANGED deleting

(* Create is accepted, refused because the CRD exists, be it Terminating, or *)
(* fails, with or without effect.                                            *)
CreateResource(p, k, next) ==
    /\ AtResource(p, k, "create")
    /\ \/ /\ Create(k) /\ NoFault
          /\ created' = [created EXCEPT ![p] = @ \cup {k}]
          /\ Goto(p, "poll")
          /\ UNCHANGED <<resource, informers, synced, step, actors, cancelled>>
       \/ /\ crds[k] # "absent" /\ NoFault
          /\ AlreadyExists(p, next)
          /\ passed' = passed \cup (deleting \cap {k})
          /\ UNCHANGED <<crds, deleting, created, informers, synced, step, actors, cancelled>>
       \/ /\ Fault
          /\ Create(k) \/ UNCHANGED definitions
          /\ Dies(p)
    /\ UNCHANGED signals

(* wait.Poll: the resource is established; it cannot be read, or is gone; or *)
(* 60 seconds have passed.                                                   *)
PollResource(p, k, next) ==
    /\ AtResource(p, k, "poll")
    /\ \/ crds[k] = "established" /\ NoFault /\ Defined(p, next)
       \/ crds[k] = "absent" /\ NoFault /\ Goto(p, "undo") /\ UNCHANGED resource
       \/ Fault /\ Goto(p, "undo") /\ UNCHANGED resource
    /\ UNCHANGED <<definitions, signals, created, informers, synced, step, actors, cancelled>>

(* The CRD is to go, with every object of it, or the call fails or finds it  *)
(* gone; the error that led here is fatal in any case.                       *)
UndoResource(p, k) ==
    /\ AtResource(p, k, "undo")
    /\ \/ crds[k] # "absent" /\ deleting' = deleting \cup {k} /\ NoFault
       \/ crds[k] = "absent" /\ UNCHANGED deleting /\ NoFault
       \/ UNCHANGED deleting /\ Fault
    /\ Dies(p)
    /\ UNCHANGED <<crds, passed, signals>>

Define(p, k, next) ==
    CreateResource(p, k, next) \/ PollResource(p, k, next) \/ UndoResource(p, k)

DefineWorklowResource(p) == Define(p, Workflows, CronWorkflows)

DefineCronWorkflowResource(p) == Define(p, CronWorkflows, DaemonSetJobs)

DefineDaemonSetJobResource(p) == Define(p, DaemonSetJobs, "")

--------------------------------------------------------------------------------
(* NewWorkflowControllerApp and Run.                                         *)

(* The factories and what is asked of them by the constructors; the one of   *)
(* CronWorkflows is asked for nothing.                                       *)
Factory(f) ==
    CASE f = "kube" -> {"jobs", "nodes"}
      [] f = "workflow" -> {Workflows}
      [] f = "cronworkflow" -> {}
      [] f = "daemonsetjob" -> {DaemonSetJobs}

Build(p) ==
    /\ phase[p] = "build"
    /\ Goto(p, "run")
    /\ created' = [created EXCEPT ![p] = {}]
    /\ informers' = [informers EXCEPT ![p] = InformerFor(Informers)]
    /\ step' = [step EXCEPT ![p] = 1]
    /\ UNCHANGED <<cluster, resource, synced, actors, cancelled>>

MutantStart(p, f) ==
    /\ informers' = [informers EXCEPT ![p] =
           [i \in Informers |-> IF i \in Factory(f) THEN @[i] + 1 ELSE @[i]]]
    /\ UNCHANGED actors

(* Start runs the factory's informers that are not started yet. *)
Start(p, f) ==
    /\ informers' = [informers EXCEPT ![p] =
           [i \in Informers |-> IF i \in Factory(f) /\ @[i] = 0 THEN 1 ELSE @[i]]]
    /\ UNCHANGED actors

(* go c.workflowController.Run(ctx) and the others. *)
Go(p, S) ==
    /\ actors' = [actors EXCEPT ![p] =
           [a \in Actors |-> IF a \in S THEN "waiting" ELSE @[a]]]
    /\ UNCHANGED informers

MutantRun == <<"kube", "workflow", "runGCs", "workflow", "cronworkflow", "controllers">>

(* The statements of Run; the factory of workflows is started twice. *)
Run == <<"kube", "workflow", "runGCs", "workflow", "cronworkflow", "daemonsetjob",
         "controllers">>

RunStep(p) ==
    /\ phase[p] = "run"
    /\ p \in Observed
    /\ step[p] \in DOMAIN Run
    /\ CASE Run[step[p]] = "runGCs" -> Go(p, Collectors)
         [] Run[step[p]] = "controllers" -> Go(p, Controllers)
         [] OTHER -> Start(p, Run[step[p]])
    /\ step' = [step EXCEPT ![p] = @ + 1]
    /\ UNCHANGED <<cluster, phase, resource, created, synced, cancelled>>

(* A running informer lists its kind: the API server serves it. *)
InformerSyncs(p, i) ==
    /\ phase[p] = "run"
    /\ i \in Informers \ synced[p]
    /\ informers[p][i] > 0
    /\ i \in Resources => crds[i] = "established"
    /\ synced' = [synced EXCEPT ![p] = @ \cup {i}]
    /\ UNCHANGED <<cluster, phase, resource, created, informers, step, actors, cancelled>>

CachesSynced(p, a) == Awaited(a) \subseteq synced[p]

(* WaitForCacheSync returns, or there is nothing to wait for.  Once ctx is   *)
(* done a controller gives up; a collector goes on, to a wait.Until that     *)
(* returns at once: neither works.                                           *)
BeginWork(p, a) ==
    /\ phase[p] = "run"
    /\ actors[p][a] = "waiting"
    /\ CachesSynced(p, a)
    /\ ~cancelled[p]
    /\ actors' = [actors EXCEPT ![p][a] = "working"]
    /\ UNCHANGED <<cluster, phase, resource, created, informers, synced, step, cancelled>>

(* handleSignal cancels ctx; before Run installs it, the signal kills.       *)
Signal(p) ==
    /\ phase[p] # "dead"
    /\ signals < MaxSignals
    /\ signals' = signals + 1
    /\ IF phase[p] = "run" /\ ~cancelled[p]
       THEN /\ cancelled' = [cancelled EXCEPT ![p] = TRUE]
            /\ UNCHANGED <<phase, resource, created, informers, synced, step, actors>>
       ELSE Dies(p)   \* a second one panics, on the channel that is closed
    /\ UNCHANGED <<definitions, faults>>

(* Run returns without waiting for its goroutines: work ends wherever it is. *)
Exit(p) ==
    /\ phase[p] = "run"
    /\ p \in Observed => step[p] \notin DOMAIN Run
    /\ cancelled[p]
    /\ Dies(p)
    /\ UNCHANGED cluster

(* The readiness checks of the controllers' AddHealthCheck.                  *)
WorkflowsReady(p) == {Workflows, "jobs"} \subseteq synced[p]

DaemonSetJobsReady(p) == {DaemonSetJobs, "jobs", "nodes"} \subseteq synced[p]

(* Both kinds can be listed.  The app does not register this check.          *)
CronWorkflowsReady == \A k \in {Workflows, CronWorkflows} : crds[k] = "established"

NoActors == [a \in Actors |-> "none"]

First(p) == IF p \in Installers THEN "create" ELSE "build"

(* Kubernetes starts the process again. *)
StartAgain(p) ==
    /\ phase[p] = "dead"
    /\ Goto(p, First(p))
    /\ resource' = [resource EXCEPT ![p] = Workflows]
    /\ created' = [created EXCEPT ![p] = {}]
    /\ informers' = [informers EXCEPT ![p] = InformerFor({})]
    /\ synced' = [synced EXCEPT ![p] = {}]
    /\ step' = [step EXCEPT ![p] = 0]
    /\ actors' = [actors EXCEPT ![p] = NoActors]
    /\ cancelled' = [cancelled EXCEPT ![p] = FALSE]
    /\ UNCHANGED cluster

--------------------------------------------------------------------------------
(* Some CRDs may be left from earlier. *)
Init ==
    /\ crds \in [Resources -> {"absent", "established"}]
    /\ deleting = {} /\ passed = {}
    /\ faults = 0 /\ signals = 0
    /\ phase = [p \in Processes |-> First(p)]
    /\ resource = [p \in Processes |-> Workflows]
    /\ created = [p \in Processes |-> {}]
    /\ informers = [p \in Processes |-> InformerFor({})]
    /\ synced = [p \in Processes |-> {}]
    /\ step = [p \in Processes |-> 0]
    /\ actors = [p \in Processes |-> NoActors]
    /\ cancelled = [p \in Processes |-> FALSE]

NewWorkflowControllerApp(p) ==
    \/ DefineWorklowResource(p)
    \/ DefineCronWorkflowResource(p)
    \/ DefineDaemonSetJobResource(p)
    \/ Build(p)

Main(p) == NewWorkflowControllerApp(p) \/ RunStep(p) \/ Exit(p) \/ StartAgain(p)

Next ==
    \/ \E k \in Resources : Establish(k) \/ Finalize(k)
    \/ \E p \in Processes :
          \/ Main(p) \/ Signal(p)
          \/ \E i \in Informers : InformerSyncs(p, i)
          \/ \E a \in Actors : BeginWork(p, a)

Spec == Init /\ [][Next]_vars

(* The API server establishes CRDs and cleans up those that are deleted,     *)
(* Kubernetes restarts what died, goroutines get to run and informers retry  *)
(* their listing.  A CRD that is deleted and defined over and over is a      *)
(* fault each time.                                                          *)
FairSpec ==
    /\ Spec
    /\ \A k \in Resources : WF_vars(Establish(k)) /\ WF_vars(Finalize(k))
    /\ \A p \in Processes :
          /\ WF_vars(Main(p))
          /\ \A i \in Informers : WF_vars(InformerSyncs(p, i))
          /\ \A a \in Actors : WF_vars(BeginWork(p, a))

--------------------------------------------------------------------------------
(* Properties.                                                               *)

(* Type invariant. *)
TypeOK ==
    /\ crds \in [Resources -> {"absent", "defined", "established"}]
    /\ deleting \subseteq {k \in Resources : crds[k] # "absent"}
    /\ passed \subseteq Resources
    /\ {faults, signals} \subseteq Nat
    /\ phase \in [Processes -> {"create", "poll", "undo", "build", "run", "dead"}]
    /\ resource \in [Processes -> Resources \cup {""}]
    /\ created \in [Processes -> SUBSET Resources]
    /\ informers \in [Processes -> [Informers -> {0, 1}] \cup {InformerFor({})}]
    /\ \A p \in Processes : phase[p] = "run" => informers[p] \in [Informers -> {0, 1}]
    /\ synced \in [Processes -> SUBSET Informers]
    /\ step \in [Processes -> 0..(Len(Run) + 1)]
    /\ actors \in [Processes -> [Actors -> {"none", "waiting", "working"}]]
    /\ cancelled \in [Processes -> BOOLEAN]

(* A CRD, and with it every object of its kind, is deleted only by a process *)
(* that has created it since it started: one that finds its resources        *)
(* defined never does, whatever calls fail (DefineWorklowResource and its    *)
(* two copies).                                                              *)
OwnDefinitionsUndone ==
    [][ \A k \in Resources :
          /\ (k \in deleting' \ deleting)
                => \E p \in Processes : k \in created[p] /\ phase[p] = "undo"
          /\ (crds[k] # "absent" /\ crds'[k] = "absent") => k \in deleting ]_vars

Served(k) == crds[k] = "established" /\ k \notin deleting

(* In the end each resource is served, unless a process took it for defined  *)
(* while it was being taken back (NewWorkflowControllerApp accepts           *)
(* AlreadyExists, and nobody tries again); and in every process all          *)
(* controllers and collectors work whose resources are served, whatever has  *)
(* become of the others.                                                     *)
AllWork ==
    <>[](/\ \A k \in Resources : Served(k) \/ k \in passed
         /\ \A p \in Observed, a \in Actors :
               (\A k \in Awaited(a) \cap Resources : Served(k)) => actors[p][a] = "working"
         /\ passed = {} => \A p \in Observed :
               WorkflowsReady(p) /\ DaemonSetJobsReady(p) /\ CronWorkflowsReady)

================================================================================

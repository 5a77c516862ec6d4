---------------------------- MODULE GarbageCollector ----------------------------
(***************************************************************************)
(* A collector of the jobs that deleted owners leave behind                *)
(* (pkg/garbagecollector, and runGCs, which starts it).  The repository    *)
(* has the same code twice, for the jobs of workflows and for those of     *)
(* DaemonSetJobs; the modules that compose it say which objects it         *)
(* watches.  Every 10 seconds a round lists the jobs that carry the        *)
(* owner's label and, for each one whose owner neither the lister nor the  *)
(* API server knows, deletes all jobs of that name.                        *)
(*                                                                         *)
(* Owners are seen as names only, as the collector sees them.              *)
(***************************************************************************)
EXTENDS Integers, Sequences, FiniteSets

CONSTANTS
    OwnerName(_),    \* the owner label of a job: a name, Unnamed if empty
    Unnamed,
    Unlabelled,      \* OwnerName of a job without the label
    MaxFaults        \* bound: API calls that fail

VARIABLES
    stored,          \* the names of the owners in the API server
    cached,          \* the names of the owners the lister knows
    synced,          \* the informer's HasSynced
    jobs, jobWatch,  \* the jobs in the API server, and the watch on them
    faults,
    gcpc,            \* "start", "idle", "look", "get" or "delete"
    items,           \* owner names of the listed jobs still to look at
    collected        \* the names collected in this round

round == <<gcpc, items, collected>>

CallFails == faults < MaxFaults /\ faults' = faults + 1

(* The sequences that hold each element of the finite set S once. *)
Listings(S) ==
    {f \in [1..Cardinality(S) -> S] : \A x \in S : \E k \in DOMAIN f : f[k] = x}

Named(n) == {j \in jobs : OwnerName(j) = n}

GCInit == gcpc = "start" /\ items = <<>> /\ collected = {}

(* WaitForCacheSync has returned; wait.Until starts the first round. *)
CacheSynced ==
    /\ gcpc = "start"
    /\ synced
    /\ gcpc' = "idle"
    /\ UNCHANGED <<jobs, jobWatch, faults, items, collected>>

(* A round lists the labelled jobs of all namespaces, in any order. *)
ListJobs ==
    /\ gcpc = "idle"
    /\ \E f \in Listings(jobs \ Named(Unlabelled)) :
          /\ f # <<>>
          /\ items' = [k \in DOMAIN f |-> OwnerName(f[k])]
    /\ gcpc' = "look"
    /\ collected' = {}
    /\ UNCHANGED <<jobs, jobWatch, faults>>

(* The listing fails, and with it the round. *)
ListFails ==
    /\ gcpc = "idle"
    /\ CallFails
    /\ UNCHANGED <<jobs, jobWatch, round>>

(* The loop goes on with the next job, or the round ends. *)
NextItem ==
    /\ items' = Tail(items)
    /\ gcpc' = IF Len(items) = 1 THEN "idle" ELSE "look"

(* A job without an owner's name, one whose owner was collected before it,   *)
(* or one whose owner the lister knows.                                      *)
SkipItem ==
    /\ gcpc = "look"
    /\ Head(items) \in {Unnamed} \cup collected \cup cached
    /\ NextItem
    /\ UNCHANGED <<jobs, jobWatch, faults, collected>>

MutantSkipUnknown ==
    /\ gcpc = "look"
    /\ Head(items) \notin {Unnamed} \cup collected \cup cached
    /\ NextItem
    /\ UNCHANGED <<jobs, jobWatch, faults, collected>>

MutantLookInCache ==
    /\ gcpc = "look"
    /\ Head(items) \notin {Unnamed} \cup collected \cup cached
    /\ gcpc' = "delete"
    /\ UNCHANGED <<jobs, jobWatch, faults, items, collected>>

(* The lister does not know the owner: the API server is asked. *)
LookInCache ==
    /\ gcpc = "look"
    /\ Head(items) \notin {Unnamed} \cup collected \cup cached
    /\ gcpc' = "get"
    /\ UNCHANGED <<jobs, jobWatch, faults, items, collected>>

OwnerNotFound ==
    /\ gcpc = "get"
    /\ Head(items) \notin stored
    /\ gcpc' = "delete"
    /\ UNCHANGED <<jobs, jobWatch, faults, items, collected>>

(* The API server has the owner, or the call fails. *)
OwnerNotMissing ==
    /\ gcpc = "get"
    /\ \/ Head(items) \in stored /\ UNCHANGED faults
       \/ CallFails
    /\ NextItem
    /\ UNCHANGED <<jobs, jobWatch, collected>>

(* The jobs of S are deleted with foreground propagation: marked now, gone   *)
(* when their pods are.                                                      *)
MarkDeleted(S) ==
    LET doomed == {j \in S : ~j.deleting}
        marked(j) == [j EXCEPT !.deleting = TRUE]
    IN  /\ jobs' = (jobs \ doomed) \cup {marked(j) : j \in doomed}
        /\ \E f \in Listings(doomed) :
              jobWatch' = jobWatch \o
                  [k \in DOMAIN f |-> [type |-> "set", obj |-> marked(f[k])]]

DeleteCollection ==
    /\ gcpc = "delete"
    /\ MarkDeleted(Named(Head(items)))
    /\ collected' = collected \cup {Head(items)}
    /\ NextItem
    /\ UNCHANGED faults

(* DeleteCollection fails when it has deleted some of the jobs; the next     *)
(* listed job of that owner makes another attempt.                           *)
DeleteCollectionFails ==
    /\ gcpc = "delete"
    /\ CallFails
    /\ \E S \in SUBSET Named(Head(items)) : S # Named(Head(items)) /\ MarkDeleted(S)
    /\ NextItem
    /\ UNCHANGED collected

Collect ==
    \/ CacheSynced \/ ListJobs \/ ListFails \/ SkipItem \/ LookInCache
    \/ OwnerNotFound \/ OwnerNotMissing \/ DeleteCollection \/ DeleteCollectionFails

(* The process dies: the collector starts again. *)
StartAgain == gcpc' = "start" /\ items' = <<>> /\ collected' = {}

================================================================================

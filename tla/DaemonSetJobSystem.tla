--------------------------- MODULE DaemonSetJobSystem ---------------------------
(***************************************************************************)
(* The DaemonSetJob controller and the collector of the jobs of removed    *)
(* DaemonSetJobs, in one process.  The collector is not told when a        *)
(* DaemonSetJob of the same name comes back, and deletes by name.          *)
(***************************************************************************)
EXTENDS DaemonSetJobController

VARIABLES
    gcpc, items, collected,  \* the collector's round
    missing                  \* history: uids when the collector last found no owner

collector == <<gcpc, items, collected>>
systemVars == <<vars, collector, missing>>

OwnerOf(j) == <<j.ns, j.labels[DaemonSetJobLabelKey]>>

Names(o) == IF o = Nil THEN {} ELSE {<<Namespace, Name>>}

GC == INSTANCE GarbageCollector WITH
    OwnerName <- OwnerOf, Unnamed <- <<Namespace, "">>, Unlabelled <- Nil,
    stored <- Names(dsj), cached <- Names(dsjCache), synced <- unsynced.dsj = 0

CollectDaemonSetJobJobs ==
    /\ GC!Collect
    /\ missing' = IF gcpc # "delete" /\ gcpc' = "delete" THEN uids ELSE missing
    /\ UNCHANGED <<dsjStore, jobCount, nodeStore, now, caches, uids, edits,
                   queue, worker, restarts>>

SystemInit == Init /\ GC!GCInit /\ missing = 0

SystemNext ==
    \/ /\ Surroundings \/ Handlers \/ RetryFires \/ Worker
       /\ UNCHANGED <<collector, missing>>
    \/ CollectDaemonSetJobJobs
    \/ Restart /\ GC!StartAgain /\ UNCHANGED missing

SystemSpec == SystemInit /\ [][SystemNext]_systemVars

--------------------------------------------------------------------------------
(* Properties.                                                               *)

(* The jobs this step of the collector deletes. *)
CollectedNow == IF gcpc = "delete" /\ gcpc' # "delete" THEN MarkedNow ELSE {}

(* The collector is no danger to a DaemonSetJob it could have known of: a    *)
(* job whose owner exists is deleted only if the owner was created after the *)
(* API server had answered that there is none, however far behind the lister *)
(* is (CollectDaemonSetJobJobs).                                             *)
CollectsMissedOnly ==
    [][ \A j \in CollectedNow : dsj # Nil /\ j.uid = dsj.uid => dsj.uid > missing
      ]_systemVars

================================================================================

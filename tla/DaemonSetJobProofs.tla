--------------------------- MODULE DaemonSetJobProofs ---------------------------
(***************************************************************************)
(* Proofs about DaemonSetJobController, for every value of its constants:  *)
(* its type invariant, that the published status never contradicts itself, *)
(* whatever order passes, conflicts and deadlines come in, and that jobs   *)
(* and nodes agree when the controller falls silent.  And about            *)
(* DaemonSetJobSystem, which puts the collector beside it: the collector   *)
(* spares the jobs of an owner it could have known of.                     *)
(***************************************************************************)
EXTENDS DaemonSetJobSystem, DaemonSetJobWakeup, FiniteSetTheorems, WellFoundedInduction, TLAPS

JobEvent == [type : {"set", "del"}, obj : Job]
NodeEvent == [node : Nodes, pool : Pools \cup {Nil}]

--------------------------------------------------------------------------------
(* Labels and conditions.                                                    *)

(* Merging two label sets gives a label set. *)
LEMMA MergeType ==
    ASSUME NEW f \in LabelSet, NEW g \in LabelSet
    PROVE  Merge(f, g) \in LabelSet
<1>1. PICK K \in SUBSET LabelKeys : f \in [K -> LabelValues]
  BY DEF LabelSet
<1>2. PICK L \in SUBSET LabelKeys : g \in [L -> LabelValues]
  BY DEF LabelSet
<1>3. Merge(f, g) \in [K \cup L -> LabelValues]
  BY <1>1, <1>2 DEF Merge
<1>4. K \cup L \in SUBSET LabelKeys
  OBVIOUS
<1> QED
  BY <1>3, <1>4 DEF LabelSet

LEMMA JobLabelsType ==
    ASSUME NEW o \in DaemonSetJob
    PROVE  getJobLabelsSetFromDaemonSetJob(o) \in LabelSet
<1>1. NameLabel \in LabelSet
  <2>1. NameLabel \in [{DaemonSetJobLabelKey} -> LabelValues]
    BY DaemonSetJobClusterAssumption DEF NameLabel
  <2>2. {DaemonSetJobLabelKey} \in SUBSET LabelKeys
    BY DaemonSetJobClusterAssumption
  <2> QED
    BY <2>1, <2>2 DEF LabelSet
<1>2. o.sel \in LabelSet /\ TemplateLabels[o.tmpl] \in LabelSet
  BY DaemonSetJobClusterAssumption DEF DaemonSetJob
<1> QED
  BY <1>1, <1>2, MergeType DEF getJobLabelsSetFromDaemonSetJob

True(conds, t) == \E k \in DOMAIN conds : conds[k] = [type |-> t, true |-> TRUE]

(* Lists of conditions as the controller keeps them: Complete is there once  *)
(* at most, and of the Failed conditions only the first may be withdrawn.    *)
CondsOK(conds) ==
    /\ conds \in Seq(Condition)
    /\ \A k, l \in DOMAIN conds :
          (conds[k].type = "Complete" /\ conds[l].type = "Complete") => k = l
    /\ \A k, l \in DOMAIN conds :
          (k < l /\ conds[k].type = "Failed" /\ conds[l].type = "Failed")
             => conds[l].true

(* A non-empty set of natural numbers has a least element. *)
LEMMA NatLeast ==
    ASSUME NEW T, T \subseteq Nat, T # {}
    PROVE  \E x \in T : \A y \in T : x <= y
<1> DEFINE R == OpToRel(<, Nat)
<1>1. IsWellFoundedOn(R, Nat)
  BY NatLessThanWellFounded
<1>2. PICK x \in T : \A y \in T : ~ (<<y, x>> \in R)
  <2> HIDE DEF R
  <2> QED
    BY <1>1, WFMin
<1>3. \A y \in T : ~ (y < x)
  BY <1>2 DEF OpToRel
<1> QED
  BY <1>3

(* What updateDaemonSetJobStatusCondition does to such a list. *)
LEMMA WithConditionSets ==
    ASSUME NEW conds, CondsOK(conds), NEW t \in {"Complete", "Failed"}, NEW b \in BOOLEAN
    PROVE  /\ CondsOK(WithCondition(conds, t, b))
           /\ b => True(WithCondition(conds, t, b), t)
           /\ (t = "Complete" /\ ~b) => ~True(WithCondition(conds, t, b), t)
           /\ \A u \in {"Complete", "Failed"} \ {t} :
                 True(WithCondition(conds, t, b), u) <=> True(conds, u)
<1> DEFINE same == {k \in DOMAIN conds : conds[k].type = t}
           first == CHOOSE k \in same : \A l \in same : k <= l
           new == WithCondition(conds, t, b)
           n == Len(conds)
<1>1. /\ conds \in Seq(Condition) /\ n \in Nat /\ DOMAIN conds = 1..n
      /\ \A k \in 1..n : conds[k] \in Condition
      /\ \A k \in 1..n : conds[k] = [type |-> conds[k].type, true |-> conds[k].true]
      /\ \A k \in 1..n : conds[k].true \in BOOLEAN
  <2>1. conds \in Seq(Condition)
    BY DEF CondsOK
  <2>2. \A k \in 1..n : conds[k] \in Condition
    BY <2>1
  <2> QED
    BY <2>1, <2>2 DEF Condition
<1>2. CASE same # {}
  <2>1. first \in same /\ \A l \in same : first <= l
    <3>1. same \subseteq Nat
      BY <1>1
    <3>2. PICK x \in same : \A y \in same : x <= y
      BY <1>2, <3>1, NatLeast
    <3> HIDE DEF same
    <3> QED
      BY <3>2
  <2>2. new = [conds EXCEPT ![first].true = b]
    BY <1>2 DEF WithCondition
  <2> HIDE DEF first, new
  <2>3. first \in 1..n /\ conds[first].type = t
    BY <1>1, <2>1
  <2>4. [conds[first] EXCEPT !.true = b] = [type |-> t, true |-> b]
    BY <1>1, <2>3
  <2>5. /\ new \in Seq(Condition) /\ Len(new) = n /\ DOMAIN new = 1..n
        /\ new[first] = [type |-> t, true |-> b]
        /\ \A k \in 1..n : k # first => new[k] = conds[k]
    <3>1. [type |-> t, true |-> b] \in Condition
      BY DEF Condition
    <3>2. new = [conds EXCEPT ![first] = [type |-> t, true |-> b]]
      BY <2>2, <2>4
    <3> QED
      BY <1>1, <2>3, <3>1, <3>2
  <2>6. \A k \in 1..n : new[k].type = conds[k].type
    BY <2>3, <2>5
  <2>7. CondsOK(new)
    <3>1. ASSUME NEW k \in 1..n, NEW l \in 1..n, k < l,
                 new[k].type = "Failed", new[l].type = "Failed"
          PROVE  new[l].true
      <4>1. conds[l].true
        BY <1>1, <2>6, <3>1 DEF CondsOK
      <4>2. l # first
        <5>1. l = first => k \in same
          BY <1>1, <2>3, <2>6, <3>1
        <5> QED
          BY <1>1, <2>1, <2>3, <3>1, <5>1
      <4> QED
        BY <2>5, <4>1, <4>2
    <3>2. \A k, l \in 1..n :
             (new[k].type = "Complete" /\ new[l].type = "Complete") => k = l
      BY <1>1, <2>6 DEF CondsOK
    <3> QED
      BY <2>5, <3>1, <3>2 DEF CondsOK
  <2>8. b => True(new, t)
    BY <2>3, <2>5 DEF True
  <2>9. (t = "Complete" /\ ~b) => ~True(new, t)
    <3> SUFFICES ASSUME t = "Complete", ~b, NEW k \in 1..n,
                        new[k] = [type |-> t, true |-> TRUE]
                 PROVE  FALSE
      BY <2>5 DEF True
    <3>1. k = first
      BY <1>1, <2>3, <2>6 DEF CondsOK
    <3>2. new[k].true = TRUE /\ new[k].true = b
      BY <2>5, <3>1
    <3> QED
      BY <3>2
  <2>10. ASSUME NEW u \in {"Complete", "Failed"} \ {t}
         PROVE  True(new, u) <=> True(conds, u)
    <3>1. ASSUME NEW k \in 1..n, new[k] = [type |-> u, true |-> TRUE]
          PROVE  k # first /\ conds[k] = new[k]
      <4>1. new[first].type = t /\ new[k].type = u
        BY <2>5, <3>1
      <4>2. k # first
        BY <2>10, <4>1
      <4> QED
        BY <2>5, <4>2
    <3>2. \A k \in 1..n : conds[k] = [type |-> u, true |-> TRUE] =>
             k # first /\ conds[k] = new[k]
      BY <2>3, <2>5
    <3> QED
      BY <1>1, <2>5, <3>1, <3>2 DEF True
  <2> QED
    BY <2>7, <2>8, <2>9, <2>10 DEF new
<1>3. CASE same = {} /\ b
  <2>1. new = Append(conds, [type |-> t, true |-> TRUE])
    BY <1>3 DEF WithCondition
  <2> HIDE DEF new
  <2>2. /\ new \in Seq(Condition) /\ DOMAIN new = 1..(n + 1)
        /\ new[n + 1] = [type |-> t, true |-> TRUE]
        /\ \A k \in 1..n : new[k] = conds[k]
    <3>1. [type |-> t, true |-> TRUE] \in Condition
      BY DEF Condition
    <3> QED
      BY <1>1, <2>1, <3>1
  <2>3. \A k \in 1..n : conds[k].type # t
    BY <1>1, <1>3
  <2>4. \A k \in 1..(n + 1) : k \in 1..n \/ k = n + 1
    BY <1>1
  <2>5. CondsOK(new)
    <3>1. \A k, l \in 1..(n + 1) :
             (new[k].type = "Complete" /\ new[l].type = "Complete") => k = l
      BY <1>1, <2>2, <2>3, <2>4 DEF CondsOK
    <3>2. \A k, l \in 1..(n + 1) :
             (k < l /\ new[k].type = "Failed" /\ new[l].type = "Failed") => new[l].true
      BY <1>1, <2>2, <2>3, <2>4 DEF CondsOK
    <3> QED
      BY <2>2, <3>1, <3>2 DEF CondsOK
  <2>6. True(new, t)
    BY <1>1, <2>2 DEF True
  <2>7. ASSUME NEW u \in {"Complete", "Failed"} \ {t}
        PROVE  True(new, u) <=> True(conds, u)
    <3>1. new[n + 1] # [type |-> u, true |-> TRUE]
      BY <2>2
    <3>2. 1..n \subseteq 1..(n + 1)
      BY <1>1
    <3> QED
      BY <1>1, <2>2, <2>4, <3>1, <3>2 DEF True
  <2> QED
    BY <1>3, <2>5, <2>6, <2>7 DEF new
<1>4. CASE same = {} /\ ~b
  <2>1. new = conds
    BY <1>4 DEF WithCondition
  <2>2. ~True(conds, t)
    <3>1. \A k \in DOMAIN conds : conds[k].type # t
      BY <1>4
    <3> QED
      BY <3>1 DEF True
  <2> HIDE DEF new
  <2> QED
    BY <1>4, <2>1, <2>2 DEF new
<1> QED
  BY <1>2, <1>3, <1>4

--------------------------------------------------------------------------------
(* The inductive invariant.                                                  *)

(* What every copy of the DaemonSetJob says of the jobs: stored, under way,  *)
(* cached or the worker's own.  The model drops conditions at its bound, and *)
(* with them the only sign of a deadline if there is no room for three.      *)
StatusOK(o) ==
    /\ CondsOK(o.conds)
    /\ True(o.conds, "Complete") => o.completion /\ o.active = 0
    /\ (o.completion /\ MaxConds >= 3) =>
          True(o.conds, "Complete") \/ True(o.conds, "Failed")
    /\ o.failed > 0 => True(o.conds, "Failed")
    /\ o.active + o.succeeded + o.failed <= Cardinality(Nodes)

Sound == {o \in DaemonSetJob : StatusOK(o)}

DaemonSetJobEvent == [type : {"set", "del"}, obj : Sound]

DaemonSetJobsOK ==
    /\ dsj \in Sound \cup {Nil}
    /\ dsjWatch \in Seq(DaemonSetJobEvent)

JobsOK ==
    /\ jobs \subseteq Job
    /\ IsFiniteSet(jobs)
    /\ jobWatch \in Seq(JobEvent)

NodesOK ==
    /\ nodes \in [Nodes -> Pools \cup {Nil}]
    /\ nodeWatch \in Seq(NodeEvent)

CachesOK ==
    /\ dsjCache \in Sound \cup {Nil}
    /\ jobCache \subseteq Job
    /\ nodeCache \in [Nodes -> Pools \cup {Nil}]
    /\ unsynced \in [dsj : Nat, job : Nat, node : Nat]

NumbersOK ==
    /\ now \in Nat /\ uids \in Nat /\ edits \in Nat /\ faults \in Nat
    /\ jobCount \in Nat /\ nodeChanges \in Nat /\ restarts \in Nat

Total(t) == t["active"] + t["succeeded"] + t["failed"]

(* No node is counted twice: those counted and those to come are among the   *)
(* nodes there are.                                                          *)
Counted ==
    IF pc = "nodes" THEN Total(tally) + Cardinality(todoNodes) <= Cardinality(Nodes)
                    ELSE tally = Zero

WorkerOK ==
    /\ dirty \in BOOLEAN /\ waiting \in BOOLEAN
    /\ pc \in {"idle", "sync", "duplicates", "nodes", "cleanup"}
    /\ local \in Sound \cup {Nil}
    /\ pc \in {"duplicates", "nodes"} => local \in Sound
    /\ began \in Nat
    /\ byNode \in [Nodes -> Job \cup {Nil}]
    /\ todo \subseteq Job
    /\ todoNodes \subseteq Nodes
    /\ tally \in [JobStatus -> Nat]
    /\ toBeUpdated \in BOOLEAN /\ failing \in BOOLEAN
    /\ Counted

StatusInv ==
    DaemonSetJobsOK /\ JobsOK /\ NodesOK /\ CachesOK /\ NumbersOK /\ WorkerOK

--------------------------------------------------------------------------------
(* The changes that leave the status of a DaemonSetJob alone.                *)

SameStatus(p, o) ==
    /\ p.conds = o.conds /\ p.completion = o.completion
    /\ p.active = o.active /\ p.succeeded = o.succeeded /\ p.failed = o.failed

LEMMA SameStatusSound ==
    ASSUME NEW o \in Sound, NEW p \in DaemonSetJob, SameStatus(p, o)
    PROVE  p \in Sound
<1>1. StatusOK(p)
  <2>1. StatusOK(o)
    BY DEF Sound
  <2> QED
    BY <2>1 DEF StatusOK, SameStatus
<1> QED
  BY <1>1 DEF Sound

LEMMA NextVersionSound ==
    ASSUME NEW o \in Sound
    PROVE  NextVersion(o) \in Sound
<1> DEFINE v == (o.rv + 1) % Versions
<1>1. o \in DaemonSetJob
  BY DEF Sound
<1>2. v \in Nat
  <2>1. Versions \in Nat /\ Versions > 0
    BY DaemonSetJobClusterAssumption DEF Versions
  <2>2. o.rv \in Nat
    BY <1>1 DEF DaemonSetJob
  <2> QED
    BY <2>1, <2>2
<1>3. NextVersion(o) = [o EXCEPT !.rv = v]
  BY DEF NextVersion
<1> HIDE DEF v
<1>4. NextVersion(o) \in DaemonSetJob
  BY <1>1, <1>2, <1>3 DEF DaemonSetJob
<1>5. SameStatus(NextVersion(o), o)
  BY <1>1, <1>3 DEF SameStatus, DaemonSetJob
<1> QED
  BY <1>4, <1>5, SameStatusSound

LEMMA DefaultedSound ==
    ASSUME NEW o \in Sound
    PROVE  [o EXCEPT !.defaulted = TRUE] \in Sound
<1>1. o \in DaemonSetJob
  BY DEF Sound
<1>2. [o EXCEPT !.defaulted = TRUE] \in DaemonSetJob
  BY <1>1 DEF DaemonSetJob
<1>3. SameStatus([o EXCEPT !.defaulted = TRUE], o)
  BY <1>1 DEF SameStatus, DaemonSetJob
<1> QED
  BY <1>2, <1>3, SameStatusSound

LEMMA DeletingSound ==
    ASSUME NEW o \in Sound
    PROVE  [o EXCEPT !.deleting = TRUE] \in Sound
<1>1. o \in DaemonSetJob
  BY DEF Sound
<1>2. [o EXCEPT !.deleting = TRUE] \in DaemonSetJob
  BY <1>1 DEF DaemonSetJob
<1>3. SameStatus([o EXCEPT !.deleting = TRUE], o)
  BY <1>1 DEF SameStatus, DaemonSetJob
<1> QED
  BY <1>2, <1>3, SameStatusSound

LEMMA StartedSound ==
    ASSUME NEW o \in Sound, NEW t \in Nat
    PROVE  [o EXCEPT !.start = t] \in Sound
<1>1. o \in DaemonSetJob
  BY DEF Sound
<1>2. [o EXCEPT !.start = t] \in DaemonSetJob
  BY <1>1 DEF DaemonSetJob
<1>3. SameStatus([o EXCEPT !.start = t], o)
  BY <1>1 DEF SameStatus, DaemonSetJob
<1> QED
  BY <1>2, <1>3, SameStatusSound

LEMMA EditedSound ==
    ASSUME NEW o \in Sound, NEW s \in Specs
    PROVE  [o EXCEPT !.defaulted = s.defaulted, !.valid = s.valid,
                     !.tmpl = s.tmpl, !.pools = s.pools,
                     !.deadline = s.deadline, !.sel = UserSelector] \in Sound
<1> DEFINE p == [o EXCEPT !.defaulted = s.defaulted, !.valid = s.valid,
                          !.tmpl = s.tmpl, !.pools = s.pools,
                          !.deadline = s.deadline, !.sel = UserSelector]
<1>1. o \in DaemonSetJob
  BY DEF Sound
<1>2. s \in Specification /\ UserSelector \in LabelSet
  BY DaemonSetJobClusterAssumption
<1>3. p \in DaemonSetJob
  BY <1>1, <1>2 DEF DaemonSetJob, Specification
<1>4. SameStatus(p, o)
  BY <1>1 DEF SameStatus, DaemonSetJob
<1> QED
  BY <1>3, <1>4, SameStatusSound

LEMMA LabelledSound ==
    ASSUME NEW o \in Sound
    PROVE  WithJobLabels(o) \in Sound
<1>1. o \in DaemonSetJob
  BY DEF Sound
<1> DEFINE l == getJobLabelsSetFromDaemonSetJob(o)
<1>2. l \in LabelSet
  BY <1>1, JobLabelsType
<1>3. WithJobLabels(o) = [o EXCEPT !.sel = l]
  BY DEF WithJobLabels
<1> HIDE DEF l
<1>4. WithJobLabels(o) \in DaemonSetJob
  BY <1>1, <1>2, <1>3 DEF DaemonSetJob
<1>5. SameStatus(WithJobLabels(o), o)
  BY <1>1, <1>3 DEF SameStatus, DaemonSetJob
<1> QED
  BY <1>4, <1>5, SameStatusSound

LEMMA CardinalitiesNat ==
    /\ Cardinality(Nodes) \in Nat
    /\ \A S \in SUBSET Nodes : /\ IsFiniteSet(S) /\ Cardinality(S) \in Nat
                               /\ Cardinality(S) <= Cardinality(Nodes)
BY DaemonSetJobClusterAssumption, FS_CardinalityType, FS_Subset

(* A DaemonSetJob as users create it. *)
LEMMA CreatedSound ==
    ASSUME NEW s \in Specs, NEW u \in Nat
    PROVE  [uid |-> u + 1, rv |-> 0, deleting |-> FALSE,
            defaulted |-> s.defaulted, valid |-> s.valid,
            tmpl |-> s.tmpl, pools |-> s.pools, deadline |-> s.deadline,
            sel |-> UserSelector,
            start |-> Nil, completion |-> FALSE,
            active |-> 0, succeeded |-> 0, failed |-> 0,
            conds |-> <<>>, probe |-> Nil] \in Sound
<1> DEFINE p == [uid |-> u + 1, rv |-> 0, deleting |-> FALSE,
                 defaulted |-> s.defaulted, valid |-> s.valid,
                 tmpl |-> s.tmpl, pools |-> s.pools, deadline |-> s.deadline,
                 sel |-> UserSelector,
                 start |-> Nil, completion |-> FALSE,
                 active |-> 0, succeeded |-> 0, failed |-> 0,
                 conds |-> <<>>, probe |-> Nil]
<1>1. s \in Specification /\ UserSelector \in LabelSet
  BY DaemonSetJobClusterAssumption
<1>2. p \in DaemonSetJob
  BY <1>1 DEF DaemonSetJob, Specification
<1>3. /\ p.conds = <<>> /\ p.completion = FALSE
      /\ p.active = 0 /\ p.succeeded = 0 /\ p.failed = 0
  OBVIOUS
<1> HIDE DEF p
<1>4. CondsOK(<<>>) /\ ~True(<<>>, "Complete")
  BY DEF CondsOK, True
<1>5. StatusOK(p)
  BY <1>3, <1>4, CardinalitiesNat DEF StatusOK
<1> QED
  BY <1>2, <1>5 DEF Sound, p

(* The status that a pass publishes, of the jobs it counted. *)
LEMMA PublishedSound ==
    ASSUME NEW o \in Sound, tally \in [JobStatus -> Nat],
           Total(tally) <= Cardinality(Nodes), now \in Nat
    PROVE  WithStatus(o) \in Sound
<1> DEFINE a == tally["active"]
           complete == a = 0
           conds1 == WithCondition(o.conds, "Complete", complete)
           conds2 == WithCondition(conds1, "Failed", tally["failed"] > 0)
           p == WithStatus(o)
<1>1. o \in DaemonSetJob /\ StatusOK(o)
  BY DEF Sound
<1>2. a \in Nat /\ tally["succeeded"] \in Nat /\ tally["failed"] \in Nat
  BY DEF JobStatus
<1>3. /\ CondsOK(conds1)
      /\ complete => True(conds1, "Complete")
      /\ ~complete => ~True(conds1, "Complete")
  <2>1. CondsOK(o.conds)
    BY <1>1 DEF StatusOK
  <2>2. complete \in BOOLEAN
    OBVIOUS
  <2> HIDE DEF complete
  <2> QED
    BY <2>1, <2>2, WithConditionSets
<1>4. /\ CondsOK(conds2)
      /\ tally["failed"] > 0 => True(conds2, "Failed")
      /\ True(conds2, "Complete") <=> True(conds1, "Complete")
  <2> DEFINE some == tally["failed"] > 0
  <2>1. some \in BOOLEAN
    BY <1>2
  <2> HIDE DEF conds1, some
  <2>2. /\ CondsOK(WithCondition(conds1, "Failed", some))
        /\ some => True(WithCondition(conds1, "Failed", some), "Failed")
        /\ True(WithCondition(conds1, "Failed", some), "Complete")
              <=> True(conds1, "Complete")
    BY <1>3, <2>1, WithConditionSets
  <2> QED
    BY <2>2 DEF some
<1>5. PICK pr \in Nat \cup {Nil} :
         p = [o EXCEPT !.active = a, !.succeeded = tally["succeeded"],
                       !.failed = tally["failed"], !.completion = complete,
                       !.conds = conds2, !.probe = pr]
  <2> DEFINE pr == IF conds2 = <<>> THEN o.probe ELSE now
  <2>1. pr \in Nat \cup {Nil}
    BY <1>1 DEF DaemonSetJob
  <2>2. p = [o EXCEPT !.active = a, !.succeeded = tally["succeeded"],
                      !.failed = tally["failed"], !.completion = complete,
                      !.conds = conds2, !.probe = pr]
    BY DEF WithStatus
  <2> HIDE DEF pr, p, conds2, conds1, complete, a
  <2> QED
    BY <2>1, <2>2
<1>6. complete \in BOOLEAN /\ (complete <=> a = 0)
  OBVIOUS
<1> HIDE DEF p, conds2, conds1, complete, a
<1>7. conds2 \in Seq(Condition)
  BY <1>4 DEF CondsOK
<1>8. p \in DaemonSetJob
  BY <1>1, <1>2, <1>5, <1>6, <1>7 DEF DaemonSetJob
<1>9. /\ p.active = a /\ p.succeeded = tally["succeeded"]
      /\ p.failed = tally["failed"] /\ p.completion = complete /\ p.conds = conds2
  BY <1>1, <1>5 DEF DaemonSetJob
<1>10. StatusOK(p)
  <2>1. a + tally["succeeded"] + tally["failed"] <= Cardinality(Nodes)
    BY DEF Total, a
  <2> QED
    BY <1>3, <1>4, <1>6, <1>9, <2>1 DEF StatusOK
<1> QED
  BY <1>8, <1>10 DEF Sound, p

(* Of three conditions one at least is a Failed that nothing withdraws. *)
LEMMA ThreeConditions ==
    ASSUME NEW conds, CondsOK(conds), Len(conds) >= 3
    PROVE  True(conds, "Failed")
<1>1. /\ conds \in Seq(Condition) /\ DOMAIN conds = 1..Len(conds)
      /\ 1 \in DOMAIN conds /\ 2 \in DOMAIN conds /\ 3 \in DOMAIN conds
  BY DEF CondsOK
<1>2. \A k \in DOMAIN conds :
         /\ conds[k] = [type |-> conds[k].type, true |-> conds[k].true]
         /\ conds[k].type \in {"Complete", "Failed"} /\ conds[k].true \in BOOLEAN
  <2>1. \A k \in DOMAIN conds : conds[k] \in Condition
    BY <1>1
  <2> QED
    BY <2>1 DEF Condition
<1>3. PICK k \in DOMAIN conds : conds[k].type = "Failed" /\ conds[k].true
  <2>1. CASE conds[3].type = "Complete"
    <3>1. conds[1].type = "Failed" /\ conds[2].type = "Failed"
      BY <1>1, <1>2, <2>1 DEF CondsOK
    <3>2. conds[2].true
      BY <1>1, <3>1 DEF CondsOK
    <3> QED
      BY <1>1, <3>1, <3>2
  <2>2. CASE conds[3].type = "Failed"
    <3>1. conds[1].type = "Failed" \/ conds[2].type = "Failed"
      BY <1>1, <1>2 DEF CondsOK
    <3>2. conds[3].true
      BY <1>1, <2>2, <3>1 DEF CondsOK
    <3> QED
      BY <1>1, <2>2, <3>2
  <2> QED
    BY <1>1, <1>2, <2>1, <2>2
<1>4. conds[k] = [type |-> "Failed", true |-> TRUE]
  BY <1>2, <1>3
<1> QED
  BY <1>4 DEF True

LEMMA DeadlineSound ==
    ASSUME NEW o \in Sound, now \in Nat
    PROVE  WithDeadlineExceeded(o) \in Sound
<1> DEFINE f == [type |-> "Failed", true |-> TRUE]
           new == IF Len(o.conds) < MaxConds THEN Append(o.conds, f) ELSE o.conds
           p == WithDeadlineExceeded(o)
<1>1. o \in DaemonSetJob /\ StatusOK(o)
  BY DEF Sound
<1>2. p = [o EXCEPT !.completion = TRUE, !.probe = now, !.conds = new]
  BY DEF WithDeadlineExceeded
<1>3. CondsOK(o.conds) /\ o.conds \in Seq(Condition) /\ Len(o.conds) \in Nat
  BY <1>1 DEF StatusOK, CondsOK
<1>4. MaxConds \in Nat
  BY DaemonSetJobAssumption
<1>5. /\ CondsOK(new)
      /\ True(new, "Complete") <=> True(o.conds, "Complete")
      /\ True(o.conds, "Failed") => True(new, "Failed")
      /\ MaxConds >= 3 => True(new, "Failed")
  <2>1. CASE Len(o.conds) < MaxConds
    <3> DEFINE n == Len(o.conds)
    <3>1. f \in Condition
      BY DEF Condition
    <3>2. /\ new \in Seq(Condition) /\ DOMAIN new = 1..(n + 1) /\ new[n + 1] = f
          /\ DOMAIN o.conds = 1..n
          /\ \A k \in 1..n : new[k] = o.conds[k] /\ k \in 1..(n + 1)
          /\ \A k \in 1..(n + 1) : k \in 1..n \/ k = n + 1
      BY <1>3, <2>1, <3>1
    <3>3. f.type = "Failed" /\ f.true /\ f # [type |-> "Complete", true |-> TRUE]
      OBVIOUS
    <3> HIDE DEF new
    <3>4. \A k, l \in 1..(n + 1) :
             (new[k].type = "Complete" /\ new[l].type = "Complete") => k = l
      BY <1>3, <3>2, <3>3 DEF CondsOK
    <3>5. ASSUME NEW k \in 1..(n + 1), NEW l \in 1..(n + 1), k < l,
                 new[k].type = "Failed", new[l].type = "Failed"
          PROVE  new[l].true
      <4>1. CASE l = n + 1
        BY <3>2, <3>3, <4>1
      <4>2. CASE l # n + 1
        <5>1. k \in 1..n /\ l \in 1..n
          BY <1>3, <3>5, <4>2
        <5>2. o.conds[k].type = "Failed" /\ o.conds[l].type = "Failed"
          BY <3>2, <3>5, <5>1
        <5>3. o.conds[l].true
          BY <1>3, <3>2, <3>5, <5>1, <5>2 DEF CondsOK
        <5> QED
          BY <3>2, <5>1, <5>3
      <4> QED
        BY <4>1, <4>2
    <3>6. CondsOK(new)
      BY <3>2, <3>4, <3>5 DEF CondsOK
    <3>7. True(new, "Failed")
      BY <1>3, <3>2 DEF True
    <3>8. True(new, "Complete") <=> True(o.conds, "Complete")
      BY <1>3, <3>2, <3>3 DEF True
    <3> QED
      BY <3>6, <3>7, <3>8
  <2>2. CASE ~(Len(o.conds) < MaxConds)
    <3>1. MaxConds >= 3 => Len(o.conds) >= 3
      BY <1>3, <1>4, <2>2
    <3> QED
      BY <1>3, <2>2, <3>1, ThreeConditions
  <2> QED
    BY <2>1, <2>2
<1> HIDE DEF p, new
<1>6. new \in Seq(Condition)
  BY <1>5 DEF CondsOK
<1>7. p \in DaemonSetJob
  BY <1>1, <1>2, <1>6 DEF DaemonSetJob
<1>8. /\ p.conds = new /\ p.completion = TRUE
      /\ p.active = o.active /\ p.succeeded = o.succeeded /\ p.failed = o.failed
  BY <1>1, <1>2 DEF DaemonSetJob
<1>9. StatusOK(p)
  BY <1>1, <1>5, <1>8 DEF StatusOK
<1> QED
  BY <1>7, <1>9 DEF Sound, p

--------------------------------------------------------------------------------
(* The calls to the API server.                                              *)

LEMMA EventAppended ==
    ASSUME NEW E, NEW q \in Seq(E), NEW e \in E
    PROVE  Append(q, e) \in Seq(E)
OBVIOUS

LEMMA EventTaken ==
    ASSUME NEW E, NEW q \in Seq(E), q # <<>>
    PROVE  Tail(q) \in Seq(E) /\ Head(q) \in E
OBVIOUS

LEMMA EventsAlso ==
    ASSUME NEW E, NEW F, \A e \in E : e \in F, NEW q \in Seq(E)
    PROVE  q \in Seq(F)
OBVIOUS

LEMMA WriteDaemonSetJobOK ==
    ASSUME DaemonSetJobsOK, NEW o \in Sound, WriteDaemonSetJob(o)
    PROVE  DaemonSetJobsOK'
<1> DEFINE e == [type |-> "set", obj |-> NextVersion(o)]
<1>1. NextVersion(o) \in Sound
  BY NextVersionSound
<1>2. e \in DaemonSetJobEvent
  BY <1>1 DEF DaemonSetJobEvent
<1>3. dsj' = NextVersion(o) /\ dsjWatch' = Append(dsjWatch, e)
  BY DEF WriteDaemonSetJob
<1> QED
  BY <1>1, <1>2, <1>3, EventAppended DEF DaemonSetJobsOK

LEMMA RemoveDaemonSetJobOK ==
    ASSUME DaemonSetJobsOK, dsj # Nil, RemoveDaemonSetJob
    PROVE  DaemonSetJobsOK'
<1> DEFINE e == [type |-> "del", obj |-> dsj]
<1>1. e \in DaemonSetJobEvent
  BY DEF DaemonSetJobEvent, DaemonSetJobsOK
<1>2. dsj' = Nil /\ dsjWatch' = Append(dsjWatch, e)
  BY DEF RemoveDaemonSetJob
<1> QED
  BY <1>1, <1>2, EventAppended DEF DaemonSetJobsOK

LEMMA FaultsNat ==
    ASSUME faults \in Nat, NoFault \/ Fault
    PROVE  faults' \in Nat
BY DEF NoFault, Fault

LEMMA UpdateOK ==
    ASSUME DaemonSetJobsOK, faults \in Nat, NEW o \in Sound, updateDaemonSetJob(o)
    PROVE  DaemonSetJobsOK' /\ faults' \in Nat
<1>1. faults' \in Nat
  BY FaultsNat DEF updateDaemonSetJob
<1>2. CASE WriteDaemonSetJob(o)
  BY <1>1, <1>2, WriteDaemonSetJobOK
<1>3. CASE UNCHANGED dsjStore
  BY <1>1, <1>3 DEF DaemonSetJobsOK, dsjStore
<1> QED
  BY <1>2, <1>3 DEF updateDaemonSetJob

LEMMA DeleteDaemonSetJobOK ==
    ASSUME DaemonSetJobsOK, faults \in Nat, NEW err, deleteDaemonSetJob(err)
    PROVE  DaemonSetJobsOK' /\ faults' \in Nat
<1>1. faults' \in Nat
  BY FaultsNat DEF deleteDaemonSetJob
<1>2. CASE dsj # Nil /\ RemoveDaemonSetJob
  BY <1>1, <1>2, RemoveDaemonSetJobOK
<1>3. CASE UNCHANGED dsjStore
  BY <1>1, <1>3 DEF DaemonSetJobsOK, dsjStore
<1> QED
  BY <1>2, <1>3 DEF deleteDaemonSetJob

LEMMA WriteJobOK ==
    ASSUME JobsOK, NEW j \in Job, WriteJob(j)
    PROVE  JobsOK'
<1> DEFINE e == [type |-> "set", obj |-> j]
           kept == {x \in jobs : x.id # j.id}
<1>1. e \in JobEvent
  BY DEF JobEvent
<1>2. jobs' = kept \cup {j} /\ jobWatch' = Append(jobWatch, e)
  BY DEF WriteJob
<1>3. IsFiniteSet(jobs')
  <2>1. kept \subseteq jobs /\ IsFiniteSet(jobs)
    BY DEF JobsOK
  <2>2. IsFiniteSet(kept)
    BY <2>1, FS_Subset
  <2> HIDE DEF kept
  <2> QED
    BY <1>2, <2>2, FS_AddElement
<1> QED
  BY <1>1, <1>2, <1>3, EventAppended DEF JobsOK

LEMMA RemoveJobOK ==
    ASSUME JobsOK, NEW j \in Job, RemoveJob(j)
    PROVE  JobsOK'
<1> DEFINE e == [type |-> "del", obj |-> j]
<1>1. e \in JobEvent
  BY DEF JobEvent
<1>2. jobs' = jobs \ {j} /\ jobWatch' = Append(jobWatch, e)
  BY DEF RemoveJob
<1>3. IsFiniteSet(jobs')
  BY <1>2, FS_Subset DEF JobsOK
<1> QED
  BY <1>1, <1>2, <1>3, EventAppended DEF JobsOK

LEMMA JobWithStatus ==
    ASSUME NEW j \in Job, NEW s \in JobStatus
    PROVE  [j EXCEPT !.status = s] \in Job
BY DEF Job

LEMMA JobDeleting ==
    ASSUME NEW j \in Job
    PROVE  [j EXCEPT !.deleting = TRUE] \in Job
BY DEF Job

LEMMA DeleteJobOK ==
    ASSUME JobsOK, faults \in Nat, NEW j, NEW err, DeleteJob(j, err)
    PROVE  JobsOK' /\ faults' \in Nat /\ UNCHANGED jobCount
<1>1. faults' \in Nat /\ UNCHANGED jobCount
  BY FaultsNat DEF DeleteJob
<1>2. ASSUME NEW x \in jobs, WriteJob([x EXCEPT !.deleting = TRUE])
      PROVE  JobsOK'
  <2>1. [x EXCEPT !.deleting = TRUE] \in Job
    BY JobDeleting DEF JobsOK
  <2> QED
    BY <1>2, <2>1, WriteJobOK
<1>3. UNCHANGED <<jobs, jobWatch>> => JobsOK'
  BY DEF JobsOK
<1>4. \/ \E x \in jobs : WriteJob([x EXCEPT !.deleting = TRUE])
      \/ UNCHANGED <<jobs, jobWatch>>
  BY Zenon DEF DeleteJob
<1>5. JobsOK'
  BY <1>2, <1>3, <1>4
<1> QED
  BY <1>1, <1>5

LEMMA NewJobType ==
    ASSUME NumbersOK, local \in Sound, NEW n \in Nodes
    PROVE  NewJob(n) \in Job
<1>1. local \in DaemonSetJob
  BY DEF Sound
<1>2. getJobLabelsSetFromDaemonSetJob(local) \in LabelSet
  BY <1>1, JobLabelsType
<1>3. local.uid \in Nat /\ local.tmpl \in Templates /\ jobCount + 1 \in Nat
  BY <1>1 DEF DaemonSetJob, NumbersOK
<1>4. Namespace \in STRING
  BY DaemonSetJobClusterAssumption
<1> QED
  BY <1>2, <1>3, <1>4 DEF NewJob, Job, JobStatus

--------------------------------------------------------------------------------
(* The cluster.                                                              *)

LEMMA InitStatusInv == Init => StatusInv
<1> SUFFICES ASSUME Init PROVE StatusInv
  OBVIOUS
<1>1. DaemonSetJobsOK /\ NodesOK
  BY DaemonSetJobClusterAssumption DEF Init, ClusterInit, DaemonSetJobsOK, NodesOK
<1>2. JobsOK
  BY DaemonSetJobClusterAssumption DEF Init, ClusterInit, JobsOK
<1>3. CachesOK /\ NumbersOK
  BY DaemonSetJobClusterAssumption DEF Init, ClusterInit, CachesOK, NumbersOK
<1>4. WorkerOK
  BY DEF Init, WorkerOK, Counted, NoJobs, Zero, JobStatus
<1> QED
  BY <1>1, <1>2, <1>3, <1>4 DEF StatusInv

LEMMA WorkerUnchanged ==
    ASSUME WorkerOK, UNCHANGED <<queue, worker>>
    PROVE  WorkerOK'
BY DEF WorkerOK, queue, worker, pass, Counted, Total

LEMMA EnvironmentKeeps ==
    ASSUME StatusInv, Surroundings
    PROVE  StatusInv'
<1>1. WorkerOK' /\ UNCHANGED restarts
  BY WorkerUnchanged DEF StatusInv, Surroundings
<1> USE DEF StatusInv, dsjStore, jobStore, nodeStore, caches
<1>2. ASSUME NEW s \in Specs, UserCreate(s) PROVE StatusInv'
  <2>1. uids \in Nat /\ uids' \in Nat
    BY <1>2 DEF UserCreate, NumbersOK
  <2>2. DaemonSetJobsOK'
    BY <1>2, <2>1, CreatedSound, WriteDaemonSetJobOK DEF UserCreate
  <2> QED
    BY <1>1, <1>2, <2>1, <2>2 DEF UserCreate, JobsOK, NodesOK, CachesOK, NumbersOK
<1>3. ASSUME NEW s \in Specs, UserEdit(s) PROVE StatusInv'
  <2>1. dsj \in Sound
    BY <1>3 DEF UserEdit, DaemonSetJobsOK
  <2>2. DaemonSetJobsOK'
    BY <1>3, <2>1, EditedSound, WriteDaemonSetJobOK DEF UserEdit
  <2> QED
    BY <1>1, <1>3, <2>2 DEF UserEdit, Edit, JobsOK, NodesOK, CachesOK, NumbersOK
<1>4. CASE UserDelete
  <2>1. dsj \in Sound
    BY <1>4 DEF UserDelete, DaemonSetJobsOK
  <2>2. DaemonSetJobsOK'
    BY <1>4, <2>1, DeletingSound, WriteDaemonSetJobOK, RemoveDaemonSetJobOK
       DEF UserDelete
  <2> QED
    BY <1>1, <1>4, <2>2 DEF UserDelete, Edit, JobsOK, NodesOK, CachesOK, NumbersOK
<1>5. CASE Finalize
  <2>1. DaemonSetJobsOK'
    BY <1>5, RemoveDaemonSetJobOK DEF Finalize
  <2> QED
    BY <1>1, <1>5, <2>1 DEF Finalize, JobsOK, NodesOK, CachesOK, NumbersOK
<1>6. ASSUME NEW j \in jobs, JobFinishes(j) PROVE StatusInv'
  <2>1. j \in Job
    BY DEF JobsOK
  <2>2. Outcomes \subseteq JobStatus
    BY DaemonSetJobClusterAssumption
  <2>3. JobsOK'
    BY <1>6, <2>1, <2>2, JobWithStatus, WriteJobOK DEF JobFinishes
  <2> QED
    BY <1>1, <1>6, <2>3 DEF JobFinishes, DaemonSetJobsOK, NodesOK, CachesOK, NumbersOK
<1>7. ASSUME NEW j \in jobs, JobGone(j) PROVE StatusInv'
  <2>1. j \in Job
    BY DEF JobsOK
  <2>2. JobsOK'
    BY <1>7, <2>1, RemoveJobOK DEF JobGone
  <2>3. edits' \in Nat
    BY <1>7 DEF JobGone, Edit, NumbersOK
  <2> QED
    BY <1>1, <1>7, <2>2, <2>3 DEF JobGone, DaemonSetJobsOK, NodesOK, CachesOK, NumbersOK
<1>8. ASSUME NEW n \in Nodes, NEW p \in Pools \cup {Nil}, NodeChanges(n, p)
      PROVE  StatusInv'
  <2>1. [node |-> n, pool |-> p] \in NodeEvent
    BY DEF NodeEvent
  <2>2. NodesOK'
    BY <1>8, <2>1, EventAppended DEF NodeChanges, NodesOK
  <2> QED
    BY <1>1, <1>8, <2>2 DEF NodeChanges, DaemonSetJobsOK, JobsOK, CachesOK, NumbersOK
<1>9. CASE Tick
  BY <1>1, <1>9 DEF Tick, DaemonSetJobsOK, JobsOK, NodesOK, CachesOK, NumbersOK
<1> QED
  BY <1>2, <1>3, <1>4, <1>5, <1>6, <1>7, <1>8, <1>9 DEF Surroundings, Environment

--------------------------------------------------------------------------------
(* The handlers.                                                             *)

LEMMA DeliveredOK ==
    ASSUME unsynced \in [dsj : Nat, job : Nat, node : Nat],
           NEW kind \in {"dsj", "job", "node"}, Delivered(kind)
    PROVE  unsynced' \in [dsj : Nat, job : Nat, node : Nat]
<1> DEFINE k == IF unsynced[kind] > 0 THEN unsynced[kind] - 1 ELSE 0
<1>1. unsynced[kind] \in Nat
  OBVIOUS
<1>2. k \in Nat
  BY <1>1
<1>3. unsynced' = [unsynced EXCEPT ![kind] = k]
  BY DEF Delivered
<1> HIDE DEF k
<1> QED
  BY <1>2, <1>3

LEMMA EnqueueKeeps ==
    ASSUME WorkerOK, dirty' \in BOOLEAN, UNCHANGED <<waiting, worker>>
    PROVE  WorkerOK'
BY DEF WorkerOK, worker, pass, Counted, Total

LEMMA DaemonSetJobEventTaken ==
    ASSUME DaemonSetJobsOK, dsjWatch # <<>>
    PROVE  /\ Tail(dsjWatch) \in Seq(DaemonSetJobEvent)
           /\ Head(dsjWatch).obj \in Sound
<1>1. Tail(dsjWatch) \in Seq(DaemonSetJobEvent) /\ Head(dsjWatch) \in DaemonSetJobEvent
  BY EventTaken DEF DaemonSetJobsOK
<1> QED
  BY <1>1 DEF DaemonSetJobEvent

LEMMA HandlersKeep ==
    ASSUME StatusInv, Handlers
    PROVE  StatusInv'
<1> USE DEF StatusInv, dsjStore, jobStore, nodeStore, caches
<1>1. CASE onAddDaemonSetJob
  <2>1. /\ Tail(dsjWatch) \in Seq(DaemonSetJobEvent)
        /\ Head(dsjWatch).obj \in Sound
    BY <1>1, DaemonSetJobEventTaken DEF onAddDaemonSetJob
  <2>2. unsynced' \in [dsj : Nat, job : Nat, node : Nat]
    BY <1>1, DeliveredOK DEF onAddDaemonSetJob, CachesOK
  <2>3. CachesOK'
    BY <1>1, <2>1, <2>2 DEF onAddDaemonSetJob, CachesOK
  <2>4. DaemonSetJobsOK'
    <3>1. CASE UNCHANGED dsj /\ dsjWatch' = Tail(dsjWatch)
      BY <2>1, <3>1 DEF DaemonSetJobsOK
    <3>2. CASE /\ dsj # Nil /\ dsj' = Nil
               /\ dsjWatch' = Append(Tail(dsjWatch), [type |-> "del", obj |-> dsj])
      <4>1. [type |-> "del", obj |-> dsj] \in DaemonSetJobEvent
        BY <3>2 DEF DaemonSetJobEvent, DaemonSetJobsOK
      <4> QED
        BY <2>1, <3>2, <4>1, EventAppended DEF DaemonSetJobsOK
    <3> QED
      BY <1>1, <3>1, <3>2, Zenon DEF onAddDaemonSetJob
  <2>5. faults' \in Nat
    BY <1>1, FaultsNat DEF onAddDaemonSetJob, NumbersOK
  <2>6. dirty' \in BOOLEAN
    BY <1>1 DEF onAddDaemonSetJob, Enqueue, WorkerOK
  <2>7. WorkerOK'
    BY <1>1, <2>6, EnqueueKeeps DEF onAddDaemonSetJob
  <2> QED
    BY <1>1, <2>3, <2>4, <2>5, <2>7 DEF onAddDaemonSetJob, JobsOK, NodesOK, NumbersOK
<1>2. CASE onUpdateDaemonSetJob \/ onDeleteDaemonSetJob
  <2>1. /\ Tail(dsjWatch) \in Seq(DaemonSetJobEvent)
        /\ Head(dsjWatch).obj \in Sound
    BY <1>2, DaemonSetJobEventTaken DEF onUpdateDaemonSetJob, onDeleteDaemonSetJob
  <2>2. CachesOK' /\ DaemonSetJobsOK'
    BY <1>2, <2>1 DEF onUpdateDaemonSetJob, onDeleteDaemonSetJob, CachesOK, DaemonSetJobsOK
  <2>3. dirty' \in BOOLEAN
    BY <1>2 DEF onUpdateDaemonSetJob, onDeleteDaemonSetJob, Enqueue, WorkerOK
  <2>4. WorkerOK'
    BY <1>2, <2>3, EnqueueKeeps DEF onUpdateDaemonSetJob, onDeleteDaemonSetJob
  <2> QED
    BY <1>2, <2>2, <2>4
       DEF onUpdateDaemonSetJob, onDeleteDaemonSetJob, JobsOK, NodesOK, NumbersOK
<1>3. CASE Resync \/ NodeHeartbeat
  <2>1. dirty' \in BOOLEAN
    BY <1>3 DEF Resync, NodeHeartbeat, NodeEventWakes, Enqueue, WorkerOK
  <2>2. WorkerOK'
    BY <1>3, <2>1, EnqueueKeeps DEF Resync, NodeHeartbeat
  <2>3. UNCHANGED <<clusterVars, restarts>>
    BY <1>3 DEF Resync, NodeHeartbeat
  <2> QED
    BY <2>2, <2>3
       DEF clusterVars, DaemonSetJobsOK, JobsOK, NodesOK, CachesOK, NumbersOK
<1>4. CASE onJobEvent
  <2> DEFINE e == Head(jobWatch)
             others == {x \in jobCache : x.id # e.obj.id}
  <2>1. Tail(jobWatch) \in Seq(JobEvent) /\ e.obj \in Job
    <3>1. Tail(jobWatch) \in Seq(JobEvent) /\ e \in JobEvent
      BY <1>4, EventTaken DEF onJobEvent, JobsOK
    <3> QED
      BY <3>1 DEF JobEvent
  <2>2. jobCache' \subseteq others \cup {e.obj} /\ others \subseteq jobCache
    BY <1>4 DEF onJobEvent
  <2>3. unsynced' \in [dsj : Nat, job : Nat, node : Nat]
    BY <1>4, DeliveredOK DEF onJobEvent, CachesOK
  <2> HIDE DEF others, e
  <2>4. CachesOK' /\ JobsOK'
    BY <1>4, <2>1, <2>2, <2>3 DEF onJobEvent, CachesOK, JobsOK
  <2>5. dirty' \in BOOLEAN
    BY <1>4 DEF onJobEvent, Enqueue, WorkerOK
  <2>6. WorkerOK'
    BY <1>4, <2>5, EnqueueKeeps DEF onJobEvent
  <2> QED
    BY <1>4, <2>4, <2>6 DEF onJobEvent, DaemonSetJobsOK, NodesOK, NumbersOK
<1>5. CASE onNodeEvent
  <2>1. /\ Tail(nodeWatch) \in Seq(NodeEvent)
        /\ Head(nodeWatch).node \in Nodes /\ Head(nodeWatch).pool \in Pools \cup {Nil}
    <3>1. Tail(nodeWatch) \in Seq(NodeEvent) /\ Head(nodeWatch) \in NodeEvent
      BY <1>5, EventTaken DEF onNodeEvent, NodesOK
    <3> QED
      BY <3>1 DEF NodeEvent
  <2>2. unsynced' \in [dsj : Nat, job : Nat, node : Nat]
    BY <1>5, DeliveredOK DEF onNodeEvent, CachesOK
  <2>3. CachesOK' /\ NodesOK'
    BY <1>5, <2>1, <2>2 DEF onNodeEvent, CachesOK, NodesOK
  <2>4. dirty' \in BOOLEAN
    BY <1>5 DEF onNodeEvent, NodeEventWakes, Enqueue, WorkerOK
  <2>5. WorkerOK'
    BY <1>5, <2>4, EnqueueKeeps DEF onNodeEvent
  <2> QED
    BY <1>5, <2>3, <2>5 DEF onNodeEvent, DaemonSetJobsOK, JobsOK, NumbersOK
<1> QED
  BY <1>1, <1>2, <1>3, <1>4, <1>5 DEF Handlers

LEMMA RetryKeeps ==
    ASSUME StatusInv, RetryFires
    PROVE  StatusInv'
<1>1. WorkerOK'
  BY DEF StatusInv, RetryFires, Enqueue, WorkerOK, worker, pass, Counted, Total
<1> QED
  BY <1>1 DEF StatusInv, RetryFires, clusterVars, dsjStore, jobStore, nodeStore, caches,
              DaemonSetJobsOK, JobsOK, NodesOK, CachesOK, NumbersOK

LEMMA ResetOK ==
    ASSUME ResetWorker, dirty' \in BOOLEAN, waiting' \in BOOLEAN
    PROVE  WorkerOK'
BY DEF ResetWorker, WorkerOK, Counted, NoJobs, Zero, JobStatus

(* New informers list what there is: finitely many jobs. *)
LEMMA RestartKeeps ==
    ASSUME StatusInv, Restart
    PROVE  StatusInv'
<1> USE DEF StatusInv
<1>1. WorkerOK'
  BY ResetOK DEF Restart
<1>2. DaemonSetJobsOK'
  <2>1. CASE dsj = Nil
    BY <2>1 DEF Restart, Relist, DaemonSetJobsOK
  <2>2. CASE dsj # Nil
    <3>1. [type |-> "set", obj |-> dsj] \in DaemonSetJobEvent
      BY <2>2 DEF DaemonSetJobsOK, DaemonSetJobEvent
    <3>2. dsjWatch' = <<[type |-> "set", obj |-> dsj]>> /\ dsj' = dsj
      BY <2>2 DEF Restart, Relist
    <3> QED
      BY <3>1, <3>2 DEF DaemonSetJobsOK
  <2> QED
    BY <2>1, <2>2
<1> DEFINE there == {n \in Nodes : nodes[n] # Nil}
<1>3. Cardinality(jobs) \in Nat /\ Cardinality(there) \in Nat
  BY FS_CardinalityType, CardinalitiesNat DEF JobsOK
<1>4. PICK f \in Listings(jobs), g \in Listings(there) :
         /\ jobWatch' = [k \in DOMAIN f |-> [type |-> "set", obj |-> f[k]]]
         /\ nodeWatch' = [k \in DOMAIN g |-> [node |-> g[k], pool |-> nodes[g[k]]]]
         /\ unsynced' = [dsj |-> IF dsj = Nil THEN 0 ELSE 1,
                         job |-> Len(f), node |-> Len(g)]
  BY DEF Restart, Relist
<1>5. f \in Seq(jobs) /\ g \in Seq(there)
  <2>1. f \in [1..Cardinality(jobs) -> jobs] /\ g \in [1..Cardinality(there) -> there]
    BY DEF Listings
  <2> HIDE DEF there
  <2> QED
    BY <1>3, <2>1
<1>6. jobWatch' \in Seq(JobEvent)
  <2>1. \A k \in DOMAIN f : [type |-> "set", obj |-> f[k]] \in JobEvent
    BY <1>5 DEF JobsOK, JobEvent
  <2> QED
    BY <1>4, <1>5, <2>1
<1>7. nodeWatch' \in Seq(NodeEvent)
  <2>1. \A k \in DOMAIN g : g[k] \in there
    BY <1>5
  <2> DEFINE e(k) == [node |-> g[k], pool |-> nodes[g[k]]]
  <2>2. \A k \in DOMAIN g : e(k) \in NodeEvent
    BY <2>1 DEF NodesOK, NodeEvent
  <2>3. nodeWatch' = [k \in DOMAIN g |-> e(k)] /\ DOMAIN g = 1..Len(g) /\ Len(g) \in Nat
    BY <1>4, <1>5
  <2> HIDE DEF there, e
  <2> QED
    BY <2>2, <2>3
<1>8. unsynced' \in [dsj : Nat, job : Nat, node : Nat]
  <2>1. Len(f) \in Nat /\ Len(g) \in Nat
    BY <1>5
  <2> QED
    BY <1>4, <2>1
<1> QED
  BY <1>1, <1>2, <1>6, <1>7, <1>8
     DEF Restart, Relist, JobsOK, NodesOK, CachesOK, NumbersOK

--------------------------------------------------------------------------------
(* The worker.                                                               *)

LEMMA ReturnOK ==
    ASSUME WorkerOK, NEW err \in BOOLEAN, Return(err)
    PROVE  WorkerOK'
<1>1. dirty' \in BOOLEAN /\ waiting' \in BOOLEAN
  BY DEF Return, WorkerOK
<1> QED
  BY <1>1, ResetOK DEF Return

(* A step that writes the DaemonSetJob at most, and ends the pass. *)
LEMMA LastCallKeeps ==
    ASSUME StatusInv, DaemonSetJobsOK', faults' \in Nat, WorkerOK',
           UNCHANGED OtherThanDaemonSetJob
    PROVE  StatusInv'
BY DEF StatusInv, OtherThanDaemonSetJob, jobStore, nodeStore, caches,
       JobsOK, NodesOK, CachesOK, NumbersOK

(* A step that writes jobs at most. *)
LEMMA JobCallKeeps ==
    ASSUME StatusInv, JobsOK', faults' \in Nat, jobCount' \in Nat, WorkerOK',
           UNCHANGED OtherThanJobs
    PROVE  StatusInv'
BY DEF StatusInv, OtherThanJobs, dsjStore, nodeStore, caches,
       DaemonSetJobsOK, NodesOK, CachesOK, NumbersOK

(* A step within the worker. *)
LEMMA InnerStepKeeps ==
    ASSUME StatusInv, WorkerOK', UNCHANGED <<clusterVars, restarts>>
    PROVE  StatusInv'
BY DEF StatusInv, clusterVars, dsjStore, jobStore, nodeStore, caches,
       DaemonSetJobsOK, JobsOK, NodesOK, CachesOK, NumbersOK

LEMMA SyncKeeps ==
    ASSUME StatusInv, GetItem \/ sync
    PROVE  StatusInv'
<1> USE DEF StatusInv
<1>1. CASE GetItem
  <2>1. WorkerOK'
    BY <1>1 DEF GetItem, WorkerOK, Counted, NumbersOK
  <2> QED
    BY <1>1, <2>1, InnerStepKeeps DEF GetItem
<1>2. CASE SyncIgnored
  <2>1. WorkerOK'
    BY <1>2, ReturnOK DEF SyncIgnored
  <2> QED
    BY <1>2, <2>1, InnerStepKeeps DEF SyncIgnored
<1>3. CASE SyncDefault
  <2>1. dsjCache \in Sound
    BY <1>3 DEF SyncDefault, CachesOK
  <2>2. DaemonSetJobsOK' /\ faults' \in Nat
    BY <1>3, <2>1, DefaultedSound, UpdateOK DEF SyncDefault, NumbersOK
  <2>3. WorkerOK'
    BY <1>3, ReturnOK DEF SyncDefault
  <2> QED
    BY <1>3, <2>2, <2>3, LastCallKeeps DEF SyncDefault
<1>4. CASE SyncInvalid
  <2>1. PICK err \in BOOLEAN : deleteDaemonSetJob(err) /\ Return(err)
    BY <1>4 DEF SyncInvalid
  <2>2. DaemonSetJobsOK' /\ faults' \in Nat
    BY <2>1, DeleteDaemonSetJobOK DEF NumbersOK
  <2>3. WorkerOK'
    BY <2>1, ReturnOK
  <2> QED
    BY <1>4, <2>2, <2>3, LastCallKeeps DEF SyncInvalid
<1>5. CASE SyncStart
  <2>1. dsjCache \in Sound /\ now \in Nat
    BY <1>5 DEF SyncStart, SyncProceeds, CachesOK, NumbersOK
  <2>2. DaemonSetJobsOK' /\ faults' \in Nat
    BY <1>5, <2>1, StartedSound, UpdateOK DEF SyncStart, NumbersOK
  <2>3. WorkerOK'
    BY <1>5, ReturnOK DEF SyncStart
  <2> QED
    BY <1>5, <2>2, <2>3, LastCallKeeps DEF SyncStart
<1>6. CASE SyncDeadline
  <2>1. dsjCache \in Sound /\ now \in Nat
    BY <1>6 DEF SyncDeadline, SyncProceeds, CachesOK, NumbersOK
  <2>2. DaemonSetJobsOK' /\ faults' \in Nat
    BY <1>6, <2>1, DeadlineSound, UpdateOK DEF SyncDeadline, NumbersOK
  <2>3. JobsToDelete(dsjCache) \subseteq Job
    BY DEF JobsToDelete, CachesOK
  <2>4. WorkerOK'
    BY <1>6, <2>3 DEF SyncDeadline, SyncProceeds, queue, WorkerOK, Counted
  <2> QED
    BY <1>6, <2>2, <2>4, LastCallKeeps DEF SyncDeadline
<1>7. ASSUME NEW j \in todo, CleanupJob(j) PROVE StatusInv'
  <2>1. PICK err \in BOOLEAN : DeleteJob(j, err) /\ failing' = (failing \/ err)
    BY <1>7 DEF CleanupJob
  <2>2. JobsOK' /\ faults' \in Nat /\ jobCount' \in Nat
    BY <2>1, DeleteJobOK DEF NumbersOK
  <2>3. WorkerOK'
    BY <1>7, <2>1 DEF CleanupJob, queue, WorkerOK, Counted
  <2> QED
    BY <1>7, <2>2, <2>3, JobCallKeeps DEF CleanupJob
<1>8. CASE CleanupReturns
  <2>1. WorkerOK'
    BY <1>8, ReturnOK DEF CleanupReturns, WorkerOK
  <2> QED
    BY <1>8, <2>1, InnerStepKeeps DEF CleanupReturns
<1>9. CASE SyncManage
  <2>1. ListedJobs \subseteq Job
    BY DEF ListedJobs, CachesOK
  <2>2. dsjCache \in Sound
    BY <1>9 DEF SyncManage, SyncProceeds, CachesOK
  <2>3. byNode' \in [Nodes -> Job \cup {Nil}] /\ todo' \subseteq Job
    BY <1>9, <2>1 DEF SyncManage
  <2>4. WorkerOK'
    BY <1>9, <2>2, <2>3 DEF SyncManage, SyncProceeds, queue, WorkerOK, Counted
  <2> QED
    BY <1>9, <2>4, InnerStepKeeps DEF SyncManage
<1> QED
  BY <1>1, <1>2, <1>3, <1>4, <1>5, <1>6, <1>7, <1>8, <1>9 DEF sync

(* A node less to look at. *)
LEMMA NodeTaken ==
    ASSUME WorkerOK, NEW n \in todoNodes
    PROVE  /\ todoNodes \ {n} \subseteq Nodes
           /\ Cardinality(todoNodes) \in Nat
           /\ Cardinality(todoNodes \ {n}) = Cardinality(todoNodes) - 1
BY CardinalitiesNat, FS_RemoveElement DEF WorkerOK

LEMMA OneMore ==
    ASSUME NEW t \in [JobStatus -> Nat], NEW s \in JobStatus
    PROVE  /\ [t EXCEPT ![s] = @ + 1] \in [JobStatus -> Nat]
           /\ Total([t EXCEPT ![s] = @ + 1]) = Total(t) + 1
           /\ Total(t) \in Nat
BY DEF JobStatus, Total

(* What the actions on a node have in common. *)
LEMMA AtNodeOK ==
    ASSUME WorkerOK, NEW n \in Nodes, AtNode(n),
           local' \in Sound,
           byNode' = byNode \/ byNode' = [byNode EXCEPT ![n] = Nil],
           toBeUpdated' \in BOOLEAN, failing' \in BOOLEAN,
           \/ UNCHANGED tally
           \/ \E s \in JobStatus : tally' = [tally EXCEPT ![s] = @ + 1]
    PROVE  WorkerOK'
<1>1. /\ todoNodes' \subseteq Nodes
      /\ Cardinality(todoNodes) \in Nat
      /\ Cardinality(todoNodes') = Cardinality(todoNodes) - 1
  BY NodeTaken DEF AtNode
<1>2. tally \in [JobStatus -> Nat] /\ pc = "nodes" /\ UNCHANGED <<pc, queue, began, todo>>
  BY DEF AtNode, WorkerOK
<1>3. /\ tally' \in [JobStatus -> Nat]
      /\ Total(tally') = Total(tally) \/ Total(tally') = Total(tally) + 1
      /\ Total(tally) \in Nat
  <2>1. Total(tally) \in Nat
    BY <1>2 DEF JobStatus, Total
  <2>2. \A s \in JobStatus :
           /\ [tally EXCEPT ![s] = @ + 1] \in [JobStatus -> Nat]
           /\ Total([tally EXCEPT ![s] = @ + 1]) = Total(tally) + 1
    BY <1>2, OneMore
  <2> QED
    BY <1>2, <2>1, <2>2
<1>4. Total(tally) + Cardinality(todoNodes) <= Cardinality(Nodes)
  BY <1>2 DEF WorkerOK, Counted
<1>5. Counted'
  <2>1. Total(tally') + Cardinality(todoNodes') <= Cardinality(Nodes)
    BY <1>1, <1>3, <1>4, CardinalitiesNat
  <2>2. pc' = "nodes" /\ Total(tally)' = Total(tally')
    BY <1>2 DEF Total
  <2> QED
    BY <2>1, <2>2 DEF Counted
<1>6. byNode' \in [Nodes -> Job \cup {Nil}]
  BY DEF WorkerOK
<1> QED
  BY <1>1, <1>2, <1>3, <1>5, <1>6 DEF WorkerOK, queue

(* manageDaemonSetJob's loop over the nodes the selector matches. *)
LEMMA ManageNodeKeeps ==
    ASSUME StatusInv, NEW n \in Nodes, manageNode(n)
    PROVE  StatusInv'
<1> USE DEF StatusInv
<1>1. /\ AtNode(n) /\ pc = "nodes" /\ UNCHANGED OtherThanJobs
      /\ JobsOK /\ WorkerOK /\ local \in Sound /\ jobCount \in Nat /\ faults \in Nat
      /\ failing \in BOOLEAN /\ toBeUpdated \in BOOLEAN
  BY DEF manageNode, CreateNodeJob, CreateNodeJobFails, KeepNodeJob, KeepOutdatedFailed,
         DeleteOutdatedSucceeded, PassOverOutdatedActive, OutdatedNodeJob, AtNode,
         WorkerOK, NumbersOK
<1>2. CASE CreateNodeJob(n)
  <2>1. NewJob(n) \in Job
    BY <1>1, NewJobType
  <2>2. JobsOK' /\ jobCount' \in Nat /\ faults' \in Nat
    BY <1>1, <1>2, <2>1, WriteJobOK, FaultsNat DEF CreateNodeJob
  <2>3. /\ local' \in Sound /\ byNode' = byNode /\ UNCHANGED tally
        /\ toBeUpdated' \in BOOLEAN /\ failing' \in BOOLEAN
    BY <1>1, <1>2, LabelledSound DEF CreateNodeJob
  <2>4. WorkerOK'
    BY <1>1, <2>3, AtNodeOK
  <2> QED
    BY <1>1, <2>2, <2>4, JobCallKeeps
<1>3. CASE CreateNodeJobFails(n)
  <2>1. JobsOK' /\ jobCount' \in Nat /\ faults' \in Nat
    BY <1>1, <1>3, FaultsNat DEF CreateNodeJobFails, jobStore, JobsOK
  <2>2. /\ local' \in Sound /\ byNode' = byNode /\ UNCHANGED tally
        /\ toBeUpdated' \in BOOLEAN /\ failing' \in BOOLEAN
    BY <1>1, <1>3, LabelledSound DEF CreateNodeJobFails
  <2>3. WorkerOK'
    BY <1>1, <2>2, AtNodeOK
  <2> QED
    BY <1>1, <2>1, <2>3, JobCallKeeps
<1>4. CASE KeepNodeJob(n)
  <2>1. JobsOK' /\ jobCount' \in Nat /\ faults' \in Nat
    BY <1>1, <1>4 DEF KeepNodeJob, jobStore, JobsOK
  <2>2. byNode[n].status \in JobStatus
    <3>1. byNode[n] \in Job
      BY <1>4 DEF KeepNodeJob, WorkerOK
    <3> QED
      BY <3>1 DEF Job
  <2>3. /\ local' \in Sound /\ byNode' = [byNode EXCEPT ![n] = Nil]
        /\ \E s \in JobStatus : tally' = [tally EXCEPT ![s] = @ + 1]
        /\ toBeUpdated' \in BOOLEAN /\ failing' \in BOOLEAN
    BY <1>1, <1>4, <2>2 DEF KeepNodeJob
  <2>4. WorkerOK'
    BY <1>1, <2>3, AtNodeOK
  <2> QED
    BY <1>1, <2>1, <2>4, JobCallKeeps
<1>5. CASE KeepOutdatedFailed(n) \/ PassOverOutdatedActive(n)
  <2>1. JobsOK' /\ jobCount' \in Nat /\ faults' \in Nat
    BY <1>1, <1>5 DEF KeepOutdatedFailed, PassOverOutdatedActive, jobStore, JobsOK
  <2>2. /\ local' \in Sound /\ UNCHANGED tally
        /\ byNode' = byNode \/ byNode' = [byNode EXCEPT ![n] = Nil]
        /\ toBeUpdated' \in BOOLEAN /\ failing' \in BOOLEAN
    BY <1>1, <1>5 DEF KeepOutdatedFailed, PassOverOutdatedActive, OutdatedNodeJob
  <2>3. WorkerOK'
    BY <1>1, <2>2, AtNodeOK
  <2> QED
    BY <1>1, <2>1, <2>3, JobCallKeeps
<1>6. CASE DeleteOutdatedSucceeded(n)
  <2>1. PICK err \in BOOLEAN : DeleteJob(byNode[n], err) /\ failing' = (failing \/ err)
    BY <1>6 DEF DeleteOutdatedSucceeded
  <2>2. JobsOK' /\ jobCount' \in Nat /\ faults' \in Nat
    BY <1>1, <2>1, DeleteJobOK
  <2>3. /\ local' \in Sound /\ byNode' = [byNode EXCEPT ![n] = Nil] /\ UNCHANGED tally
        /\ toBeUpdated' \in BOOLEAN /\ failing' \in BOOLEAN
    BY <1>1, <1>6, <2>1 DEF DeleteOutdatedSucceeded, OutdatedNodeJob
  <2>4. WorkerOK'
    BY <1>1, <2>3, AtNodeOK
  <2> QED
    BY <1>1, <2>2, <2>4, JobCallKeeps
<1> QED
  BY <1>2, <1>3, <1>4, <1>5, <1>6 DEF manageNode

(* The status that FinishManage publishes. *)
LEMMA FinishSound ==
    ASSUME StatusInv, FinishManage
    PROVE  WithStatus(local) \in Sound
<1>1. local \in Sound /\ tally \in [JobStatus -> Nat] /\ now \in Nat
  BY DEF StatusInv, FinishManage, AllNodesSeen, WorkerOK, NumbersOK
<1>2. Total(tally) \in Nat
  BY <1>1 DEF Total, JobStatus
<1>3. Total(tally) <= Cardinality(Nodes)
  BY <1>2, CardinalitiesNat DEF StatusInv, FinishManage, AllNodesSeen, WorkerOK, Counted
<1> QED
  BY <1>1, <1>3, PublishedSound

LEMMA ManageKeeps ==
    ASSUME StatusInv, manageDaemonSetJob
    PROVE  StatusInv'
<1> USE DEF StatusInv
<1>1. ASSUME NEW j \in todo, DeleteDuplicate(j) PROVE StatusInv'
  <2>1. PICK err \in BOOLEAN : DeleteJob(j, err) /\ failing' = (failing \/ err)
    BY <1>1 DEF DeleteDuplicate
  <2>2. JobsOK' /\ faults' \in Nat /\ jobCount' \in Nat
    BY <2>1, DeleteJobOK DEF NumbersOK
  <2>3. WorkerOK'
    BY <1>1, <2>1 DEF DeleteDuplicate, queue, WorkerOK, Counted
  <2> QED
    BY <1>1, <2>2, <2>3, JobCallKeeps DEF DeleteDuplicate
<1>2. CASE ListNodes
  <2>1. todoNodes' \subseteq Nodes /\ pc' = "nodes" /\ tally' = tally /\ tally = Zero
    BY <1>2 DEF ListNodes, WorkerOK, Counted
  <2>2. Total(tally') = 0
    BY <2>1 DEF Total, Zero, JobStatus
  <2>3. Counted'
    <3>1. Cardinality(todoNodes') \in Nat /\ Cardinality(todoNodes') <= Cardinality(Nodes)
      BY <2>1, CardinalitiesNat
    <3>2. Total(tally') + Cardinality(todoNodes') <= Cardinality(Nodes)
      BY <2>2, <3>1, CardinalitiesNat
    <3>3. Total(tally)' = Total(tally')
      BY DEF Total
    <3> QED
      BY <2>1, <3>2, <3>3 DEF Counted
  <2>4. WorkerOK'
    BY <1>2, <2>1, <2>3 DEF ListNodes, queue, WorkerOK
  <2> QED
    BY <1>2, <2>4, InnerStepKeeps DEF ListNodes
<1>3. ASSUME NEW n \in Nodes, DeleteLeftover(n) PROVE StatusInv'
  <2>1. PICK err \in BOOLEAN : DeleteJob(byNode[n], err) /\ failing' = (failing \/ err)
    BY <1>3 DEF DeleteLeftover
  <2>2. JobsOK' /\ faults' \in Nat /\ jobCount' \in Nat
    BY <2>1, DeleteJobOK DEF NumbersOK
  <2>3. Counted'
    BY <1>3 DEF DeleteLeftover, WorkerOK, Counted, Total
  <2>4. WorkerOK'
    BY <1>3, <2>1, <2>3 DEF DeleteLeftover, queue, WorkerOK
  <2> QED
    BY <1>3, <2>2, <2>4, JobCallKeeps DEF DeleteLeftover
<1>4. CASE FinishManage
  <2>1. WorkerOK'
    BY <1>4, ReturnOK DEF FinishManage, WorkerOK
  <2>2. WithStatus(local) \in Sound
    BY <1>4, FinishSound
  <2>3. updateDaemonSetJob(WithStatus(local)) \/ UNCHANGED <<dsjStore, faults>>
    BY <1>4 DEF FinishManage
  <2>4. DaemonSetJobsOK' /\ faults' \in Nat
    <3>1. CASE updateDaemonSetJob(WithStatus(local))
      BY <2>2, <3>1, UpdateOK DEF NumbersOK
    <3>2. CASE UNCHANGED <<dsjStore, faults>>
      BY <3>2 DEF NumbersOK, DaemonSetJobsOK, dsjStore
    <3> QED
      BY <2>3, <3>1, <3>2
  <2> QED
    BY <1>4, <2>1, <2>4, LastCallKeeps DEF FinishManage
<1> QED
  BY <1>1, <1>2, <1>3, <1>4, ManageNodeKeeps DEF manageDaemonSetJob

LEMMA StatusInvKept ==
    ASSUME StatusInv, [Next]_vars
    PROVE  StatusInv'
<1>1. CASE UNCHANGED vars
  <2>1. UNCHANGED <<clusterVars, restarts>> /\ UNCHANGED <<queue, worker>>
    BY <1>1 DEF vars
  <2> QED
    BY <2>1, InnerStepKeeps, WorkerUnchanged DEF StatusInv
<1>2. CASE Worker
  BY <1>2, SyncKeeps, ManageKeeps DEF Worker
<1> QED
  BY <1>1, <1>2, EnvironmentKeeps, HandlersKeep, RetryKeeps, RestartKeeps DEF Next

LEMMA SpecStatusInv == Spec => []StatusInv
<1> QED
  BY InitStatusInv, StatusInvKept, PTL DEF Spec

--------------------------------------------------------------------------------
(* The collector's jobs and the owner they name.                             *)

Key == <<Namespace, Name>>

(* The jobs there are at the start are others' and have names of their own.  *)
OthersJobs ==
    \A j \in InitialJobs : j.uid = 0 /\ \A x \in InitialJobs : x.id = j.id => x = j

(* A job of a DaemonSetJob carries the name the collector goes by.           *)
Labelled(j) == j.uid # 0 => OwnerOf(j) = Key

JobsNamed == \A j \in jobs : Labelled(j) /\ \A x \in jobs : x.id = j.id => x = j

JobWritten == \E j \in Job : WriteJob(j) /\ Labelled(j)

JobRemoved == \E j \in jobs : RemoveJob(j)

JobsStep == UNCHANGED jobs \/ JobWritten \/ JobRemoved

LEMMA JobsStepKeeps ==
    ASSUME JobsNamed, JobsStep
    PROVE  JobsNamed'
<1>1. UNCHANGED jobs => JobsNamed'
  BY DEF JobsNamed, Labelled, OwnerOf
<1>2. JobWritten => JobsNamed'
  BY DEF JobsNamed, Labelled, OwnerOf, JobWritten, WriteJob
<1>3. JobRemoved => JobsNamed'
  BY DEF JobsNamed, Labelled, OwnerOf, JobRemoved, RemoveJob
<1> QED
  BY <1>1, <1>2, <1>3 DEF JobsStep

LEMMA NewJobLabelled ==
    ASSUME StatusInv, local \in Sound, NEW n \in Nodes
    PROVE  NewJob(n) \in Job /\ Labelled(NewJob(n))
<1>1. NewJob(n) \in Job
  BY NewJobType DEF StatusInv
<1> DEFINE l == getJobLabelsSetFromDaemonSetJob(local)
<1>2. l[DaemonSetJobLabelKey] = Name
  BY DEF getJobLabelsSetFromDaemonSetJob, Merge, NameLabel
<1>3. NewJob(n).ns = Namespace /\ NewJob(n).labels = l
  BY DEF NewJob
<1> HIDE DEF l
<1>4. OwnerOf(NewJob(n)) = Key
  BY <1>2, <1>3 DEF OwnerOf, Key
<1> QED
  BY <1>1, <1>4 DEF Labelled

(* A job with another status, or marked as deleted, keeps its owner. *)
LEMMA RewrittenLabelled ==
    ASSUME NEW j \in Job, Labelled(j)
    PROVE  /\ \A s \in JobStatus : /\ [j EXCEPT !.status = s] \in Job
                                   /\ Labelled([j EXCEPT !.status = s])
           /\ [j EXCEPT !.deleting = TRUE] \in Job
           /\ Labelled([j EXCEPT !.deleting = TRUE])
BY DEF Job, Labelled, OwnerOf

LEMMA DeleteJobStep ==
    ASSUME StatusInv, JobsNamed, NEW j, NEW err, DeleteJob(j, err)
    PROVE  JobsStep
<1>1. \/ \E x \in jobs : WriteJob([x EXCEPT !.deleting = TRUE])
      \/ UNCHANGED <<jobs, jobWatch>>
  BY Zenon DEF DeleteJob
<1>2. ASSUME NEW x \in jobs, WriteJob([x EXCEPT !.deleting = TRUE])
      PROVE  JobWritten
  <2>1. x \in Job /\ Labelled(x)
    BY DEF StatusInv, JobsOK, JobsNamed
  <2> QED
    BY <1>2, <2>1, RewrittenLabelled DEF JobWritten
<1> QED
  BY <1>1, <1>2 DEF JobsStep

LEMMA NextJobs ==
    ASSUME StatusInv, JobsNamed, Surroundings \/ Handlers \/ RetryFires \/ Worker
    PROVE  JobsStep
<1>1. ASSUME NEW j \in jobs, JobFinishes(j) PROVE JobsStep
  <2>1. j \in Job /\ Labelled(j) /\ Outcomes \subseteq JobStatus
    BY DaemonSetJobClusterAssumption DEF StatusInv, JobsOK, JobsNamed
  <2>2. PICK s \in Outcomes : WriteJob([j EXCEPT !.status = s])
    BY <1>1 DEF JobFinishes
  <2> QED
    BY <2>1, <2>2, RewrittenLabelled DEF JobsStep, JobWritten
<1>2. ASSUME NEW j \in jobs, JobGone(j) PROVE JobsStep
  BY <1>2 DEF JobGone, JobsStep, JobRemoved
<1>3. Surroundings => JobsStep
  BY <1>1, <1>2
     DEF Surroundings, Environment, UserCreate, UserEdit, UserDelete, Finalize,
         NodeChanges, Tick, jobStore, JobsStep
<1>4. Handlers \/ RetryFires => JobsStep
  BY DEF Handlers, RetryFires, onAddDaemonSetJob, onUpdateDaemonSetJob,
         onDeleteDaemonSetJob, Resync, onJobEvent, onNodeEvent, NodeHeartbeat,
         clusterVars, jobStore, JobsStep
<1>5. GetItem \/ sync => JobsStep
  <2>1. \A j \in todo : CleanupJob(j) => JobsStep
    BY DeleteJobStep DEF CleanupJob
  <2> QED
    BY <2>1
       DEF GetItem, sync, SyncIgnored, SyncDefault, SyncInvalid, SyncStart,
           SyncDeadline, CleanupReturns, SyncManage, OtherThanDaemonSetJob,
           clusterVars, jobStore, JobsStep
<1>6. ASSUME NEW n \in Nodes, manageNode(n) PROVE JobsStep
  <2>1. CASE CreateNodeJob(n)
    <3>1. local \in Sound
      BY <2>1 DEF CreateNodeJob, AtNode, StatusInv, WorkerOK
    <3> QED
      BY <2>1, <3>1, NewJobLabelled DEF CreateNodeJob, JobsStep, JobWritten
  <2>2. CASE DeleteOutdatedSucceeded(n)
    BY <2>2, DeleteJobStep DEF DeleteOutdatedSucceeded
  <2>3. CASE \/ CreateNodeJobFails(n) \/ KeepNodeJob(n) \/ KeepOutdatedFailed(n)
             \/ PassOverOutdatedActive(n)
    BY <2>3 DEF CreateNodeJobFails, KeepNodeJob, KeepOutdatedFailed,
                PassOverOutdatedActive, jobStore, JobsStep
  <2> QED
    BY <1>6, <2>1, <2>2, <2>3 DEF manageNode
<1>7. manageDaemonSetJob => JobsStep
  <2>1. \A j \in todo : DeleteDuplicate(j) => JobsStep
    BY DeleteJobStep DEF DeleteDuplicate
  <2>2. \A n \in Nodes : DeleteLeftover(n) => JobsStep
    BY DeleteJobStep DEF DeleteLeftover
  <2>3. ListNodes \/ FinishManage => JobsStep
    BY DEF ListNodes, FinishManage, OtherThanDaemonSetJob, clusterVars, jobStore,
           JobsStep
  <2> QED
    BY <1>6, <2>1, <2>2, <2>3 DEF manageDaemonSetJob
<1> QED
  BY <1>3, <1>4, <1>5, <1>7 DEF Worker

--------------------------------------------------------------------------------
(* The owner: it keeps its UID while it exists, and UIDs only grow.          *)

OwnerKept ==
    /\ UNCHANGED uids
    /\ dsj' # Nil => dsj # Nil /\ dsj'.uid = dsj.uid

OwnerCreated == uids' = uids + 1 /\ dsj'.uid = uids'

LEMMA NextVersionUid ==
    ASSUME NEW o \in DaemonSetJob
    PROVE  NextVersion(o).uid = o.uid
BY DEF NextVersion, DaemonSetJob

LEMMA UpdateKeepsOwner ==
    ASSUME NEW o \in Sound, updateDaemonSetJob(o), UNCHANGED uids
    PROVE  OwnerKept
<1>1. o \in DaemonSetJob
  BY DEF Sound
<1> QED
  BY <1>1, NextVersionUid
     DEF updateDaemonSetJob, UpdateAccepted, WriteDaemonSetJob, dsjStore, OwnerKept

LEMMA NextOwner ==
    ASSUME StatusInv, Surroundings \/ Handlers \/ RetryFires \/ Worker
    PROVE  OwnerKept \/ OwnerCreated
<1> USE DEF StatusInv, NumbersOK
<1>1. ASSUME NEW s \in Specs, UserCreate(s) PROVE OwnerCreated
  <2> DEFINE o == [uid |-> uids + 1, rv |-> 0, deleting |-> FALSE,
                   defaulted |-> s.defaulted, valid |-> s.valid,
                   tmpl |-> s.tmpl, pools |-> s.pools, deadline |-> s.deadline,
                   sel |-> UserSelector,
                   start |-> Nil, completion |-> FALSE,
                   active |-> 0, succeeded |-> 0, failed |-> 0,
                   conds |-> <<>>, probe |-> Nil]
  <2>1. o \in Sound
    BY CreatedSound
  <2>2. o.uid = uids + 1 /\ dsj' = NextVersion(o) /\ uids' = uids + 1
    BY <1>1 DEF UserCreate, WriteDaemonSetJob
  <2> HIDE DEF o
  <2>3. NextVersion(o).uid = o.uid
    BY <2>1, NextVersionUid DEF Sound
  <2> QED
      BY <2>2, <2>3 DEF OwnerCreated
<1>2. ASSUME NEW o \in Sound, NEW p \in Sound, dsj = o, p.uid = o.uid, dsj # Nil,
             WriteDaemonSetJob(p), UNCHANGED uids
      PROVE  OwnerKept
  <2>1. NextVersion(p).uid = dsj.uid
    BY <1>2, NextVersionUid DEF Sound
  <2> QED
    BY <1>2, <2>1 DEF WriteDaemonSetJob, OwnerKept
<1>3. RemoveDaemonSetJob /\ UNCHANGED uids => OwnerKept
  BY DEF RemoveDaemonSetJob, OwnerKept
<1>4. UNCHANGED <<dsj, uids>> => OwnerKept
  BY DEF OwnerKept
<1>5. ASSUME NEW s \in Specs, UserEdit(s) PROVE OwnerKept
  <2> DEFINE p == [dsj EXCEPT !.defaulted = s.defaulted, !.valid = s.valid,
                              !.tmpl = s.tmpl, !.pools = s.pools,
                              !.deadline = s.deadline, !.sel = UserSelector]
  <2>1. dsj \in Sound /\ dsj # Nil /\ WriteDaemonSetJob(p) /\ UNCHANGED uids
    BY <1>5 DEF UserEdit, DaemonSetJobsOK
  <2>2. p \in Sound
    BY <2>1, EditedSound
  <2>3. p.uid = dsj.uid
    BY <2>1 DEF Sound, DaemonSetJob
  <2> HIDE DEF p
  <2> QED
    BY <1>2, <2>1, <2>2, <2>3
<1>6. UserDelete => OwnerKept
  <2> SUFFICES ASSUME UserDelete PROVE OwnerKept
    OBVIOUS
  <2>1. dsj \in Sound /\ dsj # Nil /\ UNCHANGED uids
    BY DEF UserDelete, DaemonSetJobsOK
  <2>2. [dsj EXCEPT !.deleting = TRUE] \in Sound
    BY <2>1, DeletingSound
  <2>3. [dsj EXCEPT !.deleting = TRUE].uid = dsj.uid
    BY <2>1 DEF Sound, DaemonSetJob
  <2> QED
    BY <1>2, <1>3, <2>1, <2>2, <2>3 DEF UserDelete
<1>7. Surroundings => OwnerKept \/ OwnerCreated
  BY <1>1, <1>3, <1>4, <1>5, <1>6
     DEF Surroundings, Environment, Finalize, JobFinishes, JobGone, NodeChanges, Tick,
         dsjStore
<1>8. Handlers \/ RetryFires => OwnerKept
  BY <1>4 DEF Handlers, RetryFires, onAddDaemonSetJob, onUpdateDaemonSetJob,
              onDeleteDaemonSetJob, Resync, onJobEvent, onNodeEvent, NodeHeartbeat,
              clusterVars, dsjStore, OwnerKept
<1>9. ASSUME NEW o \in Sound, updateDaemonSetJob(o), UNCHANGED OtherThanDaemonSetJob
      PROVE  OwnerKept
  BY <1>9, UpdateKeepsOwner DEF OtherThanDaemonSetJob
<1>10. dsjCache # Nil => dsjCache \in Sound /\ now \in Nat
  BY DEF CachesOK
<1>11. GetItem \/ sync => OwnerKept
  <2>1. SyncDefault => OwnerKept
    BY <1>9, <1>10, DefaultedSound DEF SyncDefault
  <2>2. SyncStart => OwnerKept
    BY <1>9, <1>10, StartedSound DEF SyncStart, SyncProceeds
  <2>3. SyncDeadline => OwnerKept
    BY <1>9, <1>10, DeadlineSound DEF SyncDeadline, SyncProceeds
  <2>4. SyncInvalid => OwnerKept
    BY <1>3, <1>4 DEF SyncInvalid, deleteDaemonSetJob, OtherThanDaemonSetJob, dsjStore
  <2>5. \A j \in todo : CleanupJob(j) => OwnerKept
    BY <1>4 DEF CleanupJob, OtherThanJobs, dsjStore
  <2>6. GetItem \/ SyncIgnored \/ CleanupReturns \/ SyncManage => OwnerKept
    BY <1>4 DEF GetItem, SyncIgnored, CleanupReturns, SyncManage, clusterVars, dsjStore
  <2> QED
    BY <2>1, <2>2, <2>3, <2>4, <2>5, <2>6 DEF sync
<1>12. manageDaemonSetJob => OwnerKept
  <2>1. UNCHANGED OtherThanJobs => OwnerKept
    BY <1>4 DEF OtherThanJobs, dsjStore
  <2>2. \A n \in Nodes : manageNode(n) \/ DeleteLeftover(n) => OwnerKept
    BY <2>1 DEF manageNode, DeleteLeftover, CreateNodeJob, CreateNodeJobFails,
                KeepNodeJob, KeepOutdatedFailed, DeleteOutdatedSucceeded,
                PassOverOutdatedActive, OutdatedNodeJob, AtNode
  <2>3. \A j \in todo : DeleteDuplicate(j) => OwnerKept
    BY <2>1 DEF DeleteDuplicate
  <2>4. ListNodes => OwnerKept
    BY <1>4 DEF ListNodes, clusterVars, dsjStore
  <2>5. FinishManage => OwnerKept
    <3>1. /\ FinishManage => updateDaemonSetJob(WithStatus(local)) \/ UNCHANGED dsj
          /\ FinishManage => UNCHANGED OtherThanDaemonSetJob
      BY DEF FinishManage, dsjStore
    <3> QED
      BY <1>4, <1>9, <3>1, FinishSound DEF OtherThanDaemonSetJob
  <2> QED
    BY <2>2, <2>3, <2>4, <2>5 DEF manageDaemonSetJob
<1> QED
  BY <1>7, <1>8, <1>11, <1>12 DEF Worker

--------------------------------------------------------------------------------
(* The collector.                                                            *)

(* A collector about to delete the jobs of this name has been told that it   *)
(* has no owner: one that exists now was created later.                      *)
MissingKnown ==
    /\ missing \in Nat /\ missing <= uids
    /\ dsj # Nil => dsj.uid <= uids
    /\ (gcpc = "delete" /\ Head(items) = Key) => dsj = Nil \/ dsj.uid > missing

CollectorInv == StatusInv /\ JobsNamed /\ MissingKnown

(* The job x when those of S have been marked as deleted. *)
Marked(S, x) == IF x \in S /\ ~x.deleting THEN [x EXCEPT !.deleting = TRUE] ELSE x

LEMMA MarkedSame ==
    ASSUME NEW x \in Job, NEW S
    PROVE  /\ Marked(S, x) \in Job
           /\ Marked(S, x).id = x.id /\ Marked(S, x).uid = x.uid
           /\ OwnerOf(Marked(S, x)) = OwnerOf(x)
           /\ Marked(S, x).deleting /\ ~x.deleting => x \in S
BY DEF Marked, Job, OwnerOf

(* One event for each job of a finite set.  An instance has a Cardinality of *)
(* its own, which is the same.                                               *)
LEMMA ListingType ==
    ASSUME NEW S \in SUBSET Job, IsFiniteSet(S), NEW f \in GC!Listings(S)
    PROVE  [k \in DOMAIN f |->
              [type |-> "set", obj |-> [f[k] EXCEPT !.deleting = TRUE]]] \in Seq(JobEvent)
<1> DEFINE e(k) == [type |-> "set", obj |-> [f[k] EXCEPT !.deleting = TRUE]]
           n == Cardinality(S)
<1>1. f \in [1..n -> S] /\ n \in Nat
  <2>1. GC!Cardinality(S) = Cardinality(S)
    BY DEF GC!Cardinality, Cardinality
  <2>2. f \in [1..Cardinality(S) -> S]
    BY <2>1 DEF GC!Listings
  <2> QED
    BY <2>2, FS_CardinalityType
<1>2. \A k \in 1..n : e(k) \in JobEvent
  BY <1>1, JobDeleting DEF JobEvent
<1>3. DOMAIN f = 1..n
  BY <1>1
<1> HIDE DEF e, n
<1>4. [k \in 1..n |-> e(k)] \in Seq(JobEvent)
  BY <1>1, <1>2
<1> QED
  BY <1>3, <1>4 DEF e

LEMMA MarkDeletedJobs ==
    ASSUME JobsOK, NEW S \in SUBSET jobs, GC!MarkDeleted(S)
    PROVE  jobs' = {Marked(S, x) : x \in jobs} /\ JobsOK'
<1> DEFINE doomed == {j \in S : ~j.deleting}
           mark(j) == [j EXCEPT !.deleting = TRUE]
<1>1. PICK f \in GC!Listings(doomed) :
         /\ jobs' = (jobs \ doomed) \cup {mark(j) : j \in doomed}
         /\ jobWatch' = jobWatch \o [k \in DOMAIN f |-> [type |-> "set", obj |-> mark(f[k])]]
  BY DEF GC!MarkDeleted
<1>2. jobs \subseteq Job /\ IsFiniteSet(jobs) /\ jobWatch \in Seq(JobEvent)
  BY DEF JobsOK
<1>3. jobs' = {Marked(S, x) : x \in jobs}
  BY <1>1 DEF Marked
<1>4. IsFiniteSet(jobs')
  <2> DEFINE g == [x \in jobs |-> Marked(S, x)]
  <2>1. g \in Surjection(jobs, jobs')
    BY <1>3 DEF Surjection
  <2> QED
    BY <1>2, <2>1, FS_Surjection
<1>5. jobs' \subseteq Job
  BY <1>2, <1>3, MarkedSame
<1>6. IsFiniteSet(doomed) /\ doomed \in SUBSET Job
  BY <1>2, FS_Subset
<1> DEFINE e == [k \in DOMAIN f |-> [type |-> "set", obj |-> mark(f[k])]]
<1>7. e \in Seq(JobEvent)
  BY <1>1, <1>6, ListingType
<1>8. jobWatch' \in Seq(JobEvent)
  <2>1. jobWatch' = jobWatch \o e
    BY <1>1
  <2> HIDE DEF e
  <2> QED
    BY <1>2, <1>7, <2>1
<1> QED
  BY <1>3, <1>4, <1>5, <1>8 DEF JobsOK

(* The jobs that a step of the collector deletes carry the name it has been  *)
(* told has no owner.                                                        *)
GCDeletes ==
    \E S \in SUBSET GC!Named(Head(items)) : gcpc = "delete" /\ GC!MarkDeleted(S)

LEMMA CollectSteps ==
    ASSUME GC!Collect
    PROVE  (UNCHANGED jobs /\ UNCHANGED jobWatch) \/ GCDeletes
BY DEF GC!Collect, GC!CacheSynced, GC!ListJobs, GC!ListFails, GC!SkipItem,
       GC!LookInCache, GC!OwnerNotFound, GC!OwnerNotMissing, GC!DeleteCollection,
       GC!DeleteCollectionFails, GCDeletes

LEMMA CollectFaults ==
    ASSUME GC!Collect, faults \in Nat
    PROVE  faults' \in Nat
<1>1. UNCHANGED faults \/ GC!CallFails
  BY DEF GC!Collect, GC!CacheSynced, GC!ListJobs, GC!ListFails, GC!SkipItem,
         GC!LookInCache, GC!OwnerNotFound, GC!OwnerNotMissing, GC!DeleteCollection,
         GC!DeleteCollectionFails
<1> QED
  BY <1>1 DEF GC!CallFails

(* The collector goes on to delete only when the API server knows no owner.  *)
LEMMA CollectAsks ==
    ASSUME GC!Collect, gcpc' = "delete"
    PROVE  Head(items) \notin Names(dsj) /\ UNCHANGED items /\ gcpc # "delete"
BY DEF GC!Collect, GC!CacheSynced, GC!ListJobs, GC!ListFails, GC!SkipItem,
       GC!LookInCache, GC!OwnerNotFound, GC!OwnerNotMissing, GC!DeleteCollection,
       GC!DeleteCollectionFails, GC!NextItem, GC!round

LEMMA CollectKeeps ==
    ASSUME CollectorInv, CollectDaemonSetJobJobs
    PROVE  CollectorInv'
<1> USE DEF CollectorInv
<1>1. /\ GC!Collect
      /\ missing' = IF gcpc # "delete" /\ gcpc' = "delete" THEN uids ELSE missing
      /\ UNCHANGED <<dsjStore, jobCount, nodeStore, now, caches, uids, edits, queue,
                     worker, restarts>>
  BY DEF CollectDaemonSetJobJobs
<1>2. JobsOK' /\ JobsNamed'
  <2>1. CASE UNCHANGED jobs /\ UNCHANGED jobWatch
    BY <2>1 DEF StatusInv, JobsOK, JobsNamed, Labelled, OwnerOf
  <2>2. CASE GCDeletes
    <3>1. PICK S \in SUBSET jobs : GC!MarkDeleted(S)
      BY <2>2 DEF GCDeletes, GC!Named
    <3>2. jobs' = {Marked(S, x) : x \in jobs} /\ JobsOK' /\ jobs \subseteq Job
      BY <3>1, MarkDeletedJobs DEF StatusInv, JobsOK
    <3>3. \A x \in jobs : /\ Marked(S, x).id = x.id /\ Marked(S, x).uid = x.uid
                          /\ OwnerOf(Marked(S, x)) = OwnerOf(x)
      BY <3>2, MarkedSame
    <3>4. \A j \in jobs' : /\ j.uid # 0 => OwnerOf(j) = Key
                           /\ \A x \in jobs' : x.id = j.id => x = j
      BY <3>2, <3>3 DEF JobsNamed, Labelled
    <3>5. \A j \in jobs' : Labelled(j) /\ \A x \in jobs' : x.id = j.id => x = j
      BY <3>4 DEF Labelled
    <3> QED
      BY <3>2, <3>5 DEF JobsNamed
  <2> QED
    BY <1>1, <2>1, <2>2, CollectSteps
<1>3. StatusInv'
  <2>1. faults' \in Nat
    BY <1>1, CollectFaults DEF StatusInv, NumbersOK
  <2>2. WorkerOK'
    BY <1>1, WorkerUnchanged DEF StatusInv
  <2> QED
    BY <1>1, <1>2, <2>1, <2>2
       DEF StatusInv, dsjStore, nodeStore, caches, DaemonSetJobsOK, NodesOK, CachesOK,
           NumbersOK
<1>4. MissingKnown'
  <2>1. UNCHANGED <<dsj, uids>> /\ uids \in Nat
    BY <1>1 DEF dsjStore, StatusInv, NumbersOK
  <2>2. CASE gcpc' = "delete"
    <3>1. Head(items) \notin Names(dsj) /\ UNCHANGED items /\ gcpc # "delete"
      BY <1>1, <2>2, CollectAsks
    <3>2. Head(items') = Key => dsj' = Nil
      BY <2>1, <3>1 DEF Names, Key
    <3> QED
      BY <1>1, <2>1, <2>2, <3>1, <3>2 DEF MissingKnown, Key
  <2>3. CASE gcpc' # "delete"
    BY <1>1, <2>1, <2>3 DEF MissingKnown, Key
  <2> QED
    BY <2>2, <2>3
<1> QED
  BY <1>2, <1>3, <1>4

LEMMA CollectorInvKept ==
    ASSUME CollectorInv, [SystemNext]_systemVars
    PROVE  CollectorInv'
<1> USE DEF CollectorInv
<1>1. CASE UNCHANGED systemVars
  <2>1. UNCHANGED vars /\ UNCHANGED <<gcpc, items, missing, jobs, dsj, uids>>
    BY <1>1 DEF systemVars, collector, vars, clusterVars, jobStore, dsjStore
  <2>2. StatusInv'
    BY <2>1, StatusInvKept
  <2> QED
    BY <2>1, <2>2 DEF JobsNamed, Labelled, OwnerOf, MissingKnown, Key
<1>2. CASE /\ Surroundings \/ Handlers \/ RetryFires \/ Worker
           /\ UNCHANGED <<collector, missing>>
  <2>1. StatusInv'
    BY <1>2, StatusInvKept DEF Next
  <2>2. JobsNamed'
    BY <1>2, NextJobs, JobsStepKeeps
  <2>3. (OwnerKept \/ OwnerCreated) /\ UNCHANGED <<gcpc, items, missing>> /\ uids \in Nat
    BY <1>2, NextOwner DEF collector, StatusInv, NumbersOK
  <2>4. dsj # Nil => dsj.uid \in Nat
    BY DEF StatusInv, DaemonSetJobsOK, Sound, DaemonSetJob
  <2>5. MissingKnown'
    BY <2>3, <2>4 DEF MissingKnown, OwnerKept, OwnerCreated, Key
  <2> QED
    BY <2>1, <2>2, <2>5
<1>3. CASE Restart /\ GC!StartAgain /\ UNCHANGED missing
  <2>1. StatusInv'
    BY <1>3, RestartKeeps
  <2>2. UNCHANGED <<dsj, jobs, uids, missing>> /\ gcpc' = "start"
    BY <1>3 DEF Restart, Relist, GC!StartAgain
  <2> QED
    BY <2>1, <2>2 DEF JobsNamed, Labelled, OwnerOf, MissingKnown
<1> QED
  BY <1>1, <1>2, <1>3, CollectKeeps DEF SystemNext

LEMMA SystemCollectorInv ==
    ASSUME OthersJobs
    PROVE  SystemSpec => []CollectorInv
<1>1. SystemInit => CollectorInv
  <2> SUFFICES ASSUME SystemInit PROVE CollectorInv
    OBVIOUS
  <2>1. StatusInv
    BY InitStatusInv DEF SystemInit
  <2>2. JobsNamed
    BY OthersJobs DEF SystemInit, Init, ClusterInit, OthersJobs, JobsNamed, Labelled
  <2>3. MissingKnown
    BY DEF SystemInit, Init, ClusterInit, GC!GCInit, MissingKnown
  <2> QED
    BY <2>1, <2>2, <2>3 DEF CollectorInv
<1> QED
  BY <1>1, CollectorInvKept, PTL DEF SystemSpec

--------------------------------------------------------------------------------
(* The labels of jobs, and the DaemonSetJob's copies.                        *)

(* The labels of a job do not depend on the age of the copy it is made from. *)
LEMMA JobLabelsSame ==
    ASSUME NEW o \in DaemonSetJob, o.sel \in {UserSelector, JobLabels(o.tmpl)}
    PROVE  getJobLabelsSetFromDaemonSetJob(o) = JobLabels(o.tmpl)
<1> DEFINE f == UserSelector
           g == TemplateLabels[o.tmpl]
           m == Merge(Merge(f, g), NameLabel)
<1>1. Merge(Merge(m, g), NameLabel) = m
  BY DEF Merge
<1>2. m = JobLabels(o.tmpl)
  BY DEF JobLabels
<1> HIDE DEF f, g, m
<1> QED
  BY <1>1, <1>2 DEF getJobLabelsSetFromDaemonSetJob, JobLabels, f, g, m

(* Every selector the DaemonSetJob may have matches its jobs. *)
LEMMA SelectorsMatch ==
    ASSUME SelectorFits, NEW t \in Templates, NEW sel \in {UserSelector, JobLabels(t)}
    PROVE  /\ Matches(sel, JobLabels(t)) /\ Matches(NameLabel, JobLabels(t))
           /\ DOMAIN JobLabels(t) # {}
<1>1. Matches(JobLabels(t), JobLabels(t))
  BY DEF Matches
<1>2. Matches(NameLabel, JobLabels(t)) /\ DOMAIN JobLabels(t) # {}
  <2>1. DOMAIN NameLabel = {DaemonSetJobLabelKey}
    BY DEF NameLabel
  <2> HIDE DEF NameLabel
  <2> QED
    BY <2>1 DEF Matches, JobLabels, Merge
<1> QED
  BY <1>1, <1>2 DEF SelectorFits

--------------------------------------------------------------------------------
(* The news of the jobs and of the nodes.                                    *)

(* A job that is there already with another status, or marked as deleted. *)
Rewritten(j) ==
    \E x \in jobs : <<j.id, j.uid, j.ns, j.labels>> = <<x.id, x.uid, x.ns, x.labels>>

(* The job the pass creates for a node. *)
IsNew(j) ==
    /\ pc = "nodes" /\ \E n \in Nodes : j = NewJob(n)
    /\ jobCount < MaxJobs /\ jobCount' = jobCount + 1

JobSaved ==
    /\ \E j \in Job : WriteJob(j) /\ (Rewritten(j) \/ IsNew(j))
    /\ UNCHANGED jobCache

JobLost == (\E j \in jobs : RemoveJob(j)) /\ UNCHANGED jobCache

JobsSame == UNCHANGED <<jobs, jobWatch, jobCache>>

JobStep == JobsSame \/ JobSaved \/ JobLost \/ onJobEvent \/ Relist

(* A call to delete a job marks one that there is, or changes nothing.       *)
LEMMA DeletionSaves ==
    ASSUME StatusInv, NEW j, NEW err, DeleteJob(j, err), UNCHANGED jobCache
    PROVE  JobsSame \/ JobSaved
<1>1. \/ \E x \in jobs : WriteJob([x EXCEPT !.deleting = TRUE])
      \/ UNCHANGED <<jobs, jobWatch>>
  BY Zenon DEF DeleteJob
<1>2. ASSUME NEW x \in jobs, WriteJob([x EXCEPT !.deleting = TRUE])
      PROVE  JobSaved
  <2>1. PICK y : y = [x EXCEPT !.deleting = TRUE]
    OBVIOUS
  <2>2. y \in Job /\ Rewritten(y)
    BY <2>1, JobDeleting DEF StatusInv, JobsOK, Rewritten, Job
  <2> QED
    BY <1>2, <2>1, <2>2 DEF JobSaved
<1> QED
  BY <1>1, <1>2 DEF JobsSame

(* The steps as the jobs' informer sees them. *)
LEMMA NextJobStep ==
    ASSUME StatusInv, [Next]_vars
    PROVE  JobStep
<1> USE DEF OtherThanDaemonSetJob, OtherThanJobs, caches, clusterVars, jobStore
<1>1. ASSUME NEW j \in jobs, JobFinishes(j) PROVE JobSaved
  <2>1. PICK s \in Outcomes : WriteJob([j EXCEPT !.status = s])
    BY <1>1 DEF JobFinishes
  <2>2. PICK y : y = [j EXCEPT !.status = s]
    OBVIOUS
  <2>3. j \in Job /\ s \in JobStatus
    BY DaemonSetJobClusterAssumption DEF StatusInv, JobsOK
  <2>4. y \in Job /\ Rewritten(y)
    BY <2>2, <2>3, JobWithStatus DEF Rewritten, Job
  <2> QED
    BY <1>1, <2>1, <2>2, <2>4 DEF JobSaved, JobFinishes
<1>2. ASSUME NEW j \in jobs, JobGone(j) PROVE JobLost
  BY <1>2 DEF JobGone, JobLost
<1>3. Surroundings => JobStep
  BY <1>1, <1>2
     DEF Surroundings, Environment, UserCreate, UserEdit, UserDelete, Finalize,
         NodeChanges, Tick, JobStep, JobsSame
<1>4. Handlers \/ RetryFires => JobStep
  BY DEF Handlers, RetryFires, onAddDaemonSetJob, onUpdateDaemonSetJob,
         onDeleteDaemonSetJob, Resync, onNodeEvent, NodeHeartbeat, JobStep, JobsSame
<1>5. GetItem \/ sync => JobStep
  <2>1. \A j \in todo : CleanupJob(j) => JobStep
    BY DeletionSaves DEF CleanupJob, JobStep
  <2> QED
    BY <2>1
       DEF GetItem, sync, SyncIgnored, SyncDefault, SyncInvalid, SyncStart,
           SyncDeadline, CleanupReturns, SyncManage, JobStep, JobsSame
<1>6. ASSUME NEW n \in Nodes, manageNode(n) PROVE JobStep
  <2>1. CASE CreateNodeJob(n)
    <3>1. NewJob(n) \in Job /\ pc = "nodes" /\ UNCHANGED jobCache
      BY <2>1, NewJobType DEF CreateNodeJob, AtNode, StatusInv, WorkerOK
    <3> QED
      BY <2>1, <3>1 DEF CreateNodeJob, JobStep, JobSaved, IsNew
  <2>2. CASE DeleteOutdatedSucceeded(n)
    BY <2>2, DeletionSaves DEF DeleteOutdatedSucceeded, OutdatedNodeJob, AtNode, JobStep
  <2>3. CASE \/ CreateNodeJobFails(n) \/ KeepNodeJob(n) \/ KeepOutdatedFailed(n)
             \/ PassOverOutdatedActive(n)
    BY <2>3 DEF CreateNodeJobFails, KeepNodeJob, KeepOutdatedFailed, OutdatedNodeJob,
                AtNode, PassOverOutdatedActive, JobStep, JobsSame
  <2> QED
    BY <1>6, <2>1, <2>2, <2>3 DEF manageNode
<1>7. manageDaemonSetJob => JobStep
  <2>1. \A j \in todo : DeleteDuplicate(j) => JobStep
    BY DeletionSaves DEF DeleteDuplicate, JobStep
  <2>2. \A n \in Nodes : DeleteLeftover(n) => JobStep
    BY DeletionSaves DEF DeleteLeftover, JobStep
  <2>3. ListNodes \/ FinishManage => JobStep
    BY DEF ListNodes, FinishManage, JobStep, JobsSame
  <2> QED
    BY <1>6, <2>1, <2>2, <2>3 DEF manageDaemonSetJob
<1>8. Restart => JobStep
  BY DEF Restart, JobStep
<1>9. UNCHANGED vars => JobStep
  BY DEF vars, JobStep, JobsSame
<1> QED
  BY <1>3, <1>4, <1>5, <1>7, <1>8, <1>9 DEF Next, Worker

(* What is written at the end of the watch is the news of its job. *)
LEMMA AppendedJobSeen ==
    ASSUME StatusInv, JobsSeen, NEW j \in Job, NEW t \in {"set", "del"},
           jobWatch' = Append(jobWatch, [type |-> t, obj |-> j]), UNCHANGED jobCache,
           \A x \in jobs : x.id # j.id => x \in jobs',
           \A x \in jobs' : x.id # j.id => x \in jobs,
           \A x \in jobs' : x.id = j.id => t = "set" /\ x = j,
           t = "set" => j \in jobs'
    PROVE  JobsSeen'
<1> DEFINE n == Len(jobWatch)
<1>1. /\ n \in Nat /\ Len(jobWatch') = n + 1
      /\ \A k \in 1..n : jobWatch'[k] = jobWatch[k]
      /\ jobWatch'[n + 1] = [type |-> t, obj |-> j]
  BY DEF StatusInv, JobsOK
<1>2. jobWatch'[n + 1].obj = j /\ jobWatch'[n + 1].type = t
  BY <1>1
<1> HIDE DEF n
<1>3. \A x, y \in jobs' : x.id = y.id => x = y
  BY DEF JobsSeen
<1>4. ASSUME NEW x \in jobs' \cup jobCache', NoNews(x)'
      PROVE  x \in jobs' <=> x \in jobCache'
  <2>1. x.id # j.id /\ \A k \in 1..n : jobWatch[k].obj.id # x.id
    BY <1>1, <1>2, <1>4 DEF NoNews
  <2>2. NoNews(x) /\ x \in jobs \cup jobCache
    BY <1>4, <2>1 DEF NoNews, n
  <2> QED
    BY <2>1, <2>2 DEF JobsSeen
<1> DEFINE Right(k) == IF jobWatch'[k].type = "set" THEN jobWatch'[k].obj \in jobs'
                       ELSE \A x \in jobs' : x.id # jobWatch'[k].obj.id
<1>5. ASSUME NEW k \in 1..n, Newest(k)' PROVE Right(k)
  <2>1. \A l \in (k + 1)..(n + 1) : jobWatch'[l].obj.id # jobWatch[k].obj.id
    BY <1>1, <1>5 DEF Newest
  <2>2. jobWatch[k].obj.id # j.id
    BY <1>1, <1>2, <2>1
  <2>3. Newest(k)
    BY <1>1, <2>1 DEF Newest, n
  <2>4. IF jobWatch[k].type = "set" THEN jobWatch[k].obj \in jobs
        ELSE \A x \in jobs : x.id # jobWatch[k].obj.id
    BY <2>3 DEF JobsSeen, n
  <2> QED
    BY <1>1, <2>2, <2>4
<1>6. Right(n + 1)
  BY <1>2
<1>7. \A k \in 1..(n + 1) : Newest(k)' => Right(k)
  BY <1>1, <1>5, <1>6
<1> QED
  BY <1>1, <1>3, <1>4, <1>7 DEF JobsSeen

(* A delivered event is in the cache what it was in the watch.               *)
LEMMA DeliveredJobSeen ==
    ASSUME StatusInv, JobsSeen, onJobEvent
    PROVE  JobsSeen'
<1> DEFINE e == Head(jobWatch)
           n == Len(jobWatch)
<1>1. /\ jobWatch \in Seq(JobEvent) /\ jobWatch # <<>> /\ jobWatch' = Tail(jobWatch)
      /\ jobs' = jobs
  BY DEF onJobEvent, StatusInv, JobsOK, jobStore
<1>2. /\ n \in Nat \ {0} /\ Len(jobWatch') = n - 1 /\ e = jobWatch[1]
      /\ \A k \in 1..(n - 1) : jobWatch'[k] = jobWatch[k + 1]
  BY <1>1
<1>3. /\ \A x \in jobCache' : \/ x \in jobCache /\ x.id # e.obj.id
                              \/ e.type = "set" /\ x = e.obj
      /\ \A x \in jobCache : x.id # e.obj.id => x \in jobCache'
      /\ e.type = "set" => e.obj \in jobCache'
  BY DEF onJobEvent
<1> HIDE DEF e, n
<1>4. ASSUME NEW x \in jobs \cup jobCache', NoNews(x)'
      PROVE  x \in jobs <=> x \in jobCache'
  <2>1. \A k \in 2..n : jobWatch[k].obj.id # x.id
    <3>1. ASSUME NEW k \in 2..n PROVE jobWatch[k].obj.id # x.id
      <4>1. k - 1 \in 1..(n - 1) /\ jobWatch'[k - 1] = jobWatch[k]
        BY <1>2
      <4> QED
        BY <1>2, <1>4, <4>1 DEF NoNews
    <3> QED
      BY <3>1
  <2>2. CASE x.id = e.obj.id
    <3>1. Newest(1)
      BY <1>2, <2>1, <2>2 DEF Newest, n
    <3>2. IF e.type = "set" THEN e.obj \in jobs ELSE \A y \in jobs : y.id # e.obj.id
      BY <1>2, <3>1 DEF JobsSeen, n
    <3>3. \A y \in jobs : y.id = e.obj.id => e.type = "set" /\ y = e.obj
      BY <3>2 DEF JobsSeen
    <3> QED
      BY <1>3, <1>4, <2>2, <3>2, <3>3
  <2>3. CASE x.id # e.obj.id
    <3>1. NoNews(x)
      BY <1>2, <2>1, <2>3 DEF NoNews, n
    <3>2. x \in jobs \cup jobCache
      BY <1>3, <1>4, <2>3
    <3>3. x \in jobs <=> x \in jobCache
      BY <3>1, <3>2 DEF JobsSeen
    <3>4. x \in jobCache <=> x \in jobCache'
      BY <1>3, <2>3
    <3> QED
      BY <3>3, <3>4
  <2> QED
    BY <2>2, <2>3
<1> DEFINE Right(k) == IF jobWatch'[k].type = "set" THEN jobWatch'[k].obj \in jobs
                       ELSE \A x \in jobs : x.id # jobWatch'[k].obj.id
<1>5. ASSUME NEW k \in 1..(n - 1), Newest(k)' PROVE Right(k)
  <2>1. k + 1 \in 1..n /\ jobWatch'[k] = jobWatch[k + 1]
    BY <1>2
  <2>2. ASSUME NEW l \in (k + 2)..n PROVE jobWatch[l].obj.id # jobWatch[k + 1].obj.id
    <3>1. l - 1 \in (k + 1)..(n - 1) /\ jobWatch'[l - 1] = jobWatch[l]
      BY <1>2
    <3> QED
      BY <1>2, <1>5, <2>1, <3>1 DEF Newest
  <2>3. Newest(k + 1)
    BY <2>2 DEF Newest, n
  <2> QED
    BY <2>1, <2>3 DEF JobsSeen, n
<1> QED
  BY <1>1, <1>2, <1>4, <1>5 DEF JobsSeen

(* New informers are told of every job. *)
LEMMA ListedJobsSeen ==
    ASSUME StatusInv, JobsSeen, Relist
    PROVE  /\ JobsSeen'
           /\ \A k \in 1..Len(jobWatch') : jobWatch'[k].obj \in jobs
<1>1. PICK f \in Listings(jobs) :
         jobWatch' = [k \in DOMAIN f |-> [type |-> "set", obj |-> f[k]]]
  BY DEF Relist
<1>2. PICK n \in Nat : f \in [1..n -> jobs]
  BY <1>1, FS_CardinalityType DEF Listings, StatusInv, JobsOK
<1>3. /\ Len(jobWatch') = n
      /\ \A k \in 1..n : jobWatch'[k] = [type |-> "set", obj |-> f[k]] /\ f[k] \in jobs
  BY <1>1, <1>2
<1>4. \A x \in jobs : \E k \in 1..n : f[k] = x
  BY <1>1, <1>2 DEF Listings
<1>5. jobs' = jobs /\ jobCache' = {}
  BY DEF Relist
<1>6. \A x \in jobs : ~NoNews(x)'
  BY <1>3, <1>4 DEF NoNews
<1>7. \A k \in 1..n : jobWatch'[k].type = "set" /\ jobWatch'[k].obj \in jobs
  BY <1>3
<1> QED
  BY <1>3, <1>5, <1>6, <1>7 DEF JobsSeen

(* Every step keeps the news of the jobs true.                               *)
LEMMA NextJobsSeen ==
    ASSUME StatusInv, JobsSeen, [Next]_vars
    PROVE  JobsSeen'
<1>1. CASE JobsSame
  BY <1>1 DEF JobsSame, JobsSeen, NoNews, Newest
<1>2. CASE JobSaved
  <2>1. PICK j \in Job : WriteJob(j)
    BY <1>2 DEF JobSaved
  <2> QED
    BY <1>2, <2>1, AppendedJobSeen DEF JobSaved, WriteJob
<1>3. CASE JobLost
  <2>1. PICK j \in jobs : RemoveJob(j)
    BY <1>3 DEF JobLost
  <2>2. \A x \in jobs : x.id = j.id => x = j
    BY DEF JobsSeen
  <2>3. j \in Job
    BY DEF StatusInv, JobsOK
  <2> QED
    BY <1>3, <2>1, <2>2, <2>3, AppendedJobSeen DEF JobLost, RemoveJob
<1> QED
  BY <1>1, <1>2, <1>3, DeliveredJobSeen, ListedJobsSeen, NextJobStep DEF JobStep

(* The same of the nodes. *)
NodesSame == UNCHANGED <<nodes, nodeWatch, nodeCache>>

NodeStep ==
    \/ NodesSame
    \/ \E n \in Nodes, p \in Pools \cup {Nil} : NodeChanges(n, p)
    \/ onNodeEvent
    \/ Relist

(* The steps as the nodes' informer sees them.                               *)
LEMMA NextNodeStep ==
    ASSUME [Next]_vars
    PROVE  NodeStep
<1> USE DEF OtherThanDaemonSetJob, OtherThanJobs, caches, clusterVars, nodeStore,
            NodesSame
<1>1. Surroundings => NodeStep
  BY DEF Surroundings, Environment, UserCreate, UserEdit, UserDelete, Finalize,
         JobFinishes, JobGone, Tick, NodeStep
<1>2. Handlers \/ RetryFires => NodeStep
  BY DEF Handlers, RetryFires, onAddDaemonSetJob, onUpdateDaemonSetJob,
         onDeleteDaemonSetJob, Resync, onJobEvent, NodeHeartbeat, NodeStep
<1>3. GetItem \/ sync => NodeStep
  BY DEF GetItem, sync, SyncIgnored, SyncDefault, SyncInvalid, SyncStart, SyncDeadline,
         CleanupJob, CleanupReturns, SyncManage, NodeStep
<1>4. manageDaemonSetJob => NodeStep
  BY DEF manageDaemonSetJob, manageNode, DeleteDuplicate, DeleteLeftover, ListNodes,
         FinishManage, CreateNodeJob, CreateNodeJobFails, KeepNodeJob,
         KeepOutdatedFailed, DeleteOutdatedSucceeded, PassOverOutdatedActive,
         OutdatedNodeJob, AtNode, NodeStep
<1>5. Restart \/ UNCHANGED vars => NodeStep
  BY DEF Restart, vars, NodeStep
<1> QED
  BY <1>1, <1>2, <1>3, <1>4, <1>5 DEF Next, Worker

(* Every step keeps the news of the nodes true.                              *)
LEMMA NextNodesSeen ==
    ASSUME StatusInv, NodesSeen, [Next]_vars
    PROVE  NodesSeen'
<1> DEFINE w == nodeWatch
           m == Len(nodeWatch)
<1>1. w \in Seq(NodeEvent) /\ m \in Nat /\ nodes \in [Nodes -> Pools \cup {Nil}]
      /\ nodeCache \in [Nodes -> Pools \cup {Nil}]
  BY DEF StatusInv, NodesOK, CachesOK
<1>2. CASE NodesSame
  BY <1>2 DEF NodesSame, NodesSeen, NewestOfNode
<1>3. ASSUME NEW n \in Nodes, NEW p \in Pools \cup {Nil}, NodeChanges(n, p)
      PROVE  NodesSeen'
  <2>1. /\ nodes' = [nodes EXCEPT ![n] = p] /\ nodeCache' = nodeCache
        /\ nodeWatch' = Append(w, [node |-> n, pool |-> p])
    BY <1>3 DEF NodeChanges, caches
  <2>2. /\ Len(nodeWatch') = m + 1 /\ \A k \in 1..m : nodeWatch'[k] = w[k]
        /\ nodeWatch'[m + 1].node = n /\ nodeWatch'[m + 1].pool = p
    BY <1>1, <2>1
  <2>6. \A k \in 1..m : w[k].node \in Nodes
    <3>1. \A k \in 1..m : w[k] \in NodeEvent
      BY <1>1
    <3> QED
      BY <3>1 DEF NodeEvent
  <2> HIDE DEF w, m
  <2>3. ASSUME NEW x \in Nodes, \A k \in 1..(m + 1) : nodeWatch'[k].node # x
        PROVE  nodeCache'[x] = nodes'[x]
    <3>1. x # n /\ \A k \in 1..m : w[k].node # x
      BY <1>1, <2>2, <2>3
    <3> QED
      BY <1>1, <2>1, <3>1 DEF NodesSeen, w, m
  <2>4. ASSUME NEW k \in 1..m, NewestOfNode(k)'
        PROVE  nodeWatch'[k].pool = nodes'[nodeWatch'[k].node]
    <3>1. \A l \in (k + 1)..(m + 1) : nodeWatch'[l].node # w[k].node
      BY <2>2, <2>4 DEF NewestOfNode
    <3>2. w[k].node # n /\ NewestOfNode(k)
      BY <1>1, <2>2, <3>1 DEF NewestOfNode, w, m
    <3>3. w[k].pool = nodes[w[k].node]
      BY <3>2 DEF NodesSeen, w, m
    <3> QED
      BY <1>1, <2>1, <2>2, <2>6, <3>2, <3>3
  <2>5. \A k \in 1..(m + 1) :
           NewestOfNode(k)' => nodeWatch'[k].pool = nodes'[nodeWatch'[k].node]
    BY <1>1, <2>1, <2>2, <2>4
  <2> QED
    BY <2>2, <2>3, <2>5 DEF NodesSeen
<1>4. CASE onNodeEvent
  <2>1. /\ nodes' = nodes /\ w # <<>> /\ nodeWatch' = Tail(w)
        /\ nodeCache' = [nodeCache EXCEPT ![Head(w).node] = Head(w).pool]
    BY <1>4 DEF onNodeEvent
  <2>2. /\ m \in Nat \ {0} /\ Len(nodeWatch') = m - 1 /\ Head(w) = w[1]
        /\ \A k \in 1..(m - 1) : nodeWatch'[k] = w[k + 1]
    BY <1>1, <2>1
  <2> HIDE DEF w, m
  <2>3. ASSUME NEW x \in Nodes, \A k \in 1..(m - 1) : nodeWatch'[k].node # x
        PROVE  nodeCache'[x] = nodes[x]
    <3>1. ASSUME NEW k \in 2..m PROVE w[k].node # x
      <4>1. k - 1 \in 1..(m - 1) /\ nodeWatch'[k - 1] = w[k]
        BY <2>2
      <4> QED
        BY <2>3, <4>1
    <3>2. CASE x = w[1].node
      <4>1. NewestOfNode(1)
        BY <2>2, <3>1, <3>2 DEF NewestOfNode, w, m
      <4>2. w[1].pool = nodes[x]
        BY <2>2, <3>2, <4>1 DEF NodesSeen, w, m
      <4> QED
        BY <1>1, <2>1, <2>2, <3>2, <4>2
    <3>3. CASE x # w[1].node
      <4>1. nodeCache[x] = nodes[x]
        BY <2>2, <3>1, <3>3 DEF NodesSeen, w, m
      <4> QED
        BY <1>1, <2>1, <2>2, <3>3, <4>1
    <3> QED
      BY <3>2, <3>3
  <2>4. ASSUME NEW k \in 1..(m - 1), NewestOfNode(k)'
        PROVE  nodeWatch'[k].pool = nodes[nodeWatch'[k].node]
    <3>1. k + 1 \in 1..m /\ nodeWatch'[k] = w[k + 1]
      BY <2>2
    <3>2. ASSUME NEW l \in (k + 2)..m PROVE w[l].node # w[k + 1].node
      <4>1. l - 1 \in (k + 1)..(m - 1) /\ nodeWatch'[l - 1] = w[l]
        BY <2>2
      <4> QED
        BY <2>2, <2>4, <3>1, <4>1 DEF NewestOfNode
    <3>3. NewestOfNode(k + 1)
      BY <3>2 DEF NewestOfNode, w, m
    <3> QED
      BY <3>1, <3>3 DEF NodesSeen, w, m
  <2> QED
    BY <2>1, <2>2, <2>3, <2>4 DEF NodesSeen
<1>5. CASE Relist
  <2> DEFINE there == {n \in Nodes : nodes[n] # Nil}
  <2>1. PICK g \in Listings(there) :
           nodeWatch' = [k \in DOMAIN g |-> [node |-> g[k], pool |-> nodes[g[k]]]]
    BY <1>5 DEF Relist
  <2>2. Cardinality(there) \in Nat
    BY CardinalitiesNat
  <2>3. PICK n \in Nat : g \in [1..n -> there]
    BY <2>1, <2>2 DEF Listings
  <2>4. /\ Len(nodeWatch') = n
        /\ \A k \in 1..n : nodeWatch'[k] = [node |-> g[k], pool |-> nodes[g[k]]]
    BY <2>1, <2>3
  <2>5. \A x \in Nodes : nodes[x] # Nil => \E k \in 1..n : nodeWatch'[k].node = x
    BY <2>1, <2>3, <2>4 DEF Listings
  <2>6. nodes' = nodes /\ nodeCache' = [x \in Nodes |-> Nil]
    BY <1>5 DEF Relist
  <2>7. \A k \in 1..n : nodeWatch'[k].pool = nodes[nodeWatch'[k].node]
    BY <2>4
  <2> HIDE DEF there
  <2> QED
    BY <2>4, <2>5, <2>6, <2>7 DEF NodesSeen
<1> QED
  BY <1>2, <1>3, <1>4, <1>5, NextNodeStep DEF NodeStep

(* What a step makes of them: copies there were, rewritten or the pass's new *)
(* jobs.                                                                     *)
LEMMA NextJobCopies ==
    ASSUME StatusInv, JobsSeen, [Next]_vars
    PROVE  \A j \in JobCopies' : j \in JobCopies \/ Rewritten(j) \/ IsNew(j)
<1>1. jobWatch \in Seq(JobEvent) /\ Len(jobWatch) \in Nat
  BY DEF StatusInv, JobsOK
<1>2. CASE JobsSame
  BY <1>2 DEF JobsSame, JobCopies
<1>3. ASSUME NEW t, NEW y, jobWatch' = Append(jobWatch, [type |-> t, obj |-> y]),
             UNCHANGED jobCache, jobs' \subseteq jobs \cup {y}
      PROVE  JobCopies' \subseteq JobCopies \cup {y}
  <2>1. /\ Len(jobWatch') = Len(jobWatch) + 1
        /\ \A k \in 1..Len(jobWatch) : jobWatch'[k] = jobWatch[k]
        /\ jobWatch'[Len(jobWatch) + 1] = [type |-> t, obj |-> y]
    BY <1>1, <1>3
  <2>2. \A k \in 1..(Len(jobWatch) + 1) : k \in 1..Len(jobWatch) \/ jobWatch'[k].obj = y
    BY <1>1, <2>1
  <2> QED
    BY <1>3, <2>1, <2>2 DEF JobCopies
<1>4. CASE JobSaved
  <2>1. PICK y \in Job : WriteJob(y) /\ (Rewritten(y) \/ IsNew(y))
    BY <1>4 DEF JobSaved
  <2>2. JobCopies' \subseteq JobCopies \cup {y}
    BY <1>3, <1>4, <2>1 DEF WriteJob, JobSaved
  <2> QED
    BY <2>1, <2>2
<1>5. CASE JobLost
  <2>1. PICK y \in jobs : RemoveJob(y)
    BY <1>5 DEF JobLost
  <2>2. JobCopies' \subseteq JobCopies \cup {y}
    BY <1>3, <1>5, <2>1 DEF RemoveJob, JobLost
  <2> QED
    BY <2>1, <2>2 DEF JobCopies
<1>6. CASE onJobEvent
  <2>1. /\ jobs' = jobs /\ jobWatch # <<>> /\ jobWatch' = Tail(jobWatch)
        /\ jobCache' \subseteq jobCache \cup {Head(jobWatch).obj}
    BY <1>6 DEF onJobEvent
  <2>2. /\ Len(jobWatch') = Len(jobWatch) - 1 /\ Head(jobWatch) = jobWatch[1]
        /\ Len(jobWatch) > 0
        /\ \A k \in 1..(Len(jobWatch) - 1) : jobWatch'[k] = jobWatch[k + 1]
    BY <1>1, <2>1
  <2>3. \A k \in 1..(Len(jobWatch) - 1) : k + 1 \in 1..Len(jobWatch)
    BY <1>1
  <2>4. \A k \in 1..Len(jobWatch') : jobWatch'[k].obj \in JobCopies
    BY <2>2, <2>3 DEF JobCopies
  <2>5. jobCache' \subseteq JobCopies
    BY <1>1, <2>1, <2>2 DEF JobCopies
  <2>6. jobs' \subseteq JobCopies
    BY <2>1 DEF JobCopies
  <2> QED
    BY <2>4, <2>5, <2>6 DEF JobCopies
<1>7. CASE Relist
  <2>1. \A k \in 1..Len(jobWatch') : jobWatch'[k].obj \in jobs
    BY <1>7, ListedJobsSeen
  <2>2. jobs' = jobs /\ jobCache' = {}
    BY <1>7 DEF Relist
  <2>3. JobCopies' \subseteq jobs
    BY <2>1, <2>2 DEF JobCopies
  <2> QED
    BY <2>3 DEF JobCopies
<1> QED
  BY <1>2, <1>4, <1>5, <1>6, <1>7, NextJobStep DEF JobStep

(* What does not change of a job.                                            *)
LEMMA RewrittenSame ==
    ASSUME NEW j, Rewritten(j)
    PROVE  \E x \in jobs : j.uid = x.uid /\ j.ns = x.ns /\ j.labels = x.labels
BY DEF Rewritten

(* Only users end the time before the DaemonSetJob.                          *)
LEMMA NextNothingBefore ==
    ASSUME StatusInv, JobsSeen, NothingBefore, [Next]_vars
    PROVE  NothingBefore'
<1> SUFFICES ASSUME uids' = 0 PROVE NothingBefore'
  BY DEF NothingBefore
<1> USE DEF OtherThanDaemonSetJob, OtherThanJobs, caches, clusterVars, dsjStore,
            queue, worker, pass
<1>1. uids = 0
  <2>1. uids' = uids \/ uids' = uids + 1
    BY NextOwner DEF OwnerKept, OwnerCreated, Next, Restart, Relist, vars
  <2> QED
    BY <2>1 DEF StatusInv, NumbersOK
<1>2. /\ dsj = Nil /\ dsjCache = Nil /\ dsjWatch = <<>>
      /\ pc \in {"idle", "sync"} /\ began <= now /\ now \in Nat /\ began \in Nat
      /\ \A j \in JobCopies : j.uid = 0 /\ ~Matches(NameLabel, j.labels)
  BY <1>1 DEF NothingBefore, JobCopies, StatusInv, NumbersOK, WorkerOK
<1>3. \A j \in JobCopies' : j.uid = 0 /\ ~Matches(NameLabel, j.labels)
  <2>1. \A j \in JobCopies' : j \in JobCopies \/ Rewritten(j)
    BY <1>2, NextJobCopies DEF IsNew
  <2>2. jobs \subseteq JobCopies
    BY DEF JobCopies
  <2> QED
    BY <1>2, <2>1, <2>2, RewrittenSame
<1>4. /\ dsj' = Nil /\ dsjCache' = Nil /\ dsjWatch' = <<>>
      /\ pc' \in {"idle", "sync"} /\ began' <= now'
  <2>1. CASE Surroundings
    <3>1. \A s \in Specs : ~UserCreate(s) /\ ~UserEdit(s)
      BY <1>1, <1>2 DEF UserCreate, UserEdit
    <3>2. UNCHANGED <<dsj, dsjWatch, dsjCache, pc, began>>
      BY <1>2, <2>1, <3>1
         DEF Surroundings, Environment, UserDelete, Finalize, JobFinishes, JobGone,
             NodeChanges, Tick
    <3>3. now' = now \/ now' = now + 1
      BY <1>2, <2>1, <3>1
         DEF Surroundings, Environment, UserDelete, Finalize, JobFinishes, JobGone,
             NodeChanges, Tick
    <3> QED
      BY <1>2, <3>2, <3>3
  <2>2. CASE Handlers \/ RetryFires
    BY <1>2, <2>2
       DEF Handlers, RetryFires, onAddDaemonSetJob, onUpdateDaemonSetJob,
           onDeleteDaemonSetJob, Resync, onJobEvent, onNodeEvent, NodeHeartbeat
  <2>3. CASE Worker
    <3>1. GetItem \/ SyncIgnored
      BY <1>2, <2>3
         DEF Worker, sync, SyncDefault, SyncInvalid, SyncStart, SyncProceeds,
             SyncDeadline, CleanupJob, CleanupReturns, SyncManage, manageDaemonSetJob,
             manageNode, DeleteDuplicate, DeleteLeftover, ListNodes, FinishManage,
             CreateNodeJob, CreateNodeJobFails, KeepNodeJob, KeepOutdatedFailed,
             DeleteOutdatedSucceeded, PassOverOutdatedActive, OutdatedNodeJob, AtNode,
             AllNodesSeen
    <3> QED
      BY <1>2, <3>1 DEF GetItem, SyncIgnored, Return, ResetWorker
  <2>4. CASE Restart \/ UNCHANGED vars
    BY <1>2, <2>4 DEF Restart, Relist, ResetWorker, vars
  <2> QED
    BY <2>1, <2>2, <2>3, <2>4 DEF Next
<1> QED
  BY <1>3, <1>4 DEF NothingBefore, JobCopies

(* An update changes the version. *)
LEMMA VersionChanges ==
    ASSUME NEW o \in DaemonSetJob
    PROVE  /\ NextVersion(o).rv # o.rv
           /\ NextVersion(o) = [o EXCEPT !.rv = NextVersion(o).rv]
<1>1. PICK r \in Nat : r = o.rv
  BY DEF DaemonSetJob
<1>2. Versions \in Nat /\ Versions >= 4
  BY DaemonSetJobClusterAssumption DEF Versions
<1>3. (r + 1) % Versions # r
  <2>1. CASE r + 1 < Versions
    <3>1. (r + 1) % Versions = r + 1
      BY <1>2, <2>1
    <3> QED
      BY <3>1
  <2>2. CASE r + 1 = Versions
    <3>1. (r + 1) % Versions = 0
      BY <1>2, <2>2
    <3> QED
      BY <1>2, <2>2, <3>1
  <2>3. CASE r + 1 > Versions
    <3>1. (r + 1) % Versions < Versions
      BY <1>2
    <3> QED
      BY <1>2, <2>3, <3>1
  <2> QED
    BY <1>2, <2>1, <2>2, <2>3
<1>4. NextVersion(o) = [o EXCEPT !.rv = (r + 1) % Versions]
  BY <1>1 DEF NextVersion
<1>5. NextVersion(o).rv = (r + 1) % Versions
  BY <1>4 DEF DaemonSetJob
<1> QED
  BY <1>1, <1>3, <1>4, <1>5

Standing == dsj # Nil /\ edits = 0

Created == \E s \in Specs : UserCreate(s) /\ UNCHANGED <<queue, worker, restarts>>

(* UIDs are given to the DaemonSetJobs of users only.                        *)
LEMMA OnlyUsersCreate ==
    ASSUME StatusInv, [Next]_vars
    PROVE  UNCHANGED uids \/ Created
<1> USE DEF OtherThanDaemonSetJob, OtherThanJobs, clusterVars
<1>1. Surroundings => UNCHANGED uids \/ Created
  BY DEF Created, Surroundings, Environment, UserEdit, UserDelete, Finalize,
         JobFinishes, JobGone, NodeChanges, Tick
<1>2. Handlers \/ RetryFires => UNCHANGED uids
  BY DEF Handlers, RetryFires, onAddDaemonSetJob, onUpdateDaemonSetJob,
         onDeleteDaemonSetJob, Resync, onJobEvent, onNodeEvent, NodeHeartbeat
<1>3. Worker => UNCHANGED uids
  BY DEF Worker, GetItem, sync, SyncIgnored, SyncDefault, SyncInvalid, SyncStart,
         SyncDeadline, CleanupJob, CleanupReturns, SyncManage, manageDaemonSetJob,
         manageNode, DeleteDuplicate, DeleteLeftover, ListNodes, FinishManage,
         CreateNodeJob, CreateNodeJobFails, KeepNodeJob, KeepOutdatedFailed,
         DeleteOutdatedSucceeded, PassOverOutdatedActive, OutdatedNodeJob, AtNode
<1>4. Restart \/ UNCHANGED vars => UNCHANGED uids
  BY DEF Restart, Relist, vars
<1> QED
  BY <1>1, <1>2, <1>3, <1>4 DEF Next

(* What users have changed remains counted.                                  *)
LEMMA EditsGrow ==
    ASSUME StatusInv, [Next]_vars
    PROVE  edits' = edits \/ edits' = edits + 1
<1> USE DEF OtherThanDaemonSetJob, OtherThanJobs, clusterVars
<1>1. Surroundings => edits' = edits \/ edits' = edits + 1
  BY DEF Surroundings, Environment, UserCreate, UserEdit, UserDelete, Edit, Finalize,
         JobFinishes, JobGone, NodeChanges, Tick
<1>2. Handlers \/ RetryFires => UNCHANGED edits
  BY DEF Handlers, RetryFires, onAddDaemonSetJob, onUpdateDaemonSetJob,
         onDeleteDaemonSetJob, Resync, onJobEvent, onNodeEvent, NodeHeartbeat
<1>3. Worker => UNCHANGED edits
  BY DEF Worker, GetItem, sync, SyncIgnored, SyncDefault, SyncInvalid, SyncStart,
         SyncDeadline, CleanupJob, CleanupReturns, SyncManage, manageDaemonSetJob,
         manageNode, DeleteDuplicate, DeleteLeftover, ListNodes, FinishManage,
         CreateNodeJob, CreateNodeJobFails, KeepNodeJob, KeepOutdatedFailed,
         DeleteOutdatedSucceeded, PassOverOutdatedActive, OutdatedNodeJob, AtNode
<1>4. Restart \/ UNCHANGED vars => UNCHANGED edits
  BY DEF Restart, Relist, vars
<1> QED
  BY <1>1, <1>2, <1>3, <1>4 DEF Next

(* The DaemonSetJob there is was there before, or users have just created it *)
(* and nothing was before.                                                   *)
LEMMA NextStanding ==
    ASSUME MaxUID = 1, StatusInv, [Next]_vars, Standing'
    PROVE  \/ Standing
           \/ /\ uids = 0 /\ edits = 0
              /\ Created
<1>1. edits = 0
  BY EditsGrow DEF Standing, StatusInv, NumbersOK
<1>2. CASE UNCHANGED uids
  <2>1. OwnerKept
    BY <1>2, NextOwner DEF StatusInv, NumbersOK, OwnerKept, OwnerCreated, Next, Restart,
       Relist, vars, clusterVars, dsjStore
  <2> QED
    BY <1>1, <2>1 DEF OwnerKept, Standing
<1>3. CASE Created
  <2>1. uids < 1 /\ uids \in Nat
    BY <1>3 DEF Created, UserCreate, StatusInv, NumbersOK
  <2> QED
    BY <1>1, <1>3, <2>1
<1> QED
  BY <1>2, <1>3, OnlyUsersCreate

--------------------------------------------------------------------------------
(* The copies of the DaemonSetJob.                                           *)

(* What an update leaves alone. *)
Identity(o) ==
    <<o.uid, o.rv, o.tmpl, o.pools, o.deadline, o.valid, o.deleting, o.sel>>

(* What defaulting changes.                                                  *)
LEMMA DefaultedSame ==
    ASSUME NEW p \in DaemonSetJob
    PROVE  LET o == [p EXCEPT !.defaulted = TRUE]
           IN  /\ Identity(o) = Identity(p) /\ o.start = p.start /\ o.conds = p.conds
               /\ StatusEmpty(p) => StatusEmpty(o)
BY DEF DaemonSetJob, Identity, StatusEmpty

(* What starting changes.                                                    *)
LEMMA StartedSame ==
    ASSUME NEW p \in DaemonSetJob, NEW t \in Nat
    PROVE  LET o == [p EXCEPT !.start = t]
           IN  /\ Identity(o) = Identity(p) /\ o.start = t /\ o.conds = p.conds
               /\ o.defaulted = p.defaulted
BY DEF DaemonSetJob, Identity

(* What the deadline's condition changes.                                    *)
LEMMA DeadlineSame ==
    ASSUME NEW p \in DaemonSetJob
    PROVE  LET o == WithDeadlineExceeded(p)
           IN  /\ Identity(o) = Identity(p)
               /\ o.start = p.start /\ o.defaulted = p.defaulted
BY DEF DaemonSetJob, Identity, WithDeadlineExceeded

(* What the published counts change.                                         *)
LEMMA PublishedSame ==
    ASSUME NEW p \in DaemonSetJob
    PROVE  LET o == WithStatus(p)
           IN  /\ Identity(o) = Identity(p)
               /\ o.start = p.start /\ o.defaulted = p.defaulted
<1>1. PICK c : c = WithCondition(WithCondition(p.conds, "Complete", tally.active = 0),
                                 "Failed", tally.failed > 0)
  OBVIOUS
<1>2. WithStatus(p) =
         [p EXCEPT !.active = tally.active, !.succeeded = tally.succeeded,
                   !.failed = tally.failed, !.completion = (tally.active = 0),
                   !.conds = c, !.probe = IF c = <<>> THEN @ ELSE now]
  BY <1>1 DEF WithStatus
<1>3. PICK q : q = [p EXCEPT !.active = tally.active, !.succeeded = tally.succeeded,
                   !.failed = tally.failed, !.completion = (tally.active = 0),
                   !.conds = c, !.probe = IF c = <<>> THEN @ ELSE now]
  OBVIOUS
<1>4. Identity(q) = Identity(p) /\ q.start = p.start /\ q.defaulted = p.defaulted
  BY <1>3 DEF Identity, DaemonSetJob
<1> QED
  BY <1>2, <1>3, <1>4

(* The update of a pass: it is made of the stored DaemonSetJob, and starts   *)
(* it if it has not started.                                                 *)
Published(o) ==
    /\ o \in DaemonSetJob /\ WriteDaemonSetJob(o) /\ UNCHANGED dsjCache
    /\ dsjWatch = <<>> /\ dsjCache = dsj
    /\ SpecOf(o) /\ o.rv = dsj.rv
    /\ o.start # Nil => o.defaulted /\ dsj.defaulted /\ dsj.start \in {Nil, o.start}
    /\ o.start = Nil => StatusEmpty(o) /\ dsj.start = Nil
    /\ dsj.start = Nil => o.conds = <<>>

Told ==
    /\ dsjWatch = <<[type |-> "set", obj |-> dsj]>> /\ dsj' = dsj
    /\ dsjWatch' = <<>> /\ dsjCache' = dsj
    /\ dirty' \/ (IsDaemonSetJobFinished(dsj) /\ dsjCache # Nil)
    /\ UNCHANGED <<pc, local, began, now>>

Kept == UNCHANGED <<dsj, dsjWatch, dsjCache>>

(* An update is refused or is one of the stored version.                     *)
LEMMA UpdatePublishes ==
    ASSUME NEW o \in DaemonSetJob, updateDaemonSetJob(o), UNCHANGED dsjCache
    PROVE  Kept \/ (WriteDaemonSetJob(o) /\ o.rv = dsj.rv)
BY DEF updateDaemonSetJob, UpdateAccepted, Kept, dsjStore

(* The types of the copies and of the times.                                 *)
LEMMA SeenTypes ==
    ASSUME StatusInv
    PROVE  /\ dsj # Nil => dsj \in DaemonSetJob
           /\ dsjCache # Nil => dsjCache \in DaemonSetJob
           /\ local # Nil => local \in DaemonSetJob
           /\ pc \in {"duplicates", "nodes"} => local \in DaemonSetJob
           /\ now \in Nat /\ began \in Nat
           /\ \A t \in Nat \cup Pools : t # Nil
BY DaemonSetJobClusterAssumption
   DEF StatusInv, DaemonSetJobsOK, CachesOK, WorkerOK, Sound, NumbersOK

(* The updates of sync are made of the stored DaemonSetJob or have no effect.*)
LEMMA SyncPublishes ==
    ASSUME StatusInv, Standing, DaemonSetJobSeen,
           SyncDefault \/ SyncStart \/ SyncDeadline
    PROVE  \/ Kept
           \/ /\ SyncDefault /\ Published([dsjCache EXCEPT !.defaulted = TRUE])
           \/ /\ SyncStart /\ Published([dsjCache EXCEPT !.start = now])
           \/ /\ SyncDeadline /\ Published(WithDeadlineExceeded(dsjCache))
<1>1. dsjCache \in DaemonSetJob /\ dsjCache # Nil /\ UNCHANGED dsjCache
  BY SeenTypes DEF SyncDefault, SyncStart, SyncDeadline, SyncProceeds,
     OtherThanDaemonSetJob, caches
<1>2. /\ CopyOf(dsjCache)
      /\ dsj.start # Nil => dsjCache.defaulted
      /\ dsjCache.rv = dsj.rv => dsjWatch = <<>> /\ dsjCache = dsj
  BY <1>1 DEF DaemonSetJobSeen
<1>3. ASSUME NEW o, Identity(o) = Identity(dsjCache)
      PROVE  o.rv = dsjCache.rv /\ SpecOf(o)
  <2>1. /\ o.uid = dsjCache.uid /\ o.rv = dsjCache.rv /\ o.tmpl = dsjCache.tmpl
        /\ o.pools = dsjCache.pools /\ o.deadline = dsjCache.deadline
        /\ o.valid = dsjCache.valid /\ o.deleting = dsjCache.deleting
        /\ o.sel = dsjCache.sel
    BY <1>3 DEF Identity
  <2> QED
    BY <1>2, <2>1 DEF CopyOf, SpecOf
<1>4. CASE SyncDefault
  <2>1. PICK o : o = [dsjCache EXCEPT !.defaulted = TRUE]
    OBVIOUS
  <2>2. /\ Identity(o) = Identity(dsjCache) /\ o.start = dsjCache.start
        /\ o.conds = dsjCache.conds
        /\ StatusEmpty(dsjCache) => StatusEmpty(o)
        /\ o \in DaemonSetJob
    BY <1>1, <2>1, DefaultedSame DEF DaemonSetJob
  <2>3. Kept \/ (WriteDaemonSetJob(o) /\ o.rv = dsj.rv)
    BY <1>1, <1>4, <2>1, <2>2, UpdatePublishes DEF SyncDefault
  <2>4. dsjCache.start = Nil /\ StatusEmpty(dsjCache)
    BY <1>2, <1>4 DEF CopyOf, SyncDefault
  <2>5. ~Kept => Published(o)
    BY <1>1, <1>2, <1>3, <2>2, <2>3, <2>4 DEF Published, StatusEmpty
  <2> QED
    BY <1>4, <2>1, <2>5
<1>5. CASE SyncStart
  <2>1. PICK o : o = [dsjCache EXCEPT !.start = now]
    OBVIOUS
  <2>2. /\ Identity(o) = Identity(dsjCache) /\ o.start = now /\ now # Nil
        /\ o.conds = dsjCache.conds /\ o.defaulted = dsjCache.defaulted
        /\ o \in DaemonSetJob
    BY <1>1, <2>1, SeenTypes, StartedSame DEF DaemonSetJob
  <2>3. Kept \/ (WriteDaemonSetJob(o) /\ o.rv = dsj.rv)
    BY <1>1, <1>5, <2>1, <2>2, UpdatePublishes DEF SyncStart
  <2>4. dsjCache.start = Nil /\ StatusEmpty(dsjCache) /\ dsjCache.defaulted
    BY <1>2, <1>5 DEF CopyOf, SyncStart, SyncProceeds
  <2>5. ~Kept => Published(o)
    BY <1>1, <1>2, <1>3, <2>2, <2>3, <2>4 DEF Published, StatusEmpty
  <2> QED
    BY <1>5, <2>1, <2>5
<1>6. CASE SyncDeadline
  <2>1. PICK o : o = WithDeadlineExceeded(dsjCache)
    OBVIOUS
  <2>2. /\ Identity(o) = Identity(dsjCache) /\ o.start = dsjCache.start
        /\ o.defaulted = dsjCache.defaulted
    BY <1>1, <2>1, DeadlineSame
  <2>3. o \in DaemonSetJob
    BY <1>6, <2>1, SeenTypes, DeadlineSound
       DEF StatusInv, CachesOK, SyncDeadline, SyncProceeds, Sound
  <2>4. Kept \/ (WriteDaemonSetJob(o) /\ o.rv = dsj.rv)
    BY <1>1, <1>6, <2>1, <2>3, UpdatePublishes DEF SyncDeadline
  <2>5. dsjCache.start # Nil /\ dsjCache.defaulted
    BY <1>2, <1>6 DEF CopyOf, SyncDeadline, SyncProceeds
  <2>6. ~Kept => Published(o)
    BY <1>1, <1>2, <1>3, <2>2, <2>3, <2>4, <2>5 DEF Published
  <2> QED
    BY <1>6, <2>1, <2>6
<1> QED
  BY <1>4, <1>5, <1>6

(* So is that of manageDaemonSetJob.                                         *)
LEMMA FinishPublishes ==
    ASSUME StatusInv, Standing, DaemonSetJobSeen, PassSeen, FinishManage
    PROVE  Kept \/ Published(WithStatus(local))
<1>1. local \in DaemonSetJob /\ pc = "nodes" /\ UNCHANGED dsjCache
  BY SeenTypes DEF FinishManage, AllNodesSeen, OtherThanDaemonSetJob, caches
<1>2. /\ CopyOf(local) /\ local.start # Nil /\ dsjCache # Nil
      /\ local.rv = dsj.rv => dsjWatch = <<>> /\ dsjCache = dsj
      /\ dsj.start # Nil => dsjCache.defaulted
  BY <1>1 DEF DaemonSetJobSeen, PassSeen
<1>3. PICK o : o = WithStatus(local)
  OBVIOUS
<1>4. /\ Identity(o) = Identity(local)
      /\ o.start = local.start /\ o.defaulted = local.defaulted
  BY <1>1, <1>3, PublishedSame
<1>5. o \in DaemonSetJob
  BY <1>3, FinishSound DEF Sound
<1>6. Kept \/ (WriteDaemonSetJob(o) /\ o.rv = dsj.rv)
  BY <1>1, <1>3, <1>5, UpdatePublishes DEF FinishManage, Kept, dsjStore
<1>7. o.rv = local.rv /\ SpecOf(o)
  BY <1>2, <1>4 DEF Identity, CopyOf, SpecOf
<1>8. local.start = dsj.start /\ local.defaulted
  BY <1>2 DEF CopyOf
<1>9. ~Kept => Published(o)
  BY <1>1, <1>2, <1>4, <1>5, <1>6, <1>7, <1>8 DEF Published
<1> QED
  BY <1>3, <1>9

(* The steps as the DaemonSetJob's informer sees them, as long as the        *)
(* DaemonSetJob stands.                                                      *)
LEMMA AddTells ==
    ASSUME RestartsOrFaults, StatusInv, Standing, Standing', DaemonSetJobSeen,
           onAddDaemonSetJob \/ onUpdateDaemonSetJob \/ onDeleteDaemonSetJob
    PROVE  Told
<1>1. dsjWatch = <<[type |-> "set", obj |-> dsj]>>
  BY DEF DaemonSetJobSeen, Standing, onAddDaemonSetJob, onUpdateDaemonSetJob,
         onDeleteDaemonSetJob
<1>2. /\ Head(dsjWatch) = [type |-> "set", obj |-> dsj] /\ Tail(dsjWatch) = <<>>
      /\ Head(dsjWatch).type = "set" /\ Head(dsjWatch).obj = dsj
  BY <1>1
<1>3. ~dsj.deleting /\ dsj # Nil /\ dsj' # Nil
  BY DEF DaemonSetJobSeen, CopyOf, SpecOf, Standing
<1>4. UNCHANGED <<pc, local, began, now>>
  BY DEF onAddDaemonSetJob, onUpdateDaemonSetJob, onDeleteDaemonSetJob, worker, pass
<1>5. CASE onAddDaemonSetJob
  <2>1. StatusEmpty(dsj)
    <3>1. CASE MaxRestarts = 0
      BY <1>5, <3>1 DEF onAddDaemonSetJob, DaemonSetJobSeen
    <3>2. CASE MaxFaults = 0
      <4>1. ~Fault
        BY <3>2 DEF Fault, StatusInv, NumbersOK
      <4> QED
        BY <1>2, <1>3, <1>5, <4>1 DEF onAddDaemonSetJob
    <3> QED
      BY <3>1, <3>2 DEF RestartsOrFaults
  <2> QED
    BY <1>1, <1>2, <1>4, <1>5, <2>1 DEF onAddDaemonSetJob, Told, Enqueue
<1>6. CASE onUpdateDaemonSetJob
  BY <1>1, <1>2, <1>4, <1>6 DEF onUpdateDaemonSetJob, Told, Enqueue
<1>7. CASE onDeleteDaemonSetJob
  BY <1>2, <1>7 DEF onDeleteDaemonSetJob
<1> QED
  BY <1>5, <1>6, <1>7

(* So is every step, seen from the DaemonSetJob's informer.                  *)
LEMMA NextDaemonSetJobStep ==
    ASSUME RestartsOrFaults, StatusInv, Standing, Standing', DaemonSetJobSeen, PassSeen,
           [Next]_vars
    PROVE  Kept \/ Told \/ Restart \/ \E o \in DaemonSetJob : Published(o)
<1> USE DEF OtherThanDaemonSetJob, OtherThanJobs, caches, clusterVars, dsjStore, Kept
<1>1. Surroundings => Kept
  <2>1. /\ dsj # Nil /\ ~dsj.deleting
        /\ dsj' # Nil /\ edits' = edits /\ edits \in Nat
    BY DEF Standing, DaemonSetJobSeen, CopyOf, SpecOf, StatusInv, NumbersOK
  <2> QED
    <3>1. ASSUME Edit PROVE FALSE
      BY <2>1, <3>1 DEF Edit
    <3>2. \A s \in Specs : ~UserCreate(s) /\ ~UserEdit(s)
      BY <2>1, <3>1 DEF UserCreate, UserEdit
    <3>3. ~UserDelete /\ ~Finalize
      BY <2>1, <3>1 DEF UserDelete, Finalize
    <3>4. \A j \in jobs : JobFinishes(j) \/ JobGone(j) => Kept
      BY DEF JobFinishes, JobGone
    <3>5. \A n \in Nodes, p \in Pools \cup {Nil} : NodeChanges(n, p) => Kept
      BY DEF NodeChanges
    <3>6. Tick => Kept
      BY DEF Tick
    <3> QED
      BY <3>2, <3>3, <3>4, <3>5, <3>6 DEF Surroundings, Environment
<1>2. Resync \/ onJobEvent \/ onNodeEvent \/ NodeHeartbeat \/ RetryFires => Kept
  BY DEF Resync, onJobEvent, onNodeEvent, NodeHeartbeat, RetryFires
<1>3. Handlers => Kept \/ Told
  BY <1>2, AddTells DEF Handlers
<1>4. SyncInvalid => Kept
  BY DEF SyncInvalid, deleteDaemonSetJob, RemoveDaemonSetJob, Standing
<1>5. SyncDefault \/ SyncStart \/ SyncDeadline
         => Kept \/ \E o \in DaemonSetJob : Published(o)
  BY SyncPublishes DEF Published
<1>6. GetItem \/ sync => Kept \/ \E o \in DaemonSetJob : Published(o)
  BY <1>4, <1>5 DEF GetItem, sync, SyncIgnored, CleanupJob, CleanupReturns, SyncManage
<1>7. manageDaemonSetJob => Kept \/ \E o \in DaemonSetJob : Published(o)
  <2>1. FinishManage => Kept \/ \E o \in DaemonSetJob : Published(o)
    BY FinishPublishes DEF Published
  <2> QED
    BY <2>1 DEF manageDaemonSetJob, manageNode, DeleteDuplicate, DeleteLeftover,
         ListNodes, CreateNodeJob, CreateNodeJobFails, KeepNodeJob, KeepOutdatedFailed,
         DeleteOutdatedSucceeded, PassOverOutdatedActive, OutdatedNodeJob, AtNode
<1>8. UNCHANGED vars => Kept
  BY DEF vars
<1> QED
  BY <1>1, <1>2, <1>3, <1>6, <1>7, <1>8 DEF Next, Worker

(* After an update the cache has the version before it and an event.         *)
LEMMA PublishedSeen ==
    ASSUME StatusInv, Standing, DaemonSetJobSeen, NEW o \in DaemonSetJob, Published(o)
    PROVE  /\ DaemonSetJobSeen'
           /\ <<dsj'.uid, dsj'.tmpl, dsj'.pools, dsj'.deadline>>
                 = <<dsj.uid, dsj.tmpl, dsj.pools, dsj.deadline>>
           /\ dsj'.start = o.start /\ dsj'.rv # dsj.rv
<1>1. PICK d : d = NextVersion(o)
  OBVIOUS
<1>2. /\ d.rv # o.rv /\ d.uid = o.uid /\ d.tmpl = o.tmpl /\ d.pools = o.pools
      /\ d.deadline = o.deadline /\ d.valid = o.valid /\ d.deleting = o.deleting
      /\ d.sel = o.sel /\ d.start = o.start /\ d.conds = o.conds
      /\ d.defaulted = o.defaulted
  BY <1>1, VersionChanges DEF DaemonSetJob
<1>3. StatusEmpty(o) => StatusEmpty(d)
  BY <1>1, VersionChanges DEF DaemonSetJob, StatusEmpty
<1>4. /\ dsj' = d /\ dsjCache' = dsj
  BY <1>1 DEF Published, WriteDaemonSetJob
<1>5. dsjWatch' = <<[type |-> "set", obj |-> d]>>
  BY <1>1 DEF Published, WriteDaemonSetJob
<1>6. /\ o.rv = dsj.rv /\ o.uid = dsj.uid /\ o.tmpl = dsj.tmpl /\ o.pools = dsj.pools
      /\ o.deadline = dsj.deadline /\ o.valid = dsj.valid /\ o.deleting = FALSE
      /\ o.sel \in {UserSelector, JobLabels(o.tmpl)}
  BY DEF Published, SpecOf
<1>7. /\ CopyOf(dsj) /\ dsj.deleting = FALSE /\ dsj # Nil
      /\ dsj.sel \in {UserSelector, JobLabels(dsj.tmpl)}
      /\ dsj.start = Nil => StatusEmpty(dsj)
  BY DEF DaemonSetJobSeen, CopyOf, SpecOf, Standing
<1>8. /\ d.uid = dsj.uid /\ d.tmpl = dsj.tmpl /\ d.pools = dsj.pools
      /\ d.deadline = dsj.deadline /\ d.valid = dsj.valid /\ d.deleting = FALSE
      /\ d.rv # dsj.rv
  BY <1>2, <1>6
<1>9. SpecOf(dsj)' /\ SpecOf(dsjCache)'
  BY <1>2, <1>4, <1>6, <1>7, <1>8 DEF SpecOf
<1>10. CopyOf(dsj)'
  BY <1>2, <1>3, <1>4, <1>9 DEF CopyOf, Published
<1>11. CopyOf(dsjCache)'
  BY <1>2, <1>4, <1>7, <1>9 DEF CopyOf, Published
<1>12. /\ d.start # Nil => dsj.defaulted
       /\ dsj.start = Nil => d.conds = <<>>
  BY <1>2 DEF Published
<1>13. DaemonSetJobSeen'
  BY <1>4, <1>5, <1>7, <1>8, <1>10, <1>11, <1>12 DEF DaemonSetJobSeen
<1> QED
  BY <1>2, <1>4, <1>8, <1>13

(* Every step keeps the copies of the DaemonSetJob in order.                 *)
LEMMA NextDaemonSetJobSeen ==
    ASSUME RestartsOrFaults, StatusInv, Standing, Standing', DaemonSetJobSeen, PassSeen,
           [Next]_vars
    PROVE  DaemonSetJobSeen'
<1>1. CASE Kept
  BY <1>1 DEF Kept, DaemonSetJobSeen, CopyOf, SpecOf
<1>2. CASE Told
  <2>1. dsj' = dsj /\ dsjCache' = dsj /\ dsjWatch' = <<>>
    BY <1>2 DEF Told
  <2>2. CopyOf(dsj)
    BY DEF DaemonSetJobSeen
  <2>3. CopyOf(dsj)' /\ CopyOf(dsjCache)'
    BY <2>1, <2>2 DEF CopyOf, SpecOf
  <2>4. /\ dsj.start # Nil => dsj.defaulted
        /\ dsj.start = Nil => dsj.conds = <<>>
    BY <2>2 DEF CopyOf, StatusEmpty
  <2> QED
    BY <2>1, <2>3, <2>4 DEF DaemonSetJobSeen, Standing
<1>3. CASE Restart
  <2>1. dsj' = dsj /\ dsjCache' = Nil /\ dsjWatch' = <<[type |-> "set", obj |-> dsj]>>
    BY <1>3 DEF Restart, Relist, Standing
  <2>2. MaxRestarts # 0
    BY <1>3 DEF Restart, StatusInv, NumbersOK
  <2>3. CopyOf(dsj)'
    BY <2>1 DEF DaemonSetJobSeen, CopyOf, SpecOf
  <2> QED
    BY <2>1, <2>2, <2>3 DEF DaemonSetJobSeen
<1> QED
  BY <1>1, <1>2, <1>3, NextDaemonSetJobStep, PublishedSeen

(* The steps as the worker sees them, as long as the DaemonSetJob stands. *)
SamePass ==
    /\ UNCHANGED <<pc, local, began>> /\ (now' = now \/ now' = now + 1)
    /\ Kept \/ Told

PassEnds == pc' = "idle" /\ began' = 0 /\ UNCHANGED now

LoopStep ==
    /\ Kept /\ UNCHANGED <<began, now>>
    /\ pc \in {"duplicates", "nodes"} /\ pc' \in {"duplicates", "nodes"}
    /\ local' = local \/ local' = WithJobLabels(local)

(* What a step makes of the pass.                                            *)
LEMMA NextPassStep ==
    ASSUME RestartsOrFaults, StatusInv, Standing, Standing', DaemonSetJobSeen,
           [Next]_vars
    PROVE  \/ SamePass \/ PassEnds \/ LoopStep
           \/ GetItem \/ SyncDeadline \/ SyncManage
<1> USE DEF OtherThanDaemonSetJob, OtherThanJobs, caches, clusterVars, dsjStore
<1>1. Surroundings => SamePass
  <2>1. /\ dsj # Nil /\ ~dsj.deleting
        /\ dsj' # Nil /\ edits' = edits /\ edits \in Nat
    BY DEF Standing, DaemonSetJobSeen, CopyOf, SpecOf, StatusInv, NumbersOK
  <2>2. ASSUME Edit PROVE FALSE
    BY <2>1, <2>2 DEF Edit
  <2>3. \A s \in Specs : ~UserCreate(s) /\ ~UserEdit(s)
    BY <2>1, <2>2 DEF UserCreate, UserEdit
  <2>4. ~UserDelete /\ ~Finalize
    BY <2>1, <2>2 DEF UserDelete, Finalize
  <2>5. \A j \in jobs : JobFinishes(j) \/ JobGone(j) => Kept /\ now' = now
    BY DEF JobFinishes, JobGone, Kept
  <2>6. \A n \in Nodes, p \in Pools \cup {Nil} : NodeChanges(n, p) => Kept /\ now' = now
    BY DEF NodeChanges, Kept
  <2>7. Tick => Kept /\ now' = now + 1
    BY DEF Tick, Kept
  <2>8. Surroundings => UNCHANGED <<pc, local, began>>
    BY DEF Surroundings, worker, pass
  <2> QED
    BY <2>3, <2>4, <2>5, <2>6, <2>7, <2>8 DEF Surroundings, Environment, SamePass
<1>2. Resync \/ onJobEvent \/ onNodeEvent \/ NodeHeartbeat \/ RetryFires => SamePass
  BY DEF Resync, onJobEvent, onNodeEvent, NodeHeartbeat, RetryFires, SamePass, Kept,
     worker, pass
<1>3. Handlers => SamePass
  BY <1>2, AddTells DEF Handlers, Told, SamePass
<1>4. SyncIgnored \/ SyncDefault \/ SyncInvalid \/ SyncStart \/ CleanupReturns
         => PassEnds
  BY DEF SyncIgnored, SyncDefault, SyncInvalid, SyncStart, CleanupReturns, Return,
     ResetWorker, PassEnds
<1>5. \A j \in todo : CleanupJob(j) \/ DeleteDuplicate(j) => SamePass
  BY DEF CleanupJob, DeleteDuplicate, SamePass, Kept
<1>6. sync => SamePass \/ PassEnds \/ SyncDeadline \/ SyncManage
  BY <1>4, <1>5 DEF sync
<1>7. ASSUME NEW n \in Nodes, manageNode(n) PROVE LoopStep
  BY <1>7 DEF manageNode, CreateNodeJob, CreateNodeJobFails, KeepNodeJob,
         KeepOutdatedFailed, DeleteOutdatedSucceeded, PassOverOutdatedActive,
         OutdatedNodeJob, AtNode,
         LoopStep, Kept
<1>8. \A n \in Nodes : DeleteLeftover(n) => SamePass
  BY DEF DeleteLeftover, SamePass, Kept
<1>9. ListNodes => LoopStep
  BY DEF ListNodes, LoopStep, Kept
<1>10. FinishManage => PassEnds
  BY DEF FinishManage, Return, ResetWorker, PassEnds
<1>11. manageDaemonSetJob => SamePass \/ PassEnds \/ LoopStep
  BY <1>5, <1>7, <1>8, <1>9, <1>10 DEF manageDaemonSetJob
<1>12. Restart => PassEnds
  BY DEF Restart, Relist, ResetWorker, PassEnds
<1>13. UNCHANGED vars => SamePass
  BY DEF vars, SamePass, Kept, worker, pass
<1> QED
  BY <1>1, <1>2, <1>3, <1>6, <1>11, <1>12, <1>13 DEF Next, Worker

(* The labels of the jobs, stored in the copy, leave it one.                 *)
LEMMA LabelledCopy ==
    ASSUME NEW o \in DaemonSetJob, CopyOf(o)
    PROVE  CopyOf(WithJobLabels(o)) /\ WithJobLabels(o).start = o.start
           /\ WithJobLabels(o).rv = o.rv
<1>1. getJobLabelsSetFromDaemonSetJob(o) = JobLabels(o.tmpl)
  BY JobLabelsSame DEF CopyOf, SpecOf
<1>2. PICK l : l = [o EXCEPT !.sel = JobLabels(o.tmpl)]
  OBVIOUS
<1>3. /\ l.uid = o.uid /\ l.tmpl = o.tmpl /\ l.pools = o.pools
      /\ l.deadline = o.deadline
      /\ l.valid = o.valid /\ l.deleting = o.deleting /\ l.sel = JobLabels(o.tmpl)
      /\ l.start = o.start /\ l.rv = o.rv /\ l.defaulted = o.defaulted
  BY <1>2 DEF DaemonSetJob
<1>4. StatusEmpty(o) => StatusEmpty(l)
  BY <1>2 DEF DaemonSetJob, StatusEmpty
<1>5. SpecOf(l)
  BY <1>3 DEF CopyOf, SpecOf
<1>6. CopyOf(l)
  BY <1>3, <1>4, <1>5 DEF CopyOf
<1> QED
  BY <1>1, <1>2, <1>3, <1>6 DEF WithJobLabels

(* A time that was past stays past; the deadline is the same in all copies.  *)
LEMMA PastStays ==
    ASSUME NEW o \in DaemonSetJob, NEW p \in DaemonSetJob, NEW t \in Nat, NEW u \in Nat,
           t <= u, o.start = p.start, o.deadline = p.deadline, pastActiveDeadline(o, t)
    PROVE  pastActiveDeadline(p, u)
<1>1. o.start \in Nat /\ o.deadline \in Nat
  BY DEF pastActiveDeadline, DaemonSetJob
<1> QED
  BY <1>1 DEF pastActiveDeadline

(* Every step keeps the pass's copy and times in order.                      *)
LEMMA NextPassSeen ==
    ASSUME RestartsOrFaults, StatusInv, StatusInv', Standing, Standing',
           DaemonSetJobSeen, PassSeen, [Next]_vars
    PROVE  PassSeen'
<1>1. /\ now \in Nat /\ began \in Nat /\ began <= now
      /\ dsj \in DaemonSetJob /\ dsj' \in DaemonSetJob
  <2>1. dsj' # Nil => dsj' \in DaemonSetJob
    BY DEF StatusInv, DaemonSetJobsOK, Sound
  <2> QED
    BY <2>1, SeenTypes DEF PassSeen, Standing
<1>2. ASSUME Kept, pc \in {"duplicates", "nodes"}, NEW o \in DaemonSetJob, local' = o,
             CopyOf(o), o.start # Nil, o.rv = local.rv
      PROVE  /\ CopyOf(local)' /\ local'.start # Nil
             /\ local'.rv = dsj'.rv => dsjWatch' = <<>>
             /\ dsjCache' # Nil /\ dsjCache'.start # Nil
  BY <1>2 DEF PassSeen, Kept, CopyOf, SpecOf
<1>3. CASE SamePass
  <2>1. began' <= now'
    BY <1>1, <1>3 DEF SamePass
  <2>2. dsj' = dsj
    BY <1>3 DEF SamePass, Kept, Told
  <2>3. pc = "cleanup" => pastActiveDeadline(dsj', now')
    BY <1>1, <1>3, <2>2, PastStays DEF SamePass, PassSeen
  <2>4. CASE pc \in {"duplicates", "nodes"} /\ Kept
    <3>1. local \in DaemonSetJob
      BY <2>4, SeenTypes
    <3>2. local' = local /\ pc' = pc
      BY <1>3 DEF SamePass
    <3> QED
      BY <1>2, <2>1, <2>4, <3>1, <3>2 DEF PassSeen
  <2>5. CASE pc \in {"duplicates", "nodes"} /\ Told
    <3>1. local' = local /\ pc' = pc /\ dsjCache' = dsj /\ dsjWatch' = <<>>
      BY <1>3, <2>5 DEF SamePass, Told
    <3>2. CopyOf(local) /\ local.start # Nil
      BY <2>5 DEF PassSeen
    <3>3. dsj.start # Nil /\ dsj # Nil
      BY <3>2 DEF CopyOf, Standing
    <3>4. CopyOf(local)'
      BY <2>2, <3>1, <3>2 DEF CopyOf, SpecOf
    <3> QED
      BY <2>1, <2>5, <3>1, <3>2, <3>3, <3>4 DEF PassSeen
  <2>6. CASE pc \notin {"duplicates", "nodes"}
    BY <1>3, <2>1, <2>3, <2>6 DEF PassSeen, SamePass
  <2> QED
    BY <1>3, <2>4, <2>5, <2>6 DEF SamePass
<1>4. CASE PassEnds
  BY <1>1, <1>4 DEF PassEnds, PassSeen
<1>5. CASE LoopStep
  <2>1. /\ local \in DaemonSetJob /\ CopyOf(local) /\ local.start # Nil
        /\ pc \in {"duplicates", "nodes"} /\ Kept
    BY <1>5, SeenTypes DEF LoopStep, PassSeen
  <2>2. /\ WithJobLabels(local) \in DaemonSetJob /\ CopyOf(WithJobLabels(local))
        /\ WithJobLabels(local).start # Nil /\ WithJobLabels(local).rv = local.rv
    <3>1. local \in Sound
      BY <2>1 DEF StatusInv, WorkerOK
    <3> QED
      BY <2>1, <3>1, LabelledCopy, LabelledSound DEF WithJobLabels, Sound
  <2>3. PICK o \in DaemonSetJob : /\ local' = o /\ CopyOf(o)
                                  /\ o.start # Nil /\ o.rv = local.rv
    BY <1>5, <2>1, <2>2 DEF LoopStep
  <2>4. began' <= now' /\ pc' \in {"duplicates", "nodes"}
    BY <1>1, <1>5 DEF LoopStep
  <2>5. /\ CopyOf(local)' /\ local'.start # Nil
        /\ local'.rv = dsj'.rv => dsjWatch' = <<>>
        /\ dsjCache' # Nil /\ dsjCache'.start # Nil
    BY <1>2, <2>1, <2>3
  <2> QED
    BY <2>4, <2>5 DEF PassSeen
<1>6. CASE GetItem
  BY <1>1, <1>6 DEF GetItem, PassSeen, clusterVars
<1>7. CASE SyncDeadline
  <2>1. /\ dsjCache # Nil /\ dsjCache.start # Nil /\ pastActiveDeadline(dsjCache, began)
        /\ pc' = "cleanup" /\ began' = began /\ now' = now
    BY <1>7 DEF SyncDeadline, SyncProceeds, OtherThanDaemonSetJob
  <2>2. dsjCache \in DaemonSetJob /\ CopyOf(dsjCache)
    BY <2>1, SeenTypes DEF DaemonSetJobSeen
  <2>3. dsjCache.start = dsj.start /\ dsjCache.deadline = dsj.deadline
    BY <2>1, <2>2 DEF CopyOf, SpecOf
  <2>4. dsj'.start = dsj.start /\ dsj'.deadline = dsj.deadline
    <3>1. CASE Kept
      BY <3>1 DEF Kept
    <3>2. CASE Published(WithDeadlineExceeded(dsjCache))
      <4>1. WithDeadlineExceeded(dsjCache).start = dsjCache.start
        BY <2>2, DeadlineSame
      <4>2. WithDeadlineExceeded(dsjCache) \in DaemonSetJob
        BY <3>2 DEF Published
      <4> QED
        BY <2>3, <3>2, <4>1, <4>2, PublishedSeen
    <3> QED
      BY <1>7, <2>1, <3>1, <3>2, SyncPublishes
         DEF SyncDefault, SyncStart, SyncProceeds, SyncDeadline
  <2>5. pastActiveDeadline(dsj', now')
    BY <1>1, <2>1, <2>2, <2>3, <2>4, PastStays
  <2> QED
    BY <1>1, <2>1, <2>5 DEF PassSeen
<1>8. CASE SyncManage
  <2>1. /\ Kept /\ local' = dsjCache /\ dsjCache # Nil /\ dsjCache.start # Nil
        /\ pc' = "duplicates" /\ began' = began /\ now' = now
    BY <1>8 DEF SyncManage, SyncProceeds, clusterVars, dsjStore, caches, Kept
  <2>2. CopyOf(dsjCache) /\ (dsjCache.rv = dsj.rv => dsjWatch = <<>>)
    BY <2>1 DEF DaemonSetJobSeen
  <2>3. CopyOf(local)'
    BY <2>1, <2>2 DEF Kept, CopyOf, SpecOf
  <2> QED
    BY <1>1, <2>1, <2>2, <2>3 DEF Kept, PassSeen
<1> QED
  BY <1>3, <1>4, <1>5, <1>6, <1>7, <1>8, NextPassStep

(* The jobs are those of one template: they are the DaemonSetJob's own or do *)
(* not carry its name.                                                       *)
LEMMA NextJobsProper ==
    ASSUME RestartsOrFaults, StatusInv, Standing, Standing', DaemonSetJobSeen, PassSeen,
           JobsSeen, JobsProper, [Next]_vars
    PROVE  JobsProper'
<1>1. dsj'.uid = dsj.uid /\ dsj'.tmpl = dsj.tmpl
  <2>1. \A o \in DaemonSetJob : Published(o) =>
           dsj'.uid = dsj.uid /\ dsj'.tmpl = dsj.tmpl
    BY PublishedSeen
  <2> QED
    BY <2>1, NextDaemonSetJobStep DEF Kept, Told, Restart, Relist
<1>2. \A j \in JobCopies : Proper(j)
  BY DEF JobsProper, JobCopies
<1>3. ASSUME NEW j, Rewritten(j) PROVE Proper(j)
  <2>1. PICK x \in jobs : j.uid = x.uid /\ j.ns = x.ns /\ j.labels = x.labels
    BY <1>3, RewrittenSame
  <2>2. Proper(x)
    BY DEF JobsProper
  <2> QED
    BY <2>1, <2>2 DEF Proper
<1>4. ASSUME NEW j, IsNew(j) PROVE Proper(j)
  <2>1. PICK n \in Nodes : j = NewJob(n)
    BY <1>4 DEF IsNew
  <2>2. local \in DaemonSetJob /\ CopyOf(local)
    BY <1>4, SeenTypes DEF IsNew, PassSeen
  <2>3. getJobLabelsSetFromDaemonSetJob(local) = JobLabels(dsj.tmpl)
    BY <2>2, JobLabelsSame DEF CopyOf, SpecOf
  <2>4. local.uid = dsj.uid
    BY <2>2 DEF CopyOf, SpecOf
  <2> QED
    BY <2>1, <2>3, <2>4 DEF NewJob, Proper
<1>5. \A j \in JobCopies' : Proper(j)
  BY <1>2, <1>3, <1>4, NextJobCopies
<1>6. \A j \in JobCopies' :
         IF j.uid = dsj'.uid
         THEN j.ns = Namespace /\ j.labels = JobLabels(dsj'.tmpl)
         ELSE ~Matches(NameLabel, j.labels)
  BY <1>1, <1>5 DEF Proper
<1> QED
  BY <1>6 DEF JobsProper, JobCopies, Proper

(* A DaemonSetJob that users have just created.                              *)
LEMMA CreatedSeen ==
    ASSUME StatusInv, NothingBefore, uids = 0, NEW s \in Specs, UserCreate(s),
           UNCHANGED <<queue, worker, restarts>>
    PROVE  DaemonSetJobSeen' /\ PassSeen' /\ JobsProper' /\ ~Managed'
<1>1. /\ dsj = Nil /\ dsjCache = Nil /\ dsjWatch = <<>> /\ pc \in {"idle", "sync"}
      /\ began <= now
      /\ UNCHANGED <<dsjCache, pc, began, now, jobs, jobCache, jobWatch>>
      /\ \A j \in JobCopies : j.uid = 0 /\ ~Matches(NameLabel, j.labels)
  BY DEF NothingBefore, JobCopies, UserCreate, worker, pass, jobStore, caches
<1>2. PICK o : o = [uid |-> uids + 1, rv |-> 0, deleting |-> FALSE,
                    defaulted |-> s.defaulted, valid |-> s.valid,
                    tmpl |-> s.tmpl, pools |-> s.pools, deadline |-> s.deadline,
                    sel |-> UserSelector,
                    start |-> Nil, completion |-> FALSE,
                    active |-> 0, succeeded |-> 0, failed |-> 0,
                    conds |-> <<>>, probe |-> Nil]
  OBVIOUS
<1>3. /\ o.uid = 1 /\ o.deleting = FALSE /\ o.sel = UserSelector /\ o.start = Nil
      /\ StatusEmpty(o) /\ o \in Sound
  <2>1. o \in Sound
    BY <1>2, CreatedSound DEF StatusInv, NumbersOK
  <2> QED
    BY <1>2, <2>1 DEF StatusEmpty
<1>4. WriteDaemonSetJob(o)
  BY <1>2 DEF UserCreate
<1>5. PICK d : d = NextVersion(o)
  OBVIOUS
<1>6. /\ d.uid = 1 /\ d.deleting = FALSE /\ d.sel = UserSelector /\ d.start = Nil
      /\ StatusEmpty(d) /\ d \in DaemonSetJob
  <2>1. o \in DaemonSetJob /\ d \in DaemonSetJob
    BY <1>3, <1>5, NextVersionSound DEF Sound
  <2> QED
    BY <1>3, <1>5, <2>1, VersionChanges DEF DaemonSetJob, StatusEmpty
<1>7. dsj' = d /\ dsjWatch' = <<[type |-> "set", obj |-> d]>>
  BY <1>1, <1>4, <1>5 DEF WriteDaemonSetJob
<1>8. CopyOf(dsj)'
  BY <1>6, <1>7 DEF CopyOf, SpecOf
<1>9. DaemonSetJobSeen'
  BY <1>1, <1>6, <1>7, <1>8 DEF DaemonSetJobSeen
<1>10. PassSeen'
  BY <1>1 DEF PassSeen
<1>11. JobsProper'
  <2>1. \A j \in JobCopies' : j.uid # dsj'.uid /\ ~Matches(NameLabel, j.labels)
    BY <1>1, <1>6, <1>7 DEF JobCopies
  <2> QED
    BY <2>1 DEF JobsProper, JobCopies, Proper
<1>12. ~Managed'
  BY <1>6, <1>7 DEF Managed
<1> QED
  BY <1>9, <1>10, <1>11, <1>12

--------------------------------------------------------------------------------
(* What wakes the worker.                                                    *)

(* The DaemonSetJob keeps its UID and what it asks for. *)
LEMMA OwnerStays ==
    ASSUME RestartsOrFaults, StatusInv, Standing, Standing', DaemonSetJobSeen, PassSeen,
           [Next]_vars
    PROVE  /\ dsj'.uid = dsj.uid /\ dsj'.pools = dsj.pools
           /\ dsj'.deadline = dsj.deadline
           /\ dsj.start # Nil => dsj'.start = dsj.start
<1>1. ASSUME NEW o \in DaemonSetJob, Published(o)
      PROVE  /\ dsj'.uid = dsj.uid /\ dsj'.pools = dsj.pools
             /\ dsj'.deadline = dsj.deadline
             /\ dsj.start # Nil => dsj'.start = dsj.start
  <2>1. /\ dsj'.uid = dsj.uid /\ dsj'.pools = dsj.pools /\ dsj'.deadline = dsj.deadline
        /\ dsj'.start = o.start
    BY <1>1, PublishedSeen
  <2>2. dsj.start # Nil => o.start = dsj.start
    BY <1>1 DEF Published
  <2> QED
    BY <2>1, <2>2
<1> QED
  BY <1>1, NextDaemonSetJobStep DEF Kept, Told, Restart, Relist

(* The event of a job of the DaemonSetJob marks the key. *)
LEMMA JobEventWakes ==
    ASSUME SelectorFits, StatusInv, Standing, DaemonSetJobSeen, JobsProper,
           dsjCache # Nil, onJobEvent, Head(jobWatch).obj.uid = dsj.uid
    PROVE  dirty' = TRUE
<1>1. jobWatch # <<>> /\ jobWatch \in Seq(JobEvent)
  BY DEF onJobEvent, StatusInv, JobsOK
<1>2. PICK j : j = Head(jobWatch).obj
  OBVIOUS
<1>3. 1 \in 1..Len(jobWatch) /\ Head(jobWatch) = jobWatch[1]
  BY <1>1
<1>4. Proper(j)
  BY <1>2, <1>3 DEF JobsProper
<1>5. j.ns = Namespace /\ j.labels = JobLabels(dsj.tmpl)
  BY <1>2, <1>4 DEF Proper
<1>6. dsj.tmpl \in Templates /\ dsjCache.sel \in {UserSelector, JobLabels(dsj.tmpl)}
  <2>1. CopyOf(dsjCache) /\ dsj \in DaemonSetJob
    BY SeenTypes DEF DaemonSetJobSeen, Standing
  <2> QED
    BY <2>1 DEF CopyOf, SpecOf, DaemonSetJob
<1>7. Matches(dsjCache.sel, j.labels) /\ DOMAIN j.labels # {}
  BY <1>5, <1>6, SelectorsMatch
<1>8. getDaemonSetJobFromJob(j)
  BY <1>5, <1>7 DEF getDaemonSetJobFromJob
<1> QED
  BY <1>2, <1>8 DEF onJobEvent, Enqueue

(* What sync returns adds to the queue. *)
LEMMA ReturnKeeps ==
    ASSUME StatusInv, NEW err, Return(err)
    PROVE  /\ dirty => dirty'
           /\ waiting => waiting'
<1>1. dirty' = dirty /\ waiting' = (waiting \/ err)
  BY DEF Return
<1> QED
  BY <1>1, Zenon

(* Only taking the key clears its mark. *)
LEMMA MarkStays ==
    ASSUME StatusInv, [Next]_vars, ~GetItem, ~Restart
    PROVE  /\ dirty => dirty'
           /\ waiting => waiting' \/ dirty'
<1>1. Surroundings \/ UNCHANGED vars => UNCHANGED <<dirty, waiting>>
  BY DEF Surroundings, vars, queue
<1>2. Handlers \/ RetryFires => (dirty => dirty') /\ (waiting => waiting' \/ dirty')
  BY DEF Handlers, RetryFires, onAddDaemonSetJob, onUpdateDaemonSetJob,
         onDeleteDaemonSetJob, Resync, onJobEvent, onNodeEvent, NodeHeartbeat,
         NodeEventWakes, Enqueue
<1>3. sync => UNCHANGED <<dirty, waiting>> \/ \E err : Return(err)
  <2>1. SyncDeadline \/ (\E j \in todo : CleanupJob(j)) \/ SyncManage
           => UNCHANGED <<dirty, waiting>>
    BY DEF SyncDeadline, CleanupJob, SyncManage, queue
  <2>2. SyncIgnored \/ SyncDefault \/ SyncInvalid \/ SyncStart \/ CleanupReturns
           => \E err : Return(err)
    BY Zenon DEF SyncIgnored, SyncDefault, SyncInvalid, SyncStart, CleanupReturns
  <2> QED
    BY <2>1, <2>2 DEF sync
<1>4. manageDaemonSetJob => UNCHANGED <<dirty, waiting>> \/ \E err : Return(err)
  <2>1. \A n \in Nodes : manageNode(n) => UNCHANGED <<dirty, waiting>>
    BY DEF manageNode, CreateNodeJob, CreateNodeJobFails, KeepNodeJob,
           KeepOutdatedFailed, DeleteOutdatedSucceeded, PassOverOutdatedActive,
           OutdatedNodeJob, AtNode, queue
  <2>2. \/ \E j \in todo : DeleteDuplicate(j)
        \/ ListNodes
        \/ \E n \in Nodes : DeleteLeftover(n)
        => UNCHANGED <<dirty, waiting>>
    BY DEF DeleteDuplicate, ListNodes, DeleteLeftover, queue
  <2>3. FinishManage => Return(failing)
    BY DEF FinishManage
  <2> QED
    BY <2>1, <2>2, <2>3 DEF manageDaemonSetJob
<1> QED
  BY <1>1, <1>2, <1>3, <1>4, ReturnKeeps DEF Next, Worker

(* An error of a pass is kept until the pass asks for a retry. *)
LEMMA FailureStays ==
    ASSUME StatusInv, [Next]_vars, ~Restart,
           failing, pc \in {"duplicates", "nodes", "cleanup"}
    PROVE  waiting' \/ (failing' /\ pc' \in {"duplicates", "nodes", "cleanup"})
<1> USE DEF queue, worker, pass
<1>1. Surroundings => UNCHANGED worker
  BY DEF Surroundings
<1>2. Handlers \/ RetryFires => UNCHANGED worker
  BY DEF Handlers, RetryFires, onAddDaemonSetJob, onUpdateDaemonSetJob,
         onDeleteDaemonSetJob, Resync, onJobEvent, onNodeEvent, NodeHeartbeat
<1>3. GetItem \/ sync
         => waiting' \/ (failing' /\ pc' \in {"duplicates", "nodes", "cleanup"})
  BY DEF GetItem, sync, SyncIgnored, SyncDefault, SyncInvalid, SyncStart, Return,
         SyncDeadline, CleanupJob, CleanupReturns, SyncManage, SyncProceeds
<1>4. manageDaemonSetJob
         => waiting' \/ (failing' /\ pc' \in {"duplicates", "nodes", "cleanup"})
  BY DEF manageDaemonSetJob, manageNode, DeleteDuplicate, DeleteLeftover, ListNodes,
         Return, FinishManage, CreateNodeJob, CreateNodeJobFails, KeepNodeJob,
         KeepOutdatedFailed, DeleteOutdatedSucceeded, PassOverOutdatedActive,
         OutdatedNodeJob, AtNode
<1>5. UNCHANGED vars => UNCHANGED worker
  BY DEF vars
<1> QED
  BY <1>1, <1>2, <1>3, <1>4, <1>5 DEF Next, Worker

(* Another pass that is sure to begin stays so until it begins. *)
LEMMA AwakeStays ==
    ASSUME RestartsOrFaults, SelectorFits, StatusInv, Standing, Standing',
           DaemonSetJobSeen, PassSeen, JobsProper, [Next]_vars, Awake, ~GetItem
    PROVE  Awake'
<1>1. CASE Restart
  BY <1>1 DEF Restart, Relist, Awake
<1> SUFFICES ASSUME ~Restart PROVE Awake'
  BY <1>1
<1>2. CASE dirty \/ waiting
  BY <1>2, MarkStays DEF Awake
<1>3. CASE failing /\ pc \in {"duplicates", "nodes", "cleanup"}
  BY <1>3, FailureStays DEF Awake
<1>4. Told => dirty' \/ (IsDaemonSetJobFinished(dsj) /\ dsjCache # Nil)
  BY DEF Told
<1>5. ASSUME NEW o \in DaemonSetJob, Published(o)
      PROVE  dsjWatch = <<>> /\ dsjCache # Nil
  BY <1>5 DEF Published, Standing
<1>6. CASE dsjCache = Nil \/ (dsjWatch # <<>> /\ ~IsDaemonSetJobFinished(dsj))
  <2>1. CASE Kept
    BY <1>6, <2>1 DEF Kept, Awake
  <2>2. CASE Told
    BY <1>4, <1>6, <2>2 DEF Awake
  <2> QED
    BY <1>5, <1>6, <2>1, <2>2, NextDaemonSetJobStep
<1>7. CASE dsjCache # Nil /\ nodeWatch # <<>>
  <2>1. CASE onNodeEvent
    BY <1>7, <2>1 DEF onNodeEvent, NodeEventWakes, Enqueue, Awake
  <2>2. nodeWatch \in Seq(NodeEvent)
    BY DEF StatusInv, NodesOK
  <2>3. CASE NodesSame
    BY <1>7, <2>3 DEF NodesSame, Awake
  <2>4. ASSUME NEW n \in Nodes, NEW p \in Pools \cup {Nil}, NodeChanges(n, p)
        PROVE  Awake'
    <3>1. nodeWatch' # <<>>
      BY <2>2, <2>4 DEF NodeChanges
    <3> QED
      BY <3>1 DEF Awake
  <2>5. CASE Relist
    BY <2>5 DEF Relist, Awake
  <2> QED
    BY <2>1, <2>3, <2>4, <2>5, NextNodeStep DEF NodeStep
<1>8. ASSUME dsjCache # Nil, NEW k \in 1..Len(jobWatch), jobWatch[k].obj.uid = dsj.uid
      PROVE  Awake'
  <2>1. dsj'.uid = dsj.uid
    BY OwnerStays
  <2>2. jobWatch \in Seq(JobEvent) /\ Len(jobWatch) \in Nat
    BY DEF StatusInv, JobsOK
  <2>3. CASE JobsSame
    BY <1>8, <2>1, <2>3 DEF JobsSame, Awake
  <2>4. ASSUME NEW e, jobWatch' = Append(jobWatch, e) PROVE Awake'
    <3>1. k \in 1..Len(jobWatch') /\ jobWatch'[k] = jobWatch[k]
      BY <1>8, <2>2, <2>4
    <3> QED
      BY <1>8, <2>1, <3>1 DEF Awake
  <2>5. CASE onJobEvent
    <3>1. jobWatch # <<>> /\ jobWatch' = Tail(jobWatch)
      BY <2>5 DEF onJobEvent
    <3>2. CASE k = 1
      <4>1. Head(jobWatch).obj.uid = dsj.uid
        BY <1>8, <2>2, <3>1, <3>2
      <4> QED
        BY <1>8, <2>5, <4>1, JobEventWakes DEF Awake
    <3>3. CASE k # 1
      <4>1. k - 1 \in 1..Len(jobWatch') /\ jobWatch'[k - 1] = jobWatch[k]
        BY <1>8, <2>2, <3>1, <3>3
      <4> QED
        BY <1>8, <2>1, <4>1 DEF Awake
    <3> QED
      BY <3>2, <3>3
  <2>6. CASE Relist
    BY <2>6 DEF Relist, Awake
  <2> QED
    BY <2>3, <2>4, <2>5, <2>6, NextJobStep
       DEF JobStep, JobSaved, JobLost, WriteJob, RemoveJob
<1> QED
  BY <1>2, <1>3, <1>6, <1>7, <1>8 DEF Awake

--------------------------------------------------------------------------------
(* The jobs are told apart by their names.                                   *)

(* Names are given once.                                                     *)
LEMMA JobCountGrows ==
    ASSUME StatusInv, [Next]_vars
    PROVE  jobCount' \in Nat /\ jobCount <= jobCount'
<1> USE DEF OtherThanDaemonSetJob, OtherThanJobs, clusterVars, jobStore
<1>1. Surroundings \/ Handlers \/ RetryFires => UNCHANGED jobCount
  BY DEF Surroundings, Environment, UserCreate, UserEdit, UserDelete, Finalize,
         JobFinishes, JobGone, NodeChanges, Tick, Handlers, RetryFires,
         onAddDaemonSetJob, onUpdateDaemonSetJob, onDeleteDaemonSetJob, Resync,
         onJobEvent, onNodeEvent, NodeHeartbeat
<1>2. GetItem \/ sync => UNCHANGED jobCount
  BY DEF GetItem, sync, SyncIgnored, SyncDefault, SyncInvalid, SyncStart, DeleteJob,
         SyncDeadline, CleanupJob, CleanupReturns, SyncManage
<1>3. manageDaemonSetJob => jobCount' = jobCount \/ jobCount' = jobCount + 1
  BY DEF manageDaemonSetJob, manageNode, DeleteDuplicate, DeleteLeftover, ListNodes,
         DeleteJob, FinishManage, CreateNodeJob, CreateNodeJobFails, KeepNodeJob,
         KeepOutdatedFailed, DeleteOutdatedSucceeded, PassOverOutdatedActive,
         OutdatedNodeJob
<1>4. Restart \/ UNCHANGED vars => UNCHANGED jobCount
  BY DEF Restart, Relist, vars
<1>5. jobCount' = jobCount \/ jobCount' = jobCount + 1
  BY <1>1, <1>2, <1>3, <1>4 DEF Next, Worker
<1> QED
  BY <1>5 DEF StatusInv, NumbersOK

(* Every step keeps the names of the jobs apart.                             *)
LEMMA NextJobsApart ==
    ASSUME StatusInv, JobsApart, JobsSeen, [Next]_vars
    PROVE  JobsApart'
<1>1. jobCount \in Nat /\ MaxJobs \in Nat /\ jobCount' \in Nat /\ jobCount <= jobCount'
  BY JobCountGrows, DaemonSetJobClusterAssumption DEF StatusInv, NumbersOK
<1>2. ASSUME NEW j \in JobCopies'
      PROVE  IsNew(j) \/ \E x \in JobCopies : j.id = x.id /\ j.uid = x.uid
  <2>1. CASE j \in JobCopies
    BY <2>1
  <2>2. CASE Rewritten(j)
    <3>1. PICK x \in jobs : j.id = x.id /\ j.uid = x.uid
      BY <2>2 DEF Rewritten
    <3> QED
      BY <3>1 DEF JobCopies
  <2> QED
    BY <1>2, <2>1, <2>2, NextJobCopies
<1>3. ASSUME NEW j, IsNew(j)
      PROVE  /\ j.id = jobCount + 1 /\ j.uid = local.uid
             /\ jobCount + 1 <= MaxJobs /\ jobCount' = jobCount + 1
  BY <1>1, <1>3 DEF IsNew, NewJob
<1>4. \A x \in JobCopies : x.id \notin (jobCount + 1)..MaxJobs
  BY DEF JobsApart
<1>5. ASSUME NEW j \in JobCopies', NEW x \in JobCopies', j.id = x.id
      PROVE  j.uid = x.uid
  <2>1. CASE IsNew(j) /\ IsNew(x)
    BY <1>3, <2>1
  <2>2. CASE ~IsNew(j) /\ ~IsNew(x)
    BY <1>2, <1>5, <2>2 DEF JobsApart
  <2>3. ASSUME NEW y \in JobCopies, NEW z, IsNew(z) PROVE y.id # z.id
    BY <1>1, <1>3, <1>4, <2>3
  <2> QED
    BY <1>2, <1>5, <2>1, <2>2, <2>3
<1>6. ASSUME NEW j \in JobCopies'
      PROVE  j.id \notin (jobCount' + 1)..MaxJobs
  <2>1. CASE IsNew(j)
    BY <1>1, <1>3, <2>1
  <2>2. ASSUME NEW x \in JobCopies, j.id = x.id
        PROVE  x.id \notin (jobCount' + 1)..MaxJobs
    BY <1>1, <1>4
  <2> QED
    BY <1>2, <2>1, <2>2
<1> QED
  BY <1>5, <1>6 DEF JobsApart

--------------------------------------------------------------------------------
(* What an event that is on its way would tell of the DaemonSetJob's jobs.   *)

Unheard == \A k \in 1..Len(jobWatch) : jobWatch[k].obj.uid # dsj.uid

(* The listed jobs are the DaemonSetJob's if there is nothing to hear of. *)
LEMMA ListedAreOwn ==
    ASSUME SelectorFits, StatusInv, Standing, JobsApart, JobsSeen, JobsProper, Unheard
    PROVE  ListedJobs = OwnJobs
<1>1. ASSUME NEW j \in jobs \cup jobCache, j.uid = dsj.uid
      PROVE  j \in jobs <=> j \in jobCache
  <2>1. \A k \in 1..Len(jobWatch) : jobWatch[k].obj.id # j.id
    BY <1>1 DEF JobsApart, JobCopies, Unheard
  <2> QED
    BY <1>1, <2>1 DEF JobsSeen, NoNews
<1>2. dsj # Nil /\ dsj.tmpl \in Templates
  BY SeenTypes DEF Standing, DaemonSetJob
<1>3. ASSUME NEW j \in jobs \cup jobCache
      PROVE  Matches(NameLabel, j.labels) <=> j.uid = dsj.uid
  <2>1. Proper(j)
    BY DEF JobsProper
  <2> QED
    BY <1>2, <2>1, SelectorsMatch DEF Proper
<1> QED
  BY <1>1, <1>2, <1>3 DEF ListedJobs, OwnJobs

(* As long as nobody has to hear of them the DaemonSetJob's jobs and the     *)
(* nodes are the same.                                                       *)
LEMMA OwnJobsStay ==
    ASSUME RestartsOrFaults, StatusInv, Standing, Standing', DaemonSetJobSeen, PassSeen,
           JobsSeen, Unheard', dsjCache' # Nil, [Next]_vars
    PROVE  OwnJobs' = OwnJobs
<1>1. dsj # Nil /\ dsj' # Nil /\ dsj'.uid = dsj.uid
  BY OwnerStays DEF Standing
<1>2. CASE UNCHANGED jobs
  BY <1>1, <1>2 DEF OwnJobs
<1>3. jobWatch \in Seq(JobEvent) /\ Len(jobWatch) \in Nat
  BY DEF StatusInv, JobsOK
<1>4. ASSUME NEW t, NEW j, jobWatch' = Append(jobWatch, [type |-> t, obj |-> j])
      PROVE  j.uid # dsj.uid
  <2>1. /\ Len(jobWatch') = Len(jobWatch) + 1
        /\ jobWatch'[Len(jobWatch) + 1] = [type |-> t, obj |-> j]
    BY <1>3, <1>4
  <2>2. jobWatch'[Len(jobWatch) + 1].obj = j /\ Len(jobWatch) + 1 \in 1..Len(jobWatch')
    BY <1>3, <2>1
  <2> QED
    BY <1>1, <2>2 DEF Unheard
<1>5. CASE JobSaved
  <2>1. PICK j \in Job : WriteJob(j) /\ (Rewritten(j) \/ IsNew(j))
    BY <1>5 DEF JobSaved
  <2>2. j.uid # dsj.uid /\ jobs' = {x \in jobs : x.id # j.id} \cup {j}
    BY <1>4, <2>1 DEF WriteJob
  <2>3. ASSUME IsNew(j) PROVE FALSE
    <3>1. pc = "nodes" /\ j.uid = local.uid
      BY <2>3 DEF IsNew, NewJob
    <3>2. local.uid = dsj.uid
      BY <3>1 DEF PassSeen, CopyOf, SpecOf
    <3> QED
      BY <2>2, <3>1, <3>2
  <2>4. PICK y \in jobs : y.id = j.id /\ y.uid = j.uid
    BY <2>1, <2>3 DEF Rewritten
  <2>5. \A x \in jobs : x.id = j.id => x = y
    BY <2>4 DEF JobsSeen
  <2> QED
    BY <1>1, <2>2, <2>4, <2>5 DEF OwnJobs
<1>6. CASE JobLost
  <2>1. PICK j \in jobs : RemoveJob(j)
    BY <1>6 DEF JobLost
  <2>2. j.uid # dsj.uid /\ jobs' = jobs \ {j}
    BY <1>4, <2>1 DEF RemoveJob
  <2> QED
    BY <1>1, <2>2 DEF OwnJobs
<1> QED
  BY <1>2, <1>5, <1>6, NextJobStep DEF JobStep, JobsSame, onJobEvent, Relist

(* Without events the nodes are those of the cache, and stay so.             *)
LEMMA NodesStay ==
    ASSUME StatusInv, NodesSeen, nodeWatch = <<>>, nodeWatch' = <<>>, [Next]_vars
    PROVE  nodes' = nodes /\ nodeCache = nodes
<1>1. /\ {nodeCache, nodes} \subseteq [Nodes -> Pools \cup {Nil}]
      /\ nodeWatch \in Seq(NodeEvent)
  BY DEF StatusInv, CachesOK, NodesOK
<1>2. \A n \in Nodes : nodeCache[n] = nodes[n]
  BY DEF NodesSeen
<1>3. nodeCache = nodes
  BY <1>1, <1>2
<1>4. \A n \in Nodes, p \in Pools \cup {Nil} : ~NodeChanges(n, p)
  BY <1>1 DEF NodeChanges
<1> QED
  BY <1>3, <1>4, NextNodeStep DEF NodeStep, NodesSame, onNodeEvent, Relist

(* A call to delete one of the DaemonSetJob's jobs that does not lead to     *)
(* another pass has found the job on its way out.                            *)
LEMMA DeletionKnown ==
    ASSUME StatusInv, Standing, JobsSeen, dsj'.uid = dsj.uid, Unheard', ~failing',
           NEW j \in OwnJobs, NEW err, DeleteJob(j, err), failing' = (failing \/ err)
    PROVE  j.deleting
<1>1. ~err
  BY Zenon
<1>2. PICK x \in jobs :
         /\ x.id = j.id
         /\ x.deleting \/ WriteJob([x EXCEPT !.deleting = TRUE])
  BY <1>1, Zenon DEF DeleteJob
<1>3. x = j /\ j \in Job /\ j.uid = dsj.uid
  BY <1>2 DEF JobsSeen, OwnJobs, StatusInv, JobsOK
<1>4. CASE WriteJob([x EXCEPT !.deleting = TRUE])
  <2>1. PICK y : y = [x EXCEPT !.deleting = TRUE]
    OBVIOUS
  <2>2. y.uid = dsj.uid
    BY <1>3, <2>1 DEF Job
  <2>3. jobWatch \in Seq(JobEvent) /\ Len(jobWatch) \in Nat
    BY DEF StatusInv, JobsOK
  <2>4. jobWatch' = Append(jobWatch, [type |-> "set", obj |-> y])
    BY <1>4, <2>1 DEF WriteJob
  <2>5. /\ Len(jobWatch') = Len(jobWatch) + 1
        /\ jobWatch'[Len(jobWatch) + 1] = [type |-> "set", obj |-> y]
    BY <2>3, <2>4
  <2>6. jobWatch'[Len(jobWatch) + 1].obj = y /\ Len(jobWatch) + 1 \in 1..Len(jobWatch')
    BY <2>3, <2>5
  <2> QED
    BY <2>2, <2>6 DEF Unheard
<1> QED
  BY <1>2, <1>3, <1>4

--------------------------------------------------------------------------------
(* The pass.                                                                 *)

(* A step after which nothing more is to be heard begins like that, unless   *)
(* it takes the key.                                                         *)
Calm ==
    /\ ~Awake
    /\ UNCHANGED <<OwnJobs, nodes>> /\ nodeCache = nodes
    /\ dsj'.uid = dsj.uid /\ dsj'.pools = dsj.pools
    /\ Unheard' /\ ~(failing' /\ pc' \in {"duplicates", "nodes", "cleanup"})
    /\ ~(waiting') /\ ~Restart

(* Every step after which nobody looks again is such a step, or takes the    *)
(* key.                                                                      *)
LEMMA CalmBefore ==
    ASSUME RestartsOrFaults, SelectorFits, StatusInv, Standing, Standing',
           DaemonSetJobSeen, PassSeen, JobsProper, JobsSeen, NodesSeen,
           [Next]_vars, ~GetItem, ~Awake'
    PROVE  Calm
<1>1. ~Awake
  BY AwakeStays
<1>2. Unheard' /\ dsjCache' # Nil /\ nodeWatch = <<>> /\ nodeWatch' = <<>>
  BY <1>1 DEF Awake, Unheard
<1>3. OwnJobs' = OwnJobs /\ nodes' = nodes /\ nodeCache = nodes
  BY <1>2, OwnJobsStay, NodesStay
<1>4. ~Restart
  BY <1>2 DEF Restart, Relist
<1>5. ~(failing' /\ pc' \in {"duplicates", "nodes", "cleanup"}) /\ ~(waiting')
  BY DEF Awake
<1> QED
  BY <1>1, <1>2, <1>3, <1>4, <1>5, OwnerStays DEF Calm

(* The DaemonSetJob is managed before, too: one that is just started is not  *)
(* finished, so that its event leads to another pass.                        *)
LEMMA ManagedBefore ==
    ASSUME RestartsOrFaults, StatusInv, StatusInv', Standing, Standing',
           DaemonSetJobSeen, PassSeen, [Next]_vars, ~Awake', Managed'
    PROVE  Managed
<1>1. /\ dsj \in DaemonSetJob /\ dsj' \in DaemonSetJob /\ dsj # Nil
      /\ now \in Nat /\ now' \in Nat
  BY SeenTypes DEF Standing, StatusInv, DaemonSetJobsOK, NumbersOK, Sound
<1>2. now <= now'
  <2>1. now' = now \/ now' = now + 1
    BY NextPassStep DEF SamePass, PassEnds, LoopStep, GetItem, SyncDeadline, SyncManage,
       OtherThanDaemonSetJob, clusterVars
  <2> QED
    BY <1>1, <2>1
<1>3. ASSUME dsj'.start = dsj.start, dsj'.deadline = dsj.deadline
      PROVE  ~pastActiveDeadline(dsj, now)
  <2>1. ~pastActiveDeadline(dsj', now')
    BY DEF Managed
  <2> QED
    BY <1>1, <1>2, <1>3, <2>1, PastStays
<1>4. CASE dsj' = dsj
  BY <1>3, <1>4 DEF Managed
<1>5. ASSUME NEW o \in DaemonSetJob, Published(o) PROVE Managed
  <2>1. /\ dsj' = NextVersion(o)
        /\ dsjWatch' = Append(dsjWatch, [type |-> "set", obj |-> NextVersion(o)])
        /\ dsjWatch = <<>>
    BY <1>5 DEF Published, WriteDaemonSetJob
  <2>2. /\ dsj'.conds = o.conds /\ dsj'.start = o.start /\ dsj'.valid = o.valid
        /\ dsj'.deadline = o.deadline
    BY <2>1, VersionChanges DEF DaemonSetJob
  <2>3. dsjWatch' # <<>>
    BY <2>1
  <2>4. IsDaemonSetJobFinished(dsj')
    BY <2>3 DEF Awake
  <2>5. dsj.start # Nil
    BY <1>5, <2>2, <2>4 DEF IsDaemonSetJobFinished, Published
  <2>6. o.start # Nil
    BY <2>2 DEF Managed
  <2>7. o.valid = dsj.valid /\ o.deadline = dsj.deadline /\ dsj.deleting = FALSE
    BY <1>5 DEF Published, SpecOf, DaemonSetJobSeen, CopyOf
  <2>8. dsj.defaulted /\ dsj.start = o.start
    BY <1>5, <2>5, <2>6 DEF Published
  <2> QED
    BY <1>1, <1>3, <2>2, <2>5, <2>7, <2>8 DEF Managed
<1> QED
  BY <1>4, <1>5, NextDaemonSetJobStep DEF Kept, Told, Restart, Relist

(* sync does not return before it has looked at the jobs. *)
LEMMA SyncManages ==
    ASSUME StatusInv, Standing, DaemonSetJobSeen, PassSeen, Managed, ~Awake,
           SyncIgnored \/ SyncDefault \/ SyncInvalid \/ SyncStart \/ CleanupReturns
    PROVE  FALSE
<1>1. /\ dsjCache # Nil /\ CopyOf(dsjCache) /\ dsj.start # Nil /\ dsj.valid
      /\ dsjCache.defaulted
      /\ dsjWatch # <<>> => IsDaemonSetJobFinished(dsj)
      /\ ~pastActiveDeadline(dsj, now)
  BY DEF Awake, Managed, DaemonSetJobSeen
<1>2. dsjCache.valid = dsj.valid /\ dsjCache.deleting = FALSE
  BY <1>1 DEF CopyOf, SpecOf
<1>3. CASE SyncIgnored
  BY <1>1, <1>2, <1>3 DEF SyncIgnored
<1>4. CASE SyncDefault
  BY <1>1, <1>4 DEF SyncDefault
<1>5. CASE SyncInvalid
  BY <1>1, <1>2, <1>5 DEF SyncInvalid
<1>6. CASE SyncStart
  <2>1. dsjCache.start = Nil
    BY <1>6 DEF SyncStart
  <2>2. dsj.conds = <<>> /\ dsjCache # dsj
    BY <1>1, <2>1 DEF DaemonSetJobSeen
  <2>3. dsjWatch # <<>>
    BY <2>2 DEF DaemonSetJobSeen
  <2> QED
    BY <1>1, <2>2, <2>3 DEF IsDaemonSetJobFinished
<1>7. CASE CleanupReturns
  BY <1>1, <1>7 DEF CleanupReturns, PassSeen
<1> QED
  BY <1>3, <1>4, <1>5, <1>6, <1>7

(* The first loop is given every job, one of each node aside. *)
LEMMA ManageBegins ==
    ASSUME SelectorFits, StatusInv, Standing, JobsApart, JobsSeen, JobsProper, ~Awake,
           UNCHANGED OwnJobs, SyncManage
    PROVE  DuplicatesRight'
<1>1. ListedJobs = OwnJobs
  BY ListedAreOwn DEF Awake, Unheard
<1>2. PICK f \in [Nodes -> ListedJobs \cup {Nil}] :
         /\ \A n \in Nodes :
               LET here == {j \in ListedJobs : j.node = n}
               IN  IF here = {} THEN f[n] = Nil ELSE f[n] \in here
         /\ byNode' = f
         /\ todo' = ListedJobs \ {f[n] : n \in Nodes}
  BY DEF SyncManage
<1>3. ASSUME NEW j \in OwnJobs PROVE j # Nil /\ j.node \in Nodes
  BY NoJobAssumption DEF OwnJobs, StatusInv, JobsOK, Job
<1>4. \A n \in Nodes : f[n] # Nil => f[n] \in OwnJobs /\ f[n].node = n
  BY <1>1, <1>2
<1>5. \A j \in OwnJobs : j \in todo' \/ j = byNode'[j.node]
  BY <1>1, <1>2, <1>3, <1>4
<1>6. todo' \subseteq OwnJobs
  BY <1>1, <1>2
<1> QED
  BY <1>2, <1>4, <1>5, <1>6 DEF DuplicatesRight, MapRight

(* Between the loops only the jobs of the map are left, and the nodes are    *)
(* listed.                                                                   *)
LEMMA NodesListed ==
    ASSUME StatusInv, Standing, PassSeen, DuplicatesRight, Calm, ListNodes
    PROVE  NodesRight'
<1>1. /\ pc = "duplicates" /\ todo = {} /\ byNode' = byNode
      /\ todoNodes' = {n \in Nodes : nodeCache[n] \in local.pools}
  BY DEF ListNodes
<1>2. local.pools = dsj.pools
  BY <1>1 DEF PassSeen, CopyOf, SpecOf
<1>3. /\ OwnJobs' = OwnJobs /\ nodes' = nodes /\ nodeCache = nodes
      /\ dsj'.pools = dsj.pools
  BY DEF Calm
<1>4. \A j \in OwnJobs : j.deleting \/ j = byNode[j.node]
  BY <1>1 DEF DuplicatesRight
<1>5. \A n \in Nodes : Matching(n)' <=> n \in todoNodes'
  BY <1>1, <1>2, <1>3 DEF Matching
<1>6. MapRight' /\ OneEach'
  BY <1>1, <1>3, <1>4 DEF DuplicatesRight, MapRight, OneEach
<1>7. todoNodes' \subseteq Nodes
  BY <1>1
<1> QED
  BY <1>1, <1>3, <1>4, <1>5, <1>6, <1>7 DEF NodesRight

(* A node is done with that has a job. *)
LEMMA NodeKept ==
    ASSUME StatusInv, NodesRight, Calm, NEW n \in todoNodes, byNode[n] # Nil,
           todoNodes' = todoNodes \ {n},
           byNode' \in {byNode, [byNode EXCEPT ![n] = Nil]}
    PROVE  NodesRight'
<1>1. /\ OwnJobs' = OwnJobs /\ nodes' = nodes /\ dsj'.pools = dsj.pools
      /\ byNode \in [Nodes -> Job \cup {Nil}] /\ todoNodes \subseteq Nodes
  BY DEF Calm, StatusInv, WorkerOK
<1>2. \A m \in Nodes : byNode'[m] = byNode[m] \/ (m = n /\ byNode'[m] = Nil)
  BY <1>1
<1>3. byNode[n] \in OwnJobs /\ byNode[n].node = n /\ Matching(n)
  BY <1>1 DEF NodesRight, MapRight
<1>4. \A m \in Nodes : Matching(m)' <=> Matching(m)
  BY <1>1 DEF Matching
<1>5. MapRight' /\ OneEach'
  BY <1>1, <1>2 DEF NodesRight, MapRight, OneEach
<1>6. \A m \in Nodes : Matching(m) => m \in todoNodes' \/ \E j \in OwnJobs : j.node = m
  BY <1>3 DEF NodesRight
<1>7. \A j \in OwnJobs : j.node \in Nodes
  BY DEF OwnJobs, StatusInv, JobsOK, Job
<1>8. ASSUME NEW j \in OwnJobs
      PROVE  j.deleting \/ Matching(j.node) \/ j = byNode'[j.node]
  BY <1>2, <1>3, <1>7 DEF NodesRight
<1>9. \A m \in todoNodes' : Matching(m) /\ m \in Nodes
  BY <1>1 DEF NodesRight
<1> QED
  BY <1>1, <1>4, <1>5, <1>6, <1>7, <1>8, <1>9 DEF NodesRight

(* What the map still holds goes. *)
LEMMA LeftoverDeleted ==
    ASSUME StatusInv, Standing, JobsSeen, NodesRight, Calm, NEW n \in Nodes,
           DeleteLeftover(n)
    PROVE  NodesRight'
<1>1. /\ OwnJobs' = OwnJobs /\ nodes' = nodes /\ dsj'.pools = dsj.pools
      /\ byNode \in [Nodes -> Job \cup {Nil}] /\ todoNodes \subseteq Nodes
  BY DEF Calm, StatusInv, WorkerOK
<1>2. /\ byNode' = [byNode EXCEPT ![n] = Nil] /\ todoNodes' = todoNodes
      /\ byNode[n] # Nil /\ pc' = "nodes"
  BY DEF DeleteLeftover, AllNodesSeen
<1>3. byNode[n] \in OwnJobs
  BY <1>2 DEF NodesRight, MapRight
<1>4. byNode[n].deleting
  <2>1. ~failing'
    BY <1>2 DEF Calm
  <2>2. PICK err \in BOOLEAN : DeleteJob(byNode[n], err) /\ failing' = (failing \/ err)
    BY DEF DeleteLeftover
  <2> QED
    BY <1>3, <2>1, <2>2, DeletionKnown DEF Calm
<1>5. \A m \in Nodes : Matching(m)' <=> Matching(m)
  BY <1>1 DEF Matching
<1>6. \A m \in Nodes : byNode'[m] = (IF m = n THEN Nil ELSE byNode[m])
  BY <1>1, <1>2
<1>7. MapRight' /\ OneEach'
  BY <1>1, <1>6 DEF NodesRight, MapRight, OneEach
<1>8. \A j \in OwnJobs : j.node \in Nodes
  BY DEF OwnJobs, StatusInv, JobsOK, Job
<1>9. ASSUME NEW j \in OwnJobs
      PROVE  j.deleting \/ Matching(j.node) \/ j = byNode'[j.node]
  <2>1. CASE j = byNode[n]
    BY <1>4, <2>1
  <2>2. CASE j # byNode[n]
    BY <1>6, <1>8, <2>2 DEF NodesRight
  <2> QED
    BY <2>1, <2>2
<1> QED
  BY <1>1, <1>2, <1>5, <1>7, <1>8, <1>9 DEF NodesRight

(* An own job is created, or the call fails: either leads to another pass.   *)
LEMMA CreationHeard ==
    ASSUME StatusInv, Standing, PassSeen, Calm, NEW n \in Nodes,
           CreateNodeJob(n) \/ CreateNodeJobFails(n)
    PROVE  FALSE
<1>1. pc = "nodes" /\ pc' = "nodes"
  BY DEF CreateNodeJob, CreateNodeJobFails, AtNode
<1>2. CASE CreateNodeJobFails(n)
  BY <1>1, <1>2 DEF CreateNodeJobFails, Calm
<1>3. CASE CreateNodeJob(n)
  <2>1. PICK j : j = NewJob(n)
    OBVIOUS
  <2>2. jobWatch' = Append(jobWatch, [type |-> "set", obj |-> j])
    BY <1>3, <2>1 DEF CreateNodeJob, WriteJob
  <2>3. j.uid = local.uid
    BY <2>1 DEF NewJob
  <2>4. local.uid = dsj.uid
    BY <1>1 DEF PassSeen, CopyOf, SpecOf
  <2>5. jobWatch \in Seq(JobEvent) /\ Len(jobWatch) \in Nat
    BY DEF StatusInv, JobsOK
  <2>6. /\ Len(jobWatch') = Len(jobWatch) + 1
        /\ jobWatch'[Len(jobWatch) + 1] = [type |-> "set", obj |-> j]
    BY <2>2, <2>5
  <2>7. jobWatch'[Len(jobWatch) + 1].obj = j /\ Len(jobWatch) + 1 \in 1..Len(jobWatch')
    BY <2>5, <2>6
  <2> QED
    BY <2>3, <2>4, <2>7 DEF Unheard, Calm
<1> QED
  BY <1>2, <1>3

(* A duplicate goes. *)
LEMMA DuplicateDeleted ==
    ASSUME StatusInv, Standing, JobsSeen, DuplicatesRight, Calm, NEW j \in todo,
           DeleteDuplicate(j)
    PROVE  DuplicatesRight'
<1>1. /\ OwnJobs' = OwnJobs /\ todo' = todo \ {j} /\ byNode' = byNode
      /\ pc' = "duplicates" /\ j \in OwnJobs
  BY DEF Calm, DeleteDuplicate, DuplicatesRight
<1>2. j.deleting
  <2>1. ~failing'
    BY <1>1 DEF Calm
  <2>2. PICK err \in BOOLEAN : DeleteJob(j, err) /\ failing' = (failing \/ err)
    BY DEF DeleteDuplicate
  <2> QED
    BY <1>1, <2>1, <2>2, DeletionKnown DEF Calm
<1> QED
  BY <1>1, <1>2 DEF DuplicatesRight, MapRight

(* manageDaemonSetJob has seen to every node and to every job. *)
LEMMA ManageEnds ==
    ASSUME StatusInv, NodesRight, Calm, FinishManage
    PROVE  Settled'
<1>1. todoNodes = {} /\ byNode = NoJobs
  BY DEF FinishManage, AllNodesSeen
<1>2. ASSUME NEW j \in OwnJobs PROVE j # byNode[j.node]
  BY <1>1, NoJobAssumption DEF NoJobs, OwnJobs, StatusInv, JobsOK, Job
<1>3. Settled
  BY <1>1, <1>2 DEF NodesRight, Settled
<1> QED
  BY <1>3 DEF Calm, Settled, OneEach, Matching

(* Every step keeps right what a pass without a successor has found.         *)
LEMMA NextPassRight ==
    ASSUME RestartsOrFaults, SelectorFits, StatusInv, StatusInv', Standing, Standing',
           DaemonSetJobSeen, PassSeen, JobsProper, JobsApart, JobsSeen, NodesSeen,
           (Managed /\ ~Awake) => PassRight, [Next]_vars, Managed', ~Awake'
    PROVE  PassRight'
<1>1. CASE GetItem
  BY <1>1 DEF GetItem, PassRight
<1> SUFFICES ASSUME ~GetItem PROVE PassRight'
  BY <1>1
<1>2. Calm /\ Managed /\ PassRight
  <2>1. Calm /\ Managed
    BY CalmBefore, ManagedBefore
  <2> QED
    BY <2>1 DEF Calm
<1>3. /\ OwnJobs' = OwnJobs /\ nodes' = nodes /\ dsj'.pools = dsj.pools
      /\ ~Awake /\ ~Restart
  BY <1>2 DEF Calm
<1>4. Settled => Settled'
  BY <1>3 DEF Settled, OneEach, Matching
<1>5. ASSUME UNCHANGED byNode
      PROVE  /\ DuplicatesRight /\ UNCHANGED todo => DuplicatesRight'
             /\ NodesRight /\ UNCHANGED todoNodes => NodesRight'
  BY <1>3, <1>5 DEF DuplicatesRight, NodesRight, MapRight, OneEach, Matching
<1>6. ASSUME UNCHANGED <<pc, byNode, todo, todoNodes>> PROVE PassRight'
  BY <1>2, <1>4, <1>5, <1>6 DEF PassRight
<1>7. CASE Surroundings \/ Handlers \/ RetryFires \/ UNCHANGED vars
  <2>1. UNCHANGED <<pc, byNode, todo, todoNodes>>
    BY <1>7 DEF Surroundings, Handlers, RetryFires, onAddDaemonSetJob,
       onUpdateDaemonSetJob, onDeleteDaemonSetJob, Resync, onJobEvent, onNodeEvent,
       NodeHeartbeat, vars, worker, pass
  <2> QED
    BY <1>6, <2>1
<1>8. CASE sync
  <2>1. ~(SyncIgnored \/ SyncDefault \/ SyncInvalid \/ SyncStart \/ CleanupReturns)
    BY <1>2, <1>3, SyncManages
  <2>2. CASE SyncManage
    <3>1. DuplicatesRight' /\ pc' = "duplicates"
      BY <1>3, <2>2, ManageBegins DEF SyncManage
    <3> QED
      BY <3>1 DEF PassRight
  <2>3. CASE SyncDeadline \/ \E j \in todo : CleanupJob(j)
    <3>1. pc' = "cleanup"
      BY <2>3 DEF SyncDeadline, CleanupJob
    <3> QED
      BY <3>1 DEF PassRight
  <2> QED
    BY <1>8, <2>1, <2>2, <2>3 DEF sync
<1>9. ASSUME NEW n \in Nodes, manageNode(n) PROVE PassRight'
  <2>1. pc = "nodes" /\ pc' = "nodes" /\ n \in todoNodes /\ todoNodes' = todoNodes \ {n}
    BY <1>9 DEF manageNode, CreateNodeJob, CreateNodeJobFails, KeepNodeJob,
       KeepOutdatedFailed, DeleteOutdatedSucceeded, PassOverOutdatedActive,
       OutdatedNodeJob, AtNode
  <2>2. ~CreateNodeJob(n) /\ ~CreateNodeJobFails(n)
    BY <1>2, CreationHeard
  <2>3. byNode[n] # Nil /\ byNode' \in {byNode, [byNode EXCEPT ![n] = Nil]}
    BY <1>9, <2>2 DEF manageNode, KeepNodeJob, KeepOutdatedFailed,
       DeleteOutdatedSucceeded, PassOverOutdatedActive, OutdatedNodeJob
  <2>4. NodesRight'
    BY <1>2, <2>1, <2>3, NodeKept DEF PassRight
  <2> QED
    BY <2>1, <2>4 DEF PassRight
<1>10. ASSUME NEW j \in todo, DeleteDuplicate(j) PROVE PassRight'
  <2>1. pc = "duplicates" /\ pc' = "duplicates"
    BY <1>10 DEF DeleteDuplicate
  <2>2. DuplicatesRight'
    BY <1>2, <1>10, <2>1, DuplicateDeleted DEF PassRight
  <2> QED
    BY <2>1, <2>2 DEF PassRight
<1>11. ASSUME NEW n \in Nodes, DeleteLeftover(n) PROVE PassRight'
  <2>1. pc = "nodes" /\ pc' = "nodes"
    BY <1>11 DEF DeleteLeftover, AllNodesSeen
  <2>2. NodesRight'
    BY <1>2, <1>11, <2>1, LeftoverDeleted DEF PassRight
  <2> QED
    BY <2>1, <2>2 DEF PassRight
<1>12. CASE ListNodes
  <2>1. pc = "duplicates" /\ pc' = "nodes"
    BY <1>12 DEF ListNodes
  <2>2. NodesRight'
    BY <1>2, <1>12, <2>1, NodesListed DEF PassRight
  <2> QED
    BY <2>1, <2>2 DEF PassRight
<1>13. CASE FinishManage
  <2>1. pc = "nodes" /\ pc' = "idle"
    BY <1>13 DEF FinishManage, AllNodesSeen, Return, ResetWorker
  <2>2. Settled'
    BY <1>2, <1>13, <2>1, ManageEnds DEF PassRight
  <2> QED
    BY <2>1, <2>2 DEF PassRight
<1>14. manageDaemonSetJob => PassRight'
  BY <1>9, <1>10, <1>11, <1>12, <1>13 DEF manageDaemonSetJob
<1> QED
  BY <1>3, <1>7, <1>8, <1>14 DEF Next, Worker

(* The invariant is inductive.                                               *)
LEMMA NextReconcileInv ==
    ASSUME MaxUID = 1, RestartsOrFaults, SelectorFits, StatusInv, StatusInv',
           ReconcileInv, [Next]_vars
    PROVE  ReconcileInv'
<1>1. JobsApart /\ JobsSeen /\ NodesSeen /\ NothingBefore
  BY DEF ReconcileInv
<1>2. JobsApart' /\ JobsSeen' /\ NodesSeen' /\ NothingBefore'
  BY <1>1, NextJobsApart, NextJobsSeen, NextNodesSeen, NextNothingBefore
<1>3. ASSUME Standing'
      PROVE  /\ DaemonSetJobSeen' /\ PassSeen' /\ JobsProper'
             /\ (Managed' /\ ~Awake') => PassRight'
  <2>1. CASE Standing
    <3>1. /\ DaemonSetJobSeen /\ PassSeen /\ JobsProper
          /\ (Managed /\ ~Awake) => PassRight
      BY <2>1 DEF ReconcileInv, Standing
    <3>2. DaemonSetJobSeen' /\ PassSeen' /\ JobsProper'
      BY <1>1, <1>3, <2>1, <3>1, NextDaemonSetJobSeen, NextPassSeen, NextJobsProper
    <3>3. (Managed' /\ ~Awake') => PassRight'
      BY <1>1, <1>3, <2>1, <3>1, NextPassRight
    <3> QED
      BY <3>2, <3>3
  <2>2. CASE /\ uids = 0 /\ edits = 0
             /\ Created
    BY <1>1, <2>2, CreatedSeen DEF Created
  <2> QED
    BY <1>3, <2>1, <2>2, NextStanding
<1> QED
  BY <1>2, <1>3 DEF ReconcileInv, Standing

(* It holds at the start.                                                    *)
LEMMA InitReconcileInv ==
    ASSUME NoNamesakes, Init
    PROVE  ReconcileInv
<1>1. /\ jobs = InitialJobs /\ jobCache = InitialJobs /\ jobWatch = <<>> /\ jobCount = 0
      /\ dsj = Nil /\ dsjWatch = <<>> /\ dsjCache = Nil
      /\ nodeWatch = <<>> /\ nodeCache = nodes /\ pc = "idle" /\ began = 0 /\ now = 0
  BY DEF Init, ClusterInit
<1>2. JobCopies = InitialJobs
  BY <1>1 DEF JobCopies
<1>3. \A j \in InitialJobs :
         /\ j.uid = 0 /\ ~Matches(NameLabel, j.labels) /\ j.id \notin 1..MaxJobs
         /\ \A x \in InitialJobs : x.id = j.id => x = j
  BY DEF NoNamesakes
<1>4. JobsApart
  BY <1>1, <1>2, <1>3 DEF JobsApart
<1>5. JobsSeen
  BY <1>1, <1>3 DEF JobsSeen
<1>6. NodesSeen
  BY <1>1 DEF NodesSeen
<1>7. NothingBefore
  BY <1>1, <1>3 DEF NothingBefore
<1> QED
  BY <1>1, <1>4, <1>5, <1>6, <1>7 DEF ReconcileInv

(* The invariant of what is told and known, of every reachable state. *)
LEMMA SpecReconcileInv ==
    ASSUME MaxUID = 1, NoNamesakes, SelectorFits, RestartsOrFaults
    PROVE  Spec => []ReconcileInv
<1>1. Init => ReconcileInv
  BY InitReconcileInv
<1>2. ReconcileInv /\ StatusInv /\ StatusInv' /\ [Next]_vars => ReconcileInv'
  BY NextReconcileInv
<1> QED
  BY <1>1, <1>2, SpecStatusInv, PTL DEF Spec

--------------------------------------------------------------------------------
(* The theorems.                                                             *)

(* Every variable keeps its type in every execution: the loops of a pass     *)
(* have a DaemonSetJob to work on and jobs and nodes to work through, and    *)
(* the maps of manageDaemonSetJob hold jobs only.                            *)
THEOREM DaemonSetJobTypeCorrect == Spec => []TypeOK
<1>1. ASSUME StatusInv PROVE TypeOK
  <2> USE DEF StatusInv
  <2>1. Sound \subseteq DaemonSetJob
    BY DEF Sound
  <2>2. dsjWatch \in Seq([type : {"set", "del"}, obj : DaemonSetJob])
    <3>1. \A e \in DaemonSetJobEvent : e \in [type : {"set", "del"}, obj : DaemonSetJob]
      BY <2>1 DEF DaemonSetJobEvent
    <3>2. dsjWatch \in Seq(DaemonSetJobEvent)
      BY <1>1 DEF DaemonSetJobsOK
    <3> QED
      BY <3>1, <3>2, EventsAlso
  <2>3. ClusterTypeOK
    BY <1>1, <2>1, <2>2
       DEF DaemonSetJobsOK, JobsOK, NodesOK, CachesOK, NumbersOK, ClusterTypeOK,
           JobEvent, NodeEvent
  <2> QED
    BY <1>1, <2>1, <2>3 DEF WorkerOK, NumbersOK, TypeOK
<1> QED
  BY <1>1, SpecStatusInv, PTL

(* The published status never contradicts itself, whatever order passes,     *)
(* conflicts, deadlines and restarts come in and however many nodes there    *)
(* are, as long as the model keeps as many conditions as it takes to see     *)
(* the deadline's (updateDaemonSetJobStatusConditions, SyncDeadline).        *)
THEOREM StatusNeverContradicts ==
    ASSUME MaxConds >= 3
    PROVE  Spec => []StatusConsistent
<1>1. ASSUME StatusInv, dsj # Nil
      PROVE  /\ IsTrue(dsj, "Complete") => dsj.completion
             /\ dsj.completion => IsTrue(dsj, "Complete") \/ IsTrue(dsj, "Failed")
             /\ IsTrue(dsj, "Complete") => dsj.active = 0
             /\ dsj.failed > 0 => IsTrue(dsj, "Failed")
             /\ dsj.active + dsj.succeeded + dsj.failed <= Cardinality(Nodes)
  <2>1. StatusOK(dsj)
    BY <1>1 DEF StatusInv, DaemonSetJobsOK, Sound
  <2>2. \A t : IsTrue(dsj, t) <=> True(dsj.conds, t)
    BY DEF IsTrue, True
  <2> QED
    BY <2>1, <2>2 DEF StatusOK
<1>2. StatusInv => StatusConsistent
  BY <1>1 DEF StatusConsistent
<1> QED
  BY <1>2, SpecStatusInv, PTL

(* However far behind its lister is, and whatever comes between its call to  *)
(* the API server and its deletion by name, the collector deletes the jobs   *)
(* of no owner that existed when it made the call (OwnerNotFound,            *)
(* DeleteCollection).  OthersJobs says no more than that the jobs there are  *)
(* at the start are others'.                                                 *)
THEOREM CollectorSparesOwned ==
    ASSUME OthersJobs
    PROVE  SystemSpec => CollectsMissedOnly
<1> DEFINE Spared == \A j \in CollectedNow :
                        dsj # Nil /\ j.uid = dsj.uid => dsj.uid > missing
<1>1. ASSUME CollectorInv, [SystemNext]_systemVars, NEW j \in CollectedNow,
             dsj # Nil, j.uid = dsj.uid
      PROVE  dsj.uid > missing
  <2>1. gcpc = "delete" /\ gcpc' # "delete" /\ j \in MarkedNow
    BY <1>1 DEF CollectedNow
  <2>2. /\ jobs \subseteq Job /\ j \in jobs /\ ~j.deleting
        /\ \E x \in jobs' : x.id = j.id /\ x.deleting
    BY <1>1, <2>1 DEF MarkedNow, CollectorInv, StatusInv, JobsOK
  <2>3. \A x \in jobs : x.id = j.id => x = j
    BY <1>1, <2>2 DEF CollectorInv, JobsNamed
  <2>4. GCDeletes
    <3>1. ~(UNCHANGED jobs)
      BY <2>2, <2>3
    <3>2. ~(UNCHANGED gcpc)
      BY <2>1
    <3>3. ~(Restart /\ GC!StartAgain /\ UNCHANGED missing)
      BY <3>1 DEF Restart, Relist
    <3>4. GC!Collect
      BY <1>1, <3>2, <3>3 DEF SystemNext, systemVars, collector, CollectDaemonSetJobJobs
    <3> QED
      BY <3>1, <3>4, CollectSteps
  <2>5. PICK S \in SUBSET GC!Named(Head(items)) : GC!MarkDeleted(S)
    BY <2>4 DEF GCDeletes
  <2>6. jobs' = {Marked(S, x) : x \in jobs}
    <3>1. S \in SUBSET jobs
      BY <2>5 DEF GC!Named
    <3> QED
      BY <1>1, <2>5, <3>1, MarkDeletedJobs DEF CollectorInv, StatusInv
  <2>7. PICK x \in jobs : Marked(S, x).id = j.id /\ Marked(S, x).deleting
    BY <2>2, <2>6
  <2>8. x = j
    BY <2>2, <2>3, <2>7, MarkedSame
  <2>9. j \in S
    BY <2>2, <2>7, <2>8, MarkedSame
  <2>10. OwnerOf(j) = Head(items)
    BY <2>9 DEF GC!Named
  <2>11. dsj.uid # 0
    BY <1>1 DEF CollectorInv, StatusInv, DaemonSetJobsOK, Sound, DaemonSetJob
  <2>12. Head(items) = Key
    BY <1>1, <2>2, <2>10, <2>11 DEF CollectorInv, JobsNamed, Labelled
  <2> QED
    BY <1>1, <2>1, <2>12 DEF CollectorInv, MissingKnown
<1>2. CollectorInv /\ [SystemNext]_systemVars => [Spared]_systemVars
  BY <1>1
<1> QED
  BY <1>2, SystemCollectorInv, OthersJobs, PTL DEF SystemSpec, CollectsMissedOnly

(* When the controller falls silent jobs and nodes agree, for any nodes,     *)
(* pools, templates, faults and interleavings: each node the selector        *)
(* matches has a job and, jobs on their way out apart, no node has two and   *)
(* no other node has one (manageDaemonSetJob).  MaxUID = 1: a DaemonSetJob   *)
(* created under the name of one that is gone takes the jobs of its          *)
(* predecessor for its own, by their labels.  RestartsOrFaults: after a      *)
(* restart onAddDaemonSetJob deletes a DaemonSetJob with a status, and if    *)
(* the call fails nothing wakes the worker before a node reports.            *)
THEOREM SilentMeansReconciled ==
    ASSUME MaxUID = 1, NoNamesakes, SelectorFits, RestartsOrFaults
    PROVE  Spec => []Reconciled
<1>1. ASSUME StatusInv, ReconcileInv PROVE Reconciled
  <2> SUFFICES ASSUME Quiescent, Managed, edits = 0
               PROVE  /\ \A n \in Nodes : nodes[n] \in dsj.pools
                                             => \E j \in OwnJobs : j.node = n
                      /\ \A j \in OwnJobs : j.deleting \/ nodes[j.node] \in dsj.pools
                      /\ \A j, k \in OwnJobs :
                            (j.node = k.node /\ ~j.deleting /\ ~k.deleting) => j = k
    BY DEF Reconciled
  <2>1. dsj # Nil /\ pc = "idle"
    BY DEF Managed, Quiescent
  <2>2. DaemonSetJobSeen /\ ((Managed /\ ~Awake) => PassRight)
    BY <1>1, <2>1 DEF ReconcileInv
  <2>3. dsjCache = dsj
    BY <2>2 DEF DaemonSetJobSeen, Quiescent
  <2>4. ~Awake
    BY <2>1, <2>3 DEF Awake, Quiescent
  <2>5. Settled
    BY <2>1, <2>2, <2>4 DEF PassRight
  <2> QED
    BY <2>5 DEF Settled, OneEach, Matching
<1> QED
  BY <1>1, SpecStatusInv, SpecReconcileInv, PTL

=================================================================================

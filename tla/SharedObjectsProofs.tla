--------------------------- MODULE SharedObjectsProofs ---------------------------
(***************************************************************************)
(* Proofs about SharedObjects: nothing sync writes reaches the lister's    *)
(* objects, and the template that is stored stays the user's.  The first   *)
(* section proves of each operation on memory what it leaves alone.        *)
(***************************************************************************)
EXTENDS SharedObjects, FiniteSetTheorems, TLAPS

--------------------------------------------------------------------------------
(* Memory.                                                                   *)

Kinds == {Workflow, DaemonSetJob}

Heap(h) == DOMAIN h \subseteq Cell /\ IsFiniteSet(DOMAIN h)

(* An object of kind k whose cells are in h, each named after its field and  *)
(* holding a value that fits it.                                             *)
WellFormed(h, k, o) ==
    /\ o \in [Fields(k) -> Cell \cup {Nil}]
    /\ \A f \in Fields(k) :
          o[f] # Nil => o[f] \in DOMAIN h /\ o[f][1] = f /\ h[o[f]] \in Value(f)

(* The cells of C are in h2 what they are in h. *)
SameIn(C, h, h2) == \A c \in C : c \in DOMAIN h2 /\ h2[c] = h[c]

(* d and e are nil in the same fields. *)
SameShape(k, d, e) == \A f \in Fields(k) : d[f] = Nil <=> e[f] = Nil

LEMMA FieldFacts ==
    ASSUME NEW k \in Kinds
    PROVE  /\ Fields(k) \subseteq WorkflowFields
           /\ IsFiniteSet(Fields(k))
           /\ {"template", "selector", "startTime", "conditions"} \subseteq Fields(k)
           /\ Workflow # DaemonSetJob
           /\ k = Workflow => "statuses" \in Fields(k)
<1>1. \A a, b, c, d, e : IsFiniteSet({a, b, c, d, e}) /\ IsFiniteSet({a, b, c, d})
  <2> TAKE a, b, c, d, e
  <2>1. IsFiniteSet({a})
    BY FS_Singleton
  <2>2. IsFiniteSet({a} \cup {b})
    BY <2>1, FS_AddElement
  <2>3. IsFiniteSet({a} \cup {b} \cup {c})
    BY <2>2, FS_AddElement
  <2>4. IsFiniteSet({a} \cup {b} \cup {c} \cup {d})
    BY <2>3, FS_AddElement
  <2>5. IsFiniteSet({a} \cup {b} \cup {c} \cup {d} \cup {e})
    BY <2>4, FS_AddElement
  <2>6. /\ {a} \cup {b} \cup {c} \cup {d} = {a, b, c, d}
        /\ {a} \cup {b} \cup {c} \cup {d} \cup {e} = {a, b, c, d, e}
    OBVIOUS
  <2> QED
    BY <2>4, <2>5, <2>6
<1>2. IsFiniteSet(WorkflowFields) /\ IsFiniteSet(DaemonSetJobFields)
  BY <1>1 DEF WorkflowFields, DaemonSetJobFields
<1> QED
  BY <1>2 DEF Kinds, Fields, WorkflowFields, DaemonSetJobFields, Workflow, DaemonSetJob

(* Memory does not run out: there is an unused cell for every field.         *)
LEMMA FreeCellIsFree ==
    ASSUME NEW h, Heap(h), NEW f \in WorkflowFields
    PROVE  /\ FreeCell(h, f) \in Cell \ DOMAIN h
           /\ FreeCell(h, f)[1] = f
           /\ FreeCell(h, f) # Nil
<1> DEFINE n == Cardinality(DOMAIN h)
           name == [i \in 0..n |-> <<f, i>>]
<1>1. n \in Nat
  BY FS_CardinalityType DEF Heap
<1>2. \E i \in 0..n : <<f, i>> \notin DOMAIN h
  <2> SUFFICES ASSUME \A i \in 0..n : <<f, i>> \in DOMAIN h
               PROVE  FALSE
    OBVIOUS
  <2>1. name \in Injection(0..n, DOMAIN h)
    <3>1. name \in [0..n -> DOMAIN h]
      OBVIOUS
    <3>2. \A i, j \in 0..n : name[i] = name[j] => i = j
      OBVIOUS
    <3> QED
      BY <3>1, <3>2 DEF Injection, IsInjective
  <2>2. Cardinality(0..n) <= n
    BY <2>1, FS_Injection DEF Heap
  <2>3. Cardinality(0..n) = n + 1
    BY <1>1, FS_Interval
  <2> QED
    BY <1>1, <2>2, <2>3
<1>3. \E i \in 0..n : FreeCell(h, f) = <<f, i>> /\ <<f, i>> \notin DOMAIN h
  BY <1>2 DEF FreeCell
<1>4. PICK i \in 0..n : FreeCell(h, f) = <<f, i>> /\ <<f, i>> \notin DOMAIN h
  BY <1>3
<1>5. <<f, i>> \in Cell
  BY <1>1 DEF Cell
<1> QED
  BY <1>4, <1>5, NilAssumption

LEMMA CellsOf ==
    ASSUME NEW k \in Kinds, NEW o \in [Fields(k) -> Cell \cup {Nil}]
    PROVE  /\ o # Nil
           /\ Cells(o) = {o[f] : f \in Fields(k)} \ {Nil}
           /\ Cells(o) \subseteq Cell
           /\ IsFiniteSet(Cells(o))
<1>1. o # Nil
  BY NilAssumption DEF Kinds
<1>2. Cells(o) = {o[f] : f \in Fields(k)} \ {Nil}
  BY <1>1 DEF Cells
<1>3. IsFiniteSet({o[f] : f \in Fields(k)})
  <2>1. o \in Surjection(Fields(k), {o[f] : f \in Fields(k)})
    BY DEF Surjection
  <2> QED
    BY <2>1, FieldFacts, FS_Surjection
<1>4. IsFiniteSet(Cells(o))
  BY <1>2, <1>3, FS_Subset
<1> QED
  BY <1>1, <1>2, <1>4

LEMMA ContentsOf ==
    ASSUME NEW h, NEW k \in Kinds, NEW o, WellFormed(h, k, o)
    PROVE  /\ ContentsOK(k, Contents(h, o))
           /\ \A f \in Fields(k) : Contents(h, o)[f] = IF o[f] = Nil THEN Nil ELSE h[o[f]]
           /\ \A f \in Fields(k) : o[f] = Nil <=> Contents(h, o)[f] = Nil
<1>1. Contents(h, o) = [f \in Fields(k) |-> IF o[f] = Nil THEN Nil ELSE h[o[f]]]
  BY DEF Contents, WellFormed
<1>2. \A f \in Fields(k) : Contents(h, o)[f] \in Value(f) \cup {Nil}
  BY <1>1 DEF WellFormed
<1>3. \A f \in Fields(k) : Nil \notin Value(f)
  BY NilAssumption DEF Value
<1>4. \A f \in Fields(k) : o[f] = Nil <=> Contents(h, o)[f] = Nil
  BY <1>1, <1>3 DEF WellFormed
<1>5. Contents(h, o) = [f \in Fields(k) |-> Contents(h, o)[f]]
  BY <1>1
<1> QED
  BY <1>1, <1>2, <1>4, <1>5 DEF ContentsOK

(* An object whose cells keep what they hold keeps its contents.             *)
LEMMA Unaffected ==
    ASSUME NEW h, NEW h2, NEW k \in Kinds, NEW o, WellFormed(h, k, o),
           SameIn(Cells(o), h, h2)
    PROVE  WellFormed(h2, k, o) /\ Contents(h2, o) = Contents(h, o)
<1>1. o \in [Fields(k) -> Cell \cup {Nil}]
  BY DEF WellFormed
<1>2. \A f \in Fields(k) : o[f] # Nil => o[f] \in DOMAIN h2 /\ h2[o[f]] = h[o[f]]
  BY <1>1, CellsOf DEF SameIn
<1>3. WellFormed(h2, k, o)
  BY <1>2 DEF WellFormed
<1>4. Contents(h2, o) = Contents(h, o)
  BY <1>1, <1>2 DEF Contents
<1> QED
  BY <1>3, <1>4

(* Writing all the cells of an object whose cells are named after its fields. *)
LEMMA StoreWrites ==
    ASSUME NEW h, Heap(h), NEW k \in Kinds,
           NEW o \in [Fields(k) -> Cell \cup {Nil}],
           \A f \in Fields(k) : o[f] # Nil => o[f][1] = f,
           NEW d, ContentsOK(k, d),
           \A f \in Fields(k) : o[f] = Nil <=> d[f] = Nil
    PROVE  /\ Heap(Store(h, o, d))
           /\ WellFormed(Store(h, o, d), k, o)
           /\ Contents(Store(h, o, d), o) = d
           /\ SameIn(DOMAIN h \ Cells(o), h, Store(h, o, d))
<1> DEFINE h2 == Store(h, o, d)
<1>1. Cells(o) = {o[f] : f \in Fields(k)} \ {Nil} /\ Cells(o) \subseteq Cell
      /\ IsFiniteSet(Cells(o))
  BY CellsOf
<1>2. DOMAIN h2 = Cells(o) \cup DOMAIN h
  BY DEF Store
<1>3. Heap(h2)
  <2>1. IsFiniteSet(Cells(o) \cup DOMAIN h)
    BY <1>1, FS_Union DEF Heap
  <2> QED
    BY <1>1, <1>2, <2>1 DEF Heap
<1>4. \A f \in Fields(k) : o[f] # Nil => o[f] \in DOMAIN h2 /\ h2[o[f]] = d[f]
  BY <1>1 DEF Store, RefersTo
<1>5. WellFormed(h2, k, o)
  BY <1>4 DEF WellFormed, ContentsOK
<1>6. Contents(h2, o) = d
  <2>1. Contents(h2, o) = [f \in Fields(k) |-> IF o[f] = Nil THEN Nil ELSE h2[o[f]]]
    BY DEF Contents
  <2>2. d = [f \in Fields(k) |-> d[f]]
    BY DEF ContentsOK
  <2>3. \A f \in Fields(k) : (IF o[f] = Nil THEN Nil ELSE h2[o[f]]) = d[f]
    BY <1>4
  <2> HIDE DEF h2
  <2> QED
    BY <2>1, <2>2, <2>3
<1>7. ASSUME NEW c \in DOMAIN h \ Cells(o)
      PROVE  c \in DOMAIN h2 /\ h2[c] = h[c]
  <2>1. c # Nil
    BY NilAssumption DEF Heap
  <2>2. ~RefersTo(o, c)
    BY <1>1, <2>1 DEF RefersTo
  <2> QED
    BY <1>2, <2>2 DEF Store
<1> QED
  BY <1>3, <1>5, <1>6, <1>7 DEF SameIn

(* A new object is made of cells nothing else refers to.                     *)
LEMMA NewObjectIsNew ==
    ASSUME NEW h, Heap(h), NEW k \in Kinds, NEW d, ContentsOK(k, d)
    PROVE  /\ NewObject(h, d) \in [Fields(k) -> Cell \cup {Nil}]
           /\ \A f \in Fields(k) : NewObject(h, d)[f] # Nil => NewObject(h, d)[f][1] = f
           /\ \A f \in Fields(k) : NewObject(h, d)[f] = Nil <=> d[f] = Nil
           /\ Cells(NewObject(h, d)) \cap DOMAIN h = {}
<1> DEFINE o == NewObject(h, d)
<1>1. DOMAIN d = Fields(k)
  BY DEF ContentsOK
<1>2. o = [f \in Fields(k) |-> IF d[f] = Nil THEN Nil ELSE FreeCell(h, f)]
  BY <1>1 DEF NewObject
<1>3. \A f \in Fields(k) : /\ FreeCell(h, f) \in Cell \ DOMAIN h
                           /\ FreeCell(h, f)[1] = f
                           /\ FreeCell(h, f) # Nil
  BY FreeCellIsFree, FieldFacts
<1>4. o \in [Fields(k) -> Cell \cup {Nil}]
  BY <1>2, <1>3
<1>5. \A f \in Fields(k) : /\ o[f] # Nil => o[f][1] = f /\ o[f] \notin DOMAIN h
                           /\ o[f] = Nil <=> d[f] = Nil
  BY <1>2, <1>3
<1>6. Cells(o) \cap DOMAIN h = {}
  <2> HIDE DEF o
  <2> QED
    BY <1>4, <1>5, CellsOf
<1> QED
  BY <1>4, <1>5, <1>6

(* So to give it contents changes no object there is.                        *)
LEMMA NewObjectStored ==
    ASSUME NEW h, Heap(h), NEW k \in Kinds, NEW d, ContentsOK(k, d),
           NEW e, ContentsOK(k, e), SameShape(k, d, e)
    PROVE  LET o == NewObject(h, d)
               h2 == Store(h, o, e)
           IN  /\ Heap(h2)
               /\ WellFormed(h2, k, o) /\ Contents(h2, o) = e
               /\ SameIn(DOMAIN h, h, h2)
               /\ Cells(o) \cap DOMAIN h = {}
<1> DEFINE o == NewObject(h, d)
<1>1. /\ o \in [Fields(k) -> Cell \cup {Nil}]
      /\ \A f \in Fields(k) : o[f] # Nil => o[f][1] = f
      /\ \A f \in Fields(k) : o[f] = Nil <=> e[f] = Nil
      /\ Cells(o) \cap DOMAIN h = {}
  BY NewObjectIsNew DEF SameShape
<1>2. DOMAIN h \ Cells(o) = DOMAIN h
  BY <1>1
<1> HIDE DEF o
<1>3. /\ Heap(Store(h, o, e))
      /\ WellFormed(Store(h, o, e), k, o)
      /\ Contents(Store(h, o, e), o) = e
      /\ SameIn(DOMAIN h, h, Store(h, o, e))
  BY <1>1, <1>2, StoreWrites
<1> QED
  BY <1>1, <1>3 DEF o

(* Collecting garbage changes no object that is kept.                        *)
LEMMA CollectKeeps ==
    ASSUME NEW h, Heap(h), NEW k \in Kinds, NEW O,
           IsFiniteSet(O), \A o \in O : o = Nil \/ WellFormed(h, k, o)
    PROVE  /\ Heap(Collect(h, O))
           /\ \A o \in O : o # Nil =>
                 /\ WellFormed(Collect(h, O), k, o)
                 /\ Contents(Collect(h, O), o) = Contents(h, o)
<1> DEFINE h2 == Collect(h, O)
           C == UNION {Cells(o) : o \in O}
<1>1. ASSUME NEW o \in O
      PROVE  Cells(o) \subseteq DOMAIN h
  <2>1. CASE o = Nil
    BY <2>1 DEF Cells
  <2>2. CASE WellFormed(h, k, o)
    BY <2>2, CellsOf DEF WellFormed
  <2> QED
    BY <2>1, <2>2
<1>2. C \subseteq DOMAIN h
  BY <1>1
<1>3. h2 = [c \in C |-> h[c]]
  BY DEF Collect
<1>4. Heap(h2)
  BY <1>2, <1>3, FS_Subset DEF Heap
<1>5. ASSUME NEW o \in O, o # Nil
      PROVE  WellFormed(h2, k, o) /\ Contents(h2, o) = Contents(h, o)
  <2>1. SameIn(Cells(o), h, h2)
    BY <1>3 DEF SameIn
  <2> HIDE DEF h2
  <2> QED
    BY <1>5, <2>1, Unaffected
<1> QED
  BY <1>4, <1>5

(* A write through a field reaches the objects that share the cell only.     *)
LEMMA WriteThroughOne ==
    ASSUME NEW h, Heap(h), NEW k \in Kinds, NEW o, WellFormed(h, k, o),
           NEW f \in Fields(k) \ {"template"}, NEW v \in BOOLEAN
    PROVE  LET h2 == WriteThrough(h, o, f, v)
           IN  /\ Heap(h2)
               /\ WellFormed(h2, k, o)
               /\ Contents(h2, o).template = Contents(h, o).template
               /\ SameIn(DOMAIN h \ Cells(o), h, h2)
<1> DEFINE h2 == WriteThrough(h, o, f, v)
<1>1. /\ o \in [Fields(k) -> Cell \cup {Nil}]
      /\ \A g \in Fields(k) :
            o[g] # Nil => o[g] \in DOMAIN h /\ o[g][1] = g /\ h[o[g]] \in Value(g)
  BY DEF WellFormed
<1>2. DOMAIN h2 = DOMAIN h /\ \A c \in DOMAIN h : h2[c] = IF c = o[f] THEN v ELSE h[c]
  BY DEF WriteThrough
<1> HIDE DEF h2
<1>3. Heap(h2)
  BY <1>2 DEF Heap
<1>4. \A g \in Fields(k) \ {f} : o[g] # Nil => h2[o[g]] = h[o[g]]
  <2>1. ASSUME NEW g \in Fields(k) \ {f}, o[g] # Nil
        PROVE  o[g] # o[f]
    <3>1. o[g][1] = g
      BY <1>1, <2>1
    <3>2. o[f] # Nil => o[f][1] = f
      BY <1>1
    <3> QED
      BY <2>1, <3>1, <3>2
  <2> QED
    BY <1>1, <1>2, <2>1
<1>5. /\ Contents(h, o) = [g \in Fields(k) |-> IF o[g] = Nil THEN Nil ELSE h[o[g]]]
      /\ Contents(h2, o) = [g \in Fields(k) |-> IF o[g] = Nil THEN Nil ELSE h2[o[g]]]
  BY <1>1 DEF Contents
<1>6. \A g \in Fields(k) \ {f} : Contents(h2, o)[g] = Contents(h, o)[g]
  BY <1>4, <1>5
<1>7. o[f] # Nil => h2[o[f]] \in Value(f)
  BY <1>1, <1>2 DEF Value
<1>8. WellFormed(h2, k, o)
  BY <1>1, <1>2, <1>4, <1>7 DEF WellFormed
<1>9. Contents(h2, o).template = Contents(h, o).template
  BY <1>6, FieldFacts
<1>10. SameIn(DOMAIN h \ Cells(o), h, h2)
  <2>1. ASSUME NEW c \in DOMAIN h \ Cells(o)
        PROVE  c # o[f]
    <3>1. c # Nil
      BY NilAssumption DEF Heap
    <3> QED
      BY <1>1, <3>1, CellsOf
  <2> QED
    BY <1>2, <2>1 DEF SameIn
<1> QED
  BY <1>3, <1>8, <1>9, <1>10 DEF h2

(* A field that gets a new cell: the cells of the object are the old ones    *)
(* and one that nothing else refers to.                                      *)
LEMMA AssignedOne ==
    ASSUME NEW h, Heap(h), NEW k \in Kinds, NEW o, WellFormed(h, k, o),
           NEW f \in Fields(k) \ {"template"}, NEW v \in BOOLEAN
    PROVE  LET m == Assigned(h, o, f, v)
           IN  /\ Heap(m.heap)
               /\ WellFormed(m.heap, k, m.object)
               /\ Contents(m.heap, m.object).template = Contents(h, o).template
               /\ Cells(m.object) \cap DOMAIN h \subseteq Cells(o)
               /\ SameIn(DOMAIN h \ Cells(o), h, m.heap)
<1> DEFINE new == [o EXCEPT ![f] = FreeCell(h, f)]
           d == [Contents(h, o) EXCEPT ![f] = v]
           h2 == Store(h, new, d)
<1>1. /\ o \in [Fields(k) -> Cell \cup {Nil}]
      /\ \A g \in Fields(k) :
            o[g] # Nil => o[g] \in DOMAIN h /\ o[g][1] = g /\ h[o[g]] \in Value(g)
  BY DEF WellFormed
<1>2. /\ FreeCell(h, f) \in Cell \ DOMAIN h
      /\ FreeCell(h, f)[1] = f
      /\ FreeCell(h, f) # Nil
  BY FreeCellIsFree, FieldFacts
<1>3. /\ new \in [Fields(k) -> Cell \cup {Nil}]
      /\ \A g \in Fields(k) : new[g] # Nil => new[g][1] = g
      /\ \A g \in Fields(k) : new[g] = IF g = f THEN FreeCell(h, f) ELSE o[g]
  BY <1>1, <1>2
<1>4. Contents(h, o) = [g \in Fields(k) |-> IF o[g] = Nil THEN Nil ELSE h[o[g]]]
  BY <1>1 DEF Contents
<1>5. /\ d = [g \in Fields(k) |-> d[g]]
      /\ \A g \in Fields(k) : d[g] = IF g = f THEN v ELSE Contents(h, o)[g]
  BY <1>4
<1>6. ContentsOK(k, Contents(h, o)) /\ \A g \in Fields(k) : o[g] = Nil <=> Contents(h, o)[g] = Nil
  BY ContentsOf
<1>7. ContentsOK(k, d) /\ d.template = Contents(h, o).template
  <2> HIDE DEF d
  <2>1. \A g \in Fields(k) : d[g] \in Value(g) \cup {Nil}
    BY <1>5, <1>6 DEF ContentsOK, Value
  <2> QED
    BY <1>5, <2>1, FieldFacts DEF ContentsOK
<1>8. \A g \in Fields(k) : new[g] = Nil <=> d[g] = Nil
  BY <1>2, <1>3, <1>5, <1>6, NilAssumption
<1>9. /\ Heap(h2)
      /\ WellFormed(h2, k, new) /\ Contents(h2, new) = d
      /\ SameIn(DOMAIN h \ Cells(new), h, h2)
  <2> HIDE DEF new, d
  <2> QED
    BY <1>3, <1>7, <1>8, StoreWrites
<1>10. Cells(new) \subseteq Cells(o) \cup {FreeCell(h, f)}
  <2> HIDE DEF new
  <2> QED
    BY <1>1, <1>3, CellsOf
<1>11. /\ Cells(new) \cap DOMAIN h \subseteq Cells(o)
       /\ SameIn(DOMAIN h \ Cells(o), h, h2)
  <2> HIDE DEF new, d
  <2> QED
    BY <1>2, <1>9, <1>10 DEF SameIn
<1> QED
  BY <1>7, <1>9, <1>11 DEF Assigned

--------------------------------------------------------------------------------
(* Defaults.                                                                 *)

LEMMA DefaultsStable ==
    ASSUME NEW t \in Template \cup {Nil}
    PROVE  /\ Defaulted(t) \in Template \cup {Nil}
           /\ Defaulted(t) = Nil <=> t = Nil
           /\ Defaulted(Defaulted(t)) = Defaulted(t)
<1>1. CASE t = Nil
  BY <1>1 DEF Defaulted
<1>2. CASE t # Nil
  <2>1. t \in Template
    BY <1>2
  <2>2. PICK a \in Counts \cup {Nil}, b \in Counts \cup {Nil}, n \in BOOLEAN :
           t = [completions |-> a, parallelism |-> b, node |-> n]
    BY <2>1 DEF Template
  <2> DEFINE p == IF b = Nil THEN 1 ELSE b
             c == IF a = Nil /\ b = Nil THEN 1 ELSE a
             d == [completions |-> c, parallelism |-> p, node |-> n]
  <2>3. SetDefaults_Job(t) = d
    <3>1. /\ c = IF a = Nil /\ b = Nil THEN 1 ELSE a
          /\ p = IF b = Nil THEN 1 ELSE b
      OBVIOUS
    <3>2. t.completions = a /\ t.parallelism = b
      BY <2>2
    <3>3. SetDefaults_Job(t) = [t EXCEPT !.completions = c, !.parallelism = p]
      BY <3>1, <3>2 DEF SetDefaults_Job
    <3> HIDE DEF c, p
    <3>4. \A r : r = [completions |-> a, parallelism |-> b, node |-> n] =>
             [r EXCEPT !.completions = c] = [completions |-> c, parallelism |-> b, node |-> n]
      OBVIOUS
    <3>5. \A r : r = [completions |-> c, parallelism |-> b, node |-> n] =>
             [r EXCEPT !.parallelism = p] = d
      OBVIOUS
    <3>6. [t EXCEPT !.completions = c, !.parallelism = p] =
             [[t EXCEPT !.completions = c] EXCEPT !.parallelism = p]
      OBVIOUS
    <3> QED
      BY <2>2, <3>3, <3>4, <3>5, <3>6
  <2>4. d \in Template /\ d # Nil
    <3>1. c \in Counts \cup {Nil} /\ p \in Counts \cup {Nil}
      BY DEF Counts
    <3>2. d \in Template
      BY <3>1 DEF Template
    <3> QED
      BY <3>2, NilAssumption
  <2>5. SetDefaults_Job(d) = d
    <3>1. c = Nil /\ p = Nil => c = 1
      OBVIOUS
    <3>2. p = Nil => p = 1
      OBVIOUS
    <3> HIDE DEF c, p
    <3> QED
      BY <3>1, <3>2 DEF SetDefaults_Job
  <2> HIDE DEF d
  <2> QED
    BY <1>2, <2>3, <2>4, <2>5 DEF Defaulted
<1> QED
  BY <1>1, <1>2

(* The object that the defaults make of o: it shares nothing with anything,  *)
(* and o is as it was.                                                       *)
LEMMA DefaultMakes ==
    ASSUME NEW h, Heap(h), NEW k \in Kinds, NEW o, WellFormed(h, k, o)
    PROVE  LET m == Default(h, o)
           IN  /\ Heap(m.heap)
               /\ SameIn(DOMAIN h, h, m.heap)
               /\ ContentsOK(k, Contents(m.heap, m.object))
               /\ Contents(m.heap, m.object).template = Defaulted(Contents(h, o).template)
<1> DEFINE d == Contents(h, o)
           e == [d EXCEPT !.template = Defaulted(d.template)]
           copy == NewObject(h, d)
<1>1. ContentsOK(k, d)
  BY ContentsOf
<1>2. "template" \in Fields(k) /\ d.template \in Template \cup {Nil}
  <2>1. "template" \in Fields(k)
    BY FieldFacts
  <2> HIDE DEF d
  <2> QED
    BY <1>1, <2>1 DEF ContentsOK, Value
<1>3. /\ e = [f \in Fields(k) |-> e[f]]
      /\ \A f \in Fields(k) : e[f] = IF f = "template" THEN Defaulted(d.template) ELSE d[f]
  <2> HIDE DEF d
  <2> QED
    BY <1>1, <1>2 DEF ContentsOK
<1>4. ContentsOK(k, e) /\ SameShape(k, d, e)
  <2>1. /\ Defaulted(d.template) \in Template \cup {Nil}
        /\ Defaulted(d.template) = Nil <=> d.template = Nil
    BY <1>2, DefaultsStable
  <2>2. ASSUME NEW f \in Fields(k)
        PROVE  e[f] \in Value(f) \cup {Nil} /\ (d[f] = Nil <=> e[f] = Nil)
    <3> HIDE DEF d, e
    <3>1. CASE f = "template"
      BY <1>3, <2>1, <3>1 DEF Value
    <3>2. CASE f # "template"
      BY <1>1, <1>3, <3>2 DEF ContentsOK
    <3> QED
      BY <3>1, <3>2
  <2> HIDE DEF d, e
  <2> QED
    BY <1>3, <2>2 DEF ContentsOK, SameShape
<1>5. /\ Heap(Store(h, copy, e))
      /\ Contents(Store(h, copy, e), copy) = e
      /\ SameIn(DOMAIN h, h, Store(h, copy, e))
  <2> HIDE DEF d, e
  <2> QED
    BY <1>1, <1>4, NewObjectStored
<1>6. Default(h, o) = [object |-> copy, heap |-> Store(h, copy, e)]
  BY DEF Default, DeepCopy
<1> HIDE DEF copy, e, d
<1> QED
  BY <1>2, <1>3, <1>4, <1>5, <1>6 DEF d

--------------------------------------------------------------------------------
(* The inductive invariant.                                                  *)

(* In the heap h the objects of the cache say what the API server sent, and  *)
(* a copy l to work on shares no cell with them and has their template.      *)
MemoryWith(h, l) ==
    /\ Heap(h)
    /\ WellFormed(h, kind, cached) /\ Contents(h, cached) = decoded
    /\ shared # Nil => WellFormed(h, kind, shared) /\ Contents(h, shared) = seen
    /\ l # Nil => /\ WellFormed(h, kind, l)
                  /\ Cells(l) \cap (Cells(cached) \cup Cells(shared)) = {}
                  /\ Contents(h, l).template = seen.template

Memory == MemoryWith(heap, local)

(* What sync holds in each phase of a pass. *)
Passes ==
    /\ kind \in Kinds
    /\ pc \in {"idle", "default", "manage"}
    /\ pc = "idle" => shared = Nil /\ seen = Nil
    /\ pc # "idle" => shared # Nil
    /\ pc = "manage" <=> local # Nil

(* What the API server has, and what is known of its version. *)
Server ==
    /\ ContentsOK(kind, stored)
    /\ written \in Template \cup {Nil}
    /\ edits \in 0..MaxEdits /\ faults \in 0..MaxFaults
    /\ current \in BOOLEAN /\ fresh \in BOOLEAN
    /\ current => decoded = stored
    /\ TemplateKept

Fresh == (pc # "idle" /\ fresh) => seen = stored

ObjectsInv == Memory /\ Passes /\ Server /\ Fresh

LEMMA CellsInHeap ==
    ASSUME NEW h, NEW k \in Kinds, NEW o, o = Nil \/ WellFormed(h, k, o)
    PROVE  Cells(o) \subseteq DOMAIN h
<1>1. CASE o = Nil
  BY <1>1 DEF Cells
<1>2. CASE WellFormed(h, k, o)
  BY <1>2, CellsOf DEF WellFormed
<1> QED
  BY <1>1, <1>2

(* More memory in use changes nothing.                                       *)
LEMMA MemoryExtended ==
    ASSUME Passes, NEW h, NEW h2, NEW l, MemoryWith(h, l), Heap(h2),
           SameIn(DOMAIN h, h, h2)
    PROVE  MemoryWith(h2, l)
<1>1. ASSUME NEW o, WellFormed(h, kind, o)
      PROVE  WellFormed(h2, kind, o) /\ Contents(h2, o) = Contents(h, o)
  <2>1. SameIn(Cells(o), h, h2)
    BY <1>1, CellsInHeap DEF SameIn, Passes
  <2> QED
    BY <1>1, <2>1, Unaffected DEF Passes
<1> QED
  BY <1>1 DEF MemoryWith

(* An operation on the copy that leaves all other cells alone.               *)
LEMMA CopyChanged ==
    ASSUME Passes, NEW h, NEW l, l # Nil, MemoryWith(h, l),
           NEW h2, Heap(h2), SameIn(DOMAIN h \ Cells(l), h, h2),
           NEW o, WellFormed(h2, kind, o), Cells(o) \cap DOMAIN h \subseteq Cells(l),
           Contents(h2, o).template = Contents(h, l).template
    PROVE  MemoryWith(h2, o)
<1>1. ASSUME NEW p \in {cached, shared}, p # Nil
      PROVE  /\ WellFormed(h2, kind, p)
             /\ Contents(h2, p) = Contents(h, p)
             /\ Cells(o) \cap Cells(p) = {}
  <2>1. WellFormed(h, kind, p) /\ Cells(l) \cap Cells(p) = {}
    BY <1>1 DEF MemoryWith
  <2>2. Cells(p) \subseteq DOMAIN h
    BY <2>1, CellsInHeap DEF Passes
  <2>3. SameIn(Cells(p), h, h2)
    BY <2>1, <2>2 DEF SameIn
  <2> QED
    BY <2>1, <2>2, <2>3, Unaffected DEF Passes
<1>2. cached # Nil
  BY CellsOf DEF MemoryWith, WellFormed, Passes
<1>3. Cells(o) \cap (Cells(cached) \cup Cells(shared)) = {}
  <2>1. CASE shared = Nil
    BY <1>1, <1>2, <2>1 DEF Cells
  <2>2. CASE shared # Nil
    BY <1>1, <1>2, <2>2
  <2> QED
    BY <2>1, <2>2
<1> QED
  BY <1>1, <1>2, <1>3 DEF MemoryWith

LEMMA WriteThroughKeeps ==
    ASSUME Passes, NEW h, NEW l, l # Nil, MemoryWith(h, l),
           NEW f \in Fields(kind) \ {"template"}, NEW v \in BOOLEAN
    PROVE  MemoryWith(WriteThrough(h, l, f, v), l)
<1> DEFINE h2 == WriteThrough(h, l, f, v)
<1>1. /\ Heap(h2) /\ WellFormed(h2, kind, l)
      /\ Contents(h2, l).template = Contents(h, l).template
      /\ SameIn(DOMAIN h \ Cells(l), h, h2)
  BY WriteThroughOne DEF MemoryWith, Passes
<1> HIDE DEF h2
<1>2. MemoryWith(h2, l)
  BY <1>1, CopyChanged
<1> QED
  BY <1>2 DEF h2

LEMMA AssignedKeeps ==
    ASSUME Passes, NEW h, NEW l, l # Nil, MemoryWith(h, l),
           NEW f \in Fields(kind) \ {"template"}, NEW v \in BOOLEAN
    PROVE  LET m == Assigned(h, l, f, v)
           IN  m.object # Nil /\ MemoryWith(m.heap, m.object)
<1> DEFINE m == Assigned(h, l, f, v)
           h2 == m.heap
           o == m.object
<1>1. /\ Heap(h2) /\ WellFormed(h2, kind, o)
      /\ Contents(h2, o).template = Contents(h, l).template
      /\ Cells(o) \cap DOMAIN h \subseteq Cells(l)
      /\ SameIn(DOMAIN h \ Cells(l), h, h2)
  BY AssignedOne DEF MemoryWith, Passes
<1> HIDE DEF h2, o
<1>2. MemoryWith(h2, o)
  BY <1>1, CopyChanged
<1>3. o # Nil
  BY <1>1, CellsOf DEF WellFormed, Passes
<1> QED
  BY <1>2, <1>3 DEF h2, o

(* The copy that sync works on once it is made.                              *)
LEMMA WritesKeep ==
    ASSUME Passes, pc = "manage", NEW h, NEW o, o # Nil, MemoryWith(h, o), Writes(h, o)
    PROVE  Memory' /\ Passes'
<1>1. /\ heap' = Collect(h, {cached, shared, o}) /\ local' = o
      /\ UNCHANGED <<kind, cached, decoded, pc, shared, seen>>
  BY DEF Writes
<1>2. \A p \in {cached, shared, o} : p = Nil \/ WellFormed(h, kind, p)
  BY DEF MemoryWith
<1>3. IsFiniteSet({cached, shared, o})
  <2>1. IsFiniteSet({cached} \cup {shared} \cup {o})
    BY FS_Singleton, FS_AddElement
  <2>2. {cached} \cup {shared} \cup {o} = {cached, shared, o}
    OBVIOUS
  <2> QED
    BY <2>1, <2>2
<1>4. cached # Nil
  BY CellsOf DEF MemoryWith, WellFormed, Passes
<1>5. /\ Heap(heap')
      /\ \A p \in {cached, shared, o} : p # Nil =>
            WellFormed(heap', kind, p) /\ Contents(heap', p) = Contents(h, p)
  BY <1>1, <1>2, <1>3, CollectKeeps DEF MemoryWith, Passes
<1>6. Memory'
  BY <1>1, <1>4, <1>5 DEF Memory, MemoryWith
<1> QED
  BY <1>1, <1>6 DEF Passes

(* The pass returns. *)
LEMMA ReturnKeeps ==
    ASSUME Passes, NEW h, NEW l, MemoryWith(h, l), Return(h)
    PROVE  Memory' /\ Passes' /\ Fresh'
<1>1. /\ heap' = Collect(h, {cached})
      /\ pc' = "idle" /\ shared' = Nil /\ seen' = Nil /\ local' = Nil
      /\ UNCHANGED <<kind, cached, decoded>>
  BY DEF Return
<1>2. Heap(h) /\ WellFormed(h, kind, cached) /\ IsFiniteSet({cached})
  BY FS_Singleton DEF MemoryWith
<1>3. cached # Nil
  BY <1>2, CellsOf DEF WellFormed, Passes
<1>4. /\ Heap(heap')
      /\ WellFormed(heap', kind, cached) /\ Contents(heap', cached) = Contents(h, cached)
  BY <1>1, <1>2, <1>3, CollectKeeps DEF Passes
<1> QED
  BY <1>1, <1>4 DEF Memory, MemoryWith, Passes, Fresh

(* What is sent has the stored template, or that one defaulted, when it is   *)
(* made of the stored version; the API server takes nothing else.            *)
LEMMA UpdateKeeps ==
    ASSUME Passes, Server, NEW h, NEW o, Update(h, o),
           ContentsOK(kind, Contents(h, o)),
           fresh => Contents(h, o).template \in {stored.template, Defaulted(stored.template)},
           UNCHANGED <<kind, written, edits, decoded>>
    PROVE  Server'
<1> DEFINE d == Contents(h, o)
<1>1. stored.template \in Template \cup {Nil}
  BY FieldFacts DEF Server, ContentsOK, Value, Passes
<1>2. CASE fresh /\ stored' = d /\ current' = (current /\ d = stored)
           /\ fresh' = (d = stored) /\ faults' = faults
  <2>1. d.template \in {written, Defaulted(written)}
    <3>1. Defaulted(Defaulted(written)) = Defaulted(written)
      BY DefaultsStable DEF Server
    <3> QED
      BY <1>2, <3>1 DEF Server, TemplateKept
  <2>2. current' \in BOOLEAN /\ fresh' \in BOOLEAN
    BY <1>2
  <2>3. current' => decoded' = stored'
    BY <1>2 DEF Server
  <2> HIDE DEF d
  <2>4. ContentsOK(kind, d)
    BY DEF d
  <2>5. TemplateKept'
    BY <1>2, <2>1 DEF TemplateKept
  <2> QED
    BY <1>2, <2>2, <2>3, <2>4, <2>5 DEF Server
<1>3. CASE stored' = stored /\ current' = current /\ fresh' = fresh /\ faults' \in 0..MaxFaults
  BY <1>3 DEF Server, TemplateKept
<1>4. MaxFaults \in Nat
  BY ObjectsAssumption
<1> QED
  BY <1>2, <1>3, <1>4 DEF Update, Server

--------------------------------------------------------------------------------
(* Every step preserves the invariant.                                       *)

LEMMA EmptyHeap == Heap(<<>>)
<1>1. DOMAIN <<>> = {}
  OBVIOUS
<1> QED
  BY <1>1, FS_EmptySet DEF Heap

LEMMA ManifestType ==
    ASSUME NEW k \in Kinds, NEW t \in Template \cup {Nil}
    PROVE  ContentsOK(k, Manifest(k, t))
<1> DEFINE d == Manifest(k, t)
<1>1. d.template = t
  BY FieldFacts DEF Manifest
<1>2. "selector" \in Fields(k) => d["selector"] = FALSE
  BY DEF Manifest
<1>3. \A f \in Fields(k) : f \notin {"template", "selector"} => d[f] = Nil
  BY DEF Manifest
<1>4. \A f \in Fields(k) : d[f] \in Value(f) \cup {Nil}
  <2> HIDE DEF d
  <2> QED
    BY <1>1, <1>2, <1>3 DEF Value
<1>5. d = [f \in Fields(k) |-> d[f]]
  BY DEF Manifest
<1> QED
  BY <1>4, <1>5 DEF ContentsOK

LEMMA WritableType == \A k : Writable(k) \subseteq Template \cup {Nil}
  BY ObjectsAssumption DEF Writable

LEMMA InitObjects == Init => ObjectsInv
<1> SUFFICES ASSUME Init PROVE ObjectsInv
  OBVIOUS
<1>1. kind \in Kinds /\ written \in Template \cup {Nil}
  BY WritableType DEF Init, Kinds
<1>2. ContentsOK(kind, stored) /\ decoded = stored
  BY <1>1, ManifestType DEF Init
<1>3. SameShape(kind, stored, stored)
  BY DEF SameShape
<1>4. Heap(heap) /\ WellFormed(heap, kind, cached) /\ Contents(heap, cached) = decoded
  BY <1>1, <1>2, <1>3, EmptyHeap, NewObjectStored DEF Init
<1>5. Memory /\ Passes /\ Fresh
  BY <1>1, <1>4 DEF Init, Memory, MemoryWith, Passes, Fresh
<1>6. stored.template = written
  BY <1>1, FieldFacts DEF Init, Manifest
<1> QED
  BY <1>1, <1>2, <1>5, <1>6, ObjectsAssumption DEF Init, Server, TemplateKept, ObjectsInv

LEMMA UserEditsKeep == ObjectsInv /\ UserEdits => ObjectsInv'
<1> SUFFICES ASSUME ObjectsInv, UserEdits PROVE ObjectsInv'
  OBVIOUS
<1>1. PICK t \in Writable(kind) :
         stored' = [stored EXCEPT !.template = t, !.selector = FALSE] /\ written' = t
  BY DEF UserEdits
<1>2. t \in Template \cup {Nil} /\ kind \in Kinds
  BY WritableType DEF ObjectsInv, Passes
<1>3. stored = [f \in Fields(kind) |-> stored[f]]
  BY DEF ObjectsInv, Server, ContentsOK
<1>4. /\ stored' = [f \in Fields(kind) |-> stored'[f]]
      /\ \A f \in Fields(kind) : stored'[f] = IF f = "template" THEN t
                                              ELSE IF f = "selector" THEN FALSE
                                              ELSE stored[f]
  BY <1>1, <1>3
<1>5. ContentsOK(kind, stored')
  BY <1>2, <1>4 DEF ObjectsInv, Server, ContentsOK, Value
<1>6. stored'.template = written'
  BY <1>1, <1>2, <1>4, FieldFacts
<1>7. Server'
  <2>1. edits' \in 0..MaxEdits
    BY ObjectsAssumption DEF UserEdits, ObjectsInv, Server
  <2>2. faults' = faults /\ kind' = kind /\ current' = FALSE /\ fresh' = FALSE
    BY DEF UserEdits
  <2>3. TemplateKept'
    BY <1>6 DEF TemplateKept
  <2> QED
    BY <1>1, <1>2, <1>5, <2>1, <2>2, <2>3 DEF ObjectsInv, Server
<1> QED
  BY <1>7 DEF UserEdits, ObjectsInv, Memory, MemoryWith, Passes, Fresh

(* The informer's new object is a stranger to sync's. *)
LEMMA DeliverKeeps == ObjectsInv /\ Deliver => ObjectsInv'
<1> SUFFICES ASSUME ObjectsInv, Deliver PROVE ObjectsInv'
  OBVIOUS
<1> DEFINE o == cached'
           h == Store(heap, o, stored)
<1>1. /\ o = NewObject(heap, stored)
      /\ heap' = Collect(h, {o, shared, local})
      /\ current' = TRUE /\ decoded' = stored
      /\ UNCHANGED <<kind, server, pc, shared, seen, local, fresh>>
  BY DEF Deliver
<1>2. kind \in Kinds /\ Heap(heap) /\ ContentsOK(kind, stored)
  BY DEF ObjectsInv, Memory, MemoryWith, Passes, Server
<1>3. /\ Heap(h) /\ WellFormed(h, kind, o) /\ Contents(h, o) = stored
      /\ SameIn(DOMAIN heap, heap, h)
      /\ Cells(o) \cap DOMAIN heap = {}
  <2>1. SameShape(kind, stored, stored)
    BY DEF SameShape
  <2> QED
    BY <1>1, <1>2, <2>1, NewObjectStored
<1>4. MemoryWith(h, local)
  BY <1>3, MemoryExtended DEF ObjectsInv, Memory
<1> HIDE DEF h
<1>5. \A p \in {o, shared, local} : p = Nil \/ WellFormed(h, kind, p)
  BY <1>3, <1>4 DEF MemoryWith
<1>6. IsFiniteSet({o, shared, local})
  <2>1. IsFiniteSet({o} \cup {shared} \cup {local})
    BY FS_Singleton, FS_AddElement
  <2>2. {o} \cup {shared} \cup {local} = {o, shared, local}
    OBVIOUS
  <2> QED
    BY <2>1, <2>2
<1>7. /\ Heap(heap')
      /\ \A p \in {o, shared, local} : p # Nil =>
            WellFormed(heap', kind, p) /\ Contents(heap', p) = Contents(h, p)
  BY <1>1, <1>2, <1>3, <1>5, <1>6, CollectKeeps DEF h
<1>8. o # Nil
  BY <1>2, <1>3, CellsOf DEF WellFormed
<1>9. local # Nil => Cells(local) \cap (Cells(o) \cup Cells(shared)) = {}
  <2>1. local # Nil => Cells(local) \subseteq DOMAIN heap
    BY <1>2, CellsInHeap DEF ObjectsInv, Memory, MemoryWith
  <2> QED
    BY <1>3, <1>4, <2>1 DEF MemoryWith
<1>10. Memory'
  BY <1>1, <1>3, <1>4, <1>7, <1>8, <1>9 DEF Memory, MemoryWith
<1>11. Server'
  BY <1>1 DEF ObjectsInv, Server, server, TemplateKept
<1> QED
  BY <1>1, <1>10, <1>11 DEF ObjectsInv, Passes, Fresh, server

LEMMA GetKeeps == ObjectsInv /\ SyncGet => ObjectsInv'
<1> SUFFICES ASSUME ObjectsInv, SyncGet PROVE ObjectsInv'
  OBVIOUS
<1>1. /\ pc = "idle" /\ pc' = "default" /\ shared' = cached /\ seen' = decoded
      /\ fresh' = current
      /\ UNCHANGED <<kind, server, heap, cached, current, decoded, local>>
  BY DEF SyncGet
<1>2. cached # Nil /\ local = Nil
  BY <1>1, CellsOf DEF ObjectsInv, Memory, MemoryWith, WellFormed, Passes
<1>3. Memory' /\ Passes'
  BY <1>1, <1>2 DEF ObjectsInv, Memory, MemoryWith, Passes
<1>4. Server' /\ Fresh'
  BY <1>1 DEF ObjectsInv, Server, server, TemplateKept, Fresh
<1> QED
  BY <1>3, <1>4 DEF ObjectsInv

(* What every pass finds. *)
LEMMA SharedIs ==
    ASSUME ObjectsInv, pc # "idle"
    PROVE  /\ kind \in Kinds /\ Heap(heap)
           /\ WellFormed(heap, kind, shared) /\ Contents(heap, shared) = seen
           /\ ContentsOK(kind, seen)
           /\ fresh => seen = stored
<1>1. /\ kind \in Kinds /\ Heap(heap)
      /\ WellFormed(heap, kind, shared) /\ Contents(heap, shared) = seen
  BY DEF ObjectsInv, Memory, MemoryWith, Passes
<1> QED
  BY <1>1, ContentsOf DEF ObjectsInv, Fresh

LEMMA DefaultKeeps == ObjectsInv /\ SyncDefault => ObjectsInv'
<1> SUFFICES ASSUME ObjectsInv, SyncDefault PROVE ObjectsInv'
  OBVIOUS
<1> DEFINE m == Default(heap, shared)
           h == m.heap
           o == m.object
<1>1. pc = "default" /\ Update(h, o) /\ Return(h)
  BY DEF SyncDefault
<1>2. /\ Heap(h) /\ SameIn(DOMAIN heap, heap, h)
      /\ ContentsOK(kind, Contents(h, o))
      /\ Contents(h, o).template = Defaulted(seen.template)
  BY <1>1, SharedIs, DefaultMakes
<1> HIDE DEF h, o
<1>3. MemoryWith(h, local)
  BY <1>2, MemoryExtended DEF ObjectsInv, Memory
<1>4. Memory' /\ Passes' /\ Fresh'
  BY <1>1, <1>3, ReturnKeeps DEF ObjectsInv
<1>5. Server'
  BY <1>1, <1>2, SharedIs, UpdateKeeps DEF ObjectsInv, Return
<1> QED
  BY <1>4, <1>5 DEF ObjectsInv

LEMMA CopyKeeps == ObjectsInv /\ SyncCopy => ObjectsInv'
<1> SUFFICES ASSUME ObjectsInv, SyncCopy PROVE ObjectsInv'
  OBVIOUS
<1> DEFINE m == Default(heap, shared)
           h == m.heap
           o == NewObject(h, Contents(h, shared))
           h2 == Store(h, o, Contents(h, shared))
<1>1. /\ pc = "default" /\ pc' = "manage"
      /\ local' = o
      /\ heap' = Collect(h2, {cached, shared, o})
      /\ UNCHANGED <<kind, server, cached, current, decoded, shared, seen, fresh>>
  BY DEF SyncCopy, DeepCopy
<1>2. Heap(h) /\ SameIn(DOMAIN heap, heap, h)
  BY <1>1, SharedIs, DefaultMakes
<1>3. MemoryWith(h, local)
  <2> HIDE DEF h
  <2> QED
    BY <1>2, MemoryExtended DEF ObjectsInv, Memory
<1>4. /\ kind \in Kinds /\ shared # Nil
      /\ WellFormed(h, kind, shared) /\ Contents(h, shared) = seen
      /\ ContentsOK(kind, seen)
  BY <1>1, <1>3, SharedIs DEF MemoryWith, ObjectsInv, Passes
<1>5. /\ Heap(h2) /\ WellFormed(h2, kind, o) /\ Contents(h2, o) = seen
      /\ SameIn(DOMAIN h, h, h2)
      /\ Cells(o) \cap DOMAIN h = {}
  <2>1. SameShape(kind, seen, seen)
    BY DEF SameShape
  <2> HIDE DEF h
  <2> QED
    BY <1>2, <1>4, <2>1, NewObjectStored
<1>6. MemoryWith(h2, local)
  <2> HIDE DEF h, h2
  <2> QED
    BY <1>3, <1>5, MemoryExtended DEF ObjectsInv
<1>7. Cells(cached) \subseteq DOMAIN h /\ Cells(shared) \subseteq DOMAIN h
  BY <1>3, <1>4, CellsInHeap DEF MemoryWith
<1> HIDE DEF h, h2, o
<1>8. o # Nil
  BY <1>4, <1>5, CellsOf DEF WellFormed
<1>9. MemoryWith(h2, o)
  BY <1>5, <1>6, <1>7 DEF MemoryWith
<1>10. \A p \in {cached, shared, o} : p # Nil /\ WellFormed(h2, kind, p)
  BY <1>4, <1>8, <1>9, CellsOf DEF MemoryWith, WellFormed
<1>11. IsFiniteSet({cached, shared, o})
  <2>1. IsFiniteSet({cached} \cup {shared} \cup {o})
    BY FS_Singleton, FS_AddElement
  <2>2. {cached} \cup {shared} \cup {o} = {cached, shared, o}
    OBVIOUS
  <2> QED
    BY <2>1, <2>2
<1>12. /\ Heap(heap')
       /\ \A p \in {cached, shared, o} :
             WellFormed(heap', kind, p) /\ Contents(heap', p) = Contents(h2, p)
  BY <1>1, <1>4, <1>5, <1>10, <1>11, CollectKeeps
<1>13. Memory'
  BY <1>1, <1>9, <1>12, <1>4, <1>8 DEF Memory, MemoryWith
<1>14. Passes' /\ Fresh' /\ Server'
  BY <1>1, <1>8 DEF ObjectsInv, Passes, Fresh, Server, server, TemplateKept
<1> QED
  BY <1>13, <1>14 DEF ObjectsInv

(* sync's copy in a pass that manages the object. *)
LEMMA LocalIs ==
    ASSUME ObjectsInv, pc = "manage"
    PROVE  /\ local # Nil /\ MemoryWith(heap, local) /\ Passes
           /\ {"selector", "startTime", "conditions"} \subseteq Fields(kind) \ {"template"}
           /\ kind = Workflow => "statuses" \in Fields(kind) \ {"template"}
  BY FieldFacts DEF ObjectsInv, Memory, Passes

(* sync sends what it made of its copy, and returns. *)
LEMMA SendsCopy ==
    ASSUME ObjectsInv, pc = "manage", NEW h, NEW o, o # Nil, MemoryWith(h, o),
           Update(h, o), Return(h)
    PROVE  ObjectsInv'
<1>1. Memory' /\ Passes' /\ Fresh'
  BY ReturnKeeps DEF ObjectsInv
<1>2. ContentsOK(kind, Contents(h, o))
  BY ContentsOf DEF MemoryWith, ObjectsInv, Passes
<1>3. fresh => Contents(h, o).template = stored.template
  BY SharedIs DEF MemoryWith
<1>4. Server'
  BY <1>2, <1>3, UpdateKeeps DEF ObjectsInv, Return
<1> QED
  BY <1>1, <1>4 DEF ObjectsInv

LEMMA StartKeeps == ObjectsInv /\ SyncStart => ObjectsInv'
<1> SUFFICES ASSUME ObjectsInv, SyncStart PROVE ObjectsInv'
  OBVIOUS
<1> DEFINE started == Assigned(heap, local, "startTime", TRUE)
           m == IF kind = Workflow
                THEN Assigned(started.heap, started.object, "statuses", FALSE)
                ELSE started
<1>1. pc = "manage" /\ Update(m.heap, m.object) /\ Return(m.heap)
  BY DEF SyncStart
<1>2. started.object # Nil /\ MemoryWith(started.heap, started.object)
  BY <1>1, LocalIs, AssignedKeeps
<1>3. m.object # Nil /\ MemoryWith(m.heap, m.object)
  <2>1. CASE kind = Workflow
    <3> HIDE DEF started
    <3> QED
      BY <1>1, <1>2, <2>1, LocalIs, AssignedKeeps
  <2>2. CASE kind # Workflow
    BY <1>2, <2>2
  <2> QED
    BY <2>1, <2>2
<1> HIDE DEF m
<1> QED
  BY <1>1, <1>3, SendsCopy

(* manageWorkflow and manageDaemonSetJob only write. *)
LEMMA WritesKeepInv ==
    ASSUME ObjectsInv, pc = "manage", NEW h, NEW o, o # Nil, MemoryWith(h, o), Writes(h, o)
    PROVE  ObjectsInv'
<1>1. Memory' /\ Passes'
  BY WritesKeep DEF ObjectsInv
<1>2. Server' /\ Fresh'
  BY DEF ObjectsInv, Writes, Server, server, TemplateKept, Fresh
<1> QED
  BY <1>1, <1>2 DEF ObjectsInv

LEMMA LabelsKeep == ObjectsInv /\ LabelWorkflowJobs => ObjectsInv'
<1> SUFFICES ASSUME ObjectsInv, LabelWorkflowJobs PROVE ObjectsInv'
  OBVIOUS
<1>1. pc = "manage" /\ Writes(WithLabels(heap, local), local)
  BY DEF LabelWorkflowJobs, Managing
<1>2. local # Nil /\ MemoryWith(WithLabels(heap, local), local)
  BY <1>1, LocalIs, WriteThroughKeeps DEF WithLabels
<1> QED
  BY <1>1, <1>2, WritesKeepInv

LEMMA StatusesKeep == ObjectsInv /\ WriteStatuses => ObjectsInv'
<1> SUFFICES ASSUME ObjectsInv, WriteStatuses PROVE ObjectsInv'
  OBVIOUS
<1>1. /\ pc = "manage" /\ kind = Workflow
      /\ Writes(WriteThrough(heap, local, "statuses", TRUE), local)
  BY DEF WriteStatuses, Managing
<1>2. local # Nil /\ MemoryWith(WriteThrough(heap, local, "statuses", TRUE), local)
  BY <1>1, LocalIs, WriteThroughKeeps
<1> QED
  BY <1>1, <1>2, WritesKeepInv

LEMMA ConditionsKeep == ObjectsInv /\ WriteConditions => ObjectsInv'
<1> SUFFICES ASSUME ObjectsInv, WriteConditions PROVE ObjectsInv'
  OBVIOUS
<1>1. pc = "manage"
  BY DEF WriteConditions, Managing
<1> DEFINE m == Assigned(heap, local, "conditions", TRUE)
<1>2. CASE Writes(m.heap, m.object)
  <2>1. m.object # Nil /\ MemoryWith(m.heap, m.object)
    BY <1>1, LocalIs, AssignedKeeps
  <2> HIDE DEF m
  <2> QED
    BY <1>1, <1>2, <2>1, WritesKeepInv
<1>3. ASSUME NEW complete \in BOOLEAN,
             Writes(WriteThrough(heap, local, "conditions", complete), local)
      PROVE  ObjectsInv'
  <2>1. local # Nil /\ MemoryWith(WriteThrough(heap, local, "conditions", complete), local)
    BY <1>1, LocalIs, WriteThroughKeeps
  <2> QED
    BY <1>1, <1>3, <2>1, WritesKeepInv
<1> QED
  BY <1>2, <1>3 DEF WriteConditions

(* The copy of the template is no cell of the object. *)
LEMMA CreateKeeps == ObjectsInv /\ CreateJobFromDaemonSetJob => ObjectsInv'
<1> SUFFICES ASSUME ObjectsInv, CreateJobFromDaemonSetJob PROVE ObjectsInv'
  OBVIOUS
<1> DEFINE c == TemplateCopy(heap, local)
           t == [heap[local.template] EXCEPT !.node = TRUE]
           h == Store(heap, [template |-> c], [template |-> t])
<1>1. pc = "manage" /\ Writes(WithLabels(h, local), local)
  BY DEF CreateJobFromDaemonSetJob, Managing
<1>2. c \in Cell \ DOMAIN heap /\ c[1] = "template" /\ c # Nil
  BY FreeCellIsFree DEF TemplateCopy, ObjectsInv, Memory, MemoryWith, WorkflowFields
<1>3. Cells([template |-> c]) \subseteq {c}
  <2> HIDE DEF c
  <2> QED
    BY DEF Cells
<1>4. DOMAIN h \subseteq DOMAIN heap \cup {c} /\ DOMAIN heap \subseteq DOMAIN h
  BY <1>3 DEF Store
<1>5. Heap(heap)
  BY DEF ObjectsInv, Memory, MemoryWith
<1>6. Heap(h)
  <2>1. IsFiniteSet(DOMAIN heap \cup {c})
    BY <1>5, FS_AddElement DEF Heap
  <2> HIDE DEF h, c
  <2> QED
    BY <1>2, <1>4, <1>5, <2>1, FS_Subset DEF Heap
<1>7. ASSUME NEW x \in DOMAIN heap
      PROVE  x \in DOMAIN h /\ h[x] = heap[x]
  <2>1. x # c
    BY <1>2, <1>7
  <2>2. ~RefersTo([template |-> c], x)
    <3> HIDE DEF c
    <3> QED
      BY <2>1 DEF RefersTo
  <2> QED
    BY <1>4, <2>2 DEF Store
<1> HIDE DEF h
<1>8. local # Nil /\ MemoryWith(h, local)
  BY <1>1, <1>6, <1>7, LocalIs, MemoryExtended DEF SameIn
<1>9. MemoryWith(WithLabels(h, local), local)
  BY <1>1, <1>8, LocalIs, WriteThroughKeeps DEF WithLabels
<1> QED
  BY <1>1, <1>8, <1>9, WritesKeepInv

LEMMA FinishKeeps == ObjectsInv /\ FinishManage => ObjectsInv'
<1> SUFFICES ASSUME ObjectsInv, FinishManage PROVE ObjectsInv'
  OBVIOUS
<1>1. pc = "manage" /\ Return(heap)
  BY DEF FinishManage, Managing
<1>2. local # Nil /\ MemoryWith(heap, local)
  BY <1>1, LocalIs
<1>3. CASE Update(heap, local)
  BY <1>1, <1>2, <1>3, SendsCopy
<1>4. CASE UNCHANGED <<stored, faults, current, fresh>>
  <2>1. Memory' /\ Passes' /\ Fresh'
    BY <1>1, <1>2, ReturnKeeps DEF ObjectsInv
  <2>2. Server'
    BY <1>1, <1>4 DEF ObjectsInv, Return, Server, TemplateKept
  <2> QED
    BY <2>1, <2>2 DEF ObjectsInv
<1> QED
  BY <1>3, <1>4 DEF FinishManage

LEMMA NextObjects == ObjectsInv /\ [Next]_vars => ObjectsInv'
<1>1. ObjectsInv /\ UNCHANGED vars => ObjectsInv'
  BY DEF vars, server, process, ObjectsInv, Memory, MemoryWith, Passes, Server, Fresh, TemplateKept
<1> QED
  BY <1>1, UserEditsKeep, DeliverKeeps, GetKeeps, DefaultKeeps, CopyKeeps, StartKeeps,
     LabelsKeep, CreateKeeps, StatusesKeep, ConditionsKeep, FinishKeeps DEF Next, sync

(* The inductive invariant: what sync writes to is apart from the cache, and *)
(* what it sends comes from a version it has seen.                           *)
THEOREM CopiesApart == Spec => []ObjectsInv
<1> QED
  BY InitObjects, NextObjects, PTL DEF Spec

--------------------------------------------------------------------------------
(* The properties.                                                           *)

(* The type invariant: no object refers to memory that is not there.         *)
THEOREM ObjectsTypeCorrect == Spec => []TypeOK
<1>1. ASSUME ObjectsInv
      PROVE  TypeOK
  <2>1. kind \in Kinds /\ cached # Nil
    BY <1>1, CellsOf DEF ObjectsInv, Passes, Memory, MemoryWith, WellFormed
  <2>2. \A o \in {cached, shared, local} \ {Nil} : WellFormed(heap, kind, o)
    BY <1>1 DEF ObjectsInv, Memory, MemoryWith
  <2>3. \A o \in {cached, shared, local} \ {Nil} : ContentsOK(kind, Contents(heap, o))
    BY <2>1, <2>2, ContentsOf
  <2>4. \A o \in {cached, shared, local} \ {Nil} : o \in Object(kind)
    BY <2>2 DEF WellFormed, Object
  <2>5. ContentsOK(kind, decoded)
    BY <1>1, <2>1, <2>3 DEF ObjectsInv, Memory, MemoryWith
  <2>6. seen # Nil => ContentsOK(kind, seen)
    BY <1>1, <2>3 DEF ObjectsInv, Memory, MemoryWith, Passes
  <2> QED
    BY <1>1, <2>1, <2>3, <2>4, <2>5, <2>6 DEF TypeOK, ObjectsInv, Passes, Server, Kinds
<1> QED
  BY <1>1, CopiesApart, PTL

(* Nothing that sync does reaches the objects in the cache (DeepCopy,        *)
(* DefaultWorkflow, DefaultDaemonSetJob, CreateJobFromDaemonSetJob, the      *)
(* merging of labels and the status updates).                                *)
THEOREM CacheNeverWritten == Spec => []CacheUntouched
<1>1. ObjectsInv => CacheUntouched
  BY DEF ObjectsInv, Memory, MemoryWith, CacheUntouched
<1> QED
  BY <1>1, CopiesApart, PTL

(* No update takes a user's template back or puts a node into it (sync,      *)
(* CreateJobFromDaemonSetJob).                                               *)
THEOREM UserTemplateKept == Spec => []TemplateKept
<1>1. ObjectsInv => TemplateKept
  BY DEF ObjectsInv, Server
<1> QED
  BY <1>1, CopiesApart, PTL

=================================================================================

------------------------ MODULE WorkflowValidationProofs ------------------------
(***************************************************************************)
(* Proofs about WorkflowValidation: its type invariant, and that the       *)
(* depth-first search of topologicalSort is right on every graph of steps: *)
(* what it lists is sorted, what it accepts is closed and acyclic, what it *)
(* refuses is not.                                                         *)
(***************************************************************************)
EXTENDS WorkflowValidation, FiniteSetTheorems, WellFoundedInduction, TLAPS

--------------------------------------------------------------------------------
(* Facts about numbers, steps and errors.                                    *)

(* A non-empty set of natural numbers has a least element. *)
LEMMA NatLeast ==
    ASSUME NEW T, T \subseteq Nat, T # {}
    PROVE  \E x \in T : \A y \in T : x <= y
<1> DEFINE R == OpToRel(<, Nat)
<1>1. IsWellFoundedOn(R, Nat)
  BY NatLessThanWellFounded
<1>2. PICK x \in T : \A y \in T : ~ (<<y, x>> \in R)
  <2> HIDE DEF R
  <2> QED
    BY <1>1, WFMin
<1>3. \A y \in T : ~ (y < x)
  BY <1>2 DEF OpToRel
<1> QED
  BY <1>3

(* The map of the steps has a step of each name, and finitely many. *)
LEMMA StepsMapType ==
    ASSUME NEW spec \in WorkflowSpec
    PROVE  /\ stepsMap(spec) \in [NamesOf(spec) -> WorkflowStep]
           /\ NamesOf(spec) \subseteq Names
           /\ IsFiniteSet(NamesOf(spec))
           /\ Cardinality(NamesOf(spec)) \in Nat
<1>0. spec.steps \in Seq(WorkflowStep) /\ Len(spec.steps) \in Nat
  BY DEF WorkflowSpec
<1>1. \A k \in 1..Len(spec.steps) :
          spec.steps[k] \in WorkflowStep /\ spec.steps[k].name \in Names
  <2>1. \A k \in 1..Len(spec.steps) : spec.steps[k] \in WorkflowStep
    BY <1>0
  <2> QED
    BY <2>1 DEF WorkflowStep
<1>2. ASSUME NEW n \in NamesOf(spec)
      PROVE  FirstNamed(spec, n) \in 1..Len(spec.steps)
  <2> DEFINE T == {k \in 1..Len(spec.steps) : spec.steps[k].name = n}
  <2>1. T \subseteq Nat /\ T # {}
    BY <1>0 DEF NamesOf
  <2>2. PICK x \in T : \A y \in T : x <= y
    BY <2>1, NatLeast
  <2>3. x \in 1..Len(spec.steps) /\ spec.steps[x].name = n
    OBVIOUS
  <2>4. \A l \in 1..(x - 1) : spec.steps[l].name # n
    BY <2>2, <2>3, <1>0
  <2> QED
    BY <2>3, <2>4 DEF FirstNamed
<1>3. NamesOf(spec) \subseteq Names
  BY <1>1 DEF NamesOf
<1>4. IsFiniteSet(NamesOf(spec))
  <2> DEFINE f == [k \in 1..Len(spec.steps) |-> spec.steps[k].name]
  <2>1. f \in Surjection(1..Len(spec.steps), NamesOf(spec))
    BY DEF Surjection, NamesOf
  <2>2. IsFiniteSet(1..Len(spec.steps))
    BY <1>0, FS_Interval
  <2> QED
    BY <2>1, <2>2, FS_Surjection
<1> QED
  BY <1>1, <1>2, <1>3, <1>4, FS_CardinalityType DEF stepsMap

N == Cardinality(NamesOf(request.spec))

(* The same of the request that is validated. *)
LEMMA StepsType ==
    ASSUME request \in Request
    PROVE  /\ steps \in [NamesOf(request.spec) -> WorkflowStep]
           /\ NamesOf(request.spec) \subseteq Names
           /\ IsFiniteSet(NamesOf(request.spec))
           /\ N \in Nat
           /\ \A n \in NamesOf(request.spec) :
                 /\ steps[n].dependencies \in Seq(Names)
                 /\ Len(steps[n].dependencies) \in Nat
<1>1. request.spec \in WorkflowSpec
  BY DEF Request
<1>2. \A s \in WorkflowStep : s.dependencies \in Seq(Names)
  BY DEF WorkflowStep
<1> QED
  BY <1>1, <1>2, StepsMapType DEF steps, N

GraphErrors == {"notFound", "cycle", "workflow"}

(* No other check reports an error of the graph's. *)
LEMMA ErrorKinds ==
    ASSUME NEW r \in Request
    PROVE  /\ SpecErrors(r.spec) \subseteq ErrorKind \ GraphErrors
           /\ StepErrors(r.spec) \subseteq ErrorKind \ GraphErrors
           /\ UpdateErrors(r) \subseteq ErrorKind \ GraphErrors
<1>1. \A t : ValidateJobTemplateSpec(t) \subseteq ErrorKind \ GraphErrors
  BY DEF ValidateJobTemplateSpec, validateJobSpec, Broken, Rule, GraphErrors, ErrorKind
<1>2. SpecErrors(r.spec) \subseteq ErrorKind \ GraphErrors
  BY DEF SpecErrors, Broken, Rule, GraphErrors, ErrorKind
<1>3. StepErrors(r.spec) \subseteq ErrorKind \ GraphErrors
  BY <1>1 DEF StepErrors, Broken, Rule, GraphErrors, ErrorKind
<1>4. UpdateErrors(r) \subseteq ErrorKind \ GraphErrors
  BY DEF UpdateErrors, Broken, Rule, GraphErrors, ErrorKind
<1> QED
  BY <1>2, <1>3, <1>4

--------------------------------------------------------------------------------
(* The type invariant.                                                       *)

LEMMA InitType == Init => TypeOK
<1> SUFFICES ASSUME Init PROVE TypeOK
  OBVIOUS
<1>1. request \in Request
  BY ValidationAssumption DEF Init
<1>2. N \in Nat
  BY <1>1, StepsType
<1>3. sorted \in Seq(Names \cup {NoName})
  BY <1>2 DEF Init, N
<1>4. key \in 1..(Len(SortedNames) + 1)
  BY ValidationAssumption DEF Init
<1>5. stack \in Seq(Call) /\ cycle \in Seq(Names)
  BY DEF Init
<1> QED
  BY <1>1, <1>3, <1>4, <1>5 DEF Init, TypeOK

LEMMA NextType == TypeOK /\ [Next]_vars => TypeOK'
<1> SUFFICES ASSUME TypeOK, [Next]_vars PROVE TypeOK'
  OBVIOUS
<1>a. request' = request
  BY DEF Next, topologicalSort, Visit, RefuseCompleted, ValidateSpec, VisitRoot,
         VisitUnknown, VisitTemporary, VisitPermanent, VisitNew, Leave, Unwind,
         SortReturns, CheckSteps, CompareSteps, vars
<1>b. Call' = Call
  BY <1>a DEF Call
<1> USE ValidationAssumption
<1>0. /\ request \in Request
      /\ NamesOf(request.spec) \subseteq Names
      /\ \A n \in NamesOf(request.spec) : steps[n].dependencies \in Seq(Names)
  BY StepsType DEF TypeOK
<1>1. stack \in Seq(Call) /\ Len(stack) \in Nat
  BY DEF TypeOK
<1>2. ASSUME stack # <<>>
      PROVE  /\ Top \in Call
             /\ Advanced \in Seq(Call)
             /\ Caller \in Seq(Call)
  <2>1. Len(stack) \in 1..Len(stack)
    BY <1>1, <1>2
  <2>2. Top \in Call
    BY <1>1, <2>1 DEF Top
  <2>3. [stack[Len(stack)] EXCEPT !.next = @ + 1] \in Call
    BY <2>2 DEF Top, Call
  <2>4. Advanced \in Seq(Call)
    BY <1>1, <2>1, <2>3 DEF Advanced
  <2>5. Caller \in Seq(Call)
    BY <1>1, <2>1 DEF Caller
  <2> QED
    BY <2>2, <2>4, <2>5
<1>3. ASSUME NEW n \in NamesOf(request.spec), NEW s \in Seq(Call)
      PROVE  Append(s, Frame(n)) \in Seq(Call)
  <2>1. Frame(n) \in Call
    BY DEF Frame, Call
  <2> QED
    BY <2>1
<1>4. CASE RefuseCompleted
  BY <1>a, <1>b, <1>4 DEF RefuseCompleted, sortVars, marks, cycleVars, TypeOK, ErrorKind
<1>5. CASE ValidateSpec
  BY <1>a, <1>b, <1>0, <1>5, ErrorKinds DEF ValidateSpec, sortVars, marks, cycleVars, TypeOK
<1>6. CASE VisitRoot
  <2>1. key' \in 1..(Len(SortedNames) + 1)
    BY <1>a, <1>b, <1>6 DEF VisitRoot, TypeOK
  <2>2. /\ stack' \in Seq(Call)
        /\ temporary' \subseteq NamesOf(request.spec)
    BY <1>a, <1>b, <1>1, <1>3, <1>6 DEF VisitRoot, Enter, TypeOK
  <2> QED
    BY <1>a, <1>b, <1>6, <2>1, <2>2 DEF VisitRoot, cycleVars, TypeOK
<1>7. CASE VisitUnknown
  BY <1>a, <1>b, <1>7 DEF VisitUnknown, marks, cycleVars, TypeOK, ErrorKind
<1>8. CASE VisitTemporary
  BY <1>a, <1>b, <1>0, <1>8 DEF VisitTemporary, marks, TypeOK
<1>9. CASE VisitPermanent
  <2>1. stack # <<>> /\ stack' = Advanced
    BY <1>a, <1>b, <1>9 DEF VisitPermanent, VisitsNext, Visiting
  <2> QED
    BY <1>a, <1>b, <1>2, <1>9, <2>1 DEF VisitPermanent, marks, cycleVars, TypeOK
<1>10. CASE VisitNew
  <2>1. PICK m \in NamesOf(request.spec) : stack # <<>> /\ Enter(m, Advanced)
    BY <1>a, <1>b, <1>10 DEF VisitNew, VisitsNext, Visiting
  <2>2. stack' \in Seq(Call) /\ temporary' \subseteq NamesOf(request.spec)
    BY <1>a, <1>b, <1>2, <1>3, <2>1 DEF Enter, TypeOK
  <2> QED
    BY <1>a, <1>b, <1>10, <2>2 DEF VisitNew, cycleVars, TypeOK
<1>11. CASE Leave
  <2>1. stack # <<>> /\ stack' = Caller
    BY <1>a, <1>b, <1>11 DEF Leave, Visited, Visiting
  <2>2. Top.name \in NamesOf(request.spec) \cap Names
    BY <1>0, <1>2, <2>1 DEF Call
  <2> QED
    BY <1>a, <1>b, <1>2, <1>11, <2>1, <2>2 DEF Leave, cycleVars, TypeOK
<1>12. CASE Unwind
  <2>1. stack # <<>> /\ stack' = Caller
    BY <1>a, <1>b, <1>12 DEF Unwind
  <2>2. Top.name \in Names
    BY <1>0, <1>2, <2>1 DEF Call
  <2>3. cycle' \in Seq(Names) /\ cycleStart' \in Names \cup {NoName}
    <3>1. cycle \in Seq(Names) /\ cycleStart \in Names \cup {NoName}
      BY DEF TypeOK
    <3> QED
      BY <3>1, <1>12, <2>2 DEF Unwind
  <2> QED
    BY <1>a, <1>b, <1>2, <1>12, <2>1, <2>3 DEF Unwind, marks, TypeOK
<1>13. CASE SortReturns
  BY <1>a, <1>b, <1>13 DEF SortReturns, sortVars, marks, cycleVars, TypeOK, ErrorKind
<1>14. CASE CheckSteps
  BY <1>a, <1>b, <1>0, <1>14, ErrorKinds DEF CheckSteps, sortVars, marks, cycleVars, TypeOK
<1>15. CASE CompareSteps
  BY <1>a, <1>b, <1>0, <1>15, ErrorKinds DEF CompareSteps, sortVars, marks, cycleVars, TypeOK
<1>16. CASE UNCHANGED vars
  BY <1>a, <1>b, <1>16 DEF vars, sortVars, marks, cycleVars, TypeOK
<1> QED
  BY <1>4, <1>5, <1>6, <1>7, <1>8, <1>9, <1>10, <1>11, <1>12, <1>13, <1>14, <1>15, <1>16
     DEF Next, topologicalSort, Visit

(* Type correctness of the validation, for every set of requests. *)
THEOREM ValidationTypeCorrect == Spec => []TypeOK
<1> QED
  BY InitType, NextType, PTL DEF Spec

--------------------------------------------------------------------------------
(* The inductive invariant of the search.                                    *)

Listed == {sorted[k] : k \in (N + 1)..Len(sorted)}

(* What is listed is what is marked permanent, in order. *)
ListedInOrder ==
    /\ Len(sorted) >= N
    /\ Listed = permanent
    /\ DependenciesFirst

Searching == pc = "sort" /\ ~isCyclic

Dependency(p, k) == steps[stack[p].name].dependencies[k]

(* Call p is inside the visit of its last dependency but for the top call,   *)
(* which is between two; the dependencies visited before are permanent.      *)
CallInOrder(p) ==
    /\ stack[p].next <= Len(steps[stack[p].name].dependencies) + 1
    /\ \A k \in 1..(stack[p].next - 1) :
          \/ Dependency(p, k) \in permanent
          \/ p < Len(stack) /\ k = stack[p].next - 1
    /\ p < Len(stack) =>
          /\ stack[p].next > 1
          /\ Dependency(p, stack[p].next - 1) = stack[p + 1].name

(* The calls in progress are for different steps, which bear the temporary   *)
(* mark.                                                                     *)
CallsInOrder ==
    /\ \A p, q \in 1..Len(stack) : stack[p].name = stack[q].name => p = q
    /\ pc # "sort" => stack = <<>>
    /\ Searching =>
          /\ temporary = {stack[p].name : p \in 1..Len(stack)}
          /\ temporary \cap permanent = {}
          /\ \A p \in 1..Len(stack) : CallInOrder(p)

Marked(keys) ==
    \A k \in 1..keys :
       SortedNames[k] \in NamesOf(request.spec) =>
          SortedNames[k] \in permanent \cup temporary

(* The steps met so far are marked; the graph's errors are justified; and    *)
(* without one of them the search has visited every step.                    *)
Progress ==
    /\ pc = "begin" => errs = {} /\ ~isCyclic /\ temporary = {} /\ permanent = {}
                          /\ key = 1
    /\ pc = "sort" => errs \cap GraphErrors = {}
    /\ Searching => Marked(key - 1)
    /\ isCyclic => ~Acyclic(steps)
    /\ "cycle" \in errs => ~Acyclic(steps)
    /\ "notFound" \in errs => ~Closed(steps)
    /\ (pc \in {"check", "compare", "done", "panic"} /\ errs \cap GraphErrors = {})
          => permanent = NamesOf(request.spec)

SearchInv == ListedInOrder /\ CallsInOrder /\ Progress

LEMMA RequestStays ==
    ASSUME [Next]_vars
    PROVE  /\ request' = request
           /\ steps' = steps
           /\ N' = N
           /\ NamesOf(request.spec)' = NamesOf(request.spec)
<1>1. request' = request
  BY DEF Next, topologicalSort, Visit, RefuseCompleted, ValidateSpec, VisitRoot,
         VisitUnknown, VisitTemporary, VisitPermanent, VisitNew, Leave, Unwind,
         SortReturns, CheckSteps, CompareSteps, vars
<1> QED
  BY <1>1 DEF steps, N

(* What the three operations on the stack do to its calls. *)
LEMMA StackOps ==
    ASSUME TypeOK, stack # <<>>
    PROVE  /\ Len(stack) \in Nat \ {0}
           /\ \A p \in 1..Len(stack) : stack[p] \in Call
           /\ Top = stack[Len(stack)]
           /\ Len(Advanced) = Len(stack)
           /\ Advanced \in Seq(Call)
           /\ \A p \in 1..Len(stack) :
                 /\ Advanced[p].name = stack[p].name
                 /\ Advanced[p].next = IF p = Len(stack) THEN stack[p].next + 1
                                                        ELSE stack[p].next
           /\ Len(Caller) = Len(stack) - 1
           /\ \A p \in 1..(Len(stack) - 1) : Caller[p] = stack[p]
<1>1. stack \in Seq(Call)
  BY DEF TypeOK
<1>2. Len(stack) \in Nat \ {0} /\ \A p \in 1..Len(stack) : stack[p] \in Call
  BY <1>1
<1>3. [stack[Len(stack)] EXCEPT !.next = @ + 1] \in Call
  BY <1>2 DEF Call
<1>4. Advanced \in Seq(Call) /\ Len(Advanced) = Len(stack)
  BY <1>1, <1>2, <1>3 DEF Advanced
<1>5. \A p \in 1..Len(stack) :
         Advanced[p] = IF p = Len(stack) THEN [stack[p] EXCEPT !.next = @ + 1]
                                         ELSE stack[p]
  BY <1>1, <1>2 DEF Advanced
<1>6. \A p \in 1..Len(stack) :
         /\ Advanced[p].name = stack[p].name
         /\ Advanced[p].next = IF p = Len(stack) THEN stack[p].next + 1
                                                ELSE stack[p].next
  BY <1>2, <1>5 DEF Call
<1>7. /\ Len(Caller) = Len(stack) - 1
      /\ \A p \in 1..(Len(stack) - 1) : Caller[p] = stack[p]
  <2> DEFINE n == Len(stack) - 1
  <2>1. n \in Nat
    BY <1>2
  <2>2. Caller = [p \in 1..n |-> stack[p]]
    BY <1>1, <1>2, <2>1 DEF Caller
  <2> QED
    BY <2>1, <2>2
<1> QED
  BY <1>2, <1>4, <1>6, <1>7 DEF Top

--------------------------------------------------------------------------------
(* A step is listed when its call ends, after its dependencies.              *)

LEMMA NextListed ==
    ASSUME TypeOK, ListedInOrder, CallsInOrder, [Next]_vars
    PROVE  ListedInOrder'
<1>0. /\ steps' = steps
      /\ N' = N
      /\ N \in Nat
      /\ sorted \in Seq(Names \cup {NoName})
      /\ Cardinality(NamesOf(request.spec)) = N
      /\ Cardinality(NamesOf(request'.spec)) = N
  BY RequestStays, StepsType DEF TypeOK, N
<1>1. CASE UNCHANGED <<sorted, permanent>>
  BY <1>0, <1>1 DEF ListedInOrder, Listed, DependenciesFirst, DependenciesOf
<1>2. CASE Leave
  <2> DEFINE n == Top.name
  <2>1. /\ sorted' = Append(sorted, n)
        /\ permanent' = permanent \cup {n}
        /\ Searching
        /\ stack # <<>>
        /\ Top.next > Len(steps[n].dependencies)
    BY <1>2 DEF Leave, Visited, Visiting, Searching
  <2>2. n \in Names /\ steps[n].dependencies \in Seq(Names)
    <3>1. request \in Request
      BY DEF TypeOK
    <3>2. n \in NamesOf(request.spec)
      BY <2>1, StackOps DEF Call
    <3> QED
      BY <3>1, <3>2, StepsType
  <2>3. DependenciesOf(steps, n) \subseteq permanent
    <3>1. /\ Len(stack) \in 1..Len(stack)
          /\ stack[Len(stack)] = Top
          /\ Top.next \in Nat
      BY <2>1, StackOps DEF Call
    <3>2. ASSUME NEW k \in 1..Len(steps[n].dependencies)
          PROVE  steps[n].dependencies[k] \in permanent
      <4>1. k \in 1..(Top.next - 1)
        BY <2>1, <2>2, <3>1
      <4>2. \/ Dependency(Len(stack), k) \in permanent
            \/ Len(stack) < Len(stack)
        BY <2>1, <3>1, <4>1 DEF CallsInOrder, CallInOrder
      <4> QED
        BY <3>1, <4>2, StackOps, <2>1 DEF Dependency
    <3> QED
      BY <3>2 DEF DependenciesOf
  <2>4. /\ Len(sorted') = Len(sorted) + 1
        /\ sorted'[Len(sorted) + 1] = n
        /\ \A k \in 1..Len(sorted) : sorted'[k] = sorted[k]
        /\ Len(sorted) \in Nat
    BY <1>0, <2>1, <2>2
  <2>5. Len(sorted) >= N /\ Listed = permanent /\ DependenciesFirst
    BY DEF ListedInOrder
  <2>6. Listed' = Listed \cup {n}
    BY <1>0, <2>4, <2>5 DEF Listed
  <2>7. DependenciesFirst'
    <3>1. SUFFICES ASSUME NEW k \in (N + 1)..Len(sorted'),
                          NEW d \in DependenciesOf(steps, sorted'[k])
                   PROVE  \E l \in (N + 1)..(k - 1) : sorted'[l] = d
      BY <1>0 DEF DependenciesFirst
    <3>2. CASE k = Len(sorted) + 1
      <4>1. d \in Listed
        BY <2>3, <2>4, <2>5, <3>2
      <4>2. PICK l \in (N + 1)..Len(sorted) : sorted[l] = d
        BY <4>1 DEF Listed
      <4> QED
        BY <1>0, <2>4, <3>2, <4>2
    <3>3. CASE k # Len(sorted) + 1
      <4>1. k \in (N + 1)..Len(sorted) /\ sorted'[k] = sorted[k]
        BY <1>0, <2>4, <3>3
      <4>2. PICK l \in (N + 1)..(k - 1) : sorted[l] = d
        BY <1>0, <2>5, <4>1 DEF DependenciesFirst
      <4> QED
        BY <1>0, <2>4, <4>1, <4>2
    <3> QED
      BY <3>2, <3>3
  <2> QED
    BY <1>0, <2>1, <2>4, <2>5, <2>6, <2>7 DEF ListedInOrder
<1> QED
  BY <1>1, <1>2 DEF Next, topologicalSort, Visit, RefuseCompleted, ValidateSpec, VisitRoot,
         VisitUnknown, VisitTemporary, VisitPermanent, VisitNew, Unwind,
         SortReturns, CheckSteps, CompareSteps, vars, sortVars, marks

--------------------------------------------------------------------------------
(* The calls stay in order.                                                  *)

(* Entering a step without a mark, on an empty stack or from the top call.   *)
LEMMA VisitNewKeepsCalls ==
    ASSUME TypeOK, CallsInOrder, VisitNew
    PROVE  CallsInOrder'
<1> DEFINE n == Len(stack)
<1>1. PICK m \in NamesOf(request.spec) \ (temporary \cup permanent) :
         VisitsNext(m) /\ Enter(m, Advanced)
  BY DEF VisitNew
<1>2. /\ Searching /\ Searching' /\ pc' = "sort"
      /\ stack # <<>>
      /\ stack' = Append(Advanced, Frame(m))
      /\ temporary' = temporary \cup {m}
      /\ permanent' = permanent
      /\ Top.next <= Len(steps[Top.name].dependencies)
      /\ m = steps[Top.name].dependencies[Top.next]
  BY <1>1 DEF VisitNew, VisitsNext, Visiting, Searching, Enter, cycleVars
<1>3. steps' = steps
  BY RequestStays DEF VisitNew, Next, topologicalSort, Visit
<1>4. /\ n \in Nat \ {0}
      /\ \A p \in 1..n : stack[p] \in Call
      /\ Top = stack[n]
      /\ Advanced \in Seq(Call)
      /\ Len(Advanced) = n
      /\ \A p \in 1..n :
            /\ Advanced[p].name = stack[p].name
            /\ Advanced[p].next = IF p = n THEN stack[p].next + 1 ELSE stack[p].next
  BY <1>2, StackOps
<1>5. /\ Len(stack') = n + 1
      /\ \A p \in 1..n : stack'[p] = Advanced[p]
      /\ stack'[n + 1] = Frame(m)
  BY <1>2, <1>4
<1>6. /\ \A p \in 1..n : stack'[p].name = stack[p].name
      /\ stack'[n + 1].name = m
      /\ stack'[n + 1].next = 1
      /\ \A p \in 1..n :
            stack'[p].next = IF p = n THEN stack[p].next + 1 ELSE stack[p].next
      /\ \A p \in 1..n : stack[p].next \in Nat \ {0}
  <2>1. /\ \A p \in 1..n : stack'[p].name = Advanced[p].name
        /\ \A p \in 1..n : stack'[p].next = Advanced[p].next
    BY <1>5
  <2>2. stack'[n + 1].name = m /\ stack'[n + 1].next = 1
    BY <1>5 DEF Frame
  <2>3. \A p \in 1..n : stack[p].next \in Nat \ {0}
    BY <1>4 DEF Call
  <2> QED
    BY <1>4, <2>1, <2>2, <2>3
<1>7. /\ \A p, q \in 1..n : stack[p].name = stack[q].name => p = q
      /\ temporary = {stack[p].name : p \in 1..n}
      /\ temporary \cap permanent = {}
      /\ \A p \in 1..n : CallInOrder(p)
  BY <1>2 DEF CallsInOrder
<1>8. \A p, q \in 1..(n + 1) : stack'[p].name = stack'[q].name => p = q
  <2>1. \A p \in 1..n : stack'[p].name # m
    BY <1>1, <1>6, <1>7
  <2> QED
    BY <1>4, <1>6, <1>7, <2>1
<1>9. temporary' = {stack'[p].name : p \in 1..(n + 1)}
  <2>1. ASSUME NEW x \in temporary'
        PROVE  \E p \in 1..(n + 1) : x = stack'[p].name
    <3>1. CASE x = m
      BY <1>4, <1>6, <3>1
    <3>2. CASE x \in temporary
      <4>1. PICK p \in 1..n : x = stack[p].name
        BY <1>7, <3>2
      <4> QED
        BY <1>4, <1>6, <4>1
    <3> QED
      BY <1>2, <3>1, <3>2
  <2>2. \A p \in 1..(n + 1) : stack'[p].name \in temporary'
    <3>1. \A p \in 1..(n + 1) : p \in 1..n \/ p = n + 1
      BY <1>4
    <3> QED
      BY <1>2, <1>6, <1>7, <3>1
  <2> QED
    BY <2>1, <2>2
<1>10. temporary' \cap permanent' = {}
  BY <1>1, <1>2, <1>7
<1>11. ASSUME NEW p \in 1..(n + 1)
       PROVE  CallInOrder(p)'
  <2>1. CASE p = n + 1
    <3>1. Len(steps[m].dependencies) \in Nat
      BY <1>1, StepsType DEF TypeOK
    <3> QED
      BY <1>3, <1>4, <1>5, <1>6, <2>1, <3>1 DEF CallInOrder
  <2>2. CASE p = n
    <3>1. /\ stack'[p].next = stack[n].next + 1
          /\ stack'[p].name = stack[n].name
          /\ stack'[p + 1].name = m
      BY <1>4, <1>6, <2>2
    <3>2. CallInOrder(n)
      BY <1>4, <1>7
    <3>3. \A k \in 1..(stack[n].next - 1) : Dependency(n, k) \in permanent
      BY <1>4, <3>2 DEF CallInOrder
    <3>4. Dependency(n, stack[n].next) = m
      BY <1>2, <1>4 DEF Dependency
    <3>5. \A k : Dependency(p, k)' = Dependency(n, k)
      BY <1>3, <3>1, <2>2 DEF Dependency
    <3>6. stack[n].next <= Len(steps[stack[n].name].dependencies)
      BY <1>2, <1>4
    <3>7. stack[n].next \in Nat \ {0}
      BY <1>4, <1>6
    <3>8. \A k \in 1..(stack'[p].next - 1) :
             Dependency(n, k) \in permanent \/ k = stack'[p].next - 1
      BY <3>1, <3>3, <3>7
    <3>9. stack[n].next + 1 <= Len(steps[stack[n].name].dependencies) + 1
      <4>1. Len(steps[stack[n].name].dependencies) \in Nat
        BY <1>4, StepsType DEF TypeOK, Call
      <4> QED
        BY <3>6, <3>7, <4>1
    <3>10. p < Len(stack') /\ stack'[p].next - 1 = stack[n].next
      BY <1>4, <1>5, <2>2, <3>1, <3>7
    <3>11. stack'[p].next > 1
      BY <3>1, <3>7
    <3> QED
      BY <1>2, <1>3, <3>1, <3>4, <3>5, <3>8, <3>9, <3>10, <3>11 DEF CallInOrder
  <2>3. CASE p \in 1..(n - 1)
    <3>1. /\ p \in 1..n /\ p + 1 \in 1..n /\ p < n
          /\ stack'[p].next = stack[p].next
          /\ stack'[p].name = stack[p].name
          /\ stack'[p + 1].name = stack[p + 1].name
      BY <1>4, <1>6, <2>3
    <3>2. CallInOrder(p)
      BY <1>7, <3>1
    <3>3. \A k : Dependency(p, k)' = Dependency(p, k)
      BY <1>3, <3>1 DEF Dependency
    <3>4. p < Len(stack')
      BY <1>4, <1>5, <3>1
    <3> QED
      BY <1>2, <1>3, <3>1, <3>2, <3>3, <3>4 DEF CallInOrder
  <2> QED
    BY <1>4, <2>1, <2>2, <2>3
<1> QED
  BY <1>2, <1>5, <1>8, <1>9, <1>10, <1>11 DEF CallsInOrder

(* Passing over a dependency that is permanent. *)
LEMMA VisitPermanentKeepsCalls ==
    ASSUME TypeOK, CallsInOrder, VisitPermanent
    PROVE  CallsInOrder'
<1> DEFINE n == Len(stack)
<1>1. PICK m \in permanent \ temporary : VisitsNext(m) /\ stack' = Advanced
  BY DEF VisitPermanent
<1>2. /\ Searching /\ pc' = "sort"
      /\ stack # <<>>
      /\ temporary' = temporary
      /\ permanent' = permanent
      /\ Top.next <= Len(steps[Top.name].dependencies)
      /\ m = steps[Top.name].dependencies[Top.next]
  BY <1>1 DEF VisitPermanent, VisitsNext, Visiting, Searching, marks, cycleVars
<1>3. steps' = steps
  BY RequestStays DEF VisitPermanent, Next, topologicalSort, Visit
<1>4. /\ n \in Nat \ {0}
      /\ \A p \in 1..n : stack[p] \in Call
      /\ Top = stack[n]
      /\ Len(stack') = n
      /\ \A p \in 1..n :
            /\ stack'[p].name = stack[p].name
            /\ stack'[p].next = IF p = n THEN stack[p].next + 1 ELSE stack[p].next
  BY <1>1, <1>2, StackOps
<1>5. \A p \in 1..n : stack[p].next \in Nat \ {0}
  BY <1>4 DEF Call
<1>6. /\ \A p, q \in 1..n : stack[p].name = stack[q].name => p = q
      /\ temporary = {stack[p].name : p \in 1..n}
      /\ temporary \cap permanent = {}
      /\ \A p \in 1..n : CallInOrder(p)
  BY <1>2 DEF CallsInOrder
<1>7. ASSUME NEW p \in 1..n
      PROVE  CallInOrder(p)'
  <2>1. \A k : Dependency(p, k)' = Dependency(p, k)
    BY <1>3, <1>4 DEF Dependency
  <2>2. CallInOrder(p)
    BY <1>6
  <2>3. CASE p = n
    <3>1. stack'[p].next = stack[p].next + 1 /\ stack[p].next \in Nat \ {0}
      BY <1>4, <1>5, <2>3
    <3>2. \A k \in 1..(stack[p].next - 1) : Dependency(p, k) \in permanent
      BY <1>4, <2>2, <2>3 DEF CallInOrder
    <3>3. Dependency(p, stack[p].next) \in permanent
      BY <1>1, <1>2, <1>4, <2>3 DEF Dependency
    <3>4. \A k \in 1..(stack'[p].next - 1) : Dependency(p, k) \in permanent
      BY <3>1, <3>2, <3>3
    <3>5. stack'[p].next <= Len(steps[stack[p].name].dependencies) + 1
      <4>1. Len(steps[stack[p].name].dependencies) \in Nat
        BY <1>4, StepsType DEF TypeOK, Call
      <4>2. stack[p].next <= Len(steps[stack[p].name].dependencies)
        BY <1>2, <1>4, <2>3
      <4> QED
        BY <3>1, <4>1, <4>2
    <3>6. ~(p < Len(stack'))
      BY <1>4, <2>3
    <3> QED
      BY <1>2, <1>3, <1>4, <2>1, <3>4, <3>5, <3>6 DEF CallInOrder
  <2>4. CASE p # n
    <3>1. /\ p + 1 \in 1..n /\ p < n
          /\ stack'[p].next = stack[p].next
          /\ stack'[p].name = stack[p].name
          /\ stack'[p + 1].name = stack[p + 1].name
      BY <1>4, <2>4
    <3> QED
      BY <1>2, <1>3, <1>4, <2>1, <2>2, <3>1 DEF CallInOrder
  <2> QED
    BY <2>3, <2>4
<1>8. \A p, q \in 1..Len(stack') : stack'[p].name = stack'[q].name => p = q
  BY <1>4, <1>6
<1>9. {stack'[p].name : p \in 1..Len(stack')} = {stack[p].name : p \in 1..n}
  BY <1>4
<1>10. /\ temporary' = {stack'[p].name : p \in 1..Len(stack')}
       /\ temporary' \cap permanent' = {}
  BY <1>2, <1>6, <1>9
<1> QED
  BY <1>2, <1>4, <1>7, <1>8, <1>10 DEF CallsInOrder

(* A call that ends: its step, the last dependency of its caller's call, is  *)
(* permanent from then on.                                                   *)
LEMMA LeaveKeepsCalls ==
    ASSUME TypeOK, CallsInOrder, Leave
    PROVE  CallsInOrder'
<1> DEFINE n == Len(stack)
<1>2. /\ Searching /\ pc' = "sort"
      /\ stack # <<>>
      /\ stack' = Caller
      /\ temporary' = temporary \ {Top.name}
      /\ permanent' = permanent \cup {Top.name}
  BY DEF Leave, Visited, Visiting, Searching, cycleVars
<1>3. steps' = steps
  BY RequestStays DEF Leave, Next, topologicalSort, Visit
<1>4. /\ n \in Nat \ {0}
      /\ \A p \in 1..n : stack[p] \in Call
      /\ Top = stack[n]
      /\ Len(stack') = n - 1
      /\ \A p \in 1..(n - 1) : stack'[p] = stack[p]
  BY <1>2, StackOps
<1>5. \A p \in 1..n : stack[p].next \in Nat \ {0}
  BY <1>4 DEF Call
<1>6. /\ \A p, q \in 1..n : stack[p].name = stack[q].name => p = q
      /\ temporary = {stack[p].name : p \in 1..n}
      /\ temporary \cap permanent = {}
      /\ \A p \in 1..n : CallInOrder(p)
  BY <1>2 DEF CallsInOrder
<1>7. ASSUME NEW p \in 1..(n - 1)
      PROVE  CallInOrder(p)'
  <2>1. /\ p \in 1..n /\ p + 1 \in 1..n /\ p < n
        /\ stack'[p] = stack[p]
        /\ stack[p].next \in Nat \ {0}
    BY <1>4, <1>5
  <2>2. CallInOrder(p) /\ \A k : Dependency(p, k)' = Dependency(p, k)
    BY <1>3, <1>6, <2>1 DEF Dependency
  <2>3. CASE p + 1 = n
    <3>1. Dependency(p, stack[p].next - 1) \in permanent'
      BY <1>2, <1>4, <2>1, <2>2, <2>3 DEF CallInOrder
    <3>2. \A k \in 1..(stack[p].next - 1) : Dependency(p, k) \in permanent'
      BY <1>2, <2>1, <2>2, <3>1 DEF CallInOrder
    <3>3. ~(p < Len(stack'))
      BY <1>4, <2>3
    <3> QED
      BY <1>3, <2>1, <2>2, <3>2, <3>3 DEF CallInOrder
  <2>4. CASE p + 1 # n
    <3>1. /\ p < Len(stack')
          /\ stack'[p + 1] = stack[p + 1]
      BY <1>4, <2>4
    <3> QED
      BY <1>2, <1>3, <2>1, <2>2, <3>1 DEF CallInOrder
  <2> QED
    BY <2>3, <2>4
<1>8. \A p, q \in 1..Len(stack') : stack'[p].name = stack'[q].name => p = q
  BY <1>4, <1>6
<1>9. temporary' = {stack'[p].name : p \in 1..Len(stack')}
  <2>1. \A p \in 1..n : stack[p].name = Top.name <=> p = n
    BY <1>4, <1>6
  <2>2. temporary' = {stack[p].name : p \in 1..(n - 1)}
    BY <1>2, <1>4, <1>6, <2>1
  <2> QED
    BY <1>4, <2>2
<1>10. temporary' \cap permanent' = {}
  BY <1>2, <1>6
<1> QED
  BY <1>2, <1>4, <1>7, <1>8, <1>9, <1>10 DEF CallsInOrder

(* The call of visit for a step of no other's dependencies. *)
LEMMA VisitRootKeepsCalls ==
    ASSUME TypeOK, CallsInOrder, VisitRoot
    PROVE  CallsInOrder'
<1>1. /\ Searching /\ pc' = "sort"
      /\ stack = <<>>
      /\ permanent' = permanent
  BY DEF VisitRoot, Searching, cycleVars
<1>2. steps' = steps
  BY RequestStays DEF VisitRoot, Next, topologicalSort
<1>3. Len(stack) = 0 /\ temporary = {}
  BY <1>1 DEF CallsInOrder
<1>4. CASE UNCHANGED <<stack, temporary>>
  BY <1>1, <1>3, <1>4 DEF CallsInOrder
<1>5. CASE ~UNCHANGED <<stack, temporary>>
  <2> DEFINE m == SortedNames[key]
  <2>1. m \in NamesOf(request.spec) \ permanent /\ Enter(m, stack)
    BY <1>5 DEF VisitRoot
  <2>2. /\ stack' = <<Frame(m)>>
        /\ temporary' = {m}
    BY <1>1, <1>3, <2>1 DEF Enter
  <2>3. /\ Len(stack') = 1
        /\ stack'[1].name = m
        /\ stack'[1].next = 1
    BY <2>2 DEF Frame
  <2>4. Len(steps[m].dependencies) \in Nat
    BY <2>1, StepsType DEF TypeOK
  <2>5. CallInOrder(1)'
    BY <1>2, <2>3, <2>4 DEF CallInOrder
  <2>6. \A p : p \in 1..1 <=> p = 1
    OBVIOUS
  <2>7. temporary' = {stack'[p].name : p \in 1..Len(stack')}
    BY <2>2, <2>3, <2>6
  <2> QED
    BY <1>1, <2>1, <2>2, <2>3, <2>5, <2>6, <2>7 DEF CallsInOrder
<1> QED
  BY <1>4, <1>5

LEMMA NextCalls ==
    ASSUME TypeOK, CallsInOrder, Progress, [Next]_vars
    PROVE  CallsInOrder'
<1>0. steps' = steps
  BY RequestStays
<1>1. CASE RefuseCompleted \/ VisitUnknown \/ SortReturns \/ CheckSteps \/ CompareSteps
  <2>1. pc' # "sort" /\ stack' = <<>>
    BY <1>1 DEF RefuseCompleted, VisitUnknown, SortReturns, CheckSteps, CompareSteps,
                sortVars, CallsInOrder
  <2> QED
    BY <2>1 DEF CallsInOrder, Searching
<1>2. CASE ValidateSpec
  <2>1. stack' = <<>> /\ temporary' = {} /\ pc' = "sort"
    BY <1>2 DEF ValidateSpec, sortVars, marks, CallsInOrder, Progress
  <2> QED
    BY <2>1 DEF CallsInOrder
<1>3. CASE VisitRoot
  BY <1>3, VisitRootKeepsCalls
<1>4. CASE VisitTemporary
  <2>1. isCyclic' /\ stack' = stack /\ pc' = pc
    BY <1>4 DEF VisitTemporary
  <2> QED
    BY <2>1 DEF CallsInOrder, Searching
<1>5. CASE VisitPermanent
  BY <1>5, VisitPermanentKeepsCalls
<1>6. CASE VisitNew
  BY <1>6, VisitNewKeepsCalls
<1>7. CASE Leave
  BY <1>7, LeaveKeepsCalls
<1>8. CASE Unwind
  <2>1. isCyclic' /\ stack' = Caller /\ pc' = "sort" /\ stack # <<>>
    BY <1>8 DEF Unwind
  <2>2. /\ Len(stack) \in Nat \ {0}
        /\ Len(stack') = Len(stack) - 1
        /\ \A p \in 1..(Len(stack) - 1) : stack'[p] = stack[p]
    BY <2>1, StackOps
  <2>3. \A p, q \in 1..Len(stack) : stack[p].name = stack[q].name => p = q
    BY DEF CallsInOrder
  <2>4. \A p, q \in 1..Len(stack') : stack'[p].name = stack'[q].name => p = q
    BY <2>2, <2>3
  <2> QED
    BY <2>1, <2>4 DEF CallsInOrder, Searching
<1>9. CASE UNCHANGED vars
  BY <1>0, <1>9 DEF vars, sortVars, marks, cycleVars, CallsInOrder, CallInOrder,
                    Searching, Dependency
<1> QED
  BY <1>1, <1>2, <1>3, <1>4, <1>5, <1>6, <1>7, <1>8, <1>9
     DEF Next, topologicalSort, Visit

--------------------------------------------------------------------------------
(* The search marks what it meets, and its errors are justified.             *)

(* A dependency that bears the temporary mark closes a cycle: the calls from *)
(* its own to the top one.                                                   *)
LEMMA TemporaryIsCycle ==
    ASSUME TypeOK, CallsInOrder, VisitTemporary
    PROVE  ~Acyclic(steps)
<1> DEFINE n == Len(stack)
<1>1. PICK m \in temporary : VisitsNext(m)
  BY DEF VisitTemporary
<1>2. /\ Searching
      /\ stack # <<>>
      /\ Top.next <= Len(steps[Top.name].dependencies)
      /\ m = steps[Top.name].dependencies[Top.next]
  BY <1>1 DEF VisitsNext, Visiting, Searching
<1>3. n \in Nat \ {0} /\ Top = stack[n]
  BY <1>2, StackOps
<1>4. ASSUME NEW p \in 1..n
      PROVE  /\ stack[p].name \in NamesOf(request.spec)
             /\ stack[p].next \in Nat \ {0}
             /\ Len(steps[stack[p].name].dependencies) \in Nat
  <2>1. stack[p] \in Call
    BY <1>2, StackOps
  <2> QED
    BY <2>1, StepsType DEF TypeOK, Call
<1>5. /\ temporary = {stack[p].name : p \in 1..n}
      /\ \A p \in 1..n : CallInOrder(p)
  BY <1>2 DEF CallsInOrder
<1>6. PICK q \in 1..n : stack[q].name = m
  BY <1>5
<1> DEFINE S == {stack[p].name : p \in q..n}
<1>7. S \in SUBSET DOMAIN steps /\ S # {}
  <2>1. S \subseteq NamesOf(request.spec) /\ m \in S
    BY <1>3, <1>4, <1>6
  <2>2. DOMAIN steps = NamesOf(request.spec)
    BY StepsType DEF TypeOK
  <2> QED
    BY <2>1, <2>2
<1>8. ASSUME NEW p \in q..n
      PROVE  DependenciesOf(steps, stack[p].name) \cap S # {}
  <2>1. CASE p = n
    <3>1. Top.next \in 1..Len(steps[stack[p].name].dependencies)
      BY <1>2, <1>3, <1>4, <2>1
    <3>2. m \in DependenciesOf(steps, stack[p].name)
      BY <1>2, <1>3, <2>1, <3>1 DEF DependenciesOf
    <3>3. m \in S
      BY <1>3, <1>6
    <3> QED
      BY <3>2, <3>3
  <2>2. CASE p # n
    <3>1. p \in 1..n /\ p + 1 \in q..n /\ p < n
      BY <1>3, <2>2
    <3>2. /\ stack[p].next - 1 \in 1..Len(steps[stack[p].name].dependencies)
          /\ Dependency(p, stack[p].next - 1) = stack[p + 1].name
      BY <1>4, <1>5, <3>1 DEF CallInOrder
    <3>3. stack[p + 1].name \in DependenciesOf(steps, stack[p].name)
      BY <3>2 DEF Dependency, DependenciesOf
    <3> QED
      BY <3>1, <3>3
  <2> QED
    BY <2>1, <2>2
<1>9. \A x \in S : DependenciesOf(steps, x) \cap S # {}
  BY <1>8
<1> HIDE DEF S
<1> QED
  BY <1>7, <1>9 DEF Acyclic

LEMMA UnknownIsOpen ==
    ASSUME TypeOK, VisitUnknown
    PROVE  ~Closed(steps)
<1>1. PICK m \in Names \ NamesOf(request.spec) : VisitsNext(m)
  BY DEF VisitUnknown
<1>2. /\ stack # <<>>
      /\ Top.next <= Len(steps[Top.name].dependencies)
      /\ m = steps[Top.name].dependencies[Top.next]
  BY <1>1 DEF VisitsNext, Visiting
<1>3. Top \in Call
  BY <1>2, StackOps
<1>4. /\ DOMAIN steps = NamesOf(request.spec)
      /\ Top.name \in NamesOf(request.spec)
      /\ Top.next \in Nat \ {0}
      /\ Len(steps[Top.name].dependencies) \in Nat
  BY <1>3, StepsType DEF TypeOK, Call
<1>5. m \in DependenciesOf(steps, Top.name)
  BY <1>2, <1>4 DEF DependenciesOf
<1> QED
  BY <1>1, <1>4, <1>5 DEF Closed

(* When the search returns to the root for the last time, every step is      *)
(* permanent.                                                                *)
LEMMA AllPermanent ==
    ASSUME TypeOK, CallsInOrder, Searching, stack = <<>>, key > Len(SortedNames),
           Marked(key - 1)
    PROVE  permanent = NamesOf(request.spec)
<1>1. temporary = {}
  BY DEF CallsInOrder
<1>2. key - 1 = Len(SortedNames)
  BY ValidationAssumption DEF TypeOK
<1>3. NamesOf(request.spec) \subseteq Names
  BY StepsType DEF TypeOK
<1>4. \A k \in 1..Len(SortedNames) :
         SortedNames[k] \in NamesOf(request.spec) => SortedNames[k] \in permanent
  BY <1>1, <1>2 DEF Marked
<1>5. NamesOf(request.spec) \subseteq permanent
  BY <1>3, <1>4 DEF Names
<1> QED
  BY <1>5 DEF TypeOK

LEMMA NextMarked ==
    ASSUME TypeOK, CallsInOrder, Searching => Marked(key - 1), pc = "begin" => key = 1,
           [Next]_vars, Searching'
    PROVE  Marked(key - 1)'
<1>0. /\ request' = request
      /\ key \in Nat
  BY RequestStays DEF TypeOK
<1>1. CASE ValidateSpec
  BY <1>0, <1>1 DEF ValidateSpec, sortVars, Marked
<1>2. CASE VisitRoot
  <2>1. /\ Marked(key - 1)
        /\ permanent' = permanent
        /\ key' = key + 1
    BY <1>2 DEF VisitRoot, Searching
  <2>2. /\ temporary \subseteq temporary'
        /\ SortedNames[key] \in NamesOf(request.spec) =>
              SortedNames[key] \in permanent \cup temporary'
    BY <1>2 DEF VisitRoot, Enter
  <2>3. \A k \in 1..(key' - 1) : k \in 1..(key - 1) \/ k = key
    BY <1>0, <2>1
  <2> QED
    BY <1>0, <2>1, <2>2, <2>3 DEF Marked
<1>3. CASE VisitPermanent
  <2>1. Searching /\ UNCHANGED <<key, temporary, permanent>>
    BY <1>3 DEF VisitPermanent, VisitsNext, Visiting, Searching, marks
  <2> QED
    BY <1>0, <2>1 DEF Marked
<1>4. CASE VisitNew
  <2>1. Searching /\ temporary \subseteq temporary' /\ UNCHANGED <<key, permanent>>
    BY <1>4 DEF VisitNew, VisitsNext, Visiting, Searching, Enter
  <2> QED
    BY <1>0, <2>1 DEF Marked
<1>5. CASE Leave
  <2>1. /\ Searching
        /\ permanent' \cup temporary' = permanent \cup temporary \cup {Top.name}
        /\ key' = key
    BY <1>5 DEF Leave, Visited, Visiting, Searching
  <2> QED
    BY <1>0, <2>1 DEF Marked
<1>6. CASE UNCHANGED vars
  BY <1>0, <1>6 DEF vars, sortVars, marks, cycleVars, Marked, Searching
<1> QED
  BY <1>1, <1>2, <1>3, <1>4, <1>5, <1>6
     DEF Next, topologicalSort, Visit, RefuseCompleted, VisitUnknown, VisitTemporary,
         Unwind, SortReturns, CheckSteps, CompareSteps, Searching, cycleVars, sortVars

LEMMA NextProgress ==
    ASSUME TypeOK, CallsInOrder, Progress, [Next]_vars
    PROVE  Progress'
<1>0. steps' = steps /\ NamesOf(request.spec)' = NamesOf(request.spec)
  BY RequestStays
<1>1. Acyclic(steps)' = Acyclic(steps) /\ Closed(steps)' = Closed(steps)
  BY <1>0 DEF Acyclic, Closed, DependenciesOf
<1>2. Searching' => Marked(key - 1)'
  BY NextMarked DEF Progress
<1>3. CASE RefuseCompleted
  <2>1. errs' = {"workflow"} /\ pc' = "done" /\ ~isCyclic' /\ pc = "begin"
    BY <1>3 DEF RefuseCompleted, sortVars, cycleVars, Progress
  <2> QED
    BY <1>2, <2>1 DEF Progress, GraphErrors
<1>4. CASE ValidateSpec
  <2>1. errs' \cap GraphErrors = {} /\ pc' = "sort" /\ ~isCyclic'
    BY <1>4, ErrorKinds DEF ValidateSpec, sortVars, cycleVars, Progress, TypeOK
  <2> QED
    BY <1>2, <2>1 DEF Progress, GraphErrors
<1>5. CASE VisitRoot
  <2>1. UNCHANGED <<pc, errs, isCyclic>> /\ pc = "sort"
    BY <1>5 DEF VisitRoot, cycleVars
  <2> QED
    BY <1>1, <1>2, <2>1 DEF Progress
<1>6. CASE VisitUnknown
  <2>1. /\ errs' = errs \cup {"notFound"} /\ pc' = "check" /\ pc = "sort"
        /\ isCyclic' = isCyclic
    BY <1>6 DEF VisitUnknown, VisitsNext, Visiting, cycleVars
  <2>2. ~Closed(steps)
    BY <1>6, UnknownIsOpen
  <2> QED
    BY <1>1, <1>2, <2>1, <2>2 DEF Progress, GraphErrors
<1>7. CASE VisitTemporary
  <2>1. UNCHANGED <<pc, errs>> /\ pc = "sort"
    BY <1>7 DEF VisitTemporary, VisitsNext, Visiting
  <2>2. ~Acyclic(steps)
    BY <1>7, TemporaryIsCycle
  <2> QED
    BY <1>1, <1>2, <2>1, <2>2 DEF Progress
<1>8. CASE VisitPermanent \/ VisitNew \/ Leave \/ Unwind
  <2>1. UNCHANGED <<pc, errs, isCyclic>> /\ pc = "sort"
    BY <1>8 DEF VisitPermanent, VisitNew, Leave, Unwind, VisitsNext, Visited, Visiting,
                cycleVars
  <2> QED
    BY <1>1, <1>2, <2>1 DEF Progress
<1>9. CASE SortReturns
  <2>1. /\ pc' = "check" /\ pc = "sort" /\ isCyclic' = isCyclic
        /\ permanent' = permanent
        /\ errs' = IF isCyclic THEN errs \cup {"cycle"} ELSE errs
    BY <1>9 DEF SortReturns, sortVars, marks, cycleVars
  <2>2. ~isCyclic => permanent = NamesOf(request.spec)
    BY <1>9, AllPermanent DEF SortReturns, Searching, Progress
  <2> QED
    BY <1>0, <1>1, <1>2, <2>1, <2>2 DEF Progress, GraphErrors
<1>10. CASE CheckSteps
  <2>1. /\ pc' \in {"compare", "done"} /\ pc = "check"
        /\ UNCHANGED <<isCyclic, permanent>>
        /\ errs' \cap GraphErrors = errs \cap GraphErrors
    BY <1>10, ErrorKinds DEF CheckSteps, sortVars, marks, cycleVars, TypeOK
  <2>2. /\ "cycle" \in errs' <=> "cycle" \in errs
        /\ "notFound" \in errs' <=> "notFound" \in errs
    BY <2>1 DEF GraphErrors
  <2> QED
    BY <1>0, <1>1, <1>2, <2>1, <2>2 DEF Progress
<1>11. CASE CompareSteps
  <2>1. /\ pc' \in {"panic", "done"} /\ pc = "compare"
        /\ UNCHANGED <<isCyclic, permanent>>
        /\ errs' \cap GraphErrors = errs \cap GraphErrors
    BY <1>11, ErrorKinds DEF CompareSteps, sortVars, marks, cycleVars, TypeOK
  <2>2. /\ "cycle" \in errs' <=> "cycle" \in errs
        /\ "notFound" \in errs' <=> "notFound" \in errs
    BY <2>1 DEF GraphErrors
  <2> QED
    BY <1>0, <1>1, <1>2, <2>1, <2>2 DEF Progress
<1>12. CASE UNCHANGED vars
  BY <1>0, <1>1, <1>2, <1>12 DEF vars, sortVars, marks, cycleVars, Progress
<1> QED
  BY <1>3, <1>4, <1>5, <1>6, <1>7, <1>8, <1>9, <1>10, <1>11, <1>12
     DEF Next, topologicalSort, Visit

--------------------------------------------------------------------------------
(* The search is right.                                                      *)

LEMMA InitSearchInv == Init => SearchInv
<1> SUFFICES ASSUME Init PROVE SearchInv
  OBVIOUS
<1>1. N \in Nat
  BY InitType, StepsType DEF TypeOK
<1>2. Len(sorted) = N
  BY <1>1 DEF Init, N
<1>3. ListedInOrder
  <2>1. \A k : ~ (k \in (N + 1)..N)
    BY <1>1
  <2> QED
    BY <1>1, <1>2, <2>1 DEF Init, ListedInOrder, Listed, DependenciesFirst, N
<1>4. CallsInOrder
  BY DEF Init, CallsInOrder, Searching
<1>5. Progress
  BY DEF Init, Progress, Searching
<1> QED
  BY <1>3, <1>4, <1>5 DEF SearchInv

THEOREM SearchInvariant == Spec => [](TypeOK /\ SearchInv)
<1>1. Init => TypeOK /\ SearchInv
  BY InitType, InitSearchInv
<1>2. TypeOK /\ SearchInv /\ [Next]_vars => (TypeOK /\ SearchInv)'
  BY NextType, NextListed, NextCalls, NextProgress DEF SearchInv
<1> QED
  BY <1>1, <1>2, PTL DEF Spec

(* A step is listed only after all the steps it depends on, whatever the     *)
(* graph (topologicalSort).                                                  *)
THEOREM SortListsDependenciesFirst == Spec => []DependenciesFirst
<1>1. TypeOK /\ SearchInv => DependenciesFirst
  BY DEF SearchInv, ListedInOrder
<1> QED
  BY <1>1, SearchInvariant, PTL

(* A graph whose steps are all listed in order is closed and acyclic: the    *)
(* step of a set listed first depends on none of the set.                    *)
LEMMA OrderIsAcyclic ==
    ASSUME TypeOK, ListedInOrder, permanent = NamesOf(request.spec)
    PROVE  Closed(steps) /\ Acyclic(steps)
<1>1. /\ DOMAIN steps = Listed
      /\ N \in Nat
      /\ Len(sorted) \in Nat
  BY StepsType DEF TypeOK, ListedInOrder
<1>2. ASSUME NEW k \in (N + 1)..Len(sorted), NEW d \in DependenciesOf(steps, sorted[k])
      PROVE  \E l \in (N + 1)..Len(sorted) : l < k /\ sorted[l] = d
  <2>1. PICK l \in (N + 1)..(k - 1) : sorted[l] = d
    BY DEF ListedInOrder, DependenciesFirst, N
  <2> QED
    BY <1>1, <2>1
<1>3. Closed(steps)
  BY <1>1, <1>2 DEF Closed, Listed
<1>4. ASSUME NEW S \in SUBSET DOMAIN steps, S # {}
      PROVE  \E n \in S : DependenciesOf(steps, n) \cap S = {}
  <2> DEFINE T == {k \in (N + 1)..Len(sorted) : sorted[k] \in S}
  <2>1. T \subseteq Nat /\ T # {}
    BY <1>1, <1>4 DEF Listed
  <2>2. PICK x \in T : \A y \in T : x <= y
    BY <2>1, NatLeast
  <2>3. ASSUME NEW d \in DependenciesOf(steps, sorted[x]), d \in S
        PROVE  FALSE
    <3>1. PICK l \in (N + 1)..Len(sorted) : l < x /\ sorted[l] = d
      BY <1>2, <2>2
    <3>2. x <= l
      BY <2>2, <2>3, <3>1
    <3> QED
      BY <1>1, <3>1, <3>2
  <2> QED
    BY <2>2, <2>3
<1> QED
  BY <1>3, <1>4 DEF Acyclic

(* A missing dependency or a cycle is reported if and only if the steps are  *)
(* not a closed acyclic graph (ValidateWorkflowSteps, topologicalSort).      *)
THEOREM SortVerdictRight == Spec => []VerdictRight
<1>1. ASSUME TypeOK, SearchInv
      PROVE  VerdictRight
  <2> SUFFICES ASSUME Finished, "workflow" \notin errs
               PROVE  errs \cap {"notFound", "cycle"} = {}
                         <=> Closed(steps) /\ Acyclic(steps)
    BY DEF VerdictRight
  <2>1. ASSUME errs \cap {"notFound", "cycle"} = {}
        PROVE  Closed(steps) /\ Acyclic(steps)
    <3>1. permanent = NamesOf(request.spec)
      BY <1>1, <2>1 DEF SearchInv, Progress, GraphErrors, Finished
    <3> QED
      BY <1>1, <3>1, OrderIsAcyclic DEF SearchInv
  <2>2. ASSUME errs \cap {"notFound", "cycle"} # {}
        PROVE  ~ (Closed(steps) /\ Acyclic(steps))
    BY <1>1, <2>2 DEF SearchInv, Progress
  <2> QED
    BY <2>1, <2>2
<1> QED
  BY <1>1, SearchInvariant, PTL

(* The recursion of visit is never deeper than there are steps.              *)
THEOREM SortRecursionBounded == Spec => []RecursionBounded
<1>1. ASSUME TypeOK, SearchInv
      PROVE  RecursionBounded
  <2> DEFINE n == Len(stack)
             f == [p \in 1..n |-> stack[p].name]
  <2>1. n \in Nat /\ \A p \in 1..n : stack[p].name \in NamesOf(request.spec)
    <3>1. stack \in Seq(Call)
      BY <1>1 DEF TypeOK
    <3>2. \A c \in Call : c.name \in NamesOf(request.spec)
      BY DEF Call
    <3> QED
      BY <3>1, <3>2
  <2>2. f \in Injection(1..n, NamesOf(request.spec))
    BY <1>1, <2>1 DEF Injection, IsInjective, SearchInv, CallsInOrder
  <2>3. IsFiniteSet(NamesOf(request.spec)) /\ N \in Nat
    BY <1>1, StepsType DEF TypeOK
  <2>4. Cardinality(1..n) = n
    BY <2>1, FS_Interval
  <2>5. Cardinality(1..n) <= Cardinality(NamesOf(request.spec))
    BY <2>2, <2>3, FS_Injection
  <2> QED
    BY <2>4, <2>5 DEF RecursionBounded
<1> QED
  BY <1>1, SearchInvariant, PTL


--------------------------------------------------------------------------------
(* The cycle that is reported.                                               *)

DependsOn(n, m) == m \in DependenciesOf(steps, n)

(* A cycle that was met is collected from the top of the stack down to the   *)
(* call for cycleStart: each call depends on the one nested in it, the first *)
(* step collected depends on cycleStart, and the call on top on the last.    *)
CycleInProgress ==
    /\ \A p \in 1..(Len(stack) - 1) : DependsOn(stack[p].name, stack[p + 1].name)
    /\ \A k \in 1..(Len(cycle) - 1) : DependsOn(cycle[k + 1], cycle[k])
    /\ cycleStart # NoName =>
          /\ \E p \in 1..Len(stack) : stack[p].name = cycleStart
          /\ cycle = <<>> => DependsOn(Top.name, cycleStart)
          /\ cycle # <<>> => /\ DependsOn(cycle[1], cycleStart)
                             /\ DependsOn(Top.name, cycle[Len(cycle)])
    /\ cycleStart = NoName =>
          /\ cycle = <<>> => NoName \in NamesOf(request.spec)
          /\ cycle # <<>> => DependsOn(cycle[1], cycle[Len(cycle)])

CycleInv ==
    /\ isCyclic => CycleInProgress
    /\ ~isCyclic => cycle = <<>>

(* When a step with a temporary mark is met, the calls on the stack lead     *)
(* from it to the one that met it.                                           *)
LEMMA CycleMet ==
    ASSUME TypeOK, CallsInOrder, CycleInv, VisitTemporary
    PROVE  CycleInv'
<1> DEFINE n == Len(stack)
<1>1. PICK m \in temporary :
         /\ VisitsNext(m)
         /\ isCyclic' = TRUE
         /\ cycleStart' = m
         /\ UNCHANGED <<request, pc, errs, key, stack, marks, cycle>>
  BY DEF VisitTemporary
<1>2. /\ Searching
      /\ stack # <<>>
      /\ Top.next <= Len(steps[Top.name].dependencies)
      /\ m = steps[Top.name].dependencies[Top.next]
  BY <1>1 DEF VisitsNext, Visiting, Searching
<1>3. n \in Nat \ {0} /\ Top = stack[n]
  BY <1>2, StackOps
<1>4. ASSUME NEW p \in 1..n
      PROVE  /\ stack[p].name \in NamesOf(request.spec)
             /\ stack[p].next \in Nat \ {0}
             /\ Len(steps[stack[p].name].dependencies) \in Nat
  <2>1. stack[p] \in Call
    BY <1>2, StackOps
  <2> QED
    BY <2>1, StepsType DEF TypeOK, Call
<1>5. /\ temporary = {stack[p].name : p \in 1..n}
      /\ \A p \in 1..n : CallInOrder(p)
  BY <1>2 DEF CallsInOrder
<1>6. \A p \in 1..(n - 1) : DependsOn(stack[p].name, stack[p + 1].name)
  <2>1. ASSUME NEW p \in 1..(n - 1)
        PROVE  DependsOn(stack[p].name, stack[p + 1].name)
    <3>1. p \in 1..n /\ p < n
      BY <1>3
    <3>2. /\ stack[p].next - 1 \in 1..Len(steps[stack[p].name].dependencies)
          /\ Dependency(p, stack[p].next - 1) = stack[p + 1].name
      BY <1>4, <1>5, <3>1 DEF CallInOrder
    <3> QED
      BY <3>2 DEF Dependency, DependenciesOf, DependsOn
  <2> QED
    BY <2>1
<1>7. DependsOn(Top.name, m)
  <2>1. Top.next \in 1..Len(steps[Top.name].dependencies)
    BY <1>2, <1>3, <1>4
  <2> QED
    BY <1>2, <2>1 DEF DependenciesOf, DependsOn
<1>8. PICK q \in 1..n : stack[q].name = m
  BY <1>5
<1>9. m \in NamesOf(request.spec)
  BY <1>4, <1>8
<1>10. cycle = <<>> /\ Len(cycle) = 0
  BY <1>2 DEF CycleInv, Searching
<1>11. stack' = stack /\ Top' = Top /\ steps' = steps /\ cycle' = cycle
  BY <1>1 DEF Top, steps
<1>12. \A a, b : DependsOn(a, b)' = DependsOn(a, b)
  BY <1>11 DEF DependsOn, DependenciesOf
<1>13. CycleInProgress'
  BY <1>1, <1>6, <1>7, <1>8, <1>9, <1>10, <1>11, <1>12 DEF CycleInProgress
<1> QED
  BY <1>1, <1>13 DEF CycleInv

(* Each call that returns adds its step to the cycle, down to cycleStart.    *)
LEMMA CycleCollected ==
    ASSUME TypeOK, CycleInv, Unwind
    PROVE  CycleInv'
<1> DEFINE n == Len(stack)
           l == Len(cycle)
<1>1. /\ stack # <<>> /\ isCyclic /\ isCyclic' = isCyclic
      /\ stack' = Caller /\ request' = request
  BY DEF Unwind
<1>2. /\ n \in Nat \ {0} /\ Top = stack[n]
      /\ Len(stack') = n - 1
      /\ \A p \in 1..(n - 1) : stack'[p] = stack[p]
      /\ stack[n].name \in Names
  <2>1. stack[n] \in Call
    BY <1>1, StackOps
  <2>2. stack[n].name \in Names
    BY <2>1, StepsType DEF TypeOK, Call
  <2> QED
    BY <1>1, <2>2, StackOps
<1>3. cycle \in Seq(Names) /\ l \in Nat
  BY DEF TypeOK
<1>4. \A a, b : DependsOn(a, b)' = DependsOn(a, b)
  BY <1>1 DEF DependsOn, DependenciesOf, steps
<1>5. CycleInProgress
  BY <1>1 DEF CycleInv
<1>6. \A p \in 1..(Len(stack') - 1) : DependsOn(stack'[p].name, stack'[p + 1].name)
  <2>1. ASSUME NEW p \in 1..(Len(stack') - 1)
        PROVE  DependsOn(stack'[p].name, stack'[p + 1].name)
    <3>1. p \in 1..(n - 1) /\ p + 1 \in 1..(n - 1)
      BY <1>2
    <3> QED
      BY <1>2, <1>5, <3>1 DEF CycleInProgress
  <2> QED
    BY <2>1
<1>7. CASE cycleStart = NoName
  <2>1. cycle' = cycle /\ cycleStart' = cycleStart
    BY <1>7 DEF Unwind
  <2>2. CycleInProgress'
    BY <1>1, <1>4, <1>5, <1>6, <1>7, <2>1 DEF CycleInProgress
  <2> QED
    BY <1>1, <2>2 DEF CycleInv
<1>8. CASE cycleStart # NoName
  <2>1. /\ cycle' = Append(cycle, Top.name)
        /\ cycleStart' = IF Top.name = cycleStart THEN NoName ELSE cycleStart
    BY <1>8 DEF Unwind
  <2>2. /\ Len(cycle') = l + 1
        /\ \A k \in 1..l : cycle'[k] = cycle[k]
        /\ cycle'[l + 1] = Top.name
        /\ cycle' # <<>>
    BY <1>2, <1>3, <2>1
  <2>3. DependsOn(cycle'[1], cycleStart)
    <3>1. CASE cycle = <<>>
      BY <1>5, <1>8, <2>2, <3>1 DEF CycleInProgress
    <3>2. CASE cycle # <<>>
      <4>1. 1 \in 1..l
        BY <1>3, <3>2
      <4> QED
        BY <1>5, <1>8, <2>2, <3>2, <4>1 DEF CycleInProgress
    <3> QED
      BY <3>1, <3>2
  <2>4. \A k \in 1..l : DependsOn(cycle'[k + 1], cycle'[k])
    <3>1. ASSUME NEW k \in 1..l
          PROVE  DependsOn(cycle'[k + 1], cycle'[k])
      <4>1. CASE k = l
        <5>1. cycle # <<>>
          BY <1>3, <4>1
        <5> QED
          BY <1>3, <1>5, <1>8, <2>2, <4>1, <5>1 DEF CycleInProgress
      <4>2. CASE k # l
        <5>1. k \in 1..(l - 1) /\ k + 1 \in 1..l
          BY <1>3, <4>2
        <5> QED
          BY <1>5, <2>2, <5>1 DEF CycleInProgress
      <4> QED
        BY <4>1, <4>2
    <3> QED
      BY <3>1
  <2>5. CASE Top.name = cycleStart
    <3>1. cycleStart' = NoName
      BY <2>1, <2>5
    <3>2. DependsOn(cycle'[1], cycle'[Len(cycle')])
      BY <2>2, <2>3, <2>5
    <3>3. CycleInProgress'
      BY <1>3, <1>4, <1>6, <2>2, <2>4, <3>1, <3>2 DEF CycleInProgress
    <3> QED
      BY <1>1, <3>3 DEF CycleInv
  <2>6. CASE Top.name # cycleStart
    <3>1. cycleStart' = cycleStart
      BY <2>1, <2>6
    <3>2. PICK p \in 1..n : stack[p].name = cycleStart
      BY <1>5, <1>8 DEF CycleInProgress
    <3>3. p \in 1..(n - 1)
      BY <1>2, <2>6, <3>2
    <3>4. \E q \in 1..Len(stack') : stack'[q].name = cycleStart'
      BY <1>2, <3>1, <3>2, <3>3
    <3>5. Top'.name = stack[n - 1].name /\ n - 1 \in 1..(n - 1)
      BY <1>2, <3>3 DEF Top
    <3>6. DependsOn(Top'.name, cycle'[Len(cycle')])
      <4>1. stack[(n - 1) + 1] = stack[n]
        BY <1>2
      <4> QED
        BY <1>2, <1>5, <2>2, <3>5, <4>1 DEF CycleInProgress
    <3>7. CycleInProgress'
      BY <1>3, <1>4, <1>6, <1>8, <2>2, <2>3, <2>4, <3>1, <3>4, <3>6 DEF CycleInProgress
    <3> QED
      BY <1>1, <3>7 DEF CycleInv
  <2> QED
    BY <2>5, <2>6
<1> QED
  BY <1>7, <1>8

LEMMA NextCycle ==
    ASSUME TypeOK, CallsInOrder, CycleInv, [Next]_vars
    PROVE  CycleInv'
<1>1. CASE VisitTemporary
  BY <1>1, CycleMet
<1>2. CASE Unwind
  BY <1>2, CycleCollected
<1>3. CASE VisitRoot \/ VisitUnknown \/ VisitPermanent \/ VisitNew \/ Leave
  <2>1. ~isCyclic /\ UNCHANGED <<isCyclic, cycle>>
    BY <1>3 DEF VisitRoot, VisitUnknown, VisitPermanent, VisitNew, Leave, VisitsNext,
                Visiting, Visited, cycleVars
  <2> QED
    BY <2>1 DEF CycleInv
<1>4. CASE \/ RefuseCompleted \/ ValidateSpec \/ SortReturns \/ CheckSteps \/ CompareSteps
           \/ UNCHANGED vars
  <2>1. UNCHANGED <<request, sortVars>>
    BY <1>4 DEF RefuseCompleted, ValidateSpec, SortReturns, CheckSteps, CompareSteps, vars
  <2>2. UNCHANGED <<stack, cycle, isCyclic, cycleStart, steps, Top>>
    BY <2>1 DEF sortVars, cycleVars, steps, Top
  <2>3. NamesOf(request.spec)' = NamesOf(request.spec)
    BY <2>1
  <2>4. \A a, b : DependsOn(a, b)' = DependsOn(a, b)
    BY <2>2 DEF DependsOn, DependenciesOf
  <2> QED
    BY <2>2, <2>3, <2>4 DEF CycleInv, CycleInProgress
<1> QED
  BY <1>1, <1>2, <1>3, <1>4 DEF Next, topologicalSort, Visit

(* The cycle reported to the user is one, whatever the graph and wherever    *)
(* the search enters it; only a step without a name can hide it              *)
(* (topologicalSort, visit).                                                 *)
THEOREM ReportedCycleIsOne == Spec => []CycleReported
<1>1. Init => CycleInv
  BY DEF Init, CycleInv
<1>2. TypeOK /\ SearchInv /\ CycleInv /\ [Next]_vars => CycleInv'
  BY NextCycle DEF SearchInv
<1>3. ASSUME TypeOK, SearchInv, CycleInv
      PROVE  CycleReported
  <2> SUFFICES ASSUME pc = "check", isCyclic
               PROVE  /\ \A k \in 1..Len(cycle) :
                            cycle[k] \in DependenciesOf(steps, cycle[(k % Len(cycle)) + 1])
                      /\ cycle = <<>> => NoName \in NamesOf(request.spec)
    BY DEF CycleReported
  <2>1. CycleInProgress /\ stack = <<>>
    BY <1>3 DEF CycleInv, SearchInv, CallsInOrder
  <2>2. cycleStart = NoName
    BY <2>1 DEF CycleInProgress
  <2>3. cycle \in Seq(Names) /\ Len(cycle) \in Nat
    BY <1>3 DEF TypeOK
  <2>4. ASSUME NEW k \in 1..Len(cycle)
        PROVE  cycle[k] \in DependenciesOf(steps, cycle[(k % Len(cycle)) + 1])
    <3>1. CASE k = Len(cycle)
      <4>1. k % Len(cycle) = 0 /\ cycle # <<>>
        BY <2>3, <3>1
      <4> QED
        BY <2>1, <2>2, <3>1, <4>1 DEF CycleInProgress, DependsOn
    <3>2. CASE k # Len(cycle)
      <4>1. k % Len(cycle) = k /\ k \in 1..(Len(cycle) - 1)
        BY <2>3, <3>2
      <4> QED
        BY <2>1, <4>1 DEF CycleInProgress, DependsOn
    <3> QED
      BY <3>1, <3>2
  <2> QED
    BY <2>1, <2>2, <2>4 DEF CycleInProgress
<1> QED
  BY <1>1, <1>2, <1>3, SearchInvariant, PTL DEF Spec

--------------------------------------------------------------------------------
(* Updates that are accepted.                                                *)

UniqueNames(spec) ==
    \A k, l \in 1..Len(spec.steps) : spec.steps[k].name = spec.steps[l].name => k = l

(* The workflow that an update replaces was itself validated. *)
ReplacesValid == \A r \in Requests : r.update => UniqueNames(r.oldSpec)

(* Of a list of steps without duplicates the map has every step. *)
LEMMA UniqueStep ==
    ASSUME NEW spec \in WorkflowSpec, UniqueNames(spec), NEW k \in 1..Len(spec.steps)
    PROVE  stepsMap(spec)[spec.steps[k].name] = spec.steps[k]
<1> DEFINE n == spec.steps[k].name
<1>1. n \in NamesOf(spec)
  BY DEF NamesOf
<1>2. Len(spec.steps) \in Nat
  BY DEF WorkflowSpec
<1>3. \A l \in 1..(k - 1) : spec.steps[l].name # n
  BY <1>2 DEF UniqueNames
<1>4. FirstNamed(spec, n) = k
  BY <1>3 DEF FirstNamed, UniqueNames
<1> QED
  BY <1>1, <1>4 DEF stepsMap

(* The step that the map has of a name is one of the list. *)
LEMMA MappedStep ==
    ASSUME NEW spec \in WorkflowSpec, NEW n \in NamesOf(spec)
    PROVE  \E k \in 1..Len(spec.steps) :
              spec.steps[k].name = n /\ stepsMap(spec)[n] = spec.steps[k]
<1> DEFINE T == {k \in 1..Len(spec.steps) : spec.steps[k].name = n}
<1>1. Len(spec.steps) \in Nat
  BY DEF WorkflowSpec
<1>2. T \subseteq Nat /\ T # {}
  BY <1>1 DEF NamesOf
<1>3. PICK x \in T : \A y \in T : x <= y
  BY <1>2, NatLeast
<1>4. \A l \in 1..(x - 1) : spec.steps[l].name # n
  BY <1>1, <1>3
<1>5. /\ FirstNamed(spec, n) \in 1..Len(spec.steps)
      /\ spec.steps[FirstNamed(spec, n)].name = n
  BY <1>3, <1>4 DEF FirstNamed
<1> QED
  BY <1>5 DEF stepsMap

(* Some steps have a first one. *)
LEMMA FirstOfSome ==
    ASSUME NEW S, S \subseteq Names, S # {}
    PROVE  FirstOf(S) # {} /\ FirstOf(S) \subseteq S
<1> DEFINE T == {k \in 1..Len(SortedNames) : SortedNames[k] \in S}
<1>1. Len(SortedNames) \in Nat
  BY ValidationAssumption
<1>2. T \subseteq Nat /\ T # {}
  BY <1>1 DEF Names
<1>3. PICK k \in T : \A j \in T : k <= j
  BY <1>2, NatLeast
<1>4. ASSUME NEW j \in 1..(k - 1)
      PROVE  SortedNames[j] \notin S
  <2>1. j \in 1..Len(SortedNames) /\ ~ (k <= j)
    BY <1>1, <1>2, <1>4
  <2> QED
    BY <1>3, <2>1
<1> QED
  BY <1>3, <1>4 DEF FirstOf

(* An update is accepted only after it was compared, without an error. *)
Compared ==
    (Finished /\ request.update /\ errs = {}) =>
        /\ Len(request.spec.steps) <= Len(request.oldSpec.steps)
        /\ UpdateErrors(request) = {}

LEMMA UpdateCompared ==
    ASSUME CompareSteps, request' = request, request.spec.steps \in Seq(WorkflowStep),
           request.oldSpec.steps \in Seq(WorkflowStep)
    PROVE  Compared'
<1>1. CASE Len(request.spec.steps) > Len(request.oldSpec.steps)
  BY <1>1 DEF CompareSteps, Compared, Finished
<1>2. CASE ~(Len(request.spec.steps) > Len(request.oldSpec.steps))
  <2>1. errs' = errs \cup UpdateErrors(request)
    BY <1>2 DEF CompareSteps
  <2>2. errs' = {} => UpdateErrors(request) = {}
    BY <2>1
  <2>3. UpdateErrors(request)' = UpdateErrors(request)
    BY DEF UpdateErrors, FirstOf, Broken, Rule, Modified, Running, Completed, NamesOf
  <2> QED
    BY <1>2, <2>2, <2>3 DEF Compared
<1> QED
  BY <1>1, <1>2

LEMMA NextCompared == TypeOK /\ Compared /\ [Next]_vars => Compared'
<1> SUFFICES ASSUME TypeOK, Compared, [Next]_vars PROVE Compared'
  OBVIOUS
<1>0. request' = request
  BY RequestStays
<1>1. CASE CompareSteps
  <2>1. /\ request.spec.steps \in Seq(WorkflowStep)
        /\ request.oldSpec.steps \in Seq(WorkflowStep)
    BY DEF TypeOK, Request, WorkflowSpec
  <2> QED
    BY <1>0, <1>1, <2>1, UpdateCompared
<1>2. CASE RefuseCompleted \/ CheckSteps
  BY <1>0, <1>2 DEF RefuseCompleted, CheckSteps, Compared, Finished
<1>3. CASE UNCHANGED vars
  BY <1>0, <1>3 DEF vars, Compared, Finished
<1>4. CASE ValidateSpec \/ topologicalSort
  <2>1. pc' # "done"
    BY <1>4 DEF ValidateSpec, topologicalSort, Visit, VisitRoot, VisitUnknown, VisitTemporary,
                VisitPermanent, VisitNew, VisitsNext, Visiting, Visited, Leave, Unwind,
                SortReturns
  <2> QED
    BY <2>1 DEF Compared, Finished
<1> QED
  BY <1>1, <1>2, <1>3, <1>4 DEF Next

(* An update that is accepted leaves every step that has started as it was,  *)
(* and the selector, when the workflow it replaces has no two steps of one   *)
(* name: comparing the lists position by position loses nothing even where   *)
(* the update moves steps (ValidateWorkflowUpdate,                           *)
(* getWorkflowUnmodifiableSteps).                                            *)
THEOREM AcceptedUpdateKeepsStarted ==
    ASSUME ReplacesValid
    PROVE  Spec => []UpdateKeepsStarted
<1>1. Init => Compared /\ request \in Requests
  BY DEF Init, Compared, Finished
<1>2. request \in Requests /\ [Next]_vars => (request \in Requests)'
  BY RequestStays
<1>3. ASSUME TypeOK, Compared, request \in Requests
      PROVE  UpdateKeepsStarted
  <2> DEFINE new == request.spec
             old == request.oldSpec
             started == Running(request) \cup Completed(request)
  <2> SUFFICES ASSUME Finished, request.update, errs = {}
               PROVE  /\ new.selector = old.selector
                      /\ \A n \in started :
                            n \in DOMAIN steps /\ steps[n] = stepsMap(old)[n]
    BY DEF UpdateKeepsStarted
  <2>1. /\ new \in WorkflowSpec /\ old \in WorkflowSpec
        /\ UniqueNames(old)
        /\ Len(new.steps) \in Nat /\ Len(old.steps) \in Nat
        /\ Len(new.steps) <= Len(old.steps)
    <3>1. new \in WorkflowSpec /\ old \in WorkflowSpec
      BY <1>3 DEF TypeOK, Request
    <3>2. UniqueNames(old)
      BY <1>3 DEF ReplacesValid
    <3>3. Len(new.steps) <= Len(old.steps)
      BY <1>3 DEF Compared
    <3> QED
      BY <3>1, <3>2, <3>3 DEF WorkflowSpec
  <2>2. /\ new.selector = old.selector
        /\ (Modified(request) \cup (NamesOf(old) \ NamesOf(new))) \cap started = {}
    <3>1. UpdateErrors(request) = {}
      BY <1>3 DEF Compared
    <3> DEFINE S == (NamesOf(old) \ NamesOf(new)) \cap started
               changed == Modified(request) \cup FirstOf(S)
               R == {Rule("immutable", new.selector # old.selector),
                     Rule("running", changed \cap Running(request) # {}),
                     Rule("completed", changed \cap Completed(request) # {})}
    <3>2. Broken(R) = {}
      BY <3>1 DEF UpdateErrors
    <3>3. \A x \in R : ~x.broken
      BY <3>2 DEF Broken
    <3>4. new.selector = old.selector /\ changed \cap started = {}
      BY <3>3 DEF Rule
    <3>5. S \subseteq Names
      BY <2>1, StepsMapType
    <3>6. S = {}
      BY <3>4, <3>5, FirstOfSome
    <3> QED
      BY <3>4, <3>6
  <2>3. ASSUME NEW n \in started
        PROVE  n \in DOMAIN steps /\ steps[n] = stepsMap(old)[n]
    <3>1. n \in NamesOf(old) /\ n \in NamesOf(new) /\ n \notin Modified(request)
      BY <2>2, <2>3 DEF Running, Completed
    <3>2. PICK k \in 1..Len(new.steps) :
             new.steps[k].name = n /\ stepsMap(new)[n] = new.steps[k]
      BY <2>1, <3>1, MappedStep
    <3>3. new.steps[k] = old.steps[k] /\ k \in 1..Len(old.steps)
      BY <2>1, <3>1, <3>2 DEF Modified
    <3>4. stepsMap(old)[n] = old.steps[k]
      BY <2>1, <3>2, <3>3, UniqueStep
    <3> QED
      BY <3>1, <3>2, <3>3, <3>4 DEF steps, stepsMap
  <2> QED
    BY <2>2, <2>3
<1> QED
  BY <1>1, <1>2, <1>3, NextCompared, ValidationTypeCorrect, PTL DEF Spec

================================================================================

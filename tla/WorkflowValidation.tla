--------------------------- MODULE WorkflowValidation ---------------------------
(***************************************************************************)
(* Validation of workflows (pkg/api/workflow/v1/validation.go): one request *)
(* is validated, either a workflow alone (ValidateWorkflow) or an update    *)
(* against the workflow it replaces (ValidateWorkflowUpdate).  The          *)
(* recursive function visit of topologicalSort is a stack of frames, one    *)
(* action per way through a call.  Errors are kept as a set of kinds: each  *)
(* names the rule that was broken.                                          *)
(*                                                                          *)
(* Object metadata and label selectors are checked by Kubernetes' library:  *)
(* metadata is taken as right, and a selector is right or not.              *)
(*                                                                          *)
(* The definitions named Mutant... are variants that no specification uses; *)
(* each shows that some property notices a mistake.                         *)
(***************************************************************************)
EXTENDS Integers, Sequences, FiniteSets

CONSTANTS
    SortedNames,     \* the names of steps, in the order of sort.Strings
    Selectors, BadSelectors,
    Requests,        \* the requests that are validated
    NoName,          \* the empty string, which may also be a step's name
    Nil

Names == {SortedNames[k] : k \in 1..Len(SortedNames)}

JobTemplate ==
    [negative : BOOLEAN,      \* a negative parallelism, completions or deadline
     restartPolicy : {"OnFailure", "Never", "Always"},
     selector : BOOLEAN,      \* a selector is given
     manualSelector : BOOLEAN]

WorkflowStep ==
    [name : Names, dependencies : Seq(Names),
     jobTemplate : JobTemplate \cup {Nil},
     externalRef : BOOLEAN]

WorkflowSpec ==
    [activeDeadlineSeconds : Int \cup {Nil},
     selector : Selectors \cup {Nil},
     steps : Seq(WorkflowStep)]

(* The statuses, where there are any, belong to the workflow replaced. *)
Request ==
    [update : BOOLEAN, spec : WorkflowSpec, oldSpec : WorkflowSpec,
     statuses : [Names -> {"none", "running", "complete"}]]

ASSUME ValidationAssumption ==
    /\ SortedNames \in Seq(STRING)
    /\ NoName \in STRING
    /\ BadSelectors \subseteq Selectors
    /\ Requests \subseteq Request

(* The kinds of errors: the rules a workflow or an update may break. *)
ErrorKind ==
    {"deadline", "selector", "duplicate", "required", "negative", "restartPolicy",
     "jobSelector", "manualSelector", "notFound", "cycle",
     "workflow", "immutable", "running", "completed"}

VARIABLES
    request,     \* never changes
    pc,          \* "begin", "sort", "check", "compare", "done" or "panic"
    errs,        \* allErrs
    key,         \* topologicalSort: position in the sorted keys
    stack,       \* calls of visit: the step, the dependency it visits next
    temporary, permanent, sorted,
    isCyclic, cycleStart, cycle

marks == <<temporary, permanent, sorted>>
cycleVars == <<isCyclic, cycleStart, cycle>>
sortVars == <<key, stack, marks, cycleVars>>
vars == <<request, pc, errs, sortVars>>

--------------------------------------------------------------------------------

StepsOf(spec) == {spec.steps[k] : k \in 1..Len(spec.steps)}

NamesOf(spec) == {spec.steps[k].name : k \in 1..Len(spec.steps)}

(* stepsMap: of the steps of one name, the first. *)
FirstNamed(spec, n) ==
    CHOOSE k \in 1..Len(spec.steps) :
        /\ spec.steps[k].name = n
        /\ \A l \in 1..(k - 1) : spec.steps[l].name # n

stepsMap(spec) == [n \in NamesOf(spec) |-> spec.steps[FirstNamed(spec, n)]]

steps == stepsMap(request.spec)

DependenciesOf(g, n) == {g[n].dependencies[k] : k \in 1..Len(g[n].dependencies)}

(* The kinds among E whose rule is broken. *)
Broken(E) == {e.kind : e \in {x \in E : x.broken}}

Rule(kind, broken) == [kind |-> kind, broken |-> broken]

validateJobSpec(t) ==
    Broken({Rule("negative", t.negative),
            Rule("restartPolicy", t.restartPolicy \notin {"OnFailure", "Never"})})

ValidateJobTemplateSpec(t) ==
    validateJobSpec(t) \cup
    Broken({Rule("jobSelector", t.selector),
            Rule("manualSelector", t.manualSelector)})

(* ValidateWorkflowSpec's own checks. *)
SpecErrors(spec) ==
    Broken({Rule("deadline", spec.activeDeadlineSeconds # Nil
                                /\ spec.activeDeadlineSeconds < 0),
            Rule("selector", spec.selector \in BadSelectors \cup {Nil})})

(* ValidateWorkflowSteps' checks of the list and of each step. *)
StepErrors(spec) ==
    Broken({Rule("duplicate", \E k, l \in 1..Len(spec.steps) :
                                 k # l /\ spec.steps[k].name = spec.steps[l].name),
            Rule("required", \E s \in StepsOf(spec) :
                                s.jobTemplate = Nil /\ ~s.externalRef)})
    \cup UNION {ValidateJobTemplateSpec(s.jobTemplate) :
                   s \in {x \in StepsOf(spec) : x.jobTemplate # Nil}}

(* getWorkflowUnmodifiableSteps *)
Running(r) == {n \in NamesOf(r.oldSpec) : r.statuses[n] = "running"}

Completed(r) == {n \in NamesOf(r.oldSpec) : r.statuses[n] = "complete"}

MutantModified(r) ==
    {r.spec.steps[k].name : k \in {l \in 1..Len(r.spec.steps) :
        r.spec.steps[l].dependencies # r.oldSpec.steps[l].dependencies}}

(* The steps that differ from the old step at their position. *)
Modified(r) ==
    {r.spec.steps[k].name : k \in {l \in 1..Len(r.spec.steps) :
        r.spec.steps[l] # r.oldSpec.steps[l]}}

(* The first of some steps, in the order of their sorted names. *)
FirstOf(S) ==
    {SortedNames[k] : k \in {l \in 1..Len(SortedNames) :
        /\ SortedNames[l] \in S
        /\ \A j \in 1..(l - 1) : SortedNames[j] \notin S}}

(* Each modified step is refused; of the removed ones only the first that    *)
(* has started, where the function returns.                                  *)
UpdateErrors(r) ==
    LET removed == NamesOf(r.oldSpec) \ NamesOf(r.spec)
        changed == Modified(r)
                   \cup FirstOf(removed \cap (Running(r) \cup Completed(r)))
    IN  Broken({Rule("immutable", r.spec.selector # r.oldSpec.selector),
                Rule("running", changed \cap Running(r) # {}),
                Rule("completed", changed \cap Completed(r) # {})})

--------------------------------------------------------------------------------

Init ==
    /\ request \in Requests
    /\ pc = "begin"
    /\ errs = {}
    /\ key = 1
    /\ stack = <<>>
    /\ temporary = {}
    /\ permanent = {}
    /\ sorted = [k \in 1..Cardinality(NamesOf(request.spec)) |-> NoName]
    /\ isCyclic = FALSE
    /\ cycleStart = NoName
    /\ cycle = <<>>

(* An update of a workflow whose steps are all complete is refused at once. *)
AllCompleted ==
    request.update /\ Cardinality(Completed(request)) = Len(request.oldSpec.steps)

RefuseCompleted ==
    /\ pc = "begin"
    /\ AllCompleted
    /\ errs' = {"workflow"}
    /\ pc' = "done"
    /\ UNCHANGED <<request, sortVars>>

ValidateSpec ==
    /\ pc = "begin"
    /\ ~AllCompleted
    /\ errs' = SpecErrors(request.spec)
    /\ pc' = "sort"
    /\ UNCHANGED <<request, sortVars>>

(* topologicalSort: the call of visit on top of the stack. *)
Top == stack[Len(stack)]

Visiting == pc = "sort" /\ stack # <<>> /\ ~isCyclic

(* The dependency it visits next. *)
VisitsNext(m) ==
    /\ Visiting
    /\ Top.next <= Len(steps[Top.name].dependencies)
    /\ m = steps[Top.name].dependencies[Top.next]

Advanced == [stack EXCEPT ![Len(stack)].next = @ + 1]

MutantFrame(n) == [name |-> n, next |-> 0]

Frame(n) == [name |-> n, next |-> 1]

MutantEnter(n, s) ==
    /\ stack' = Append(s, Frame(n))
    /\ UNCHANGED temporary

(* A call of visit that marks its step temporary. *)
Enter(n, s) ==
    /\ stack' = Append(s, Frame(n))
    /\ temporary' = temporary \cup {n}

VisitRoot ==
    /\ pc = "sort"
    /\ stack = <<>>
    /\ ~isCyclic
    /\ key <= Len(SortedNames)
    /\ key' = key + 1
    /\ IF SortedNames[key] \in NamesOf(request.spec) \ permanent
       THEN Enter(SortedNames[key], stack)
       ELSE UNCHANGED <<stack, temporary>>
    /\ UNCHANGED <<request, pc, errs, permanent, sorted, cycleVars>>

VisitUnknown ==
    /\ \E m \in Names \ NamesOf(request.spec) : VisitsNext(m)
    /\ errs' = errs \cup {"notFound"}
    /\ pc' = "check"
    /\ stack' = <<>>
    /\ UNCHANGED <<request, key, marks, cycleVars>>

VisitTemporary ==
    \E m \in temporary :
        /\ VisitsNext(m)
        /\ isCyclic' = TRUE
        /\ cycleStart' = m
        /\ UNCHANGED <<request, pc, errs, key, stack, marks, cycle>>

MutantVisitPermanent ==
    \E m \in permanent \cup temporary :
        /\ VisitsNext(m)
        /\ stack' = Advanced
        /\ UNCHANGED <<request, pc, errs, key, marks, cycleVars>>

VisitPermanent ==
    \E m \in permanent \ temporary :
        /\ VisitsNext(m)
        /\ stack' = Advanced
        /\ UNCHANGED <<request, pc, errs, key, marks, cycleVars>>

VisitNew ==
    \E m \in NamesOf(request.spec) \ (temporary \cup permanent) :
        /\ VisitsNext(m)
        /\ Enter(m, Advanced)
        /\ UNCHANGED <<request, pc, errs, key, permanent, sorted, cycleVars>>

Caller == SubSeq(stack, 1, Len(stack) - 1)

Visited ==
    Visiting /\ Top.next > Len(steps[Top.name].dependencies)

MutantLeave ==
    /\ Visited
    /\ permanent' = permanent \cup {Top.name}
    /\ sorted' = Append(sorted, Top.name)
    /\ stack' = Caller
    /\ UNCHANGED <<request, pc, errs, key, temporary, cycleVars>>

Leave ==
    /\ Visited
    /\ temporary' = temporary \ {Top.name}
    /\ permanent' = permanent \cup {Top.name}
    /\ sorted' = Append(sorted, Top.name)
    /\ stack' = Caller
    /\ UNCHANGED <<request, pc, errs, key, cycleVars>>

MutantUnwind ==
    /\ pc = "sort"
    /\ stack # <<>>
    /\ isCyclic
    /\ cycle' = Append(cycle, Top.name)
    /\ stack' = Caller
    /\ UNCHANGED <<request, pc, errs, key, marks, isCyclic, cycleStart>>

(* A cycle has been detected: each call returns to its caller, and those     *)
(* that belong to the cycle add their step to it.                            *)
Unwind ==
    /\ pc = "sort"
    /\ stack # <<>>
    /\ isCyclic
    /\ IF cycleStart = NoName
       THEN UNCHANGED <<cycle, cycleStart>>
       ELSE /\ cycle' = Append(cycle, Top.name)
            /\ cycleStart' = IF Top.name = cycleStart THEN NoName ELSE cycleStart
    /\ stack' = Caller
    /\ UNCHANGED <<request, pc, errs, key, marks, isCyclic>>

SortReturns ==
    /\ pc = "sort"
    /\ stack = <<>>
    /\ isCyclic \/ key > Len(SortedNames)
    /\ errs' = IF isCyclic THEN errs \cup {"cycle"} ELSE errs
    /\ pc' = "check"
    /\ UNCHANGED <<request, sortVars>>

CheckSteps ==
    /\ pc = "check"
    /\ errs' = errs \cup StepErrors(request.spec)
    /\ pc' = IF request.update THEN "compare" ELSE "done"
    /\ UNCHANGED <<request, sortVars>>

(* An update with more steps than before reads past the end of the old ones. *)
CompareSteps ==
    /\ pc = "compare"
    /\ IF Len(request.spec.steps) > Len(request.oldSpec.steps)
       THEN pc' = "panic" /\ UNCHANGED errs
       ELSE pc' = "done" /\ errs' = errs \cup UpdateErrors(request)
    /\ UNCHANGED <<request, sortVars>>

Visit ==
    VisitUnknown \/ VisitTemporary \/ VisitPermanent \/ VisitNew \/ Leave \/ Unwind

topologicalSort == VisitRoot \/ Visit \/ SortReturns

Next ==
    \/ RefuseCompleted \/ ValidateSpec
    \/ topologicalSort
    \/ CheckSteps \/ CompareSteps

Spec == Init /\ [][Next]_vars

--------------------------------------------------------------------------------
(* Properties.                                                               *)

(* A call of visit: its step, and which dependency it visits next. *)
Call == [name : NamesOf(request.spec), next : Nat \ {0}]

(* Type invariant of the validation. *)
TypeOK ==
    /\ request \in Request
    /\ pc \in {"begin", "sort", "check", "compare", "done", "panic"}
    /\ errs \subseteq ErrorKind
    /\ key \in 1..(Len(SortedNames) + 1)
    /\ stack \in Seq(Call)
    /\ temporary \subseteq NamesOf(request.spec)
    /\ permanent \subseteq NamesOf(request.spec)
    /\ sorted \in Seq(Names \cup {NoName})
    /\ isCyclic \in BOOLEAN
    /\ cycleStart \in Names \cup {NoName}
    /\ cycle \in Seq(Names)

Acyclic(g) ==
    \A S \in SUBSET DOMAIN g :
        S # {} => \E n \in S : DependenciesOf(g, n) \cap S = {}

Closed(g) == \A n \in DOMAIN g : DependenciesOf(g, n) \subseteq DOMAIN g

Finished == pc = "done"

(* The verdict on the graph of steps is right in both directions: when a     *)
(* workflow is validated, a missing dependency or a cycle is reported if and *)
(* only if the steps, the first of each name, are not a closed acyclic graph *)
(* (topologicalSort).                                                        *)
VerdictRight ==
    (Finished /\ "workflow" \notin errs) =>
        (errs \cap {"notFound", "cycle"} = {} <=> Closed(steps) /\ Acyclic(steps))

(* At any point of the sort, a step is listed only after all the steps it    *)
(* depends on.  (The list begins with as many empty names as there are       *)
(* steps: topologicalSort appends to a slice made with that length.)         *)
DependenciesFirst ==
    \A k \in (Cardinality(NamesOf(request.spec)) + 1)..Len(sorted) :
        \A d \in DependenciesOf(steps, sorted[k]) :
            \E l \in (Cardinality(NamesOf(request.spec)) + 1)..(k - 1) : sorted[l] = d

(* The cycle reported to the user is one: each step listed is a dependency   *)
(* of the next, and the last of the first.  A step without a name can hide   *)
(* it, as visit takes an empty cycleStart for the end of the cycle.          *)
CycleReported ==
    (pc = "check" /\ isCyclic) =>
        /\ \A k \in 1..Len(cycle) :
              cycle[k] \in DependenciesOf(steps, cycle[(k % Len(cycle)) + 1])
        /\ cycle = <<>> => NoName \in NamesOf(request.spec)

(* The recursion of visit is never deeper than there are steps, whatever the *)
(* graph, because no call is nested in another one for the same step.        *)
RecursionBounded == Len(stack) <= Cardinality(NamesOf(request.spec))

(* An update that is accepted leaves every step that has started as it was,  *)
(* wherever the update moves it, and leaves the selector (documented in      *)
(* docs/original_k8s_proposal.md, "Updating").                               *)
UpdateKeepsStarted ==
    (Finished /\ request.update /\ errs = {}) =>
        /\ request.spec.selector = request.oldSpec.selector
        /\ \A n \in Running(request) \cup Completed(request) :
              n \in DOMAIN steps /\ steps[n] = stepsMap(request.oldSpec)[n]

================================================================================

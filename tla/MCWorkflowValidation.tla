-------------------------- MODULE MCWorkflowValidation --------------------------
(* Small requests for TLC. *)
EXTENDS WorkflowValidation

(* The names, one of them empty and "z" never that of a step. *)
MCNames == <<"", "a", "b", "z">>
StepNames == {"", "a", "b"}

MCSelectors == {"app=x", "app=y", "!"}
MCBadSelectors == {"!"}

UpTo2(S) == {<<>>} \cup {<<x>> : x \in S} \cup {<<x, y>> : x \in S, y \in S}

Good == [negative |-> FALSE, restartPolicy |-> "Never",
         selector |-> FALSE, manualSelector |-> FALSE]

Templates ==
    {Nil, Good, [Good EXCEPT !.negative = TRUE], [Good EXCEPT !.restartPolicy = "Always"],
     [Good EXCEPT !.selector = TRUE], [Good EXCEPT !.manualSelector = TRUE]}

JobStep(n, deps) ==
    [name |-> n, dependencies |-> deps, jobTemplate |-> Good, externalRef |-> FALSE]

GoodSpec(list) ==
    [activeDeadlineSeconds |-> Nil, selector |-> "app=x", steps |-> list]

Unstarted == [n \in {MCNames[k] : k \in 1..4} |-> "none"]

Creation(spec) ==
    [update |-> FALSE, spec |-> spec, oldSpec |-> spec, statuses |-> Unstarted]

(* Every graph of three steps with up to two dependencies each. *)
Graphs3 ==
    {Creation(GoodSpec(<<JobStep("b", d), JobStep("", e), JobStep("a", f)>>)) :
        d \in UpTo2(StepNames \cup {"z"}), e \in UpTo2(StepNames), f \in UpTo2(StepNames)}

(* Two steps, perhaps of one name, of every kind. *)
AnySteps ==
    {[name |-> n, dependencies |-> d, jobTemplate |-> t, externalRef |-> x] :
        n \in {"a", "b"}, d \in {<<>>, <<"a">>}, t \in Templates, x \in BOOLEAN}

Kinds ==
    {Creation([activeDeadlineSeconds |-> dl, selector |-> sel, steps |-> <<s, t>>]) :
        dl \in {Nil, 0, -1}, sel \in {Nil, "app=x", "!"}, s \in AnySteps,
        t \in {JobStep("a", <<>>), JobStep("b", <<"a">>)}}

(* Updates of lists of up to two steps to lists of up to three. *)
Contents == {JobStep("a", <<>>), JobStep("b", <<>>), JobStep("b", <<"a">>),
             [JobStep("a", <<>>) EXCEPT !.jobTemplate.manualSelector = TRUE],
             [JobStep("a", <<>>) EXCEPT !.jobTemplate = Nil, !.externalRef = TRUE]}

Updates ==
    {[update |-> TRUE, spec |-> [GoodSpec(new) EXCEPT !.selector = sel],
      oldSpec |-> GoodSpec(old),
      statuses |-> [Unstarted EXCEPT !["a"] = sa, !["b"] = sb]] :
        new \in UpTo2(Contents) \cup {<<x, y, JobStep("", <<>>)>> : x, y \in Contents},
        old \in {<<>>, <<JobStep("a", <<>>)>>, <<JobStep("b", <<>>), JobStep("a", <<>>)>>,
                 <<JobStep("a", <<>>), JobStep("b", <<"a">>)>>},
        sel \in {"app=x", "app=y"},
        sa \in {"none", "running", "complete"}, sb \in {"none", "running", "complete"}}

MCRequests == Graphs3 \cup Kinds \cup Updates

================================================================================

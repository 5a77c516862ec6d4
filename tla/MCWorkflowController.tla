-------------------------- MODULE MCWorkflowController --------------------------
(* Small instances of WorkflowController for TLC. *)
EXTENDS WorkflowRefinement, WorkflowWakeup

MCName == "wfl"

(* Labels: the controller's two keys and the user's. *)
MCKeys == {WorkflowLabelKey, WorkflowStepLabelKey, "app"}
MCValues == {"wfl", "a", "b", "x"}
NoLabels == [k \in {} |-> "x"]
AppLabel == [k \in {"app"} |-> "x"]

(* Two steps in a chain: b depends on a. *)
ABSteps == {"a", "b"}
ABSeq == <<"a", "b">>
ChainDeps == [s \in ABSteps |-> IF s = "b" THEN {"a"} ELSE {}]
PlainTemplates == [s \in ABSteps |-> NoLabels]

(* A step with a job and an external one, on which it does not depend. *)
NoDeps == [s \in ABSteps |-> {}]
StepB == {"b"}

NoSteps == {}

Good == [defaulted |-> TRUE, valid |-> TRUE, started |-> FALSE]
OnlyGood == {Good}
GoodOrInvalid == {Good, [Good EXCEPT !.valid = FALSE]}
OnlyUndefaulted == {[Good EXCEPT !.defaulted = FALSE]}

================================================================================

---------------------------- MODULE MCWorkflowSystem ----------------------------
(* A small instance of WorkflowSystem for TLC. *)
EXTENDS WorkflowSystem

MCName == "wfl"
MCKeys == {WorkflowLabelKey, WorkflowStepLabelKey, "app"}
MCValues == {"wfl", "a", "b", "x"}
NoLabels == [k \in {} |-> "x"]

(* The labels of the step's jobs, so that no pass adds to the selector. *)
FullSelector ==
    [k \in MCKeys |-> CASE k = WorkflowLabelKey -> MCName
                         [] k = WorkflowStepLabelKey -> "a"
                         [] OTHER -> "x"]

(* One step. *)
ASteps == {"a"}
ASeq == <<"a">>
ADeps == [s \in ASteps |-> {}]
NoSteps == {}
ATemplates == [s \in ASteps |-> NoLabels]

Good == [defaulted |-> TRUE, valid |-> TRUE, started |-> FALSE]
Invalid == [defaulted |-> TRUE, valid |-> FALSE, started |-> FALSE]

GoodOrInvalid == {Good, Invalid}

================================================================================

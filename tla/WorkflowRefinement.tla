--------------------------- MODULE WorkflowRefinement ---------------------------
(***************************************************************************)
(* The Workflow controller implements WorkflowExecution: its caches,       *)
(* queue, passes, conflicts, faults and restarts are invisible to those    *)
(* who read the stored workflow.                                           *)
(***************************************************************************)
EXTENDS WorkflowController

(* What is published of a workflow is never mistaken for its absence. *)
ASSUME ReportAssumption ==
    Nil \notin [status : [Steps -> StepStatus], conds : Seq({"Complete", "Failed"})]

(* What a reader of the API server sees of the workflow. *)
Report == IF wf = Nil THEN Nil ELSE [status |-> wf.status, conds |-> wf.conds]

Execution == INSTANCE WorkflowExecution WITH
    Absent <- Nil, done <- StepsRun, report <- Report

(* Whatever the age of the copies a pass decides on and whichever updates    *)
(* conflict, fail or repeat, each step of the system is for the reader a     *)
(* step of a workflow's execution or nothing at all (sync, updateWorkflow).  *)
ImplementsExecution == Execution!Spec

================================================================================

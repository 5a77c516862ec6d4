--------------------------- MODULE WorkflowExecution ---------------------------
(***************************************************************************)
(* What the Workflow controller promises to those who only read the        *)
(* workflow of one name and see its steps run: no caches, no queue, no     *)
(* passes and no faults.  WorkflowRefinement shows that the controller     *)
(* implements it.                                                          *)
(***************************************************************************)
EXTENDS Naturals, Sequences

CONSTANTS
    Steps,
    Deps,      \* Deps[s]: the steps s depends on
    Absent     \* there is no workflow

VARIABLES
    done,      \* the steps that have run to their end
    report     \* the published [status, conds] of the workflow, or Absent

executionVars == <<done, report>>

Level == [none |-> 0, running |-> 1, complete |-> 2]

(* A status that may be published: it reports no more than has happened and  *)
(* no step before those it depends on.                                       *)
Truthful(st) ==
    /\ \A s \in Steps : st[s] = "complete" => s \in done
    /\ \A s \in Steps : st[s] # "none" => \A d \in Deps[s] : st[d] = "complete"

NoNews == [s \in Steps |-> "none"]

Submit == report = Absent /\ report' = [status |-> NoNews, conds |-> <<>>]

Remove == report # Absent /\ report' = Absent

(* Steps only advance; Complete is added once all of them are complete, and  *)
(* each condition stays.                                                     *)
Advance ==
    /\ report # Absent
    /\ report' # Absent
    /\ Truthful(report'.status)
    /\ \A s \in Steps : Level[report.status[s]] <= Level[report'.status[s]]
    /\ \/ report'.conds = report.conds
       \/ /\ report'.conds = Append(report.conds, "Complete")
          /\ \A s \in Steps : report'.status[s] = "complete"

Fail ==
    /\ report # Absent
    /\ report' = [report EXCEPT !.conds = Append(@, "Failed")]

(* A step ends, having begun after all those it depends on. *)
StepEnds(s) ==
    /\ s \notin done
    /\ Deps[s] \subseteq done
    /\ done' = done \cup {s}
    /\ UNCHANGED report

Init == done = {} /\ report = Absent

Next ==
    \/ (Submit \/ Remove \/ Advance \/ Fail) /\ UNCHANGED done
    \/ \E s \in Steps : StepEnds(s)

Spec == Init /\ [][Next]_executionVars

================================================================================

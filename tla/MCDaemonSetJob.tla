----------------------------- MODULE MCDaemonSetJob -----------------------------
(* Small instances of DaemonSetJobController for TLC. *)
EXTENDS DaemonSetJobWakeup

MCKeys == {DaemonSetJobLabelKey, "app"}
MCValues == {"dsj", "x"}
NoLabels == [k \in {} |-> "x"]
AppLabel == [k \in {"app"} |-> "x"]
MCTemplateLabels == [t \in Templates |-> NoLabels]

(* At first one node only is in the pool. *)
TwoNodes == {"n1", "n2"}
OneNode == {"n1"}
PoolP == {"p"}
OneInPool == [n \in Nodes |-> IF n = "n1" THEN "p" ELSE Nil]
NoJob == {}

Good == [defaulted |-> TRUE, valid |-> TRUE, tmpl |-> "t1", pools |-> {"p"},
         deadline |-> Nil]
(* Another template, and a deadline. *)
Limited == [Good EXCEPT !.tmpl = "t2", !.deadline = 1]
Invalid == [Good EXCEPT !.valid = FALSE]

OnlyUndefaulted == {[Good EXCEPT !.defaulted = FALSE]}
GoodChanges == {Good, Limited, Invalid}

T1 == {"t1"}
T12 == {"t1", "t2"}

================================================================================

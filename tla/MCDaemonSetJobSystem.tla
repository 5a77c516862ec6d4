-------------------------- MODULE MCDaemonSetJobSystem --------------------------
(* A small instance of DaemonSetJobSystem for TLC. *)
EXTENDS DaemonSetJobSystem

MCKeys == {DaemonSetJobLabelKey, "app"}
MCValues == {"dsj", "x"}
NoLabels == [k \in {} |-> "x"]
AppLabel == [k \in {"app"} |-> "x"]
MCTemplateLabels == [t \in Templates |-> NoLabels]

OneNode == {"n1"}
PoolP == {"p"}
OneInPool == [n \in Nodes |-> "p"]

(* A job of another namespace, for a DaemonSetJob of the same name. *)
JobElsewhere ==
    {[id |-> 0, uid |-> 0, ns |-> "other", labels |-> [k \in {DaemonSetJobLabelKey} |-> "dsj"],
      node |-> "n1", tmpl |-> "t1", status |-> "active", deleting |-> FALSE]}

OnlyGood == {[defaulted |-> TRUE, valid |-> TRUE, tmpl |-> "t1", pools |-> {"p"},
              deadline |-> Nil]}
T1 == {"t1"}

================================================================================

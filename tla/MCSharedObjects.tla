---------------------------- MODULE MCSharedObjects ----------------------------
(* Instances of SharedObjects for TLC.                                       *)
EXTENDS SharedObjects

(* Nothing set, only the completions, and all of it. *)
MCTemplates ==
    {[completions |-> Nil, parallelism |-> Nil, node |-> FALSE],
     [completions |-> 2, parallelism |-> Nil, node |-> FALSE],
     [completions |-> 2, parallelism |-> 2, node |-> FALSE]}

================================================================================

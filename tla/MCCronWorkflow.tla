----------------------------- MODULE MCCronWorkflow -----------------------------
(* Instances of CronWorkflow for TLC. *)
EXTENDS CronWorkflow

CONSTANTS c1, x1

(* One time is due at 1, two at 2, and too many at 3. *)
Every == [schedule |-> {1, 2, 3}, startingDeadline |-> Nil, suspend |-> FALSE,
          active |-> {}, last |-> Nil]

(* One that was scheduled before.  At 3, when no time comes, the first one   *)
(* is past its deadline; the second, started or not, is still unmet.         *)
Restored == [Every EXCEPT !.schedule = {1, 2}, !.startingDeadline = 2, !.last = 0]

(* The workflow of its list is gone. *)
Suspended == [Every EXCEPT !.suspend = TRUE, !.active = {x1}]

Often == [c \in {c1} |-> {Every, Restored, Suspended}]

================================================================================

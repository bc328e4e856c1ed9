---------------------------- MODULE MCScheduler ----------------------------
(***************************************************************************)
(* Instances of Scheduler for TLC.  Two of the four priorities are enough  *)
(* to tell a job's own queue from another and the order of polling; with   *)
(* one job and nothing but its own queue, one is.                          *)
(***************************************************************************)
EXTENDS Scheduler

CONSTANTS j1, j2

MCPriorities  == <<"high", "low">>
MCOnePriority == <<"high">>
MCJobPriority == [j \in Job |-> IF j = j1 THEN "high" ELSE "low"]

\* One job that can be retried, and one that cannot.
MCRetryOnce  == [j \in Job |-> IF j = j1 THEN 2 ELSE 1]
MCNoRetry    == [j \in Job |-> 1]
=============================================================================

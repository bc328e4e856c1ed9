----------------------------- MODULE MCShutdown -----------------------------
(***************************************************************************)
(* Instances of Shutdown for TLC.                                          *)
(***************************************************************************)
EXTENDS Shutdown

CONSTANTS j1, j2

MCPriorities  == <<"high">>
MCJobPriority == [j \in Job |-> "high"]
MCMaxAttempts == [j \in Job |-> IF j = j1 THEN 2 ELSE 1]
=============================================================================

---------------------------- MODULE JobLifecycle ----------------------------
(***************************************************************************)
(* What the scheduler promises about one job row, without queues, workers  *)
(* or requests: the statuses it moves through, that an execution is        *)
(* started once per attempt and never twice at a time, and that only the   *)
(* execution in progress reports an outcome.                               *)
(***************************************************************************)
EXTENDS Naturals

CONSTANTS Job, MaxAttempts

VARIABLES
    status,     \* the job's status as GetJob would read it
    attempts,   \* executions started so far
    executing   \* jobs some process has claimed and not reported on

vars == <<status, attempts, executing>>

Init ==
    /\ status = [j \in Job |-> "absent"]
    /\ attempts = [j \in Job |-> 0]
    /\ executing = {}

Submit(j) ==
    /\ status[j] = "absent"
    /\ status' = [status EXCEPT ![j] = "queued"]
    /\ UNCHANGED <<attempts, executing>>

\* An execution starts, within the budget and with no other in progress.
\* The claim may be lost on the way back to the worker.
Start(j, lost) ==
    /\ status[j] = "queued" /\ attempts[j] < MaxAttempts[j] /\ j \notin executing
    /\ status' = [status EXCEPT ![j] = "running"]
    /\ attempts' = [attempts EXCEPT ![j] = @ + 1]
    /\ executing' = IF lost THEN executing ELSE executing \union {j}

\* The outcomes an execution may report, given the attempts used.
Outcome(j) == {"succeeded", "failed",
               IF attempts[j] < MaxAttempts[j] THEN "retry" ELSE "deadletter"}

\* The report is not refused when the job was cancelled meanwhile.
Report(j, s) ==
    /\ j \in executing
    /\ status[j] \in {"running", "cancelled"}
    /\ status' = [status EXCEPT ![j] = s]
    /\ executing' = executing \ {j}
    /\ UNCHANGED attempts

\* Executions end without a report: a crash, or a write that failed.
Vanish(S) ==
    /\ executing' = executing \ S
    /\ UNCHANGED <<status, attempts>>

Requeue(j) ==
    /\ status[j] = "retry"
    /\ status' = [status EXCEPT ![j] = "queued"]
    /\ UNCHANGED <<attempts, executing>>

Cancel(j) ==
    /\ status[j] \in {"queued", "running"}
    /\ status' = [status EXCEPT ![j] = "cancelled"]
    /\ UNCHANGED <<attempts, executing>>

Next ==
    \/ \E j \in Job :
         \/ Submit(j) \/ Requeue(j) \/ Cancel(j)
         \/ \E lost \in BOOLEAN : Start(j, lost)
         \/ \E s \in Outcome(j) : Report(j, s)
    \/ \E S \in SUBSET Job : Vanish(S)

Spec == Init /\ [][Next]_vars
=============================================================================

------------------------------ MODULE WatchJob ------------------------------
(***************************************************************************)
(* GetJob and WatchJob of cmd/api/server.go.  GetJob is one SELECT, and    *)
(* its answer an expression; WatchJob is a loop that polls the row once a  *)
(* second and sends an event when its status has changed.  A poll that     *)
(* finds the status it saw last is a stuttering step.                      *)
(***************************************************************************)
EXTENDS TasksTable

CONSTANT Stream     \* WatchJob RPCs in progress at the same time

VARIABLE stream     \* of each RPC: its state, the job, the last event sent

JobState == {"UNSPECIFIED", "QUEUED", "RUNNING", "SUCCEEDED", "FAILED", "DEADLETTER"}

\* Mutant: 'cancelled' is shown as a failure.
statusToJobStateCancelled(s) ==
    CASE s = "queued"                  -> "QUEUED"
      [] s = "running"                 -> "RUNNING"
      [] s = "succeeded"               -> "SUCCEEDED"
      [] s \in {"failed", "cancelled"} -> "FAILED"
      [] s = "deadletter"              -> "DEADLETTER"
      [] OTHER                         -> "UNSPECIFIED"

\* 'retry' and 'cancelled' have no JobState.
statusToJobState(s) ==
    CASE s = "queued"     -> "QUEUED"
      [] s = "running"    -> "RUNNING"
      [] s = "succeeded"  -> "SUCCEEDED"
      [] s = "failed"     -> "FAILED"
      [] s = "deadletter" -> "DEADLETTER"
      [] OTHER            -> "UNSPECIFIED"

\* What GetJob answers about a job that has a row.
GetJob(j) == [state |-> statusToJobState(status[j]), attempts |-> attempts[j]]

-----------------------------------------------------------------------------
\* WatchJob.  "polling" until it returns: "ended" after a final status, "broken"
\* otherwise.

StreamPC == {"idle", "polling", "ended", "broken"}
Silent == "absent"      \* lastStatus = "" and firstPoll

NoStream == [pc |-> "idle", job |-> NoJob, last |-> Silent]
Broken   == [pc |-> "broken", job |-> NoJob, last |-> Silent]

WatchInit == stream = [s \in Stream |-> NoStream]

Watch(s, j) ==
    /\ stream[s].pc = "idle"
    /\ stream' = [stream EXCEPT ![s] = [pc |-> "polling", job |-> j, last |-> Silent]]

Polling(s) == stream[s].pc = "polling"

NotFound(s) ==
    /\ Polling(s)
    /\ stream[s].job \notin Rows
    /\ stream' = [stream EXCEPT ![s] = Broken]

\* Mutants: the states shown are compared, not the statuses; 'cancelled' ends the
\* stream; the final status 'deadletter' is forgotten.
ChangedShown(s) ==
    \/ stream[s].last = Silent
    \/ statusToJobState(stream[s].last) # statusToJobState(status[stream[s].job])
CompleteCancelled(st) == st \in {"succeeded", "failed", "deadletter", "cancelled"}
CompleteNoDlq(st) == st \in {"succeeded", "failed"}

Changed(s) == stream[s].last # status[stream[s].job]
Complete(st) == st \in {"succeeded", "failed", "deadletter"}

\* The row is read, its event sent, and the loop goes on or returns.
Poll(s) ==
    LET st == status[stream[s].job] IN
    /\ Polling(s)
    /\ stream[s].job \in Rows
    /\ Changed(s) \/ Complete(st)
    /\ stream' = [stream EXCEPT
         ![s].last = IF Changed(s) THEN st ELSE @,
         ![s].pc   = IF Complete(st) THEN "ended" ELSE @]

\* GetJobByID or Send reports an error, or the client disconnects.
WatchFails(s) ==
    /\ Polling(s)
    /\ stream' = [stream EXCEPT ![s] = Broken]

WatchStep(s) == Poll(s) \/ NotFound(s)

WatchTypeOK ==
    /\ stream \in [Stream ->
        [pc : StreamPC, job : Job \union {NoJob}, last : Status]]
    /\ \A s \in Stream : stream[s].pc \in {"polling", "ended"} => stream[s].job \in Job
=============================================================================

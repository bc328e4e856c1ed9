------------------------------- MODULE Store -------------------------------
(***************************************************************************)
(* The state every process of the scheduler shares: the CockroachDB tables *)
(* tasks and task_attempts, and the Redis lists q:{priority}, q:processing *)
(* and dlq:{priority}.  Each SQL statement and each Redis command of the   *)
(* code is one operator, atomic like the statement itself.                 *)
(*                                                                         *)
(* A list entry is a redis.JobPayload; its three fields are determined by  *)
(* the job, so two entries of one job are equal and the entry is modelled  *)
(* by the job itself.  Index 1 of a sequence is the head (left end).       *)
(***************************************************************************)
EXTENDS Integers, SequencesExt

CONSTANTS
    Job,            \* task ids clients may submit
    NoJob,          \* "no job": an idle slot of a process
    Priorities,     \* priority queues in the order a worker polls them
    JobPriority,    \* the priority each job is submitted with
    MaxAttempts,    \* the max_attempts each job is submitted with
    FaultKinds,     \* which faults may happen: "crash", "redis", "db"
    MaxFaults       \* bound: how many faults a behaviour has

Priority == ToSet(Priorities)

ASSUME JobAssumption == NoJob \notin Job
ASSUME PriorityAssumption == /\ Priorities \in Seq(Priority)
                             /\ Priorities # << >>
                             /\ JobPriority \in [Job -> Priority]
ASSUME AttemptsAssumption == MaxAttempts \in [Job -> Nat \ {0}]
ASSUME FaultAssumption == MaxFaults \in Nat

VARIABLES
    \* table tasks
    status,         \* tasks.status, "absent" while there is no row
    attempts,       \* tasks.attempts
    due,            \* next_run_at IS NOT NULL AND next_run_at <= now()
    stale,          \* now() - updated_at exceeds the reaper's timeout
    \* table task_attempts
    rows,           \* rows {job, n, res}: the n-th claim of the job
    \* Redis
    queue,          \* q:{priority}
    processing,     \* q:processing
    dlq,            \* number of entries of each job in dlq:{priority}
    \* environment
    faults          \* faults so far

taskVars  == <<status, attempts, due, stale>>
redisVars == <<queue, processing, dlq>>
storeVars == <<taskVars, rows, redisVars, faults>>

Status == {"absent", "queued", "running", "retry",
           "succeeded", "failed", "deadletter", "cancelled"}

\* Statuses no step of the scheduler is meant to leave.
Terminal == {"succeeded", "failed", "deadletter", "cancelled"}

StoreInit ==
    /\ status = [j \in Job |-> "absent"]
    /\ attempts = [j \in Job |-> 0]
    /\ due = [j \in Job |-> FALSE]
    /\ stale = [j \in Job |-> FALSE]
    /\ rows = {}
    /\ queue = [p \in Priority |-> << >>]
    /\ processing = << >>
    /\ dlq = [j \in Job |-> 0]
    /\ faults = 0

-----------------------------------------------------------------------------
\* SQL.  Every UPDATE of tasks also sets updated_at = now().

SetStatus(j, s) ==
    /\ status' = [status EXCEPT ![j] = s]
    /\ stale' = [stale EXCEPT ![j] = FALSE]
    /\ UNCHANGED <<attempts, due, rows>>

\* Mutant: ON CONFLICT DO UPDATE.
InsertTaskUpsert(j) == SetStatus(j, "queued")

\* INSERT INTO tasks ... ON CONFLICT DO NOTHING, when there is no conflict.
InsertTask(j) == status[j] = "absent" /\ SetStatus(j, "queued")

\* Mutant: the UPDATE has no condition on status.
CancelTaskAlways(j) == SetStatus(j, "cancelled")

\* db.CancelJob: the row is in a status the UPDATE accepts.
CancelTask(j) == status[j] \in {"queued", "running"} /\ SetStatus(j, "cancelled")

\* Mutants: a running row can be claimed again; the attempt is not counted.
ClaimTaskRunning(j) ==
    /\ status[j] \in {"queued", "running"}
    /\ status' = [status EXCEPT ![j] = "running"]
    /\ attempts' = [attempts EXCEPT ![j] = @ + 1]
    /\ stale' = [stale EXCEPT ![j] = FALSE]
    /\ UNCHANGED <<due, rows>>

ClaimTaskUncounted(j) == status[j] = "queued" /\ SetStatus(j, "running")

\* claimJob's UPDATE.
ClaimTask(j) ==
    /\ status[j] = "queued"
    /\ status' = [status EXCEPT ![j] = "running"]
    /\ attempts' = [attempts EXCEPT ![j] = @ + 1]
    /\ stale' = [stale EXCEPT ![j] = FALSE]
    /\ UNCHANGED <<due, rows>>

\* markJobRetry: next_run_at is set ahead of now().
RetryTask(j) ==
    /\ status' = [status EXCEPT ![j] = "retry"]
    /\ due' = [due EXCEPT ![j] = FALSE]
    /\ stale' = [stale EXCEPT ![j] = FALSE]
    /\ UNCHANGED <<attempts, rows>>

\* Mutant: the UPDATE has no condition on status.
RequeueTaskAlways(j) == SetStatus(j, "queued")

\* requeueRetryJob's UPDATE.
RequeueTask(j) == status[j] = "retry" /\ SetStatus(j, "queued")

\* db.InsertAttempt, right after claim number attempts[j].
InsertAttempt(j) ==
    /\ rows' = rows \union {[job |-> j, n |-> attempts[j], res |-> "open"]}
    /\ UNCHANGED taskVars

\* UpdateAttemptOnSuccess / OnFailure: every unfinished row of the job.
UpdateAttempt(j, res) ==
    /\ rows' = {IF r.job = j /\ r.res = "open" THEN [r EXCEPT !.res = res] ELSE r
                : r \in rows}
    /\ UNCHANGED taskVars

-----------------------------------------------------------------------------
\* Redis commands.

LPush(p, j) ==
    /\ queue' = [queue EXCEPT ![p] = Cons(j, @)]
    /\ UNCHANGED <<processing, dlq>>

\* BRPOPLPUSH q:p q:processing on a list that has an entry.
BRPopLPush(p) ==
    /\ queue[p] # << >>
    /\ queue' = [queue EXCEPT ![p] = Front(@)]
    /\ processing' = Cons(Last(queue[p]), processing)
    /\ UNCHANGED dlq

\* list without the entries equal to j, in the same order (Remove of
\* SequencesExt; written with cardinalities, about which there are theorems).
Without(list, j) ==
    LET keep == {i \in DOMAIN list : list[i] # j}
    IN  [k \in 1..Cardinality(keep) |->
            list[CHOOSE i \in keep : Cardinality(keep \cap (1..i)) = k]]

\* LREM q:p 0 j: every occurrence.
LRemAll(p, j) ==
    /\ queue' = [queue EXCEPT ![p] = Without(@, j)]
    /\ UNCHANGED <<processing, dlq>>

\* Mutants: count 0, every occurrence; RPOP, whatever entry is rightmost.
LRemProcessingAll(j) ==
    /\ processing' = Without(processing, j)
    /\ UNCHANGED <<queue, dlq>>

LRemProcessingLast(j) ==
    /\ processing' = IF processing = << >> THEN << >> ELSE Front(processing)
    /\ UNCHANGED <<queue, dlq>>

\* LREM q:processing 1 j: the occurrence nearest the head, if there is one.
LRemProcessing(j) ==
    /\ processing' = RemoveFirst(processing, j)
    /\ UNCHANGED <<queue, dlq>>

\* Mutant: repeated until the list is empty.
LMoveAll(p) ==
    /\ processing # << >>
    /\ queue' = [queue EXCEPT ![p] = processing \o @]
    /\ processing' = << >>
    /\ UNCHANGED dlq

\* LMOVE q:processing q:p RIGHT LEFT: whatever entry is rightmost.
LMove(p) ==
    /\ processing # << >>
    /\ queue' = [queue EXCEPT ![p] = Cons(Last(processing), @)]
    /\ processing' = Front(processing)
    /\ UNCHANGED dlq

\* How often the Redis client sends a command at most: once, and MaxRetries more.
Tries == 4

\* LPUSH dlq:{priority} j, applied n times: nobody reads the list, so the times
\* a lost reply makes the client send it again need not be told apart.
LPushDlq(j, n) ==
    /\ dlq' = [dlq EXCEPT ![j] = @ + n]
    /\ UNCHANGED <<queue, processing>>

-----------------------------------------------------------------------------
\* Faults and time.

Fault(kind) == kind \in FaultKinds /\ faults < MaxFaults /\ faults' = faults + 1

\* A call whose error, if any, leaves the store as it was.  (A call that is
\* applied and then reports an error matters only where the caller acts on
\* the error: those callers have an action for it.)
Redis(Command) ==
    \/ Command /\ UNCHANGED faults
    \/ Fault("redis") /\ UNCHANGED redisVars

\* The reply to a command is lost and the client sends the command again: it
\* has been applied, and its caller still waits in the call.
Resent(Command) == Fault("redis") /\ Command /\ UNCHANGED <<taskVars, rows>>

Sql(Statement) ==
    \/ Statement /\ UNCHANGED faults
    \/ Fault("db") /\ UNCHANGED <<taskVars, rows>>

\* The backoff of a retry row elapses.
BackoffElapses(j) ==
    /\ status[j] = "retry" /\ ~due[j]
    /\ due' = [due EXCEPT ![j] = TRUE]
    /\ UNCHANGED <<status, attempts, stale, rows, redisVars, faults>>

\* A running row has not been updated for the reaper's timeout.
GrowsStale(j) ==
    /\ status[j] = "running" /\ ~stale[j]
    /\ stale' = [stale EXCEPT ![j] = TRUE]
    /\ UNCHANGED <<status, attempts, due, rows, redisVars, faults>>

\* Types of the tables, the lists and the fault count.
StoreTypeOK ==
    /\ status \in [Job -> Status]
    /\ attempts \in [Job -> Nat]
    /\ due \in [Job -> BOOLEAN]
    /\ stale \in [Job -> BOOLEAN]
    /\ rows \subseteq [job : Job, n : Nat, res : {"open", "ok", "failed"}]
    /\ queue \in [Priority -> Seq(Job)]
    /\ processing \in Seq(Job)
    /\ dlq \in [Job -> Nat]
    /\ faults \in Nat
=============================================================================

----------------------------- MODULE WorkerLoop -----------------------------
(***************************************************************************)
(* A worker process of internal/worker/worker.go: the loop of Start, which *)
(* pops an entry, claims the job and starts a goroutine for it, and these  *)
(* goroutines ("runs"), which execute the handler and report its outcome.  *)
(* A worker starts as many runs as it can claim jobs.                      *)
(***************************************************************************)
EXTENDS Store

CONSTANT Worker     \* worker processes

VARIABLES
    loop,           \* Start's loop: program counter, queue index, popped job
    runs            \* goroutines in flight

workerVars == <<loop, runs>>

LoopPC == {"poll", "claim", "giveback", "insert", "load", "markfailed", "drop"}
RunPC  == {"handler", "succeed", "dlq", "deadletter", "retry",
           "closeok", "closefailed", "lrem"}

\* A run that may still write the job's status.
ActivePC == {"handler", "succeed", "dlq", "deadletter", "retry"}

\* A loop that has claimed its job and not yet handed it to a run.
OwnerPC == {"insert", "load", "markfailed"}

AtTop == [pc |-> "poll", at |-> 1, job |-> NoJob]

WorkerInit ==
    /\ loop = [w \in Worker |-> AtTop]
    /\ runs = {}

LoopGoto(w, pc) == loop' = [loop EXCEPT ![w].pc = pc]
LoopTop(w)      == loop' = [loop EXCEPT ![w] = AtTop]

\* Mutants: the index is not reset after the last queue; an empty queue ends
\* the pass over the queues.
NextQueueNoReset(w) == loop' = [loop EXCEPT ![w].at = @ + 1]
NextQueueBreak(w)   == LoopTop(w)

\* BRPOPLPUSH gave nothing: the next queue, or a new iteration of the loop.
NextQueue(w) ==
    loop' = [loop EXCEPT ![w].at = IF @ = Len(Priorities) THEN 1 ELSE @ + 1]

-----------------------------------------------------------------------------
\* The loop of Start

Pop(w) ==
    LET p == Priorities[loop[w].at] IN
    /\ loop[w].pc = "poll"
    /\ BRPopLPush(p)
    /\ loop' = [loop EXCEPT ![w].pc = "claim", ![w].job = Last(queue[p])]
    /\ UNCHANGED <<taskVars, rows, faults, runs>>

PollEmpty(w) ==
    /\ loop[w].pc = "poll"
    /\ queue[Priorities[loop[w].at]] = << >>
    /\ NextQueue(w)
    /\ UNCHANGED <<storeVars, runs>>

\* BRPOPLPUSH reports an error; the server may have moved the entry.
PopFails(w) ==
    /\ loop[w].pc = "poll"
    /\ Fault("redis")
    /\ BRPopLPush(Priorities[loop[w].at]) \/ UNCHANGED redisVars
    /\ NextQueue(w)
    /\ UNCHANGED <<taskVars, rows, runs>>

Claim(w) ==
    /\ loop[w].pc = "claim"
    /\ ClaimTask(loop[w].job)
    /\ LoopGoto(w, "insert")
    /\ UNCHANGED <<redisVars, faults, runs>>

NotClaimed(w) ==
    /\ loop[w].pc = "claim"
    /\ status[loop[w].job] # "queued"
    /\ LoopGoto(w, "drop")
    /\ UNCHANGED <<storeVars, runs>>

\* claimJob returns an error; the UPDATE may have been committed.
ClaimFails(w) ==
    /\ loop[w].pc = "claim"
    /\ Fault("db")
    /\ ClaimTask(loop[w].job) \/ UNCHANGED <<taskVars, rows>>
    /\ LoopGoto(w, "giveback")
    /\ UNCHANGED <<redisVars, runs>>

\* LPush onto the queue it came from, then LRem at "drop".
GiveBack(w) ==
    /\ loop[w].pc = "giveback"
    /\ Redis(LPush(Priorities[loop[w].at], loop[w].job))
    /\ LoopGoto(w, "drop")
    /\ UNCHANGED <<taskVars, rows, runs>>

\* claimJob goes on when the audit row cannot be written.
RecordAttempt(w) ==
    /\ loop[w].pc = "insert"
    /\ Sql(InsertAttempt(loop[w].job))
    /\ LoopGoto(w, "load")
    /\ UNCHANGED <<redisVars, runs>>

\* GetJobByID, then the goroutine is started with the row it read.
Spawn(w) ==
    LET j == loop[w].job IN
    /\ loop[w].pc = "load"
    /\ runs' = runs \union
               {[job |-> j, n |-> attempts[j], worker |-> w, pc |-> "handler"]}
    /\ LoopTop(w)
    /\ UNCHANGED storeVars

LoadFails(w) ==
    /\ loop[w].pc = "load"
    /\ Fault("db")
    /\ LoopGoto(w, "markfailed")
    /\ UNCHANGED <<taskVars, rows, redisVars, runs>>

\* Mutants: the job is left to the retry pump; it is queued again.
MarkFailedRetry(w) ==
    /\ loop[w].pc = "markfailed"
    /\ Sql(RetryTask(loop[w].job))
    /\ LoopGoto(w, "drop")
    /\ UNCHANGED <<redisVars, runs>>

MarkFailedQueued(w) ==
    /\ loop[w].pc = "markfailed"
    /\ Sql(SetStatus(loop[w].job, "queued"))
    /\ LoopGoto(w, "giveback")
    /\ UNCHANGED <<redisVars, runs>>

MarkFailed(w) ==
    /\ loop[w].pc = "markfailed"
    /\ Sql(SetStatus(loop[w].job, "failed"))
    /\ LoopGoto(w, "drop")
    /\ UNCHANGED <<redisVars, runs>>

Drop(w) ==
    /\ loop[w].pc = "drop"
    /\ Redis(LRemProcessing(loop[w].job))
    /\ LoopTop(w)
    /\ UNCHANGED <<taskVars, rows, runs>>

\* A command of the loop is applied once more than it is called.
LoopResent(w) ==
    LET j == loop[w].job
        p == Priorities[loop[w].at]
    IN
    /\ \/ loop[w].pc = "poll" /\ Resent(BRPopLPush(p))
       \/ loop[w].pc = "giveback" /\ Resent(LPush(p, j))
       \/ loop[w].pc = "drop" /\ Resent(LRemProcessing(j))
    /\ UNCHANGED workerVars

LoopStep(w) ==
    \/ Pop(w) \/ PollEmpty(w) \/ PopFails(w)
    \/ Claim(w) \/ NotClaimed(w) \/ ClaimFails(w) \/ GiveBack(w)
    \/ RecordAttempt(w) \/ Spawn(w) \/ LoadFails(w) \/ MarkFailed(w) \/ Drop(w)
    \/ LoopResent(w)

-----------------------------------------------------------------------------
\* A run

RunGoto(r, pc) == runs' = (runs \ {r}) \union {[r EXCEPT !.pc = pc]}

\* executeHandler returns nil.
HandlerSucceeds(r) ==
    /\ r.pc = "handler"
    /\ RunGoto(r, "succeed")
    /\ UNCHANGED <<storeVars, loop>>

\* Mutant: the budget comparison is off by one.
HandlerFailsOffByOne(r) ==
    /\ r.pc = "handler"
    /\ RunGoto(r, IF r.n > MaxAttempts[r.job] THEN "dlq" ELSE "retry")
    /\ UNCHANGED <<storeVars, loop>>

\* Mutant: a job without attempts left is given up without a report.
HandlerFailsSilently(r) ==
    /\ r.pc = "handler"
    /\ RunGoto(r, IF r.n >= MaxAttempts[r.job] THEN "lrem" ELSE "retry")
    /\ UNCHANGED <<storeVars, loop>>

\* executeHandler returns an error: handleJobFailure compares the attempts of
\* the row read at the start with max_attempts.
HandlerFails(r) ==
    /\ r.pc = "handler"
    /\ RunGoto(r, IF r.n >= MaxAttempts[r.job] THEN "dlq" ELSE "retry")
    /\ UNCHANGED <<storeVars, loop>>

\* Mutant: the audit row is forgotten.
MarkSucceededNoAudit(r) ==
    /\ r.pc = "succeed"
    /\ SetStatus(r.job, "succeeded")
    /\ RunGoto(r, "lrem")
    /\ UNCHANGED <<redisVars, faults, loop>>

MarkSucceeded(r) ==
    /\ r.pc = "succeed"
    /\ SetStatus(r.job, "succeeded")
    /\ RunGoto(r, "closeok")
    /\ UNCHANGED <<redisVars, faults, loop>>

\* The UPDATE reports an error, whether or not it was committed, and
\* markJobSucceeded returns before it updates the audit row.
MarkSucceededFails(r) ==
    /\ r.pc = "succeed"
    /\ Fault("db")
    /\ SetStatus(r.job, "succeeded") \/ UNCHANGED <<taskVars, rows>>
    /\ RunGoto(r, "lrem")
    /\ UNCHANGED <<redisVars, loop>>

\* The push fails or is sent again, or both.
PushDlq(r) ==
    /\ r.pc = "dlq"
    /\ \/ LPushDlq(r.job, 1) /\ UNCHANGED faults
       \/ Fault("redis") /\ \E n \in 0..Tries : LPushDlq(r.job, n)
    /\ RunGoto(r, "deadletter")
    /\ UNCHANGED <<taskVars, rows, loop>>

\* Mutants: the job is marked 'failed'; a failed write starts over.
MarkDeadLetterFailed(r) ==
    /\ r.pc = "deadletter"
    /\ Sql(SetStatus(r.job, "failed"))
    /\ RunGoto(r, "closefailed")
    /\ UNCHANGED <<redisVars, loop>>

MarkDeadLetterAgain(r) ==
    /\ r.pc = "deadletter"
    /\ \/ SetStatus(r.job, "deadletter") /\ RunGoto(r, "closefailed") /\ UNCHANGED faults
       \/ Fault("db") /\ RunGoto(r, "dlq") /\ UNCHANGED <<taskVars, rows>>
    /\ UNCHANGED <<redisVars, loop>>

MarkDeadLetter(r) ==
    /\ r.pc = "deadletter"
    /\ Sql(SetStatus(r.job, "deadletter"))
    /\ RunGoto(r, "closefailed")
    /\ UNCHANGED <<redisVars, loop>>

MarkRetry(r) ==
    /\ r.pc = "retry"
    /\ Sql(RetryTask(r.job))
    /\ RunGoto(r, "closefailed")
    /\ UNCHANGED <<redisVars, loop>>

\* UpdateAttemptOnSuccess or UpdateAttemptOnFailure.
CloseAttempt(r) ==
    /\ r.pc \in {"closeok", "closefailed"}
    /\ Sql(UpdateAttempt(r.job, IF r.pc = "closeok" THEN "ok" ELSE "failed"))
    /\ RunGoto(r, "lrem")
    /\ UNCHANGED <<redisVars, loop>>

\* Mutant: LRem on the priority queue.
FinishWrongList(r) ==
    /\ r.pc = "lrem"
    /\ Redis(LRemAll(JobPriority[r.job], r.job))
    /\ runs' = runs \ {r}
    /\ UNCHANGED <<taskVars, rows, loop>>

\* The deferred LRem, and the goroutine ends.
Finish(r) ==
    /\ r.pc = "lrem"
    /\ Redis(LRemProcessing(r.job))
    /\ runs' = runs \ {r}
    /\ UNCHANGED <<taskVars, rows, loop>>

\* The LRem of a run is applied once more than it is called.
RunResent(r) ==
    /\ r.pc = "lrem"
    /\ Resent(LRemProcessing(r.job))
    /\ UNCHANGED workerVars

RunStep(r) ==
    \/ HandlerSucceeds(r) \/ HandlerFails(r)
    \/ MarkSucceeded(r) \/ MarkSucceededFails(r)
    \/ PushDlq(r) \/ MarkDeadLetter(r) \/ MarkRetry(r)
    \/ CloseAttempt(r) \/ Finish(r) \/ RunResent(r)

-----------------------------------------------------------------------------
\* The process dies: its loop and its runs are gone, the stores are not.
WorkerLost(w) ==
    /\ LoopTop(w)
    /\ runs' = {r \in runs : r.worker # w}

WorkerTypeOK ==
    /\ loop \in [Worker -> [pc : LoopPC, at : 1..Len(Priorities),
                            job : Job \union {NoJob}]]
    /\ \A w \in Worker : loop[w].pc # "poll" => loop[w].job \in Job
    /\ runs \subseteq [job : Job, n : Nat, worker : Worker, pc : RunPC]

-----------------------------------------------------------------------------
\* Who executes a job

Active(r)  == r.pc \in ActivePC
Owns(w, j) == loop[w].pc \in OwnerPC /\ loop[w].job = j

\* Jobs claimed by a process that is yet to report on them.
Executing == {j \in Job : \/ \E w \in Worker : Owns(w, j)
                          \/ \E r \in runs : Active(r) /\ r.job = j}

\* Of all the entries, retries, sweeps and crashes a job goes through, at most
\* one process at a time has claimed it and may still report an outcome, and
\* meanwhile the row is 'running', or 'cancelled' if CancelJob came in between.
\* (claimJob's WHERE status = 'queued' against every other UPDATE.)
SingleExecution ==
    /\ \A r, s \in runs : Active(r) /\ Active(s) /\ r.job = s.job => r = s
    /\ \A w, u \in Worker, j \in Job : Owns(w, j) /\ Owns(u, j) => w = u
    /\ \A w \in Worker : \A r \in runs : Active(r) => ~Owns(w, r.job)
    /\ \A j \in Executing : status[j] \in {"running", "cancelled"}

\* No job is executed more than max_attempts times: a row that can still be
\* claimed has an attempt left, so the pump's max_attempts branch is never
\* needed, and a job is dead-lettered only when its attempts are used up.
AttemptBudget ==
    \A j \in Job :
        /\ attempts[j] <= MaxAttempts[j]
        /\ status[j] \in {"queued", "retry"} => attempts[j] < MaxAttempts[j]
        /\ status[j] = "deadletter" => attempts[j] = MaxAttempts[j]

\* The worker, and whatever it is composed with, implements JobLifecycle: one
\* execution per attempt, outcomes reported by the execution in progress only,
\* no other change of a status.
Lifecycle == INSTANCE JobLifecycle WITH executing <- Executing
ImplementsLifecycle == Lifecycle!Spec
=============================================================================

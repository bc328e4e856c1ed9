----------------------------- MODULE RetryPump -----------------------------
(***************************************************************************)
(* The retry pump of a worker process (retryPump, processRetryJobs,        *)
(* requeueRetryJob): it selects the retry rows that are due, then moves    *)
(* them one by one to status 'queued' and pushes them.  Every worker       *)
(* process has one, and they share the tables.                             *)
(***************************************************************************)
EXTENDS Store

CONSTANTS
    Pump,           \* worker processes whose pump runs
    PumpLimit       \* LIMIT of the SELECT

ASSUME PumpAssumption == PumpLimit \in Nat \ {0}

VARIABLE pump       \* rows still to handle, and the job to push

PumpIdle == [todo |-> {}, push |-> NoJob]
PumpInit == pump = [w \in Pump |-> PumpIdle]

\* Mutant: next_run_at is not compared.
DueRowsAll == {j \in Job : status[j] = "retry"}

DueRows == {j \in Job : status[j] = "retry" /\ due[j]}

\* The oldest PumpLimit rows; which ones these are is left open.  The SELECT
\* returns the attempts of a row, too.
SelectDue(w) ==
    /\ pump[w] = PumpIdle
    /\ \E S \in SUBSET DueRows :
         /\ S # {}
         /\ Cardinality(S) = Min({PumpLimit, Cardinality(DueRows)})
         /\ pump' = [pump EXCEPT ![w].todo = {[job |-> j, n |-> attempts[j]] : j \in S}]
    /\ UNCHANGED storeVars

\* Mutant: the row is updated and the push forgotten.
RequeueNoPush(w, t) ==
    /\ pump[w].push = NoJob /\ t \in pump[w].todo
    /\ RequeueTask(t.job)
    /\ pump' = [pump EXCEPT ![w].todo = @ \ {t}]
    /\ UNCHANGED <<redisVars, faults>>

\* The UPDATE ... WHERE status = 'retry' returned the row.
Requeue(w, t) ==
    /\ pump[w].push = NoJob /\ t \in pump[w].todo
    /\ RequeueTask(t.job)
    /\ pump' = [pump EXCEPT ![w] = [todo |-> @.todo \ {t}, push |-> t.job]]
    /\ UNCHANGED <<redisVars, faults>>

\* No row: another pump was faster, or the job was requeued and moved on.
RequeueNothing(w, t) ==
    /\ pump[w].push = NoJob /\ t \in pump[w].todo
    /\ status[t.job] # "retry"
    /\ pump' = [pump EXCEPT ![w].todo = @ \ {t}]
    /\ UNCHANGED storeVars

\* The UPDATE reports an error, whether or not it was committed.
RequeueFails(w, t) ==
    /\ pump[w].push = NoJob /\ t \in pump[w].todo
    /\ Fault("db")
    /\ RequeueTask(t.job) \/ UNCHANGED <<taskVars, rows>>
    /\ pump' = [pump EXCEPT ![w].todo = @ \ {t}]
    /\ UNCHANGED redisVars

\* A failed push is logged; the row stays 'queued'.
PushRetry(w) ==
    LET j == pump[w].push IN
    /\ j # NoJob
    /\ Redis(LPush(JobPriority[j], j))
    /\ pump' = [pump EXCEPT ![w].push = NoJob]
    /\ UNCHANGED <<taskVars, rows>>

\* The push is applied once more than it is called.
PushResent(w) ==
    LET j == pump[w].push IN
    /\ j # NoJob
    /\ Resent(LPush(JobPriority[j], j))
    /\ UNCHANGED pump

PumpStep(w) ==
    \/ SelectDue(w) \/ PushRetry(w) \/ PushResent(w)
    \/ \E t \in pump[w].todo : Requeue(w, t) \/ RequeueNothing(w, t) \/ RequeueFails(w, t)

PumpTypeOK ==
    pump \in [Pump -> [todo : SUBSET [job : Job, n : Nat], push : Job \union {NoJob}]]
=============================================================================

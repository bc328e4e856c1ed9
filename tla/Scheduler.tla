----------------------------- MODULE Scheduler -----------------------------
(***************************************************************************)
(* The scheduler: API server, workers, retry pumps and reapers over the    *)
(* stores they share.                                                      *)
(***************************************************************************)
EXTENDS ApiServer, WorkerLoop, RetryPump, Reaper

ASSUME ProcessAssumption == Pump \subseteq Worker /\ Reap \subseteq Worker

vars == <<storeVars, apiVars, workerVars, pump, reaperVars>>

Init == StoreInit /\ ApiInit /\ WorkerInit /\ PumpInit /\ ReaperInit

\* A worker process dies and is started again: everything it held in memory
\* is lost.
WorkerCrash(w) ==
    /\ Fault("crash")
    /\ WorkerLost(w)
    /\ pump' = [u \in Pump |-> IF u = w THEN PumpIdle ELSE pump[u]]
    /\ reaper' = [u \in Reap |-> IF u = w THEN ReaperIdle ELSE reaper[u]]
    /\ UNCHANGED <<taskVars, rows, redisVars, apiVars, swept>>

Api(c)     == ApiStep(c)    /\ UNCHANGED <<workerVars, pump, reaperVars>>
Loop(w)    == LoopStep(w)   /\ UNCHANGED <<apiVars, pump, reaperVars>>
Run(r)     == RunStep(r)    /\ UNCHANGED <<apiVars, pump, reaperVars>>
Pumping(w) == PumpStep(w)   /\ UNCHANGED <<apiVars, workerVars, reaperVars>>
Reaping(w) == ReaperStep(w) /\ UNCHANGED <<apiVars, workerVars, pump>>
TimePasses(j) == /\ BackoffElapses(j) \/ GrowsStale(j)
                 /\ UNCHANGED <<apiVars, workerVars, pump, reaperVars>>

Next ==
    \/ \E c \in Client : Api(c)
    \/ \E w \in Worker : Loop(w)
    \/ \E r \in runs : Run(r)
    \/ \E w \in Pump : Pumping(w)
    \/ \E w \in Reap : Reaping(w)
    \/ \E w \in Worker : WorkerCrash(w)
    \/ \E j \in Job : TimePasses(j)

Spec == Init /\ [][Next]_vars

-----------------------------------------------------------------------------
\* Who holds what

\* How often the job occurs in a list.
Occurs(j, list) == Cardinality({i \in DOMAIN list : list[i] = j})

\* Loops that hold a popped entry of the job.
Holding(j) == {w \in Worker : loop[w].pc # "poll" /\ loop[w].job = j}
Claiming(j) == {w \in Holding(j) : loop[w].pc = "claim"}

\* Processes that have set the job 'queued' and are about to push its entry.
Pushing(j) == {c \in Client : call[c].pc = "push" /\ call[c].job = j}
              \union {w \in Pump : pump[w].push = j}

-----------------------------------------------------------------------------
\* Fairness: every process that can act acts in the end.  Handlers return
\* (http_call has a timeout of 30s; a db_tx is taken to end too), tickers
\* tick and clocks advance.  No client has to start a request, and no process is
\* made to go on by a fault.

HandlerProgress(c) == HandlerStep(c) /\ UNCHANGED <<workerVars, pump, reaperVars>>
RunOf(j) == \E r \in runs : r.job = j /\ Run(r)
Going(A) == A /\ UNCHANGED faults

Fairness ==
    /\ \A c \in Client : WF_vars(Going(HandlerProgress(c)))
    /\ \A w \in Worker : WF_vars(Going(Loop(w)))
    /\ \A j \in Job : WF_vars(Going(RunOf(j))) /\ WF_vars(TimePasses(j))
    /\ \A w \in Pump : WF_vars(Going(Pumping(w)))
    /\ \A w \in Reap : WF_vars(Going(Reaping(w)))

FairSpec == Spec /\ Fairness

-----------------------------------------------------------------------------
\* Type correctness of every process and of the stores.
TypeOK == StoreTypeOK /\ ApiTypeOK /\ WorkerTypeOK /\ PumpTypeOK /\ ReaperTypeOK

\* Safety, besides SingleExecution and AttemptBudget of module WorkerLoop

\* Once a job is in its dead-letter list it has no attempt left and is never
\* queued again, whichever of the two writes failed; and without faults it is
\* there once, and only if that is what its row says when its run is over.
DeadLetterAgrees ==
    \A j \in Job :
        /\ dlq[j] > 0 => attempts[j] = MaxAttempts[j] /\ status[j] \notin {"queued", "retry"}
        /\ faults = 0 => dlq[j] <= 1
        /\ faults = 0 /\ j \notin Executing =>
             (dlq[j] = 1 <=> status[j] = "deadletter")

\* While nothing fails, a queued job is never out of reach of the workers: its
\* entry is in a queue, or a process is about to push it or to claim the job.
\* An entry in q:processing is never all there is, so a sweep that moves or
\* removes one loses nothing.  (Not so once CancelJob was confirmed: see
\* CancelHolds.)
QueuedReachable ==
    faults = 0 =>
        \A j \in Job : status[j] = "queued" /\ j \notin acked =>
            \/ \E p \in Priority : Contains(queue[p], j)
            \/ Pushing(j) # {} \/ Claiming(j) # {}

\* While nothing fails, a row that says 'running' tells the truth: some process
\* has the job in hand and is yet to report, however often the job is retried,
\* cancelled or swept.  What StuckJobRecovered is about takes a fault.
RunningExecuted ==
    faults = 0 => \A j \in Job : status[j] = "running" => j \in Executing

\* Without faults, a job has at most one ticket - an entry in a queue, a push
\* about to be made or a popped entry about to be claimed - and a queued job has
\* exactly one, in the queue of its own priority, as long as no reaper has moved,
\* pushed or removed one of its entries: pumps, clients and the sweeps of other
\* jobs neither duplicate nor lose it.
OneTicket ==
    faults = 0 =>
        \A j \in Job \ swept :
            LET queued == Occurs(j, queue[JobPriority[j]])
                tickets == queued + Cardinality(Pushing(j)) + Cardinality(Claiming(j))
            IN /\ tickets <= 1
               /\ status[j] = "queued" /\ j \notin acked => tickets = 1
               /\ \A p \in Priority \ {JobPriority[j]} : ~Contains(queue[p], j)

\* Without faults, q:processing holds one entry of a job for every loop that
\* popped one and every run of the job, as long as no reaper has moved, pushed or
\* removed one: each LREM takes out the entry its own process put in, though
\* equal entries are indistinguishable.
ProcessingAccounted ==
    faults = 0 =>
        \A j \in Job \ swept : Occurs(j, processing) =
            Cardinality(Holding(j)) + Cardinality({r \in runs : r.job = j})

\* Without faults, task_attempts has a row for every claim, one only, and once
\* a job has its outcome and its runs are over no row is left unfinished.
AuditComplete ==
    faults = 0 =>
        \A j \in Job :
            LET mine == {r \in rows : r.job = j} IN
            /\ {r.n : r \in mine} =
                 IF \E w \in Worker : Owns(w, j) /\ loop[w].pc = "insert"
                 THEN 1..(attempts[j] - 1) ELSE 1..attempts[j]
            /\ Cardinality(mine) = Cardinality({r.n : r \in mine})
            /\ status[j] \in Terminal /\ j \notin Executing
                 /\ (\A r \in runs : r.job # j) => \A r \in mine : r.res # "open"

-----------------------------------------------------------------------------
\* Action properties, besides ImplementsLifecycle of module WorkerLoop

\* A terminal status is left only by the execution that a cancellation did not
\* stop: once nobody executes the job, no retry, sweep, late request or second
\* cancellation changes the row again.
OutcomeFinal ==
    [][\A j \in Job : status[j] \in Terminal /\ j \notin Executing =>
           status'[j] = status[j] /\ attempts'[j] = attempts[j]]_vars

\* Only one call ever adds a job to its dead-letter list, by the process that
\* executed its last attempt: after a crash, or when one of the two writes
\* fails, nobody starts over.  (The Redis client may apply that one call twice.)
DeadLetterOnce ==
    [][\A j \in Job : dlq'[j] # dlq[j] =>
           dlq[j] = 0 /\ attempts[j] = MaxAttempts[j] /\ j \in Executing]_vars

\* A retry is requeued before its backoff has elapsed only by a pump that
\* selected the job, when it was due, for an earlier attempt: between SELECT
\* and UPDATE another pump requeued it and it ran and failed again, and the
\* UPDATE does not look at next_run_at.
BackoffRespected ==
    [][\A j \in Job : status[j] = "retry" /\ status'[j] = "queued" =>
           due[j] \/ \E w \in Pump : \E t \in pump[w].todo \ pump'[w].todo :
                        t.job = j /\ t.n < attempts[j]]_vars

-----------------------------------------------------------------------------
\* Liveness

\* While nothing fails, a submitted job reaches a terminal status, through as
\* many retries as it takes, unless a client was told that it is cancelled.
EveryJobEnds ==
    \A j \in Job : status[j] = "queued" ~>
        (status[j] \in Terminal \/ j \in acked \/ faults > 0)

\* A queued job whose entry was left in q:processing by a worker that died
\* between pop and claim is brought back by a reaper and claimed (or
\* cancelled), unless a sweep has already decided to remove the entry.
Orphaned(j) ==
    /\ status[j] = "queued" /\ j \notin acked /\ Contains(processing, j)
    /\ Holding(j) \union Pushing(j) = {} /\ \A r \in runs : r.job # j
    /\ \A w \in Reap : reaper[w].act = "lrem" => Head(reaper[w].todo) # j
LeftEntryRecovered == \A j \in Job : Orphaned(j) ~> status[j] # "queued"

-----------------------------------------------------------------------------
\* What the repository says and the code does not do

\* README.md:111: the reaper recovers jobs stuck in processing.  A job that is
\* 'running' with nobody executing it leaves that status.
StuckJobRecovered ==
    \A j \in Job : status[j] = "running" /\ j \notin Executing ~>
        status[j] # "running" \/ j \in Executing

\* worker.go:469: moveJobBackToQueue moves a job to its original priority queue.
RightQueue == \A p \in Priority : \A i \in DOMAIN queue[p] :
    JobPriority[queue[p][i]] = p

\* README.md:95 and scheduler.proto:54: queued and running jobs can be cancelled,
\* and the response tells whether the job was.  A job whose cancellation was
\* confirmed is not started again.
CancelHolds == [][\A j \in acked : attempts'[j] = attempts[j]]_vars

\* attempts.go:117: the audit update closes the current attempt.  The last
\* attempt of a job that succeeded is on record as a success.
SuccessAudited ==
    faults = 0 =>
        \A j \in Job : status[j] = "succeeded" /\ (\A r \in runs : r.job # j) =>
            \E r \in rows : r.job = j /\ r.n = attempts[j] /\ r.res = "ok"

\* worker.go:1167: when the push of a requeued job fails, the job is picked up
\* later, since its row is already 'queued'.
PickedUpLater ==
    \A j \in Job : status[j] = "queued" /\ attempts[j] > 0 ~> status[j] # "queued"
=============================================================================

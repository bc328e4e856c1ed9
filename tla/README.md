# A TLA+ model of the gRPC task scheduler

This directory holds a specification of the scheduler in `cmd/` and
`internal/`: TLA+ modules, configurations with which TLC checks them on small
instances, and theorems that TLAPS proves for instances of every size. Line
numbers refer to the commit the modules were written from; `worker.go` is
`internal/worker/worker.go`, `server.go` is `cmd/api/server.go`, `jobs.go` is
`internal/db/jobs.go`, `attempts.go` is `internal/db/attempts.go`, `redis.go` is
`internal/redis/redis.go`.

## 1. The system

| Component | State it keeps | Operations | Modelled in |
|---|---|---|---|
| CockroachDB | tables `tasks`, `task_attempts` | one SQL statement each | `Store` |
| Redis | lists `q:{priority}`, `q:processing`, `dlq:{priority}` | LPUSH, BRPOPLPUSH, LREM, LMOVE, LRANGE | `Store` |
| API server, job-changing RPCs | an RPC in progress | SubmitJob, CancelJob | `ApiServer` |
| API server, queries | a stream's last status; the client's page token | GetJob, WatchJob, ListJobs | `TasksTable`, `WatchJob`, `ListJobs`, `Queries` |
| Worker loop | position in `Start` | pop, claim, spawn, give back, drop | `WorkerLoop` |
| Runs (a goroutine per job) | the row read at the start | handler, report, audit, clean up | `WorkerLoop` |
| Retry pump (one per worker process) | rows selected, job to push | select, requeue, push | `RetryPump` |
| Reaper (one per worker process) | snapshot of `q:processing` | sweep, read, move back, remove | `Reaper` |
| Worker shutdown | a cancelled context that loop, runs, pump and reaper share, a WaitGroup | Stop, waitForShutdown | `Shutdown` |
| API shutdown | streams in progress | GracefulStop, Stop | `Queries` |
| Queue depth tracker, metrics, health, TLS, start-up, connections | - | - | not modelled: nothing the program does depends on what they write |

No process calls another. The API server and the worker processes meet only in
the two stores, each of which is atomic per statement or command; there is no
transaction over two statements, let alone over both stores. So the life of a
job is a chain of hand-overs:

    SubmitJob: INSERT 'queued'     -> LPUSH q:p
    loop:      BRPOPLPUSH q:p q:processing -> UPDATE 'running' -> audit row -> goroutine
    run:       UPDATE 'succeeded'                 -> close audit row -> LREM q:processing
               LPUSH dlq:p -> UPDATE 'deadletter' -> close audit row -> LREM q:processing
               UPDATE 'retry'                     -> close audit row -> LREM q:processing
    pump:      SELECT 'retry' and due -> UPDATE 'queued' -> LPUSH q:p
    reaper:    LRANGE q:processing -> SELECT row -> LMOVE or LREM
    CancelJob: SELECT row -> UPDATE 'cancelled' -> LREM q:p

Every arrow is a point at which other processes run, the process may die, or
the next call may fail. That is what makes this program hard: two copies of a
job's state (row and list entry) that are never updated together, entries that
are equal byte for byte and removed by value, decisions taken on rows read
earlier, and errors that are logged and passed over.

What makes each part correct:

* **Claiming.** However many entries a job has, it is executed by one process
  at a time and at most `max_attempts` times.
* **Hand-overs.** A row that says 'queued' has an entry some worker can reach.
* **Reports.** A job is dead-lettered once, after its last attempt; a row in a
  terminal status is not changed by anyone but the execution in progress.
* **Audit.** `task_attempts` has one row per claim, and none stays open.
* **Backoff.** A retry waits until its backoff has elapsed.
* **Recovery.** What a dead process leaves behind is picked up by the others.
* **Progress.** A submitted job ends.
* **Queries.** A stream that ends has told the outcome, and a stream on a job that
  has one ends; a listing read page after page returns every job it should.
* **Shutdown.** A worker that stops waits for the runs it has started, leaves
  nothing behind but what it had in hand, and does stop.

`PROJECT.json` lists the hazards behind these, with the line where each one
bites and the properties that look at it.

## 2. The modules

    Store <- ApiServer, WorkerLoop, RetryPump, Reaper <- Scheduler <- MCScheduler
                                                         Scheduler <- Shutdown <- MCShutdown
    JobLifecycle <--(INSTANCE)-- WorkerLoop
    JobLifecycle <--(INSTANCE)-- TasksTable <- WatchJob, ListJobs <- Queries <- MCQueries

    SeqLemmas, WorkerLoop <- WorkerProofs
    WorkerProofs, Scheduler <- TypeProofs <- ExecutionProofs <- RefinementProofs, RecordProofs
    Shutdown, RefinementProofs, RecordProofs <- ShutdownProofs
    Queries <- QueriesProofs

**Store.** One operator per SQL statement and Redis command. `status`,
`attempts` are the columns; `due` is the pump's condition on `next_run_at` and
`stale` the reaper's on `updated_at` (clocks are not modelled, only that these
conditions become true some time later); `rows` is `task_attempts`, with the
number of the claim in place of `started_at`. A list entry is a
`redis.JobPayload`, whose fields are fixed by the job, so an entry *is* the job
and equal entries are indistinguishable, as in Redis. Index 1 is the left end.
`dlq` only counts: nothing reads the dead-letter lists. `Redis(C)` and `Sql(S)`
stand for calls whose error the code logs and ignores; where the code branches
on an error there is an action `...Fails`, and it lets the statement take
effect or not, since an error does not tell. The Redis client is built without
`MaxRetries` (redis.go:29-33), so it keeps the default of three: a command whose reply
is lost is sent, and applied, again. The actions `...Resent` are such an application,
while the caller still waits; `LPushDlq` takes the number of times, up to `Tries`, at
once, because nobody reads that list in between. The database driver does not repeat a
statement whose outcome it does not know.

**ApiServer.** `call[c]` is where client `c`'s RPC is; `SubmitJob`/`CancelJob`
are the reads that let it begin, the other actions the calls that follow.
Returns that changed nothing are not actions. `acked` is a history variable:
jobs for which `Cancelled = true` was decided.

**WorkerLoop.** `loop[w]` is the loop of `Start`: `pc`, the queue it is at (it
polls them in order and starts again), and the job popped. `runs` is the set of
goroutines; a run remembers `n`, the `attempts` of the row it was started with,
because `handleJobFailure` compares that copy with `max_attempts`. There is no
limit on the number of runs, as in the code. A handler is a choice between nil
and an error. `Executing` are the jobs a process has claimed and may still report on.
What is said of the worker alone - `SingleExecution`, `AttemptBudget` and the refinement
mapping `ImplementsLifecycle` - stands here too.

**RetryPump.** Every worker process has one. `pump[w].todo` are the rows of the open
result set not handled yet, each with the `attempts` it was selected with,
`pump[w].push` the job whose row was updated and whose entry was not pushed. With LIMIT reached, which rows come first is left open.

**Reaper.** `reaper[w].todo` is the rest of the snapshot and `act` what has been
decided about its head. LMOVE takes the rightmost entry, whichever it is; on an
empty list it answers nil, which the client reports as an error, and the
fallback follows. `swept` is a history variable: the jobs of which some reaper has
moved, pushed or removed an entry, or tried to remove one.

**Scheduler.** All processes over the stores; `WorkerCrash` (the memory of a
process is lost, it starts again); `Spec`, `FairSpec`, the properties that need more
than the worker. `Going` keeps faults out of the fairness: no process is made to go on
by one.

**JobLifecycle.** The abstract specification: what a client may rely on about
one row, without queues, workers or requests. `Start` needs an attempt left
and no execution in progress, only `Report` ends one, and a terminal status
changes only by a `Report` of an execution that was under way.

**TasksTable, WatchJob, ListJobs, Queries.** The queries write nothing, so they
need not run beside the whole scheduler: `TasksTable` lets the rows do whatever
`JobLifecycle` allows, which `Refinement` shows to be at least what the scheduler
does, and gives each row its `created_at`, which two rows may share: nothing makes the
column unique (setup.sh:51), and the ORDER BY has no second one (server.go:690).
`Pages` are the results a request may get, in any order of the rows that are tied.
`GetJob(j)` is the reply as an expression over the row. `stream[s]` is a WatchJob RPC: the job and the last status
sent; a poll that finds no change is a stuttering step. `list` is one listing of a
client that asks for page after page with the token of the last answer (a new
listing replaces it): the filter, the page size it sent and the OFFSET, and as
history what it was owed when it began, what it has seen, and how many rows it got.
`server` is the end of the API process: the signal, GracefulStop waiting for the
streams, and Stop after 30 s.

**Shutdown.** The whole `Scheduler`, in which the process `Self` is stopped while the
API server and the other workers go on. `cancelled` is the context that the loop, the
runs, the pump and the reaper of the process share. A call made after the cancel is
`Refused` (a fault of `Store`: it changes nothing and the caller sees an error); `late`
are the goroutines that may have had a call in flight at that moment, whose next call
may still be applied. So a pump can have its UPDATE committed and the push that follows
refused. `wg` is what the WaitGroup counts, `done` that Wait has returned, `held`
(history) what was in progress when Stop was called: runs, jobs of loop and runs, jobs
the pump had selected or was about to push. The loop stands at `CheckShutdown` before
each pop and before the claim and returns there; pump and reaper are in no WaitGroup,
finish what they are at with refused calls, and go with the process. No other fault
happens in this module: what faults do to a scheduler that runs is the question of the
others, and `EntryKept` would be lost to a single one. Every step is one
of `Scheduler` or leaves its variables alone (`StopIsScheduler`).

What is left out of the branches the code has:

* entries that are not JSON, have no UUID or no row: every writer pushes well-formed
  entries of rows that exist, and rows are never deleted;
* **a restriction of scope:** jobs whose priority is not one of the four. The program
  does not exclude them: `validateSubmitJobRequest` refuses only
  `PRIORITY_UNSPECIFIED` (server.go:86), another enum value is inserted as 'queued', and
  `PushJob` fails on it every time (internal/redis/jobs.go:49-51), so such a job waits
  until it is cancelled. `PriorityAssumption` says that there are none, and
  `EveryJobEnds` is not true of them;
* the pump's branch for rows out of attempts (worker.go:1076), which `BudgetKept` proves
  unreachable;
* the rest of request validation, which bounds `max_attempts` to 1..100 after the
  default of 3 (server.go:91-96, 257).

## 3. What the runs show

| Run | Question | Properties | Distinct states |
|---|---|---|---|
| `core` | Two clients, two workers with their pumps race for one job with two attempts. Is it executed once at a time, within budget, dead-lettered once, not before its time; is each entry and audit row accounted for? | `TypeOK` `SingleExecution` `AttemptBudget` `DeadLetterAgrees` `OneTicket` `ProcessingAccounted` `AuditComplete` `BackoffRespected` `OutcomeFinal` `ImplementsLifecycle` | 208 k |
| `sweeps` | What can a reaper's late or misdirected commands do? | `SingleExecution` `QueuedReachable` `RunningExecuted` `ImplementsLifecycle` | 1.25 M |
| `live` | One crash, Redis error, lost reply or database error anywhere. Do budget and dead-lettering survive it, does every job end, is what a dead worker leaves recovered? | `AttemptBudget` `DeadLetterAgrees` `DeadLetterOnce` `ImplementsLifecycle` `EveryJobEnds` `LeftEntryRecovered` | 600 k |
| `twojobs` | Entries land in the wrong queue: do both jobs still end, and do the entries of a job no sweep has touched add up? | `OneTicket` `ProcessingAccounted` `EveryJobEnds` | 344 k |
| `queries` | Rows change under a stream and under a listing, two may have the same time, and the API process may end. | `TypeOK` `EndTellsOutcome` `ListingComplete` `RepeatsBounded` `FinalReplyStable` `OutcomeDelivered` `WatchKeepsUp` | 1.01 M |
| `shutdown` | A worker and its pump are stopped at any moment, a client and another worker go on. | `StopTypeOK` `StopWaits` `EntryKept` `OnlyHeldStuck` `ImplementsLifecycle` `ProcessExits` | 621 k |

Six runs refute something the repository says of the program. Each has a
finding in `PROJECT.json` that quotes the line.

| Run | Statement refuted | What happens |
|---|---|---|
| `stuck` | jobs stuck in processing are recovered (README.md:111) | The reaper moves the entry of a stale 'running' row back, but `claimJob` wants 'queued': the entry is dropped, the row stays 'running' for ever. |
| `wrongqueue` | a job is moved to its original priority queue (worker.go:469) | LMOVE moves the rightmost entry, perhaps another job's. |
| `cancel` | a running job can be cancelled (README.md:95) | `markJobRetry` overwrites 'cancelled'; the job is executed again. |
| `audit` | the audit update closes the current attempt (attempts.go:117) | It closes every open row of the job, also that of the next attempt. |
| `lostpush` | a failed push does no harm, the job is picked up later (worker.go:1167) | Nobody looks for 'queued' rows without an entry. |
| `graceful` | in-flight jobs complete before shutdown (README.md:108) | Stop cancels the context the runs report with, then waits for them: the reports are refused, Stop returns nil, the rows stay 'running'. |

These explain the conditions in the properties that hold. `QueuedReachable`,
`RunningExecuted`, `OneTicket`, `ProcessingAccounted`, `AuditComplete` and `EveryJobEnds` say
`faults = 0`, because one failed call is enough to break each of them (a lost
push, a lost report, an LREM that was not applied, an audit row that was not written), and the
queue properties except a job whose cancellation was confirmed: it may be
requeued while the late LREM of its CancelJob takes its new entry away.
`OneTicket` and `ProcessingAccounted` speak of the jobs outside `swept`: a reaper
duplicates, moves and removes entries of jobs in progress, but what it does to one job
leaves the accounts of the others alone, although LREM goes by value and LMOVE by
position. `QueuedReachable` holds of swept jobs, too, and does not count an entry of
`q:processing` as a way to reach a job: whatever a sweep moves or removes there, another
way is left. `SingleExecution`, `AttemptBudget` and `ImplementsLifecycle` hold with
everything. So does `DeadLetterOnce`, which is about calls: one call at most adds a job
to its dead-letter list, made by the process that had its last attempt, but the client
may apply that call several times; that the list has the job once is said by
`DeadLetterAgrees`, of behaviours without faults. `BackoffRespected` holds with any
number of pumps and names the one way in which a retry comes early (section 6).
`ListingComplete` and `RepeatsBounded` except rows that share their `created_at` with
another row of the result. `EntryKept` excepts the jobs the stopped process's pump had
selected or was pushing when Stop was called, and swept jobs.

Every property of a passing run has a mutant: a definition of the model changed
the way a plausible bug would change the code, under which TLC finds the
property violated.

### Bounds

* **Two clients, two workers, one job** for the races: every race in the code
  is between two processes over one job's row and entries. `twojobs` and
  `wrongqueue` have two jobs, because LMOVE confuses entries of different jobs.
* **Two priorities** of four: a job's own queue, another one, and an order. With one job
  and faults (`live`) one is enough: there is no other job to misdirect, and a loop that
  polls an empty queue only adds states.
* **`MaxAttempts` 2** makes one retry and one exhausted budget; jobs with 1 are
  dead-lettered at once.
* **`MaxFaults` 1** (`live`): a fault at every step, one per behaviour. The theorems have
  no such bound.
* **`MaxEntries`** (a sweep starts only when the lists hold at most that many
  entries) keeps the reaper from duplicating entries for ever. 2 leaves room for
  a duplicate next to the original; in `twojobs` it is 1, and entries still
  get into the wrong queue, since LMOVE may come after the snapshot's entry
  was replaced.
* **`PumpLimit` 100** is the code's; the instances never reach it. The theorems
  cover every limit.
* **`queries`**: two rows, so that a page of one row is followed by another; page
  sizes -1 (which the database refuses), 0 (the default, here 1) and 3 (over the
  limit, here 2) for the code's 0..50..1000. There are two
  creation times, and rows get them in any order or the same one, because `now()` is the
  start of the inserting transaction. One
  stream: streams share nothing. The filters are none and one final state; a filter by
  priority or type selects a fixed set of jobs (`Among`), here all of them.
* **`shutdown`**: the process that is stopped and its pump, one other worker and one
  client, so that every entry the first gives up has somebody to find it; one job, with a
  retry. Two jobs in one worker only meet in `wg`, whose invariant is proved for any
  number. `MaxFaults` 24 is more than the calls that can still be refused; no fault
  happens before the cancel, or to anybody else. The reaper of the process has the same
  steps in the module, but takes TLC beyond 17 million states: with it, the safety
  properties rest on the theorems alone.

Only `shutdown` and `graceful` disable deadlock checking: there the process ends.

### Fairness

`FairSpec` assumes weak fairness of what the code schedules itself: an RPC that
has begun goes on; the loop of `Start` never waits for ever (BRPOPLPUSH has a
timeout of 1 s); a handler returns (`http_call` has a timeout of 30 s, `db_tx` is
taken to end); tickers of pump (500 ms) and reaper (30 s) tick; clocks advance.
Clients need not send anything, and no outcome of a handler is favoured.
Strong fairness is nowhere assumed: a row in 'retry' stays due, an entry in a
list stays there until it is popped. `Queries!FairSpec` assumes that the ticker of a stream ticks, and
nothing of jobs, clients or the main goroutine; `Shutdown!StopFairSpec` that loop, runs
and main goroutine of the stopped process go on. The timeout of `Stop` is not among
them: `ProcessExits` does without.

## 4. What is proved

TLAPS proves, for all values of the constants that satisfy their assumptions
(any number of jobs, clients, workers, pumps, reapers, priorities, attempts and
faults):

| Theorem | Statement |
|---|---|
| `TypeProofs!TypeCorrect` | `Spec => []TypeOK` |
| `ExecutionProofs!ExecInvariant` | `Spec => []ExecInv` |
| `ExecutionProofs!OneExecution` | `Spec => []SingleExecution` |
| `ExecutionProofs!BudgetKept` | `Spec => []AttemptBudget` |
| `ExecutionProofs!DeadLettersAgree` | `Spec => []DeadLetterAgrees` |
| `ExecutionProofs!DeadLetteredOnce` | `Spec => DeadLetterOnce` |
| `RefinementProofs!Refinement` | `Spec => ImplementsLifecycle` |
| `RefinementProofs!FinalOutcome` | `Spec => OutcomeFinal` |
| `RefinementProofs!BackoffKept` | `Spec => BackoffRespected` |
| `RefinementProofs!StuckForGood` | `Spec =>` a 'running' row nobody executes stays so until it is cancelled |
| `RecordProofs!ClaimsRecorded` | `Spec => []AuditComplete` |
| `RecordProofs!QueuedStaysReachable` | `Spec => []QueuedReachable` |
| `RecordProofs!RunningIsTrue` | `Spec => []RunningExecuted` |
| `RecordProofs!LostForGood` | `Spec =>` a 'queued' row out of reach stays so until it is cancelled |
| `RecordProofs!QueuesKeptApart` | `Spec =>` entries of jobs no reaper has touched are in their own queue |
| `RecordProofs!EntriesAccounted` | `Spec => []ProcessingAccounted` |
| `RecordProofs!TicketsUnique` | `Spec => []OneTicket` |
| `ShutdownProofs!StopIsScheduler` | `StopSpec => Spec` |
| `ShutdownProofs!ShutdownRefinement` | `StopSpec => ImplementsLifecycle` |
| `ShutdownProofs!ShutdownTypeCorrect` | `StopSpec => []StopTypeOK` |
| `ShutdownProofs!WaitCoversRuns` | `StopSpec => []StopWaits` |
| `ShutdownProofs!OnlyHeldLeft` | `StopSpec => []OnlyHeldStuck` |
| `ShutdownProofs!EntriesKept` | `StopSpec => []EntryKept` |
| `QueriesProofs!QueryTypeCorrect` | `Spec => []TypeOK` |
| `QueriesProofs!NothingMissed` | `Spec => []ListingComplete` |
| `QueriesProofs!FewRepeats` | `Spec => []RepeatsBounded` |
| `QueriesProofs!OutcomeTold` | `Spec => []EndTellsOutcome` |
| `QueriesProofs!FinalReplyKept` | `Spec => FinalReplyStable` |

`Spec` is that of `Scheduler`, or of `Queries` for `QueriesProofs`. Every invariant and
action property the passing runs check is in the table; what is left to TLC is liveness.
No theorem restricts the number of reapers or pumps.

*Assumptions.* `NoJob` is no job; the polled priorities are a non-empty sequence
and every job has one of them (a restriction, section 2); `max_attempts` is at least 1 (server.go:91, 257);
pumps and reapers are in worker processes; the bounds are numbers. TLC evaluates
them in every run.

*Types.* One lemma per store operator says that it keeps the types of the part
it changes; the lemmas per process combine them. `SeqLemmas` has what the library
does not say about sequences: the types of `Cons`, `Front`, `RemoveFirst` and `Without`,
and how many occurrences of a value each of them leaves. `Without` is written with the
cardinalities of initial segments, and its lemma is a bijection between the kept
places and 1..n.

*The invariant.* Neither `SingleExecution` nor `AttemptBudget` is inductive. A run
decides on `r.n`, its copy of `attempts`, so "dead-lettered only when used up"
needs `r.n = attempts[r.job]` while the run is active, and that holds only
because nobody else can claim the job meanwhile: `RunBudget`. It also remembers,
between the comparison in `handleJobFailure` and the write of the status, how the
comparison came out. `ExecInv` is `TypeOK /\ SingleExecution /\ AttemptBudget /\
RunBudget`. Conversely `SingleExecution` says that the row of a job in
execution is 'running' or 'cancelled', so a claim, which needs 'queued', cannot
meet a second owner; no step leads from those two statuses to 'queued' while the
execution lasts, which is what the WHERE clauses of pump and claim are for.
`WorkerProofs` proves the steps of loop and runs, for the part of the invariant
that is about the worker and the stores (`WorkInv`); `ExecutionProofs` adds the other
processes of `Scheduler`, which only change rows.

*Refinement.* With `executing <- Executing`, the claim maps to `Start`, the four
status writes of a run or loop to `Report` (`Vanish` when the write fails), a
crash to `Vanish`, the pump's UPDATE to `Requeue`, and everything else to a
stutter. `Report` needs its outcome to agree with the budget, and `Start` needs
that nobody executes the job: both come from `ExecInv`. `FinalOutcome` is a
consequence: in `JobLifecycle` only a `Report` leaves a terminal status.

*Backoff.* `Selected` says of every row a pump has selected and not handled: either the
job has been claimed since, so that its `attempts` are higher than those selected, or
nobody executes it and, if it is in 'retry', it is due. So a pump that requeues a row which is not due holds
one of an earlier attempt.

*The findings, in general.* The runs that refute a statement of the repository show one
behaviour each. Three theorems say how far it reaches. `StuckForGood`: a 'running' row
without an execution (`Stuck`) is left as it is by every step but a cancellation, since
`JobLifecycle` has no other for it; by `RunningIsTrue` it takes a fault to get there.
`LostForGood`: a 'queued' row without an entry, and without a process that holds or has
sampled one (`Lost`), likewise; its proof goes through the lists, which are lists of other
jobs and remain so, because no command brings in an entry that nobody holds. By
`QueuedStaysReachable` this takes a fault, too, or a confirmed cancellation that a retry
has overwritten. `QueuesKeptApart`: an entry in another
priority's queue is that of a job of which a reaper has moved or pushed an entry, even
when calls fail, are applied twice, and a loop gives an entry back, because it gives it
back to the queue it polled; so the reaper's LMOVE is all there is to repair. All three
were checked with TLC on the constants of `live` and `wrongqueue` before they were proved.

*Dead letters.* The push to the dead-letter list and the UPDATE after it may fail
separately, and the push may be applied more than once. `DlqInv` says that a job whose entry has been pushed has no attempt left
and is not claimable, and that a run between the two is the only one that may still
report on it, so nobody calls the push a second time; without faults, list and row agree
except in between.

*Records and entries* (`RecordProofs`). Rows, audit rows and list entries are written
one after the other, so each invariant names the process that is between two writes.
`AuditInv`: the claims of a job are numbered 1 to `attempts`, short of one while
the loop is about to insert it, and an open audit row has a process that is to close
the rows of its job. `ReachInv`: a queued job has an entry, a push or a claim pending, and
only a request whose job is in `acked` is about to remove entries from a queue.
`AccountInv`: the occurrences of a job in `q:processing` are the loops that hold it and
its runs, and two runs of a job have different claim numbers, so that a *set* of runs
counts them; a reaper's command on an entry of another job leaves them as they are, and
one on an entry of the job puts it into `swept`. `TicketInv`: the processes that hold a ticket and the entries in the job's
own queue are at most one together, and a job that has one is not being executed,
which is why a requeue, possible only after the execution has ended, never
makes a second. Each holds while `faults = 0`, and `NoFaultYet` says that faults
are never forgotten. `RunningExecuted` is inductive with the types: `LoopProgress` and
`RunProgress`, shared with `OnlyHeldLeft`, say that a worker lets go of a job only with
the write that ends 'running'.

*Shutdown.* `StopIsScheduler` makes every theorem about `Scheduler` one about a shutdown:
a refused call is a fault, the exit is a crash, and the rest are the same steps. Three
invariants give what is special. `WaitInv`: the WaitGroup counts the runs there are, and
the number of a claim still to be made is higher than that of any run known when Stop was
called; so a run started after Wait returned is none of those. `StuckInv`: before the
cancel every 'running' row has a process that will report; after it, only a loop whose
claim was in flight can make another, and its job is in `held`. `KeptInv` is about who
may still take an entry out of `q:processing`: a loop or run past the cancel, with
nothing in flight, cannot; for every other one that holds the job there is an entry, and
for a queued job that has none in a queue, no push to come and is not in `held.pump`
there is one more than the loops past their claim and the runs will take. A refused push followed by a refused LREM leaves that count alone,
which is why the order of cancel and clean-up does no harm here.

*Queries.* For a row whose creation time no other row of the result has, the rows in
front of it are those that were created later, whatever order the tied ones are returned
in. Their number only grows, because a row that is in the result stays while the filter is
stable. `OwedInv`: as long as such an owed row has not been returned, at least OFFSET
rows are in front of it. `CountInv`: rows returned so far filled their pages, and there
are at most as many as the result has. A row is repeated when it moves to a later page, and
then something has entered in front of it, or it is tied. `OutcomeTold` and
`FinalReplyKept` rest on `JobLifecycle`: a final status is overwritten by nobody.

*Only model-checked.* `EveryJobEnds`, `LeftEntryRecovered`, `OutcomeDelivered`,
`WatchKeepsUp` and `ProcessExits`. Liveness under fairness and ENABLED are
out of the prover's reach; so is induction with an operator as parameter, hence what
a recursive definition computes (no `RECURSIVE` operator is used here).

## 5. Running it

    tlc -workers 2 -config core.cfg MCScheduler.tla      (sweeps, live, twojobs, stuck,
                                                          wrongqueue, cancel, audit, lostpush)
    tlc -workers 2 -config queries.cfg MCQueries.tla
    tlc -workers 2 -config shutdown.cfg MCShutdown.tla   (graceful)
    tlapm RefinementProofs.tla                           (and the other *Proofs, SeqLemmas)

The runs under "refuted" above end with a counterexample; that is their result.

## 6. Observations that no property covers

* The pump's UPDATE does not look at `next_run_at` (worker.go:1133), though the pump is
  there for rows with `next_run_at <= now()` (worker.go:929-930). With two workers, hence
  two pumps, a job that failed again while one of them was working off an older result
  set is retried before its backoff has elapsed. `BackoffRespected` allows this, and
  shows that it is the only way; comparing `attempts` or `next_run_at` in the UPDATE would
  close it.
* Stop cancels the context of the retry pump between any two of its calls. When its
  UPDATE to 'queued' is applied and its push is not, the job is as lost as in run
  `lostpush`: this is why `EntryKept` excepts `held.pump`.
* A dead-letter push whose reply is lost is applied again by the Redis client: the list
  then has the job twice. A BRPOPLPUSH whose reply is lost leaves an entry in
  `q:processing` that the loop never saw; a reaper brings it back.
* ORDER BY `created_at` has no tiebreaker (server.go:690): of rows created at the same
  time one may be shown on two pages and another on none.
* A job with a priority outside the enum stays 'queued' (server.go:86, section 2).
* After a fault, a late LREM of the reaper (worker.go:460) can remove the only entry of
  a job that was requeued and popped since the reaper read its row. Without faults
  the popped job has not lost anything: its worker is about to claim it.
* A job in 'retry' cannot be cancelled (jobs.go:116), and is reported to
  clients as `JOB_STATE_UNSPECIFIED`, like a cancelled one (server.go:120-138).
* The stream of a cancelled job never ends (server.go:521), and holds up GracefulStop
  until its timeout.
* A stream polls once a second: a retry that comes and goes between two polls is not
  reported (hence `WatchKeepsUp` promises the last status only).
* A listing of queued or running jobs can miss jobs, since rows that leave the result
  shift the others towards pages already read; `ListingComplete` is about filters
  that a row, once it matches, goes on matching.
* A last page that is full still has a `next_page_token`; the page after it is empty.
* A retry of a SubmitJob whose push failed answers OK and pushes nothing
  (server.go:247).
* The reaper's switch has no case for 'deadletter' and 'cancelled'; their
  leftover entries stay in `q:processing`.
* A run that the loop starts after `wg.Wait` has returned is not waited for.

### Not modelled

* *The backoff delay.* The model only knows that a retry becomes due later.
  `1s << (attempts-1)` is a 64-bit number of nanoseconds, beyond TLC's integers, and it
  overflows from attempt 35, before which the job has waited for centuries.
* *Queue depth tracker and metrics.* They are written and never read by the program.
* *Health and readiness probes, start-up, environment, TLS, connection pools.* They
  read configuration and set up libraries; the errors of the connections are the faults of
  `Store`.
* *Handlers.* What `http_call` or `db_tx` do is a choice between nil and an error;
  a panic is a crash of the process.
* *Generated code, test utilities, deployment scripts.* Not part of the program's logic
  (`scripts/setup.sh` is used for the table definitions).

## 7. Conventions

Definitions keep the names of the code where there is one. Mutants stand just
before the definition they replace and are used by no other. The properties are in
`WorkerLoop`, `Scheduler`, `Queries` and `Shutdown`, each with a comment that says which
behaviour it is about; the inductive invariants are in the proof modules.

## 8. Plan

Done: the stores, API server, worker, pump, reaper and their composition; the abstract
lifecycle and the refinement; the queries over that lifecycle; both shutdowns; proofs of
every safety and action property the runs check, and of the general form of three
findings.

What could follow: a run of `shutdown` with the reaper, if its state space can be cut
down; a bound on how early a retry may come, if the repository ever states one; and,
should the reaper learn to reset stuck rows, `StuckJobRecovered` as a property that
holds.

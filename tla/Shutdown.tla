------------------------------ MODULE Shutdown ------------------------------
(***************************************************************************)
(* The end of a worker process: Worker.Stop and waitForShutdown of         *)
(* cmd/worker/main.go.  Stop cancels the context with which the loop of    *)
(* Start, the runs, the retry pump and the reaper of the process make      *)
(* every call, then waits for the WaitGroup, or for the timeout of its     *)
(* caller; then the process exits.  The API server and the other worker    *)
(* processes go on.                                                        *)
(*                                                                         *)
(* A call made with the cancelled context fails, like any call that meets  *)
(* a fault of module Store, and changes nothing; a call that was in        *)
(* flight when the context was cancelled may still be applied.  Every step *)
(* of this module is thus one of module Scheduler, or leaves its variables *)
(* unchanged.                                                              *)
(***************************************************************************)
EXTENDS Scheduler

CONSTANT Self       \* the process that is stopped

ASSUME SelfAssumption == Self \in Worker

VARIABLES
    main,           \* the main goroutine, in waitForShutdown
    cancelled,      \* ctx.Err() # nil
    late,           \* who may have a call in flight from before the cancel
    returned,       \* Start has returned
    wg,             \* the runs the WaitGroup counts
    done,           \* wg.Wait has returned, the channel is closed
    held            \* history: what the process had in hand when Stop was called

stopVars == <<main, cancelled, late, returned, wg, done, held>>
allVars  == <<vars, stopVars>>

MainPC == {"up", "waiting", "stopped", "timedout", "exited"}

RunId(r) == [job |-> r.job, n |-> r.n]
OwnRuns  == {r \in runs : r.worker = Self}
RunIds   == {RunId(r) : r \in OwnRuns}

\* The other goroutines that make calls.
LoopId   == [job |-> NoJob, n |-> 0]
PumpId   == [job |-> NoJob, n |-> 1]
ReaperId == [job |-> NoJob, n |-> 2]

\* Who may be in a call: not a run whose handler has not returned.
Calling == {LoopId, PumpId, ReaperId} \union {RunId(r) : r \in {s \in OwnRuns : s.pc # "handler"}}

\* The jobs the pump has selected, or has requeued and is yet to push.
PumpJobs == {j \in Job : /\ Self \in Pump
                         /\ \/ pump[Self].push = j
                            \/ \E t \in pump[Self].todo : t.job = j}

InHand == [runs |-> RunIds,
           jobs |-> {r.job : r \in OwnRuns} \union {loop[Self].job},
           pump |-> PumpJobs]

StopInit ==
    /\ Init
    /\ main = "up" /\ cancelled = FALSE /\ late = {} /\ returned = FALSE
    /\ wg = {} /\ done = FALSE
    /\ held = [runs |-> {}, jobs |-> {}, pump |-> {}]

-----------------------------------------------------------------------------
\* The process's own steps

\* Mutant: the Redis commands are given a context of their own.
RefusedSql ==
    \/ faults' = faults + 1 /\ UNCHANGED <<taskVars, rows, redisVars>>
    \/ UNCHANGED <<taskVars, rows, faults>> /\ redisVars' # redisVars

\* The call is made with a cancelled context: the caller goes on with an error.
Refused ==
    /\ faults' = faults + 1
    /\ UNCHANGED <<taskVars, rows, redisVars>>
    /\ ~UNCHANGED <<workerVars, pump, reaper>>

\* No other fault happens, and none before the cancel.
MayCall(who) ==
    /\ cancelled \/ faults' = faults
    /\ cancelled /\ who \notin late => Refused
    /\ late' = late \ {who}

\* checkShutdown stands before each pop and before the claim.
CheckShutdown == cancelled /\ loop[Self].pc \in {"poll", "claim"}

LoopReturns ==
    /\ ~returned /\ CheckShutdown
    /\ returned' = TRUE
    /\ UNCHANGED <<vars, main, cancelled, late, wg, done, held>>

\* Mutants: wg.Add is the first statement of the goroutine; wg.Done is missing.
RegisterLate == wg' = {RunId(r) : r \in {s \in OwnRuns' : s.pc # "handler"}}
RegisterNoDone == wg' = wg \union {RunId(r) : r \in OwnRuns'}

\* wg.Add before the goroutine starts, wg.Done when it has ended.
Register == wg' = {RunId(r) : r \in OwnRuns'}

LoopGoes ==
    /\ ~returned /\ (CheckShutdown => LoopId \in late)
    /\ Loop(Self)
    /\ MayCall(LoopId)
    /\ Register
    /\ UNCHANGED <<main, cancelled, returned, done, held>>

\* The handler's own calls are not calls on the stores.
RunGoes(r) ==
    /\ Run(r)
    /\ IF r.pc = "handler" THEN UNCHANGED late ELSE MayCall(RunId(r))
    /\ Register
    /\ UNCHANGED <<main, cancelled, returned, done, held>>

\* The retry pump and the reaper are in no WaitGroup.
TickerGoes ==
    /\ \/ Self \in Pump /\ Pumping(Self) /\ MayCall(PumpId)
       \/ Self \in Reap /\ Reaping(Self) /\ MayCall(ReaperId)
    /\ UNCHANGED <<main, cancelled, returned, wg, done, held>>

\* The API server, the other workers and the clocks.
OthersGo ==
    /\ \/ \E c \in Client : Api(c)
       \/ \E w \in Worker \ {Self} : Loop(w)
       \/ \E r \in runs \ OwnRuns : Run(r)
       \/ \E w \in Pump \ {Self} : Pumping(w)
       \/ \E w \in Reap \ {Self} : Reaping(w)
       \/ \E j \in Job : TimePasses(j)
    /\ UNCHANGED <<faults, stopVars>>

-----------------------------------------------------------------------------
\* Stop

\* Mutant: cancel() is not called.
StopNoCancel ==
    /\ main = "up"
    /\ main' = "waiting"
    /\ held' = InHand
    /\ UNCHANGED <<vars, cancelled, late, returned, wg, done>>

\* SIGTERM, and Stop up to the call of Wait.  A second call of Stop is refused
\* and changes nothing.
Stop ==
    /\ main = "up"
    /\ main' = "waiting"
    /\ cancelled' = TRUE
    /\ late' = Calling
    /\ held' = InHand
    /\ UNCHANGED <<vars, returned, wg, done>>

WaitReturns ==
    /\ main = "waiting" /\ ~done
    /\ wg = {}
    /\ done' = TRUE
    /\ UNCHANGED <<vars, main, cancelled, late, returned, wg, held>>

\* Stop returns nil.
StopReturns ==
    /\ main = "waiting" /\ done
    /\ main' = "stopped"
    /\ UNCHANGED <<vars, cancelled, late, returned, wg, done, held>>

\* The 30 s of waitForShutdown are over.
StopTimesOut ==
    /\ main = "waiting"
    /\ main' = "timedout"
    /\ UNCHANGED <<vars, cancelled, late, returned, wg, done, held>>

\* Mutant: main puts the jobs it leaves behind back to 'queued'.
ExitRequeues ==
    /\ main \in {"stopped", "timedout"}
    /\ main' = "exited"
    /\ WorkerLost(Self)
    /\ status' = [j \in Job |-> IF status[j] = "running" THEN "queued" ELSE status[j]]
    /\ late' = {} /\ returned' = TRUE /\ wg' = {}
    /\ UNCHANGED <<attempts, due, stale, rows, redisVars, faults, apiVars, pump,
                   reaperVars, cancelled, done, held>>

\* main returns; the goroutines that are left are gone.
Exit ==
    /\ main \in {"stopped", "timedout"}
    /\ main' = "exited"
    /\ WorkerCrash(Self)
    /\ late' = {} /\ returned' = TRUE /\ wg' = {}
    /\ UNCHANGED <<cancelled, done, held>>

StopNext ==
    \/ LoopReturns \/ LoopGoes \/ TickerGoes
    \/ \E r \in OwnRuns : RunGoes(r)
    \/ OthersGo
    \/ Stop \/ WaitReturns \/ StopReturns \/ StopTimesOut \/ Exit

StopSpec == StopInit /\ [][StopNext]_allVars

\* Handlers return, goroutines run, main goes on.  The timeout is not needed.
OwnRunGoes(j) == \E r \in OwnRuns : r.job = j /\ RunGoes(r)

StopFairSpec ==
    /\ StopSpec
    /\ WF_allVars(LoopReturns) /\ WF_allVars(LoopGoes)
    /\ \A j \in Job : WF_allVars(OwnRunGoes(j))
    /\ WF_allVars(WaitReturns) /\ WF_allVars(StopReturns) /\ WF_allVars(Exit)

-----------------------------------------------------------------------------
\* Type correctness of the scheduler and of the goroutines that stop a worker.
Id == [job : Job, n : Nat]
StopTypeOK ==
    /\ TypeOK
    /\ main \in MainPC
    /\ cancelled \in BOOLEAN /\ returned \in BOOLEAN /\ done \in BOOLEAN
    /\ late \subseteq Id \union {LoopId, PumpId, ReaperId}
    /\ wg \subseteq Id
    /\ held \in [runs : SUBSET Id, jobs : SUBSET (Job \union {NoJob}), pump : SUBSET Job]

\* Safety

\* When Stop returns nil, every run that had been started when Stop was called
\* is over: wg.Add comes before the goroutine.  (A run the loop starts after
\* Wait has returned is not waited for.)
StopWaits == done => held.runs \cap RunIds = {}

\* A shutdown loses no queued job but those its retry pump was requeueing: every
\* other one has an entry in some list or a process about to push it, whichever
\* calls were refused or still applied.  (A job of which a reaper has moved,
\* pushed or removed an entry is out of the property: then the LREM of one process
\* can take out the entry of another.)
EntryKept ==
    \A j \in Job \ swept : status[j] = "queued" /\ j \notin acked =>
        \/ Contains(processing, j) \/ \E p \in Priority : Contains(queue[p], j)
        \/ Pushing(j) # {}
        \/ j \in held.pump

\* The shutdown leaves no row 'running' but those of jobs that were in progress
\* in the process when it began, and those other workers execute: no new job is
\* claimed.
OnlyHeldStuck ==
    main = "exited" =>
        \A j \in Job : status[j] = "running" => j \in held.jobs \/ j \in Executing

\* Liveness

\* Stop ends, and the process exits, without the help of the timeout.
ProcessExits == main = "waiting" ~> main = "exited"

-----------------------------------------------------------------------------
\* What the repository says and the code does not do

\* README.md:108: in-flight jobs complete before shutdown.  When Stop reports
\* that they did, no job whose run had been started is left 'running'.
InFlightComplete ==
    main = "stopped" => \A i \in held.runs : status[i.job] # "running"
=============================================================================

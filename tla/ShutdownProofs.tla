--------------------------- MODULE ShutdownProofs ---------------------------
(***************************************************************************)
(* What the shutdown of a worker keeps, for any number of jobs, clients    *)
(* and processes, and at whatever moment Stop is called.  Every step is    *)
(* one of Scheduler, so its theorems hold; three invariants, one for each  *)
(* promise of Shutdown, give the others:                                   *)
(*   WaitInv    what the WaitGroup counts, for StopWaits                   *)
(*   StuckInv   who has made a row 'running', for OnlyHeldStuck            *)
(*   KeptInv    who may still remove an entry, for EntryKept               *)
(***************************************************************************)
EXTENDS Shutdown, RecordProofs, RefinementProofs

-----------------------------------------------------------------------------
\* A shutdown is a behaviour of the scheduler

\* The steps of the process, of the others and of main are those of Scheduler.
LEMMA StopNextIsNext == [StopNext]_allVars => [Next]_vars
<1>. SUFFICES ASSUME [StopNext]_allVars PROVE Next \/ UNCHANGED vars
  OBVIOUS
<1>1. CASE LoopGoes
  BY <1>1, SelfAssumption DEF LoopGoes, Next
<1>2. CASE \E r \in OwnRuns : RunGoes(r)
  BY <1>2 DEF OwnRuns, RunGoes, Next
<1>3. CASE TickerGoes
  BY <1>3 DEF TickerGoes, Next
<1>4. CASE OthersGo
  BY <1>4 DEF OthersGo, OwnRuns, Next
<1>5. CASE Exit
  BY <1>5, SelfAssumption DEF Exit, Next
<1>6. CASE LoopReturns \/ Stop \/ WaitReturns \/ StopReturns \/ StopTimesOut
           \/ UNCHANGED allVars
  BY <1>6 DEF LoopReturns, Stop, WaitReturns, StopReturns, StopTimesOut, allVars
<1>. QED
  BY <1>1, <1>2, <1>3, <1>4, <1>5, <1>6 DEF StopNext

\* What is proved of the scheduler holds of a scheduler one worker of which is
\* stopped: refused calls and calls applied late are among its faults, and the
\* exit is a crash.
THEOREM StopIsScheduler == StopSpec => Spec
<1>1. StopInit => Init
  BY DEF StopInit
<1>. QED
  BY <1>1, StopNextIsNext, PTL DEF StopSpec, Spec

\* A worker that is stopped implements the life cycle as one that runs does: no
\* call applied late, no refused call and no exit starts a job twice, reports for
\* a run that is not in progress, or moves a row in any other way.
THEOREM ShutdownRefinement == StopSpec => ImplementsLifecycle
BY StopIsScheduler, Refinement, PTL

-----------------------------------------------------------------------------
\* Types

\* What is known of the goroutines of the process.
LEMMA StopParts ==
  ASSUME StopTypeOK
  PROVE  /\ TypeOK /\ StoreTypeOK /\ WorkerTypeOK /\ Self \in Worker
         /\ \A r \in runs : RunId(r) \in Id /\ r.job \in Job /\ r.n \in Nat
         /\ loop[Self].job \in Job \union {NoJob} /\ PumpJobs \subseteq Job
         /\ held.runs \subseteq Id
<1>1. TypeOK /\ StoreTypeOK /\ WorkerTypeOK /\ Self \in Worker
  BY SelfAssumption DEF StopTypeOK, TypeOK
<1>2. \A r \in runs : RunId(r) \in Id /\ r.job \in Job /\ r.n \in Nat
  BY <1>1 DEF WorkerTypeOK, RunId, Id
<1>3. loop[Self].job \in Job \union {NoJob} /\ PumpJobs \subseteq Job
  BY <1>1 DEF WorkerTypeOK, PumpJobs
<1>4. held.runs \subseteq Id
  BY DEF StopTypeOK
<1>. QED
  BY <1>1, <1>2, <1>3, <1>4

\* No step of a shutdown spoils a type.
LEMMA StopTypes ==
  ASSUME StopTypeOK, [StopNext]_allVars
  PROVE  StopTypeOK'
<1>0. /\ main \in MainPC
      /\ cancelled \in BOOLEAN /\ returned \in BOOLEAN /\ done \in BOOLEAN
      /\ late \subseteq Id \union {LoopId, PumpId, ReaperId} /\ wg \subseteq Id
      /\ held \in [runs : SUBSET Id, jobs : SUBSET (Job \union {NoJob}), pump : SUBSET Job]
  BY DEF StopTypeOK
<1>1. TypeOK'
  BY StopNextIsNext, TypeNext DEF StopTypeOK
<1>2. \A r \in runs' : RunId(r) \in Id
  BY <1>1 DEF TypeOK, WorkerTypeOK, RunId, Id
<1>3. CASE LoopGoes \/ \E r \in OwnRuns : RunGoes(r)
  <2>1. wg' \subseteq Id
    BY <1>2, <1>3 DEF LoopGoes, RunGoes, Register, OwnRuns
  <2>2. late' \subseteq late
    BY <1>3 DEF LoopGoes, RunGoes, MayCall
  <2>. QED
    BY <1>0, <1>1, <1>3, <2>1, <2>2 DEF LoopGoes, RunGoes, StopTypeOK
<1>4. CASE TickerGoes \/ OthersGo \/ UNCHANGED allVars
  <2>1. late' \subseteq late /\ UNCHANGED <<main, cancelled, returned, wg, done, held>>
    BY <1>4 DEF TickerGoes, OthersGo, MayCall, stopVars, allVars
  <2>. QED
    BY <1>0, <1>1, <2>1 DEF StopTypeOK
<1>5. CASE Stop
  <2>1. Calling \subseteq Id \union {LoopId, PumpId, ReaperId}
    BY StopParts DEF Calling, OwnRuns
  <2>2. InHand \in [runs : SUBSET Id, jobs : SUBSET (Job \union {NoJob}), pump : SUBSET Job]
    <3>1. /\ RunIds \in SUBSET Id
          /\ {r.job : r \in OwnRuns} \union {loop[Self].job} \in SUBSET (Job \union {NoJob})
          /\ PumpJobs \in SUBSET Job
      BY StopParts DEF RunIds, OwnRuns
    <3>. QED
      BY <3>1 DEF InHand
  <2>. QED
    BY <1>0, <1>1, <1>5, <2>1, <2>2 DEF Stop, MainPC, StopTypeOK
<1>6. CASE LoopReturns \/ WaitReturns \/ StopReturns \/ StopTimesOut \/ Exit
  BY <1>0, <1>1, <1>6 DEF LoopReturns, WaitReturns, StopReturns, StopTimesOut, Exit, MainPC,
     StopTypeOK
<1>. QED
  BY <1>3, <1>4, <1>5, <1>6 DEF StopNext

\* Types hold in every reachable state, whenever Stop is called.
THEOREM ShutdownTypeCorrect == StopSpec => []StopTypeOK
<1>1. StopInit => StopTypeOK
  <2>. SUFFICES ASSUME StopInit PROVE StopTypeOK
    OBVIOUS
  <2>1. [runs |-> {}, jobs |-> {}, pump |-> {}]
          \in [runs : SUBSET Id, jobs : SUBSET (Job \union {NoJob}), pump : SUBSET Job]
    <3>1. {} \in SUBSET Id /\ {} \in SUBSET (Job \union {NoJob}) /\ {} \in SUBSET Job
      OBVIOUS
    <3>. QED
      BY <3>1
  <2>2. TypeOK
    BY TypeInit DEF StopInit
  <2>. QED
    BY <2>1, <2>2 DEF StopInit, StopTypeOK, MainPC
<1>. QED
  BY <1>1, StopTypes, PTL DEF StopSpec

-----------------------------------------------------------------------------
\* Waiting

\* The runs a shutdown may have to wait for.
Known == RunIds \union held.runs

\* The WaitGroup counts the runs there are.  No run has the number of a claim
\* still to be made, so a run that is started after Wait has returned is not one
\* of those Wait waited for.
WaitInv ==
    /\ main # "exited" => wg = RunIds
    /\ main = "exited" => returned /\ RunIds = {}
    /\ main = "up" => ~done /\ held.runs = {}
    /\ \A i \in Known : i.n <= attempts[i.job]
    /\ loop[Self].pc \in {"insert", "load"} =>
         \A i \in Known : i.job = loop[Self].job => i.n < attempts[i.job]
    /\ StopWaits

\* A step of a loop starts a run, or claims a job, or does neither.
LEMMA LoopCases ==
  ASSUME WorkerTypeOK, NEW w \in Worker, LoopStep(w)
  PROVE  \/ Spawn(w)
         \/ /\ loop[w].pc = "claim" /\ ClaimTask(loop[w].job)
            /\ loop'[w].pc \in {"insert", "giveback"} /\ loop'[w].job = loop[w].job
            /\ UNCHANGED runs
         \/ /\ loop'[w].pc \in {"insert", "load"} =>
                 loop[w].pc = "insert" /\ loop'[w].job = loop[w].job
            /\ UNCHANGED <<attempts, runs>>
<1>1. loop \in [Worker -> [pc : LoopPC, at : 1..Len(Priorities), job : Job \union {NoJob}]]
  BY DEF WorkerTypeOK
<1>2. ASSUME NEW pc, LoopGoto(w, pc)
      PROVE  loop'[w].pc = pc /\ loop'[w].job = loop[w].job
  BY <1>1, <1>2 DEF LoopGoto
<1>3. LoopTop(w) => loop'[w].pc = "poll"
  BY <1>1 DEF LoopTop, AtTop
<1>4. NextQueue(w) /\ loop[w].pc = "poll" => loop'[w].pc = "poll"
  BY <1>1 DEF NextQueue
<1>5. CASE Pop(w)
  BY <1>1, <1>5 DEF Pop, taskVars
<1>6. CASE PollEmpty(w) \/ PopFails(w)
  BY <1>4, <1>6 DEF PollEmpty, PopFails, storeVars, taskVars
<1>7. CASE Claim(w) \/ ClaimFails(w)
  BY <1>2, <1>7 DEF Claim, ClaimFails, taskVars
<1>8. CASE NotClaimed(w) \/ GiveBack(w) \/ LoadFails(w)
  BY <1>2, <1>8 DEF NotClaimed, GiveBack, LoadFails, storeVars, taskVars
<1>9. CASE RecordAttempt(w)
  BY <1>2, <1>9 DEF RecordAttempt, Sql, InsertAttempt, taskVars
<1>10. CASE Spawn(w)
  BY <1>10
<1>11. CASE MarkFailed(w)
  BY <1>2, <1>11 DEF MarkFailed, Sql, SetStatus, taskVars
<1>12. CASE Drop(w)
  BY <1>3, <1>12 DEF Drop, taskVars
<1>13. CASE LoopResent(w)
  BY <1>13 DEF LoopResent, Resent, taskVars, workerVars
<1>. QED
  BY <1>5, <1>6, <1>7, <1>8, <1>9, <1>10, <1>11, <1>12, <1>13 DEF LoopStep

\* A step of a run starts none and counts no attempt.
LEMMA RunKeeps ==
  ASSUME WorkerTypeOK, NEW r \in runs, RunStep(r)
  PROVE  /\ UNCHANGED <<loop, attempts>>
         /\ \A s \in runs' : \E t \in runs : s.job = t.job /\ s.n = t.n /\ s.worker = t.worker
         /\ \A s \in runs : s # r => s \in runs'
         /\ \A s \in runs' \ runs : s.job = r.job /\ s.n = r.n /\ s.worker = r.worker
<1>1. r \in [job : Job, n : Nat, worker : Worker, pc : RunPC]
  BY DEF WorkerTypeOK
<1>. DEFINE Goes == /\ \A s \in runs' : \E t \in runs :
                         s.job = t.job /\ s.n = t.n /\ s.worker = t.worker
                    /\ \A s \in runs : s # r => s \in runs'
                    /\ \A s \in runs' \ runs : s.job = r.job /\ s.n = r.n /\ s.worker = r.worker
<1>2. ASSUME NEW pc, RunGoto(r, pc)
      PROVE  Goes
  <2>1. /\ [r EXCEPT !.pc = pc].job = r.job
        /\ [r EXCEPT !.pc = pc].n = r.n
        /\ [r EXCEPT !.pc = pc].worker = r.worker
    BY <1>1
  <2>. QED
    BY <1>2, <2>1 DEF RunGoto
<1>. HIDE DEF Goes
<1>3. CASE HandlerSucceeds(r) \/ HandlerFails(r)
  BY <1>2, <1>3 DEF HandlerSucceeds, HandlerFails, storeVars, taskVars, Goes
<1>4. CASE MarkSucceeded(r) \/ MarkSucceededFails(r)
  BY <1>2, <1>4 DEF MarkSucceeded, MarkSucceededFails, SetStatus, taskVars, Goes
<1>5. CASE PushDlq(r)
  BY <1>2, <1>5 DEF PushDlq, taskVars, Goes
<1>6. CASE MarkDeadLetter(r) \/ MarkRetry(r)
  BY <1>2, <1>6 DEF MarkDeadLetter, MarkRetry, Sql, SetStatus, RetryTask, taskVars, Goes
<1>7. CASE CloseAttempt(r)
  BY <1>2, <1>7 DEF CloseAttempt, Sql, UpdateAttempt, taskVars, Goes
<1>8. CASE Finish(r)
  BY <1>8 DEF Finish, taskVars, Goes
<1>9. CASE RunResent(r)
  BY <1>9 DEF RunResent, Resent, taskVars, workerVars, Goes
<1>. QED
  BY <1>3, <1>4, <1>5, <1>6, <1>7, <1>8, <1>9 DEF RunStep, Goes

\* What the others leave alone: the loop and the runs of the process.  They may
\* claim jobs.
LEMMA OthersKeep ==
  ASSUME TypeOK, OthersGo
  PROVE  /\ UNCHANGED <<faults, stopVars>> /\ loop'[Self] = loop[Self] /\ OwnRuns' = OwnRuns
         /\ \A j \in Job : attempts'[j] \in Nat /\ attempts[j] <= attempts'[j]
<1>0. /\ WorkerTypeOK /\ UNCHANGED <<faults, stopVars>> /\ Self \in Worker
      /\ attempts \in [Job -> Nat]
      /\ loop \in [Worker -> [pc : LoopPC, at : 1..Len(Priorities), job : Job \union {NoJob}]]
      /\ runs \subseteq [job : Job, n : Nat, worker : Worker, pc : RunPC]
  BY SelfAssumption DEF OthersGo, TypeOK, StoreTypeOK, WorkerTypeOK
<1>. USE DEF storeVars, taskVars, workerVars
<1>1. CASE \E w \in Worker \ {Self} : Loop(w)
  <2>1. PICK w \in Worker \ {Self} : LoopStep(w)
    BY <1>1 DEF Loop
  <2>2. loop'[Self] = loop[Self]
    BY <1>0, <2>1 DEF LoopStep, Pop, PollEmpty, PopFails, Claim, NotClaimed, ClaimFails,
       GiveBack, RecordAttempt, Spawn, LoadFails, MarkFailed, Drop, LoopResent, NextQueue,
       LoopGoto, LoopTop
  <2>3. CASE Spawn(w)
    BY <1>0, <2>1, <2>2, <2>3 DEF Spawn, OwnRuns
  <2>4. CASE ClaimTask(loop[w].job) /\ UNCHANGED runs
    BY <1>0, <2>1, <2>2, <2>4 DEF ClaimTask, OwnRuns
  <2>5. CASE UNCHANGED <<attempts, runs>>
    BY <1>0, <2>2, <2>5 DEF OwnRuns
  <2>. QED
    BY <1>0, <2>1, <2>3, <2>4, <2>5, LoopCases
<1>2. CASE \E r \in runs \ OwnRuns : Run(r)
  <2>1. PICK r \in runs \ OwnRuns : RunStep(r)
    BY <1>2 DEF Run
  <2>2. /\ UNCHANGED <<loop, attempts>>
        /\ \A s \in runs : s # r => s \in runs'
        /\ \A s \in runs' \ runs : s.worker = r.worker
    BY <1>0, <2>1, RunKeeps
  <2>3. OwnRuns' = OwnRuns
    BY <2>1, <2>2 DEF OwnRuns
  <2>. QED
    BY <1>0, <2>2, <2>3
<1>3. CASE UNCHANGED workerVars /\ UNCHANGED attempts
  BY <1>0, <1>3 DEF OwnRuns
<1>4. CASE \E c \in Client : Api(c)
  BY <1>3, <1>4 DEF Api, ApiStep, HandlerStep, CreateJob, CreateConflict, CreateFails, PushJob,
     UpdateCancelled, NotCancellable, CancelFails, RemoveQueued, CallAborts, CallResent, Resent,
     SubmitJob, CancelJob, InsertTask, CancelTask, SetStatus
<1>5. CASE \E w \in Pump \ {Self} : Pumping(w)
  BY <1>3, <1>5 DEF Pumping, PumpStep, SelectDue, PushRetry, PushResent, Resent, Requeue,
     RequeueNothing, RequeueFails, RequeueTask, SetStatus
<1>6. CASE \E w \in Reap \ {Self} : Reaping(w)
  BY <1>3, <1>6 DEF Reaping, ReaperStep, Sweep, ReadStuck, ReadFinished, ReadOther, ReadFails,
     MoveBack, MoveNothing, MoveFails, PushBack, RemoveItem, ReaperResent, Resent
<1>7. CASE \E j \in Job : TimePasses(j)
  BY <1>3, <1>7 DEF TimePasses, BackoffElapses, GrowsStale
<1>. QED
  BY <1>1, <1>2, <1>4, <1>5, <1>6, <1>7 DEF OthersGo

\* Neither do the process's own pump and reaper touch loops and runs.
LEMMA TickerKeeps ==
  ASSUME TickerGoes
  PROVE  /\ UNCHANGED <<loop, runs, attempts, main, cancelled, returned, wg, done, held>>
         /\ late' \subseteq late
<1>. USE DEF storeVars, taskVars, workerVars
<1>1. CASE Pumping(Self) /\ MayCall(PumpId)
  BY <1>1 DEF TickerGoes, MayCall, Pumping, PumpStep, SelectDue, PushRetry, PushResent, Resent,
     Requeue, RequeueNothing, RequeueFails, RequeueTask, SetStatus
<1>2. CASE Reaping(Self) /\ MayCall(ReaperId)
  BY <1>2 DEF TickerGoes, MayCall, Reaping, ReaperStep, Sweep, ReadStuck, ReadFinished,
     ReadOther, ReadFails, MoveBack, MoveNothing, MoveFails, PushBack, RemoveItem, ReaperResent,
     Resent
<1>. QED
  BY <1>1, <1>2 DEF TickerGoes

\* The loop may start a run, but none with a number Wait has waited for.
LEMMA LoopWaits ==
  ASSUME StopTypeOK, WaitInv, LoopGoes
  PROVE  WaitInv'
<1>0. /\ WorkerTypeOK /\ Self \in Worker /\ LoopStep(Self) /\ main # "exited"
      /\ wg' = RunIds' /\ UNCHANGED <<main, done, held>>
      /\ attempts \in [Job -> Nat]
      /\ loop[Self].pc # "poll" => loop[Self].job \in Job
  BY StopParts DEF StoreTypeOK, WorkerTypeOK, WaitInv, LoopGoes, Loop, Register, RunIds
<1>1. \A i \in Known : i.job \in Job /\ i.n \in Nat
  BY StopParts DEF Known, RunIds, OwnRuns, Id
<1>2. ASSUME UNCHANGED runs
      PROVE  RunIds' = RunIds /\ Known' = Known
  BY <1>0, <1>2 DEF RunIds, OwnRuns, Known
<1>3. CASE Spawn(Self)
  <2>. DEFINE j == loop[Self].job
              new == [job |-> j, n |-> attempts[j], worker |-> Self, pc |-> "handler"]
  <2>1. /\ loop[Self].pc = "load" /\ j \in Job /\ runs' = runs \union {new}
        /\ loop'[Self].pc = "poll" /\ UNCHANGED attempts
    BY <1>0, <1>3 DEF Spawn, LoopTop, AtTop, storeVars, taskVars, WorkerTypeOK
  <2>2. RunId(new) = [job |-> j, n |-> attempts[j]] /\ new.worker = Self
    BY DEF RunId
  <2>3. RunIds' = RunIds \union {RunId(new)} /\ Known' = Known \union {RunId(new)}
    BY <1>0, <2>1 DEF RunIds, OwnRuns, Known
  <2>4. \A i \in Known : i.job = j => i.n < attempts[j]
    BY <2>1 DEF WaitInv
  <2>5. RunId(new) \notin Known
    BY <1>0, <1>1, <2>1, <2>2, <2>4
  <2>6. \A i \in Known' : i.n <= attempts'[i.job]
    BY <1>0, <2>1, <2>2, <2>3 DEF WaitInv
  <2>7. StopWaits'
    BY <1>0, <2>3, <2>5 DEF WaitInv, StopWaits, Known
  <2>. QED
    BY <1>0, <2>1, <2>2, <2>6, <2>7 DEF WaitInv
<1>4. CASE /\ loop[Self].pc = "claim" /\ ClaimTask(loop[Self].job)
           /\ loop'[Self].pc \in {"insert", "giveback"} /\ loop'[Self].job = loop[Self].job
           /\ UNCHANGED runs
  <2>. DEFINE j == loop[Self].job
  <2>1. j \in Job /\ attempts' = [attempts EXCEPT ![j] = attempts[j] + 1]
    BY <1>0, <1>4 DEF ClaimTask
  <2>2. \A i \in Known : i.n <= attempts'[i.job] /\ (i.job = j => i.n < attempts'[j])
    BY <1>0, <1>1, <2>1 DEF WaitInv
  <2>3. StopWaits'
    BY <1>0, <1>2, <1>4 DEF WaitInv, StopWaits
  <2>. QED
    BY <1>0, <1>2, <1>4, <2>2, <2>3 DEF WaitInv
<1>5. CASE /\ loop'[Self].pc \in {"insert", "load"} =>
                loop[Self].pc = "insert" /\ loop'[Self].job = loop[Self].job
           /\ UNCHANGED <<attempts, runs>>
  <2>1. StopWaits'
    BY <1>0, <1>2, <1>5 DEF WaitInv, StopWaits
  <2>. QED
    BY <1>0, <1>2, <1>5, <2>1 DEF WaitInv
<1>. QED
  BY <1>0, <1>3, <1>4, <1>5, LoopCases

\* The runs only go.
LEMMA RunsWait ==
  ASSUME StopTypeOK, WaitInv, NEW r \in OwnRuns, RunGoes(r)
  PROVE  WaitInv'
<1>0. /\ RunStep(r) /\ WorkerTypeOK /\ main # "exited" /\ r \in runs
      /\ wg' = RunIds' /\ UNCHANGED <<main, done, held>>
  BY StopParts DEF WaitInv, RunGoes, Run, Register, RunIds, OwnRuns
<1>1. /\ UNCHANGED <<loop, attempts>>
      /\ \A s \in runs' : \E t \in runs : s.job = t.job /\ s.n = t.n /\ s.worker = t.worker
  BY <1>0, RunKeeps
<1>2. RunIds' \subseteq RunIds /\ Known' \subseteq Known
  BY <1>0, <1>1 DEF RunIds, RunId, OwnRuns, Known
<1>3. StopWaits'
  BY <1>0, <1>2 DEF WaitInv, StopWaits
<1>. QED
  BY <1>0, <1>1, <1>2, <1>3 DEF WaitInv

\* No step of the shutdown forgets a run.
LEMMA WaitStep ==
  ASSUME StopTypeOK, WaitInv, [StopNext]_allVars
  PROVE  WaitInv'
<1>. USE DEF vars, storeVars, taskVars, workerVars
<1>1. CASE LoopReturns \/ TickerGoes
  <2>1. /\ returned => returned'
        /\ UNCHANGED <<attempts, loop, runs, main, wg, done, held>>
    BY <1>1, TickerKeeps DEF LoopReturns
  <2>. QED
    BY <2>1 DEF WaitInv, StopWaits, Known, RunIds, OwnRuns
<1>2. CASE LoopGoes
  BY <1>2, LoopWaits
<1>3. CASE \E r \in OwnRuns : RunGoes(r)
  BY <1>3, RunsWait
<1>4. CASE OthersGo
  <2>1. /\ UNCHANGED <<main, returned, wg, done, held>> /\ loop'[Self] = loop[Self]
        /\ RunIds' = RunIds /\ Known' = Known
        /\ \A j \in Job : attempts'[j] \in Nat /\ attempts[j] \in Nat /\ attempts[j] <= attempts'[j]
    BY <1>4, OthersKeep, StopParts DEF stopVars, RunIds, Known, StoreTypeOK
  <2>2. \A i \in Known : i.job \in Job /\ i.n \in Nat
    BY StopParts DEF Known, RunIds, OwnRuns, Id
  <2>. QED
    BY <2>1, <2>2 DEF WaitInv, StopWaits
<1>5. CASE Stop
  <2>1. /\ main = "up" /\ main' = "waiting" /\ held'.runs = RunIds
        /\ UNCHANGED <<attempts, loop, runs, returned, wg, done>>
    BY <1>5 DEF Stop, InHand
  <2>2. RunIds' = RunIds /\ Known' = Known
    BY <2>1 DEF Known, RunIds, OwnRuns, WaitInv
  <2>. QED
    BY <2>1, <2>2 DEF WaitInv, StopWaits
<1>6. CASE WaitReturns
  <2>1. /\ main = "waiting" /\ wg = {}
        /\ UNCHANGED <<attempts, loop, runs, returned, wg, main, held>>
    BY <1>6 DEF WaitReturns
  <2>2. RunIds' = {} /\ Known' = Known
    BY <2>1 DEF Known, RunIds, OwnRuns, WaitInv
  <2>. QED
    BY <2>1, <2>2 DEF WaitInv, StopWaits, RunIds
<1>7. CASE StopReturns \/ StopTimesOut
  <2>1. /\ main = "waiting" /\ main' \in {"stopped", "timedout"}
        /\ UNCHANGED <<attempts, loop, runs, returned, wg, done, held>>
    BY <1>7 DEF StopReturns, StopTimesOut
  <2>. QED
    BY <2>1 DEF WaitInv, StopWaits, Known, RunIds, OwnRuns
<1>8. CASE Exit
  <2>1. /\ main # "up" /\ main' = "exited" /\ OwnRuns' = {} /\ returned'
        /\ loop'[Self].pc = "poll" /\ UNCHANGED <<attempts, done, held>>
    BY <1>8, StopParts
       DEF Exit, WorkerCrash, WorkerLost, LoopTop, AtTop, OwnRuns, WaitInv, WorkerTypeOK
  <2>2. RunIds' = {} /\ Known' \subseteq Known
    BY <2>1 DEF Known, RunIds
  <2>. QED
    BY <2>1, <2>2 DEF WaitInv, StopWaits
<1>9. CASE UNCHANGED allVars
  <2>1. UNCHANGED <<attempts, loop, runs, main, returned, wg, done, held>>
    BY <1>9 DEF allVars, stopVars
  <2>. QED
    BY <2>1 DEF WaitInv, StopWaits, Known, RunIds, OwnRuns
<1>. QED
  BY <1>1, <1>2, <1>3, <1>4, <1>5, <1>6, <1>7, <1>8, <1>9 DEF StopNext

\* When wg.Wait has returned, no run that had been started when Stop was called
\* is left, and none is ever started again under its number: the order of
\* wg.Add, the go statement and wg.Wait is right, however many jobs there are.
THEOREM WaitCoversRuns == StopSpec => []StopWaits
<1>1. StopInit => WaitInv
  BY SelfAssumption
     DEF StopInit, Init, WorkerInit, WaitInv, StopWaits, Known, RunIds, OwnRuns, AtTop
<1>2. StopTypeOK /\ WaitInv /\ [StopNext]_allVars => WaitInv'
  BY WaitStep
<1>3. WaitInv => StopWaits
  BY DEF WaitInv
<1>. QED
  BY <1>1, <1>2, <1>3, ShutdownTypeCorrect, PTL DEF StopSpec

-----------------------------------------------------------------------------
\* Rows left 'running'

\* Before the cancel nothing has failed.  After it, whatever the process has
\* claimed is a job it had in hand, because its loop can claim only with a call
\* that was in flight; and a running row is that of such a job, or of one that is
\* being executed.
InProgress ==
    /\ \A r \in OwnRuns : r.job \in held.jobs
    /\ loop[Self].pc \in OwnerPC \/ LoopId \in late => loop[Self].job \in held.jobs
    /\ \A j \in Job : status[j] = "running" => j \in held.jobs \/ j \in Executing

StuckInv ==
    /\ cancelled <=> main # "up"
    /\ ~cancelled => faults = 0
    /\ cancelled => InProgress

\* A call made with the cancelled context changes no row and no list, and before
\* the cancel no call fails.
LEMMA CallAllowed ==
  ASSUME NEW who, MayCall(who)
  PROVE  /\ ~cancelled => UNCHANGED faults
         /\ cancelled /\ who \notin late =>
              /\ UNCHANGED <<taskVars, rows, redisVars>> /\ faults' = faults + 1
         /\ late' = late \ {who}
BY DEF MayCall, Refused

\* A step of a loop keeps the other loops and all runs; its own job is one it has
\* in hand before, or claims.
LEMMA LoopKeeps ==
  ASSUME WorkerTypeOK, NEW w \in Worker, LoopStep(w)
  PROVE  /\ \A u \in Worker : u # w => loop'[u] = loop[u]
         /\ runs \subseteq runs'
         /\ \A r \in runs' \ runs :
              loop[w].pc \in OwnerPC /\ r.job = loop[w].job /\ r.worker = w
         /\ loop'[w].pc \in OwnerPC => /\ loop'[w].job = loop[w].job
                                       /\ loop[w].pc \in OwnerPC \/ Claim(w)
<1>1. /\ loop \in [Worker -> [pc : LoopPC, at : 1..Len(Priorities), job : Job \union {NoJob}]]
      /\ runs \subseteq [job : Job, n : Nat, worker : Worker, pc : RunPC]
  BY DEF WorkerTypeOK
<1>. USE DEF storeVars, workerVars, OwnerPC
<1>2. \A u \in Worker : u # w => loop'[u] = loop[u]
  BY <1>1 DEF LoopStep, Pop, PollEmpty, PopFails, Claim, NotClaimed, ClaimFails, GiveBack,
     RecordAttempt, Spawn, LoadFails, MarkFailed, Drop, LoopResent, NextQueue, LoopGoto, LoopTop
<1>3. CASE Spawn(w)
  BY <1>1, <1>2, <1>3 DEF Spawn, LoopTop, AtTop
<1>4. CASE Claim(w)
  BY <1>1, <1>2, <1>4 DEF Claim, LoopGoto
<1>5. CASE RecordAttempt(w) \/ LoadFails(w)
  BY <1>1, <1>2, <1>5 DEF RecordAttempt, LoadFails, LoopGoto
<1>6. CASE LoopResent(w)
  BY <1>1, <1>2, <1>6 DEF LoopResent
<1>7. CASE \/ Pop(w) \/ PollEmpty(w) \/ PopFails(w) \/ NotClaimed(w) \/ ClaimFails(w)
           \/ GiveBack(w) \/ MarkFailed(w) \/ Drop(w)
  BY <1>1, <1>2, <1>7 DEF Pop, PollEmpty, PopFails, NotClaimed, ClaimFails, GiveBack,
     MarkFailed, Drop, NextQueue, LoopGoto, LoopTop, AtTop
<1>. QED
  BY <1>3, <1>4, <1>5, <1>6, <1>7 DEF LoopStep

\* The loop of the process claims no job it did not have in hand.
LEMMA LoopStuck ==
  ASSUME StopTypeOK, cancelled, InProgress, LoopGoes
  PROVE  InProgress'
<1>0. /\ LoopStep(Self) /\ MayCall(LoopId) /\ UNCHANGED held
      /\ WorkerTypeOK /\ StoreTypeOK /\ Self \in Worker /\ status \in [Job -> Status]
      /\ loop[Self].pc # "poll" => loop[Self].job \in Job
  BY StopParts DEF LoopGoes, Loop, StoreTypeOK, WorkerTypeOK
<1>1. LoopId \notin late' /\ (LoopId \notin late => UNCHANGED taskVars)
  BY <1>0, CallAllowed
<1>2. Claim(Self) => LoopId \in late
  BY <1>0, <1>1 DEF Claim, ClaimTask, taskVars
<1>3. \A r \in OwnRuns' : r.job \in held'.jobs
  BY <1>0, LoopKeeps DEF InProgress, OwnRuns
<1>4. loop'[Self].pc \in OwnerPC => loop'[Self].job \in held'.jobs
  BY <1>0, <1>2, LoopKeeps DEF InProgress
<1>5. ASSUME NEW j \in Job, status'[j] = "running", j \notin held.jobs
      PROVE  j \in Executing'
  <2>1. status[j] = "running"
    BY <1>0, <1>1, <1>5, LoopProgress DEF taskVars, InProgress
  <2>2. j \in Executing /\ ~Owns(Self, j)
    BY <1>5, <2>1 DEF InProgress, Owns
  <2>3. \A u \in Worker : Owns(u, j) => Owns(u, j)'
    BY <1>0, <2>2, LoopKeeps DEF Owns
  <2>4. runs \subseteq runs'
    BY <1>0, LoopKeeps
  <2>. QED
    BY <2>2, <2>3, <2>4 DEF Executing, Active
<1>. QED
  BY <1>0, <1>1, <1>3, <1>4, <1>5 DEF InProgress

\* Nor do its runs.
LEMMA RunStuck ==
  ASSUME StopTypeOK, cancelled, InProgress, NEW r \in OwnRuns, RunGoes(r)
  PROVE  InProgress'
<1>0. /\ RunStep(r) /\ UNCHANGED held /\ late' \subseteq late /\ r \in runs
      /\ WorkerTypeOK /\ StoreTypeOK /\ Self \in Worker
  BY StopParts DEF RunGoes, Run, MayCall, OwnRuns
<1>1. /\ UNCHANGED loop
      /\ \A s \in runs' : \E t \in runs : s.job = t.job /\ s.worker = t.worker
      /\ \A s \in runs : s # r => s \in runs'
  BY <1>0, RunKeeps
<1>2. \A s \in OwnRuns' : s.job \in held'.jobs
  BY <1>0, <1>1 DEF InProgress, OwnRuns
<1>3. ASSUME NEW j \in Job, status'[j] = "running", j \notin held.jobs
      PROVE  j \in Executing'
  <2>1. status[j] = "running"
    BY <1>0, <1>3, RunProgress
  <2>2. j \in Executing /\ j # r.job
    BY <1>3, <2>1 DEF InProgress
  <2>. QED
    BY <1>1, <2>2 DEF Executing, Owns, Active
<1>. QED
  BY <1>0, <1>1, <1>2, <1>3 DEF InProgress

\* No step of the shutdown adds to the rows that are left 'running'.
LEMMA StuckStep ==
  ASSUME StopTypeOK, RunningExecuted, StuckInv, [StopNext]_allVars
  PROVE  StuckInv'
<1>0. /\ TypeOK /\ StoreTypeOK /\ WorkerTypeOK /\ Self \in Worker /\ status \in [Job -> Status]
  BY StopParts DEF StoreTypeOK
<1>. USE DEF vars, storeVars, taskVars, workerVars
<1>1. CASE LoopReturns \/ WaitReturns \/ StopReturns \/ StopTimesOut \/ UNCHANGED allVars
  <2>1. /\ UNCHANGED <<status, faults, loop, runs, cancelled, late, held>>
        /\ main' = main \/ (main = "waiting" /\ main' \in {"stopped", "timedout"})
    BY <1>1 DEF LoopReturns, WaitReturns, StopReturns, StopTimesOut, allVars, stopVars
  <2>. QED
    BY <2>1 DEF StuckInv, InProgress, OwnRuns, Executing, Owns, Active
<1>2. CASE LoopGoes
  <2>1. UNCHANGED <<main, cancelled>> /\ (~cancelled => UNCHANGED faults)
    BY <1>2, CallAllowed DEF LoopGoes
  <2>. QED
    BY <1>2, <2>1, LoopStuck DEF StuckInv
<1>3. CASE \E r \in OwnRuns : RunGoes(r)
  <2>1. PICK r \in OwnRuns : RunGoes(r)
    BY <1>3
  <2>2. UNCHANGED <<main, cancelled>> /\ (~cancelled => UNCHANGED faults)
    <3>1. r.pc = "handler" => UNCHANGED faults
      BY <2>1 DEF RunGoes, Run, RunStep, HandlerSucceeds, HandlerFails, MarkSucceeded,
         MarkSucceededFails, PushDlq, MarkDeadLetter, MarkRetry, CloseAttempt, Finish, RunResent
    <3>. QED
      BY <2>1, <3>1, CallAllowed DEF RunGoes
  <2>. QED
    BY <2>1, <2>2, RunStuck DEF StuckInv
<1>4. CASE TickerGoes
  <2>1. /\ UNCHANGED <<loop, runs, main, cancelled, held>> /\ late' \subseteq late
        /\ ~cancelled => UNCHANGED faults
    BY <1>4, TickerKeeps, CallAllowed DEF TickerGoes
  <2>2. \A j \in Job : status'[j] = "running" => status[j] = "running"
    BY <1>0, <1>4 DEF TickerGoes, Pumping, PumpStep, SelectDue, PushRetry, PushResent, Resent,
       Requeue, RequeueNothing, RequeueFails, RequeueTask, SetStatus, Reaping, ReaperStep, Sweep,
       ReadStuck, ReadFinished, ReadOther, ReadFails, MoveBack, MoveNothing, MoveFails, PushBack,
       RemoveItem, ReaperResent
  <2>. QED
    BY <2>1, <2>2 DEF StuckInv, InProgress, OwnRuns, Executing, Owns, Active
<1>5. CASE OthersGo
  <2>1. /\ UNCHANGED <<faults, main, cancelled, late, held>> /\ loop'[Self] = loop[Self]
        /\ OwnRuns' = OwnRuns
    BY <1>0, <1>5, OthersKeep DEF stopVars
  <2>2. ASSUME NEW j \in Job, status[j] = "running" => j \in Executing, status'[j] = "running"
        PROVE  j \in Executing'
    BY <1>0, <2>1, <2>2, StopNextIsNext, RunningStep
  <2>. QED
    BY <2>1, <2>2 DEF StuckInv, InProgress
<1>6. CASE Stop
  <2>1. /\ main = "up" /\ main' = "waiting" /\ cancelled' = TRUE
        /\ held'.jobs = {r.job : r \in OwnRuns} \union {loop[Self].job}
        /\ UNCHANGED <<status, loop, runs>>
    BY <1>6 DEF Stop, InHand
  <2>2. \A j \in Job : status[j] = "running" => j \in Executing
    BY <2>1 DEF StuckInv, RunningExecuted
  <2>. QED
    BY <2>1, <2>2 DEF StuckInv, InProgress, OwnRuns, Executing, Owns, Active
<1>7. CASE Exit
  <2>1. /\ main # "up" /\ main' = "exited" /\ late' = {} /\ UNCHANGED <<status, cancelled, held>>
        /\ loop'[Self].pc = "poll" /\ \A u \in Worker : u # Self => loop'[u] = loop[u]
        /\ runs' = runs \ OwnRuns
    BY <1>0, <1>7 DEF Exit, WorkerCrash, WorkerLost, LoopTop, AtTop, OwnRuns, WorkerTypeOK
  <2>2. ASSUME NEW j \in Job, status'[j] = "running", j \notin held.jobs, cancelled
        PROVE  j \in Executing'
    <3>1. j \in Executing /\ ~Owns(Self, j) /\ \A r \in OwnRuns : r.job # j
      BY <2>1, <2>2 DEF StuckInv, InProgress, Owns
    <3>. QED
      BY <2>1, <3>1 DEF Executing, Owns, Active
  <2>. QED
    BY <2>1, <2>2 DEF StuckInv, InProgress, OwnRuns, OwnerPC
<1>. QED
  BY <1>1, <1>2, <1>3, <1>4, <1>5, <1>6, <1>7 DEF StopNext

\* A shutdown leaves no row 'running' except of jobs that were in progress when
\* it began, though calls that were in flight may still be applied: a job that is
\* popped as Stop is called is not claimed.
THEOREM OnlyHeldLeft == StopSpec => []OnlyHeldStuck
<1>1. StopInit => StuckInv
  BY DEF StopInit, Init, StoreInit, StuckInv
<1>2. StopTypeOK /\ RunningExecuted /\ StuckInv /\ [StopNext]_allVars => StuckInv'
  BY StuckStep
<1>3. StuckInv => OnlyHeldStuck
  BY DEF StuckInv, InProgress, OnlyHeldStuck
<1>. QED
  BY <1>1, <1>2, <1>3, ShutdownTypeCorrect, StopIsScheduler, RunningIsTrue, PTL DEF StopSpec

-----------------------------------------------------------------------------
\* Entries

\* No call made for this goroutine of the process is applied any more.
Over(id) == cancelled /\ id \notin late

\* Who may still take an entry of the job out of q:processing: the loops that
\* hold it, those among them that are past the claim, and the runs.
LoopDue(j)   == {w \in Holding(j) : w = Self => ~Over(LoopId)}
PastClaim(j) == LoopDue(j) \ Claiming(j)
RunDue(j)    == {r \in Mine(j) : r.worker = Self => ~Over(RunId(r))}

\* How many entries of the job are in q:processing.
There(j) == Cardinality(Places(j, processing))

\* What makes it unnecessary to find one there.
Covered(j) == InQueue(j) \/ Pushing(j) # {} \/ j \in held.pump

\* There is an entry for everybody who may take one out, and one more for a
\* queued job that is not covered, whose loop may not get to claim it.
Kept(j) ==
    /\ IsFiniteSet(LoopDue(j)) /\ IsFiniteSet(RunDue(j))
    /\ Cardinality(LoopDue(j)) + Cardinality(RunDue(j)) <= There(j)
    /\ status[j] = "queued" /\ j \notin acked =>
         Covered(j) \/ Cardinality(PastClaim(j)) + Cardinality(RunDue(j)) < There(j)

KeptInv ==
    /\ \A j \in Job \ swept : Kept(j)
    /\ \A c \in Client : call[c].pc = "lrem" => call[c].job \in acked
    /\ ~cancelled => held.pump = {}
    /\ cancelled /\ Self \in Pump =>
         /\ pump[Self].push # NoJob => pump[Self].push \in held.pump
         /\ PumpId \in late => \A t \in pump[Self].todo : t.job \in held.pump

\* The job is queued as before, with what covered it; or it is covered now.
StillCovered(j) ==
    status'[j] = "queued" /\ j \notin acked' =>
        \/ Covered(j)'
        \/ status[j] = "queued" /\ j \notin acked /\ ~Covered(j)

\* A smaller set of takers.
LEMMA Fewer ==
  ASSUME NEW A, NEW B, IsFiniteSet(A), B \subseteq A
  PROVE  /\ IsFiniteSet(B) /\ Cardinality(A) \in Nat /\ Cardinality(B) \in Nat
         /\ Cardinality(B) <= Cardinality(A)
<1>1. IsFiniteSet(B) /\ Cardinality(B) <= Cardinality(A)
  BY FS_Subset
<1>2. Cardinality(A) \in Nat
  BY FS_CardinalityType
<1>3. Cardinality(B) \in Nat
  BY <1>1, FS_CardinalityType
<1>. QED
  BY <1>1, <1>2, <1>3

\* One taker more.
LEMMA OneMore ==
  ASSUME NEW A, NEW x, IsFiniteSet(A)
  PROVE  /\ IsFiniteSet(A \union {x}) /\ Cardinality(A) \in Nat
         /\ Cardinality(A \union {x}) <= Cardinality(A) + 1
<1>1. Cardinality(A) \in Nat
  BY FS_CardinalityType
<1>2. /\ IsFiniteSet(A \union {x})
      /\ Cardinality(A \union {x}) = IF x \in A THEN Cardinality(A) ELSE Cardinality(A) + 1
  BY FS_AddElement
<1>. QED
  BY <1>1, <1>2

\* A step that neither adds takers nor changes the job's entries there.
LEMMA KeptOn ==
  ASSUME NEW j \in Job, Kept(j), There(j) \in Nat, There(j)' = There(j),
         LoopDue(j)' \subseteq LoopDue(j), RunDue(j)' \subseteq RunDue(j),
         PastClaim(j)' \subseteq PastClaim(j) \/ status'[j] # "queued",
         StillCovered(j)
  PROVE  Kept(j)'
<1>1. /\ IsFiniteSet(LoopDue(j)') /\ IsFiniteSet(RunDue(j)')
      /\ Cardinality(LoopDue(j)) \in Nat /\ Cardinality(LoopDue(j)') \in Nat
      /\ Cardinality(RunDue(j)) \in Nat /\ Cardinality(RunDue(j)') \in Nat
      /\ Cardinality(LoopDue(j)') <= Cardinality(LoopDue(j))
      /\ Cardinality(RunDue(j)') <= Cardinality(RunDue(j))
  BY Fewer DEF Kept
<1>2. PastClaim(j)' \subseteq PastClaim(j) =>
        /\ Cardinality(PastClaim(j)) \in Nat /\ Cardinality(PastClaim(j)') \in Nat
        /\ Cardinality(PastClaim(j)') <= Cardinality(PastClaim(j))
  <2>1. IsFiniteSet(PastClaim(j))
    BY Fewer DEF Kept, PastClaim
  <2>. QED
    BY <2>1, Fewer
<1>. QED
  BY <1>1, <1>2 DEF Kept, StillCovered

\* A step that adds no loop and no run.
LEMMA DueKept ==
  ASSUME NEW j \in Job, UNCHANGED loop, runs' \subseteq runs, \A id : Over(id) => Over(id)'
  PROVE  /\ LoopDue(j)' \subseteq LoopDue(j) /\ PastClaim(j)' \subseteq PastClaim(j)
         /\ RunDue(j)' \subseteq RunDue(j)
BY DEF LoopDue, PastClaim, RunDue, Holding, Claiming, Mine, RunId

\* Numbers of entries are natural numbers.
LEMMA ThereTypes ==
  ASSUME TypeOK, NEW j \in Job
  PROVE  /\ There(j) \in Nat
         /\ There(j) # 0 => Contains(processing, j)
<1>1. processing \in Seq(Job)
  BY DEF TypeOK, StoreTypeOK
<1>. QED
  BY <1>1, PlacesFinite, ContainsPlaces DEF There

-----------------------------------------------------------------------------
\* Clients, pumps and reapers

\* Processes that push an entry keep their reason until they have pushed it.
LEMMA CoveredOn ==
  ASSUME NEW j \in Job, held'.pump = held.pump, Covered(j),
         InQueue(j) => InQueue(j)', Pushing(j) \subseteq Pushing(j)'
  PROVE  Covered(j)'
BY DEF Covered

\* The handlers of SubmitJob and CancelJob.
LEMMA ApiCovered ==
  ASSUME TypeOK, UNCHANGED <<faults, held>>, NEW c \in Client, Api(c),
         call[c].pc = "lrem" => call[c].job \in acked, NEW j \in Job
  PROVE  StillCovered(j)
<1>. SUFFICES ASSUME status'[j] = "queued", j \notin acked'
              PROVE  \/ Covered(j)'
                     \/ status[j] = "queued" /\ j \notin acked /\ ~Covered(j)
  BY DEF StillCovered
<1>. USE DEF storeVars, taskVars, redisVars
<1>0. /\ RedisOK /\ status \in [Job -> Status] /\ faults \in Nat /\ held'.pump = held.pump
      /\ call \in [Client -> [pc : CallPC, job : Job \union {NoJob}, seen : Status]]
      /\ call[c].pc # "idle" => call[c].job \in Job /\ JobPriority[call[c].job] \in Priority
  BY PriorityTypes DEF TypeOK, StoreTypeOK, RedisOK, ApiTypeOK
<1>f. ASSUME NEW kind PROVE ~Fault(kind)
  BY <1>0, NoFault
<1>1. ApiStep(c) /\ UNCHANGED pump /\ j \notin acked
  BY <1>f DEF Api, ApiStep, HandlerStep, CreateJob, CreateConflict, CreateFails, PushJob,
         UpdateCancelled, NotCancellable, CancelFails, RemoveQueued, CallAborts,
         CallResent, Resent, SubmitJob, CancelJob, workerVars
<1>2. CASE CreateJob(c)
  <2>1. /\ call'[c].pc = "push" /\ call'[c].job = call[c].job /\ call[c].pc = "create"
        /\ \A d \in Client : d # c => call'[d] = call[d]
        /\ status' = [status EXCEPT ![call[c].job] = "queued"] /\ UNCHANGED queue
    BY <1>0, <1>2 DEF CreateJob, Goto, InsertTask, SetStatus
  <2>2. CASE j = call[c].job
    BY <2>1, <2>2 DEF Covered, Pushing
  <2>3. CASE j # call[c].job
    <3>1. Pushing(j) \subseteq Pushing(j)'
      BY <1>1, <2>1 DEF Pushing
    <3>. QED
      BY <1>0, <1>1, <2>1, <2>3, <3>1, CoveredOn DEF InQueue
  <2>. QED
    BY <2>2, <2>3
<1>3. CASE PushJob(c)
  <2>1. /\ call[c].pc = "push" /\ LPush(JobPriority[call[c].job], call[c].job)
        /\ \A d \in Client : d # c => call'[d] = call[d]
        /\ UNCHANGED status
    BY <1>0, <1>3, <1>f DEF PushJob, Redis, Return
  <2>2. j = call[c].job \/ InQueue(j) => InQueue(j)'
    BY <1>0, <2>1, LPushQueued
  <2>3. j # call[c].job => Pushing(j) \subseteq Pushing(j)'
    BY <1>1, <2>1 DEF Pushing
  <2>. QED
    BY <1>0, <1>1, <2>1, <2>2, <2>3, CoveredOn DEF Covered
<1>4. CASE RemoveQueued(c)
  <2>. DEFINE e == call[c].job
              p == JobPriority[e]
  <2>1. /\ call[c].pc = "lrem" /\ e \in acked /\ p \in Priority
        /\ queue' = [queue EXCEPT ![p] = Without(queue[p], e)]
        /\ \A d \in Client : d # c => call'[d] = call[d]
        /\ UNCHANGED status
    BY <1>0, <1>4, <1>f DEF RemoveQueued, Redis, Return, LRemAll
  <2>2. j # e
    BY <1>1, <2>1
  <2>. HIDE DEF e, p
  <2>3. queue \in [Priority -> Seq(Job)]
    BY <1>0 DEF RedisOK
  <2>4. Contains(queue[p], j) => Contains(queue'[p], j)
    BY <2>1, <2>2, <2>3, WithoutContains
  <2>5. InQueue(j) => InQueue(j)'
    BY <2>1, <2>3, <2>4 DEF InQueue
  <2>6. Pushing(j) \subseteq Pushing(j)'
    BY <1>1, <2>1 DEF Pushing
  <2>. QED
    BY <1>0, <1>1, <2>1, <2>5, <2>6, CoveredOn
<1>5. CASE \/ CreateConflict(c) \/ UpdateCancelled(c) \/ NotCancellable(c)
           \/ \E k \in Job : SubmitJob(c, k) \/ CancelJob(c, k)
  <2>1. /\ call[c].pc # "push" /\ UNCHANGED queue
        /\ \A d \in Client : d # c => call'[d] = call[d]
    BY <1>0, <1>5 DEF CreateConflict, UpdateCancelled, NotCancellable, SubmitJob, CancelJob,
       Goto, Return, SetStatus, CancelTask
  <2>2. status[j] = "queued"
    BY <1>0, <1>5 DEF CreateConflict, UpdateCancelled, NotCancellable, SubmitJob, CancelJob,
       SetStatus, CancelTask
  <2>3. Pushing(j) \subseteq Pushing(j)'
    BY <1>1, <2>1 DEF Pushing
  <2>. QED
    BY <1>0, <1>1, <2>1, <2>2, <2>3, CoveredOn DEF InQueue
<1>6. CASE CreateFails(c) \/ CancelFails(c) \/ CallAborts(c) \/ CallResent(c)
  BY <1>6, <1>f DEF CreateFails, CancelFails, CallAborts, CallResent, Resent
<1>. QED
  BY <1>1, <1>2, <1>3, <1>4, <1>5, <1>6 DEF ApiStep, HandlerStep

\* A pump covers the job it has requeued until it has pushed it.  Only the pump of
\* the process can fail to, and then it had the job in hand when Stop was called.
LEMMA PumpCovered ==
  ASSUME TypeOK, KeptInv, UNCHANGED held, NEW w \in Pump, Pumping(w),
         \/ UNCHANGED faults
         \/ w = Self /\ cancelled /\ (PumpId \in late \/ UNCHANGED <<taskVars, redisVars>>),
         NEW j \in Job
  PROVE  StillCovered(j)
<1>. SUFFICES ASSUME status'[j] = "queued", j \notin acked'
              PROVE  \/ Covered(j)'
                     \/ status[j] = "queued" /\ j \notin acked /\ ~Covered(j)
  BY DEF StillCovered
<1>. USE DEF storeVars, taskVars, redisVars
<1>0. /\ RedisOK /\ status \in [Job -> Status] /\ faults \in Nat /\ held'.pump = held.pump
      /\ pump \in [Pump -> [todo : SUBSET [job : Job, n : Nat], push : Job \union {NoJob}]]
      /\ \A k \in Job : JobPriority[k] \in Priority
  BY PriorityTypes DEF TypeOK, StoreTypeOK, RedisOK, PumpTypeOK
<1>1. PumpStep(w) /\ UNCHANGED call /\ j \notin acked
  BY DEF Pumping, apiVars
<1>f. ASSUME NEW kind, Fault(kind)
      PROVE  w = Self /\ cancelled /\ (PumpId \in late \/ UNCHANGED <<taskVars, redisVars>>)
  BY <1>0, <1>f, NoFault
<1>2. CASE PushRetry(w)
  <2>. DEFINE e == pump[w].push
  <2>0. /\ e # NoJob /\ UNCHANGED status
        /\ \A u \in Pump : u # w => pump'[u] = pump[u]
        /\ LPush(JobPriority[e], e) \/ (UNCHANGED queue /\ Fault("redis"))
    BY <1>0, <1>2 DEF PushRetry, Redis
  <2>e. e \in Job
    BY <1>0, <2>0
  <2>f. Fault("redis") => e \in held.pump
    BY <1>f, <2>0 DEF KeptInv
  <2>1. /\ e \in Job /\ UNCHANGED status
        /\ \A u \in Pump : u # w => pump'[u] = pump[u]
        /\ LPush(JobPriority[e], e) \/ (UNCHANGED queue /\ e \in held.pump)
    BY <2>0, <2>e, <2>f
  <2>2. j # e => Pushing(j) \subseteq Pushing(j)'
    BY <1>1, <2>1 DEF Pushing
  <2>3. CASE LPush(JobPriority[e], e)
    <3>1. j = e \/ InQueue(j) => InQueue(j)'
      BY <1>0, <2>1, <2>3, LPushQueued
    <3>. QED
      BY <1>0, <1>1, <2>1, <2>2, <3>1, CoveredOn DEF Covered
  <2>4. CASE UNCHANGED queue /\ e \in held.pump
    BY <1>0, <1>1, <2>1, <2>2, <2>4, CoveredOn DEF Covered, InQueue
  <2>. QED
    BY <2>1, <2>3, <2>4
<1>3. CASE PushResent(w)
  <2>1. /\ pump[w].push \in Job /\ LPush(JobPriority[pump[w].push], pump[w].push)
        /\ UNCHANGED <<status, pump>>
    BY <1>0, <1>3 DEF PushResent, Resent
  <2>2. InQueue(j) => InQueue(j)'
    BY <1>0, <2>1, LPushQueued
  <2>3. Pushing(j) \subseteq Pushing(j)'
    BY <1>1, <2>1 DEF Pushing
  <2>. QED
    BY <1>0, <1>1, <2>1, <2>2, <2>3, CoveredOn
<1>4. CASE \E t \in pump[w].todo : Requeue(w, t)
  <2>0. PICK t \in pump[w].todo : Requeue(w, t)
    BY <1>4
  <2>1. PICK k \in Job : k = t.job
    BY <1>0
  <2>2. /\ pump[w].push = NoJob /\ pump'[w].push = k /\ UNCHANGED queue
        /\ \A u \in Pump : u # w => pump'[u] = pump[u]
        /\ j # k => status[j] = "queued"
    BY <1>0, <2>0, <2>1 DEF Requeue, RequeueTask, SetStatus
  <2>3. j = k => w \in Pushing(j)'
    BY <2>2 DEF Pushing
  <2>4. Pushing(j) \subseteq Pushing(j)'
    BY <1>1, <2>2, JobAssumption DEF Pushing
  <2>. QED
    BY <1>0, <1>1, <2>2, <2>3, <2>4, CoveredOn DEF Covered, InQueue
<1>5. CASE SelectDue(w) \/ \E t \in pump[w].todo : RequeueNothing(w, t)
  <2>1. /\ pump'[w].push = pump[w].push /\ UNCHANGED <<queue, status>>
        /\ \A u \in Pump : u # w => pump'[u] = pump[u]
    BY <1>0, <1>5 DEF SelectDue, RequeueNothing
  <2>2. Pushing(j) \subseteq Pushing(j)'
    BY <1>1, <2>1 DEF Pushing
  <2>. QED
    BY <1>0, <1>1, <2>1, <2>2, CoveredOn DEF InQueue
<1>6. CASE \E t \in pump[w].todo : RequeueFails(w, t)
  <2>0. PICK t \in pump[w].todo : RequeueFails(w, t)
    BY <1>6
  <2>1. PICK k \in Job : k = t.job
    BY <1>0
  <2>2. /\ pump'[w].push = pump[w].push /\ UNCHANGED queue
        /\ \A u \in Pump : u # w => pump'[u] = pump[u]
        /\ RequeueTask(k) \/ UNCHANGED status
        /\ w = Self /\ cancelled /\ (PumpId \in late \/ UNCHANGED status)
    BY <1>0, <2>0, <2>1, <1>f DEF RequeueFails
  <2>3. Pushing(j) \subseteq Pushing(j)'
    BY <1>1, <2>2 DEF Pushing
  <2>4. j # k \/ UNCHANGED status => status[j] = "queued"
    BY <1>0, <2>2 DEF RequeueTask, SetStatus
  <2>5. j = k /\ ~UNCHANGED status => j \in held.pump
    BY <2>1, <2>2 DEF KeptInv
  <2>. QED
    BY <1>0, <1>1, <2>2, <2>3, <2>4, <2>5, CoveredOn DEF Covered, InQueue
<1>. QED
  BY <1>1, <1>2, <1>3, <1>4, <1>5, <1>6 DEF PumpStep

\* A reaper adds entries to the queues and, of a job it does not touch, takes none
\* out of q:processing.
LEMMA ReaperKept ==
  ASSUME TypeOK, UNCHANGED held, NEW w \in Reap, Reaping(w), NEW j \in Job, j \notin swept'
  PROVE  /\ j \notin swept /\ StillCovered(j) /\ There(j)' = There(j)
         /\ UNCHANGED <<loop, runs>>
<1>1. /\ UNCHANGED <<status, acked, call, pump, loop, runs>> /\ held'.pump = held.pump
  BY DEF Reaping, apiVars, workerVars, storeVars, taskVars, ReaperStep, Sweep, ReadStuck,
     ReadFinished, ReadOther, ReadFails, MoveBack, MoveNothing, MoveFails, PushBack, RemoveItem,
     ReaperResent, Resent
<1>2. /\ j \notin swept /\ There(j)' = There(j)
      /\ \/ UNCHANGED queue
         \/ \E p \in Priority, e \in Job \ {j} : Prepended(p, e)
  BY ReaperTouches DEF There
<1>3. queue \in [Priority -> Seq(Job)]
  BY DEF TypeOK, StoreTypeOK
<1>4. ASSUME NEW p \in Priority, NEW e \in Job, Prepended(p, e), InQueue(j)
      PROVE  InQueue(j)'
  <2>1. Contains(queue[p], j) => Contains(queue'[p], j)
    BY <1>3, <1>4, ConsContains DEF Prepended
  <2>2. \A q \in Priority : q # p => queue'[q] = queue[q]
    BY <1>3, <1>4 DEF Prepended
  <2>. QED
    BY <1>4, <2>1, <2>2 DEF InQueue
<1>5. (InQueue(j) => InQueue(j)') /\ Pushing(j) \subseteq Pushing(j)'
  BY <1>1, <1>2, <1>4 DEF InQueue, Pushing
<1>. QED
  BY <1>1, <1>2, <1>5, CoveredOn DEF StillCovered

-----------------------------------------------------------------------------
\* The loop

\* The takers of a job's entries do not grow in number by more than the entries.
LEMMA KeptBy ==
  ASSUME NEW j \in Job, There(j) \in Nat, There(j)' \in Nat,
         IsFiniteSet(LoopDue(j)'), IsFiniteSet(RunDue(j)'), IsFiniteSet(PastClaim(j)'),
         Cardinality(LoopDue(j)') + Cardinality(RunDue(j)') <= There(j)',
         status'[j] = "queued" /\ j \notin acked' =>
           Covered(j)' \/ Cardinality(PastClaim(j)') + Cardinality(RunDue(j)') < There(j)'
  PROVE  Kept(j)'
BY DEF Kept

\* Nobody who pushes, or who is told of, or who was to push an entry is changed.
LEMMA CoveredStays ==
  ASSUME NEW j \in Job, UNCHANGED <<call, pump, acked, held>>,
         status'[j] = "queued" => status[j] = "queued",
         InQueue(j) => InQueue(j)'
  PROVE  StillCovered(j)
<1>1. Pushing(j)' = Pushing(j)
  BY DEF Pushing
<1>. QED
  BY <1>1, CoveredOn DEF StillCovered

\* A worker sets no row to 'queued'.
LEMMA RowsForward ==
  ASSUME StoreTypeOK, WorkerTypeOK,
         \/ \E w \in Worker : LoopStep(w)
         \/ \E r \in runs : RunStep(r)
  PROVE  \A j \in Job : status'[j] = "queued" => status[j] = "queued"
<1>0. status \in [Job -> Status]
  BY DEF StoreTypeOK
<1>. USE DEF storeVars, taskVars
<1>1. ASSUME NEW w \in Worker, LoopStep(w)
      PROVE  \A j \in Job : status'[j] = "queued" => status[j] = "queued"
  <2>1. CASE \/ Pop(w) \/ PollEmpty(w) \/ PopFails(w) \/ NotClaimed(w) \/ GiveBack(w)
             \/ RecordAttempt(w) \/ Spawn(w) \/ LoadFails(w) \/ Drop(w) \/ LoopResent(w)
    BY <2>1 DEF Pop, PollEmpty, PopFails, NotClaimed, GiveBack, RecordAttempt, Spawn,
       LoadFails, Drop, LoopResent, Resent, Sql, InsertAttempt
  <2>2. CASE Claim(w) \/ ClaimFails(w)
    BY <1>0, <2>2 DEF Claim, ClaimFails, ClaimTask
  <2>3. CASE MarkFailed(w)
    BY <1>0, <2>3 DEF MarkFailed, Sql, SetStatus
  <2>. QED
    BY <1>1, <2>1, <2>2, <2>3 DEF LoopStep
<1>2. ASSUME NEW r \in runs, RunStep(r)
      PROVE  \A j \in Job : status'[j] = "queued" => status[j] = "queued"
  <2>1. CASE \/ HandlerSucceeds(r) \/ HandlerFails(r) \/ PushDlq(r) \/ CloseAttempt(r)
             \/ Finish(r) \/ RunResent(r)
    BY <2>1 DEF HandlerSucceeds, HandlerFails, PushDlq, CloseAttempt, Finish, RunResent,
       Resent, Sql, UpdateAttempt
  <2>2. CASE MarkSucceeded(r) \/ MarkSucceededFails(r)
    BY <1>0, <2>2 DEF MarkSucceeded, MarkSucceededFails, SetStatus
  <2>3. CASE MarkDeadLetter(r) \/ MarkRetry(r)
    BY <1>0, <2>3 DEF MarkDeadLetter, MarkRetry, Sql, SetStatus, RetryTask
  <2>. QED
    BY <1>2, <2>1, <2>2, <2>3 DEF RunStep
<1>. QED
  BY <1>1, <1>2

\* A pop brings an entry to q:processing with the loop that may take it out.
LEMMA PopKept ==
  ASSUME RedisOK, NEW p \in Priority, BRPopLPush(p), NEW j \in Job, Kept(j), NEW w,
         UNCHANGED <<status, acked, call, pump, held>>,
         LoopDue(j)' \subseteq LoopDue(j) \union {w},
         j # Last(queue[p]) => LoopDue(j)' \subseteq LoopDue(j),
         PastClaim(j)' \subseteq PastClaim(j), RunDue(j)' \subseteq RunDue(j)
  PROVE  Kept(j)'
<1>. DEFINE e == Last(queue[p])
<1>0. /\ queue \in [Priority -> Seq(Job)] /\ processing \in Seq(Job)
      /\ queue[p] \in Seq(Job) /\ queue[p] # << >>
      /\ queue' = [queue EXCEPT ![p] = Front(queue[p])]
      /\ processing' = Cons(e, processing)
  BY DEF RedisOK, BRPopLPush
<1>1. e \in Job
  BY <1>0, FrontLastType
<1>2. There(j) \in Nat /\ There(j)' = There(j) + (IF j = e THEN 1 ELSE 0)
  BY <1>0, <1>1, PlacesFinite, ConsPlaces DEF There
<1>3. CASE j = e
  <2>1. /\ IsFiniteSet(LoopDue(j) \union {w}) /\ Cardinality(LoopDue(j)) \in Nat
        /\ Cardinality(LoopDue(j) \union {w}) <= Cardinality(LoopDue(j)) + 1
    BY OneMore DEF Kept
  <2>2. /\ IsFiniteSet(LoopDue(j)') /\ Cardinality(LoopDue(j)') \in Nat
        /\ Cardinality(LoopDue(j)') <= Cardinality(LoopDue(j) \union {w})
        /\ Cardinality(LoopDue(j) \union {w}) \in Nat
    BY <2>1, Fewer
  <2>3. /\ IsFiniteSet(RunDue(j)') /\ Cardinality(RunDue(j)') \in Nat
        /\ Cardinality(RunDue(j)) \in Nat
        /\ Cardinality(RunDue(j)') <= Cardinality(RunDue(j))
    BY Fewer DEF Kept
  <2>4. /\ IsFiniteSet(PastClaim(j)') /\ Cardinality(PastClaim(j)') \in Nat
        /\ Cardinality(PastClaim(j)') <= Cardinality(LoopDue(j))
    <3>1. PastClaim(j)' \subseteq LoopDue(j)
      BY DEF PastClaim
    <3>. QED
      BY <3>1, Fewer DEF Kept
  <2>5. Cardinality(LoopDue(j)) + Cardinality(RunDue(j)) <= There(j)
    BY DEF Kept
  <2>6. /\ Cardinality(LoopDue(j)') + Cardinality(RunDue(j)') <= There(j)'
        /\ Cardinality(PastClaim(j)') + Cardinality(RunDue(j)') < There(j)'
    BY <1>2, <1>3, <2>1, <2>2, <2>3, <2>4, <2>5
  <2>7. There(j)' \in Nat
    BY <1>2
  <2>. QED
    BY <1>2, <2>2, <2>3, <2>4, <2>6, <2>7, KeptBy
<1>4. CASE j # e
  <2>1. ASSUME NEW q \in Priority, Contains(queue[q], j)
        PROVE  Contains(queue'[q], j)
    <3>1. CASE q = p
      BY <1>0, <1>4, <2>1, <3>1, FrontContains
    <3>2. CASE q # p
      BY <1>0, <2>1, <3>2
    <3>. QED
      BY <3>1, <3>2
  <2>2. StillCovered(j)
    BY <2>1, CoveredStays DEF InQueue
  <2>. QED
    BY <1>2, <1>4, <2>2, KeptOn
<1>. QED
  BY <1>3, <1>4

\* An LREM of somebody who was to remove an entry of the job e.
LEMMA TakeKept ==
  ASSUME RedisOK, NEW e, LRemProcessing(e), NEW j \in Job, Kept(j), StillCovered(j),
         \/ /\ j # e
            /\ LoopDue(j)' \subseteq LoopDue(j) /\ PastClaim(j)' \subseteq PastClaim(j)
            /\ RunDue(j)' \subseteq RunDue(j)
         \/ \E w \in PastClaim(j) :
              /\ LoopDue(j)' \subseteq LoopDue(j) \ {w}
              /\ PastClaim(j)' \subseteq PastClaim(j) \ {w}
              /\ RunDue(j)' \subseteq RunDue(j)
         \/ \E r \in RunDue(j) :
              /\ LoopDue(j)' \subseteq LoopDue(j) /\ PastClaim(j)' \subseteq PastClaim(j)
              /\ RunDue(j)' \subseteq RunDue(j) \ {r}
  PROVE  Kept(j)'
<1>0. processing \in Seq(Job) /\ processing' = RemoveFirst(processing, e)
  BY DEF RedisOK, LRemProcessing
<1>1. /\ There(j) \in Nat /\ There(j)' \in Nat
      /\ There(j) = There(j)' + (IF j = e /\ Contains(processing, e) THEN 1 ELSE 0)
      /\ There(j)' <= There(j) /\ There(j) <= There(j)' + 1
  <2>1. There(j) \in Nat /\ There(j)' \in Nat
    BY <1>0, PlacesFinite, RemoveFirstType DEF There
  <2>2. There(j) = There(j)' + (IF j = e /\ Contains(processing, e) THEN 1 ELSE 0)
    BY <1>0, RemoveFirstPlaces DEF There
  <2>. QED
    BY <2>1, <2>2
<1>2. /\ IsFiniteSet(LoopDue(j)) /\ IsFiniteSet(RunDue(j)) /\ IsFiniteSet(PastClaim(j))
      /\ Cardinality(LoopDue(j)) + Cardinality(RunDue(j)) <= There(j)
      /\ status[j] = "queued" /\ j \notin acked =>
           Covered(j) \/ Cardinality(PastClaim(j)) + Cardinality(RunDue(j)) < There(j)
  <2>1. IsFiniteSet(PastClaim(j))
    BY Fewer DEF Kept, PastClaim
  <2>. QED
    BY <2>1 DEF Kept
<1>3. CASE /\ j # e
           /\ LoopDue(j)' \subseteq LoopDue(j) /\ PastClaim(j)' \subseteq PastClaim(j)
           /\ RunDue(j)' \subseteq RunDue(j)
  BY <1>1, <1>3, KeptOn
<1>4. ASSUME NEW w \in PastClaim(j),
             LoopDue(j)' \subseteq LoopDue(j) \ {w},
             PastClaim(j)' \subseteq PastClaim(j) \ {w},
             RunDue(j)' \subseteq RunDue(j)
      PROVE  Kept(j)'
  <2>1. /\ IsFiniteSet(LoopDue(j) \ {w}) /\ Cardinality(LoopDue(j)) \in Nat
        /\ Cardinality(LoopDue(j) \ {w}) = Cardinality(LoopDue(j)) - 1
    BY <1>2, FS_RemoveElement, FS_CardinalityType DEF PastClaim
  <2>2. /\ IsFiniteSet(PastClaim(j) \ {w}) /\ Cardinality(PastClaim(j)) \in Nat
        /\ Cardinality(PastClaim(j) \ {w}) = Cardinality(PastClaim(j)) - 1
    BY <1>2, FS_RemoveElement, FS_CardinalityType
  <2>3. /\ IsFiniteSet(LoopDue(j)') /\ Cardinality(LoopDue(j)') \in Nat
        /\ Cardinality(LoopDue(j)') <= Cardinality(LoopDue(j)) - 1
    BY <1>4, <2>1, Fewer
  <2>4. /\ IsFiniteSet(PastClaim(j)') /\ Cardinality(PastClaim(j)') \in Nat
        /\ Cardinality(PastClaim(j)') <= Cardinality(PastClaim(j)) - 1
    BY <1>4, <2>2, Fewer
  <2>5. /\ IsFiniteSet(RunDue(j)') /\ Cardinality(RunDue(j)') \in Nat
        /\ Cardinality(RunDue(j)) \in Nat
        /\ Cardinality(RunDue(j)') <= Cardinality(RunDue(j))
    BY <1>2, <1>4, Fewer
  <2>6. /\ Cardinality(LoopDue(j)') + Cardinality(RunDue(j)') <= There(j)'
        /\ Cardinality(PastClaim(j)) + Cardinality(RunDue(j)) < There(j) =>
             Cardinality(PastClaim(j)') + Cardinality(RunDue(j)') < There(j)'
    BY <1>1, <1>2, <2>1, <2>2, <2>3, <2>4, <2>5
  <2>. QED
    BY <1>1, <1>2, <2>3, <2>4, <2>5, <2>6, KeptBy DEF StillCovered
<1>5. ASSUME NEW r \in RunDue(j),
             LoopDue(j)' \subseteq LoopDue(j), PastClaim(j)' \subseteq PastClaim(j),
             RunDue(j)' \subseteq RunDue(j) \ {r}
      PROVE  Kept(j)'
  <2>1. /\ IsFiniteSet(RunDue(j) \ {r}) /\ Cardinality(RunDue(j)) \in Nat
        /\ Cardinality(RunDue(j) \ {r}) = Cardinality(RunDue(j)) - 1
    BY <1>2, FS_RemoveElement, FS_CardinalityType
  <2>2. /\ IsFiniteSet(RunDue(j)') /\ Cardinality(RunDue(j)') \in Nat
        /\ Cardinality(RunDue(j)') <= Cardinality(RunDue(j)) - 1
    BY <1>5, <2>1, Fewer
  <2>3. /\ IsFiniteSet(LoopDue(j)') /\ Cardinality(LoopDue(j)') \in Nat
        /\ Cardinality(LoopDue(j)) \in Nat
        /\ Cardinality(LoopDue(j)') <= Cardinality(LoopDue(j))
    BY <1>2, <1>5, Fewer
  <2>4. /\ IsFiniteSet(PastClaim(j)') /\ Cardinality(PastClaim(j)') \in Nat
        /\ Cardinality(PastClaim(j)) \in Nat
        /\ Cardinality(PastClaim(j)') <= Cardinality(PastClaim(j))
    BY <1>2, <1>5, Fewer
  <2>5. /\ Cardinality(LoopDue(j)') + Cardinality(RunDue(j)') <= There(j)'
        /\ Cardinality(PastClaim(j)) + Cardinality(RunDue(j)) < There(j) =>
             Cardinality(PastClaim(j)') + Cardinality(RunDue(j)') < There(j)'
    BY <1>1, <1>2, <2>1, <2>2, <2>3, <2>4
  <2>. QED
    BY <1>1, <1>2, <2>2, <2>3, <2>4, <2>5, KeptBy DEF StillCovered
<1>. QED
  BY <1>3, <1>4, <1>5

\* The loop starts a run, which takes the entry over.
LEMMA SpawnKept ==
  ASSUME NEW j \in Job, Kept(j), There(j) \in Nat, There(j)' = There(j), StillCovered(j),
         NEW w \in PastClaim(j), NEW new,
         LoopDue(j)' \subseteq LoopDue(j) \ {w}, PastClaim(j)' \subseteq PastClaim(j) \ {w},
         RunDue(j)' \subseteq RunDue(j) \union {new}
  PROVE  Kept(j)'
<1>2. /\ IsFiniteSet(LoopDue(j)) /\ IsFiniteSet(RunDue(j)) /\ IsFiniteSet(PastClaim(j))
      /\ Cardinality(LoopDue(j)) + Cardinality(RunDue(j)) <= There(j)
      /\ status[j] = "queued" /\ j \notin acked =>
           Covered(j) \/ Cardinality(PastClaim(j)) + Cardinality(RunDue(j)) < There(j)
  <2>1. IsFiniteSet(PastClaim(j))
    BY Fewer DEF Kept, PastClaim
  <2>. QED
    BY <2>1 DEF Kept
<1>3. /\ IsFiniteSet(LoopDue(j) \ {w}) /\ Cardinality(LoopDue(j)) \in Nat
      /\ Cardinality(LoopDue(j) \ {w}) = Cardinality(LoopDue(j)) - 1
  BY <1>2, FS_RemoveElement, FS_CardinalityType DEF PastClaim
<1>4. /\ IsFiniteSet(PastClaim(j) \ {w}) /\ Cardinality(PastClaim(j)) \in Nat
      /\ Cardinality(PastClaim(j) \ {w}) = Cardinality(PastClaim(j)) - 1
  BY <1>2, FS_RemoveElement, FS_CardinalityType
<1>5. /\ IsFiniteSet(RunDue(j) \union {new}) /\ Cardinality(RunDue(j)) \in Nat
      /\ Cardinality(RunDue(j) \union {new}) <= Cardinality(RunDue(j)) + 1
  BY <1>2, OneMore
<1>6. /\ IsFiniteSet(LoopDue(j)') /\ Cardinality(LoopDue(j)') \in Nat
      /\ Cardinality(LoopDue(j)') <= Cardinality(LoopDue(j)) - 1
  BY <1>3, Fewer
<1>7. /\ IsFiniteSet(PastClaim(j)') /\ Cardinality(PastClaim(j)') \in Nat
      /\ Cardinality(PastClaim(j)') <= Cardinality(PastClaim(j)) - 1
  BY <1>4, Fewer
<1>8. /\ IsFiniteSet(RunDue(j)') /\ Cardinality(RunDue(j)') \in Nat
      /\ Cardinality(RunDue(j) \union {new}) \in Nat
      /\ Cardinality(RunDue(j)') <= Cardinality(RunDue(j) \union {new})
  BY <1>5, Fewer
<1>9. /\ Cardinality(LoopDue(j)') + Cardinality(RunDue(j)') <= There(j)'
      /\ Cardinality(PastClaim(j)) + Cardinality(RunDue(j)) < There(j) =>
           Cardinality(PastClaim(j)') + Cardinality(RunDue(j)') < There(j)'
  BY <1>2, <1>3, <1>4, <1>5, <1>6, <1>7, <1>8
<1>. QED
  BY <1>2, <1>6, <1>7, <1>8, <1>9, KeptBy DEF StillCovered

-----------------------------------------------------------------------------
\* What a step of a loop does to the lists, and to its place in them.
LEMMA LoopMoves ==
  ASSUME WorkerTypeOK, StoreTypeOK, NEW w \in Worker, LoopStep(w)
  PROVE  \/ /\ UNCHANGED <<queue, processing, runs>>
            /\ loop[w].pc = "poll" /\ loop'[w].pc = "poll"
         \/ /\ BRPopLPush(Priorities[loop[w].at]) /\ UNCHANGED <<status, runs>>
            /\ loop[w].pc = "poll"
            /\ loop'[w].pc \in {"poll", "claim"}
            /\ loop'[w].pc = "claim" => loop'[w].job = Last(queue[Priorities[loop[w].at]])
         \/ /\ loop[w].pc # "poll" /\ loop'[w].pc # "poll" /\ loop'[w].job = loop[w].job
            /\ loop[w].pc = "claim" =>
                 /\ loop'[w].pc # "claim" /\ UNCHANGED queue
                 /\ status'[loop[w].job] # "queued" \/ faults' # faults
            /\ UNCHANGED <<processing, runs>>
            /\ UNCHANGED queue \/ LPush(Priorities[loop[w].at], loop[w].job)
         \/ /\ loop[w].pc = "drop" /\ UNCHANGED <<status, queue, runs>>
            /\ faults' # faults \/ loop'[w].pc = "poll"
            /\ UNCHANGED processing \/ LRemProcessing(loop[w].job)
         \/ Spawn(w)
<1>0. /\ loop \in [Worker -> [pc : LoopPC, at : 1..Len(Priorities), job : Job \union {NoJob}]]
      /\ loop[w].pc # "poll" => loop[w].job \in Job
      /\ status \in [Job -> Status] /\ faults \in Nat
  BY DEF WorkerTypeOK, StoreTypeOK
<1>. USE DEF storeVars, taskVars, redisVars, workerVars
<1>1. CASE Pop(w)
  BY <1>0, <1>1 DEF Pop
<1>2. CASE PollEmpty(w) \/ PopFails(w)
  <2>1. loop[w].pc = "poll" /\ loop'[w].pc = "poll"
    BY <1>0, <1>2 DEF PollEmpty, PopFails, NextQueue
  <2>. QED
    BY <1>2, <2>1 DEF PollEmpty, PopFails
<1>3. CASE Claim(w) \/ NotClaimed(w) \/ ClaimFails(w)
  <2>1. /\ loop[w].pc = "claim" /\ loop'[w].pc \in {"insert", "drop", "giveback"}
        /\ loop'[w].job = loop[w].job /\ UNCHANGED <<queue, processing, runs>>
    BY <1>0, <1>3 DEF Claim, NotClaimed, ClaimFails, LoopGoto
  <2>2. status'[loop[w].job] # "queued" \/ faults' # faults
    BY <1>0, <1>3, <2>1 DEF Claim, NotClaimed, ClaimFails, ClaimTask, Fault
  <2>. QED
    BY <2>1, <2>2
<1>4. CASE GiveBack(w) \/ RecordAttempt(w) \/ LoadFails(w) \/ MarkFailed(w)
  <2>1. /\ loop[w].pc \notin {"poll", "claim"} /\ loop'[w].pc # "poll"
        /\ loop'[w].job = loop[w].job
    BY <1>0, <1>4 DEF GiveBack, RecordAttempt, LoadFails, MarkFailed, LoopGoto
  <2>2. /\ UNCHANGED <<processing, runs>>
        /\ UNCHANGED queue \/ LPush(Priorities[loop[w].at], loop[w].job)
    BY <1>4 DEF GiveBack, RecordAttempt, LoadFails, MarkFailed, Redis, LPush
  <2>. QED
    BY <2>1, <2>2
<1>5. CASE Spawn(w)
  BY <1>5
<1>6. CASE Drop(w)
  BY <1>0, <1>6 DEF Drop, Redis, LRemProcessing, LoopTop, AtTop
<1>7. CASE LoopResent(w)
  <2>1. UNCHANGED <<loop, runs, status>> /\ faults' # faults
    BY <1>0, <1>7 DEF LoopResent, Resent, Fault
  <2>2. CASE loop[w].pc = "poll" /\ BRPopLPush(Priorities[loop[w].at])
    BY <2>1, <2>2
  <2>3. CASE loop[w].pc = "giveback" /\ LPush(Priorities[loop[w].at], loop[w].job)
    BY <2>1, <2>3 DEF LPush
  <2>4. CASE loop[w].pc = "drop" /\ LRemProcessing(loop[w].job)
    BY <2>1, <2>4 DEF LRemProcessing
  <2>. QED
    BY <1>7, <2>2, <2>3, <2>4 DEF LoopResent, Resent
<1>. QED
  BY <1>1, <1>2, <1>3, <1>4, <1>5, <1>6, <1>7 DEF LoopStep

\* Every step of a loop leaves an entry for everybody who may take one out.  A
\* step of the process's own loop that meets a fault is the last that may apply a
\* call.
LEMMA LoopEntries ==
  ASSUME TypeOK, KeptInv, NEW w \in Worker, Loop(w), UNCHANGED held,
         \A id : Over(id) => Over(id)',
         faults' # faults => w = Self /\ Over(LoopId)',
         w = Self /\ Over(LoopId) => UNCHANGED <<taskVars, redisVars>> /\ faults' # faults,
         NEW j \in Job \ swept
  PROVE  Kept(j)'
<1>0. /\ StoreTypeOK /\ WorkerTypeOK /\ RedisOK /\ LoopStep(w) /\ Kept(j) /\ There(j) \in Nat
      /\ UNCHANGED <<call, acked, pump, held>>
      /\ loop[w].pc # "poll" => loop[w].job \in Job
      /\ Priorities[loop[w].at] \in Priority
      /\ loop \in [Worker -> [pc : LoopPC, at : 1..Len(Priorities), job : Job \union {NoJob}]]
  BY PriorityTypes, ThereTypes
     DEF Loop, apiVars, TypeOK, StoreTypeOK, WorkerTypeOK, RedisOK, KeptInv
<1>1. \A u \in Worker : u # w => loop'[u] = loop[u]
  BY <1>0, LoopKeeps
<1>2. status'[j] = "queued" => status[j] = "queued"
  BY <1>0, RowsForward
<1>3. UNCHANGED queue => StillCovered(j)
  BY <1>0, <1>2, CoveredStays DEF InQueue
<1>4. UNCHANGED processing => There(j)' = There(j)
  BY DEF There
<1>5. \A u \in Worker : u # w =>
        /\ u \in LoopDue(j)' => u \in LoopDue(j)
        /\ u \in PastClaim(j)' => u \in PastClaim(j)
  BY <1>1 DEF LoopDue, PastClaim, Claiming, Holding
<1>6. LoopDue(j)' \subseteq Worker /\ LoopDue(j) \subseteq Worker
  BY DEF LoopDue, Holding
<1>7. /\ w \in LoopDue(j)' => loop'[w].pc # "poll" /\ loop'[w].job = j /\ faults' = faults
      /\ w \in PastClaim(j)' => w \in LoopDue(j)' /\ loop'[w].pc # "claim"
  BY DEF LoopDue, PastClaim, Claiming, Holding
<1>8. UNCHANGED runs => RunDue(j)' \subseteq RunDue(j)
  BY DEF RunDue, Mine, RunId
<1>9. ASSUME ~(w = Self /\ Over(LoopId))
      PROVE  /\ loop[w].pc # "poll" /\ loop[w].job = j => w \in LoopDue(j)
             /\ loop[w].pc \notin {"poll", "claim"} /\ loop[w].job = j => w \in PastClaim(j)
  BY <1>9 DEF LoopDue, PastClaim, Claiming, Holding
<1>10. CASE w = Self /\ Over(LoopId)
  <2>1. /\ UNCHANGED <<queue, processing>> /\ w \notin LoopDue(j)' /\ w \notin PastClaim(j)'
    BY <1>7, <1>10 DEF redisVars
  <2>2. UNCHANGED runs
    <3>1. ~Spawn(w)
      BY <1>10 DEF Spawn, storeVars
    <3>. QED
      BY <1>0, <3>1, LoopMoves
  <2>3. LoopDue(j)' \subseteq LoopDue(j) /\ PastClaim(j)' \subseteq PastClaim(j)
    BY <1>5, <1>6, <2>1 DEF PastClaim
  <2>. QED
    BY <1>0, <1>3, <1>4, <1>8, <2>1, <2>2, <2>3, KeptOn
<1>11. CASE ~(w = Self /\ Over(LoopId))
  <2>1. CASE /\ UNCHANGED <<queue, processing, runs>>
             /\ loop[w].pc = "poll" /\ loop'[w].pc = "poll"
    <3>1. LoopDue(j)' \subseteq LoopDue(j) /\ PastClaim(j)' \subseteq PastClaim(j)
      BY <1>5, <1>6, <1>7, <2>1 DEF PastClaim
    <3>. QED
      BY <1>0, <1>3, <1>4, <1>8, <2>1, <3>1, KeptOn
  <2>2. CASE /\ BRPopLPush(Priorities[loop[w].at]) /\ UNCHANGED <<status, runs>>
             /\ loop[w].pc = "poll"
             /\ loop'[w].pc \in {"poll", "claim"}
             /\ loop'[w].pc = "claim" => loop'[w].job = Last(queue[Priorities[loop[w].at]])
    <3>1. /\ LoopDue(j)' \subseteq LoopDue(j) \union {w}
          /\ j # Last(queue[Priorities[loop[w].at]]) => LoopDue(j)' \subseteq LoopDue(j)
          /\ PastClaim(j)' \subseteq PastClaim(j)
      BY <1>5, <1>6, <1>7, <2>2 DEF PastClaim
    <3>. QED
      BY <1>0, <1>8, <2>2, <3>1, PopKept
  <2>3. CASE /\ loop[w].pc # "poll" /\ loop'[w].pc # "poll" /\ loop'[w].job = loop[w].job
             /\ loop[w].pc = "claim" =>
                  /\ loop'[w].pc # "claim" /\ UNCHANGED queue
                  /\ status'[loop[w].job] # "queued" \/ faults' # faults
             /\ UNCHANGED <<processing, runs>>
             /\ UNCHANGED queue \/ LPush(Priorities[loop[w].at], loop[w].job)
    <3>1. InQueue(j) => InQueue(j)'
      BY <1>0, <2>3, LPushQueued DEF InQueue
    <3>2. StillCovered(j)
      BY <1>0, <1>2, <3>1, CoveredStays
    <3>3. LoopDue(j)' \subseteq LoopDue(j)
      BY <1>5, <1>6, <1>7, <1>9, <1>11, <2>3
    <3>4. PastClaim(j)' \subseteq PastClaim(j) \/ status'[j] # "queued"
      <4>1. w \in PastClaim(j)' => w \in PastClaim(j) \/ status'[j] # "queued"
        BY <1>7, <1>9, <1>11, <2>3
      <4>. QED
        BY <1>5, <1>6, <4>1 DEF PastClaim
    <3>. QED
      BY <1>0, <1>4, <1>8, <2>3, <3>2, <3>3, <3>4, KeptOn
  <2>4. CASE /\ loop[w].pc = "drop" /\ UNCHANGED <<status, queue, runs>>
             /\ faults' # faults \/ loop'[w].pc = "poll"
             /\ UNCHANGED processing \/ LRemProcessing(loop[w].job)
    <3>1. /\ LoopDue(j)' \subseteq LoopDue(j) \ {w}
          /\ PastClaim(j)' \subseteq PastClaim(j) \ {w}
      BY <1>5, <1>6, <1>7, <2>4 DEF PastClaim
    <3>2. CASE UNCHANGED processing
      BY <1>0, <1>3, <1>4, <1>8, <2>4, <3>1, <3>2, KeptOn
    <3>3. CASE LRemProcessing(loop[w].job)
      <4>1. j = loop[w].job => w \in PastClaim(j)
        BY <1>9, <1>11, <2>4
      <4>. QED
        BY <1>0, <1>3, <1>8, <2>4, <3>1, <3>3, <4>1, TakeKept
    <3>. QED
      BY <2>4, <3>2, <3>3
  <2>5. CASE Spawn(w)
    <3>. DEFINE e == loop[w].job
                new == [job |-> e, n |-> attempts[e], worker |-> w, pc |-> "handler"]
    <3>1. /\ loop[w].pc = "load" /\ loop'[w].pc = "poll" /\ runs' = runs \union {new}
          /\ UNCHANGED <<queue, processing>>
      BY <1>0, <2>5 DEF Spawn, LoopTop, AtTop, storeVars, redisVars
    <3>2. new.job = e
      OBVIOUS
    <3>3. /\ LoopDue(j)' \subseteq LoopDue(j) \ {w}
          /\ PastClaim(j)' \subseteq PastClaim(j) \ {w}
      BY <1>5, <1>6, <1>7, <3>1 DEF PastClaim
    <3>. HIDE DEF new
    <3>4. /\ RunDue(j)' \subseteq RunDue(j) \union {new}
          /\ j # e => RunDue(j)' \subseteq RunDue(j)
      BY <3>1, <3>2 DEF RunDue, Mine, RunId
    <3>5. CASE j = e
      <4>1. w \in PastClaim(j)
        BY <1>9, <1>11, <3>1, <3>5
      <4>. QED
        BY <1>0, <1>3, <1>4, <3>1, <3>3, <3>4, <4>1, SpawnKept
    <3>6. CASE j # e
      BY <1>0, <1>3, <1>4, <3>1, <3>3, <3>4, <3>6, KeptOn
    <3>. QED
      BY <3>5, <3>6
  <2>. QED
    BY <1>0, <2>1, <2>2, <2>3, <2>4, <2>5, LoopMoves
<1>. QED
  BY <1>10, <1>11

-----------------------------------------------------------------------------
\* Runs

\* A run that goes on is a taker as it was before.
LEMMA GoKept ==
  ASSUME NEW j \in Job, Kept(j), There(j) \in Nat, There(j)' = There(j), StillCovered(j),
         UNCHANGED loop, \A id : Over(id) => Over(id)',
         NEW r \in runs, NEW new, runs' = (runs \ {r}) \union {new},
         new.job = r.job, new.n = r.n, new.worker = r.worker
  PROVE  Kept(j)'
<1>1. LoopDue(j)' \subseteq LoopDue(j) /\ PastClaim(j)' \subseteq PastClaim(j)
  BY DEF LoopDue, PastClaim, Holding, Claiming
<1>2. CASE r \notin RunDue(j)
  <2>1. new \notin RunDue(j)'
    BY <1>2 DEF RunDue, Mine, RunId
  <2>2. RunDue(j)' \subseteq RunDue(j)
    BY <2>1 DEF RunDue, Mine, RunId
  <2>. QED
    BY <1>1, <2>2, KeptOn
<1>3. CASE r \in RunDue(j)
  <2>0. RunDue(j)' \subseteq (RunDue(j) \ {r}) \union {new}
    BY DEF RunDue, Mine, RunId
  <2>1. /\ IsFiniteSet(RunDue(j) \ {r}) /\ Cardinality(RunDue(j)) \in Nat
        /\ Cardinality(RunDue(j) \ {r}) = Cardinality(RunDue(j)) - 1
    BY <1>3, FS_RemoveElement, FS_CardinalityType DEF Kept
  <2>2. /\ IsFiniteSet((RunDue(j) \ {r}) \union {new})
        /\ Cardinality((RunDue(j) \ {r}) \union {new}) <= Cardinality(RunDue(j) \ {r}) + 1
    BY <2>1, OneMore
  <2>3. /\ IsFiniteSet(RunDue(j)') /\ Cardinality(RunDue(j)') \in Nat
        /\ Cardinality((RunDue(j) \ {r}) \union {new}) \in Nat
        /\ Cardinality(RunDue(j)') <= Cardinality((RunDue(j) \ {r}) \union {new})
    BY <2>0, <2>2, Fewer
  <2>4. /\ IsFiniteSet(LoopDue(j)') /\ Cardinality(LoopDue(j)') \in Nat
        /\ Cardinality(LoopDue(j)) \in Nat
        /\ Cardinality(LoopDue(j)') <= Cardinality(LoopDue(j))
    BY <1>1, Fewer DEF Kept
  <2>5. IsFiniteSet(PastClaim(j))
    BY Fewer DEF Kept, PastClaim
  <2>6. /\ IsFiniteSet(PastClaim(j)') /\ Cardinality(PastClaim(j)') \in Nat
        /\ Cardinality(PastClaim(j)) \in Nat
        /\ Cardinality(PastClaim(j)') <= Cardinality(PastClaim(j))
    BY <1>1, <2>5, Fewer
  <2>7. Cardinality(RunDue(j)') <= Cardinality(RunDue(j))
    BY <2>1, <2>2, <2>3
  <2>8. /\ Cardinality(LoopDue(j)') + Cardinality(RunDue(j)') <= There(j)'
        /\ Cardinality(PastClaim(j)) + Cardinality(RunDue(j)) < There(j) =>
             Cardinality(PastClaim(j)') + Cardinality(RunDue(j)') < There(j)'
    BY <2>1, <2>3, <2>4, <2>6, <2>7 DEF Kept
  <2>. QED
    BY <2>3, <2>4, <2>6, <2>8, KeptBy DEF Kept, StillCovered
<1>. QED
  BY <1>2, <1>3

\* Every step of a run leaves an entry for everybody who may take one out.
LEMMA RunEntries ==
  ASSUME TypeOK, KeptInv, NEW r \in runs, Run(r), UNCHANGED held,
         \A id : Over(id) => Over(id)',
         faults' # faults => r.worker = Self /\ Over(RunId(r))',
         r.worker = Self /\ Over(RunId(r)) => UNCHANGED redisVars,
         NEW j \in Job \ swept
  PROVE  Kept(j)'
<1>0. /\ StoreTypeOK /\ WorkerTypeOK /\ RedisOK /\ RunStep(r) /\ Kept(j) /\ There(j) \in Nat
      /\ UNCHANGED <<call, acked, pump, held>> /\ faults \in Nat
      /\ r \in [job : Job, n : Nat, worker : Worker, pc : RunPC]
  BY ThereTypes DEF Run, apiVars, TypeOK, StoreTypeOK, WorkerTypeOK, RedisOK, KeptInv
<1>1. UNCHANGED loop
  BY <1>0, RunKeeps
<1>2. status'[j] = "queued" => status[j] = "queued"
  BY <1>0, RowsForward
<1>3. UNCHANGED queue => StillCovered(j)
  BY <1>0, <1>2, CoveredStays DEF InQueue
<1>4. UNCHANGED processing => There(j)' = There(j)
  BY DEF There
<1>5. LoopDue(j)' \subseteq LoopDue(j) /\ PastClaim(j)' \subseteq PastClaim(j)
  BY <1>1 DEF LoopDue, PastClaim, Holding, Claiming
<1>6. CASE Finish(r) \/ RunResent(r)
  <2>1. /\ UNCHANGED queue
        /\ UNCHANGED processing \/ LRemProcessing(r.job)
        /\ runs' = runs \ {r} \/ (runs' = runs /\ faults' # faults)
    BY <1>0, <1>6 DEF Finish, RunResent, Resent, Fault, Redis, LRemProcessing, redisVars,
       workerVars
  <2>2. RunDue(j)' \subseteq RunDue(j) \ {r}
    BY <2>1 DEF RunDue, Mine, RunId
  <2>3. CASE UNCHANGED processing
    BY <1>0, <1>3, <1>4, <1>5, <2>1, <2>2, <2>3, KeptOn
  <2>4. CASE LRemProcessing(r.job) /\ ~UNCHANGED processing
    <3>1. ~(r.worker = Self /\ Over(RunId(r)))
      BY <2>4 DEF redisVars
    <3>2. j = r.job => r \in RunDue(j)
      BY <3>1 DEF RunDue, Mine
    <3>. QED
      BY <1>0, <1>3, <1>5, <2>1, <2>2, <2>4, <3>2, TakeKept
  <2>. QED
    BY <2>1, <2>3, <2>4
<1>7. CASE ~Finish(r) /\ ~RunResent(r)
  <2>1. PICK pc : RunGoto(r, pc) /\ UNCHANGED <<queue, processing>>
    BY <1>0, <1>7 DEF RunStep, HandlerSucceeds, HandlerFails, MarkSucceeded,
       MarkSucceededFails, PushDlq, MarkDeadLetter, MarkRetry, CloseAttempt, LPushDlq,
       storeVars, redisVars
  <2>2. PICK new : /\ runs' = (runs \ {r}) \union {new}
                   /\ new.job = r.job /\ new.n = r.n /\ new.worker = r.worker
    <3>1. /\ [r EXCEPT !.pc = pc].job = r.job /\ [r EXCEPT !.pc = pc].n = r.n
          /\ [r EXCEPT !.pc = pc].worker = r.worker
      BY <1>0
    <3>. QED
      BY <2>1, <3>1 DEF RunGoto
  <2>. QED
    BY <1>0, <1>1, <1>3, <1>4, <2>1, <2>2, GoKept
<1>. QED
  BY <1>6, <1>7

-----------------------------------------------------------------------------
\* The shutdown

\* Nobody else's calls are applied again.
LEMMA OverKept ==
  ASSUME StuckInv, [StopNext]_allVars
  PROVE  \A id : Over(id) => Over(id)'
<1>1. CASE Stop
  BY <1>1 DEF Stop, StuckInv, Over
<1>2. CASE ~Stop
  <2>1. cancelled' = cancelled /\ late' \subseteq late
    BY <1>2, TickerKeeps DEF StopNext, LoopReturns, LoopGoes, RunGoes, MayCall, OthersGo, WaitReturns,
       StopReturns, StopTimesOut, Exit, stopVars, allVars
  <2>. QED
    BY <2>1 DEF Over
<1>. QED
  BY <1>1, <1>2

\* A pump's step: the lists of q:processing, the loops and the runs stay.
LEMMA PumpEntries ==
  ASSUME TypeOK, KeptInv, UNCHANGED held, NEW w \in Pump, Pumping(w),
         \A id : Over(id) => Over(id)',
         \/ UNCHANGED faults
         \/ w = Self /\ cancelled /\ (PumpId \in late \/ UNCHANGED <<taskVars, redisVars>>),
         NEW j \in Job \ swept
  PROVE  Kept(j)'
<1>1. UNCHANGED <<processing, loop, runs>>
  BY DEF Pumping, workerVars, PumpStep, SelectDue, PushRetry, PushResent, Resent, Requeue,
     RequeueNothing, RequeueFails, Redis, LPush, storeVars, redisVars
<1>2. StillCovered(j)
  BY PumpCovered
<1>3. Kept(j) /\ There(j) \in Nat /\ There(j)' = There(j)
  BY <1>1, ThereTypes DEF KeptInv, There
<1>. QED
  BY <1>1, <1>2, <1>3, DueKept, KeptOn

\* A reaper's step.
LEMMA ReaperEntries ==
  ASSUME TypeOK, KeptInv, UNCHANGED held, NEW w \in Reap, Reaping(w),
         \A id : Over(id) => Over(id)', NEW j \in Job \ swept'
  PROVE  Kept(j)'
<1>1. /\ j \in Job \ swept /\ StillCovered(j) /\ There(j)' = There(j)
      /\ UNCHANGED <<loop, runs>>
  BY ReaperKept
<1>2. Kept(j) /\ There(j) \in Nat
  BY <1>1, ThereTypes DEF KeptInv
<1>. QED
  BY <1>1, <1>2, DueKept, KeptOn

\* A handler's step.
LEMMA ApiEntries ==
  ASSUME TypeOK, KeptInv, UNCHANGED <<faults, held>>, NEW c \in Client, Api(c),
         \A id : Over(id) => Over(id)', NEW j \in Job \ swept
  PROVE  Kept(j)'
<1>1. UNCHANGED <<processing, loop, runs>>
  BY DEF Api, workerVars, ApiStep, HandlerStep, CreateJob, CreateConflict, CreateFails, PushJob,
     UpdateCancelled, NotCancellable, CancelFails, RemoveQueued, CallAborts, CallResent, Resent,
     SubmitJob, CancelJob, Redis, LPush, LRemAll, storeVars, redisVars
<1>2. StillCovered(j)
  BY ApiCovered DEF KeptInv
<1>3. Kept(j) /\ There(j) \in Nat /\ There(j)' = There(j)
  BY <1>1, ThereTypes DEF KeptInv, There
<1>. QED
  BY <1>1, <1>2, <1>3, DueKept, KeptOn

\* Main's steps, and time: they change no list.  Stop notes what the pump has in
\* hand, and Exit ends the pump.
LEMMA RestEntries ==
  ASSUME TypeOK, KeptInv, StuckInv, \A id : Over(id) => Over(id)',
         \/ LoopReturns \/ Stop \/ WaitReturns \/ StopReturns \/ StopTimesOut \/ Exit
         \/ (\E k \in Job : TimePasses(k)) /\ UNCHANGED stopVars
         \/ UNCHANGED allVars,
         NEW j \in Job \ swept
  PROVE  Kept(j)'
<1>. USE DEF vars, storeVars, taskVars, redisVars, apiVars, workerVars, stopVars, allVars
<1>0. /\ loop \in [Worker -> [pc : LoopPC, at : 1..Len(Priorities), job : Job \union {NoJob}]]
      /\ Self \in Worker /\ status \in [Job -> Status] /\ j \in Job
  BY SelfAssumption DEF TypeOK, StoreTypeOK, WorkerTypeOK
<1>1. /\ UNCHANGED <<queue, processing, status, call, acked>>
      /\ runs' \subseteq runs
    BY DEF LoopReturns, Stop, WaitReturns, StopReturns, StopTimesOut, Exit, WorkerCrash,
     WorkerLost, TimePasses, BackoffElapses, GrowsStale
<1>2. Kept(j) /\ There(j) \in Nat /\ There(j)' = There(j)
  BY <1>1, ThereTypes DEF KeptInv, There
<1>3. CASE Exit
  <2>1. /\ \A u \in Worker : u # Self => loop'[u] = loop[u]
        /\ loop'[Self].pc = "poll"
        /\ \A w \in Pump : w # Self => pump'[w] = pump[w]
        /\ UNCHANGED held /\ cancelled
    BY <1>0, <1>3 DEF Exit, WorkerCrash, WorkerLost, LoopTop, AtTop, StuckInv
  <2>2. /\ LoopDue(j)' \subseteq LoopDue(j) /\ PastClaim(j)' \subseteq PastClaim(j)
        /\ RunDue(j)' \subseteq RunDue(j)
    BY <1>1, <2>1 DEF LoopDue, PastClaim, RunDue, Holding, Claiming, Mine, RunId
  <2>3. Pushing(j) \subseteq Pushing(j)' \/ j \in held.pump
    BY <1>0, <1>1, <2>1, JobAssumption DEF Pushing, KeptInv
  <2>4. StillCovered(j)
    BY <1>1, <2>1, <2>3 DEF StillCovered, Covered, InQueue
  <2>. QED
    BY <1>2, <2>2, <2>4, KeptOn
<1>4. CASE ~Exit
  <2>1. UNCHANGED <<loop, pump, runs>>
    BY <1>4 DEF LoopReturns, Stop, WaitReturns, StopReturns, StopTimesOut, TimePasses,
       BackoffElapses, GrowsStale
  <2>2. held.pump \subseteq held'.pump
    BY <1>4 DEF LoopReturns, Stop, WaitReturns, StopReturns, StopTimesOut, KeptInv, StuckInv
  <2>3. StillCovered(j)
    BY <1>1, <2>1, <2>2 DEF StillCovered, Covered, InQueue, Pushing
  <2>. QED
    BY <1>2, <2>1, <2>3, DueKept, KeptOn
<1>. QED
  BY <1>3, <1>4

-----------------------------------------------------------------------------
\* What the pump of the process has in hand once Stop has been called.
LEMMA InHandKept ==
  ASSUME TypeOK, KeptInv, StuckInv, [StopNext]_allVars
  PROVE  /\ ~cancelled' => held'.pump = {}
         /\ cancelled' /\ Self \in Pump =>
              /\ pump'[Self].push # NoJob => pump'[Self].push \in held'.pump
              /\ PumpId \in late' => \A t \in pump'[Self].todo : t.job \in held'.pump
<1>0. /\ pump \in [Pump -> [todo : SUBSET [job : Job, n : Nat], push : Job \union {NoJob}]]
      /\ faults \in Nat
  BY DEF TypeOK, StoreTypeOK, PumpTypeOK
<1>1. CASE TickerGoes /\ Self \in Pump /\ Pumping(Self) /\ MayCall(PumpId)
  <2>1. UNCHANGED <<cancelled, held>> /\ PumpId \notin late' /\ PumpStep(Self)
    BY <1>1 DEF TickerGoes, MayCall, Pumping
  <2>2. CASE \E t \in pump[Self].todo : Requeue(Self, t)
    <3>1. PICK t \in pump[Self].todo : Requeue(Self, t)
      BY <2>2
    <3>2. UNCHANGED faults /\ pump'[Self].push = t.job
      BY <1>0, <1>1, <3>1 DEF Requeue
    <3>3. cancelled => PumpId \in late
      BY <1>0, <1>1, <3>2, CallAllowed
    <3>. QED
      BY <2>1, <3>1, <3>2, <3>3 DEF KeptInv
  <2>3. CASE \/ SelectDue(Self) \/ PushRetry(Self) \/ PushResent(Self)
             \/ \E t \in pump[Self].todo : RequeueNothing(Self, t) \/ RequeueFails(Self, t)
    <3>1. pump'[Self].push \in {pump[Self].push, NoJob}
      BY <1>0, <2>3 DEF SelectDue, PushRetry, PushResent, RequeueNothing, RequeueFails
    <3>. QED
      BY <2>1, <3>1 DEF KeptInv
  <2>. QED
    BY <2>1, <2>2, <2>3 DEF PumpStep
<1>2. CASE Stop
  <2>1. cancelled' = TRUE /\ held'.pump = PumpJobs /\ UNCHANGED pump
    BY <1>2 DEF Stop, InHand, vars
  <2>2. Self \in Pump => /\ pump[Self].push # NoJob => pump[Self].push \in PumpJobs
                         /\ \A t \in pump[Self].todo : t.job \in PumpJobs
    BY <1>0 DEF PumpJobs
  <2>. QED
    BY <2>1, <2>2
<1>3. CASE Exit
  <2>1. UNCHANGED <<cancelled, held>> /\ late' = {} /\ (Self \in Pump => pump'[Self] = PumpIdle)
    BY <1>0, <1>3 DEF Exit, WorkerCrash
  <2>. QED
    BY <2>1 DEF KeptInv, PumpIdle
<1>4. CASE /\ UNCHANGED <<cancelled, held>> /\ late' \subseteq late
           /\ Self \in Pump => pump'[Self] = pump[Self]
  BY <1>4 DEF KeptInv
<1>5. CASE TickerGoes /\ Self \in Reap /\ Reaping(Self)
  BY <1>4, <1>5, TickerKeeps DEF Reaping
<1>6. CASE OthersGo
  <2>1. Self \in Pump => pump'[Self] = pump[Self]
    <3>1. ASSUME NEW w \in Pump \ {Self}, Pumping(w), Self \in Pump
          PROVE  pump'[Self] = pump[Self]
      <4>1. CASE \E t \in pump[w].todo : Requeue(w, t) \/ RequeueNothing(w, t) \/ RequeueFails(w, t)
        BY <1>0, <3>1, <4>1 DEF Requeue, RequeueNothing, RequeueFails
      <4>2. CASE SelectDue(w) \/ PushRetry(w) \/ PushResent(w)
        BY <1>0, <3>1, <4>2 DEF SelectDue, PushRetry, PushResent
      <4>. QED
        BY <3>1, <4>1, <4>2 DEF Pumping, PumpStep
    <3>. QED
      BY <1>6, <3>1 DEF OthersGo, Api, Loop, Run, Reaping, TimePasses
  <2>. QED
    BY <1>4, <1>6, <2>1 DEF OthersGo, stopVars
<1>7. CASE LoopGoes \/ \E r \in OwnRuns : RunGoes(r)
  BY <1>4, <1>7 DEF LoopGoes, RunGoes, MayCall, Loop, Run
<1>8. CASE LoopReturns \/ WaitReturns \/ StopReturns \/ StopTimesOut \/ UNCHANGED allVars
  BY <1>4, <1>8 DEF LoopReturns, WaitReturns, StopReturns, StopTimesOut, vars, allVars, stopVars
<1>. QED
  BY <1>1, <1>2, <1>3, <1>5, <1>6, <1>7, <1>8 DEF StopNext, TickerGoes

\* No step of a shutdown leaves a taker without an entry.
LEMMA KeptStep ==
  ASSUME StopTypeOK, KeptInv, StuckInv, [StopNext]_allVars
  PROVE  KeptInv'
<1>0. /\ TypeOK /\ Self \in Worker /\ faults \in Nat /\ \A id : Over(id) => Over(id)'
  BY StopParts, OverKept DEF StoreTypeOK
<1>1. \A c \in Client : call'[c].pc = "lrem" => call'[c].job \in acked'
  BY <1>0, StopNextIsNext, RemovesAcked DEF KeptInv
<1>2. ASSUME NEW j \in Job \ swept'
      PROVE  Kept(j)'
  <2>1. CASE LoopGoes
    <3>1. /\ Loop(Self) /\ MayCall(LoopId) /\ UNCHANGED <<cancelled, held>> /\ j \in Job \ swept
      BY <1>2, <2>1 DEF LoopGoes, Loop, reaperVars
    <3>2. faults' # faults => Over(LoopId)'
      BY <3>1, CallAllowed DEF Over
    <3>3. Over(LoopId) => UNCHANGED <<taskVars, redisVars>> /\ faults' # faults
      BY <1>0, <3>1, CallAllowed DEF Over
    <3>. QED
      BY <1>0, <3>1, <3>2, <3>3, LoopEntries
  <2>2. CASE \E r \in OwnRuns : RunGoes(r)
    <3>0. PICK r \in OwnRuns : RunGoes(r)
      BY <2>2
    <3>1. /\ Run(r) /\ UNCHANGED <<cancelled, held>> /\ j \in Job \ swept /\ r \in runs
          /\ r.worker = Self
      BY <1>2, <3>0 DEF RunGoes, Run, reaperVars, OwnRuns
    <3>2. CASE r.pc = "handler"
      <4>1. UNCHANGED storeVars
        BY <3>1, <3>2 DEF Run, RunStep, HandlerSucceeds, HandlerFails, MarkSucceeded,
           MarkSucceededFails, PushDlq, MarkDeadLetter, MarkRetry, CloseAttempt, Finish,
           RunResent
      <4>. QED
        BY <1>0, <3>1, <4>1, RunEntries DEF storeVars
    <3>3. CASE r.pc # "handler"
      <4>1. MayCall(RunId(r))
        BY <3>0, <3>3 DEF RunGoes
      <4>2. faults' # faults => Over(RunId(r))'
        <5>1. faults' # faults => cancelled' /\ RunId(r) \notin late'
          BY <3>1, <4>1, CallAllowed
        <5>. QED
          BY <5>1 DEF Over, RunId
      <4>3. Over(RunId(r)) => UNCHANGED redisVars
        BY <4>1, CallAllowed DEF Over
      <4>. QED
        BY <1>0, <3>1, <4>2, <4>3, RunEntries
    <3>. QED
      BY <3>2, <3>3
  <2>3. CASE TickerGoes
    <3>1. CASE Self \in Pump /\ Pumping(Self) /\ MayCall(PumpId)
      <4>1. UNCHANGED held /\ j \in Job \ swept
        BY <1>2, <2>3, <3>1 DEF TickerGoes, Pumping, reaperVars
      <4>2. \/ UNCHANGED faults
            \/ cancelled /\ (PumpId \in late \/ UNCHANGED <<taskVars, redisVars>>)
        BY <3>1, CallAllowed
      <4>. QED
        BY <1>0, <3>1, <4>1, <4>2, PumpEntries
    <3>2. CASE Self \in Reap /\ Reaping(Self)
      BY <1>0, <1>2, <2>3, <3>2, ReaperEntries DEF TickerGoes
    <3>. QED
      BY <2>3, <3>1, <3>2 DEF TickerGoes
  <2>4. CASE OthersGo
    <3>1. UNCHANGED <<faults, held>>
      BY <2>4 DEF OthersGo, stopVars
    <3>2. CASE \E w \in Reap \ {Self} : Reaping(w)
      BY <1>0, <1>2, <3>1, <3>2, ReaperEntries
    <3>3. j \in Job \ swept \/ \E w \in Reap \ {Self} : Reaping(w)
      BY <1>2, <2>4 DEF OthersGo, Api, Loop, Run, Pumping, TimePasses, reaperVars
    <3>4. CASE (\E c \in Client : Api(c)) /\ j \in Job \ swept
      BY <1>0, <3>1, <3>4, ApiEntries
    <3>5. CASE (\E w \in Worker \ {Self} : Loop(w)) /\ j \in Job \ swept
      BY <1>0, <3>1, <3>5, LoopEntries
    <3>6. CASE (\E r \in runs \ OwnRuns : Run(r)) /\ j \in Job \ swept
      <4>1. PICK r \in runs : Run(r) /\ r.worker # Self
        BY <3>6 DEF OwnRuns
      <4>. QED
        BY <1>0, <3>1, <3>6, <4>1, RunEntries
    <3>7. CASE (\E w \in Pump \ {Self} : Pumping(w)) /\ j \in Job \ swept
      BY <1>0, <3>1, <3>7, PumpEntries
    <3>8. CASE (\E k \in Job : TimePasses(k)) /\ j \in Job \ swept
      BY <1>0, <2>4, <3>8, RestEntries DEF OthersGo
    <3>. QED
      BY <2>4, <3>2, <3>3, <3>4, <3>5, <3>6, <3>7, <3>8 DEF OthersGo
  <2>5. CASE \/ LoopReturns \/ Stop \/ WaitReturns \/ StopReturns \/ StopTimesOut \/ Exit
             \/ UNCHANGED allVars
    <3>1. j \in Job \ swept
      BY <1>2, <2>5 DEF LoopReturns, Stop, WaitReturns, StopReturns, StopTimesOut, Exit,
         WorkerCrash, vars, allVars, reaperVars
    <3>. QED
      BY <1>0, <2>5, <3>1, RestEntries
  <2>. QED
    BY <2>1, <2>2, <2>3, <2>4, <2>5 DEF StopNext
<1>3. \A j \in Job \ swept' : Kept(j)'
  BY <1>2
<1>. QED
  BY <1>0, <1>1, <1>3, InHandKept DEF KeptInv

\* However the process ends - calls refused, calls applied after the cancel, the
\* timeout - and whatever the API server, the other workers and the pumps do
\* meanwhile, the shutdown loses no queued job but those its own retry pump was
\* requeueing when Stop was called, and those a reaper has swept.
THEOREM EntriesKept == StopSpec => []EntryKept
<1>1. StopInit => KeptInv
  <2>. SUFFICES ASSUME StopInit PROVE KeptInv
    OBVIOUS
  <2>1. /\ status = [j \in Job |-> "absent"] /\ processing = << >> /\ runs = {}
        /\ loop = [w \in Worker |-> AtTop] /\ call = [c \in Client |-> NoCall]
        /\ ~cancelled /\ held.pump = {}
    BY DEF StopInit, Init, StoreInit, ApiInit, WorkerInit
  <2>2. ASSUME NEW j \in Job
        PROVE  Kept(j)
    <3>1. LoopDue(j) = {} /\ RunDue(j) = {} /\ PastClaim(j) = {} /\ Places(j, processing) = {}
      BY <2>1 DEF LoopDue, RunDue, PastClaim, Holding, Mine, AtTop, Places
    <3>2. IsFiniteSet({}) /\ Cardinality({}) = 0
      BY FS_EmptySet
    <3>3. status[j] # "queued"
      BY <2>1
    <3>. QED
      BY <3>1, <3>2, <3>3 DEF Kept, There
  <2>. QED
    BY <2>1, <2>2 DEF KeptInv, NoCall
<1>2. StopTypeOK /\ KeptInv => EntryKept
  <2>. SUFFICES ASSUME StopTypeOK, KeptInv, NEW j \in Job \ swept,
                       status[j] = "queued", j \notin acked, ~Covered(j)
                PROVE  Contains(processing, j)
    BY DEF EntryKept, Covered, InQueue
  <2>1. Kept(j)
    BY DEF KeptInv
  <2>2. Cardinality(PastClaim(j)) \in Nat /\ Cardinality(RunDue(j)) \in Nat
    <3>1. IsFiniteSet(PastClaim(j)) /\ IsFiniteSet(RunDue(j))
      BY <2>1, Fewer DEF Kept, PastClaim
    <3>. QED
      BY <3>1, FS_CardinalityType
  <2>3. There(j) \in Nat /\ (There(j) # 0 => Contains(processing, j))
    BY StopParts, ThereTypes
  <2>. QED
    BY <2>1, <2>2, <2>3 DEF Kept
<1>3. StuckInv /\ StopTypeOK /\ KeptInv /\ [StopNext]_allVars => KeptInv'
  BY KeptStep
<1>4. StopInit => StuckInv
  BY DEF StopInit, Init, StoreInit, StuckInv
<1>5. StopTypeOK /\ RunningExecuted /\ StuckInv /\ [StopNext]_allVars => StuckInv'
  BY StuckStep
<1>. QED
  BY <1>1, <1>2, <1>3, <1>4, <1>5, ShutdownTypeCorrect, StopIsScheduler, RunningIsTrue, PTL
     DEF StopSpec
=============================================================================

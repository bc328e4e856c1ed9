--------------------------- MODULE ExecutionProofs ---------------------------
(***************************************************************************)
(* One execution of a job at a time, within the job's budget of attempts,  *)
(* and outcomes that stay.  The invariant is                               *)
(*     ExecInv == TypeOK /\ SingleExecution /\ AttemptBudget /\ RunBudget  *)
(* where RunBudget ties the copy of the row a run works with (r.n) to the  *)
(* row itself: while the run is active nobody else can claim the job.      *)
(*                                                                         *)
(* The second half is about the dead-letter list.  The push to it and the  *)
(* UPDATE that follows are two writes, each of which may fail: DlqInv says *)
(* that a job whose entry has been pushed has used up its attempts and     *)
(* cannot be claimed again, and that the only run that may still report on *)
(* it is past the push.                                                    *)
(***************************************************************************)
EXTENDS TypeProofs

ExecInv == TypeOK /\ SingleExecution /\ AttemptBudget /\ RunBudget

-----------------------------------------------------------------------------
\* The invariant of the worker, proved step by step in WorkerProofs, and what
\* the other processes add: their variables have types, and that is all.
LEMMA ExecParts ==
  /\ ExecInv <=> TypeOK /\ WorkInv
  /\ ExecInv' <=> TypeOK' /\ WorkInv'
  /\ TypeOK => TypesOK
  /\ TypeOK' => TypesOK'
BY DEF ExecInv, WorkInv, TypesOK, TypeOK

-----------------------------------------------------------------------------
\* The API server, the retry pumps, the reapers and time

\* A process that neither runs nor claims jobs: only the rows matter.
LEMMA ExecRowsOnly ==
  ASSUME ExecInv, TypeOK', UNCHANGED workerVars, UNCHANGED attempts,
         \A j \in Job : status'[j] # status[j] =>
            \/ status[j] \in {"absent", "retry"} /\ status'[j] = "queued"
            \/ status[j] \in {"queued", "running"} /\ status'[j] = "cancelled"
  PROVE  ExecInv'
BY ExecParts, RowsOnly

\* The handlers of SubmitJob and CancelJob keep the invariant.
LEMMA ApiExec ==
  ASSUME ExecInv, NEW c \in Client, Api(c)
  PROVE  ExecInv'
<1>1. TypeOK /\ TypesOK /\ TypeOK' /\ UNCHANGED workerVars
  BY ApiTypes, ExecParts DEF ExecInv, Api
<1>2. CASE \E j \in Job : InsertTask(j) \/ CancelTask(j)
  BY <1>1, <1>2, GuardedUpdate, ExecRowsOnly
<1>3. CASE UNCHANGED <<status, attempts>>
  BY <1>1, <1>3, ExecRowsOnly
<1>4. call[c].pc # "idle" => call[c].job \in Job
  BY <1>1 DEF TypeOK, ApiTypeOK
<1>5. CASE CallResent(c)
  BY <1>1, <1>3, <1>5, CallResentStep DEF taskVars
<1>. QED
  BY <1>2, <1>3, <1>4, <1>5
     DEF Api, ApiStep, HandlerStep, CreateJob, CreateConflict, CreateFails, PushJob,
         UpdateCancelled, NotCancellable, CancelFails, RemoveQueued, CallAborts,
         SubmitJob, CancelJob, storeVars, taskVars

\* The retry pump keeps the invariant.
LEMMA PumpExec ==
  ASSUME ExecInv, NEW w \in Pump, Pumping(w)
  PROVE  ExecInv'
<1>1. TypeOK /\ TypesOK /\ TypeOK' /\ UNCHANGED workerVars
  BY PumpTypes, ExecParts DEF ExecInv, Pumping
<1>p. \A t \in pump[w].todo : t.job \in Job
  BY <1>1 DEF TypeOK, PumpTypeOK
<1>2. CASE \E j \in Job : RequeueTask(j)
  BY <1>1, <1>2, GuardedUpdate, ExecRowsOnly
<1>3. CASE UNCHANGED <<status, attempts>>
  BY <1>1, <1>3, ExecRowsOnly
<1>4. CASE PushResent(w)
  BY <1>1, <1>3, <1>4, PushResentStep DEF taskVars
<1>. QED
  BY <1>2, <1>3, <1>4, <1>p
     DEF Pumping, PumpStep, SelectDue, PushRetry, Requeue, RequeueNothing, RequeueFails,
         storeVars, taskVars

\* The reaper writes no row at all.
LEMMA ReaperExec ==
  ASSUME ExecInv, NEW w \in Reap, Reaping(w)
  PROVE  ExecInv'
<1>1. TypeOK' /\ UNCHANGED workerVars
  BY ReaperTypes DEF ExecInv, Reaping
<1>2. UNCHANGED <<status, attempts>>
  BY DEF Reaping, ReaperStep, Sweep, ReadStuck, ReadFinished, ReadOther, ReadFails,
         MoveBack, MoveNothing, MoveFails, PushBack, RemoveItem, ReaperResent, Resent,
         storeVars, taskVars
<1>. QED
  BY <1>1, <1>2, ExecRowsOnly

\* Nor does the passing of time change a status.
LEMMA TimeExec ==
  ASSUME ExecInv, NEW j \in Job, TimePasses(j)
  PROVE  ExecInv'
<1>1. TypeOK' /\ UNCHANGED workerVars
  BY TimeTypes DEF ExecInv, TimePasses
<1>2. UNCHANGED <<status, attempts>>
  BY DEF TimePasses, BackoffElapses, GrowsStale
<1>. QED
  BY <1>1, <1>2, ExecRowsOnly

-----------------------------------------------------------------------------
\* The worker

\* The steps of a worker.
LEMMA LoopExec ==
  ASSUME ExecInv, NEW w \in Worker, Loop(w)
  PROVE  ExecInv'
BY LoopTypes, LoopStepExec, ExecParts DEF Loop

\* A run reports and ends; nobody else executes its job meanwhile.
LEMMA RunExec ==
  ASSUME ExecInv, NEW r \in runs, Run(r)
  PROVE  ExecInv'
BY RunTypes, RunStepExec, ExecParts DEF Run

\* A crash ends executions and starts none.
LEMMA CrashExec ==
  ASSUME ExecInv, NEW w \in Worker, WorkerCrash(w)
  PROVE  ExecInv'
<1>1. UNCHANGED <<status, attempts>> /\ WorkerLost(w)
  BY DEF WorkerCrash, taskVars
<1>. QED
  BY <1>1, CrashTypes, LostExec, ExecParts

-----------------------------------------------------------------------------
\* The theorems

\* At first nothing is stored and nobody executes anything.
LEMMA ExecInit == Init => ExecInv
BY TypeInit, WorkInit, ExecParts DEF Init

\* The invariant is inductive.
LEMMA ExecNext == ExecInv /\ [Next]_vars => ExecInv'
<1>. SUFFICES ASSUME ExecInv, [Next]_vars PROVE ExecInv'
  OBVIOUS
<1>1. CASE UNCHANGED vars
  <2>1. UNCHANGED workerVars /\ UNCHANGED <<status, attempts>>
    BY <1>1 DEF vars, storeVars, taskVars
  <2>2. TypeOK'
    BY TypeNext DEF ExecInv
  <2>. QED
    BY <2>1, <2>2, ExecRowsOnly
<1>2. CASE Next
  BY <1>2, ApiExec, LoopExec, RunExec, PumpExec, ReaperExec, CrashExec, TimeExec DEF Next
<1>. QED
  BY <1>1, <1>2

\* The inductive invariant holds in every reachable state.
THEOREM ExecInvariant == Spec => []ExecInv
BY ExecInit, ExecNext, PTL DEF Spec

\* claimJob admits one execution of a job at a time, whatever is queued twice,
\* swept back, retried or lost in a crash.
THEOREM OneExecution == Spec => []SingleExecution
<1>1. ExecInv => SingleExecution
  BY DEF ExecInv
<1>. QED
  BY <1>1, ExecInvariant, PTL

\* No job is started more than max_attempts times, and what can still be
\* claimed has an attempt left.
THEOREM BudgetKept == Spec => []AttemptBudget
<1>1. ExecInv => AttemptBudget
  BY DEF ExecInv
<1>. QED
  BY <1>1, ExecInvariant, PTL

-----------------------------------------------------------------------------
\* Dead letters

\* Some run has pushed the job's entry and is yet to update the row.
Pushed(j) == \E r \in runs : r.pc = "deadletter" /\ r.job = j

\* Without faults, list and row agree but for the jobs in between.
Agree ==
    /\ \A j \in Job : status[j] = "deadletter" => dlq[j] = 1
    /\ \A j \in Job : dlq[j] # 0 => dlq[j] = 1 /\ (status[j] = "deadletter" \/ Pushed(j))
    /\ \A r \in runs : r.pc = "deadletter" => dlq[r.job] = 1

DlqInv ==
    /\ \A j \in Job : dlq[j] # 0 => attempts[j] = MaxAttempts[j]
    /\ \A r \in runs : Active(r) /\ r.pc # "deadletter" => dlq[r.job] = 0
    /\ \A w \in Worker, j \in Job : Owns(w, j) => dlq[j] = 0
    /\ faults = 0 => Agree

-----------------------------------------------------------------------------
\* Steps that push no entry

\* No execution begins, and unless a fault happens no row enters or leaves
\* 'deadletter' and no run forgets that it has pushed.
LEMMA DlqKept ==
  ASSUME DlqInv, UNCHANGED <<attempts, dlq>>, faults \in Nat,
         \A u \in Worker, j \in Job : Owns(u, j)' => Owns(u, j),
         \A r \in runs' : Active(r) => r \in runs,
         \/ faults' # 0
         \/ /\ faults' = faults
            /\ \A r \in runs : r.pc = "deadletter" => r \in runs'
            /\ \A j \in Job : status'[j] # status[j] =>
                 status[j] # "deadletter" /\ status'[j] # "deadletter"
  PROVE  DlqInv'
<1>1. \A j \in Job : dlq'[j] # 0 => attempts'[j] = MaxAttempts[j]
  BY DEF DlqInv
<1>2. \A r \in runs' : Active(r) /\ r.pc # "deadletter" => dlq'[r.job] = 0
  BY DEF DlqInv
<1>3. \A w \in Worker, j \in Job : Owns(w, j)' => dlq'[j] = 0
  BY DEF DlqInv
<1>4. faults' = 0 => Agree'
  <2>. SUFFICES ASSUME faults' = 0 PROVE Agree'
    OBVIOUS
  <2>1. /\ Agree
        /\ \A r \in runs : r.pc = "deadletter" => r \in runs'
        /\ \A j \in Job : status'[j] # status[j] =>
             status[j] # "deadletter" /\ status'[j] # "deadletter"
    BY DEF DlqInv
  <2>2. \A r \in runs' : r.pc = "deadletter" => r \in runs
    BY DEF Active, ActivePC
  <2>. QED
    BY <2>1, <2>2 DEF Agree, Pushed
<1>. QED
  BY <1>1, <1>2, <1>3, <1>4 DEF DlqInv, Active

\* A process that neither runs nor claims jobs.
LEMMA DlqRowsOnly ==
  ASSUME DlqInv, UNCHANGED <<workerVars, attempts, dlq>>,
         faults \in Nat, faults' \in {faults, faults + 1},
         \A j \in Job : status'[j] # status[j] =>
            \/ status[j] \in {"absent", "retry"} /\ status'[j] = "queued"
            \/ status[j] \in {"queued", "running"} /\ status'[j] = "cancelled"
  PROVE  DlqInv'
<1>1. \A u \in Worker, j \in Job : Owns(u, j)' => Owns(u, j)
  BY DEF workerVars, Owns
<1>2. UNCHANGED runs
  BY DEF workerVars
<1>3. \A j \in Job : status'[j] # status[j] =>
        status[j] # "deadletter" /\ status'[j] # "deadletter"
  OBVIOUS
<1>4. faults' # 0 \/ faults' = faults
  OBVIOUS
<1>. QED
  BY <1>1, <1>2, <1>3, <1>4, DlqKept

\* The handlers of SubmitJob and CancelJob.
LEMMA ApiDlq ==
  ASSUME ExecInv, DlqInv, NEW c \in Client, Api(c)
  PROVE  DlqInv'
<1>1. TypeOK /\ TypesOK /\ UNCHANGED workerVars /\ faults \in Nat
  BY ExecParts DEF ExecInv, Api, TypeOK, StoreTypeOK
<1>2. call[c].pc # "idle" => call[c].job \in Job
  BY <1>1 DEF TypeOK, ApiTypeOK
<1>3. UNCHANGED dlq /\ faults' \in {faults, faults + 1}
  BY DEF Api, ApiStep, HandlerStep, CreateJob, CreateConflict, CreateFails, PushJob,
         UpdateCancelled, NotCancellable, CancelFails, RemoveQueued, CallAborts,
         SubmitJob, CancelJob, CallResent, Resent, Redis, Fault, LPush, LRemAll,
         storeVars, redisVars
<1>4. CASE \E j \in Job : InsertTask(j) \/ CancelTask(j)
  BY <1>1, <1>3, <1>4, GuardedUpdate, DlqRowsOnly
<1>5. CASE UNCHANGED <<status, attempts>>
  BY <1>1, <1>3, <1>5, DlqRowsOnly
<1>6. CASE CallResent(c)
  BY <1>1, <1>3, <1>5, <1>6, CallResentStep DEF taskVars
<1>. QED
  BY <1>2, <1>4, <1>5, <1>6
     DEF Api, ApiStep, HandlerStep, CreateJob, CreateConflict, CreateFails, PushJob,
         UpdateCancelled, NotCancellable, CancelFails, RemoveQueued, CallAborts,
         SubmitJob, CancelJob, storeVars, taskVars

\* The retry pump.
LEMMA PumpDlq ==
  ASSUME ExecInv, DlqInv, NEW w \in Pump, Pumping(w)
  PROVE  DlqInv'
<1>1. TypeOK /\ TypesOK /\ UNCHANGED workerVars /\ faults \in Nat
  BY ExecParts DEF ExecInv, Pumping, TypeOK, StoreTypeOK
<1>2. UNCHANGED dlq /\ faults' \in {faults, faults + 1}
  BY DEF Pumping, PumpStep, SelectDue, PushRetry, PushResent, Requeue, RequeueNothing,
         RequeueFails, Resent, Redis, Fault, LPush, storeVars, redisVars
<1>p. \A t \in pump[w].todo : t.job \in Job
  BY <1>1 DEF TypeOK, PumpTypeOK
<1>3. CASE \E j \in Job : RequeueTask(j)
  BY <1>1, <1>2, <1>3, GuardedUpdate, DlqRowsOnly
<1>4. CASE UNCHANGED <<status, attempts>>
  BY <1>1, <1>2, <1>4, DlqRowsOnly
<1>5. CASE PushResent(w)
  BY <1>1, <1>4, <1>5, PushResentStep DEF taskVars
<1>. QED
  BY <1>3, <1>4, <1>5, <1>p
     DEF Pumping, PumpStep, SelectDue, PushRetry, Requeue, RequeueNothing, RequeueFails,
         storeVars, taskVars

\* The reaper moves entries of other lists.
LEMMA ReaperDlq ==
  ASSUME ExecInv, DlqInv, NEW w \in Reap, Reaping(w)
  PROVE  DlqInv'
<1>1. UNCHANGED workerVars /\ faults \in Nat
  BY DEF ExecInv, Reaping, TypeOK, StoreTypeOK
<1>2. UNCHANGED <<status, attempts>>
  BY DEF Reaping, ReaperStep, Sweep, ReadStuck, ReadFinished, ReadOther, ReadFails,
         MoveBack, MoveNothing, MoveFails, PushBack, RemoveItem, ReaperResent, Resent,
         storeVars, taskVars
<1>3. UNCHANGED dlq /\ faults' \in {faults, faults + 1}
  BY DEF Reaping, ReaperStep, Sweep, ReadStuck, ReadFinished, ReadOther, ReadFails,
         MoveBack, MoveNothing, MoveFails, PushBack, RemoveItem, ReaperResent, Resent,
         Redis, Fault, LPush, LMove, LRemProcessing, storeVars, redisVars
<1>. QED
  BY <1>1, <1>2, <1>3, DlqRowsOnly

\* The passing of time.
LEMMA TimeDlq ==
  ASSUME ExecInv, DlqInv, NEW j \in Job, TimePasses(j)
  PROVE  DlqInv'
<1>1. faults \in Nat
  BY DEF ExecInv, TypeOK, StoreTypeOK
<1>2. UNCHANGED <<workerVars, status, attempts, dlq, faults>>
  BY DEF TimePasses, BackoffElapses, GrowsStale, redisVars
<1>. QED
  BY <1>1, <1>2, DlqRowsOnly

\* A crash is a fault, and starts nothing.
LEMMA CrashDlq ==
  ASSUME ExecInv, DlqInv, NEW w \in Worker, WorkerCrash(w)
  PROVE  DlqInv'
<1>1. faults \in Nat /\ faults' # 0
  BY DEF ExecInv, TypeOK, StoreTypeOK, WorkerCrash, Fault
<1>2. UNCHANGED <<status, attempts, dlq>> /\ runs' \subseteq runs
  BY DEF WorkerCrash, WorkerLost, taskVars, redisVars
<1>3. \A u \in Worker, j \in Job : Owns(u, j)' => Owns(u, j)
  BY DEF WorkerCrash, WorkerLost, LoopTop, AtTop, Owns, OwnerPC, ExecInv, TypeOK, WorkerTypeOK
<1>. QED
  BY <1>1, <1>2, <1>3, DlqKept

-----------------------------------------------------------------------------
\* The worker loop

\* A job that can be claimed has an attempt left, so nobody has pushed it.
LEMMA ClaimDlq ==
  ASSUME ExecInv, DlqInv, NEW w \in Worker, loop[w].pc = "claim", ClaimTask(loop[w].job),
         LoopGoto(w, "insert") \/ LoopGoto(w, "giveback"),
         UNCHANGED <<runs, dlq>>, faults' \in {faults, faults + 1}
  PROVE  DlqInv'
<1>. DEFINE j == loop[w].job
<1>1. /\ j \in Job /\ status[j] = "queued" /\ status' = [status EXCEPT ![j] = "running"]
      /\ attempts' = [attempts EXCEPT ![j] = @ + 1]
      /\ status \in [Job -> Status] /\ attempts \in [Job -> Nat] /\ dlq \in [Job -> Nat]
      /\ faults \in Nat /\ MaxAttempts[j] \in Nat
      /\ loop \in [Worker -> [pc : LoopPC, at : 1..Len(Priorities), job : Job \union {NoJob}]]
  BY AttemptsAssumption DEF ExecInv, TypeOK, WorkerTypeOK, ClaimTask, StoreTypeOK
<1>2. dlq[j] = 0
  BY <1>1 DEF ExecInv, AttemptBudget, DlqInv
<1>3. \A u \in Worker, k \in Job : Owns(u, k)' => Owns(u, k) \/ k = j
  BY <1>1 DEF Owns, LoopGoto, OwnerPC
<1>. HIDE DEF j
<1>4. \A k \in Job : dlq'[k] # 0 => attempts'[k] = MaxAttempts[k]
  BY <1>1, <1>2 DEF DlqInv
<1>5. \A r \in runs' : Active(r) /\ r.pc # "deadletter" => dlq'[r.job] = 0
  BY DEF DlqInv
<1>6. \A u \in Worker, k \in Job : Owns(u, k)' => dlq'[k] = 0
  BY <1>2, <1>3 DEF DlqInv
<1>7. faults' = 0 => Agree'
  <2>. SUFFICES ASSUME faults = 0 PROVE Agree'
    BY <1>1
  <2>1. \A k \in Job : status[k] = "deadletter" <=> status'[k] = "deadletter"
    BY <1>1
  <2>. QED
    BY <2>1 DEF DlqInv, Agree, Pushed
<1>. QED
  BY <1>4, <1>5, <1>6, <1>7 DEF DlqInv, Active

\* Every step of the loop.
LEMMA LoopDlq ==
  ASSUME ExecInv, DlqInv, NEW w \in Worker, Loop(w)
  PROVE  DlqInv'
<1>. USE DEF storeVars, taskVars, redisVars
<1>1. /\ TypeOK /\ faults \in Nat
      /\ loop \in [Worker -> [pc : LoopPC, at : 1..Len(Priorities), job : Job \union {NoJob}]]
      /\ status \in [Job -> Status]
      /\ loop[w].pc # "poll" => loop[w].job \in Job
  BY DEF ExecInv, TypeOK, WorkerTypeOK, StoreTypeOK
<1>2. LoopStep(w)
  BY DEF Loop
<1>3. UNCHANGED dlq /\ faults' \in {faults, faults + 1}
  BY <1>2 DEF LoopStep, Pop, PollEmpty, PopFails, Claim, NotClaimed, ClaimFails, GiveBack,
     RecordAttempt, Spawn, LoadFails, MarkFailed, Drop, LoopResent, Resent, Redis, Sql,
     Fault, LPush, BRPopLPush, LRemProcessing
<1>4. CASE Claim(w)
  BY <1>1, <1>3, <1>4, ClaimDlq DEF Claim
<1>5. CASE ClaimFails(w)
  <2>1. CASE ClaimTask(loop[w].job)
    BY <1>1, <1>3, <1>5, <2>1, ClaimDlq DEF ClaimFails
  <2>2. CASE UNCHANGED <<taskVars, rows>>
    <3>1. \A u \in Worker, j \in Job : Owns(u, j)' => Owns(u, j)
      BY <1>1, <1>5 DEF ClaimFails, LoopGoto, Owns, OwnerPC
    <3>2. UNCHANGED <<runs, status, attempts>>
      BY <1>5, <2>2 DEF ClaimFails
    <3>. QED
      BY <1>1, <1>3, <3>1, <3>2, DlqKept
  <2>. QED
    BY <1>5, <2>1, <2>2 DEF ClaimFails
<1>6. CASE Pop(w) \/ PollEmpty(w) \/ PopFails(w)
  <2>1. /\ loop'[w].pc \in {"poll", "claim"}
        /\ \A u \in Worker \ {w} : loop'[u] = loop[u]
    BY <1>1, <1>6 DEF Pop, PollEmpty, PopFails, NextQueue
  <2>2. \A u \in Worker, j \in Job : Owns(u, j)' => Owns(u, j)
    BY <2>1 DEF Owns, OwnerPC
  <2>3. UNCHANGED <<status, attempts, runs>>
    BY <1>6 DEF Pop, PollEmpty, PopFails
  <2>. QED
    BY <1>1, <1>3, <2>2, <2>3, DlqKept
<1>7. CASE NotClaimed(w) \/ GiveBack(w) \/ RecordAttempt(w) \/ LoadFails(w) \/ Drop(w)
  <2>1. \A u \in Worker, j \in Job : Owns(u, j)' => Owns(u, j)
    BY <1>1, <1>7 DEF NotClaimed, GiveBack, RecordAttempt, LoadFails, Drop,
                      LoopGoto, LoopTop, AtTop, Owns, OwnerPC
  <2>2. UNCHANGED <<status, attempts, runs>>
    BY <1>7 DEF NotClaimed, GiveBack, RecordAttempt, LoadFails, Drop, Sql, InsertAttempt
  <2>. QED
    BY <1>1, <1>3, <2>1, <2>2, DlqKept
<1>8. CASE Spawn(w)
  <2>. DEFINE new == [job |-> loop[w].job, n |-> attempts[loop[w].job],
                      worker |-> w, pc |-> "handler"]
  <2>1. /\ Owns(w, new.job) /\ new.job \in Job /\ new.pc = "handler"
        /\ runs' = runs \union {new}
        /\ UNCHANGED <<status, attempts, faults>>
    BY <1>1, <1>8 DEF Spawn, Owns, OwnerPC
  <2>2. \A u \in Worker, j \in Job : Owns(u, j)' => Owns(u, j)
    BY <1>1, <1>8 DEF Spawn, LoopTop, AtTop, Owns, OwnerPC
  <2>. HIDE DEF new
  <2>3. \A r \in runs' : Active(r) /\ r.pc # "deadletter" => dlq'[r.job] = 0
    BY <1>3, <2>1 DEF DlqInv
  <2>4. \A u \in Worker, j \in Job : Owns(u, j)' => dlq'[j] = 0
    BY <1>3, <2>2 DEF DlqInv
  <2>5. faults' = 0 => Agree'
    BY <1>3, <2>1 DEF DlqInv, Agree, Pushed
  <2>. QED
    BY <1>3, <2>1, <2>3, <2>4, <2>5 DEF DlqInv, Active
<1>9. CASE MarkFailed(w)
  <2>1. \A u \in Worker, j \in Job : Owns(u, j)' => Owns(u, j)
    BY <1>1, <1>9 DEF MarkFailed, LoopGoto, Owns, OwnerPC
  <2>2. Owns(w, loop[w].job) /\ loop[w].job \in Job /\ UNCHANGED <<attempts, runs>>
    BY <1>1, <1>9 DEF MarkFailed, Sql, SetStatus, Owns, OwnerPC
  <2>3. status[loop[w].job] # "deadletter"
    BY <2>2 DEF ExecInv, SingleExecution, Executing
  <2>4. \A j \in Job : status'[j] # status[j] =>
          status[j] # "deadletter" /\ status'[j] # "deadletter"
    BY <1>1, <1>9, <2>2, <2>3 DEF MarkFailed, Sql, SetStatus
  <2>. QED
    BY <1>1, <1>3, <2>1, <2>2, <2>4, DlqKept
<1>10. CASE LoopResent(w)
  <2>1. UNCHANGED <<status, attempts, loop, runs>>
    BY <1>1, <1>10, LoopResentStep DEF TypeOK, workerVars
  <2>. QED
    BY <1>1, <1>3, <2>1, DlqKept DEF Owns
<1>. QED
  BY <1>2, <1>4, <1>5, <1>6, <1>7, <1>8, <1>9, <1>10 DEF LoopStep

-----------------------------------------------------------------------------
\* The runs

\* A run that goes on, or ends, without pushing and without having pushed.
LEMMA RunMovesDlq ==
  ASSUME ExecInv, DlqInv, NEW r \in runs, r.pc # "deadletter", NEW new,
         Active(new) => Active(r) /\ new.job = r.job, new.pc # "deadletter",
         runs' = (runs \ {r}) \union {new} \/ runs' = runs \ {r},
         UNCHANGED <<loop, attempts, dlq>>, faults' \in {faults, faults + 1},
         \A j \in Job : status'[j] # status[j] =>
            status[j] # "deadletter" /\ status'[j] # "deadletter"
  PROVE  DlqInv'
<1>0. faults \in Nat
  BY DEF ExecInv, TypeOK, StoreTypeOK
<1>1. \A u \in Worker, j \in Job : Owns(u, j)' <=> Owns(u, j)
  BY DEF Owns
<1>2. \A s \in runs' : Active(s) /\ s.pc # "deadletter" => dlq'[s.job] = 0
  BY DEF DlqInv
<1>3. \A u \in Worker, j \in Job : Owns(u, j)' => dlq'[j] = 0
  BY <1>1 DEF DlqInv
<1>4. faults' = 0 => Agree'
  <2>. SUFFICES ASSUME faults = 0 PROVE Agree'
    BY <1>0
  <2>1. \A s : s.pc = "deadletter" => (s \in runs' <=> s \in runs)
    OBVIOUS
  <2>2. \A j \in Job : Pushed(j) => \E s \in runs' : s.pc = "deadletter" /\ s.job = j
    BY <2>1 DEF Pushed
  <2>. QED
    BY <2>1, <2>2 DEF DlqInv, Agree, Pushed
<1>. QED
  BY <1>2, <1>3, <1>4 DEF DlqInv, Active

\* The push: nobody else executes the job, and its attempts are used up.
LEMMA PushesDlq ==
  ASSUME ExecInv, DlqInv, NEW r \in runs, PushDlq(r)
  PROVE  DlqInv'
<1>. DEFINE new == [r EXCEPT !.pc = "deadletter"]
<1>0. /\ TypeOK /\ SingleExecution /\ AttemptBudget /\ RunBudget
      /\ r \in [job : Job, n : Nat, worker : Worker, pc : RunPC]
      /\ runs \subseteq [job : Job, n : Nat, worker : Worker, pc : RunPC]
      /\ dlq \in [Job -> Nat] /\ attempts \in [Job -> Nat] /\ faults \in Nat
      /\ MaxAttempts[r.job] \in Nat
  BY AttemptsAssumption DEF ExecInv, TypeOK, WorkerTypeOK, StoreTypeOK
<1>1. /\ r.pc = "dlq" /\ Active(r) /\ runs' = (runs \ {r}) \union {new}
      /\ UNCHANGED <<loop, status, attempts>>
      /\ \/ dlq' = [dlq EXCEPT ![r.job] = @ + 1] /\ UNCHANGED faults
         \/ faults' = faults + 1 /\ \E n \in Nat : dlq' = [dlq EXCEPT ![r.job] = @ + n]
  BY DEF PushDlq, RunGoto, Fault, LPushDlq, Tries, taskVars, Active, ActivePC
<1>2. new.job = r.job /\ new.pc = "deadletter"
  BY <1>0
<1>. HIDE DEF new
<1>3. dlq[r.job] = 0 /\ attempts[r.job] = MaxAttempts[r.job]
  BY <1>0, <1>1 DEF DlqInv, RunBudget, AttemptBudget
<1>4. \A s \in runs : Active(s) /\ s # r => s.job # r.job
  BY <1>0, <1>1 DEF SingleExecution
<1>5. \A j \in Job : dlq'[j] # 0 => attempts'[j] = MaxAttempts[j]
  BY <1>0, <1>1, <1>3 DEF DlqInv
<1>6. \A s \in runs' : Active(s) /\ s.pc # "deadletter" => dlq'[s.job] = 0
  BY <1>0, <1>1, <1>2, <1>4 DEF DlqInv
<1>7. \A u \in Worker, j \in Job : Owns(u, j)' => dlq'[j] = 0
  <2>1. \A u \in Worker, j \in Job : Owns(u, j)' => Owns(u, j) /\ j # r.job
    BY <1>0, <1>1 DEF Owns, SingleExecution
  <2>. QED
    BY <1>0, <1>1, <2>1 DEF DlqInv
<1>8. faults' = 0 => Agree'
  <2>. SUFFICES ASSUME faults' = 0 PROVE Agree'
    OBVIOUS
  <2>1. /\ Agree /\ faults = 0 /\ dlq' = [dlq EXCEPT ![r.job] = @ + 1] /\ dlq'[r.job] = 1
        /\ \A j \in Job : j # r.job => dlq'[j] = dlq[j]
    BY <1>0, <1>1, <1>3 DEF DlqInv
  <2>2. \A j \in Job : status'[j] = "deadletter" => dlq'[j] = 1
    BY <1>1, <2>1 DEF Agree
  <2>5. \A j \in Job : dlq'[j] # 0 => dlq'[j] = 1
    BY <2>1 DEF Agree
  <2>3. \A j \in Job : dlq'[j] # 0 =>
          status'[j] = "deadletter" \/ \E s \in runs' : s.pc = "deadletter" /\ s.job = j
    <3>. SUFFICES ASSUME NEW j \in Job, dlq'[j] # 0, status[j] # "deadletter"
                  PROVE  \E s \in runs' : s.pc = "deadletter" /\ s.job = j
      BY <1>1
    <3>1. CASE j = r.job
      BY <1>1, <1>2, <3>1
    <3>2. CASE j # r.job
      <4>1. Pushed(j)
        BY <2>1, <3>2 DEF Agree
      <4>. QED
        BY <1>1, <4>1 DEF Pushed
    <3>. QED
      BY <3>1, <3>2
  <2>4. \A s \in runs' : s.pc = "deadletter" => dlq'[s.job] = 1
    BY <1>0, <1>1, <1>2, <1>4, <2>1 DEF Agree, Active, ActivePC
  <2>. QED
    BY <2>2, <2>3, <2>4, <2>5 DEF Agree, Pushed
<1>. QED
  BY <1>5, <1>6, <1>7, <1>8 DEF DlqInv, Active

\* The UPDATE that follows the push.
LEMMA MarksDlq ==
  ASSUME ExecInv, DlqInv, NEW r \in runs, MarkDeadLetter(r)
  PROVE  DlqInv'
<1>. DEFINE new == [r EXCEPT !.pc = "closefailed"]
<1>0. /\ r \in [job : Job, n : Nat, worker : Worker, pc : RunPC]
      /\ runs \subseteq [job : Job, n : Nat, worker : Worker, pc : RunPC]
      /\ faults \in Nat /\ status \in [Job -> Status]
  BY DEF ExecInv, TypeOK, WorkerTypeOK, StoreTypeOK
<1>1. /\ r.pc = "deadletter" /\ runs' = (runs \ {r}) \union {new}
      /\ UNCHANGED <<loop, attempts, dlq>>
      /\ \/ status' = [status EXCEPT ![r.job] = "deadletter"] /\ UNCHANGED faults
         \/ UNCHANGED status /\ faults' = faults + 1
  BY DEF MarkDeadLetter, RunGoto, Sql, Fault, SetStatus, taskVars, redisVars
<1>2. new.job = r.job /\ new.pc = "closefailed"
  BY <1>0
<1>. HIDE DEF new
<1>3. \A s \in runs' : Active(s) => s \in runs
  BY <1>1, <1>2 DEF Active, ActivePC
<1>4. \A u \in Worker, j \in Job : Owns(u, j)' <=> Owns(u, j)
  BY <1>1 DEF Owns
<1>5. \A s \in runs' : Active(s) /\ s.pc # "deadletter" => dlq'[s.job] = 0
  BY <1>1, <1>3 DEF DlqInv
<1>6. \A u \in Worker, j \in Job : Owns(u, j)' => dlq'[j] = 0
  BY <1>1, <1>4 DEF DlqInv
<1>7. faults' = 0 => Agree'
  <2>. SUFFICES ASSUME faults' = 0 PROVE Agree'
    OBVIOUS
  <2>1. /\ Agree /\ status' = [status EXCEPT ![r.job] = "deadletter"]
        /\ status'[r.job] = "deadletter" /\ dlq[r.job] = 1
        /\ \A j \in Job : j # r.job => status'[j] = status[j]
    BY <1>0, <1>1 DEF DlqInv, Agree
  <2>2. \A j \in Job : status'[j] = "deadletter" => dlq'[j] = 1
    BY <1>1, <2>1 DEF Agree
  <2>3. \A j \in Job : dlq'[j] # 0 =>
          status'[j] = "deadletter" \/ \E s \in runs' : s.pc = "deadletter" /\ s.job = j
    <3>. SUFFICES ASSUME NEW j \in Job, dlq[j] # 0, status'[j] # "deadletter"
                  PROVE  \E s \in runs' : s.pc = "deadletter" /\ s.job = j
      BY <1>1
    <3>1. j # r.job /\ Pushed(j)
      BY <2>1 DEF Agree
    <3>. QED
      BY <1>1, <3>1 DEF Pushed
  <2>4. \A s \in runs' : s.pc = "deadletter" => dlq'[s.job] = 1
    BY <1>1, <1>2, <2>1 DEF Agree
  <2>. QED
    BY <1>1, <2>1, <2>2, <2>3, <2>4 DEF Agree, Pushed
<1>. QED
  BY <1>1, <1>5, <1>6, <1>7 DEF DlqInv, Active

\* Every step of a run.
LEMMA RunDlq ==
  ASSUME ExecInv, DlqInv, NEW r \in runs, Run(r)
  PROVE  DlqInv'
<1>0. /\ r \in [job : Job, n : Nat, worker : Worker, pc : RunPC]
      /\ status \in [Job -> Status] /\ RunStep(r)
  BY DEF ExecInv, TypeOK, WorkerTypeOK, StoreTypeOK, Run
<1>1. \A pc : [r EXCEPT !.pc = pc].pc = pc /\ [r EXCEPT !.pc = pc].job = r.job
  BY <1>0
<1>2. Active(r) => status[r.job] # "deadletter"
  BY <1>0 DEF ExecInv, SingleExecution, Executing
<1>3. CASE HandlerSucceeds(r) \/ HandlerFails(r)
  <2>1. PICK pc \in {"succeed", "dlq", "retry"} : RunGoto(r, pc)
    BY <1>3 DEF HandlerSucceeds, HandlerFails
  <2>2. r.pc = "handler" /\ UNCHANGED <<loop, status, attempts, dlq, faults>>
    BY <1>3 DEF HandlerSucceeds, HandlerFails, storeVars, taskVars, redisVars
  <2>. QED
    BY <1>1, <2>1, <2>2, RunMovesDlq DEF RunGoto, Active, ActivePC
<1>4. CASE MarkSucceeded(r) \/ MarkSucceededFails(r) \/ MarkRetry(r)
  <2>1. PICK pc \in {"closeok", "lrem", "closefailed"} : RunGoto(r, pc)
    BY <1>4 DEF MarkSucceeded, MarkSucceededFails, MarkRetry
  <2>2. /\ r.pc \in {"succeed", "retry"} /\ UNCHANGED <<loop, attempts, dlq>>
        /\ faults' \in {faults, faults + 1}
    BY <1>4 DEF MarkSucceeded, MarkSucceededFails, MarkRetry, Sql, Fault, SetStatus,
       RetryTask, taskVars, redisVars
  <2>3. \A j \in Job : status'[j] # status[j] =>
          status[j] # "deadletter" /\ status'[j] # "deadletter"
    BY <1>0, <1>2, <1>4, <2>2 DEF MarkSucceeded, MarkSucceededFails, MarkRetry, Sql, SetStatus,
       RetryTask, taskVars, Active, ActivePC
  <2>. QED
    BY <1>1, <2>1, <2>2, <2>3, RunMovesDlq DEF RunGoto, Active, ActivePC
<1>5. CASE CloseAttempt(r)
  <2>1. /\ r.pc \in {"closeok", "closefailed"} /\ RunGoto(r, "lrem")
        /\ UNCHANGED <<loop, status, attempts, dlq>> /\ faults' \in {faults, faults + 1}
    BY <1>5 DEF CloseAttempt, Sql, Fault, UpdateAttempt, taskVars, redisVars
  <2>. QED
    BY <1>1, <2>1, RunMovesDlq DEF RunGoto, Active, ActivePC
<1>6. CASE Finish(r)
  <2>1. /\ r.pc = "lrem" /\ runs' = runs \ {r}
        /\ UNCHANGED <<loop, status, attempts, dlq>> /\ faults' \in {faults, faults + 1}
    BY <1>6 DEF Finish, Redis, Fault, LRemProcessing, taskVars, redisVars
  <2>. QED
    BY <2>1, RunMovesDlq
<1>7. CASE RunResent(r)
  <2>1. /\ UNCHANGED <<status, attempts, loop, runs>> /\ faults' = faults + 1 /\ faults \in Nat
        /\ UNCHANGED dlq
    BY <1>0, <1>7, RunResentStep
       DEF ExecInv, TypeOK, StoreTypeOK, taskVars, workerVars, LRemProcessing
  <2>. QED
    BY <2>1, DlqKept DEF Owns
<1>. QED
  BY <1>0, <1>3, <1>4, <1>5, <1>6, <1>7, PushesDlq, MarksDlq DEF RunStep

-----------------------------------------------------------------------------
\* The dead-letter list

\* Nothing is in a dead-letter list at first.
LEMMA DlqInit == Init => DlqInv
<1>. SUFFICES ASSUME Init PROVE DlqInv
  OBVIOUS
<1>1. /\ runs = {} /\ \A w \in Worker, j \in Job : ~Owns(w, j)
      /\ \A j \in Job : dlq[j] = 0 /\ status[j] = "absent"
  BY DEF Init, StoreInit, WorkerInit, AtTop, Owns, OwnerPC
<1>. QED
  BY <1>1 DEF DlqInv, Agree

\* Every step keeps what is known of the dead-letter lists.
LEMMA DlqNext == ExecInv /\ DlqInv /\ [Next]_vars => DlqInv'
<1>. SUFFICES ASSUME ExecInv, DlqInv, [Next]_vars PROVE DlqInv'
  OBVIOUS
<1>1. CASE UNCHANGED vars
  <2>1. faults \in Nat /\ UNCHANGED <<workerVars, status, attempts, dlq, faults>>
    BY <1>1 DEF vars, storeVars, taskVars, redisVars, ExecInv, TypeOK, StoreTypeOK
  <2>. QED
    BY <2>1, DlqRowsOnly
<1>2. CASE Next
  BY <1>2, ApiDlq, LoopDlq, RunDlq, PumpDlq, ReaperDlq, CrashDlq, TimeDlq DEF Next
<1>. QED
  BY <1>1, <1>2

\* Whatever crashes, errors, cancellations and duplicate entries there are, a job
\* that is in its dead-letter list has no attempt left and is never queued again;
\* without faults it is there once, and the list says what the row says.
THEOREM DeadLettersAgree == Spec => []DeadLetterAgrees
<1>1. ExecInv /\ DlqInv => DeadLetterAgrees
  <2>. SUFFICES ASSUME ExecInv, DlqInv, NEW j \in Job
                PROVE  /\ dlq[j] > 0 => attempts[j] = MaxAttempts[j]
                                        /\ status[j] \notin {"queued", "retry"}
                       /\ faults = 0 => dlq[j] <= 1
                       /\ faults = 0 /\ j \notin Executing =>
                            (dlq[j] = 1 <=> status[j] = "deadletter")
    BY DEF DeadLetterAgrees
  <2>1. attempts[j] \in Nat /\ MaxAttempts[j] \in Nat /\ dlq[j] \in Nat
    BY AttemptsAssumption DEF ExecInv, TypeOK, StoreTypeOK
  <2>2. dlq[j] # 0 => attempts[j] = MaxAttempts[j] /\ status[j] \notin {"queued", "retry"}
    BY <2>1 DEF ExecInv, DlqInv, AttemptBudget
  <2>3. Pushed(j) => j \in Executing
    BY DEF Pushed, Executing, Active, ActivePC
  <2>. QED
    BY <2>1, <2>2, <2>3 DEF DlqInv, Agree
<1>. QED
  BY <1>1, DlqInit, DlqNext, ExecInvariant, PTL DEF Spec

\* The processes but the runs leave the dead-letter lists alone.
LEMMA OthersNoDlq ==
  ASSUME ExecInv, [Next]_vars, ~\E r \in runs : Run(r)
  PROVE  UNCHANGED dlq
<1>1. ASSUME NEW c \in Client, Api(c) PROVE UNCHANGED dlq
  BY <1>1
     DEF Api, ApiStep, HandlerStep, CreateJob, CreateConflict, CreateFails, PushJob,
         UpdateCancelled, NotCancellable, CancelFails, RemoveQueued, CallAborts,
         SubmitJob, CancelJob, CallResent, Resent, Redis, LPush, LRemAll, storeVars, redisVars
<1>2. ASSUME NEW w \in Worker, Loop(w) PROVE UNCHANGED dlq
  BY <1>2
     DEF Loop, LoopStep, Pop, PollEmpty, PopFails, Claim, NotClaimed, ClaimFails, GiveBack,
         RecordAttempt, Spawn, LoadFails, MarkFailed, Drop, LoopResent, Resent, Redis,
         LPush, BRPopLPush, LRemProcessing, storeVars, redisVars
<1>3. ASSUME NEW w \in Pump, Pumping(w) PROVE UNCHANGED dlq
  BY <1>3
     DEF Pumping, PumpStep, SelectDue, PushRetry, PushResent, Requeue, RequeueNothing,
         RequeueFails, Resent, Redis, LPush, storeVars, redisVars
<1>4. ASSUME NEW w \in Reap, Reaping(w) PROVE UNCHANGED dlq
  BY <1>4
     DEF Reaping, ReaperStep, Sweep, ReadStuck, ReadFinished, ReadOther, ReadFails,
         MoveBack, MoveNothing, MoveFails, PushBack, RemoveItem, ReaperResent, Resent,
         Redis, LPush, LMove, LRemProcessing, storeVars, redisVars
<1>5. ASSUME NEW w \in Worker, WorkerCrash(w) PROVE UNCHANGED dlq
  BY <1>5 DEF WorkerCrash, redisVars
<1>6. ASSUME NEW j \in Job, TimePasses(j) PROVE UNCHANGED dlq
  BY <1>6 DEF TimePasses, BackoffElapses, GrowsStale, redisVars
<1>7. UNCHANGED vars => UNCHANGED dlq
  BY DEF vars, storeVars, redisVars
<1>. QED
  BY <1>1, <1>2, <1>3, <1>4, <1>5, <1>6, <1>7 DEF Next

\* One call, however often the client sends it, puts a job into its dead-letter
\* list: that of the process that executed its last attempt.
THEOREM DeadLetteredOnce == Spec => DeadLetterOnce
<1>1. ExecInv /\ DlqInv /\ [Next]_vars =>
        \A j \in Job : dlq'[j] # dlq[j] =>
          dlq[j] = 0 /\ attempts[j] = MaxAttempts[j] /\ j \in Executing
  <2>. SUFFICES ASSUME ExecInv, DlqInv, [Next]_vars, NEW j \in Job, dlq'[j] # dlq[j]
                PROVE  dlq[j] = 0 /\ attempts[j] = MaxAttempts[j] /\ j \in Executing
    OBVIOUS
  <2>1. PICK r \in runs : RunStep(r)
    BY OthersNoDlq DEF Run
  <2>2. PushDlq(r)
    BY <2>1 DEF RunStep, HandlerSucceeds, HandlerFails, MarkSucceeded, MarkSucceededFails,
       MarkDeadLetter, MarkRetry, CloseAttempt, Finish, RunResent, Resent, Redis,
       LRemProcessing, storeVars, redisVars
  <2>3. /\ r.pc = "dlq" /\ Active(r) /\ r.n = attempts[r.job] /\ r.n >= MaxAttempts[r.job]
        /\ dlq[r.job] = 0 /\ attempts[r.job] <= MaxAttempts[r.job] /\ r.job \in Job
        /\ attempts[r.job] \in Nat /\ MaxAttempts[r.job] \in Nat
    BY <2>2, AttemptsAssumption
       DEF PushDlq, Active, ActivePC, ExecInv, RunBudget, DlqInv, AttemptBudget, TypeOK,
           WorkerTypeOK, StoreTypeOK
  <2>4. j = r.job
    BY <2>2 DEF PushDlq, LPushDlq, ExecInv, TypeOK, StoreTypeOK
  <2>. QED
    BY <2>3, <2>4 DEF Executing
<1>. QED
  BY <1>1, DlqInit, DlqNext, ExecInvariant, PTL DEF Spec, DeadLetterOnce
=============================================================================

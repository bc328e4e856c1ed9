---------------------------- MODULE WorkerProofs ----------------------------
(***************************************************************************)
(* What each SQL statement and each Redis command preserves, and that the  *)
(* steps of a worker's loop and of its runs keep the types of the stores   *)
(* and of the worker.  Scheduler and Shutdown are both built from these    *)
(* steps.                                                                  *)
(***************************************************************************)
EXTENDS WorkerLoop, SeqLemmas

\* StoreTypeOK by the variables a statement or a command may change.
TasksOK == /\ status \in [Job -> Status]
           /\ attempts \in [Job -> Nat]
           /\ due \in [Job -> BOOLEAN]
           /\ stale \in [Job -> BOOLEAN]
RowsOK == rows \subseteq [job : Job, n : Nat, res : {"open", "ok", "failed"}]
RedisOK == /\ queue \in [Priority -> Seq(Job)]
           /\ processing \in Seq(Job)
           /\ dlq \in [Job -> Nat]

\* StoreTypeOK is the conjunction of these parts.
LEMMA StoreParts ==
  /\ StoreTypeOK <=> TasksOK /\ RowsOK /\ RedisOK /\ faults \in Nat
  /\ StoreTypeOK' <=> TasksOK' /\ RowsOK' /\ RedisOK' /\ faults' \in Nat
BY DEF StoreTypeOK, TasksOK, RowsOK, RedisOK

\* The polling order names priorities only, and so does every job.
LEMMA PriorityTypes ==
  /\ \A i \in 1..Len(Priorities) : Priorities[i] \in Priority
  /\ \A j \in Job : JobPriority[j] \in Priority
  /\ Len(Priorities) \in Nat \ {0}
BY PriorityAssumption, ElementOfSeq, EmptySeq

-----------------------------------------------------------------------------
\* SQL statements

\* An UPDATE of the status leaves tasks and task_attempts well typed.
LEMMA SetStatusType ==
  ASSUME TasksOK, RowsOK, NEW j \in Job, NEW s \in Status, SetStatus(j, s)
  PROVE  TasksOK' /\ RowsOK'
BY DEF TasksOK, RowsOK, SetStatus

\* So does claimJob's UPDATE,
LEMMA ClaimTaskType ==
  ASSUME TasksOK, RowsOK, NEW j \in Job, ClaimTask(j)
  PROVE  TasksOK' /\ RowsOK'
BY DEF TasksOK, RowsOK, ClaimTask, Status

\* and markJobRetry's,
LEMMA RetryTaskType ==
  ASSUME TasksOK, RowsOK, NEW j \in Job, RetryTask(j)
  PROVE  TasksOK' /\ RowsOK'
BY DEF TasksOK, RowsOK, RetryTask, Status

\* and the guarded statements of the API server and the pump.
LEMMA GuardedUpdateType ==
  ASSUME TasksOK, RowsOK, NEW j \in Job,
         InsertTask(j) \/ CancelTask(j) \/ RequeueTask(j)
  PROVE  TasksOK' /\ RowsOK'
BY SetStatusType DEF InsertTask, CancelTask, RequeueTask, Status

\* A new audit row belongs to a job and counts its attempts.
LEMMA InsertAttemptType ==
  ASSUME TasksOK, RowsOK, NEW j \in Job, InsertAttempt(j)
  PROVE  TasksOK' /\ RowsOK'
BY DEF TasksOK, RowsOK, InsertAttempt, taskVars

\* Closing audit rows changes their result only.
LEMMA UpdateAttemptType ==
  ASSUME TasksOK, RowsOK, NEW j \in Job, NEW res \in {"ok", "failed"},
         UpdateAttempt(j, res)
  PROVE  TasksOK' /\ RowsOK'
<1>1. TasksOK'
  BY DEF TasksOK, UpdateAttempt, taskVars
<1>2. \A r \in rows : [r EXCEPT !.res = res] \in [job : Job, n : Nat, res : {"open", "ok", "failed"}]
  BY DEF RowsOK
<1>3. RowsOK'
  BY <1>2 DEF RowsOK, UpdateAttempt
<1>. QED
  BY <1>1, <1>3

\* A statement that fails, or none, changes nothing.
LEMMA SqlUnchangedType ==
  ASSUME TasksOK, RowsOK, UNCHANGED <<taskVars, rows>>
  PROVE  TasksOK' /\ RowsOK'
BY DEF TasksOK, RowsOK, taskVars

-----------------------------------------------------------------------------
\* Redis commands

\* LPUSH of a job keeps the lists lists of jobs.
LEMMA LPushType ==
  ASSUME RedisOK, NEW p \in Priority, NEW j \in Job, LPush(p, j)
  PROVE  RedisOK'
<1>1. Cons(j, queue[p]) \in Seq(Job)
  BY ConsType DEF RedisOK
<1>. QED
  BY <1>1 DEF RedisOK, LPush

\* So does the pop, and what it returns is a job.
LEMMA BRPopLPushType ==
  ASSUME RedisOK, NEW p \in Priority, BRPopLPush(p)
  PROVE  RedisOK' /\ Last(queue[p]) \in Job
<1>1. queue[p] \in Seq(Job) /\ queue[p] # << >>
  BY DEF RedisOK, BRPopLPush
<1>2. Last(queue[p]) \in Job /\ Front(queue[p]) \in Seq(Job)
  BY <1>1, FrontLastType
<1>3. Cons(Last(queue[p]), processing) \in Seq(Job)
  BY <1>2, ConsType DEF RedisOK
<1>. QED
  BY <1>2, <1>3 DEF RedisOK, BRPopLPush

\* LREM with count 0,
LEMMA LRemAllType ==
  ASSUME RedisOK, NEW p \in Priority, NEW j \in Job, LRemAll(p, j)
  PROVE  RedisOK'
<1>1. Without(queue[p], j) \in Seq(Job)
  BY WithoutType DEF RedisOK
<1>. QED
  BY <1>1 DEF RedisOK, LRemAll

\* with count 1,
LEMMA LRemProcessingType ==
  ASSUME RedisOK, NEW j \in Job, LRemProcessing(j)
  PROVE  RedisOK'
<1>1. RemoveFirst(processing, j) \in Seq(Job)
  BY RemoveFirstType DEF RedisOK
<1>. QED
  BY <1>1 DEF RedisOK, LRemProcessing

\* and LMOVE only take out or move what is there.
LEMMA LMoveType ==
  ASSUME RedisOK, NEW p \in Priority, LMove(p)
  PROVE  RedisOK'
<1>1. processing \in Seq(Job) /\ processing # << >>
  BY DEF RedisOK, LMove
<1>2. Last(processing) \in Job /\ Front(processing) \in Seq(Job)
  BY <1>1, FrontLastType
<1>3. Cons(Last(processing), queue[p]) \in Seq(Job)
  BY <1>2, ConsType DEF RedisOK
<1>. QED
  BY <1>2, <1>3 DEF RedisOK, LMove

\* The dead-letter lists count entries.
LEMMA LPushDlqType ==
  ASSUME RedisOK, NEW j \in Job, NEW n \in Nat, LPushDlq(j, n)
  PROVE  RedisOK'
BY DEF RedisOK, LPushDlq

\* A command that fails, or none, changes nothing.
LEMMA RedisUnchangedType ==
  ASSUME RedisOK, UNCHANGED redisVars
  PROVE  RedisOK'
BY DEF RedisOK, redisVars

\* Time and faults leave the counter a natural number.
LEMMA FaultType ==
  ASSUME faults \in Nat, NEW kind, Fault(kind) \/ UNCHANGED faults
  PROVE  faults' \in Nat
BY DEF Fault

\* A command that is applied once more than it was called changes the lists and
\* counts a fault.
LEMMA LoopResentStep ==
  ASSUME StoreTypeOK, WorkerTypeOK, NEW w \in Worker, LoopResent(w)
  PROVE  RedisOK' /\ faults' = faults + 1 /\ UNCHANGED <<taskVars, rows, workerVars>>
<1>1. /\ loop[w].pc # "poll" => loop[w].job \in Job
      /\ Priorities[loop[w].at] \in Priority /\ RedisOK
  BY PriorityTypes, StoreParts DEF WorkerTypeOK
<1>. QED
  BY <1>1, BRPopLPushType, LPushType, LRemProcessingType DEF LoopResent, Resent, Fault

\* So for the LREM of a run.
LEMMA RunResentStep ==
  ASSUME StoreTypeOK, WorkerTypeOK, NEW r \in runs, RunResent(r)
  PROVE  /\ RedisOK' /\ faults' = faults + 1 /\ UNCHANGED <<taskVars, rows, workerVars>>
         /\ LRemProcessing(r.job) /\ r.pc = "lrem"
<1>1. r.job \in Job /\ RedisOK
  BY StoreParts DEF WorkerTypeOK
<1>. QED
  BY <1>1, LRemProcessingType DEF RunResent, Resent, Fault

-----------------------------------------------------------------------------
\* The worker

\* A step of a worker loop keeps every type: past the pop the loop has a job.
LEMMA LoopStepTypes ==
  ASSUME StoreTypeOK, WorkerTypeOK, NEW w \in Worker, LoopStep(w)
  PROVE  StoreTypeOK' /\ WorkerTypeOK'
<1>. USE DEF storeVars
<1>0. TasksOK /\ RowsOK /\ RedisOK /\ faults \in Nat /\ WorkerTypeOK
  BY StoreParts
<1>2. SUFFICES TasksOK' /\ RowsOK' /\ RedisOK' /\ faults' \in Nat /\ WorkerTypeOK'
  BY StoreParts
<1>3. /\ loop[w].pc # "poll" => loop[w].job \in Job
      /\ loop[w].at \in 1..Len(Priorities) /\ Priorities[loop[w].at] \in Priority
      /\ runs \subseteq [job : Job, n : Nat, worker : Worker, pc : RunPC]
  BY <1>0, PriorityTypes DEF WorkerTypeOK
<1>g. ASSUME NEW pc \in LoopPC, LoopGoto(w, pc), loop[w].pc # "poll", UNCHANGED runs
      PROVE WorkerTypeOK'
  BY <1>0, <1>g DEF WorkerTypeOK, LoopGoto, LoopPC
<1>t. ASSUME LoopTop(w), runs' \subseteq [job : Job, n : Nat, worker : Worker, pc : RunPC]
      PROVE WorkerTypeOK'
  BY <1>0, <1>t, PriorityTypes DEF WorkerTypeOK, LoopTop, AtTop, LoopPC
<1>n. ASSUME NextQueue(w), loop[w].pc = "poll", UNCHANGED runs
      PROVE WorkerTypeOK'
  BY <1>0, <1>n, PriorityTypes DEF WorkerTypeOK, NextQueue, LoopPC
<1>4. CASE Pop(w)
  <2>1. RedisOK' /\ Last(queue[Priorities[loop[w].at]]) \in Job
    BY <1>0, <1>3, <1>4, BRPopLPushType DEF Pop
  <2>2. WorkerTypeOK'
    BY <1>0, <1>4, <2>1 DEF Pop, WorkerTypeOK, LoopPC
  <2>. QED
    BY <1>0, <1>4, <2>1, <2>2, SqlUnchangedType DEF Pop
<1>5. CASE PollEmpty(w)
  BY <1>0, <1>5, <1>n, SqlUnchangedType, RedisUnchangedType DEF PollEmpty
<1>6. CASE PopFails(w)
  BY <1>0, <1>3, <1>6, <1>n, SqlUnchangedType, RedisUnchangedType, BRPopLPushType, FaultType
     DEF PopFails
<1>7. CASE Claim(w)
  BY <1>0, <1>3, <1>7, <1>g, ClaimTaskType, RedisUnchangedType DEF Claim, LoopPC
<1>8. CASE NotClaimed(w)
  BY <1>0, <1>3, <1>8, <1>g, SqlUnchangedType, RedisUnchangedType DEF NotClaimed, LoopPC
<1>9. CASE ClaimFails(w)
  BY <1>0, <1>3, <1>9, <1>g, ClaimTaskType, SqlUnchangedType, RedisUnchangedType, FaultType
     DEF ClaimFails, LoopPC
<1>10. CASE GiveBack(w)
  BY <1>0, <1>3, <1>10, <1>g, LPushType, SqlUnchangedType, RedisUnchangedType, FaultType
     DEF GiveBack, LoopPC, Redis
<1>11. CASE RecordAttempt(w)
  BY <1>0, <1>3, <1>11, <1>g, InsertAttemptType, SqlUnchangedType, RedisUnchangedType, FaultType
     DEF RecordAttempt, LoopPC, Sql
<1>12. CASE Spawn(w)
  <2>1. [job |-> loop[w].job, n |-> attempts[loop[w].job], worker |-> w, pc |-> "handler"]
        \in [job : Job, n : Nat, worker : Worker, pc : RunPC]
    BY <1>0, <1>3, <1>12 DEF Spawn, TasksOK, RunPC
  <2>. QED
    BY <1>0, <1>3, <1>12, <1>t, <2>1, SqlUnchangedType, RedisUnchangedType DEF Spawn
<1>13. CASE LoadFails(w)
  BY <1>0, <1>3, <1>13, <1>g, SqlUnchangedType, RedisUnchangedType, FaultType
     DEF LoadFails, LoopPC
<1>14. CASE MarkFailed(w)
  BY <1>0, <1>3, <1>14, <1>g, SetStatusType, SqlUnchangedType, RedisUnchangedType, FaultType
     DEF MarkFailed, LoopPC, Sql, Status
<1>15. CASE Drop(w)
  BY <1>0, <1>3, <1>15, <1>t, LRemProcessingType, SqlUnchangedType, RedisUnchangedType, FaultType
     DEF Drop, Redis
<1>16. CASE LoopResent(w)
  BY <1>0, <1>16, LoopResentStep, SqlUnchangedType
     DEF WorkerTypeOK, workerVars
<1>. QED
  BY <1>4, <1>5, <1>6, <1>7, <1>8, <1>9, <1>10, <1>11, <1>12, <1>13, <1>14, <1>15, <1>16
     DEF LoopStep

\* A step of a run keeps every type.
LEMMA RunStepTypes ==
  ASSUME StoreTypeOK, WorkerTypeOK, NEW r \in runs, RunStep(r)
  PROVE  StoreTypeOK' /\ WorkerTypeOK'
<1>. USE DEF storeVars
<1>0. TasksOK /\ RowsOK /\ RedisOK /\ faults \in Nat /\ WorkerTypeOK
  BY StoreParts
<1>2. SUFFICES TasksOK' /\ RowsOK' /\ RedisOK' /\ faults' \in Nat /\ WorkerTypeOK'
  BY StoreParts
<1>3. r \in [job : Job, n : Nat, worker : Worker, pc : RunPC]
  BY <1>0 DEF WorkerTypeOK
<1>g. ASSUME NEW pc \in RunPC, RunGoto(r, pc), UNCHANGED loop
      PROVE WorkerTypeOK'
  <2>1. [r EXCEPT !.pc = pc] \in [job : Job, n : Nat, worker : Worker, pc : RunPC]
    BY <1>3
  <2>. QED
    BY <1>0, <1>g, <2>1 DEF WorkerTypeOK, RunGoto
<1>4. CASE HandlerSucceeds(r)
  BY <1>0, <1>4, <1>g, SqlUnchangedType, RedisUnchangedType DEF HandlerSucceeds, RunPC
<1>5. CASE HandlerFails(r)
  BY <1>0, <1>5, <1>g, SqlUnchangedType, RedisUnchangedType DEF HandlerFails, RunPC
<1>6. CASE MarkSucceeded(r)
  BY <1>0, <1>3, <1>6, <1>g, SetStatusType, RedisUnchangedType DEF MarkSucceeded, RunPC, Status
<1>7. CASE MarkSucceededFails(r)
  BY <1>0, <1>3, <1>7, <1>g, SetStatusType, SqlUnchangedType, RedisUnchangedType, FaultType
     DEF MarkSucceededFails, RunPC, Status
<1>8. CASE PushDlq(r)
  <2>1. PICK n \in Nat : LPushDlq(r.job, n)
    BY <1>8 DEF PushDlq, Tries
  <2>. QED
    BY <1>0, <1>3, <1>8, <1>g, <2>1, LPushDlqType, SqlUnchangedType, FaultType
       DEF PushDlq, RunPC
<1>9. CASE MarkDeadLetter(r)
  BY <1>0, <1>3, <1>9, <1>g, SetStatusType, SqlUnchangedType, RedisUnchangedType, FaultType
     DEF MarkDeadLetter, RunPC, Status, Sql
<1>10. CASE MarkRetry(r)
  BY <1>0, <1>3, <1>10, <1>g, RetryTaskType, SqlUnchangedType, RedisUnchangedType, FaultType
     DEF MarkRetry, RunPC, Sql
<1>11. CASE CloseAttempt(r)
  BY <1>0, <1>3, <1>11, <1>g, UpdateAttemptType, SqlUnchangedType, RedisUnchangedType, FaultType
     DEF CloseAttempt, RunPC, Sql
<1>12. CASE Finish(r)
  <2>1. WorkerTypeOK'
    BY <1>0, <1>12 DEF Finish, WorkerTypeOK
  <2>. QED
    BY <1>0, <1>3, <1>12, <2>1, LRemProcessingType, SqlUnchangedType, RedisUnchangedType, FaultType
       DEF Finish, Redis
<1>13. CASE RunResent(r)
  BY <1>0, <1>13, RunResentStep, SqlUnchangedType DEF WorkerTypeOK, workerVars
<1>. QED
  BY <1>4, <1>5, <1>6, <1>7, <1>8, <1>9, <1>10, <1>11, <1>12, <1>13 DEF RunStep

-----------------------------------------------------------------------------
\* One execution at a time, within the budget

\* What an active run knows about its job, and a job that was never stored.
RunBudget ==
    /\ \A j \in Job : status[j] = "absent" => attempts[j] = 0
    /\ \A r \in runs : Active(r) =>
         /\ r.n = attempts[r.job]
         /\ r.pc \in {"dlq", "deadletter"} => r.n >= MaxAttempts[r.job]
         /\ r.pc = "retry" => r.n < MaxAttempts[r.job]

TypesOK == StoreTypeOK /\ WorkerTypeOK
WorkInv == TypesOK /\ SingleExecution /\ AttemptBudget /\ RunBudget

\* If no process gains a job and no active run appears or changes, jobs are
\* executed at most once at a time as before; what is left to show is that
\* the step keeps the rows of the jobs still being executed.
LEMMA NothingGained ==
  ASSUME SingleExecution,
         \A u \in Worker, j \in Job : Owns(u, j)' => Owns(u, j),
         \A r \in runs' : Active(r) => r \in runs,
         TypesOK', 
         \A j \in Job : j \in Executing' => status'[j] \in {"running", "cancelled"}
  PROVE  SingleExecution'
<1>1. \A r, s \in runs' : Active(r) /\ Active(s) /\ r.job = s.job => r = s
  BY DEF SingleExecution
<1>2. \A w, u \in Worker, j \in Job : Owns(w, j)' /\ Owns(u, j)' => w = u
  BY DEF SingleExecution
<1>3. \A w \in Worker : \A r \in runs' : Active(r) => ~Owns(w, r.job)'
  BY DEF SingleExecution, TypesOK, WorkerTypeOK
<1>4. \A j \in Executing' : status'[j] \in {"running", "cancelled"}
  BY DEF Executing
<1>. QED
  BY <1>1, <1>2, <1>3, <1>4 DEF SingleExecution, Active

\* A process that neither runs nor claims jobs: only the rows matter.
LEMMA RowsOnly ==
  ASSUME WorkInv, TypesOK', UNCHANGED workerVars, UNCHANGED attempts,
         \A j \in Job : status'[j] # status[j] =>
            \/ status[j] \in {"absent", "retry"} /\ status'[j] = "queued"
            \/ status[j] \in {"queued", "running"} /\ status'[j] = "cancelled"
  PROVE  WorkInv'
<1>1. /\ \A u \in Worker, j \in Job : Owns(u, j)' <=> Owns(u, j)
      /\ Executing' = Executing
  BY DEF workerVars, Owns, Executing, Active
<1>2. SingleExecution'
  <2>1. \A j \in Job : j \in Executing' => status'[j] \in {"running", "cancelled"}
    BY <1>1 DEF WorkInv, SingleExecution
  <2>. QED
    BY <1>1, <2>1, NothingGained DEF WorkInv, workerVars
<1>3. AttemptBudget'
  <2>. SUFFICES ASSUME NEW j \in Job
                PROVE  /\ attempts'[j] <= MaxAttempts[j]
                       /\ status'[j] \in {"queued", "retry"} => attempts'[j] < MaxAttempts[j]
                       /\ status'[j] = "deadletter" => attempts'[j] = MaxAttempts[j]
    BY DEF AttemptBudget
  <2>1. MaxAttempts[j] > 0 /\ attempts[j] \in Nat
    BY AttemptsAssumption DEF WorkInv, TypesOK, StoreTypeOK
  <2>. QED
    BY <2>1 DEF WorkInv, AttemptBudget, RunBudget
<1>4. RunBudget'
  BY DEF WorkInv, RunBudget, Active, workerVars
<1>. QED
  BY <1>2, <1>3, <1>4 DEF WorkInv

\* A worker loop that only moves on: no row and no run changes.
LEMMA LoopMovesOn ==
  ASSUME WorkInv, TypesOK', UNCHANGED <<status, attempts, runs>>,
         \A u \in Worker, j \in Job : Owns(u, j)' => Owns(u, j)
  PROVE  WorkInv'
<1>1. SingleExecution'
  <2>1. \A j \in Job : j \in Executing' => status'[j] \in {"running", "cancelled"}
    BY DEF WorkInv, SingleExecution, Executing, Active
  <2>. QED
    BY <2>1, NothingGained DEF WorkInv
<1>2. AttemptBudget' /\ RunBudget'
  BY DEF WorkInv, AttemptBudget, RunBudget, Active
<1>. QED
  BY <1>1, <1>2 DEF WorkInv

\* The guarded UPDATEs of the API server and the pump: one row, and never one
\* that is being executed, except to 'cancelled'.
LEMMA GuardedUpdate ==
  ASSUME TypesOK, NEW j \in Job, InsertTask(j) \/ CancelTask(j) \/ RequeueTask(j)
  PROVE  /\ UNCHANGED attempts
         /\ \A k \in Job : status'[k] # status[k] =>
              \/ status[k] \in {"absent", "retry"} /\ status'[k] = "queued"
              \/ status[k] \in {"queued", "running"} /\ status'[k] = "cancelled"
BY DEF TypesOK, StoreTypeOK, InsertTask, CancelTask, RequeueTask, SetStatus

-----------------------------------------------------------------------------
\* The loop executes a job only when it has claimed it

\* claimJob: the row was 'queued', so nobody executes the job and an attempt
\* is left; claimed is what the worker learns (ClaimFails: it does not).
LEMMA ClaimExec ==
  ASSUME WorkInv, TypesOK', NEW w \in Worker, loop[w].pc = "claim",
         ClaimTask(loop[w].job), UNCHANGED runs,
         LoopGoto(w, "insert") \/ LoopGoto(w, "giveback")
  PROVE  WorkInv'
<1>. DEFINE j == loop[w].job
<1>1. /\ TypesOK /\ SingleExecution /\ AttemptBudget /\ RunBudget
      /\ j \in Job /\ status[j] = "queued"
      /\ status' = [status EXCEPT ![j] = "running"]
      /\ attempts' = [attempts EXCEPT ![j] = @ + 1]
      /\ loop \in [Worker -> [pc : LoopPC, at : 1..Len(Priorities), job : Job \union {NoJob}]]
      /\ status \in [Job -> Status] /\ attempts \in [Job -> Nat]
      /\ runs \subseteq [job : Job, n : Nat, worker : Worker, pc : RunPC]
  BY DEF WorkInv, TypesOK, WorkerTypeOK, ClaimTask, StoreTypeOK
<1>. HIDE DEF j
<1>2. /\ \A u \in Worker : ~Owns(u, j)
      /\ \A r \in runs : Active(r) => r.job # j
  BY <1>1 DEF SingleExecution, Executing
<1>3. \A u \in Worker, k \in Job : Owns(u, k)' => Owns(u, k) \/ (u = w /\ k = j)
  BY <1>1 DEF Owns, LoopGoto, OwnerPC, j
<1>4. SingleExecution'
  <2>1. \A r, s \in runs' : Active(r) /\ Active(s) /\ r.job = s.job => r = s
    BY <1>1 DEF SingleExecution
  <2>2. \A u, v \in Worker, k \in Job : Owns(u, k)' /\ Owns(v, k)' => u = v
    BY <1>1, <1>2, <1>3 DEF SingleExecution
  <2>3. \A u \in Worker : \A r \in runs' : Active(r) => ~Owns(u, r.job)'
    BY <1>1, <1>2, <1>3 DEF SingleExecution
  <2>4. \A k \in Executing' : k \in Executing \/ k = j
    BY <1>3 DEF Executing, Active
  <2>5. \A k \in Executing' : status'[k] \in {"running", "cancelled"}
    BY <1>1, <2>4 DEF SingleExecution, Executing
  <2>. QED
    BY <2>1, <2>2, <2>3, <2>5 DEF SingleExecution, Active
<1>5. AttemptBudget'
  <2>1. \A k \in Job : attempts[k] \in Nat /\ MaxAttempts[k] \in Nat
    BY <1>1, AttemptsAssumption
  <2>2. attempts'[j] <= MaxAttempts[j] /\ status'[j] = "running"
    BY <1>1, <2>1 DEF AttemptBudget
  <2>3. \A k \in Job : k # j => attempts'[k] = attempts[k] /\ status'[k] = status[k]
    BY <1>1
  <2>. QED
    BY <1>1, <2>2, <2>3 DEF AttemptBudget
<1>6. RunBudget'
  BY <1>1, <1>2 DEF RunBudget, Active
<1>. QED
  BY <1>4, <1>5, <1>6 DEF WorkInv

\* Every step of the loop keeps the invariant.
LEMMA LoopStepExec ==
  ASSUME WorkInv, NEW w \in Worker, LoopStep(w)
  PROVE  WorkInv'
<1>. USE DEF storeVars, taskVars
<1>1. /\ TypesOK /\ SingleExecution /\ AttemptBudget /\ RunBudget /\ TypesOK'
      /\ loop \in [Worker -> [pc : LoopPC, at : 1..Len(Priorities), job : Job \union {NoJob}]]
      /\ status \in [Job -> Status] /\ attempts \in [Job -> Nat]
      /\ loop[w].pc # "poll" => loop[w].job \in Job
      /\ runs \subseteq [job : Job, n : Nat, worker : Worker, pc : RunPC]
  BY LoopStepTypes DEF WorkInv, TypesOK, WorkerTypeOK, StoreTypeOK
<1>2. CASE Pop(w) \/ PollEmpty(w) \/ PopFails(w)
  <2>1. /\ loop'[w].pc \in {"poll", "claim"}
        /\ \A u \in Worker \ {w} : loop'[u] = loop[u]
    BY <1>1, <1>2 DEF Pop, PollEmpty, PopFails, NextQueue
  <2>2. \A u \in Worker, j \in Job : Owns(u, j)' => Owns(u, j)
    BY <2>1 DEF Owns, OwnerPC
  <2>3. UNCHANGED <<status, attempts, runs>>
    BY <1>2 DEF Pop, PollEmpty, PopFails
  <2>. QED
    BY <1>1, <2>2, <2>3, LoopMovesOn
<1>3. CASE Claim(w)
  BY <1>1, <1>3, ClaimExec DEF Claim
<1>4. CASE NotClaimed(w) \/ GiveBack(w) \/ RecordAttempt(w) \/ LoadFails(w) \/ Drop(w)
  <2>1. \A u \in Worker, j \in Job : Owns(u, j)' => Owns(u, j)
    BY <1>1, <1>4 DEF NotClaimed, GiveBack, RecordAttempt, LoadFails, Drop,
                      LoopGoto, LoopTop, AtTop, Owns, OwnerPC
  <2>2. UNCHANGED <<status, attempts, runs>>
    BY <1>4 DEF NotClaimed, GiveBack, RecordAttempt, LoadFails, Drop, Sql, InsertAttempt
  <2>. QED
    BY <1>1, <2>1, <2>2, LoopMovesOn
<1>5. CASE ClaimFails(w)
  <2>1. CASE ClaimTask(loop[w].job)
    BY <1>1, <1>5, <2>1, ClaimExec DEF ClaimFails
  <2>2. CASE UNCHANGED <<taskVars, rows>>
    <3>1. \A u \in Worker, j \in Job : Owns(u, j)' => Owns(u, j)
      BY <1>1, <1>5 DEF ClaimFails, LoopGoto, Owns, OwnerPC
    <3>. QED
      BY <1>1, <1>5, <2>2, <3>1, LoopMovesOn DEF ClaimFails
  <2>. QED
    BY <1>5, <2>1, <2>2 DEF ClaimFails
<1>6. CASE Spawn(w)
  <2>. DEFINE new == [job |-> loop[w].job, n |-> attempts[loop[w].job],
                      worker |-> w, pc |-> "handler"]
  <2>1. /\ Owns(w, new.job) /\ new.job \in Job
        /\ runs' = runs \union {new}
        /\ new.n = attempts[new.job] /\ new.pc = "handler"
        /\ UNCHANGED <<status, attempts>>
    BY <1>1, <1>6 DEF Spawn, Owns, OwnerPC
  <2>2. \A u \in Worker, j \in Job : Owns(u, j)' => Owns(u, j) /\ u # w
    BY <1>1, <1>6 DEF Spawn, LoopTop, AtTop, Owns, OwnerPC
  <2>. HIDE DEF new
  <2>3. \A r, s \in runs' : Active(r) /\ Active(s) /\ r.job = s.job => r = s
    BY <1>1, <2>1 DEF SingleExecution
  <2>4. \A u, v \in Worker, j \in Job : Owns(u, j)' /\ Owns(v, j)' => u = v
    BY <1>1, <2>2 DEF SingleExecution
  <2>5. \A u \in Worker : \A r \in runs' : Active(r) => ~Owns(u, r.job)'
    BY <1>1, <2>1, <2>2 DEF SingleExecution
  <2>6. \A j \in Executing' : status'[j] \in {"running", "cancelled"}
    BY <1>1, <2>1, <2>2 DEF SingleExecution, Executing, Active
  <2>7. SingleExecution'
    BY <2>3, <2>4, <2>5, <2>6 DEF SingleExecution, Active
  <2>8. AttemptBudget'
    BY <1>1, <2>1 DEF AttemptBudget
  <2>9. RunBudget'
    BY <1>1, <2>1 DEF RunBudget, Active
  <2>. QED
    BY <1>1, <2>7, <2>8, <2>9 DEF WorkInv
<1>7. CASE MarkFailed(w)
  <2>. DEFINE j == loop[w].job
  <2>1. j \in Job /\ Owns(w, j) /\ UNCHANGED <<attempts, runs>>
    BY <1>1, <1>7 DEF MarkFailed, Sql, SetStatus, Owns, OwnerPC
  <2>2. \A k \in Job : status'[k] # status[k] => k = j /\ status'[k] = "failed"
    BY <1>1, <1>7 DEF MarkFailed, Sql, SetStatus
  <2>3. \A u \in Worker, k \in Job : Owns(u, k)' => Owns(u, k) /\ u # w
    BY <1>1, <1>7 DEF MarkFailed, LoopGoto, Owns, OwnerPC
  <2>. HIDE DEF j
  <2>4. \A k \in Job : k \in Executing' => k \in Executing /\ k # j
    BY <1>1, <2>1, <2>3 DEF SingleExecution, Executing, Active
  <2>5. SingleExecution'
    BY <1>1, <2>1, <2>2, <2>3, <2>4, NothingGained DEF SingleExecution
  <2>6. AttemptBudget'
    BY <1>1, <2>1, <2>2 DEF AttemptBudget
  <2>7. RunBudget'
    BY <1>1, <2>1, <2>2 DEF RunBudget, Active
  <2>. QED
    BY <1>1, <2>5, <2>6, <2>7 DEF WorkInv
<1>8. CASE LoopResent(w)
  <2>1. UNCHANGED <<status, attempts, loop, runs>>
    BY <1>1, <1>8, LoopResentStep DEF TypesOK, workerVars
  <2>. QED
    BY <1>1, <2>1, LoopMovesOn DEF Owns
<1>. QED
  BY <1>2, <1>3, <1>4, <1>5, <1>6, <1>7, <1>8 DEF LoopStep

-----------------------------------------------------------------------------
\* A run reports once

\* A run that goes on executing its job, with the budget comparison decided.
LEMMA RunGoesOn ==
  ASSUME WorkInv, TypesOK', NEW r \in runs, Active(r),
         NEW pc \in ActivePC, RunGoto(r, pc), UNCHANGED <<status, attempts, loop>>,
         pc \in {"dlq", "deadletter"} => r.n >= MaxAttempts[r.job],
         pc = "retry" => r.n < MaxAttempts[r.job]
  PROVE  WorkInv'
<1>. DEFINE next == [r EXCEPT !.pc = pc]
<1>1. /\ TypesOK /\ SingleExecution /\ AttemptBudget /\ RunBudget
      /\ r \in [job : Job, n : Nat, worker : Worker, pc : RunPC]
      /\ runs' = (runs \ {r}) \union {next}
  BY DEF WorkInv, TypesOK, WorkerTypeOK, RunGoto
<1>2. next.job = r.job /\ next.n = r.n /\ next.pc = pc
  BY <1>1
<1>. HIDE DEF next
<1>3. \A u \in Worker, j \in Job : Owns(u, j)' <=> Owns(u, j)
  BY DEF Owns
<1>4. SingleExecution'
  <2>1. \A q, s \in runs' : Active(q) /\ Active(s) /\ q.job = s.job => q = s
    BY <1>1, <1>2 DEF SingleExecution
  <2>2. \A u, v \in Worker, j \in Job : Owns(u, j)' /\ Owns(v, j)' => u = v
    BY <1>1, <1>3 DEF SingleExecution
  <2>3. \A u \in Worker : \A s \in runs' : Active(s) => ~Owns(u, s.job)'
    BY <1>1, <1>2, <1>3 DEF SingleExecution, Owns
  <2>4. \A j \in Executing' : status'[j] \in {"running", "cancelled"}
    BY <1>1, <1>2, <1>3 DEF SingleExecution, Executing, Active
  <2>. QED
    BY <2>1, <2>2, <2>3, <2>4 DEF SingleExecution, Active
<1>5. AttemptBudget'
  BY <1>1 DEF AttemptBudget
<1>6. RunBudget'
  BY <1>1, <1>2 DEF RunBudget, Active
<1>. QED
  BY <1>4, <1>5, <1>6 DEF WorkInv

\* A run that reports an outcome, or ends without one: it is no longer active,
\* and nobody else executes its job.
LEMMA RunReports ==
  ASSUME WorkInv, TypesOK', NEW r \in runs, Active(r),
         NEW pc \in RunPC \ ActivePC, RunGoto(r, pc), UNCHANGED <<attempts, loop>>,
         \A k \in Job : status'[k] # status[k] =>
           /\ k = r.job
           /\ \/ status'[k] = "succeeded"
              \/ status'[k] = "deadletter" /\ r.pc = "deadletter"
              \/ status'[k] = "retry" /\ r.pc = "retry"
  PROVE  WorkInv'
<1>1. /\ TypesOK /\ SingleExecution /\ AttemptBudget /\ RunBudget
      /\ r \in [job : Job, n : Nat, worker : Worker, pc : RunPC]
      /\ [r EXCEPT !.pc = pc].pc = pc
      /\ runs' = (runs \ {r}) \union {[r EXCEPT !.pc = pc]}
      /\ attempts \in [Job -> Nat]
  BY DEF WorkInv, TypesOK, WorkerTypeOK, RunGoto, StoreTypeOK
<1>2. \A s \in runs' : Active(s) => s \in runs /\ s # r
  BY <1>1 DEF Active
<1>3. \A u \in Worker, j \in Job : Owns(u, j)' <=> Owns(u, j)
  BY DEF Owns
<1>4. \A k \in Job : k \in Executing' => k \in Executing /\ k # r.job
  BY <1>1, <1>2, <1>3 DEF SingleExecution, Executing, Active
<1>5. SingleExecution'
  BY <1>1, <1>2, <1>3, <1>4, NothingGained DEF SingleExecution
<1>6. AttemptBudget'
  <2>1. \A k \in Job : MaxAttempts[k] \in Nat
    BY AttemptsAssumption
  <2>. QED
    BY <1>1, <2>1 DEF AttemptBudget, RunBudget
<1>7. RunBudget'
  BY <1>1, <1>2 DEF RunBudget, Active
<1>. QED
  BY <1>1, <1>5, <1>6, <1>7 DEF WorkInv

\* Every step of a run keeps the invariant.
LEMMA RunStepExec ==
  ASSUME WorkInv, NEW r \in runs, RunStep(r)
  PROVE  WorkInv'
<1>. USE DEF storeVars, taskVars
<1>1. /\ TypesOK /\ SingleExecution /\ AttemptBudget /\ RunBudget /\ TypesOK'
      /\ r \in [job : Job, n : Nat, worker : Worker, pc : RunPC]
      /\ status \in [Job -> Status] /\ attempts \in [Job -> Nat]
      /\ MaxAttempts[r.job] \in Nat
  BY RunStepTypes, AttemptsAssumption DEF WorkInv, TypesOK, WorkerTypeOK, StoreTypeOK
<1>2. CASE HandlerSucceeds(r)
  BY <1>1, <1>2, RunGoesOn DEF HandlerSucceeds, Active, ActivePC
<1>3. CASE HandlerFails(r)
  BY <1>1, <1>3, RunGoesOn DEF HandlerFails, Active, ActivePC
<1>4. CASE PushDlq(r)
  BY <1>1, <1>4, RunGoesOn DEF PushDlq, Active, ActivePC, RunBudget
<1>5. CASE MarkSucceeded(r) \/ MarkSucceededFails(r)
  BY <1>1, <1>5, RunReports DEF MarkSucceeded, MarkSucceededFails, SetStatus,
     Active, ActivePC, RunPC
<1>6. CASE MarkDeadLetter(r)
  BY <1>1, <1>6, RunReports DEF MarkDeadLetter, Sql, SetStatus, Active, ActivePC, RunPC
<1>7. CASE MarkRetry(r)
  BY <1>1, <1>7, RunReports DEF MarkRetry, Sql, RetryTask, Active, ActivePC, RunPC
<1>8. CASE CloseAttempt(r) \/ Finish(r)
  <2>1. UNCHANGED <<status, attempts, loop>>
    BY <1>8 DEF CloseAttempt, Finish, Sql, UpdateAttempt
  <2>2. \A s \in runs' : Active(s) => s \in runs
    BY <1>1, <1>8 DEF CloseAttempt, Finish, RunGoto, Active, ActivePC
  <2>3. \A u \in Worker, j \in Job : Owns(u, j)' <=> Owns(u, j)
    BY <2>1 DEF Owns
  <2>4. \A j \in Job : j \in Executing' => j \in Executing
    BY <2>2, <2>3 DEF Executing, Active
  <2>5. SingleExecution'
    BY <1>1, <2>1, <2>2, <2>3, <2>4, NothingGained DEF SingleExecution
  <2>6. AttemptBudget' /\ RunBudget'
    BY <1>1, <2>1, <2>2 DEF AttemptBudget, RunBudget, Active
  <2>. QED
    BY <1>1, <2>5, <2>6 DEF WorkInv
<1>9. CASE RunResent(r)
  <2>1. UNCHANGED <<status, attempts, loop, runs>>
    BY <1>1, <1>9, RunResentStep DEF TypesOK, workerVars
  <2>. QED
    BY <1>1, <2>1, LoopMovesOn DEF Owns
<1>. QED
  BY <1>2, <1>3, <1>4, <1>5, <1>6, <1>7, <1>8, <1>9 DEF RunStep

-----------------------------------------------------------------------------
\* A running row has somebody who will report on it

\* The loop of w, or a run, has the job in hand.
Working(w, j) == Owns(w, j) \/ \E r \in runs : Active(r) /\ r.job = j

\* A step without a fault is none of the failing ones.
LEMMA NoFault ==
  ASSUME faults \in Nat, UNCHANGED faults, NEW kind
  PROVE  ~Fault(kind)
BY DEF Fault

\* The loop changes the row of its own job only, and without faults every
\* running job stays in progress: it is claimed, handed to its run, or reported.
LEMMA LoopProgress ==
  ASSUME StoreTypeOK, WorkerTypeOK, NEW w \in Worker, LoopStep(w)
  PROVE  /\ \A j \in Job : status'[j] # status[j] => j = loop[w].job
         /\ UNCHANGED faults =>
              \A j \in Job :
                /\ status'[j] = "running" /\ status[j] # "running" => Working(w, j)'
                /\ Working(w, j) /\ status'[j] = "running" => Working(w, j)'
<1>0. /\ loop \in [Worker -> [pc : LoopPC, at : 1..Len(Priorities), job : Job \union {NoJob}]]
      /\ loop[w].pc # "poll" => loop[w].job \in Job
      /\ status \in [Job -> Status] /\ faults \in Nat
  BY DEF WorkerTypeOK, StoreTypeOK
<1>f. ASSUME UNCHANGED faults, NEW kind PROVE ~Fault(kind)
  BY <1>0, <1>f, NoFault
<1>g. ASSUME NEW pc, LoopGoto(w, pc)
      PROVE  loop'[w].pc = pc /\ loop'[w].job = loop[w].job
  BY <1>0, <1>g DEF LoopGoto
<1>u. ASSUME UNCHANGED <<status, runs>>,
             loop[w].pc \in OwnerPC =>
               loop'[w].pc \in OwnerPC /\ loop'[w].job = loop[w].job
      PROVE  \A j \in Job : /\ status'[j] = status[j]
                            /\ Working(w, j) => Working(w, j)'
  BY <1>u DEF Working, Owns, Active
<1>1. CASE Pop(w) \/ PollEmpty(w) \/ PopFails(w)
  <2>1. UNCHANGED <<status, runs>> /\ loop[w].pc = "poll"
    BY <1>1 DEF Pop, PollEmpty, PopFails, storeVars, taskVars
  <2>. QED
    BY <1>u, <2>1 DEF OwnerPC
<1>2. CASE Claim(w)
  <2>1. /\ loop[w].job \in Job /\ loop'[w].pc = "insert"
        /\ loop'[w].job = loop[w].job /\ UNCHANGED runs
        /\ status' = [status EXCEPT ![loop[w].job] = "running"]
        /\ loop[w].pc = "claim"
    BY <1>0, <1>2, <1>g DEF Claim, ClaimTask
  <2>. QED
    BY <1>0, <2>1 DEF Working, Owns, Active, OwnerPC
<1>3. CASE NotClaimed(w) \/ GiveBack(w) \/ Drop(w)
  <2>1. UNCHANGED <<status, runs>> /\ loop[w].pc \in {"claim", "giveback", "drop"}
    BY <1>3 DEF NotClaimed, GiveBack, Drop, storeVars, taskVars
  <2>. QED
    BY <1>u, <2>1 DEF OwnerPC
<1>4. CASE ClaimFails(w)
  <2>1. \A j \in Job : status'[j] # status[j] => j = loop[w].job
    BY <1>0, <1>4 DEF ClaimFails, ClaimTask, taskVars
  <2>. QED
    BY <1>4, <1>f, <2>1 DEF ClaimFails
<1>5. CASE RecordAttempt(w)
  <2>1. /\ UNCHANGED <<status, runs>> /\ loop[w].pc = "insert"
        /\ loop'[w].pc = "load" /\ loop'[w].job = loop[w].job
    BY <1>5, <1>g DEF RecordAttempt, Sql, InsertAttempt, taskVars
  <2>. QED
    BY <1>u, <2>1 DEF OwnerPC
<1>6. CASE Spawn(w)
  <2>. DEFINE new == [job |-> loop[w].job, n |-> attempts[loop[w].job],
                      worker |-> w, pc |-> "handler"]
  <2>1. UNCHANGED status /\ runs' = runs \union {new}
    BY <1>6 DEF Spawn, storeVars, taskVars
  <2>2. runs \subseteq runs' /\ new \in runs' /\ new.pc = "handler" /\ new.job = loop[w].job
    BY <2>1
  <2>. QED
    BY <2>1, <2>2 DEF Working, Owns, Active, ActivePC
<1>7. CASE LoadFails(w)
  <2>1. UNCHANGED status
    BY <1>7 DEF LoadFails, taskVars
  <2>. QED
    BY <1>7, <1>f, <2>1 DEF LoadFails
<1>8. CASE MarkFailed(w)
  <2>1. /\ loop[w].job \in Job /\ UNCHANGED runs
        /\ \/ status' = [status EXCEPT ![loop[w].job] = "failed"]
           \/ UNCHANGED status /\ Fault("db")
    BY <1>0, <1>8 DEF MarkFailed, Sql, SetStatus, taskVars
  <2>2. \A j \in Job : status'[j] # status[j] => j = loop[w].job
    BY <1>0, <2>1
  <2>3. UNCHANGED faults =>
          \A j \in Job : status'[j] = "running" => status[j] = "running" /\ j # loop[w].job
    BY <1>0, <1>f, <2>1
  <2>. QED
    BY <2>1, <2>2, <2>3 DEF Working, Owns, Active
<1>9. CASE LoopResent(w)
  <2>1. UNCHANGED <<status, loop, runs>>
    BY <1>9, LoopResentStep DEF taskVars, workerVars
  <2>. QED
    BY <1>u, <2>1
<1>. QED
  BY <1>1, <1>2, <1>3, <1>4, <1>5, <1>6, <1>7, <1>8, <1>9 DEF LoopStep

\* A run makes no row 'running', and without faults it reports before it is over.
LEMMA RunProgress ==
  ASSUME StoreTypeOK, WorkerTypeOK, NEW r \in runs, RunStep(r), NEW w \in Worker
  PROVE  /\ \A j \in Job : status'[j] = "running" => status[j] = "running"
         /\ UNCHANGED faults =>
              \A j \in Job : Working(w, j) /\ status'[j] = "running" => Working(w, j)'
<1>0. /\ status \in [Job -> Status] /\ faults \in Nat
      /\ r \in [job : Job, n : Nat, worker : Worker, pc : RunPC]
  BY DEF WorkerTypeOK, StoreTypeOK
<1>f. ASSUME UNCHANGED faults, NEW kind PROVE ~Fault(kind)
  BY <1>0, <1>f, NoFault
<1>g. ASSUME NEW pc, RunGoto(r, pc)
      PROVE  /\ \A s \in runs \ {r} : s \in runs'
             /\ [r EXCEPT !.pc = pc] \in runs'
             /\ [r EXCEPT !.pc = pc].pc = pc /\ [r EXCEPT !.pc = pc].job = r.job
  BY <1>0, <1>g DEF RunGoto
<1>a. ASSUME NEW pc \in ActivePC, RunGoto(r, pc), UNCHANGED <<status, loop>>
      PROVE  \A j \in Job : /\ status'[j] = status[j]
                            /\ Working(w, j) => Working(w, j)'
  <2>1. \A t \in runs : t.pc \in ActivePC => \E u \in runs' : u.pc \in ActivePC /\ u.job = t.job
    <3>. TAKE t \in runs
    <3>1. CASE t = r
      <4>1. [r EXCEPT !.pc = pc] \in runs' /\ [r EXCEPT !.pc = pc].pc \in ActivePC
            /\ [r EXCEPT !.pc = pc].job = r.job
        BY <1>a, <1>g
      <4>. QED
        BY <3>1, <4>1
    <3>2. CASE t # r
      BY <1>a, <1>g, <3>2
    <3>. QED
      BY <3>1, <3>2
  <2>. QED
    BY <1>a, <2>1 DEF Working, Owns, Active
<1>r. ASSUME NEW s \in Status, s # "running", SetStatus(r.job, s) \/ UNCHANGED status
      PROVE  \A j \in Job : /\ status'[j] = "running" => status[j] = "running"
                            /\ SetStatus(r.job, s) /\ status'[j] = "running" => j # r.job
  BY <1>0, <1>r DEF SetStatus
<1>o. ASSUME \A t \in runs \ {r} : t \in runs', UNCHANGED loop,
             NEW j \in Job, j # r.job, Working(w, j)
      PROVE  Working(w, j)'
  BY <1>o DEF Working, Owns, Active
<1>1. CASE HandlerSucceeds(r) \/ HandlerFails(r)
  <2>1. UNCHANGED <<status, loop>> /\ \E pc \in ActivePC : RunGoto(r, pc)
    BY <1>1 DEF HandlerSucceeds, HandlerFails, storeVars, taskVars, ActivePC
  <2>. QED
    BY <1>a, <2>1
<1>2. CASE PushDlq(r)
  <2>1. UNCHANGED <<status, loop>> /\ RunGoto(r, "deadletter")
    BY <1>2 DEF PushDlq, taskVars
  <2>. QED
    BY <1>a, <2>1 DEF ActivePC
<1>3. CASE MarkSucceeded(r)
  <2>1. SetStatus(r.job, "succeeded") /\ RunGoto(r, "closeok") /\ UNCHANGED loop
    BY <1>3 DEF MarkSucceeded
  <2>. QED
    BY <1>g, <1>r, <1>o, <2>1 DEF Status
<1>4. CASE MarkSucceededFails(r)
  <2>1. SetStatus(r.job, "succeeded") \/ UNCHANGED status
    BY <1>4 DEF MarkSucceededFails, taskVars
  <2>. QED
    BY <1>f, <1>r, <1>4, <2>1 DEF MarkSucceededFails, Status
<1>5. CASE MarkDeadLetter(r)
  <2>1. /\ SetStatus(r.job, "deadletter") \/ (UNCHANGED status /\ Fault("db"))
        /\ RunGoto(r, "closefailed") /\ UNCHANGED loop
    BY <1>5 DEF MarkDeadLetter, Sql, taskVars
  <2>. QED
    BY <1>f, <1>g, <1>r, <1>o, <2>1 DEF Status
<1>6. CASE MarkRetry(r)
  <2>1. /\ \/ status' = [status EXCEPT ![r.job] = "retry"]
           \/ UNCHANGED status /\ Fault("db")
        /\ RunGoto(r, "closefailed") /\ UNCHANGED loop
    BY <1>6 DEF MarkRetry, Sql, RetryTask, taskVars
  <2>2. \A j \in Job : status'[j] = "running" => status[j] = "running"
    BY <1>0, <2>1
  <2>3. UNCHANGED faults => \A j \in Job : status'[j] = "running" => j # r.job
    BY <1>0, <1>f, <2>1
  <2>. QED
    BY <1>g, <1>o, <2>1, <2>2, <2>3
<1>7. CASE CloseAttempt(r)
  <2>1. /\ UNCHANGED <<status, loop>> /\ RunGoto(r, "lrem") /\ r.pc \notin ActivePC
    BY <1>7 DEF CloseAttempt, Sql, UpdateAttempt, taskVars, ActivePC
  <2>. QED
    BY <1>g, <2>1 DEF Working, Owns, Active
<1>8. CASE Finish(r)
  <2>1. UNCHANGED <<status, loop>> /\ runs' = runs \ {r} /\ r.pc \notin ActivePC
    BY <1>8 DEF Finish, taskVars, ActivePC
  <2>. QED
    BY <2>1 DEF Working, Owns, Active
<1>9. CASE RunResent(r)
  <2>1. UNCHANGED <<status, loop, runs>>
    BY <1>9, RunResentStep DEF taskVars, workerVars
  <2>. QED
    BY <2>1 DEF Working, Owns, Active
<1>. QED
  BY <1>1, <1>2, <1>3, <1>4, <1>5, <1>6, <1>7, <1>8, <1>9 DEF RunStep

-----------------------------------------------------------------------------
\* The beginning, and the end of a process

\* A process that is gone executes nothing.
LEMMA LostExec ==
  ASSUME WorkInv, TypesOK', NEW w \in Worker, WorkerLost(w), UNCHANGED <<status, attempts>>
  PROVE  WorkInv'
<1>1. TypesOK /\ SingleExecution /\ AttemptBudget /\ RunBudget /\ runs' \subseteq runs
  BY DEF WorkInv, WorkerLost
<1>2. \A u \in Worker, j \in Job : Owns(u, j)' => Owns(u, j)
  BY <1>1 DEF WorkerLost, LoopTop, AtTop, Owns, OwnerPC, TypesOK, WorkerTypeOK
<1>3. \A j \in Job : j \in Executing' => j \in Executing
  BY <1>1, <1>2 DEF Executing, Active
<1>4. SingleExecution'
  BY <1>1, <1>2, <1>3, NothingGained DEF SingleExecution
<1>5. AttemptBudget' /\ RunBudget'
  BY <1>1 DEF AttemptBudget, RunBudget, Active
<1>. QED
  BY <1>4, <1>5 DEF WorkInv

\* At first nothing is stored and nobody executes anything.
LEMMA WorkInit == StoreInit /\ WorkerInit /\ TypesOK => WorkInv
<1>. SUFFICES ASSUME StoreInit, WorkerInit, TypesOK PROVE WorkInv
  OBVIOUS
<1>1. runs = {} /\ \A w \in Worker, j \in Job : ~Owns(w, j)
  BY DEF WorkerInit, AtTop, Owns, OwnerPC
<1>2. SingleExecution
  BY <1>1 DEF SingleExecution, Executing
<1>3. AttemptBudget
  BY AttemptsAssumption DEF StoreInit, AttemptBudget
<1>4. RunBudget
  BY <1>1 DEF StoreInit, RunBudget
<1>. QED
  BY <1>2, <1>3, <1>4 DEF WorkInv

-----------------------------------------------------------------------------
\* The worker implements JobLifecycle

\* No row changes and no execution begins: some executions may end unreported.
LEMMA NoReport ==
  ASSUME UNCHANGED <<status, attempts>>, Executing' \subseteq Executing
  PROVE  Lifecycle!Next
<1>1. Executing \ Executing' \in SUBSET Job
  BY DEF Executing
<1>2. Lifecycle!Vanish(Executing \ Executing')
  BY DEF Lifecycle!Vanish
<1>. QED
  BY <1>1, <1>2 DEF Lifecycle!Next

\* A process that is no worker executes nothing.
LEMMA SameExecuting ==
  ASSUME UNCHANGED workerVars
  PROVE  Executing' = Executing
BY DEF Executing, Owns, Active, workerVars

\* A run that stops being active, or ends, takes its job out of execution and
\* leaves the other jobs there.
LEMMA RunLeaves ==
  ASSUME SingleExecution, TypesOK, NEW r \in runs, Active(r), UNCHANGED loop,
         \A s \in runs' : Active(s) => s \in runs /\ s # r,
         \A s \in runs : s # r => s \in runs'
  PROVE  Executing' = Executing \ {r.job}
<1>1. \A u \in Worker, j \in Job : Owns(u, j)' <=> Owns(u, j)
  BY DEF Owns
<1>2. r.job \in Job
  BY DEF TypesOK, WorkerTypeOK
<1>3. \A j \in Job : j \in Executing' => j \in Executing /\ j # r.job
  BY <1>1, <1>2 DEF Executing, SingleExecution, Active
<1>4. \A j \in Job : j \in Executing /\ j # r.job => j \in Executing'
  BY <1>1 DEF Executing, Active
<1>5. Executing \subseteq Job /\ Executing' \subseteq Job
  BY DEF Executing
<1>. QED
  BY <1>3, <1>4, <1>5

\* A guarded UPDATE is a submission, a cancellation or a requeueing.
LEMMA GuardedUpdateStep ==
  ASSUME Executing' = Executing, NEW j \in Job,
         InsertTask(j) \/ CancelTask(j) \/ RequeueTask(j)
  PROVE  Lifecycle!Next
BY DEF InsertTask, CancelTask, RequeueTask, SetStatus, Lifecycle!Next,
       Lifecycle!Submit, Lifecycle!Cancel, Lifecycle!Requeue

\* The loop starts executions, and reports one that cannot begin as failed.
LEMMA LoopStepRefines ==
  ASSUME WorkInv, NEW w \in Worker, LoopStep(w)
  PROVE  Lifecycle!Next
<1>. USE DEF storeVars, taskVars
<1>. DEFINE j == loop[w].job
<1>1. /\ SingleExecution /\ AttemptBudget
      /\ loop \in [Worker -> [pc : LoopPC, at : 1..Len(Priorities), job : Job \union {NoJob}]]
      /\ loop[w].pc # "poll" => j \in Job
  BY DEF WorkInv, TypesOK, WorkerTypeOK
<1>2. ASSUME \A u \in Worker, k \in Job : Owns(u, k)' => Owns(u, k),
             UNCHANGED <<status, attempts, runs>>
      PROVE  Lifecycle!Next
  <2>1. Executing' \subseteq Executing
    BY <1>2 DEF Executing, Active
  <2>. QED
    BY <1>2, <2>1, NoReport
<1>3. CASE Pop(w) \/ PollEmpty(w) \/ PopFails(w)
  <2>1. \A u \in Worker, k \in Job : Owns(u, k)' => Owns(u, k)
    BY <1>1, <1>3 DEF Pop, PollEmpty, PopFails, NextQueue, Owns, OwnerPC
  <2>. QED
    BY <1>2, <1>3, <2>1 DEF Pop, PollEmpty, PopFails
<1>4. CASE NotClaimed(w) \/ GiveBack(w) \/ RecordAttempt(w) \/ LoadFails(w) \/ Drop(w)
  <2>1. \A u \in Worker, k \in Job : Owns(u, k)' => Owns(u, k)
    BY <1>1, <1>4 DEF NotClaimed, GiveBack, RecordAttempt, LoadFails, Drop,
                      LoopGoto, LoopTop, AtTop, Owns, OwnerPC
  <2>. QED
    BY <1>2, <1>4, <2>1 DEF NotClaimed, GiveBack, RecordAttempt, LoadFails, Drop, Sql, InsertAttempt
<1>5. ASSUME loop[w].pc = "claim", ClaimTask(j), UNCHANGED runs,
             NEW pc \in {"insert", "giveback"}, LoopGoto(w, pc)
      PROVE  Lifecycle!Next
  <2>1. j \in Job /\ j \notin Executing /\ attempts[j] < MaxAttempts[j]
    BY <1>1, <1>5 DEF ClaimTask, SingleExecution, AttemptBudget
  <2>2. \A u \in Worker, k \in Job :
           Owns(u, k)' <=> Owns(u, k) \/ (u = w /\ k = j /\ pc = "insert")
    BY <1>1, <1>5 DEF LoopGoto, Owns, OwnerPC
  <2>. HIDE DEF j
  <2>3. Executing' = IF pc = "giveback" THEN Executing ELSE Executing \union {j}
    BY <1>5, <2>1, <2>2 DEF Executing, Active
  <2>4. Lifecycle!Start(j, pc = "giveback")
    BY <1>5, <2>1, <2>3 DEF ClaimTask, Lifecycle!Start
  <2>. QED
    BY <2>1, <2>4 DEF Lifecycle!Next
<1>6. CASE Claim(w)
  BY <1>5, <1>6 DEF Claim
<1>7. CASE ClaimFails(w)
  <2>1. CASE UNCHANGED <<taskVars, rows>>
    <3>1. \A u \in Worker, k \in Job : Owns(u, k)' => Owns(u, k)
      BY <1>1, <1>7 DEF ClaimFails, LoopGoto, Owns, OwnerPC
    <3>. QED
      BY <1>2, <1>7, <2>1, <3>1 DEF ClaimFails
  <2>. QED
    BY <1>5, <1>7, <2>1 DEF ClaimFails
<1>8. CASE Spawn(w)
  <2>1. /\ Owns(w, j) /\ j \in Job /\ UNCHANGED <<status, attempts>>
        /\ \A r \in runs' : r \in runs \/ r.job = j
    BY <1>1, <1>8 DEF Spawn, Owns, OwnerPC
  <2>2. \A u \in Worker, k \in Job : Owns(u, k)' => Owns(u, k)
    BY <1>1, <1>8 DEF Spawn, LoopTop, AtTop, Owns, OwnerPC
  <2>. HIDE DEF j
  <2>3. Executing' \subseteq Executing
    BY <2>1, <2>2 DEF Executing, Active
  <2>. QED
    BY <2>1, <2>3, NoReport
<1>9. CASE MarkFailed(w)
  <2>1. j \in Job /\ Owns(w, j) /\ UNCHANGED <<attempts, runs>>
    BY <1>1, <1>9 DEF MarkFailed, Sql, SetStatus, Owns, OwnerPC
  <2>2. \/ status' = [status EXCEPT ![j] = "failed"]
        \/ UNCHANGED status
    BY <1>9 DEF MarkFailed, Sql, SetStatus
  <2>3. \A u \in Worker, k \in Job : Owns(u, k)' <=> Owns(u, k) /\ u # w
    BY <1>1, <1>9 DEF MarkFailed, LoopGoto, Owns, OwnerPC
  <2>4. \A k \in Job : Owns(w, k) => k = j
    BY DEF Owns
  <2>. HIDE DEF j
  <2>5. Executing' = Executing \ {j}
    BY <1>1, <2>1, <2>3, <2>4 DEF SingleExecution, Executing, Active
  <2>6. j \in Executing /\ status[j] \in {"running", "cancelled"}
    BY <1>1, <2>1 DEF SingleExecution, Executing
  <2>7. CASE status' = [status EXCEPT ![j] = "failed"]
    BY <2>1, <2>5, <2>6, <2>7 DEF Lifecycle!Next, Lifecycle!Report, Lifecycle!Outcome
  <2>8. CASE UNCHANGED status
    BY <2>1, <2>5, <2>8, NoReport
  <2>. QED
    BY <2>2, <2>7, <2>8
<1>10. CASE LoopResent(w)
  <2>1. UNCHANGED <<status, attempts, loop, runs>>
    BY <1>10, LoopResentStep DEF WorkInv, TypesOK, workerVars
  <2>. QED
    BY <1>2, <2>1 DEF Owns
<1>. QED
  BY <1>3, <1>4, <1>6, <1>7, <1>8, <1>9, <1>10 DEF LoopStep

\* A run reports the outcome that the attempts used allow.
LEMMA RunStepRefines ==
  ASSUME WorkInv, NEW r \in runs, RunStep(r)
  PROVE  Lifecycle!Next
<1>. USE DEF storeVars, taskVars
<1>1. /\ TypesOK /\ SingleExecution /\ RunBudget
      /\ r \in [job : Job, n : Nat, worker : Worker, pc : RunPC]
      /\ attempts[r.job] \in Nat /\ MaxAttempts[r.job] \in Nat
  BY AttemptsAssumption DEF WorkInv, TypesOK, WorkerTypeOK, StoreTypeOK
<1>2. ASSUME NEW pc \in RunPC, RunGoto(r, pc)
      PROVE  /\ \A s \in runs' : s \in runs \/ (s.job = r.job /\ s.pc = pc)
             /\ pc \notin ActivePC => \A s \in runs' : Active(s) => s \in runs /\ s # r
             /\ \A s \in runs : s # r => s \in runs'
  BY <1>1, <1>2 DEF RunGoto, Active, ActivePC
<1>3. CASE HandlerSucceeds(r) \/ HandlerFails(r) \/ PushDlq(r)
  <2>1. PICK pc \in RunPC : RunGoto(r, pc)
    BY <1>3 DEF HandlerSucceeds, HandlerFails, PushDlq, RunPC
  <2>2. Active(r) /\ UNCHANGED <<status, attempts, loop>>
    BY <1>3 DEF HandlerSucceeds, HandlerFails, PushDlq, Active, ActivePC
  <2>3. Executing' \subseteq Executing
    BY <1>1, <1>2, <2>1, <2>2 DEF Executing, Owns, Active
  <2>. QED
    BY <2>2, <2>3, NoReport
<1>4. ASSUME Active(r), UNCHANGED <<attempts, loop>>,
             NEW pc \in RunPC \ ActivePC, RunGoto(r, pc),
             \/ UNCHANGED status
             \/ \E s \in Lifecycle!Outcome(r.job) : status' = [status EXCEPT ![r.job] = s]
      PROVE  Lifecycle!Next
  <2>1. Executing' = Executing \ {r.job}
    BY <1>1, <1>2, <1>4, RunLeaves
  <2>2. r.job \in Executing /\ status[r.job] \in {"running", "cancelled"}
    BY <1>1, <1>4 DEF SingleExecution, Executing
  <2>3. CASE UNCHANGED status
    BY <1>4, <2>1, <2>3, NoReport
  <2>4. ASSUME NEW s \in Lifecycle!Outcome(r.job), status' = [status EXCEPT ![r.job] = s]
        PROVE  Lifecycle!Next
    <3>1. Lifecycle!Report(r.job, s)
      BY <1>4, <2>1, <2>2, <2>4 DEF Lifecycle!Report
    <3>. QED
      BY <1>1, <3>1 DEF Lifecycle!Next
  <2>. QED
    BY <1>4, <2>3, <2>4
<1>5. CASE MarkSucceeded(r) \/ MarkSucceededFails(r)
  BY <1>4, <1>5 DEF MarkSucceeded, MarkSucceededFails, SetStatus, Active, ActivePC, RunPC,
                    Lifecycle!Outcome
<1>6. CASE MarkDeadLetter(r)
  <2>1. "deadletter" \in Lifecycle!Outcome(r.job)
    BY <1>1, <1>6 DEF MarkDeadLetter, RunBudget, Active, ActivePC, Lifecycle!Outcome
  <2>. QED
    BY <1>4, <1>6, <2>1 DEF MarkDeadLetter, Sql, SetStatus, Active, ActivePC, RunPC
<1>7. CASE MarkRetry(r)
  <2>1. "retry" \in Lifecycle!Outcome(r.job)
    BY <1>1, <1>7 DEF MarkRetry, RunBudget, Active, ActivePC, Lifecycle!Outcome
  <2>. QED
    BY <1>4, <1>7, <2>1 DEF MarkRetry, Sql, RetryTask, Active, ActivePC, RunPC
<1>8. CASE CloseAttempt(r) \/ Finish(r)
  <2>1. UNCHANGED <<status, attempts, loop>>
    BY <1>8 DEF CloseAttempt, Finish, Sql, UpdateAttempt
  <2>2. \A s \in runs' : Active(s) => s \in runs
    BY <1>1, <1>8 DEF CloseAttempt, Finish, RunGoto, Active, ActivePC
  <2>3. Executing' \subseteq Executing
    BY <2>1, <2>2 DEF Executing, Owns, Active
  <2>. QED
    BY <2>1, <2>3, NoReport
<1>9. CASE RunResent(r)
  <2>1. UNCHANGED <<status, attempts, workerVars>>
    BY <1>1, <1>9, RunResentStep DEF TypesOK
  <2>. QED
    BY <2>1, NoReport, SameExecuting
<1>. QED
  BY <1>3, <1>5, <1>6, <1>7, <1>8, <1>9 DEF RunStep

\* The end of a process ends executions without a report.
LEMMA LostRefines ==
  ASSUME TypesOK, NEW w \in Worker, WorkerLost(w), UNCHANGED <<status, attempts>>
  PROVE  Lifecycle!Next
<1>1. \A u \in Worker, j \in Job : Owns(u, j)' => Owns(u, j)
  BY DEF WorkerLost, LoopTop, AtTop, Owns, OwnerPC, TypesOK, WorkerTypeOK
<1>2. Executing' \subseteq Executing
  BY <1>1 DEF WorkerLost, Executing, Active
<1>. QED
  BY <1>2, NoReport

\* The stores and the worker start where JobLifecycle starts.
LEMMA InitRefines == StoreInit /\ WorkerInit => Lifecycle!Init
<1>. SUFFICES ASSUME StoreInit, WorkerInit PROVE Lifecycle!Init
  OBVIOUS
<1>1. runs = {} /\ \A w \in Worker, j \in Job : ~Owns(w, j)
  BY DEF WorkerInit, AtTop, Owns, OwnerPC
<1>2. Executing = {}
  BY <1>1 DEF Executing
<1>. QED
  BY <1>2 DEF StoreInit, Lifecycle!Init
=============================================================================

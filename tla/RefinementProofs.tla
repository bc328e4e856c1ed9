-------------------------- MODULE RefinementProofs --------------------------
(***************************************************************************)
(* The scheduler implements JobLifecycle: under the invariant ExecInv each *)
(* of its steps is a step of JobLifecycle, or changes nothing there.  What *)
(* no step may do to a row follows: an outcome stays, a row stuck in       *)
(* 'running' stays stuck, and a retry waits for its backoff, or for a pump  *)
(* that selected an earlier attempt of the job.                            *)
(***************************************************************************)
EXTENDS ExecutionProofs

-----------------------------------------------------------------------------
\* The API server, the retry pumps, the reapers and time

\* The handlers submit and cancel.
LEMMA ApiRefines ==
  ASSUME ExecInv, NEW c \in Client, Api(c)
  PROVE  Lifecycle!Next
<1>1. Executing' = Executing
  BY SameExecuting DEF Api
<1>2. call[c].pc # "idle" => call[c].job \in Job
  BY DEF ExecInv, TypeOK, ApiTypeOK
<1>3. CASE \E j \in Job : InsertTask(j) \/ CancelTask(j)
  BY <1>1, <1>3, GuardedUpdateStep
<1>4. CASE UNCHANGED <<status, attempts>>
  BY <1>1, <1>4, NoReport
<1>5. CASE CallResent(c)
  BY <1>4, <1>5, CallResentStep DEF ExecInv, taskVars
<1>. QED
  BY <1>2, <1>3, <1>4, <1>5
     DEF Api, ApiStep, HandlerStep, CreateJob, CreateConflict, CreateFails, PushJob,
         UpdateCancelled, NotCancellable, CancelFails, RemoveQueued, CallAborts,
         SubmitJob, CancelJob, storeVars, taskVars

\* The pump requeues.
LEMMA PumpRefines ==
  ASSUME ExecInv, NEW w \in Pump, Pumping(w)
  PROVE  Lifecycle!Next
<1>1. /\ Executing' = Executing
      /\ \A t \in pump[w].todo : t.job \in Job
  BY SameExecuting DEF Pumping, ExecInv, TypeOK, PumpTypeOK
<1>2. CASE \E j \in Job : RequeueTask(j)
  BY <1>1, <1>2, GuardedUpdateStep
<1>3. CASE UNCHANGED <<status, attempts>>
  BY <1>1, <1>3, NoReport
<1>4. CASE PushResent(w)
  BY <1>3, <1>4, PushResentStep DEF ExecInv, taskVars
<1>. QED
  BY <1>1, <1>2, <1>3, <1>4
     DEF Pumping, PumpStep, SelectDue, PushRetry, Requeue, RequeueNothing, RequeueFails,
         storeVars, taskVars

\* The reaper does nothing the life cycle sees.
LEMMA ReaperRefines ==
  ASSUME NEW w \in Reap, Reaping(w)
  PROVE  Lifecycle!Next
<1>1. Executing' = Executing
  BY SameExecuting DEF Reaping
<1>2. UNCHANGED <<status, attempts>>
  BY DEF Reaping, ReaperStep, Sweep, ReadStuck, ReadFinished, ReadOther, ReadFails,
         MoveBack, MoveNothing, MoveFails, PushBack, RemoveItem, ReaperResent, Resent,
         storeVars, taskVars
<1>. QED
  BY <1>1, <1>2, NoReport

\* Nor does the passing of time.
LEMMA TimeRefines ==
  ASSUME NEW j \in Job, TimePasses(j)
  PROVE  Lifecycle!Next
<1>1. Executing' = Executing
  BY SameExecuting DEF TimePasses
<1>2. UNCHANGED <<status, attempts>>
  BY DEF TimePasses, BackoffElapses, GrowsStale
<1>. QED
  BY <1>1, <1>2, NoReport

\* The steps of a worker, and its crash.
LEMMA LoopRefines ==
  ASSUME ExecInv, NEW w \in Worker, Loop(w)
  PROVE  Lifecycle!Next
BY LoopStepRefines, ExecParts DEF Loop

\* A step of a run is one of the life cycle.
LEMMA RunRefines ==
  ASSUME ExecInv, NEW r \in runs, Run(r)
  PROVE  Lifecycle!Next
BY RunStepRefines, ExecParts DEF Run

\* A crash makes executions vanish.
LEMMA CrashRefines ==
  ASSUME ExecInv, NEW w \in Worker, WorkerCrash(w)
  PROVE  Lifecycle!Next
<1>1. UNCHANGED <<status, attempts>> /\ WorkerLost(w)
  BY DEF WorkerCrash, taskVars
<1>. QED
  BY <1>1, LostRefines, ExecParts

-----------------------------------------------------------------------------
\* The theorems

\* Every step maps to a step or a stutter.
LEMMA NextRefines == ExecInv /\ [Next]_vars => [Lifecycle!Next]_Lifecycle!vars
<1>. SUFFICES ASSUME ExecInv, [Next]_vars PROVE [Lifecycle!Next]_Lifecycle!vars
  OBVIOUS
<1>1. CASE UNCHANGED vars
  <2>1. UNCHANGED <<status, attempts>> /\ UNCHANGED workerVars
    BY <1>1 DEF vars, storeVars, taskVars
  <2>. QED
    BY <2>1, SameExecuting DEF Lifecycle!vars
<1>2. CASE Next
  BY <1>2, ApiRefines, LoopRefines, RunRefines, PumpRefines, ReaperRefines, CrashRefines,
     TimeRefines DEF Next
<1>. QED
  BY <1>1, <1>2

\* The API server, the workers, the pumps and the reapers together implement the
\* life cycle of a job: one execution per attempt and one at a time, outcomes
\* reported only by the execution in progress, no other change of status.
THEOREM Refinement == Spec => ImplementsLifecycle
<1>1. Init => Lifecycle!Init
  BY InitRefines DEF Init
<1>2. ExecInv /\ [Next]_vars => [Lifecycle!Next]_Lifecycle!vars
  BY NextRefines
<1>. QED
  BY <1>1, <1>2, ExecInvariant, PTL DEF Spec, Lifecycle!Spec, ImplementsLifecycle

\* JobLifecycle leaves a terminal row alone unless the job is being executed.
LEMMA LifecycleFinal ==
  ASSUME TypeOK, [Lifecycle!Next]_Lifecycle!vars,
         NEW j \in Job, status[j] \in Terminal, j \notin Executing
  PROVE  status'[j] = status[j] /\ attempts'[j] = attempts[j]
<1>1. status \in [Job -> Status] /\ attempts \in [Job -> Nat]
  BY DEF TypeOK, StoreTypeOK
<1>2. CASE Lifecycle!Next
  BY <1>1, <1>2 DEF Terminal, Lifecycle!Next, Lifecycle!Submit, Lifecycle!Requeue,
     Lifecycle!Cancel, Lifecycle!Start, Lifecycle!Report, Lifecycle!Vanish
<1>3. CASE UNCHANGED Lifecycle!vars
  BY <1>3 DEF Lifecycle!vars
<1>. QED
  BY <1>2, <1>3

\* A row in a terminal status that nobody executes never changes again: not by
\* a late retry, a sweep, a second submission or a second cancellation.
THEOREM FinalOutcome == Spec => OutcomeFinal
<1>. DEFINE Kept == \A j \in Job : status[j] \in Terminal /\ j \notin Executing =>
                      status'[j] = status[j] /\ attempts'[j] = attempts[j]
<1>1. ExecInv /\ [Next]_vars => [Kept]_vars
  <2>. SUFFICES ASSUME ExecInv, [Next]_vars PROVE Kept
    OBVIOUS
  <2>1. TypeOK /\ [Lifecycle!Next]_Lifecycle!vars
    BY NextRefines DEF ExecInv
  <2>. QED
    BY <2>1, LifecycleFinal
<1>2. OutcomeFinal <=> [][Kept]_vars
  BY DEF OutcomeFinal
<1>. HIDE DEF Kept
<1>. QED
  BY <1>1, <1>2, ExecInvariant, PTL DEF Spec

\* A row that says 'running' while no process has the job in hand: what a fault
\* between a claim and its report leaves.
Stuck(j) == status[j] = "running" /\ j \notin Executing

\* JobLifecycle lets nobody but a client move such a row.
LEMMA LifecycleStuck ==
  ASSUME TypeOK, [Lifecycle!Next]_Lifecycle!vars, NEW j \in Job, Stuck(j)
  PROVE  Stuck(j)' \/ status'[j] = "cancelled"
<1>1. status \in [Job -> Status] /\ status[j] = "running" /\ j \notin Executing
  BY DEF TypeOK, StoreTypeOK, Stuck
<1>2. CASE Lifecycle!Next
  BY <1>1, <1>2 DEF Stuck, Terminal, Lifecycle!Next, Lifecycle!Submit, Lifecycle!Requeue,
     Lifecycle!Cancel, Lifecycle!Start, Lifecycle!Report, Lifecycle!Vanish
<1>3. CASE UNCHANGED Lifecycle!vars
  BY <1>1, <1>3 DEF Stuck, Lifecycle!vars
<1>. QED
  BY <1>2, <1>3

\* What StuckJobRecovered is about, for every configuration and without any
\* fairness: no sweep, pump, poll, restart or second submission takes a stuck
\* job out of 'running' or executes it; only CancelJob ends it.
THEOREM StuckForGood ==
  Spec => [][\A j \in Job : Stuck(j) => Stuck(j)' \/ status'[j] = "cancelled"]_vars
<1>. DEFINE Stays == \A j \in Job : Stuck(j) => Stuck(j)' \/ status'[j] = "cancelled"
<1>1. ExecInv /\ [Next]_vars => [Stays]_vars
  <2>. SUFFICES ASSUME ExecInv, [Next]_vars, NEW j \in Job, Stuck(j)
                PROVE  Stuck(j)' \/ status'[j] = "cancelled"
    OBVIOUS
  <2>1. TypeOK /\ [Lifecycle!Next]_Lifecycle!vars
    BY NextRefines DEF ExecInv
  <2>. QED
    BY <2>1, LifecycleStuck
<1>. HIDE DEF Stays
<1>2. Spec => [][Stays]_vars
  BY <1>1, ExecInvariant, PTL DEF Spec
<1>. QED
  BY <1>2 DEF Stays

-----------------------------------------------------------------------------
\* Backoff

\* A row that a pump has selected and not handled yet either still waits for it,
\* with the attempts the pump read, or has moved on; before the next attempt of the
\* job nobody executes it, and nobody makes it wait again.
Selected ==
  \A w \in Pump : \A t \in pump[w].todo :
    /\ t.n <= attempts[t.job]
    /\ t.n = attempts[t.job] =>
         t.job \notin Executing /\ (status[t.job] = "retry" => due[t.job])

\* In JobLifecycle a job is executed, and its row set to 'retry', only after an
\* attempt was counted.
LEMMA LifecycleAttempt ==
  ASSUME TypeOK, [Lifecycle!Next]_Lifecycle!vars, NEW j \in Job
  PROVE  \/ attempts'[j] = attempts[j] + 1
         \/ /\ attempts'[j] = attempts[j]
            /\ j \notin Executing =>
                 j \notin Executing' /\ (status'[j] = "retry" => status[j] = "retry")
<1>1. status \in [Job -> Status] /\ attempts \in [Job -> Nat]
  BY DEF TypeOK, StoreTypeOK
<1>2. CASE Lifecycle!Next
  BY <1>1, <1>2 DEF Lifecycle!Next, Lifecycle!Submit, Lifecycle!Requeue,
     Lifecycle!Cancel, Lifecycle!Start, Lifecycle!Report, Lifecycle!Vanish
<1>3. CASE UNCHANGED Lifecycle!vars
  BY <1>3 DEF Lifecycle!vars
<1>. QED
  BY <1>2, <1>3

\* Nobody but a pump takes a row out of 'retry', and nobody makes it wait again.
LEMMA RetryRowKept ==
  ASSUME ExecInv, [Next]_vars, NEW j \in Job, status[j] = "retry"
  PROVE  /\ due[j] => due'[j]
         /\ status'[j] = "retry" \/ \E w \in Pump : Pumping(w)
<1>. USE DEF storeVars, taskVars, redisVars
<1>0. /\ status \in [Job -> Status] /\ due \in [Job -> BOOLEAN] /\ j \notin Executing
      /\ loop \in [Worker -> [pc : LoopPC, at : 1..Len(Priorities), job : Job \union {NoJob}]]
  BY DEF ExecInv, TypeOK, StoreTypeOK, WorkerTypeOK, SingleExecution
<1>1. CASE \E c \in Client : Api(c)
  BY <1>0, <1>1 DEF Api, ApiStep, HandlerStep, CreateJob, CreateConflict, CreateFails, PushJob,
     UpdateCancelled, NotCancellable, CancelFails, RemoveQueued, CallAborts, SubmitJob,
     CancelJob, CallResent, Resent, InsertTask, CancelTask, SetStatus
<1>2. CASE \E w \in Worker : Loop(w)
  <2>1. PICK w \in Worker : LoopStep(w)
    BY <1>2 DEF Loop
  <2>2. loop[w].pc = "markfailed" => loop[w].job # j
    BY <1>0 DEF Executing, Owns, OwnerPC
  <2>. QED
    BY <1>0, <2>1, <2>2 DEF LoopStep, Pop, PollEmpty, PopFails, Claim, NotClaimed, ClaimFails,
       GiveBack, RecordAttempt, Spawn, LoadFails, MarkFailed, Drop, LoopResent, Resent, Sql,
       ClaimTask, InsertAttempt, SetStatus
<1>3. CASE \E r \in runs : Run(r)
  <2>1. PICK r \in runs : RunStep(r)
    BY <1>3 DEF Run
  <2>2. r.pc \in ActivePC => r.job # j
    BY <1>0 DEF Executing, Active
  <2>. QED
    BY <1>0, <2>1, <2>2 DEF ActivePC, RunStep, HandlerSucceeds, HandlerFails, MarkSucceeded,
       MarkSucceededFails, PushDlq, MarkDeadLetter, MarkRetry, CloseAttempt, Finish, RunResent,
       Resent, Sql, SetStatus, RetryTask, UpdateAttempt
<1>4. CASE \E w \in Reap : Reaping(w)
  BY <1>0, <1>4 DEF Reaping, ReaperStep, Sweep, ReadStuck, ReadFinished, ReadOther, ReadFails,
     MoveBack, MoveNothing, MoveFails, PushBack, RemoveItem, ReaperResent, Resent
<1>5. CASE \/ \E w \in Worker : WorkerCrash(w)
           \/ \E k \in Job : TimePasses(k)
           \/ UNCHANGED vars
  BY <1>0, <1>5 DEF WorkerCrash, TimePasses, BackoffElapses, GrowsStale, vars
<1>6. CASE \E w \in Pump : Pumping(w)
  <2>1. UNCHANGED due
    BY <1>6 DEF Pumping, PumpStep, SelectDue, PushRetry, PushResent, Resent, Requeue,
       RequeueNothing, RequeueFails, RequeueTask, SetStatus
  <2>. QED
    BY <1>6, <2>1
<1>. QED
  BY <1>1, <1>2, <1>3, <1>4, <1>5, <1>6 DEF Next

\* What is on a pump's list was there before, or the pump has just selected it.
LEMMA ListGrows ==
  ASSUME ExecInv, [Next]_vars, NEW u \in Pump, NEW t \in pump'[u].todo, t \notin pump[u].todo
  PROVE  /\ t.job \in Job /\ t.n = attempts[t.job]
         /\ status[t.job] = "retry" /\ due[t.job]
         /\ UNCHANGED <<status, attempts, due>> /\ UNCHANGED workerVars
<1>1. pump \in [Pump -> [todo : SUBSET [job : Job, n : Nat], push : Job \union {NoJob}]]
  BY DEF ExecInv, TypeOK, PumpTypeOK
<1>2. PICK w \in Pump : Pumping(w)
  <2>1. ~ UNCHANGED pump
    OBVIOUS
  <2>2. ASSUME NEW v \in Worker, WorkerCrash(v)
        PROVE  FALSE
    <3>1. pump'[u] = PumpIdle \/ pump'[u] = pump[u]
      BY <2>2 DEF WorkerCrash
    <3>. QED
      BY <3>1 DEF PumpIdle
  <2>. QED
    BY <2>1, <2>2 DEF Next, Api, Loop, Run, Reaping, TimePasses, vars
<1>3. w = u /\ SelectDue(u)
  <2>1. PumpStep(w)
    BY <1>2 DEF Pumping
  <2>2. CASE SelectDue(w)
    BY <1>1, <2>2 DEF SelectDue
  <2>3. CASE PushRetry(w) \/ PushResent(w)
    <3>1. pump'[u].todo = pump[u].todo
      BY <1>1, <2>3 DEF PushRetry, PushResent
    <3>. QED
      BY <3>1
  <2>4. ASSUME NEW s \in pump[w].todo,
               Requeue(w, s) \/ RequeueNothing(w, s) \/ RequeueFails(w, s)
        PROVE  FALSE
    <3>1. pump'[u].todo \subseteq pump[u].todo
      BY <1>1, <2>4 DEF Requeue, RequeueNothing, RequeueFails
    <3>. QED
      BY <3>1
  <2>. QED
    BY <2>1, <2>2, <2>3, <2>4 DEF PumpStep
<1>4. PICK S \in SUBSET DueRows : pump'[u].todo = {[job |-> j, n |-> attempts[j]] : j \in S}
  BY <1>1, <1>3 DEF SelectDue
<1>5. PICK j \in S : t = [job |-> j, n |-> attempts[j]]
  BY <1>4
<1>6. j \in Job /\ status[j] = "retry" /\ due[j]
  BY <1>4, <1>5 DEF DueRows
<1>. QED
  BY <1>2, <1>3, <1>5, <1>6 DEF Pumping, SelectDue, storeVars, taskVars

\* An attempt of the job leaves the record on the list behind; until then the row
\* can only leave 'retry' or keep waiting for the pump.
LEMMA SelectedNext == ExecInv /\ Selected /\ [Next]_vars => Selected'
<1>. SUFFICES ASSUME ExecInv, Selected, [Next]_vars,
                     NEW u \in Pump, NEW t \in pump'[u].todo
              PROVE  /\ t.n <= attempts'[t.job]
                     /\ t.n = attempts'[t.job] =>
                          t.job \notin Executing' /\ (status'[t.job] = "retry" => due'[t.job])
  BY DEF Selected
<1>0. attempts \in [Job -> Nat] /\ TypeOK /\ TypeOK' /\ [Lifecycle!Next]_Lifecycle!vars
  BY TypeNext, NextRefines DEF ExecInv, TypeOK, StoreTypeOK
<1>1. CASE t \notin pump[u].todo
  <2>1. /\ t.job \in Job /\ t.n = attempts[t.job]
        /\ status[t.job] = "retry" /\ due[t.job]
        /\ UNCHANGED <<status, attempts, due>> /\ UNCHANGED workerVars
    BY <1>1, ListGrows
  <2>2. t.job \notin Executing'
    BY <2>1, SameExecuting DEF ExecInv, SingleExecution
  <2>. QED
    BY <1>0, <2>1, <2>2
<1>2. CASE t \in pump[u].todo
  <2>1. t.job \in Job /\ t.n \in Nat
    BY <1>0, <1>2 DEF TypeOK, PumpTypeOK
  <2>2. /\ t.n <= attempts[t.job]
        /\ t.n = attempts[t.job] =>
             t.job \notin Executing /\ (status[t.job] = "retry" => due[t.job])
    BY <1>2 DEF Selected
  <2>3. CASE attempts'[t.job] = attempts[t.job] + 1
    BY <1>0, <2>1, <2>2, <2>3
  <2>4. CASE attempts'[t.job] = attempts[t.job]
    <3>. SUFFICES ASSUME t.n = attempts[t.job]
                  PROVE  t.job \notin Executing' /\ (status'[t.job] = "retry" => due'[t.job])
      BY <2>2, <2>4
    <3>1. /\ t.job \notin Executing'
          /\ status'[t.job] = "retry" => status[t.job] = "retry"
      BY <1>0, <2>1, <2>2, <2>4, LifecycleAttempt
    <3>. QED
      BY <2>1, <2>2, <3>1, RetryRowKept
  <2>. QED
    BY <1>0, <2>1, <2>3, <2>4, LifecycleAttempt
<1>. QED
  BY <1>1, <1>2

\* However many pumps there are, a row is requeued before its backoff has elapsed
\* only by a pump that selected it for an earlier attempt of the job.
THEOREM BackoffKept == Spec => BackoffRespected
<1>. DEFINE Waited ==
       \A j \in Job : status[j] = "retry" /\ status'[j] = "queued" =>
         due[j] \/ \E w \in Pump : \E t \in pump[w].todo \ pump'[w].todo :
                      t.job = j /\ t.n < attempts[j]
<1>1. Init => Selected
  BY DEF Init, PumpInit, PumpIdle, Selected
<1>2. ExecInv /\ Selected /\ [Next]_vars => Selected'
  BY SelectedNext
<1>3. ExecInv /\ Selected /\ [Next]_vars => [Waited]_vars
  <2>. SUFFICES ASSUME ExecInv, Selected, [Next]_vars,
                       NEW j \in Job, status[j] = "retry", status'[j] = "queued", ~due[j]
                PROVE  \E w \in Pump : \E t \in pump[w].todo \ pump'[w].todo :
                         t.job = j /\ t.n < attempts[j]
    OBVIOUS
  <2>1. PICK w \in Pump : Pumping(w)
    BY RetryRowKept
  <2>2. /\ status \in [Job -> Status] /\ attempts \in [Job -> Nat]
        /\ pump \in [Pump -> [todo : SUBSET [job : Job, n : Nat], push : Job \union {NoJob}]]
    BY DEF ExecInv, TypeOK, StoreTypeOK, PumpTypeOK
  <2>3. PICK t \in pump[w].todo : Requeue(w, t) \/ RequeueFails(w, t)
    BY <2>1, <2>2 DEF Pumping, PumpStep, SelectDue, PushRetry, PushResent, Resent,
       RequeueNothing, storeVars, taskVars
  <2>4. t.job = j /\ t \notin pump'[w].todo
    BY <2>2, <2>3 DEF Requeue, RequeueFails, RequeueTask, SetStatus, taskVars
  <2>5. t.n < attempts[j]
    BY <2>2, <2>4 DEF Selected
  <2>. QED
    BY <2>4, <2>5
<1>4. BackoffRespected <=> [][Waited]_vars
  BY DEF BackoffRespected
<1>. HIDE DEF Waited
<1>. QED
  BY <1>1, <1>2, <1>3, <1>4, ExecInvariant, PTL DEF Spec
=============================================================================

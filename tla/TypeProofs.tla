----------------------------- MODULE TypeProofs -----------------------------
(***************************************************************************)
(* Type correctness of the scheduler: TypeOK is an inductive invariant.    *)
(* One lemma per component; those of the worker rest on WorkerProofs.      *)
(***************************************************************************)
EXTENDS Scheduler, WorkerProofs

-----------------------------------------------------------------------------
\* Commands that are applied once more than they were called

\* A handler's resent push or removal changes the lists and counts a fault,
LEMMA CallResentStep ==
  ASSUME TypeOK, NEW c \in Client, CallResent(c)
  PROVE  RedisOK' /\ faults' = faults + 1 /\ UNCHANGED <<taskVars, rows, apiVars>>
<1>1. /\ call[c].pc # "idle" => call[c].job \in Job /\ JobPriority[call[c].job] \in Priority
      /\ RedisOK
  BY PriorityTypes, StoreParts DEF TypeOK, ApiTypeOK
<1>. QED
  BY <1>1, LPushType, LRemAllType DEF CallResent, Resent, Fault

\* so does a pump's push,
LEMMA PushResentStep ==
  ASSUME TypeOK, NEW w \in Pump, PushResent(w)
  PROVE  /\ RedisOK' /\ faults' = faults + 1 /\ UNCHANGED <<taskVars, rows, pump>>
         /\ pump[w].push \in Job /\ JobPriority[pump[w].push] \in Priority
         /\ LPush(JobPriority[pump[w].push], pump[w].push)
<1>1. pump[w].push \in Job /\ JobPriority[pump[w].push] \in Priority /\ RedisOK
  BY PriorityTypes, StoreParts DEF TypeOK, PumpTypeOK, PushResent
<1>. QED
  BY <1>1, LPushType DEF PushResent, Resent, Fault

\* and a reaper's command, which is about a job or takes the rightmost entry.
LEMMA ReaperResentStep ==
  ASSUME TypeOK, NEW w \in Reap, ReaperResent(w)
  PROVE  /\ RedisOK' /\ faults' = faults + 1 /\ UNCHANGED <<taskVars, rows, reaper>>
         /\ swept' \subseteq Job
<1>1. /\ Head(reaper[w].todo) \in Job /\ JobPriority[Head(reaper[w].todo)] \in Priority
      /\ RedisOK /\ swept \subseteq Job
  BY PriorityTypes, HeadTailProperties, StoreParts DEF TypeOK, ReaperTypeOK, ReaperResent
<1>2. processing # << >> => Last(processing) \in Job
  BY <1>1, FrontLastType DEF RedisOK
<1>3. /\ RedisOK'
      /\ Touch(Head(reaper[w].todo)) \/ (processing # << >> /\ Touch(Last(processing)))
  BY <1>1, LMoveType, LPushType, LRemProcessingType DEF ReaperResent, Resent, LMove
<1>. QED
  BY <1>1, <1>2, <1>3 DEF ReaperResent, Resent, Fault, Touch

-----------------------------------------------------------------------------
\* Components

\* A step of a handler keeps every type: past the first step it has a job.
LEMMA ApiTypes ==
  ASSUME TypeOK, NEW c \in Client, Api(c)
  PROVE  TypeOK'
<1>. USE DEF storeVars, apiVars
<1>0. /\ TasksOK /\ RowsOK /\ RedisOK /\ faults \in Nat /\ ApiTypeOK
      /\ WorkerTypeOK /\ PumpTypeOK /\ ReaperTypeOK
  BY StoreParts DEF TypeOK
<1>1. WorkerTypeOK' /\ PumpTypeOK' /\ ReaperTypeOK'
  BY <1>0 DEF Api, WorkerTypeOK, PumpTypeOK, ReaperTypeOK, workerVars, reaperVars
<1>2. SUFFICES TasksOK' /\ RowsOK' /\ RedisOK' /\ faults' \in Nat /\ ApiTypeOK'
  BY <1>1, StoreParts DEF TypeOK
<1>3. /\ call \in [Client -> [pc : CallPC, job : Job \union {NoJob}, seen : Status]]
      /\ call[c].pc # "idle" => call[c].job \in Job /\ JobPriority[call[c].job] \in Priority
      /\ acked \subseteq Job
  BY <1>0, PriorityTypes DEF ApiTypeOK
<1>r. ASSUME Return(c), acked' \subseteq Job  PROVE ApiTypeOK'
  BY <1>0, <1>r DEF ApiTypeOK, Return, NoCall, CallPC, Status
<1>g. ASSUME NEW pc \in CallPC, Goto(c, pc), call[c].pc # "idle", acked' \subseteq Job
      PROVE ApiTypeOK'
  BY <1>0, <1>g DEF ApiTypeOK, Goto, CallPC
<1>4. CASE CreateJob(c)
  BY <1>0, <1>3, <1>4, <1>g, GuardedUpdateType, RedisUnchangedType DEF CreateJob, CallPC
<1>5. CASE CreateConflict(c)
  BY <1>0, <1>3, <1>5, <1>r, SqlUnchangedType, RedisUnchangedType DEF CreateConflict
<1>6. CASE CreateFails(c)
  BY <1>0, <1>3, <1>6, <1>r, GuardedUpdateType, SqlUnchangedType, RedisUnchangedType,
     FaultType DEF CreateFails
<1>7. CASE PushJob(c)
  BY <1>0, <1>3, <1>7, <1>r, LPushType, SqlUnchangedType, RedisUnchangedType,
     FaultType DEF PushJob, Redis
<1>8. CASE UpdateCancelled(c)
  BY <1>0, <1>3, <1>8, <1>r, <1>g, GuardedUpdateType, RedisUnchangedType
     DEF UpdateCancelled, CallPC
<1>9. CASE NotCancellable(c)
  BY <1>0, <1>3, <1>9, <1>r, SqlUnchangedType, RedisUnchangedType DEF NotCancellable
<1>10. CASE CancelFails(c)
  BY <1>0, <1>3, <1>10, <1>r, GuardedUpdateType, SqlUnchangedType, RedisUnchangedType,
     FaultType DEF CancelFails
<1>11. CASE RemoveQueued(c)
  BY <1>0, <1>3, <1>11, <1>r, LRemAllType, SqlUnchangedType, RedisUnchangedType,
     FaultType DEF RemoveQueued, Redis
<1>12. CASE CallAborts(c)
  BY <1>0, <1>3, <1>12, <1>r, SqlUnchangedType, RedisUnchangedType, FaultType DEF CallAborts
<1>13. ASSUME NEW j \in Job, SubmitJob(c, j) \/ CancelJob(c, j)
       PROVE  TasksOK' /\ RowsOK' /\ RedisOK' /\ faults' \in Nat /\ ApiTypeOK'
  <2>1. UNCHANGED storeVars /\ UNCHANGED acked
    BY <1>13 DEF SubmitJob, CancelJob
  <2>2. ApiTypeOK'
    BY <1>0, <1>13 DEF ApiTypeOK, SubmitJob, CancelJob, CallPC, Status, TasksOK
  <2>. QED
    BY <1>0, <2>1, <2>2, SqlUnchangedType, RedisUnchangedType
<1>14. CASE CallResent(c)
  BY <1>0, <1>14, CallResentStep, SqlUnchangedType DEF ApiTypeOK
<1>. QED
  BY <1>4, <1>5, <1>6, <1>7, <1>8, <1>9, <1>10, <1>11, <1>12, <1>13, <1>14
     DEF Api, ApiStep, HandlerStep

\* A step of a worker loop keeps every type.
LEMMA LoopTypes ==
  ASSUME TypeOK, NEW w \in Worker, Loop(w)
  PROVE  TypeOK'
<1>1. StoreTypeOK' /\ WorkerTypeOK'
  BY LoopStepTypes DEF TypeOK, Loop
<1>2. ApiTypeOK' /\ PumpTypeOK' /\ ReaperTypeOK'
  BY DEF TypeOK, Loop, ApiTypeOK, PumpTypeOK, ReaperTypeOK, apiVars, reaperVars
<1>. QED
  BY <1>1, <1>2 DEF TypeOK

\* A step of a run keeps every type.
LEMMA RunTypes ==
  ASSUME TypeOK, NEW r \in runs, Run(r)
  PROVE  TypeOK'
<1>1. StoreTypeOK' /\ WorkerTypeOK'
  BY RunStepTypes DEF TypeOK, Run
<1>2. ApiTypeOK' /\ PumpTypeOK' /\ ReaperTypeOK'
  BY DEF TypeOK, Run, ApiTypeOK, PumpTypeOK, ReaperTypeOK, apiVars, reaperVars
<1>. QED
  BY <1>1, <1>2 DEF TypeOK

\* A step of a retry pump keeps every type.
LEMMA PumpTypes ==
  ASSUME TypeOK, NEW w \in Pump, Pumping(w)
  PROVE  TypeOK'
<1>. USE DEF storeVars
<1>0. /\ TasksOK /\ RowsOK /\ RedisOK /\ faults \in Nat /\ ApiTypeOK
      /\ WorkerTypeOK /\ PumpTypeOK /\ ReaperTypeOK
  BY StoreParts DEF TypeOK
<1>1. ApiTypeOK' /\ WorkerTypeOK' /\ ReaperTypeOK'
  BY <1>0 DEF Pumping, ApiTypeOK, WorkerTypeOK, ReaperTypeOK, apiVars, workerVars, reaperVars
<1>2. SUFFICES TasksOK' /\ RowsOK' /\ RedisOK' /\ faults' \in Nat /\ PumpTypeOK'
  BY <1>1, StoreParts DEF TypeOK
<1>3. pump[w].push # NoJob => pump[w].push \in Job /\ JobPriority[pump[w].push] \in Priority
  BY <1>0, PriorityTypes DEF PumpTypeOK
<1>4. CASE SelectDue(w)
  <2>1. PICK S \in SUBSET DueRows :
           pump' = [pump EXCEPT ![w].todo = {[job |-> j, n |-> attempts[j]] : j \in S}]
    BY <1>4 DEF SelectDue
  <2>2. {[job |-> j, n |-> attempts[j]] : j \in S} \in SUBSET [job : Job, n : Nat]
    BY <1>0 DEF DueRows, TasksOK
  <2>3. PumpTypeOK'
    BY <1>0, <2>1, <2>2 DEF PumpTypeOK
  <2>. QED
    BY <1>0, <1>4, <2>3, SqlUnchangedType, RedisUnchangedType DEF SelectDue
<1>5. CASE PushRetry(w)
  <2>1. PumpTypeOK'
    BY <1>0, <1>5 DEF PushRetry, PumpTypeOK
  <2>. QED
    BY <1>0, <1>3, <1>5, <2>1, LPushType, SqlUnchangedType, RedisUnchangedType, FaultType
       DEF PushRetry, Redis
<1>6. ASSUME NEW t \in pump[w].todo, Requeue(w, t)
      PROVE  TasksOK' /\ RowsOK' /\ RedisOK' /\ faults' \in Nat /\ PumpTypeOK'
  <2>1. PumpTypeOK' /\ t.job \in Job
    BY <1>0, <1>6 DEF Requeue, PumpTypeOK
  <2>. QED
    BY <1>0, <1>6, <2>1, GuardedUpdateType, RedisUnchangedType DEF Requeue
<1>7. ASSUME NEW t \in pump[w].todo, RequeueNothing(w, t)
      PROVE  TasksOK' /\ RowsOK' /\ RedisOK' /\ faults' \in Nat /\ PumpTypeOK'
  <2>1. PumpTypeOK' /\ t.job \in Job
    BY <1>0, <1>7 DEF RequeueNothing, PumpTypeOK
  <2>. QED
    BY <1>0, <1>7, <2>1, SqlUnchangedType, RedisUnchangedType DEF RequeueNothing
<1>8. ASSUME NEW t \in pump[w].todo, RequeueFails(w, t)
      PROVE  TasksOK' /\ RowsOK' /\ RedisOK' /\ faults' \in Nat /\ PumpTypeOK'
  <2>1. PumpTypeOK' /\ t.job \in Job
    BY <1>0, <1>8 DEF RequeueFails, PumpTypeOK
  <2>. QED
    BY <1>0, <1>8, <2>1, GuardedUpdateType, SqlUnchangedType, RedisUnchangedType, FaultType
       DEF RequeueFails
<1>9. CASE PushResent(w)
  BY <1>0, <1>9, PushResentStep, SqlUnchangedType DEF PumpTypeOK
<1>. QED
  BY <1>4, <1>5, <1>6, <1>7, <1>8, <1>9 DEF Pumping, PumpStep

\* A step of a reaper keeps every type: while it acts its snapshot has a head.
LEMMA ReaperTypes ==
  ASSUME TypeOK, NEW w \in Reap, Reaping(w)
  PROVE  TypeOK'
<1>. USE DEF storeVars
<1>0. /\ TasksOK /\ RowsOK /\ RedisOK /\ faults \in Nat /\ ApiTypeOK
      /\ WorkerTypeOK /\ PumpTypeOK /\ ReaperTypeOK
  BY StoreParts DEF TypeOK
<1>1. ApiTypeOK' /\ WorkerTypeOK' /\ PumpTypeOK'
  BY <1>0 DEF Reaping, ApiTypeOK, WorkerTypeOK, PumpTypeOK, apiVars, workerVars
<1>2. SUFFICES TasksOK' /\ RowsOK' /\ RedisOK' /\ faults' \in Nat /\ ReaperTypeOK'
  BY <1>1, StoreParts DEF TypeOK
<1>3. /\ reaper[w].todo \in Seq(Job)
      /\ reaper[w].todo # << >> =>
           /\ Head(reaper[w].todo) \in Job
           /\ JobPriority[Head(reaper[w].todo)] \in Priority
           /\ Tail(reaper[w].todo) \in Seq(Job)
      /\ reaper[w].act # "read" => reaper[w].todo # << >>
  BY <1>0, PriorityTypes, HeadTailProperties DEF ReaperTypeOK
<1>l. processing # << >> => Last(processing) \in Job
  BY <1>0, FrontLastType DEF RedisOK
<1>s. swept \subseteq Job
  BY <1>0 DEF ReaperTypeOK
<1>d. ASSUME NEW act \in ReaperAct, Decide(w, act), reaper[w].todo # << >>, swept' \subseteq Job
      PROVE  ReaperTypeOK'
  BY <1>0, <1>d DEF Decide, ReaperTypeOK
<1>n. ASSUME NextItem(w), reaper[w].todo # << >>, swept' \subseteq Job
      PROVE  ReaperTypeOK'
  BY <1>0, <1>3, <1>n DEF NextItem, ReaperTypeOK, ReaperAct
<1>4. CASE Sweep(w)
  <2>1. ReaperTypeOK'
    BY <1>0, <1>4 DEF Sweep, ReaperTypeOK, RedisOK, ReaperIdle
  <2>. QED
    BY <1>0, <1>4, <2>1, SqlUnchangedType, RedisUnchangedType DEF Sweep
<1>5. CASE ReadStuck(w) \/ ReadFinished(w) \/ ReadOther(w)
  BY <1>0, <1>s, <1>5, <1>d, <1>n, SqlUnchangedType, RedisUnchangedType
     DEF ReadStuck, ReadFinished, ReadOther, Reading, ReaperAct
<1>6. CASE ReadFails(w)
  BY <1>0, <1>s, <1>6, <1>d, SqlUnchangedType, RedisUnchangedType, FaultType
     DEF ReadFails, Reading, ReaperAct
<1>7. CASE MoveBack(w)
  BY <1>0, <1>3, <1>l, <1>s, <1>7, <1>n, LMoveType, SqlUnchangedType DEF MoveBack, Touch, LMove
<1>8. CASE MoveNothing(w)
  BY <1>0, <1>3, <1>s, <1>8, <1>d, SqlUnchangedType, RedisUnchangedType DEF MoveNothing, ReaperAct
<1>9. CASE MoveFails(w)
  BY <1>0, <1>3, <1>l, <1>s, <1>9, <1>d, LMoveType, SqlUnchangedType, RedisUnchangedType, FaultType
     DEF MoveFails, ReaperAct, Touch, LMove
<1>10. CASE PushBack(w)
  BY <1>0, <1>3, <1>s, <1>10, <1>d, LPushType, SqlUnchangedType, RedisUnchangedType, FaultType
     DEF PushBack, Redis, ReaperAct, Touch
<1>11. CASE RemoveItem(w)
  BY <1>0, <1>3, <1>s, <1>11, <1>n, LRemProcessingType, SqlUnchangedType, RedisUnchangedType, FaultType
     DEF RemoveItem, Redis, Touch
<1>12. CASE ReaperResent(w)
  BY <1>0, <1>12, ReaperResentStep, SqlUnchangedType DEF ReaperTypeOK
<1>. QED
  BY <1>4, <1>5, <1>6, <1>7, <1>8, <1>9, <1>10, <1>11, <1>12 DEF Reaping, ReaperStep

\* A crash resets a worker to well-typed values.
LEMMA CrashTypes ==
  ASSUME TypeOK, NEW w \in Worker, WorkerCrash(w)
  PROVE  TypeOK'
<1>0. /\ TasksOK /\ RowsOK /\ RedisOK /\ faults \in Nat /\ ApiTypeOK
      /\ WorkerTypeOK /\ PumpTypeOK /\ ReaperTypeOK
  BY StoreParts DEF TypeOK
<1>1. StoreTypeOK'
  BY <1>0, StoreParts, SqlUnchangedType, RedisUnchangedType, FaultType DEF WorkerCrash
<1>2. ApiTypeOK'
  BY <1>0 DEF WorkerCrash, ApiTypeOK, apiVars
<1>3. WorkerTypeOK'
  BY <1>0, PriorityTypes DEF WorkerCrash, WorkerLost, WorkerTypeOK, LoopTop, AtTop, LoopPC
<1>4. PumpTypeOK'
  BY <1>0 DEF WorkerCrash, PumpTypeOK, PumpIdle
<1>5. ReaperTypeOK'
  <2>1. ReaperIdle \in [todo : Seq(Job), act : ReaperAct] /\ ReaperIdle.act = "read"
    BY EmptySeq DEF ReaperIdle, ReaperAct
  <2>. QED
    BY <1>0, <2>1 DEF WorkerCrash, ReaperTypeOK
<1>. QED
  BY <1>1, <1>2, <1>3, <1>4, <1>5 DEF TypeOK

\* Time changes two flags.
LEMMA TimeTypes ==
  ASSUME TypeOK, NEW j \in Job, TimePasses(j)
  PROVE  TypeOK'
<1>1. StoreTypeOK'
  BY DEF TypeOK, TimePasses, BackoffElapses, GrowsStale, StoreTypeOK, redisVars
<1>2. ApiTypeOK' /\ WorkerTypeOK' /\ PumpTypeOK' /\ ReaperTypeOK'
  BY DEF TypeOK, TimePasses, ApiTypeOK, WorkerTypeOK, PumpTypeOK, ReaperTypeOK,
     apiVars, workerVars, reaperVars
<1>. QED
  BY <1>1, <1>2 DEF TypeOK

-----------------------------------------------------------------------------
\* The invariant

\* In the initial state every variable is well typed.
LEMMA TypeInit == Init => TypeOK
<1>. SUFFICES ASSUME Init PROVE TypeOK
  OBVIOUS
<1>1. StoreTypeOK
  BY EmptySeq DEF Init, StoreInit, StoreTypeOK, Status
<1>2. ApiTypeOK
  BY DEF Init, ApiInit, ApiTypeOK, NoCall, CallPC, Status
<1>3. WorkerTypeOK
  BY PriorityTypes DEF Init, WorkerInit, WorkerTypeOK, AtTop, LoopPC
<1>4. PumpTypeOK
  BY DEF Init, PumpInit, PumpTypeOK, PumpIdle
<1>5. ReaperTypeOK
  <2>1. ReaperIdle \in [todo : Seq(Job), act : ReaperAct] /\ ReaperIdle.act = "read"
    BY EmptySeq DEF ReaperIdle, ReaperAct
  <2>. QED
    BY <2>1 DEF Init, ReaperInit, ReaperTypeOK
<1>. QED
  BY <1>1, <1>2, <1>3, <1>4, <1>5 DEF TypeOK

\* Every step of every process, every fault and the passing of time keep it so.
LEMMA TypeNext == TypeOK /\ [Next]_vars => TypeOK'
<1>. SUFFICES ASSUME TypeOK, [Next]_vars PROVE TypeOK'
  OBVIOUS
<1>1. CASE UNCHANGED vars
  BY <1>1 DEF TypeOK, StoreTypeOK, ApiTypeOK, WorkerTypeOK, PumpTypeOK, ReaperTypeOK,
     vars, storeVars, taskVars, redisVars, apiVars, workerVars, reaperVars
<1>2. CASE Next
  BY <1>2, ApiTypes, LoopTypes, RunTypes, PumpTypes, ReaperTypes, CrashTypes, TimeTypes
     DEF Next
<1>. QED
  BY <1>1, <1>2

\* Every variable of the stores and of the processes keeps its type: what is in
\* a list is a job, a handler past its first step has one, and so on.
THEOREM TypeCorrect == Spec => []TypeOK
BY TypeInit, TypeNext, PTL DEF Spec
=============================================================================

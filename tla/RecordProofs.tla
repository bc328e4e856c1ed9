---------------------------- MODULE RecordProofs ----------------------------
(***************************************************************************)
(* What the scheduler keeps about a job outside its row: the rows of       *)
(* task_attempts, the entries in the Redis lists, the hands of a worker.   *)
(* No statement updates two of them together, so the theorems say how far  *)
(* they agree while no call fails: an audit row stays open only while some *)
(* process is still to close the rows of its job; a running job is being   *)
(* executed; a queued job can be reached by a worker; and every entry of a *)
(* job no reaper has touched is accounted for by the process that is to    *)
(* push it, to claim its job, or to remove it.  They also say what does    *)
(* not come back together after a fault, and which queue an entry is in.   *)
(***************************************************************************)
EXTENDS ExecutionProofs

-----------------------------------------------------------------------------
\* task_attempts

\* Jobs whose claim has no audit row yet, and jobs some process is to close the
\* rows of.
Inserting == {loop[w].job : w \in {u \in Worker : loop[u].pc = "insert"}}
Unclosed  == {loop[w].job : w \in {u \in Worker : loop[u].pc \in OwnerPC}}
             \union {r.job : r \in {s \in runs : s.pc # "lrem"}}

Numbers(j) == {r.n : r \in {s \in rows : s.job = j}}

Audited ==
    /\ \A j \in Job : Numbers(j) = 1..(IF j \in Inserting THEN attempts[j] - 1 ELSE attempts[j])
    /\ \A r, s \in rows : r.job = s.job /\ r.n = s.n => r = s
    /\ \A r \in rows : r.res = "open" => r.job \in Unclosed
    /\ \A j \in Inserting : attempts[j] >= 1
    /\ \A w \in Worker : loop[w].pc # "markfailed"

AuditInv == faults = 0 => Audited

\* Steps that write no audit row and claim no job.
LEMMA AuditKept ==
  ASSUME AuditInv, faults \in Nat, faults' \in {faults, faults + 1},
         UNCHANGED <<rows, attempts>>, Inserting' = Inserting, Unclosed \subseteq Unclosed',
         \A w \in Worker : loop[w].pc # "markfailed" => loop'[w].pc # "markfailed"
  PROVE  AuditInv'
<1>. SUFFICES ASSUME faults' = 0 PROVE Audited'
  BY DEF AuditInv
<1>1. Audited
  BY DEF AuditInv
<1>2. \A j \in Job : Numbers(j) = {r.n : r \in {s \in rows' : s.job = j}}
  BY DEF Numbers
<1>. QED
  BY <1>1, <1>2 DEF Audited, Numbers

\* The API server, the pumps, the reapers, time.
LEMMA OthersAudit ==
  ASSUME ExecInv, AuditInv,
         \/ \E c \in Client : Api(c)
         \/ \E w \in Pump : Pumping(w)
         \/ \E w \in Reap : Reaping(w)
         \/ \E j \in Job : TimePasses(j)
         \/ UNCHANGED vars
  PROVE  AuditInv'
<1>. USE DEF storeVars, taskVars
<1>1. UNCHANGED workerVars /\ faults \in Nat
  BY DEF Api, Pumping, Reaping, TimePasses, vars, ExecInv, TypeOK, StoreTypeOK
<1>2. UNCHANGED <<rows, attempts>> /\ faults' \in {faults, faults + 1}
  <2>1. CASE \E c \in Client : Api(c)
    BY <2>1 DEF Api, ApiStep, HandlerStep, CreateJob, CreateConflict, CreateFails, PushJob,
         UpdateCancelled, NotCancellable, CancelFails, RemoveQueued, CallAborts, CallResent,
         SubmitJob, CancelJob, Redis, Resent, Fault, InsertTask, CancelTask, SetStatus
  <2>2. CASE \E w \in Pump : Pumping(w)
    BY <2>2 DEF Pumping, PumpStep, SelectDue, PushRetry, PushResent, Requeue, RequeueNothing,
         RequeueFails, Redis, Resent, Fault, RequeueTask, SetStatus
  <2>3. CASE \E w \in Reap : Reaping(w)
    BY <2>3 DEF Reaping, ReaperStep, Sweep, ReadStuck, ReadFinished, ReadOther, ReadFails,
         MoveBack, MoveNothing, MoveFails, PushBack, RemoveItem, ReaperResent, Redis, Resent, Fault
  <2>4. CASE (\E j \in Job : TimePasses(j)) \/ UNCHANGED vars
    BY <2>4 DEF TimePasses, BackoffElapses, GrowsStale, vars
  <2>. QED
    BY <2>1, <2>2, <2>3, <2>4
<1>3. Inserting' = Inserting /\ Unclosed' = Unclosed
  BY <1>1 DEF workerVars, Inserting, Unclosed
<1>. QED
  BY <1>1, <1>2, <1>3, AuditKept DEF workerVars

\* claimJob: the number of the claim is one more than that of the last row.
LEMMA ClaimAudit ==
  ASSUME ExecInv, AuditInv, NEW w \in Worker, Claim(w)
  PROVE  AuditInv'
<1>. DEFINE j == loop[w].job
<1>1. /\ j \in Job /\ status[j] = "queued" /\ loop[w].pc = "claim"
      /\ attempts' = [attempts EXCEPT ![j] = @ + 1]
      /\ attempts \in [Job -> Nat] /\ UNCHANGED <<rows, runs, faults>>
      /\ loop'[w].pc = "insert" /\ loop'[w].job = j
      /\ \A u \in Worker : u # w => loop'[u] = loop[u]
  BY DEF ExecInv, TypeOK, WorkerTypeOK, Claim, ClaimTask, StoreTypeOK, LoopGoto
<1>2. j \notin Inserting
  BY <1>1 DEF ExecInv, SingleExecution, Executing, Owns, OwnerPC, Inserting
<1>3. Inserting' = Inserting \union {j} /\ Unclosed \subseteq Unclosed'
  BY <1>1 DEF Inserting, Unclosed, OwnerPC
<1>. HIDE DEF j
<1>. SUFFICES ASSUME Audited PROVE Audited'
  BY <1>1 DEF AuditInv
<1>4. \A k \in Job : Numbers(k) = {r.n : r \in {s \in rows' : s.job = k}}
  BY <1>1 DEF Numbers
<1>5. \A k \in Job : {r.n : r \in {s \in rows' : s.job = k}} =
         1..(IF k \in Inserting' THEN attempts'[k] - 1 ELSE attempts'[k])
  <2>. TAKE k \in Job
  <2>1. CASE k = j
    BY <1>1, <1>2, <1>3, <1>4, <2>1 DEF Audited
  <2>2. CASE k # j
    BY <1>1, <1>3, <1>4, <2>2 DEF Audited
  <2>. QED
    BY <2>1, <2>2
<1>. QED
  BY <1>1, <1>3, <1>5 DEF Audited, Numbers

\* db.InsertAttempt adds the row of the claim.
LEMMA InsertAudit ==
  ASSUME ExecInv, AuditInv, NEW w \in Worker, RecordAttempt(w)
  PROVE  AuditInv'
<1>. DEFINE j == loop[w].job
            new == [job |-> j, n |-> attempts[j], res |-> "open"]
<1>0. faults \in Nat
  BY DEF ExecInv, TypeOK, StoreTypeOK
<1>. SUFFICES ASSUME faults' = 0, Audited PROVE Audited'
  BY <1>0 DEF AuditInv, RecordAttempt, Sql, Fault
<1>1. /\ j \in Job /\ loop[w].pc = "insert" /\ attempts \in [Job -> Nat]
      /\ rows' = rows \union {new} /\ UNCHANGED <<attempts, runs>>
      /\ loop'[w].pc = "load" /\ loop'[w].job = j
      /\ \A u \in Worker : u # w => loop'[u] = loop[u]
  BY <1>0 DEF ExecInv, TypeOK, WorkerTypeOK, RecordAttempt, Sql, Fault, InsertAttempt,
     StoreTypeOK, LoopGoto, taskVars
<1>2. \A u \in Worker : u # w /\ loop[u].pc = "insert" => loop[u].job # j
  BY <1>1 DEF ExecInv, SingleExecution, Owns, OwnerPC
<1>3. j \in Inserting /\ Inserting' = Inserting \ {j} /\ Unclosed' = Unclosed /\ j \in Unclosed
  <2>1. j \in Inserting /\ j \in Unclosed
    BY <1>1 DEF Inserting, Unclosed, OwnerPC
  <2>2. Inserting' = Inserting \ {j}
    BY <1>1, <1>2 DEF Inserting
  <2>3. Unclosed' = Unclosed
    BY <1>1 DEF Unclosed, OwnerPC
  <2>. QED
    BY <2>1, <2>2, <2>3
<1>4. new.job = j /\ new.n = attempts[j]
  OBVIOUS
<1>. HIDE DEF j, new
<1>5. Numbers(j) = 1..(attempts[j] - 1)
  BY <1>1, <1>3 DEF Audited
<1>6. attempts[j] \notin Numbers(j)
  BY <1>1, <1>5
<1>7. attempts[j] >= 1
  BY <1>3 DEF Audited
<1>8. \A k \in Job : {r.n : r \in {s \in rows' : s.job = k}} =
         1..(IF k \in Inserting' THEN attempts'[k] - 1 ELSE attempts'[k])
  <2>. TAKE k \in Job
  <2>1. CASE k = j
    <3>1. {r.n : r \in {s \in rows' : s.job = k}} = Numbers(j) \union {attempts[j]}
      BY <1>1, <1>4, <2>1 DEF Numbers
    <3>2. 1..attempts[j] = 1..(attempts[j] - 1) \union {attempts[j]}
      BY <1>1, <1>7
    <3>. QED
      BY <1>1, <1>3, <1>5, <2>1, <3>1, <3>2
  <2>2. CASE k # j
    <3>1. {r.n : r \in {s \in rows' : s.job = k}} = Numbers(k)
      BY <1>1, <1>4, <2>2 DEF Numbers
    <3>. QED
      BY <1>1, <1>3, <2>2, <3>1 DEF Audited
  <2>. QED
    BY <2>1, <2>2
<1>9. \A r, s \in rows' : r.job = s.job /\ r.n = s.n => r = s
  <2>1. \A r \in rows : r.job = j => r.n # attempts[j]
    BY <1>6 DEF Numbers
  <2>. QED
    BY <1>1, <1>4, <2>1 DEF Audited
<1>. QED
  BY <1>1, <1>3, <1>4, <1>8, <1>9 DEF Audited, Numbers

\* Every step of the loop: without faults it claims, inserts and spawns.
LEMMA LoopAudit ==
  ASSUME ExecInv, AuditInv, NEW w \in Worker, Loop(w)
  PROVE  AuditInv'
<1>. USE DEF storeVars, taskVars
<1>1. /\ LoopStep(w) /\ faults \in Nat
      /\ loop \in [Worker -> [pc : LoopPC, at : 1..Len(Priorities), job : Job \union {NoJob}]]
  BY DEF Loop, ExecInv, TypeOK, StoreTypeOK, WorkerTypeOK
<1>2. CASE PopFails(w) \/ ClaimFails(w) \/ LoadFails(w) \/ LoopResent(w)
  BY <1>1, <1>2 DEF PopFails, ClaimFails, LoadFails, LoopResent, Resent, Fault, AuditInv
<1>3. CASE Claim(w)
  BY <1>3, ClaimAudit
<1>4. CASE RecordAttempt(w)
  BY <1>4, InsertAudit
<1>5. CASE MarkFailed(w)
  BY <1>1, <1>5 DEF MarkFailed, Sql, Fault, AuditInv, Audited
<1>6. CASE Pop(w) \/ PollEmpty(w) \/ NotClaimed(w) \/ GiveBack(w) \/ Drop(w)
  <2>1. /\ UNCHANGED <<rows, attempts, runs>> /\ faults' \in {faults, faults + 1}
        /\ loop[w].pc \in {"poll", "claim", "giveback", "drop"}
    BY <1>6 DEF Pop, PollEmpty, NotClaimed, GiveBack, Drop, Redis, Fault, BRPopLPush
  <2>2. /\ loop'[w].pc \in {"poll", "claim", "drop"}
        /\ \A u \in Worker : u # w => loop'[u] = loop[u]
    BY <1>1, <1>6 DEF Pop, PollEmpty, NotClaimed, GiveBack, Drop, NextQueue, LoopGoto,
                      LoopTop, AtTop
  <2>3. Inserting' = Inserting /\ Unclosed' = Unclosed
    BY <2>1, <2>2 DEF Inserting, Unclosed, OwnerPC
  <2>4. \A u \in Worker : loop[u].pc # "markfailed" => loop'[u].pc # "markfailed"
    BY <2>2
  <2>. QED
    BY <1>1, <2>1, <2>3, <2>4, AuditKept
<1>7. CASE Spawn(w)
  <2>. DEFINE new == [job |-> loop[w].job, n |-> attempts[loop[w].job],
                      worker |-> w, pc |-> "handler"]
  <2>1. /\ UNCHANGED <<rows, attempts, faults>>
        /\ loop[w].pc = "load" /\ loop'[w].pc = "poll"
        /\ \A u \in Worker : u # w => loop'[u] = loop[u]
        /\ runs' = runs \union {new}
    BY <1>1, <1>7 DEF Spawn, LoopTop, AtTop
  <2>2. new.pc = "handler" /\ new.job = loop[w].job
    OBVIOUS
  <2>. HIDE DEF new
  <2>3. Inserting' = Inserting
    BY <2>1 DEF Inserting
  <2>4. Unclosed \subseteq Unclosed'
    BY <2>1, <2>2 DEF Unclosed, OwnerPC
  <2>5. \A u \in Worker : loop[u].pc # "markfailed" => loop'[u].pc # "markfailed"
    BY <2>1
  <2>. QED
    BY <1>1, <2>1, <2>3, <2>4, <2>5, AuditKept
<1>. QED
  BY <1>1, <1>2, <1>3, <1>4, <1>5, <1>6, <1>7 DEF LoopStep

\* The audit update closes every open row of the run's job.
LEMMA CloseAudit ==
  ASSUME ExecInv, AuditInv, NEW r \in runs, CloseAttempt(r)
  PROVE  AuditInv'
<1>0. faults \in Nat
  BY DEF ExecInv, TypeOK, StoreTypeOK
<1>. SUFFICES ASSUME faults' = 0, Audited PROVE Audited'
  BY <1>0 DEF AuditInv, CloseAttempt, Sql, Fault
<1>1. PICK res \in {"ok", "failed"} : UpdateAttempt(r.job, res)
  BY <1>0 DEF CloseAttempt, Sql, Fault
<1>. DEFINE closed(s) == IF s.job = r.job /\ s.res = "open" THEN [s EXCEPT !.res = res] ELSE s
            new == [r EXCEPT !.pc = "lrem"]
<1>2. /\ rows' = {closed(s) : s \in rows} /\ UNCHANGED <<attempts, loop>>
      /\ runs' = (runs \ {r}) \union {new}
  BY <1>1 DEF CloseAttempt, UpdateAttempt, RunGoto, taskVars
<1>3. new.job = r.job /\ rows \subseteq [job : Job, n : Nat, res : {"open", "ok", "failed"}]
  BY DEF ExecInv, TypeOK, WorkerTypeOK, StoreTypeOK
<1>4. \A s \in rows : /\ closed(s).job = s.job /\ closed(s).n = s.n
                      /\ closed(s).res = "open" => s.res = "open" /\ s.job # r.job
  BY <1>1, <1>3
<1>. HIDE DEF closed, new
<1>5. Inserting' = Inserting
  BY <1>2 DEF Inserting
<1>6. \A j \in Job : {s.n : s \in {t \in rows' : t.job = j}} = Numbers(j)
  BY <1>2, <1>4 DEF Numbers
<1>7. \A s, t \in rows' : s.job = t.job /\ s.n = t.n => s = t
  <2>. SUFFICES ASSUME NEW s \in rows, NEW t \in rows, s.job = t.job, s.n = t.n
                PROVE  s = t
    BY <1>2, <1>4
  <2>. QED
    BY DEF Audited
<1>8. \A s \in rows' : s.res = "open" => s.job \in Unclosed'
  <2>. SUFFICES ASSUME NEW s \in rows, s.res = "open", s.job # r.job
                PROVE  s.job \in Unclosed'
    BY <1>2, <1>4
  <2>1. s.job \in Unclosed
    BY DEF Audited
  <2>. QED
    BY <1>2, <2>1 DEF Unclosed
<1>. QED
  BY <1>2, <1>5, <1>6, <1>7, <1>8 DEF Audited, Numbers

\* Every step of a run: until it is to end, it still has rows to close.
LEMMA RunAudit ==
  ASSUME ExecInv, AuditInv, NEW r \in runs, Run(r)
  PROVE  AuditInv'
<1>. USE DEF storeVars, taskVars
<1>1. /\ RunStep(r) /\ faults \in Nat
      /\ r \in [job : Job, n : Nat, worker : Worker, pc : RunPC]
  BY DEF Run, ExecInv, TypeOK, StoreTypeOK, WorkerTypeOK
<1>2. CASE MarkSucceededFails(r) \/ RunResent(r)
  BY <1>1, <1>2 DEF MarkSucceededFails, RunResent, Resent, Fault, AuditInv
<1>3. CASE CloseAttempt(r)
  BY <1>3, CloseAudit
<1>4. CASE Finish(r)
  <2>1. /\ r.pc = "lrem" /\ runs' = runs \ {r} /\ UNCHANGED <<rows, attempts, loop>>
        /\ faults' \in {faults, faults + 1}
    BY <1>4 DEF Finish, Redis, Fault
  <2>2. Inserting' = Inserting /\ Unclosed \subseteq Unclosed'
    BY <2>1 DEF Inserting, Unclosed
  <2>. QED
    BY <1>1, <2>1, <2>2, AuditKept
<1>5. CASE HandlerSucceeds(r) \/ HandlerFails(r) \/ MarkSucceeded(r) \/ PushDlq(r)
           \/ MarkDeadLetter(r) \/ MarkRetry(r)
  <2>1. PICK pc \in RunPC \ {"lrem"} : RunGoto(r, pc)
    BY <1>5 DEF HandlerSucceeds, HandlerFails, MarkSucceeded, PushDlq, MarkDeadLetter,
       MarkRetry, RunPC
  <2>2. UNCHANGED <<rows, attempts, loop>> /\ faults' \in {faults, faults + 1}
    BY <1>5 DEF HandlerSucceeds, HandlerFails, MarkSucceeded, PushDlq, MarkDeadLetter,
       MarkRetry, Sql, Redis, Fault, SetStatus, RetryTask
  <2>. DEFINE new == [r EXCEPT !.pc = pc]
  <2>3. runs' = (runs \ {r}) \union {new} /\ new.job = r.job /\ new.pc # "lrem"
    BY <1>1, <2>1 DEF RunGoto
  <2>. HIDE DEF new
  <2>4. Inserting' = Inserting /\ Unclosed \subseteq Unclosed'
    BY <2>2, <2>3 DEF Inserting, Unclosed
  <2>. QED
    BY <1>1, <2>2, <2>4, AuditKept
<1>. QED
  BY <1>1, <1>2, <1>3, <1>4, <1>5 DEF RunStep

\* There are no claims and no audit rows at first.
LEMMA AuditInit == Init => AuditInv
<1>. SUFFICES ASSUME Init PROVE AuditInv
  OBVIOUS
<1>1. /\ rows = {} /\ Inserting = {} /\ \A w \in Worker : loop[w].pc # "markfailed"
      /\ \A j \in Job : attempts[j] = 0
  BY DEF Init, StoreInit, WorkerInit, AtTop, Inserting
<1>. QED
  BY <1>1 DEF AuditInv, Audited, Numbers

\* Every step keeps the audit rows complete.
LEMMA AuditNext == ExecInv /\ AuditInv /\ [Next]_vars => AuditInv'
<1>. SUFFICES ASSUME ExecInv, AuditInv, [Next]_vars PROVE AuditInv'
  OBVIOUS
<1>1. CASE \E w \in Worker : WorkerCrash(w)
  BY <1>1 DEF WorkerCrash, Fault, AuditInv, ExecInv, TypeOK, StoreTypeOK
<1>. QED
  BY <1>1, OthersAudit, LoopAudit, RunAudit DEF Next

\* One row per claim: the rows of a job map one to one to their numbers.
LEMMA RowsCounted ==
  ASSUME Audited, ExecInv, NEW j \in Job
  PROVE  Cardinality({r \in rows : r.job = j}) = Cardinality(Numbers(j))
<1>. DEFINE mine == {r \in rows : r.job = j}
            f == [r \in mine |-> r.n]
<1>1. f \in Injection(mine, Numbers(j)) /\ f \in Surjection(mine, Numbers(j))
  <2>1. f \in [mine -> Numbers(j)] /\ \A n \in Numbers(j) : \E r \in mine : f[r] = n
    BY DEF Numbers
  <2>2. \A r, s \in mine : f[r] = f[s] => r = s
    BY DEF Audited
  <2>. QED
    BY <2>1, <2>2 DEF Injection, Surjection, IsInjective
<1>2. attempts[j] \in Nat
  BY DEF ExecInv, TypeOK, StoreTypeOK
<1>3. IsFiniteSet(Numbers(j))
  <2>1. Numbers(j) = 1..(attempts[j] - 1) \/ Numbers(j) = 1..attempts[j]
    BY DEF Audited
  <2>. QED
    BY <1>2, <2>1, FS_Interval
<1>. QED
  BY <1>1, <1>3, FS_Injection

\* Without faults task_attempts tells the history of every job: a row for each
\* claim, one only, and none left unfinished once the job is done.
THEOREM ClaimsRecorded == Spec => []AuditComplete
<1>1. ExecInv /\ AuditInv => AuditComplete
  <2>. SUFFICES ASSUME ExecInv, AuditInv, faults = 0, NEW j \in Job
                PROVE  /\ Numbers(j) =
                             IF \E w \in Worker : Owns(w, j) /\ loop[w].pc = "insert"
                             THEN 1..(attempts[j] - 1) ELSE 1..attempts[j]
                       /\ Cardinality({r \in rows : r.job = j}) = Cardinality(Numbers(j))
                       /\ j \notin Executing /\ (\A r \in runs : r.job # j) =>
                            \A r \in rows : r.job = j => r.res # "open"
    BY DEF AuditComplete, Numbers
  <2>1. Audited
    BY DEF AuditInv
  <2>2. (\E w \in Worker : Owns(w, j) /\ loop[w].pc = "insert") <=> j \in Inserting
    BY DEF Owns, OwnerPC, Inserting
  <2>3. j \notin Executing /\ (\A r \in runs : r.job # j) => j \notin Unclosed
    BY DEF Executing, Owns, Unclosed
  <2>. QED
    BY <2>1, <2>2, <2>3, RowsCounted DEF Audited
<1>. QED
  BY <1>1, AuditInit, AuditNext, ExecInvariant, PTL DEF Spec

-----------------------------------------------------------------------------
\* Faults are counted, never forgotten.
LEMMA NoFaultYet ==
  ASSUME TypeOK, [Next]_vars, faults' = 0
  PROVE  faults = 0
<1>1. faults \in Nat
  BY DEF TypeOK, StoreTypeOK
<1>. USE DEF storeVars, taskVars, redisVars
<1>2. CASE \E c \in Client : Api(c)
  BY <1>1, <1>2 DEF Api, ApiStep, HandlerStep, CreateJob, CreateConflict, CreateFails, PushJob,
     UpdateCancelled, NotCancellable, CancelFails, RemoveQueued, CallAborts, CallResent, SubmitJob,
     CancelJob, Redis, Resent, Fault
<1>3. CASE \E w \in Worker : Loop(w)
  BY <1>1, <1>3 DEF Loop, LoopStep, Pop, PollEmpty, PopFails, Claim, NotClaimed, ClaimFails,
     GiveBack, RecordAttempt, Spawn, LoadFails, MarkFailed, Drop, LoopResent, Redis, Resent, Sql,
     Fault
<1>4. CASE \E r \in runs : Run(r)
  BY <1>1, <1>4 DEF Run, RunStep, HandlerSucceeds, HandlerFails, MarkSucceeded,
     MarkSucceededFails, PushDlq, MarkDeadLetter, MarkRetry, CloseAttempt, Finish, RunResent, Sql,
     Redis, Resent, Fault
<1>5. CASE \E w \in Pump : Pumping(w)
  BY <1>1, <1>5 DEF Pumping, PumpStep, SelectDue, PushRetry, PushResent, Requeue, RequeueNothing,
     RequeueFails, Redis, Resent, Fault
<1>6. CASE \E w \in Reap : Reaping(w)
  BY <1>1, <1>6 DEF Reaping, ReaperStep, Sweep, ReadStuck, ReadFinished, ReadOther, ReadFails,
     MoveBack, MoveNothing, MoveFails, PushBack, RemoveItem, ReaperResent, Redis, Resent, Fault
<1>7. CASE \E w \in Worker : WorkerCrash(w)
  BY <1>1, <1>7 DEF WorkerCrash, Fault
<1>8. CASE (\E j \in Job : TimePasses(j)) \/ UNCHANGED vars
  BY <1>8 DEF TimePasses, BackoffElapses, GrowsStale, vars
<1>. QED
  BY <1>2, <1>3, <1>4, <1>5, <1>6, <1>7, <1>8 DEF Next

-----------------------------------------------------------------------------
\* A running job is being executed

\* Executing, worker by worker.
LEMMA ExecutingWorking ==
  ASSUME WorkerTypeOK, NEW j \in Job
  PROVE  j \in Executing <=> \E w \in Worker : Working(w, j)
BY DEF WorkerTypeOK, Executing, Working

\* A claim puts the job into the claimer's hands before the row says 'running',
\* and without a fault it leaves them only with a report.
LEMMA RunningStep ==
  ASSUME TypeOK, [Next]_vars, UNCHANGED faults, NEW j \in Job,
         status[j] = "running" => j \in Executing, status'[j] = "running"
  PROVE  j \in Executing'
<1>. USE DEF storeVars, taskVars, redisVars
<1>0. /\ faults \in Nat /\ UNCHANGED faults /\ StoreTypeOK /\ WorkerTypeOK /\ WorkerTypeOK'
      /\ status \in [Job -> Status]
      /\ status[j] = "running" => \E w \in Worker : Working(w, j)
  BY TypeNext, ExecutingWorking DEF TypeOK, StoreTypeOK
<1>w. ASSUME NEW w \in Worker, Working(w, j)' PROVE j \in Executing'
  BY <1>w DEF Working, Executing
<1>1. CASE \E w \in Worker : Loop(w)
  <2>1. PICK w \in Worker : LoopStep(w)
    BY <1>1 DEF Loop
  <2>2. CASE status[j] # "running" \/ Working(w, j)
    BY <1>0, <1>w, <2>1, <2>2, LoopProgress
  <2>3. CASE status[j] = "running" /\ ~Working(w, j)
    <3>1. PICK u \in Worker : Owns(u, j) /\ u # w
      BY <1>0, <2>3 DEF Working
    <3>2. Owns(u, j)'
      BY <1>0, <2>1, <3>1 DEF WorkerTypeOK, LoopStep, Pop, PollEmpty, PopFails, Claim, NotClaimed,
         ClaimFails, GiveBack, RecordAttempt, Spawn, LoadFails, MarkFailed, Drop, LoopResent,
         workerVars, NextQueue, LoopGoto, LoopTop, Owns
    <3>. QED
      BY <3>2 DEF Executing
  <2>. QED
    BY <2>2, <2>3
<1>2. CASE \E r \in runs : Run(r)
  <2>1. PICK r \in runs : RunStep(r)
    BY <1>2 DEF Run
  <2>2. PICK w \in Worker : Working(w, j)
    BY <1>0, <2>1, RunProgress DEF WorkerTypeOK
  <2>. QED
    BY <1>0, <1>w, <2>1, <2>2, RunProgress
<1>3. ASSUME UNCHANGED workerVars, status'[j] = status[j]
      PROVE  j \in Executing'
  BY <1>0, <1>3 DEF workerVars, Working, Executing, Owns, Active
<1>4. CASE \E c \in Client : Api(c)
  BY <1>0, <1>3, <1>4 DEF Api, ApiStep, HandlerStep, CreateJob, CreateConflict, CreateFails,
     PushJob, UpdateCancelled, NotCancellable, CancelFails, RemoveQueued, CallAborts, CallResent,
     Resent, SubmitJob, CancelJob, InsertTask, CancelTask, SetStatus, TypeOK, ApiTypeOK
<1>5. CASE \E w \in Pump : Pumping(w)
  BY <1>0, <1>3, <1>5 DEF Pumping, PumpStep, SelectDue, PushRetry, PushResent, Resent, Requeue,
     RequeueNothing, RequeueFails, RequeueTask, SetStatus
<1>6. CASE \E w \in Reap : Reaping(w)
  BY <1>3, <1>6 DEF Reaping, ReaperStep, Sweep, ReadStuck, ReadFinished, ReadOther, ReadFails,
     MoveBack, MoveNothing, MoveFails, PushBack, RemoveItem, ReaperResent, Resent
<1>7. CASE \E w \in Worker : WorkerCrash(w)
  BY <1>0, <1>7 DEF WorkerCrash, Fault
<1>8. CASE (\E k \in Job : TimePasses(k)) \/ UNCHANGED vars
  BY <1>3, <1>8 DEF TimePasses, BackoffElapses, GrowsStale, vars
<1>. QED
  BY <1>1, <1>2, <1>4, <1>5, <1>6, <1>7, <1>8 DEF Next

\* Without faults, no step leaves a row 'running' with nobody executing the job.
LEMMA RunningNext == TypeOK /\ RunningExecuted /\ [Next]_vars => RunningExecuted'
BY NoFaultYet, RunningStep DEF RunningExecuted

\* Without faults no row is 'running' with nobody to report on it: every way out
\* of an execution that the code has ends in an UPDATE of the row.
THEOREM RunningIsTrue == Spec => []RunningExecuted
<1>1. Init => RunningExecuted
  BY DEF Init, StoreInit, RunningExecuted
<1>. QED
  BY <1>1, RunningNext, TypeCorrect, PTL DEF Spec

-----------------------------------------------------------------------------
\* A queued job is within reach

InQueue(j) == \E p \in Priority : Contains(queue[p], j)
Reach(j)   == InQueue(j) \/ Pushing(j) # {} \/ Claiming(j) # {}

\* Only requests that had their cancellation confirmed take entries away.
Reached ==
    /\ \A j \in Job : status[j] = "queued" /\ j \notin acked => Reach(j)
    /\ \A c \in Client : call[c].pc = "lrem" => call[c].job \in acked

ReachInv == faults = 0 => Reached

\* LPUSH brings its own job within reach and keeps the others there.
LEMMA LPushQueued ==
  ASSUME RedisOK, NEW p \in Priority, NEW e \in Job, LPush(p, e), NEW j,
         j = e \/ InQueue(j)
  PROVE  InQueue(j)'
<1>0. /\ queue \in [Priority -> Seq(Job)]
      /\ queue' = [queue EXCEPT ![p] = Cons(e, queue[p])]
  BY DEF RedisOK, LPush
<1>1. \A k : Contains(queue'[p], k) <=> k = e \/ Contains(queue[p], k)
  BY <1>0, ConsContains
<1>2. \A q \in Priority : q # p => queue'[q] = queue[q]
  BY <1>0
<1>. QED
  BY <1>1, <1>2 DEF InQueue

\* The handlers of SubmitJob and CancelJob.
LEMMA ApiReach ==
  ASSUME TypeOK, Reached, faults = 0, faults' = 0, NEW c \in Client, Api(c),
         NEW j \in Job, status'[j] = "queued", j \notin acked'
  PROVE  Reach(j)'
<1>. USE DEF storeVars, taskVars, redisVars
<1>0. /\ RedisOK /\ status \in [Job -> Status]
      /\ call \in [Client -> [pc : CallPC, job : Job \union {NoJob}, seen : Status]]
      /\ call[c].pc # "idle" => call[c].job \in Job /\ JobPriority[call[c].job] \in Priority
  BY PriorityTypes DEF TypeOK, StoreTypeOK, RedisOK, ApiTypeOK
<1>1. ApiStep(c) /\ UNCHANGED <<loop, pump>> /\ j \notin acked
  BY DEF Api, ApiStep, HandlerStep, CreateJob, CreateConflict, CreateFails, PushJob,
         UpdateCancelled, NotCancellable, CancelFails, RemoveQueued, CallAborts,
         CallResent, Resent, Fault, SubmitJob, CancelJob, workerVars
<1>2. Claiming(j)' = Claiming(j)
  BY <1>1 DEF Claiming, Holding
<1>3. CASE CreateJob(c)
  <2>1. /\ call'[c].pc = "push" /\ call'[c].job = call[c].job /\ call[c].pc = "create"
        /\ \A d \in Client : d # c => call'[d] = call[d]
        /\ status' = [status EXCEPT ![call[c].job] = "queued"] /\ UNCHANGED queue
    BY <1>0, <1>3 DEF CreateJob, Goto, InsertTask, SetStatus
  <2>2. CASE j = call[c].job
    BY <2>1, <2>2 DEF Reach, Pushing
  <2>3. CASE j # call[c].job
    <3>1. Reach(j)
      BY <1>0, <1>1, <2>1, <2>3 DEF Reached
    <3>2. \A d : d \in Pushing(j) => d \in Pushing(j)'
      BY <1>1, <2>1 DEF Pushing
    <3>. QED
      BY <1>2, <2>1, <3>1, <3>2 DEF Reach, InQueue
  <2>. QED
    BY <2>2, <2>3
<1>4. CASE PushJob(c)
  <2>1. /\ call[c].pc = "push" /\ LPush(JobPriority[call[c].job], call[c].job)
        /\ \A d \in Client : d # c => call'[d] = call[d]
        /\ UNCHANGED status
    BY <1>0, <1>4 DEF PushJob, Redis, Fault, Return
  <2>2. CASE j = call[c].job
    BY <1>0, <2>1, <2>2, LPushQueued DEF Reach
  <2>3. CASE j # call[c].job
    <3>1. Reach(j)
      BY <1>1, <2>1 DEF Reached
    <3>2. \A d : d \in Pushing(j) => d \in Pushing(j)'
      BY <1>1, <2>1, <2>3 DEF Pushing
    <3>3. InQueue(j) => InQueue(j)'
      BY <1>0, <2>1, LPushQueued
    <3>. QED
      BY <1>2, <3>1, <3>2, <3>3 DEF Reach
  <2>. QED
    BY <2>2, <2>3
<1>5. CASE RemoveQueued(c)
  <2>. DEFINE e == call[c].job
              p == JobPriority[e]
  <2>1. /\ call[c].pc = "lrem" /\ e \in acked /\ p \in Priority
        /\ queue' = [queue EXCEPT ![p] = Without(queue[p], e)]
        /\ \A d \in Client : d # c => call'[d] = call[d]
        /\ UNCHANGED status
    BY <1>0, <1>5 DEF RemoveQueued, Redis, Fault, Return, LRemAll, Reached
  <2>2. Reach(j) /\ j # e
    BY <1>1, <2>1 DEF Reached
  <2>. HIDE DEF e, p
  <2>3. queue \in [Priority -> Seq(Job)]
    BY <1>0 DEF RedisOK
  <2>4. Contains(queue[p], j) => Contains(queue'[p], j)
    BY <2>1, <2>2, <2>3, WithoutContains
  <2>5. \A q \in Priority : Contains(queue[q], j) => Contains(queue'[q], j)
    BY <2>1, <2>3, <2>4
  <2>6. \A d : d \in Pushing(j) => d \in Pushing(j)'
    BY <1>1, <2>1 DEF Pushing
  <2>. QED
    BY <1>2, <2>2, <2>5, <2>6 DEF Reach, InQueue
<1>6. CASE \/ CreateConflict(c) \/ UpdateCancelled(c) \/ NotCancellable(c)
           \/ \E k \in Job : SubmitJob(c, k) \/ CancelJob(c, k)
  <2>1. /\ call[c].pc # "push" /\ UNCHANGED queue
        /\ \A d \in Client : d # c => call'[d] = call[d]
    BY <1>0, <1>6 DEF CreateConflict, UpdateCancelled, NotCancellable, SubmitJob, CancelJob,
       Goto, Return, SetStatus, CancelTask
  <2>2. status[j] = "queued"
    BY <1>0, <1>6 DEF CreateConflict, UpdateCancelled, NotCancellable, SubmitJob, CancelJob,
       SetStatus, CancelTask
  <2>3. \A d : d \in Pushing(j) => d \in Pushing(j)'
    BY <1>1, <2>1 DEF Pushing
  <2>. QED
    BY <1>1, <1>2, <2>1, <2>2, <2>3 DEF Reached, Reach, InQueue
<1>7. CASE CreateFails(c) \/ CancelFails(c) \/ CallAborts(c) \/ CallResent(c)
  BY <1>7 DEF CreateFails, CancelFails, CallAborts, CallResent, Resent, Fault
<1>. QED
  BY <1>1, <1>3, <1>4, <1>5, <1>6, <1>7 DEF ApiStep, HandlerStep

\* The worker loop: a pop turns the entry into a claim about to be made.
LEMMA LoopReach ==
  ASSUME TypeOK, Reached, faults = 0, faults' = 0, NEW w \in Worker, Loop(w),
         NEW j \in Job, status'[j] = "queued", j \notin acked'
  PROVE  Reach(j)'
<1>. USE DEF storeVars, taskVars, redisVars
<1>0. /\ RedisOK /\ status \in [Job -> Status]
      /\ loop \in [Worker -> [pc : LoopPC, at : 1..Len(Priorities), job : Job \union {NoJob}]]
      /\ loop[w].pc # "poll" => loop[w].job \in Job
      /\ Priorities[loop[w].at] \in Priority
  BY PriorityTypes DEF TypeOK, StoreTypeOK, RedisOK, WorkerTypeOK
<1>1. LoopStep(w) /\ UNCHANGED <<call, pump>> /\ j \notin acked
  BY DEF Loop, apiVars
<1>2. Pushing(j)' = Pushing(j)
  BY <1>1 DEF Pushing
<1>3. CASE Pop(w)
  <2>. DEFINE p == Priorities[loop[w].at]
              e == Last(queue[p])
  <2>1. /\ p \in Priority /\ queue[p] \in Seq(Job) /\ queue[p] # << >>
        /\ queue' = [queue EXCEPT ![p] = Front(queue[p])] /\ UNCHANGED status
        /\ loop[w].pc = "poll" /\ loop'[w].pc = "claim" /\ loop'[w].job = e
        /\ \A u \in Worker : u # w => loop'[u] = loop[u]
    BY <1>0, <1>3 DEF Pop, BRPopLPush, RedisOK
  <2>. HIDE DEF p, e
  <2>2. Reach(j)
    BY <1>1, <2>1 DEF Reached
  <2>3. \A u : u \in Claiming(j) => u \in Claiming(j)'
    BY <2>1 DEF Claiming, Holding
  <2>4. j = e => w \in Claiming(j)'
    BY <2>1 DEF Claiming, Holding
  <2>5. Contains(queue[p], j) => j = e \/ Contains(queue'[p], j)
    <3>1. Contains(queue[p], j) => j = e \/ Contains(Front(queue[p]), j)
      BY <2>1, FrontContains DEF e
    <3>. QED
      BY <1>0, <2>1, <3>1 DEF RedisOK
  <2>6. \A q \in Priority : q # p => queue'[q] = queue[q]
    BY <1>0, <2>1 DEF RedisOK
  <2>. QED
    BY <1>2, <2>2, <2>3, <2>4, <2>5, <2>6 DEF Reach, InQueue
<1>4. CASE Claim(w) \/ NotClaimed(w)
  <2>1. /\ j # loop[w].job /\ status[j] = "queued" /\ UNCHANGED queue
        /\ \A u \in Worker : u # w => loop'[u] = loop[u]
    BY <1>0, <1>4 DEF Claim, NotClaimed, ClaimTask, LoopGoto
  <2>2. \A u : u \in Claiming(j) => u \in Claiming(j)'
    BY <2>1 DEF Claiming, Holding
  <2>. QED
    BY <1>1, <1>2, <2>1, <2>2 DEF Reached, Reach, InQueue
<1>5. CASE GiveBack(w)
  <2>1. LPush(Priorities[loop[w].at], loop[w].job) /\ UNCHANGED status
        /\ loop[w].pc = "giveback" /\ \A u \in Worker : u # w => loop'[u] = loop[u]
    BY <1>0, <1>5 DEF GiveBack, Redis, Fault, LoopGoto
  <2>2. \A u : u \in Claiming(j) => u \in Claiming(j)'
    BY <2>1 DEF Claiming, Holding
  <2>3. InQueue(j) => InQueue(j)'
    BY <1>0, <2>1, LPushQueued
  <2>. QED
    BY <1>1, <1>2, <2>1, <2>2, <2>3 DEF Reached, Reach
<1>6. CASE PollEmpty(w) \/ RecordAttempt(w) \/ Spawn(w) \/ MarkFailed(w) \/ Drop(w)
  <2>1. /\ loop[w].pc # "claim" /\ UNCHANGED queue /\ status[j] = "queued"
        /\ \A u \in Worker : u # w => loop'[u] = loop[u]
    BY <1>0, <1>6 DEF PollEmpty, RecordAttempt, Spawn, MarkFailed, Drop, NextQueue, LoopGoto,
       LoopTop, Sql, Redis, Fault, InsertAttempt, SetStatus, LRemProcessing
  <2>2. \A u : u \in Claiming(j) => u \in Claiming(j)'
    BY <2>1 DEF Claiming, Holding
  <2>. QED
    BY <1>1, <1>2, <2>1, <2>2 DEF Reached, Reach, InQueue
<1>7. CASE PopFails(w) \/ ClaimFails(w) \/ LoadFails(w) \/ LoopResent(w)
  BY <1>7 DEF PopFails, ClaimFails, LoadFails, LoopResent, Resent, Fault
<1>. QED
  BY <1>1, <1>3, <1>4, <1>5, <1>6, <1>7 DEF LoopStep

\* The retry pump: what it queues it pushes.
LEMMA PumpReach ==
  ASSUME TypeOK, Reached, faults = 0, faults' = 0, NEW w \in Pump, Pumping(w),
         NEW j \in Job, status'[j] = "queued", j \notin acked'
  PROVE  Reach(j)'
<1>. USE DEF storeVars, taskVars, redisVars
<1>0. /\ RedisOK /\ status \in [Job -> Status]
      /\ pump \in [Pump -> [todo : SUBSET [job : Job, n : Nat], push : Job \union {NoJob}]]
      /\ \A k \in Job : JobPriority[k] \in Priority
  BY PriorityTypes DEF TypeOK, StoreTypeOK, RedisOK, PumpTypeOK
<1>1. PumpStep(w) /\ UNCHANGED <<call, loop>> /\ j \notin acked
  BY DEF Pumping, apiVars, workerVars
<1>2. Claiming(j)' = Claiming(j)
  BY <1>1 DEF Claiming, Holding
<1>3. CASE PushRetry(w)
  <2>. DEFINE e == pump[w].push
  <2>1. /\ e \in Job /\ LPush(JobPriority[e], e) /\ UNCHANGED status
        /\ \A u \in Pump : u # w => pump'[u] = pump[u]
    BY <1>0, <1>3 DEF PushRetry, Redis, Fault
  <2>2. Reach(j)
    BY <1>1, <2>1 DEF Reached
  <2>3. j = e \/ InQueue(j) => InQueue(j)'
    BY <1>0, <2>1, LPushQueued
  <2>4. j # e => \A d : d \in Pushing(j) => d \in Pushing(j)'
    BY <1>1, <2>1 DEF Pushing
  <2>. QED
    BY <1>2, <2>2, <2>3, <2>4 DEF Reach
<1>4. CASE \E t \in pump[w].todo : Requeue(w, t)
  <2>0. PICK t \in pump[w].todo : Requeue(w, t)
    BY <1>4
  <2>1. PICK k \in Job : k = t.job
    BY <1>0
  <2>2. /\ pump[w].push = NoJob /\ pump'[w].push = k /\ UNCHANGED queue
        /\ \A u \in Pump : u # w => pump'[u] = pump[u]
        /\ j # k => status[j] = "queued"
    BY <1>0, <2>0, <2>1 DEF Requeue, RequeueTask, SetStatus
  <2>3. j = k => w \in Pushing(j)'
    BY <2>2 DEF Pushing
  <2>4. \A d : d \in Pushing(j) => d \in Pushing(j)'
    BY <1>1, <2>2, JobAssumption DEF Pushing
  <2>. QED
    BY <1>1, <1>2, <2>2, <2>3, <2>4 DEF Reached, Reach, InQueue
<1>5. CASE SelectDue(w) \/ \E t \in pump[w].todo : RequeueNothing(w, t)
  <2>1. /\ pump'[w].push = pump[w].push /\ UNCHANGED <<queue, status>>
        /\ \A u \in Pump : u # w => pump'[u] = pump[u]
    BY <1>0, <1>5 DEF SelectDue, RequeueNothing
  <2>2. \A d : d \in Pushing(j) => d \in Pushing(j)'
    BY <1>1, <2>1 DEF Pushing
  <2>. QED
    BY <1>1, <1>2, <2>1, <2>2 DEF Reached, Reach, InQueue
<1>6. CASE PushResent(w) \/ \E t \in pump[w].todo : RequeueFails(w, t)
  BY <1>6 DEF PushResent, Resent, RequeueFails, Fault
<1>. QED
  BY <1>1, <1>3, <1>4, <1>5, <1>6 DEF PumpStep

\* A sweep only adds entries to the queues.
LEMMA ReaperReach ==
  ASSUME TypeOK, Reached, faults = 0, faults' = 0, NEW w \in Reap, Reaping(w),
         NEW j \in Job, status'[j] = "queued", j \notin acked'
  PROVE  Reach(j)'
<1>. USE DEF storeVars, taskVars, redisVars
<1>0. /\ RedisOK /\ \A k \in Job : JobPriority[k] \in Priority
      /\ reaper[w].act # "read" => Head(reaper[w].todo) \in Job
  <2>1. reaper[w].todo \in Seq(Job) /\ (reaper[w].act # "read" => reaper[w].todo # << >>)
    BY DEF TypeOK, ReaperTypeOK
  <2>. QED
    BY <2>1, PriorityTypes, HeadTailProperties DEF TypeOK, StoreTypeOK, RedisOK
<1>1. /\ ReaperStep(w) /\ UNCHANGED <<call, pump, loop, status>> /\ j \notin acked
  BY DEF Reaping, apiVars, workerVars, ReaperStep, Sweep, ReadStuck, ReadFinished, ReadOther,
     ReadFails, MoveBack, MoveNothing, MoveFails, PushBack, RemoveItem, ReaperResent, Resent
<1>2. Claiming(j)' = Claiming(j) /\ Pushing(j)' = Pushing(j) /\ Reach(j)
  BY <1>1 DEF Claiming, Holding, Pushing, Reached
<1>3. InQueue(j) => InQueue(j)'
  <2>1. CASE MoveBack(w)
    <3>. DEFINE p == JobPriority[Head(reaper[w].todo)]
    <3>1. /\ p \in Priority /\ queue \in [Priority -> Seq(Job)]
          /\ processing \in Seq(Job) /\ processing # << >>
          /\ queue' = [queue EXCEPT ![p] = Cons(Last(processing), queue[p])]
      BY <1>0, <2>1 DEF MoveBack, LMove, RedisOK
    <3>. HIDE DEF p
    <3>2. Last(processing) \in Job
      BY <3>1, FrontLastType
    <3>3. Contains(queue[p], j) => Contains(queue'[p], j)
      BY <3>1, <3>2, ConsContains
    <3>. QED
      BY <3>1, <3>3 DEF InQueue
  <2>2. CASE PushBack(w)
    <3>1. LPush(JobPriority[Head(reaper[w].todo)], Head(reaper[w].todo))
      BY <2>2 DEF PushBack, Redis, Fault
    <3>. QED
      BY <1>0, <2>2, <3>1, LPushQueued DEF PushBack
  <2>3. CASE Sweep(w) \/ ReadStuck(w) \/ ReadFinished(w) \/ ReadOther(w) \/ MoveNothing(w)
             \/ RemoveItem(w)
    BY <2>3 DEF Sweep, ReadStuck, ReadFinished, ReadOther, MoveNothing, RemoveItem, Redis,
       Fault, LRemProcessing, InQueue
  <2>4. CASE ReadFails(w) \/ MoveFails(w) \/ ReaperResent(w)
    BY <2>4 DEF ReadFails, MoveFails, ReaperResent, Resent, Fault
  <2>. QED
    BY <1>1, <2>1, <2>2, <2>3, <2>4 DEF ReaperStep
<1>. QED
  BY <1>2, <1>3 DEF Reach

\* Runs and time touch no queue and queue no job.
LEMMA RunTimeReach ==
  ASSUME TypeOK, Reached, faults = 0, faults' = 0,
         \/ \E r \in runs : Run(r)
         \/ \E k \in Job : TimePasses(k)
         \/ UNCHANGED vars,
         NEW j \in Job, status'[j] = "queued", j \notin acked'
  PROVE  Reach(j)'
<1>. USE DEF storeVars, taskVars, redisVars
<1>0. status \in [Job -> Status]
  BY DEF TypeOK, StoreTypeOK
<1>1. UNCHANGED <<call, pump, loop, queue>> /\ status[j] = "queued" /\ j \notin acked
  <2>1. CASE \E r \in runs : Run(r)
    BY <1>0, <2>1 DEF Run, RunStep, apiVars, HandlerSucceeds, HandlerFails, MarkSucceeded,
       MarkSucceededFails, PushDlq, MarkDeadLetter, MarkRetry, CloseAttempt, Finish, RunResent,
       Sql, Redis, Resent, Fault, SetStatus, RetryTask, UpdateAttempt, LPushDlq, LRemProcessing
  <2>2. CASE (\E k \in Job : TimePasses(k)) \/ UNCHANGED vars
    BY <2>2 DEF TimePasses, BackoffElapses, GrowsStale, apiVars, workerVars, vars
  <2>. QED
    BY <2>1, <2>2
<1>2. Claiming(j)' = Claiming(j) /\ Pushing(j)' = Pushing(j)
  BY <1>1 DEF Claiming, Holding, Pushing
<1>. QED
  BY <1>1, <1>2 DEF Reached, Reach, InQueue

\* A request takes entries away only once it has set its job 'cancelled'.
LEMMA RemovesAcked ==
  ASSUME TypeOK, [Next]_vars, \A d \in Client : call[d].pc = "lrem" => call[d].job \in acked,
         NEW c \in Client, call'[c].pc = "lrem"
  PROVE  call'[c].job \in acked'
<1>1. CASE \E d \in Client : Api(d)
  <2>1. PICK d \in Client : ApiStep(d)
    BY <1>1 DEF Api
  <2>2. call \in [Client -> [pc : CallPC, job : Job \union {NoJob}, seen : Status]]
    BY DEF TypeOK, ApiTypeOK
  <2>3. /\ acked \subseteq acked'
        /\ c # d => call'[c] = call[c]
        /\ c = d => call'[c].job = call[c].job /\ call[c].job \in acked'
    <3>1. CASE CallResent(d)
      BY <3>1 DEF CallResent, apiVars
    <3>2. CASE ~CallResent(d)
      BY <2>1, <2>2, <3>2 DEF ApiStep, HandlerStep, CreateJob, CreateConflict, CreateFails,
         PushJob, UpdateCancelled, NotCancellable, CancelFails, RemoveQueued, CallAborts,
         SubmitJob, CancelJob, Goto, Return, NoCall
    <3>. QED
      BY <3>1, <3>2
  <2>. QED
    BY <2>3
<1>2. CASE UNCHANGED <<call, acked>>
  BY <1>2
<1>. QED
  BY <1>1, <1>2 DEF Next, Loop, Run, Pumping, Reaping, TimePasses, WorkerCrash, apiVars, vars

\* No step takes a queued job out of reach.
LEMMA ReachNext == ExecInv /\ ReachInv /\ [Next]_vars => ReachInv'
<1>. SUFFICES ASSUME ExecInv, ReachInv, [Next]_vars, faults' = 0 PROVE Reached'
  BY DEF ReachInv
<1>0. TypeOK
  BY DEF ExecInv
<1>1. faults = 0
  BY <1>0, NoFaultYet
<1>2. Reached
  BY <1>1 DEF ReachInv
<1>3. ~\E w \in Worker : WorkerCrash(w)
  BY <1>1 DEF WorkerCrash, Fault
<1>4. ASSUME NEW j \in Job, status'[j] = "queued", j \notin acked'
      PROVE  Reach(j)'
  BY <1>0, <1>1, <1>2, <1>3, <1>4, ApiReach, LoopReach, PumpReach, ReaperReach, RunTimeReach
     DEF Next
<1>5. ASSUME NEW c \in Client, call'[c].pc = "lrem"
      PROVE  call'[c].job \in acked'
  BY <1>0, <1>2, <1>5, RemovesAcked DEF Reached
<1>. QED
  BY <1>4, <1>5 DEF Reached

\* While no call fails, nothing that is done to the lists - moves of the reaper,
\* removals by runs and sweeps, duplicates - puts a queued job out of reach.
THEOREM QueuedStaysReachable == Spec => []QueuedReachable
<1>1. Init => ReachInv
  BY DEF Init, StoreInit, ApiInit, NoCall, ReachInv, Reached
<1>2. ReachInv => QueuedReachable
  BY DEF ReachInv, Reached, Reach, InQueue, QueuedReachable
<1>. QED
  BY <1>1, <1>2, ReachNext, ExecInvariant, PTL DEF Spec

-----------------------------------------------------------------------------
\* A queued job out of reach stays there

\* A queued row without an entry in any list the workers or the reapers read,
\* and no process that is about to make one, to claim the job, or to decide
\* about an old entry of it: what a failed push leaves.
Lost(j) ==
    /\ status[j] = "queued" /\ ~InQueue(j) /\ ~Contains(processing, j)
    /\ Pushing(j) = {}
    /\ \A w \in Worker : loop[w].pc \in {"claim", "giveback"} => loop[w].job # j
    /\ \A w \in Reap : ~Contains(reaper[w].todo, j)

\* The same by lists and by processes: the lists are lists of other jobs, and
\* nobody holds this one.
ListsOf(S) == queue \in [Priority -> Seq(S)] /\ processing \in Seq(S)
Sweeping(S) == \A w \in Reap : reaper[w].todo \in Seq(S)
Unheld(j) ==
    /\ \A c \in Client : call[c].pc = "push" => call[c].job # j
    /\ \A w \in Pump : pump[w].push # j
    /\ \A w \in Worker : loop[w].pc \in {"claim", "giveback"} => loop[w].job # j

\* The two ways to say it agree, before a step and after it.
LEMMA LostParts ==
  ASSUME TypeOK, TypeOK', NEW j \in Job
  PROVE  /\ Lost(j) <=> /\ status[j] = "queued" /\ Unheld(j)
                        /\ ListsOf(Job \ {j}) /\ Sweeping(Job \ {j})
         /\ Lost(j)' <=> /\ status'[j] = "queued" /\ Unheld(j)'
                         /\ ListsOf(Job \ {j})' /\ Sweeping(Job \ {j})'
<1>1. /\ queue \in [Priority -> Seq(Job)] /\ processing \in Seq(Job)
      /\ \A w \in Reap : reaper[w].todo \in Seq(Job)
      /\ queue' \in [Priority -> Seq(Job)] /\ processing' \in Seq(Job)
      /\ \A w \in Reap : reaper'[w].todo \in Seq(Job)
  BY DEF TypeOK, StoreTypeOK, ReaperTypeOK
<1>2. /\ ~InQueue(j) <=> queue \in [Priority -> Seq(Job \ {j})]
      /\ ~InQueue(j)' <=> queue' \in [Priority -> Seq(Job \ {j})]
  <2>1. \A p \in Priority : ~Contains(queue[p], j) <=> queue[p] \in Seq(Job \ {j})
    BY <1>1, WithoutElement
  <2>2. \A p \in Priority : ~Contains(queue'[p], j) <=> queue'[p] \in Seq(Job \ {j})
    BY <1>1, WithoutElement
  <2>. QED
    BY <1>1, <2>1, <2>2 DEF InQueue
<1>3. /\ ~Contains(processing, j) <=> processing \in Seq(Job \ {j})
      /\ ~Contains(processing', j) <=> processing' \in Seq(Job \ {j})
  BY <1>1, WithoutElement
<1>4. \A w \in Reap :
        /\ ~Contains(reaper[w].todo, j) <=> reaper[w].todo \in Seq(Job \ {j})
        /\ ~Contains(reaper'[w].todo, j) <=> reaper'[w].todo \in Seq(Job \ {j})
  BY <1>1, WithoutElement
<1>. QED
  BY <1>2, <1>3, <1>4 DEF Lost, ListsOf, Sweeping, Unheld, Pushing

\* No command brings an element into the lists, except the push of that element.
LEMMA ListsKept ==
  ASSUME NEW S, ListsOf(S), NEW p \in Priority, NEW e,
         \/ LPush(p, e) /\ e \in S
         \/ BRPopLPush(p) \/ LMove(p) \/ LRemAll(p, e) \/ LRemProcessing(e)
         \/ \E n : LPushDlq(e, n)
         \/ UNCHANGED redisVars
  PROVE  ListsOf(S)'
<1>0. queue \in [Priority -> Seq(S)] /\ queue[p] \in Seq(S) /\ processing \in Seq(S)
  BY DEF ListsOf
<1>1. CASE LPush(p, e) /\ e \in S
  <2>1. Cons(e, queue[p]) \in Seq(S)
    BY <1>0, <1>1, ConsType
  <2>. QED
    BY <1>0, <1>1, <2>1 DEF LPush, ListsOf
<1>2. CASE BRPopLPush(p)
  <2>1. Last(queue[p]) \in S /\ Front(queue[p]) \in Seq(S)
    BY <1>0, <1>2, FrontLastType DEF BRPopLPush
  <2>2. Cons(Last(queue[p]), processing) \in Seq(S)
    BY <1>0, <2>1, ConsType
  <2>. QED
    BY <1>0, <1>2, <2>1, <2>2 DEF BRPopLPush, ListsOf
<1>3. CASE LMove(p)
  <2>1. Last(processing) \in S /\ Front(processing) \in Seq(S)
    BY <1>0, <1>3, FrontLastType DEF LMove
  <2>2. Cons(Last(processing), queue[p]) \in Seq(S)
    BY <1>0, <2>1, ConsType
  <2>. QED
    BY <1>0, <1>3, <2>1, <2>2 DEF LMove, ListsOf
<1>4. CASE LRemAll(p, e)
  <2>1. Without(queue[p], e) \in Seq(S)
    BY <1>0, WithoutType
  <2>. QED
    BY <1>0, <1>4, <2>1 DEF LRemAll, ListsOf
<1>5. CASE LRemProcessing(e)
  <2>1. RemoveFirst(processing, e) \in Seq(S)
    BY <1>0, RemoveFirstType
  <2>. QED
    BY <1>0, <1>5, <2>1 DEF LRemProcessing, ListsOf
<1>6. CASE (\E n : LPushDlq(e, n)) \/ UNCHANGED redisVars
  BY <1>0, <1>6 DEF LPushDlq, redisVars, ListsOf
<1>. QED
  BY <1>1, <1>2, <1>3, <1>4, <1>5, <1>6

\* Submissions are refused, cancellations are what ends it.
LEMMA ApiLost ==
  ASSUME TypeOK, TypeOK', NEW c \in Client, Api(c), NEW j \in Job, Lost(j)
  PROVE  Lost(j)' \/ status'[j] = "cancelled"
<1>. USE DEF storeVars, taskVars
<1>0. /\ ApiStep(c) /\ UNCHANGED <<loop, pump, reaper>> /\ status \in [Job -> Status]
      /\ call \in [Client -> [pc : CallPC, job : Job \union {NoJob}, seen : Status]]
      /\ call[c].pc # "idle" => call[c].job \in Job /\ JobPriority[call[c].job] \in Priority
  BY PriorityTypes DEF Api, workerVars, reaperVars, TypeOK, StoreTypeOK, ApiTypeOK
<1>1. /\ status[j] = "queued" /\ Unheld(j) /\ ListsOf(Job \ {j}) /\ Sweeping(Job \ {j})
  BY LostParts
<1>2. Sweeping(Job \ {j})'
  BY <1>0, <1>1 DEF Sweeping
<1>3. status'[j] = "queued" \/ status'[j] = "cancelled"
  BY <1>0, <1>1 DEF ApiStep, HandlerStep, CreateJob, CreateConflict, CreateFails, PushJob,
     UpdateCancelled, NotCancellable, CancelFails, RemoveQueued, CallAborts, SubmitJob,
     CancelJob, CallResent, Resent, InsertTask, CancelTask, SetStatus
<1>4. Unheld(j)'
  <2>1. call'[c].pc = "push" => call'[c].job # j
    <3>1. CASE CallResent(c)
      BY <1>1, <3>1 DEF CallResent, apiVars, Unheld
    <3>2. CASE ~CallResent(c)
      BY <1>0, <1>1, <3>2 DEF ApiStep, HandlerStep, CreateJob, CreateConflict, CreateFails,
         PushJob, UpdateCancelled, NotCancellable, CancelFails, RemoveQueued, CallAborts,
         SubmitJob, CancelJob, InsertTask, Goto, Return, NoCall
    <3>. QED
      BY <3>1, <3>2
  <2>2. \A d \in Client : d # c => call'[d] = call[d]
    BY <1>0 DEF ApiStep, HandlerStep, CreateJob, CreateConflict, CreateFails, PushJob,
       UpdateCancelled, NotCancellable, CancelFails, RemoveQueued, CallAborts, SubmitJob,
       CancelJob, CallResent, apiVars, Goto, Return
  <2>. QED
    BY <1>0, <1>1, <2>1, <2>2 DEF Unheld
<1>5. ListsOf(Job \ {j})'
  <2>1. CASE PushJob(c)
    <3>1. call[c].pc = "push" /\ call[c].job \in Job \ {j}
      BY <1>0, <1>1, <2>1 DEF PushJob, Unheld
    <3>. QED
      BY <1>0, <1>1, <2>1, <3>1, ListsKept DEF PushJob, Redis
  <2>2. CASE RemoveQueued(c)
    BY <1>0, <1>1, <2>2, ListsKept DEF RemoveQueued, Redis
  <2>3. CASE CallResent(c)
    <3>1. \/ LPush(JobPriority[call[c].job], call[c].job) /\ call[c].job \in Job \ {j}
          \/ LRemAll(JobPriority[call[c].job], call[c].job)
      BY <1>0, <1>1, <2>3 DEF CallResent, Resent, Unheld
    <3>2. call[c].pc # "idle"
      BY <2>3 DEF CallResent
    <3>. QED
      BY <1>0, <1>1, <3>1, <3>2, ListsKept
  <2>4. CASE ~PushJob(c) /\ ~RemoveQueued(c) /\ ~CallResent(c)
    <3>1. UNCHANGED redisVars
      BY <1>0, <2>4 DEF ApiStep, HandlerStep, CreateJob, CreateConflict, CreateFails,
         UpdateCancelled, NotCancellable, CancelFails, CallAborts, SubmitJob, CancelJob
    <3>. QED
      BY <1>1, <3>1, PriorityTypes, ListsKept DEF redisVars, ListsOf
  <2>. QED
    BY <2>1, <2>2, <2>3, <2>4
<1>. QED
  BY <1>2, <1>3, <1>4, <1>5, LostParts

\* A poll finds other jobs only, and what the loop holds is another job.
LEMMA LoopLost ==
  ASSUME ExecInv, TypeOK', NEW w \in Worker, Loop(w), NEW j \in Job, Lost(j)
  PROVE  Lost(j)'
<1>. USE DEF storeVars, taskVars
<1>0. /\ LoopStep(w) /\ UNCHANGED <<call, pump, reaper>> /\ TypeOK /\ status \in [Job -> Status]
      /\ loop \in [Worker -> [pc : LoopPC, at : 1..Len(Priorities), job : Job \union {NoJob}]]
      /\ loop[w].pc # "poll" => loop[w].job \in Job
      /\ Priorities[loop[w].at] \in Priority
  BY PriorityTypes DEF Loop, apiVars, reaperVars, ExecInv, TypeOK, StoreTypeOK, WorkerTypeOK
<1>1. /\ status[j] = "queued" /\ Unheld(j) /\ ListsOf(Job \ {j}) /\ Sweeping(Job \ {j})
  BY <1>0, LostParts
<1>2. Sweeping(Job \ {j})'
  BY <1>0, <1>1 DEF Sweeping
<1>3. loop[w].pc \in {"claim", "giveback", "markfailed"} => loop[w].job # j
  BY <1>0, <1>1 DEF Unheld, ExecInv, SingleExecution, Executing, Owns, OwnerPC
<1>4. status'[j] = "queued"
  BY <1>0, <1>1, <1>3 DEF LoopStep, Pop, PollEmpty, PopFails, Claim, NotClaimed, ClaimFails,
     GiveBack, RecordAttempt, Spawn, LoadFails, MarkFailed, Drop, LoopResent, Resent, Sql,
     ClaimTask, InsertAttempt, SetStatus
<1>5. Unheld(j)'
  <2>1. loop'[w].pc \in {"claim", "giveback"} => loop'[w].job # j
    <3>1. CASE Pop(w)
      <4>1. Last(queue[Priorities[loop[w].at]]) \in Job \ {j}
        BY <1>0, <1>1, <3>1, FrontLastType DEF Pop, BRPopLPush, ListsOf
      <4>. QED
        BY <1>0, <3>1, <4>1 DEF Pop
    <3>2. CASE ~Pop(w)
      BY <1>0, <1>3, <3>2 DEF LoopStep, PollEmpty, PopFails, Claim, NotClaimed, ClaimFails,
         GiveBack, RecordAttempt, Spawn, LoadFails, MarkFailed, Drop, LoopResent, workerVars,
         NextQueue, LoopGoto, LoopTop, AtTop
    <3>. QED
      BY <3>1, <3>2
  <2>2. \A u \in Worker : u # w => loop'[u] = loop[u]
    BY <1>0 DEF LoopStep, Pop, PollEmpty, PopFails, Claim, NotClaimed, ClaimFails,
       GiveBack, RecordAttempt, Spawn, LoadFails, MarkFailed, Drop, LoopResent, workerVars,
       NextQueue, LoopGoto, LoopTop
  <2>. QED
    BY <1>0, <1>1, <2>1, <2>2 DEF Unheld
<1>6. ListsOf(Job \ {j})'
  <2>1. CASE Pop(w) \/ PopFails(w)
    BY <1>0, <1>1, <2>1, ListsKept DEF Pop, PopFails
  <2>2. CASE GiveBack(w)
    <3>1. loop[w].job \in Job \ {j}
      BY <1>0, <1>3, <2>2 DEF GiveBack
    <3>. QED
      BY <1>0, <1>1, <2>2, <3>1, ListsKept DEF GiveBack, Redis
  <2>3. CASE Drop(w)
    BY <1>0, <1>1, <2>3, ListsKept DEF Drop, Redis
  <2>4. CASE LoopResent(w)
    <3>1. \/ BRPopLPush(Priorities[loop[w].at])
          \/ LPush(Priorities[loop[w].at], loop[w].job) /\ loop[w].job \in Job \ {j}
          \/ LRemProcessing(loop[w].job)
      BY <1>0, <1>3, <2>4 DEF LoopResent, Resent
    <3>. QED
      BY <1>0, <1>1, <3>1, ListsKept
  <2>5. CASE ~Pop(w) /\ ~PopFails(w) /\ ~GiveBack(w) /\ ~Drop(w) /\ ~LoopResent(w)
    <3>1. UNCHANGED redisVars
      BY <1>0, <2>5 DEF LoopStep, PollEmpty, Claim, NotClaimed, ClaimFails,
         RecordAttempt, Spawn, LoadFails, MarkFailed
    <3>. QED
      BY <1>1, <3>1 DEF redisVars, ListsOf
  <2>. QED
    BY <2>1, <2>2, <2>3, <2>4, <2>5
<1>. QED
  BY <1>0, <1>2, <1>4, <1>5, <1>6, LostParts

\* A run reports on other jobs only: its own is not 'queued'.
LEMMA RunLost ==
  ASSUME ExecInv, TypeOK', NEW r \in runs, Run(r), NEW j \in Job, Lost(j)
  PROVE  Lost(j)'
<1>. USE DEF storeVars, taskVars
<1>0. /\ RunStep(r) /\ UNCHANGED <<call, pump, reaper, loop>> /\ TypeOK
      /\ status \in [Job -> Status] /\ r.job \in Job
  BY DEF Run, apiVars, reaperVars, workerVars, RunStep, HandlerSucceeds, HandlerFails,
     MarkSucceeded, MarkSucceededFails, PushDlq, MarkDeadLetter, MarkRetry, CloseAttempt, Finish,
     RunResent, ExecInv, TypeOK, StoreTypeOK, WorkerTypeOK
<1>1. /\ status[j] = "queued" /\ Unheld(j) /\ ListsOf(Job \ {j}) /\ Sweeping(Job \ {j})
  BY <1>0, LostParts
<1>2. Sweeping(Job \ {j})' /\ Unheld(j)'
  BY <1>0, <1>1 DEF Sweeping, Unheld
<1>3. r.pc \in ActivePC => r.job # j
  BY <1>0, <1>1 DEF ExecInv, SingleExecution, Executing, Active
<1>4. status'[j] = "queued"
  BY <1>0, <1>1, <1>3 DEF ActivePC, RunStep, HandlerSucceeds, HandlerFails, MarkSucceeded,
     MarkSucceededFails, PushDlq, MarkDeadLetter, MarkRetry, CloseAttempt, Finish,
     RunResent, Resent, Sql, SetStatus, RetryTask, UpdateAttempt
<1>5. ListsOf(Job \ {j})'
  <2>1. PICK p : p \in Priority
    BY <1>0, PriorityTypes
  <2>2. \/ \E n : LPushDlq(r.job, n)
        \/ LRemProcessing(r.job) \/ UNCHANGED redisVars
    BY <1>0 DEF RunStep, HandlerSucceeds, HandlerFails, MarkSucceeded,
       MarkSucceededFails, PushDlq, MarkDeadLetter, MarkRetry, CloseAttempt, Finish, RunResent,
       Resent, Redis
  <2>. QED
    BY <1>1, <2>1, <2>2, ListsKept
<1>. QED
  BY <1>0, <1>2, <1>4, <1>5, LostParts

\* The pump looks for rows in 'retry', the only ones it queues and pushes.
LEMMA PumpLost ==
  ASSUME TypeOK, TypeOK', NEW w \in Pump, Pumping(w), NEW j \in Job, Lost(j)
  PROVE  Lost(j)'
<1>. USE DEF storeVars, taskVars
<1>0. /\ PumpStep(w) /\ UNCHANGED <<call, loop, reaper>> /\ status \in [Job -> Status]
      /\ pump \in [Pump -> [todo : SUBSET [job : Job, n : Nat], push : Job \union {NoJob}]]
  BY DEF Pumping, apiVars, workerVars, reaperVars, TypeOK, StoreTypeOK, PumpTypeOK
<1>1. /\ status[j] = "queued" /\ Unheld(j) /\ ListsOf(Job \ {j}) /\ Sweeping(Job \ {j})
  BY LostParts
<1>2. Sweeping(Job \ {j})'
  BY <1>0, <1>1 DEF Sweeping
<1>3. status'[j] = "queued"
  BY <1>0, <1>1 DEF PumpStep, SelectDue, PushRetry, PushResent, Resent, Requeue, RequeueNothing,
     RequeueFails, RequeueTask, SetStatus
<1>4. Unheld(j)'
  <2>1. pump'[w].push # j
    BY <1>0, <1>1, JobAssumption DEF Unheld, PumpStep, SelectDue, PushRetry, PushResent, Requeue,
       RequeueNothing, RequeueFails, RequeueTask
  <2>2. \A u \in Pump : u # w => pump'[u] = pump[u]
    BY <1>0 DEF PumpStep, SelectDue, PushRetry, PushResent, Requeue, RequeueNothing, RequeueFails
  <2>. QED
    BY <1>0, <1>1, <2>1, <2>2 DEF Unheld
<1>5. ListsOf(Job \ {j})'
  <2>1. CASE PushRetry(w) \/ PushResent(w)
    <3>1. pump[w].push \in Job \ {j} /\ JobPriority[pump[w].push] \in Priority
      BY <1>0, <1>1, <2>1, PriorityTypes DEF PushRetry, PushResent, Unheld
    <3>. QED
      BY <1>1, <2>1, <3>1, ListsKept DEF PushRetry, PushResent, Resent, Redis
  <2>2. CASE ~PushRetry(w) /\ ~PushResent(w)
    <3>1. UNCHANGED redisVars
      BY <1>0, <2>2 DEF PumpStep, SelectDue, Requeue, RequeueNothing, RequeueFails
    <3>. QED
      BY <1>1, <3>1 DEF redisVars, ListsOf
  <2>. QED
    BY <2>1, <2>2
<1>. QED
  BY <1>2, <1>3, <1>4, <1>5, LostParts

\* A sweep reads q:processing and not the table: it never hears of the job.
LEMMA ReaperLost ==
  ASSUME TypeOK, TypeOK', NEW w \in Reap, Reaping(w), NEW j \in Job, Lost(j)
  PROVE  Lost(j)'
<1>. USE DEF storeVars, taskVars
<1>. DEFINE S == Job \ {j}
            h == Head(reaper[w].todo)
            p == JobPriority[h]
<1>0. /\ ReaperStep(w) /\ UNCHANGED <<call, loop, pump, status>>
      /\ reaper \in [Reap -> [todo : Seq(Job), act : ReaperAct]]
      /\ reaper[w].act # "read" => reaper[w].todo # << >>
  BY DEF Reaping, apiVars, workerVars, TypeOK, ReaperTypeOK, ReaperStep, Sweep, ReadStuck,
     ReadFinished, ReadOther, ReadFails, MoveBack, MoveNothing, MoveFails, PushBack, RemoveItem,
     ReaperResent, Resent
<1>1. status[j] = "queued" /\ Unheld(j) /\ ListsOf(S) /\ Sweeping(S)
  BY LostParts
<1>2. status'[j] = "queued" /\ Unheld(j)'
  BY <1>0, <1>1 DEF Unheld
<1>3. reaper[w].todo # << >> => h \in S /\ p \in Priority /\ Tail(reaper[w].todo) \in Seq(S)
  <2>1. reaper[w].todo \in Seq(S)
    BY <1>1 DEF Sweeping
  <2>. QED
    BY <2>1, PriorityTypes, HeadTailProperties
<1>. HIDE DEF S, h, p
<1>4. Sweeping(S)'
  <2>1. reaper'[w].todo \in {reaper[w].todo, Tail(reaper[w].todo), processing}
    BY <1>0 DEF ReaperStep, Sweep, ReadStuck, ReadFinished, ReadOther, ReadFails, MoveBack,
       MoveNothing, MoveFails, PushBack, RemoveItem, ReaperResent, Decide, NextItem
  <2>2. reaper'[w].todo = Tail(reaper[w].todo) => reaper[w].todo # << >> \/ reaper'[w].todo = << >>
    BY <1>0
  <2>3. reaper'[w].todo \in Seq(S)
    BY <1>1, <1>3, <2>1, <2>2 DEF Sweeping, ListsOf
  <2>4. \A u \in Reap : u # w => reaper'[u] = reaper[u]
    BY <1>0 DEF ReaperStep, Sweep, ReadStuck, ReadFinished, ReadOther, ReadFails, MoveBack,
       MoveNothing, MoveFails, PushBack, RemoveItem, ReaperResent, Decide, NextItem
  <2>. QED
    BY <1>1, <2>3, <2>4 DEF Sweeping
<1>5. ListsOf(S)'
  <2>1. CASE MoveBack(w) \/ MoveFails(w) \/ PushBack(w) \/ RemoveItem(w) \/ ReaperResent(w)
    <3>1. h \in S /\ p \in Priority
      BY <1>0, <1>3, <2>1 DEF MoveBack, MoveFails, PushBack, RemoveItem, ReaperResent
    <3>2. LMove(p) \/ LPush(p, h) \/ LRemProcessing(h) \/ UNCHANGED redisVars
      BY <2>1 DEF MoveBack, MoveFails, PushBack, RemoveItem, ReaperResent, Resent, Redis,
         h, p
    <3>. QED
      BY <1>1, <3>1, <3>2, ListsKept
  <2>2. CASE Sweep(w) \/ ReadStuck(w) \/ ReadFinished(w) \/ ReadOther(w) \/ ReadFails(w)
             \/ MoveNothing(w)
    <3>1. UNCHANGED redisVars
      BY <2>2 DEF Sweep, ReadStuck, ReadFinished, ReadOther, ReadFails, MoveNothing
    <3>. QED
      BY <1>1, <3>1 DEF redisVars, ListsOf
  <2>. QED
    BY <1>0, <2>1, <2>2 DEF ReaperStep
<1>. QED
  BY <1>2, <1>4, <1>5, LostParts DEF S

\* Time passes, and a worker that is started again begins with nothing.
LEMMA RestLost ==
  ASSUME TypeOK, TypeOK', NEW j \in Job, Lost(j),
         \/ \E w \in Worker : WorkerCrash(w)
         \/ \E k \in Job : TimePasses(k)
         \/ UNCHANGED vars
  PROVE  Lost(j)'
<1>. USE DEF storeVars, taskVars, redisVars
<1>1. status[j] = "queued" /\ Unheld(j) /\ ListsOf(Job \ {j}) /\ Sweeping(Job \ {j})
  BY LostParts
<1>2. CASE \E w \in Worker : WorkerCrash(w)
  <2>1. UNCHANGED <<status, queue, processing, call>>
    BY <1>2 DEF WorkerCrash, apiVars
  <2>2. /\ \A w \in Pump : pump'[w].push \in {pump[w].push, NoJob}
        /\ \A w \in Reap : reaper'[w].todo \in {reaper[w].todo, << >>}
        /\ \A w \in Worker : loop'[w] = loop[w] \/ loop'[w].pc = "poll"
    <3>1. loop \in [Worker -> [pc : LoopPC, at : 1..Len(Priorities), job : Job \union {NoJob}]]
      BY DEF TypeOK, WorkerTypeOK
    <3>. QED
      BY <1>2, <3>1 DEF WorkerCrash, WorkerLost, LoopTop, AtTop, PumpIdle, ReaperIdle
  <2>3. << >> \in Seq(Job \ {j}) /\ NoJob # j
    BY JobAssumption
  <2>. QED
    BY <1>1, <2>1, <2>2, <2>3, LostParts DEF Unheld, ListsOf, Sweeping
<1>3. CASE (\E k \in Job : TimePasses(k)) \/ UNCHANGED vars
  <2>1. UNCHANGED <<status, queue, processing, call, loop, pump, reaper>>
    BY <1>3 DEF TimePasses, BackoffElapses, GrowsStale, apiVars, workerVars, reaperVars, vars
  <2>. QED
    BY <1>1, <2>1, LostParts DEF Unheld, ListsOf, Sweeping
<1>. QED
  BY <1>2, <1>3

\* What PickedUpLater is about, for every configuration and without any
\* fairness: once a queued job has lost its entry, no poll, pump, sweep, restart
\* or second submission brings it back; only CancelJob ends it.
THEOREM LostForGood ==
  Spec => [][\A j \in Job : Lost(j) => Lost(j)' \/ status'[j] = "cancelled"]_vars
<1>. DEFINE Stays == \A j \in Job : Lost(j) => Lost(j)' \/ status'[j] = "cancelled"
<1>1. ExecInv /\ [Next]_vars => [Stays]_vars
  <2>. SUFFICES ASSUME ExecInv, [Next]_vars, NEW j \in Job, Lost(j)
                PROVE  Lost(j)' \/ status'[j] = "cancelled"
    OBVIOUS
  <2>1. TypeOK /\ TypeOK'
    BY TypeNext DEF ExecInv
  <2>. QED
    BY <2>1, ApiLost, LoopLost, RunLost, PumpLost, ReaperLost, RestLost DEF Next
<1>. HIDE DEF Stays
<1>2. Spec => [][Stays]_vars
  BY <1>1, ExecInvariant, PTL DEF Spec
<1>. QED
  BY <1>2 DEF Stays

-----------------------------------------------------------------------------
\* What a reaper does to a job it does not touch

\* The entry e is put at the head of the queue.
Prepended(p, e) == queue' = [queue EXCEPT ![p] = Cons(e, @)]

\* A sweep changes the lists by the entries of the jobs it touches: no queue
\* gains or loses another job, and q:processing holds it as often as before.
LEMMA ReaperTouches ==
  ASSUME TypeOK, NEW w \in Reap, Reaping(w), NEW j \in Job, j \notin swept'
  PROVE  /\ j \notin swept
         /\ \/ UNCHANGED queue
            \/ \E p \in Priority, e \in Job \ {j} : Prepended(p, e)
         /\ Cardinality(Places(j, processing')) = Cardinality(Places(j, processing))
<1>. USE DEF storeVars, redisVars
<1>. DEFINE h == Head(reaper[w].todo)
<1>0. reaper[w].act # "read" => h \in Job /\ JobPriority[h] \in Priority
  <2>1. reaper[w].todo \in Seq(Job) /\ (reaper[w].act # "read" => reaper[w].todo # << >>)
    BY DEF TypeOK, ReaperTypeOK
  <2>. QED
    BY <2>1, PriorityTypes, HeadTailProperties
<1>s. ReaperStep(w) /\ RedisOK
  BY DEF Reaping, TypeOK, StoreTypeOK, RedisOK
<1>1. CASE /\ processing # << >> /\ LMove(JobPriority[h]) /\ Touch(Last(processing))
           /\ reaper[w].act # "read"
  <2>. DEFINE e == Last(processing)
  <2>1. /\ processing \in Seq(Job) /\ e \in Job /\ JobPriority[h] \in Priority
        /\ processing' = Front(processing) /\ e # j /\ j \notin swept
        /\ Prepended(JobPriority[h], e)
    BY <1>0, <1>s, <1>1, FrontLastType DEF LMove, Touch, RedisOK, Prepended
  <2>. HIDE DEF h, e
  <2>2. /\ Cardinality(Places(j, processing)) = Cardinality(Places(j, Front(processing)))
                                                  + (IF j = e THEN 1 ELSE 0)
        /\ Cardinality(Places(j, Front(processing))) \in Nat
    BY <1>1, <2>1, FrontPlaces, FrontLastType, PlacesFinite DEF e
  <2>. QED
    BY <2>1, <2>2
<1>2. CASE LPush(JobPriority[h], h) /\ Touch(h) /\ reaper[w].act # "read"
  BY <1>0, <1>2 DEF LPush, Touch, Prepended
<1>3. CASE LRemProcessing(h) /\ Touch(h)
  <2>1. /\ processing \in Seq(Job) /\ h # j /\ j \notin swept /\ UNCHANGED queue
        /\ processing' = RemoveFirst(processing, h)
    BY <1>s, <1>3 DEF LRemProcessing, Touch, RedisOK
  <2>2. /\ Cardinality(Places(j, processing)) =
             Cardinality(Places(j, RemoveFirst(processing, h)))
               + (IF j = h /\ Contains(processing, h) THEN 1 ELSE 0)
        /\ Cardinality(Places(j, RemoveFirst(processing, h))) \in Nat
    BY <2>1, RemoveFirstPlaces, RemoveFirstType, PlacesFinite
  <2>. QED
    BY <2>1, <2>2
<1>4. CASE UNCHANGED redisVars /\ swept \subseteq swept'
  BY <1>4
<1>5. CASE MoveBack(w) \/ MoveFails(w)
  BY <1>1, <1>4, <1>5 DEF MoveBack, MoveFails, LMove
<1>6. CASE PushBack(w) \/ RemoveItem(w)
  BY <1>2, <1>3, <1>4, <1>6 DEF PushBack, RemoveItem, Redis, Touch
<1>7. CASE ReaperResent(w)
  BY <1>1, <1>2, <1>3, <1>7 DEF ReaperResent, Resent, LMove
<1>8. CASE Sweep(w) \/ ReadStuck(w) \/ ReadFinished(w) \/ ReadOther(w) \/ ReadFails(w)
           \/ MoveNothing(w)
  BY <1>4, <1>8 DEF Sweep, ReadStuck, ReadFinished, ReadOther, ReadFails, MoveNothing
<1>. QED
  BY <1>s, <1>5, <1>6, <1>7, <1>8 DEF ReaperStep

-----------------------------------------------------------------------------
\* Entries stay in the queue of their own priority

\* The queues of other priorities that hold an entry of the job.
Strays(j) == {p \in Priority \ {JobPriority[j]} : Contains(queue[p], j)}

\* A loop that is to claim a job, or to give it back, remembers the queue of
\* the job's priority.
Routed(j) ==
    /\ Strays(j) = {}
    /\ \A w \in Worker : loop[w].pc \in {"claim", "giveback"} /\ loop[w].job = j =>
         JobPriority[j] = Priorities[loop[w].at]

RouteInv == \A j \in Job \ swept : Routed(j)

\* A push to the job's own queue, a pop, LREM, and whatever is done with the
\* entries of another job keep the job out of the other queues.
LEMMA StraysKept ==
  ASSUME RedisOK, NEW j \in Job, Strays(j) = {}, NEW p \in Priority, NEW e,
         \/ Prepended(p, e) /\ e \in Job /\ (e = j => p = JobPriority[j])
         \/ BRPopLPush(p) \/ LRemAll(p, e) \/ UNCHANGED queue
  PROVE  Strays(j)' = {}
<1>1. queue \in [Priority -> Seq(Job)] /\ queue[p] \in Seq(Job)
  BY DEF RedisOK
<1>2. CASE Prepended(p, e) /\ e \in Job /\ (e = j => p = JobPriority[j])
  <2>1. Contains(Cons(e, queue[p]), j) => j = e \/ Contains(queue[p], j)
    BY <1>1, <1>2, ConsContains
  <2>. QED
    BY <1>1, <1>2, <2>1 DEF Strays, Prepended
<1>3. CASE BRPopLPush(p)
  <2>1. /\ queue' = [queue EXCEPT ![p] = Front(queue[p])]
        /\ queue[p] # << >> /\ Front(queue[p]) \in Seq(Job)
    BY <1>1, <1>3, FrontLastType DEF BRPopLPush
  <2>2. /\ Cardinality(Places(j, queue[p])) = Cardinality(Places(j, Front(queue[p])))
                                               + (IF j = Last(queue[p]) THEN 1 ELSE 0)
        /\ Cardinality(Places(j, Front(queue[p]))) \in Nat
    BY <1>1, <2>1, FrontPlaces, PlacesFinite
  <2>3. Contains(Front(queue[p]), j) => Contains(queue[p], j)
    BY <1>1, <2>1, <2>2, ContainsPlaces
  <2>. QED
    BY <1>1, <2>1, <2>3 DEF Strays
<1>4. CASE LRemAll(p, e)
  <2>1. queue' = [queue EXCEPT ![p] = Without(queue[p], e)] /\ Without(queue[p], e) \in Seq(Job)
    BY <1>1, <1>4, WithoutType DEF LRemAll
  <2>2. Cardinality(Places(j, Without(queue[p], e))) =
          IF j = e THEN 0 ELSE Cardinality(Places(j, queue[p]))
    BY <1>1, WithoutPlaces
  <2>3. Contains(Without(queue[p], e), j) => Contains(queue[p], j)
    BY <1>1, <2>1, <2>2, ContainsPlaces
  <2>. QED
    BY <1>1, <2>1, <2>3 DEF Strays
<1>5. CASE UNCHANGED queue
  BY <1>5 DEF Strays
<1>. QED
  BY <1>2, <1>3, <1>4, <1>5

\* SubmitJob pushes to the queue of the job's priority.
LEMMA ApiRouted ==
  ASSUME TypeOK, NEW c \in Client, Api(c), NEW j \in Job, Routed(j)
  PROVE  Routed(j)'
<1>. USE DEF redisVars, storeVars
<1>. DEFINE e == call[c].job
<1>0. /\ ApiStep(c) /\ UNCHANGED loop /\ RedisOK
      /\ call[c].pc # "idle" => e \in Job /\ JobPriority[e] \in Priority
  BY PriorityTypes DEF Api, workerVars, TypeOK, StoreTypeOK, RedisOK, ApiTypeOK
<1>1. \/ call[c].pc # "idle" /\ LPush(JobPriority[e], e)
      \/ call[c].pc # "idle" /\ LRemAll(JobPriority[e], e)
      \/ UNCHANGED queue
  <2>1. CASE PushJob(c) \/ RemoveQueued(c) \/ CallResent(c)
    BY <2>1 DEF PushJob, RemoveQueued, CallResent, Resent, Redis
  <2>2. CASE ~PushJob(c) /\ ~RemoveQueued(c) /\ ~CallResent(c)
    BY <1>0, <2>2 DEF ApiStep, HandlerStep, CreateJob, CreateConflict, CreateFails,
       UpdateCancelled, NotCancellable, CancelFails, CallAborts, SubmitJob, CancelJob
  <2>. QED
    BY <2>1, <2>2
<1>. HIDE DEF e
<1>2. Strays(j)' = {}
  <2>1. CASE UNCHANGED queue
    BY <2>1 DEF Routed, Strays
  <2>2. CASE call[c].pc # "idle" /\ (LPush(JobPriority[e], e) \/ LRemAll(JobPriority[e], e))
    BY <1>0, <2>2, StraysKept DEF Routed, LPush, Prepended
  <2>. QED
    BY <1>1, <2>1, <2>2
<1>. QED
  BY <1>0, <1>2 DEF Routed

\* What a loop pops belongs to the queue it polls, to which it gives it back.
LEMMA LoopRouted ==
  ASSUME TypeOK, NEW w \in Worker, Loop(w), NEW j \in Job, Routed(j)
  PROVE  Routed(j)'
<1>. USE DEF redisVars, storeVars
<1>. DEFINE p == Priorities[loop[w].at]
            e == loop[w].job
<1>0. /\ LoopStep(w) /\ RedisOK /\ p \in Priority
      /\ loop \in [Worker -> [pc : LoopPC, at : 1..Len(Priorities), job : Job \union {NoJob}]]
      /\ loop[w].pc # "poll" => e \in Job
  BY PriorityTypes DEF Loop, TypeOK, StoreTypeOK, RedisOK, WorkerTypeOK
<1>1. \/ BRPopLPush(p) \/ UNCHANGED queue
      \/ loop[w].pc = "giveback" /\ LPush(p, e)
  <2>1. CASE Pop(w) \/ PopFails(w) \/ GiveBack(w) \/ LoopResent(w)
    BY <2>1 DEF Pop, PopFails, GiveBack, LoopResent, Resent, Redis, LRemProcessing
  <2>2. CASE ~Pop(w) /\ ~PopFails(w) /\ ~GiveBack(w) /\ ~LoopResent(w)
    BY <1>0, <2>2 DEF LoopStep, PollEmpty, Claim, NotClaimed, ClaimFails, RecordAttempt, Spawn,
       LoadFails, MarkFailed, Drop, Redis, LRemProcessing
  <2>. QED
    BY <2>1, <2>2
<1>2. loop[w].pc = "giveback" /\ e = j => p = JobPriority[j]
  BY DEF Routed
<1>3. CASE Pop(w)
  <2>1. /\ BRPopLPush(p) /\ loop'[w].job = Last(queue[p]) /\ loop'[w].at = loop[w].at
        /\ \A u \in Worker : u # w => loop'[u] = loop[u]
    BY <1>0, <1>3 DEF Pop
  <2>. HIDE DEF p
  <2>2. Last(queue[p]) = j => Contains(queue[p], j)
    <3>1. queue[p] \in Seq(Job) /\ queue[p] # << >> /\ Front(queue[p]) \in Seq(Job)
      BY <1>0, <2>1, FrontLastType DEF BRPopLPush, RedisOK
    <3>2. /\ Cardinality(Places(j, queue[p])) = Cardinality(Places(j, Front(queue[p])))
                                                 + (IF j = Last(queue[p]) THEN 1 ELSE 0)
          /\ Cardinality(Places(j, Front(queue[p]))) \in Nat
      BY <3>1, FrontPlaces, PlacesFinite
    <3>. QED
      BY <3>1, <3>2, ContainsPlaces
  <2>3. Last(queue[p]) = j => p = JobPriority[j]
    BY <1>0, <2>2 DEF Routed, Strays
  <2>4. Strays(j)' = {}
    BY <1>0, <2>1, StraysKept DEF Routed
  <2>. QED
    BY <2>1, <2>3, <2>4 DEF Routed, p
<1>4. CASE ~Pop(w)
  <2>1. /\ \A u \in Worker : u # w => loop'[u] = loop[u]
        /\ loop'[w].pc \in {"claim", "giveback"} =>
             /\ loop[w].pc \in {"claim", "giveback"}
             /\ loop'[w].job = loop[w].job /\ loop'[w].at = loop[w].at
    <3>1. CASE LoopResent(w)
      BY <3>1 DEF LoopResent, workerVars
    <3>2. CASE ~LoopResent(w)
      BY <1>0, <1>4, <3>2 DEF LoopStep, PollEmpty, PopFails, Claim, NotClaimed, ClaimFails,
         GiveBack, RecordAttempt, Spawn, LoadFails, MarkFailed, Drop, NextQueue, LoopGoto,
         LoopTop, AtTop
    <3>. QED
      BY <3>1, <3>2
  <2>. HIDE DEF p, e
  <2>2. Strays(j)' = {}
    BY <1>0, <1>1, <1>2, StraysKept DEF Routed, LPush, Prepended
  <2>. QED
    BY <2>1, <2>2 DEF Routed
<1>. QED
  BY <1>3, <1>4

\* The pump pushes to the queue of the row's priority.
LEMMA PumpRouted ==
  ASSUME TypeOK, NEW w \in Pump, Pumping(w), NEW j \in Job, Routed(j)
  PROVE  Routed(j)'
<1>. DEFINE e == pump[w].push
<1>0. /\ PumpStep(w) /\ UNCHANGED loop /\ RedisOK
      /\ e # NoJob => e \in Job /\ JobPriority[e] \in Priority
  BY PriorityTypes DEF Pumping, workerVars, TypeOK, StoreTypeOK, RedisOK, PumpTypeOK
<1>1. UNCHANGED queue \/ (e # NoJob /\ LPush(JobPriority[e], e))
  BY <1>0 DEF PumpStep, SelectDue, PushRetry, PushResent, Requeue, RequeueNothing, RequeueFails,
     Redis, Resent, storeVars, redisVars
<1>. HIDE DEF e
<1>2. Strays(j)' = {}
  <2>1. CASE UNCHANGED queue
    BY <2>1 DEF Routed, Strays
  <2>2. CASE e # NoJob /\ LPush(JobPriority[e], e)
    BY <1>0, <2>2, StraysKept DEF Routed, LPush, Prepended
  <2>. QED
    BY <1>1, <2>1, <2>2
<1>. QED
  BY <1>0, <1>2 DEF Routed

\* A reaper moves and pushes the entries of jobs it touches.
LEMMA ReaperRouted ==
  ASSUME TypeOK, NEW w \in Reap, Reaping(w), NEW j \in Job, j \notin swept', Routed(j)
  PROVE  Routed(j)'
<1>1. UNCHANGED loop /\ RedisOK
  BY DEF Reaping, workerVars, TypeOK, StoreTypeOK, RedisOK
<1>2. \/ UNCHANGED queue
      \/ \E p \in Priority, e \in Job \ {j} : Prepended(p, e)
  BY ReaperTouches
<1>3. Strays(j)' = {}
  <2>1. CASE UNCHANGED queue
    BY <2>1 DEF Routed, Strays
  <2>2. ASSUME NEW p \in Priority, NEW e \in Job \ {j}, Prepended(p, e)
        PROVE  Strays(j)' = {}
    BY <1>1, <2>2, StraysKept DEF Routed
  <2>. QED
    BY <1>2, <2>1, <2>2
<1>. QED
  BY <1>1, <1>3 DEF Routed

\* What RightQueue is about: only a reaper's LMOVE puts an entry into the queue of
\* another priority.  Whatever crashes, errors and duplicates happen, an entry in
\* a wrong queue is that of a job whose entry a reaper has moved or pushed.
THEOREM QueuesKeptApart ==
  Spec => [](\A j \in Job \ swept : \A p \in Priority : Contains(queue[p], j) => JobPriority[j] = p)
<1>. DEFINE Apart == \A j \in Job \ swept : \A p \in Priority :
                       Contains(queue[p], j) => JobPriority[j] = p
<1>1. Init => RouteInv
  BY DEF Init, StoreInit, WorkerInit, AtTop, RouteInv, Routed, Strays, Contains
<1>2. TypeOK /\ RouteInv /\ [Next]_vars => RouteInv'
  <2>. SUFFICES ASSUME TypeOK, RouteInv, [Next]_vars, NEW j \in Job, j \notin swept'
                PROVE  Routed(j)'
    BY DEF RouteInv
  <2>1. CASE \E w \in Reap : Reaping(w)
    <3>1. PICK w \in Reap : Reaping(w)
      BY <2>1
    <3>2. Routed(j)
      BY <3>1, ReaperTouches DEF RouteInv
    <3>. QED
      BY <3>1, <3>2, ReaperRouted
  <2>2. CASE ~\E w \in Reap : Reaping(w)
    <3>0. Routed(j)
      <4>1. UNCHANGED swept
        BY <2>2 DEF Next, Api, Loop, Run, Pumping, WorkerCrash, TimePasses, reaperVars, vars
      <4>. QED
        BY <4>1 DEF RouteInv
    <3>1. CASE \E w \in Worker : WorkerCrash(w)
      <4>1. loop \in [Worker -> [pc : LoopPC, at : 1..Len(Priorities), job : Job \union {NoJob}]]
        BY DEF TypeOK, WorkerTypeOK
      <4>2. UNCHANGED queue /\ \A w \in Worker : loop'[w] = loop[w] \/ loop'[w].pc = "poll"
        BY <3>1, <4>1 DEF WorkerCrash, WorkerLost, LoopTop, AtTop, redisVars
      <4>. QED
        BY <3>0, <4>2 DEF Routed, Strays
    <3>2. CASE (\E r \in runs : Run(r)) \/ (\E k \in Job : TimePasses(k)) \/ UNCHANGED vars
      <4>1. UNCHANGED <<queue, loop>>
        BY <3>2 DEF Run, RunStep, HandlerSucceeds, HandlerFails, MarkSucceeded,
           MarkSucceededFails, PushDlq, MarkDeadLetter, MarkRetry, CloseAttempt, Finish,
           RunResent, Resent, Redis, LPushDlq, LRemProcessing, TimePasses, BackoffElapses,
           GrowsStale, workerVars, vars, storeVars, redisVars
      <4>. QED
        BY <3>0, <4>1 DEF Routed, Strays
    <3>. QED
      BY <2>2, <3>0, <3>1, <3>2, ApiRouted, LoopRouted, PumpRouted DEF Next
  <2>. QED
    BY <2>1, <2>2
<1>3. RouteInv => Apart
  BY DEF RouteInv, Routed, Strays
<1>4. Spec => []Apart
  BY <1>1, <1>2, <1>3, TypeCorrect, PTL DEF Spec
<1>. QED
  BY <1>4

-----------------------------------------------------------------------------
\* Every entry of q:processing has a process that will remove it

\* The runs of a job.
Mine(j) == {r \in runs : r.job = j}

\* Runs are told apart by the claim they were started for, so that the set runs
\* counts them.
Accounted ==
    /\ \A j \in Job \ swept :
         /\ IsFiniteSet(Holding(j)) /\ IsFiniteSet(Mine(j))
         /\ Cardinality(Places(j, processing)) = Cardinality(Holding(j)) + Cardinality(Mine(j))
    /\ \A r, s \in runs : r.job = s.job /\ r.n = s.n => r = s
    /\ \A r \in runs : r.n <= attempts[r.job]
    /\ \A w \in Worker : \A r \in runs : Owns(w, r.job) => r.n < attempts[r.job]

AccountInv == faults = 0 => Accounted

\* A worker loop between the pop and the end of its job.
LEMMA LoopOnAccount ==
  ASSUME ExecInv, Accounted, NEW w \in Worker, UNCHANGED <<processing, runs, swept>>,
         loop[w].pc # "poll", loop'[w].pc # "poll", loop'[w].job = loop[w].job,
         \A u \in Worker : u # w => loop'[u] = loop[u],
         \/ UNCHANGED attempts /\ (loop'[w].pc \in OwnerPC => loop[w].pc \in OwnerPC)
         \/ attempts' = [attempts EXCEPT ![loop[w].job] = @ + 1]
  PROVE  Accounted'
<1>0. /\ attempts \in [Job -> Nat] /\ loop[w].job \in Job
      /\ runs \subseteq [job : Job, n : Nat, worker : Worker, pc : RunPC]
  BY DEF ExecInv, TypeOK, StoreTypeOK, WorkerTypeOK
<1>1. ASSUME NEW j \in Job \ swept
      PROVE  /\ IsFiniteSet(Holding(j)') /\ IsFiniteSet(Mine(j)')
             /\ Cardinality(Places(j, processing')) = Cardinality(Holding(j)') + Cardinality(Mine(j)')
  <2>1. Holding(j)' = Holding(j) /\ Mine(j)' = Mine(j)
    BY DEF Holding, Mine
  <2>. QED
    BY <2>1 DEF Accounted
<1>2. \A r \in runs' : r.n <= attempts'[r.job]
  BY <1>0 DEF Accounted
<1>3. \A u \in Worker : \A r \in runs' : Owns(u, r.job)' => r.n < attempts'[r.job]
  BY <1>0 DEF Accounted, Owns
<1>. QED
  BY <1>1, <1>2, <1>3 DEF Accounted, Holding, Mine, Places

\* The worker loop puts an entry there when it pops one and takes it out when it
\* drops it; a run it starts takes the entry over.
LEMMA LoopAccount ==
  ASSUME ExecInv, Accounted, faults = 0, faults' = 0, NEW w \in Worker, Loop(w)
  PROVE  Accounted'
<1>. USE DEF storeVars, taskVars, redisVars
<1>0. /\ LoopStep(w) /\ RedisOK /\ attempts \in [Job -> Nat] /\ UNCHANGED swept
      /\ loop \in [Worker -> [pc : LoopPC, at : 1..Len(Priorities), job : Job \union {NoJob}]]
      /\ loop[w].pc # "poll" => loop[w].job \in Job
      /\ Priorities[loop[w].at] \in Priority
      /\ runs \subseteq [job : Job, n : Nat, worker : Worker, pc : RunPC]
  BY PriorityTypes DEF Loop, reaperVars, ExecInv, TypeOK, StoreTypeOK, RedisOK, WorkerTypeOK
<1>1. CASE Pop(w)
  <2>. DEFINE p == Priorities[loop[w].at]
              e == Last(queue[p])
  <2>1. /\ processing \in Seq(Job) /\ e \in Job
        /\ processing' = Cons(e, processing) /\ UNCHANGED <<attempts, runs>>
        /\ loop[w].pc = "poll" /\ loop'[w].pc = "claim" /\ loop'[w].job = e
        /\ \A u \in Worker : u # w => loop'[u] = loop[u]
    <3>1. queue[p] \in Seq(Job) /\ queue[p] # << >>
      BY <1>0, <1>1 DEF Pop, BRPopLPush, RedisOK
    <3>. QED
      BY <1>0, <1>1, <3>1, FrontLastType DEF Pop, BRPopLPush, RedisOK
  <2>. HIDE DEF p, e
  <2>2. ASSUME NEW j \in Job \ swept
        PROVE  /\ IsFiniteSet(Holding(j)') /\ IsFiniteSet(Mine(j)')
               /\ Cardinality(Places(j, processing')) = Cardinality(Holding(j)') + Cardinality(Mine(j)')
    <3>1. /\ Holding(j)' = IF j = e THEN Holding(j) \union {w} ELSE Holding(j)
          /\ w \notin Holding(j) /\ Mine(j)' = Mine(j)
      BY <2>1 DEF Holding, Mine
    <3>2. /\ IsFiniteSet(Holding(j)) /\ IsFiniteSet(Mine(j))
          /\ Cardinality(Places(j, processing)) = Cardinality(Holding(j)) + Cardinality(Mine(j))
      BY DEF Accounted
    <3>3. /\ IsFiniteSet(Holding(j)')
          /\ Cardinality(Holding(j)') = Cardinality(Holding(j)) + (IF j = e THEN 1 ELSE 0)
          /\ Cardinality(Holding(j)) \in Nat /\ Cardinality(Mine(j)) \in Nat
      BY <3>1, <3>2, FS_AddElement, FS_CardinalityType
    <3>4. Cardinality(Places(j, processing')) =
            Cardinality(Places(j, processing)) + (IF j = e THEN 1 ELSE 0)
      BY <2>1, ConsPlaces
    <3>. QED
      BY <3>1, <3>2, <3>3, <3>4
  <2>3. \A u \in Worker, j \in Job : Owns(u, j)' => Owns(u, j)
    BY <2>1 DEF Owns, OwnerPC
  <2>4. \A u \in Worker : \A r \in runs' : Owns(u, r.job)' => r.n < attempts'[r.job]
    BY <1>0, <2>1, <2>3 DEF Accounted
  <2>. QED
    BY <1>0, <2>1, <2>2, <2>4 DEF Accounted, Holding, Mine, Places
<1>2. CASE Claim(w) \/ NotClaimed(w) \/ GiveBack(w) \/ RecordAttempt(w) \/ MarkFailed(w)
  <2>1. /\ loop[w].pc # "poll" /\ loop'[w].pc # "poll" /\ loop'[w].job = loop[w].job
        /\ UNCHANGED <<processing, runs, swept>>
        /\ \A u \in Worker : u # w => loop'[u] = loop[u]
    BY <1>0, <1>2 DEF Claim, NotClaimed, GiveBack, RecordAttempt, MarkFailed, LoopGoto, Redis,
       Fault, LPush
  <2>2. \/ UNCHANGED attempts /\ (loop'[w].pc \in OwnerPC => loop[w].pc \in OwnerPC)
        \/ attempts' = [attempts EXCEPT ![loop[w].job] = @ + 1]
    BY <1>0, <1>2 DEF Claim, NotClaimed, GiveBack, RecordAttempt, MarkFailed, LoopGoto, Sql,
       ClaimTask, InsertAttempt, SetStatus, OwnerPC
  <2>. QED
    BY <2>1, <2>2, LoopOnAccount
<1>3. CASE PollEmpty(w)
  <2>1. /\ UNCHANGED <<processing, runs, attempts>> /\ loop[w].pc = "poll"
        /\ loop'[w].pc = "poll"
        /\ \A u \in Worker : u # w => loop'[u] = loop[u]
    BY <1>0, <1>3 DEF PollEmpty, NextQueue
  <2>2. \A j \in Job : Holding(j) = {u \in Worker : loop'[u].pc # "poll" /\ loop'[u].job = j}
    BY <2>1 DEF Holding
  <2>3. \A u \in Worker, j \in Job : Owns(u, j)' => Owns(u, j)
    BY <2>1 DEF Owns, OwnerPC
  <2>4. \A u \in Worker : \A r \in runs' : Owns(u, r.job)' => r.n < attempts'[r.job]
    BY <1>0, <2>1, <2>3 DEF Accounted
  <2>. QED
    BY <1>0, <2>1, <2>2, <2>4 DEF Accounted, Holding, Mine, Places
<1>4. CASE Spawn(w)
  <2>. DEFINE e == loop[w].job
              new == [job |-> e, n |-> attempts[e], worker |-> w, pc |-> "handler"]
  <2>1. /\ e \in Job /\ UNCHANGED <<processing, attempts>> /\ runs' = runs \union {new}
        /\ loop[w].pc = "load" /\ loop'[w].pc = "poll"
        /\ \A u \in Worker : u # w => loop'[u] = loop[u]
    BY <1>0, <1>4 DEF Spawn, LoopTop, AtTop
  <2>2. new.job = e /\ new.n = attempts[e] /\ Owns(w, e) /\ loop[w].job = e
    BY <2>1 DEF Owns, OwnerPC
  <2>. HIDE DEF e, new
  <2>3. \A r \in runs : r.job = e => r.n < attempts[e]
    BY <2>2 DEF Accounted
  <2>4. new \notin runs /\ attempts[e] \in Nat
    BY <1>0, <2>1, <2>2, <2>3
  <2>5. ASSUME NEW j \in Job \ swept
        PROVE  /\ IsFiniteSet(Holding(j)') /\ IsFiniteSet(Mine(j)')
               /\ Cardinality(Places(j, processing')) = Cardinality(Holding(j)') + Cardinality(Mine(j)')
    <3>1. /\ Holding(j)' = IF j = e THEN Holding(j) \ {w} ELSE Holding(j)
          /\ w \in Holding(j) <=> j = e
          /\ Mine(j)' = IF j = e THEN Mine(j) \union {new} ELSE Mine(j)
          /\ new \notin Mine(j)
      BY <2>1, <2>2, <2>4 DEF Holding, Mine
    <3>2. /\ IsFiniteSet(Holding(j)) /\ IsFiniteSet(Mine(j))
          /\ Cardinality(Places(j, processing)) = Cardinality(Holding(j)) + Cardinality(Mine(j))
      BY DEF Accounted
    <3>3. /\ IsFiniteSet(Holding(j)') /\ IsFiniteSet(Mine(j)')
          /\ Cardinality(Holding(j)') = Cardinality(Holding(j)) - (IF j = e THEN 1 ELSE 0)
          /\ Cardinality(Mine(j)') = Cardinality(Mine(j)) + (IF j = e THEN 1 ELSE 0)
          /\ Cardinality(Holding(j)) \in Nat /\ Cardinality(Mine(j)) \in Nat
      <4>1. Cardinality(Holding(j)) \in Nat /\ Cardinality(Mine(j)) \in Nat
        BY <3>2, FS_CardinalityType
      <4>2. IsFiniteSet(Holding(j) \ {w})
            /\ (j = e => Cardinality(Holding(j) \ {w}) = Cardinality(Holding(j)) - 1)
        BY <3>1, <3>2, FS_RemoveElement
      <4>3. /\ IsFiniteSet(Mine(j) \union {new})
            /\ Cardinality(Mine(j) \union {new}) = Cardinality(Mine(j)) + 1
        BY <3>1, <3>2, FS_AddElement
      <4>. QED
        BY <3>1, <3>2, <4>1, <4>2, <4>3
    <3>. QED
      BY <2>1, <3>2, <3>3
  <2>6. \A r, s \in runs' : r.job = s.job /\ r.n = s.n => r = s
    BY <1>0, <2>1, <2>2, <2>3, <2>4 DEF Accounted
  <2>7. \A r \in runs' : r.n <= attempts'[r.job]
    BY <1>0, <2>1, <2>2, <2>4 DEF Accounted
  <2>8. ASSUME NEW u \in Worker, NEW r \in runs', Owns(u, r.job)'
        PROVE  r.n < attempts'[r.job]
    <3>1. u # w /\ Owns(u, r.job)
      BY <2>1, <2>8 DEF Owns, OwnerPC
    <3>2. r.job # e
      BY <2>1, <2>2, <3>1 DEF ExecInv, SingleExecution
    <3>. QED
      BY <2>1, <2>2, <3>1, <3>2 DEF Accounted
  <2>. QED
    BY <1>0, <2>5, <2>6, <2>7, <2>8 DEF Accounted, Holding, Mine, Places
<1>5. CASE Drop(w)
  <2>. DEFINE e == loop[w].job
  <2>1. /\ e \in Job /\ processing \in Seq(Job) /\ processing' = RemoveFirst(processing, e)
        /\ UNCHANGED <<runs, attempts>> /\ loop[w].pc = "drop" /\ loop'[w].pc = "poll"
        /\ \A u \in Worker : u # w => loop'[u] = loop[u]
    BY <1>0, <1>5 DEF Drop, LoopTop, AtTop, Redis, Fault, LRemProcessing, RedisOK
  <2>2. loop[w].job = e
    OBVIOUS
  <2>. HIDE DEF e
  <2>3. ASSUME NEW j \in Job \ swept
        PROVE  /\ IsFiniteSet(Holding(j)') /\ IsFiniteSet(Mine(j)')
               /\ Cardinality(Places(j, processing')) = Cardinality(Holding(j)') + Cardinality(Mine(j)')
    <3>1. /\ Holding(j)' = IF j = e THEN Holding(j) \ {w} ELSE Holding(j)
          /\ w \in Holding(j) <=> j = e
          /\ Mine(j)' = Mine(j)
      BY <2>1, <2>2 DEF Holding, Mine
    <3>2. /\ IsFiniteSet(Holding(j)) /\ IsFiniteSet(Mine(j))
          /\ Cardinality(Places(j, processing)) = Cardinality(Holding(j)) + Cardinality(Mine(j))
      BY DEF Accounted
    <3>3. /\ IsFiniteSet(Holding(j)')
          /\ Cardinality(Holding(j)') = Cardinality(Holding(j)) - (IF j = e THEN 1 ELSE 0)
          /\ Cardinality(Holding(j)) \in Nat /\ Cardinality(Mine(j)) \in Nat
          /\ j = e => Cardinality(Holding(j)) # 0
      BY <3>1, <3>2, FS_RemoveElement, FS_CardinalityType, FS_EmptySet
    <3>4. j = e => Contains(processing, e)
      BY <2>1, <3>2, <3>3, ContainsPlaces
    <3>5. /\ Cardinality(Places(j, processing)) =
               Cardinality(Places(j, processing')) + (IF j = e /\ Contains(processing, e) THEN 1 ELSE 0)
          /\ Cardinality(Places(j, processing')) \in Nat
      BY <2>1, RemoveFirstPlaces, RemoveFirstType, PlacesFinite
    <3>. QED
      BY <3>1, <3>2, <3>3, <3>4, <3>5
  <2>4. \A u \in Worker, j \in Job : Owns(u, j)' => Owns(u, j)
    BY <2>1 DEF Owns, OwnerPC
  <2>5. \A u \in Worker : \A r \in runs' : Owns(u, r.job)' => r.n < attempts'[r.job]
    BY <1>0, <2>1, <2>4 DEF Accounted
  <2>. QED
    BY <1>0, <2>1, <2>3, <2>5 DEF Accounted, Holding, Mine, Places
<1>6. CASE PopFails(w) \/ ClaimFails(w) \/ LoadFails(w) \/ LoopResent(w)
  BY <1>6 DEF PopFails, ClaimFails, LoadFails, LoopResent, Resent, Fault
<1>. QED
  BY <1>0, <1>1, <1>2, <1>3, <1>4, <1>5, <1>6 DEF LoopStep

\* A run removes an entry when it ends.
LEMMA RunAccount ==
  ASSUME ExecInv, Accounted, faults = 0, faults' = 0, NEW r \in runs, Run(r)
  PROVE  Accounted'
<1>. USE DEF storeVars, taskVars, redisVars
<1>0. /\ RunStep(r) /\ RedisOK /\ UNCHANGED <<loop, attempts, swept>> /\ ~RunResent(r)
      /\ r \in [job : Job, n : Nat, worker : Worker, pc : RunPC]
      /\ runs \subseteq [job : Job, n : Nat, worker : Worker, pc : RunPC]
      /\ \A j \in Job : Holding(j)' = Holding(j)
  <2>1. /\ RunStep(r) /\ RedisOK /\ UNCHANGED swept
        /\ runs \subseteq [job : Job, n : Nat, worker : Worker, pc : RunPC]
    BY DEF Run, reaperVars, ExecInv, TypeOK, StoreTypeOK, RedisOK, WorkerTypeOK
  <2>2. ~RunResent(r)
    BY DEF RunResent, Resent, Fault
  <2>3. UNCHANGED <<loop, attempts>>
    BY <2>1, <2>2 DEF RunStep, HandlerSucceeds, HandlerFails, MarkSucceeded, MarkSucceededFails,
       PushDlq, MarkDeadLetter, MarkRetry, CloseAttempt, Finish, Sql, SetStatus, RetryTask,
       UpdateAttempt
  <2>. QED
    BY <2>1, <2>2, <2>3 DEF Holding
<1>1. CASE Finish(r)
  <2>1. /\ runs' = runs \ {r} /\ processing \in Seq(Job)
        /\ processing' = RemoveFirst(processing, r.job)
    BY <1>0, <1>1 DEF Finish, Redis, Fault, LRemProcessing, RedisOK
  <2>2. ASSUME NEW j \in Job \ swept
        PROVE  /\ IsFiniteSet(Holding(j)') /\ IsFiniteSet(Mine(j)')
               /\ Cardinality(Places(j, processing')) = Cardinality(Holding(j)') + Cardinality(Mine(j)')
    <3>1. /\ Mine(j)' = IF j = r.job THEN Mine(j) \ {r} ELSE Mine(j)
          /\ r \in Mine(j) <=> j = r.job
      BY <2>1 DEF Mine
    <3>2. /\ IsFiniteSet(Holding(j)) /\ IsFiniteSet(Mine(j))
          /\ Cardinality(Places(j, processing)) = Cardinality(Holding(j)) + Cardinality(Mine(j))
      BY DEF Accounted
    <3>3. /\ IsFiniteSet(Mine(j)')
          /\ Cardinality(Mine(j)') = Cardinality(Mine(j)) - (IF j = r.job THEN 1 ELSE 0)
          /\ Cardinality(Holding(j)) \in Nat /\ Cardinality(Mine(j)) \in Nat
          /\ j = r.job => Cardinality(Mine(j)) # 0
      <4>1. Cardinality(Holding(j)) \in Nat /\ Cardinality(Mine(j)) \in Nat
        BY <3>2, FS_CardinalityType
      <4>2. j = r.job => Cardinality(Mine(j)) # 0
        BY <3>1, <3>2, FS_EmptySet
      <4>3. IsFiniteSet(Mine(j) \ {r})
            /\ (j = r.job => Cardinality(Mine(j) \ {r}) = Cardinality(Mine(j)) - 1)
        BY <3>1, <3>2, FS_RemoveElement
      <4>. QED
        BY <3>1, <3>2, <4>1, <4>2, <4>3
    <3>4. j = r.job => Contains(processing, r.job)
      BY <2>1, <3>2, <3>3, ContainsPlaces
    <3>5. /\ Cardinality(Places(j, processing)) =
               Cardinality(Places(j, processing'))
                 + (IF j = r.job /\ Contains(processing, r.job) THEN 1 ELSE 0)
          /\ Cardinality(Places(j, processing')) \in Nat
      BY <2>1, RemoveFirstPlaces, RemoveFirstType, PlacesFinite
    <3>. QED
      BY <1>0, <3>2, <3>3, <3>4, <3>5
  <2>. QED
    BY <1>0, <2>1, <2>2 DEF Accounted, Holding, Mine, Places, Owns
<1>2. CASE ~Finish(r)
  <2>1. PICK new : /\ runs' = (runs \ {r}) \union {new} /\ UNCHANGED processing
                   /\ new.job = r.job /\ new.n = r.n
    <3>1. PICK pc : RunGoto(r, pc) /\ UNCHANGED processing
      BY <1>0, <1>2 DEF RunStep, HandlerSucceeds, HandlerFails, MarkSucceeded,
         MarkSucceededFails, PushDlq, MarkDeadLetter, MarkRetry, CloseAttempt, Redis, LPushDlq
    <3>2. [r EXCEPT !.pc = pc].job = r.job /\ [r EXCEPT !.pc = pc].n = r.n
      BY <1>0
    <3>. QED
      BY <3>1, <3>2 DEF RunGoto
  <2>2. new \in runs => new = r
    BY <2>1 DEF Accounted
  <2>3. ASSUME NEW j \in Job \ swept
        PROVE  /\ IsFiniteSet(Holding(j)') /\ IsFiniteSet(Mine(j)')
               /\ Cardinality(Places(j, processing')) = Cardinality(Holding(j)') + Cardinality(Mine(j)')
    <3>1. /\ Mine(j)' = IF j = r.job THEN (Mine(j) \ {r}) \union {new} ELSE Mine(j)
          /\ r \in Mine(j) <=> j = r.job
          /\ new \notin Mine(j) \ {r}
      BY <2>1, <2>2 DEF Mine
    <3>2. /\ IsFiniteSet(Holding(j)) /\ IsFiniteSet(Mine(j))
          /\ Cardinality(Places(j, processing)) = Cardinality(Holding(j)) + Cardinality(Mine(j))
      BY DEF Accounted
    <3>. DEFINE rest == Mine(j) \ {r}
    <3>3. /\ IsFiniteSet(rest) /\ Cardinality(Mine(j)) \in Nat
          /\ j = r.job => Cardinality(rest) = Cardinality(Mine(j)) - 1
      BY <3>1, <3>2, FS_RemoveElement, FS_CardinalityType
    <3>4. IsFiniteSet(rest \union {new}) /\ Cardinality(rest \union {new}) = Cardinality(rest) + 1
      BY <3>1, <3>3, FS_AddElement
    <3>5. IsFiniteSet(Mine(j)') /\ Cardinality(Mine(j)') = Cardinality(Mine(j))
      <4>. HIDE DEF rest
      <4>1. Mine(j)' = IF j = r.job THEN rest \union {new} ELSE Mine(j)
        BY <3>1 DEF rest
      <4>. QED
        BY <3>2, <3>3, <3>4, <4>1
    <3>. QED
      BY <1>0, <2>1, <3>2, <3>5
  <2>4. ASSUME NEW u \in Worker, NEW s \in runs', Owns(u, s.job)'
        PROVE  s.n < attempts'[s.job]
    BY <1>0, <2>1, <2>4 DEF Accounted, Owns
  <2>5. \A s, t \in runs' : s.job = t.job /\ s.n = t.n => s = t
    BY <2>1 DEF Accounted
  <2>6. \A s \in runs' : s.n <= attempts'[s.job]
    BY <1>0, <2>1 DEF Accounted
  <2>. QED
    BY <1>0, <2>3, <2>4, <2>5, <2>6 DEF Accounted, Holding, Mine, Places
<1>. QED
  BY <1>1, <1>2

\* A sweep changes the count of no job but those it touches.
LEMMA ReaperAccount ==
  ASSUME TypeOK, Accounted, NEW w \in Reap, Reaping(w)
  PROVE  Accounted'
<1>1. UNCHANGED <<loop, runs, attempts>>
  BY DEF Reaping, workerVars, ReaperStep, Sweep, ReadStuck, ReadFinished, ReadOther, ReadFails,
     MoveBack, MoveNothing, MoveFails, PushBack, RemoveItem, ReaperResent, Resent, storeVars,
     taskVars
<1>2. ASSUME NEW j \in Job, j \notin swept'
      PROVE  /\ IsFiniteSet(Holding(j)') /\ IsFiniteSet(Mine(j)')
             /\ Cardinality(Places(j, processing')) = Cardinality(Holding(j)') + Cardinality(Mine(j)')
  <2>1. Holding(j)' = Holding(j) /\ Mine(j)' = Mine(j)
    BY <1>1 DEF Holding, Mine
  <2>2. j \notin swept /\ Cardinality(Places(j, processing')) = Cardinality(Places(j, processing))
    BY <1>2, ReaperTouches
  <2>. QED
    BY <2>1, <2>2 DEF Accounted
<1>3. /\ \A r, s \in runs' : r.job = s.job /\ r.n = s.n => r = s
      /\ \A r \in runs' : r.n <= attempts'[r.job]
      /\ \A u \in Worker : \A r \in runs' : Owns(u, r.job)' => r.n < attempts'[r.job]
  BY <1>1 DEF Accounted, Owns
<1>. QED
  BY <1>2, <1>3 DEF Accounted, Holding, Mine, Places

\* Every step keeps the entries of q:processing accounted for.
LEMMA AccountNext == ExecInv /\ AccountInv /\ [Next]_vars => AccountInv'
<1>. SUFFICES ASSUME ExecInv, AccountInv, [Next]_vars, faults' = 0
              PROVE  Accounted'
  BY DEF AccountInv
<1>1. faults = 0 /\ Accounted
  BY NoFaultYet DEF ExecInv, AccountInv
<1>2. CASE UNCHANGED <<processing, loop, runs, attempts, swept>>
  BY <1>1, <1>2 DEF Accounted, Holding, Mine, Places, Owns
<1>3. ~\E w \in Worker : WorkerCrash(w)
  BY <1>1 DEF WorkerCrash, Fault
<1>. USE DEF storeVars, taskVars, redisVars, workerVars, reaperVars
<1>4. CASE \E c \in Client : Api(c)
  BY <1>2, <1>4 DEF Api, ApiStep, HandlerStep, CreateJob, CreateConflict, CreateFails, PushJob,
     UpdateCancelled, NotCancellable, CancelFails, RemoveQueued, CallAborts, SubmitJob,
     CancelJob, CallResent, Resent, InsertTask, CancelTask, SetStatus, Redis, LPush, LRemAll
<1>5. CASE \E w \in Pump : Pumping(w)
  BY <1>2, <1>5 DEF Pumping, PumpStep, SelectDue, PushRetry, PushResent, Resent, Requeue,
     RequeueNothing, RequeueFails, RequeueTask, SetStatus, Redis, LPush
<1>6. CASE (\E j \in Job : TimePasses(j)) \/ UNCHANGED vars
  BY <1>2, <1>6 DEF TimePasses, BackoffElapses, GrowsStale, vars
<1>7. CASE \E w \in Reap : Reaping(w)
  BY <1>1, <1>7, ReaperAccount DEF ExecInv
<1>. QED
  BY <1>1, <1>3, <1>4, <1>5, <1>6, <1>7, LoopAccount, RunAccount DEF Next

\* While no call fails, q:processing holds one entry of a job for every loop that
\* popped one and every run of the job, whatever the reapers do with the entries
\* of other jobs.
THEOREM EntriesAccounted == Spec => []ProcessingAccounted
<1>1. Init => AccountInv
  <2>. SUFFICES ASSUME Init, NEW j \in Job
                PROVE  Holding(j) = {} /\ Mine(j) = {} /\ Places(j, processing) = {} /\ runs = {}
    BY FS_EmptySet DEF AccountInv, Accounted, Init, WorkerInit
  <2>. QED
    BY DEF Init, StoreInit, WorkerInit, AtTop, Holding, Mine, Places
<1>2. AccountInv => ProcessingAccounted
  BY DEF AccountInv, Accounted, ProcessingAccounted, Occurs, Places, Mine
<1>3. ExecInv /\ AccountInv /\ [Next]_vars => AccountInv'
  BY AccountNext
<1>. QED
  BY <1>1, <1>2, <1>3, ExecInvariant, PTL DEF Spec

-----------------------------------------------------------------------------
\* A job has one ticket at most

\* The processes that are to push an entry of the job or to claim it.
Held(j) == {<<"call", c>> : c \in {d \in Client : call[d].pc = "push" /\ call[d].job = j}}
           \union {<<"pump", w>> : w \in {u \in Pump : pump[u].push = j}}
           \union {<<"loop", w>> : w \in Claiming(j)}

Here(j)    == Cardinality(Places(j, queue[JobPriority[j]]))
Tickets(j) == Here(j) + Cardinality(Held(j))

\* A ticket is made when the row becomes 'queued' and used up by the claim, so
\* a job that has one is not being executed.
Ticketed(j) ==
    /\ IsFiniteSet(Held(j)) /\ Strays(j) = {}
    /\ Tickets(j) <= 1
    /\ status[j] = "queued" /\ j \notin acked => Tickets(j) = 1
    /\ Tickets(j) # 0 => status[j] \in {"queued", "cancelled"} /\ j \notin Executing

TicketInv == faults = 0 => /\ \A j \in Job \ swept : Ticketed(j)
                           /\ \A w \in Worker : loop[w].pc # "giveback"

\* A step that keeps the number of tickets of a job.
LEMMA TicketsKept ==
  ASSUME NEW j \in Job, Ticketed(j), IsFiniteSet(Held(j)'), Tickets(j)' = Tickets(j),
         Strays(j)' = {}, acked \subseteq acked', j \in Executing' => j \in Executing,
         \/ status'[j] = status[j]
         \/ Tickets(j) = 0 /\ status'[j] # "queued"
         \/ status'[j] = "cancelled" /\ status[j] = "queued"
  PROVE  Ticketed(j)'
BY DEF Ticketed

\* Numbers of tickets are natural numbers.
LEMMA TicketTypes ==
  ASSUME RedisOK, NEW j \in Job, IsFiniteSet(Held(j))
  PROVE  Here(j) \in Nat /\ Cardinality(Held(j)) \in Nat /\ Tickets(j) \in Nat
<1>1. queue[JobPriority[j]] \in Seq(Job)
  BY PriorityTypes DEF RedisOK
<1>. QED
  BY <1>1, PlacesFinite, FS_CardinalityType DEF Here, Tickets

\* LPUSH onto the queue of the job's own priority adds a ticket there.
LEMMA LPushTicket ==
  ASSUME RedisOK, NEW e \in Job, LPush(JobPriority[e], e), NEW j \in Job, Strays(j) = {}
  PROVE  Here(j)' = Here(j) + (IF j = e THEN 1 ELSE 0) /\ Strays(j)' = {}
<1>. DEFINE p == JobPriority[e]
<1>1. /\ queue \in [Priority -> Seq(Job)] /\ p \in Priority /\ JobPriority[j] \in Priority
      /\ queue' = [queue EXCEPT ![p] = Cons(e, queue[p])] /\ queue[p] \in Seq(Job)
  BY PriorityTypes DEF RedisOK, LPush
<1>2. JobPriority[e] = p
  OBVIOUS
<1>. HIDE DEF p
<1>3. /\ queue'[p] = Cons(e, queue[p])
      /\ \A q \in Priority : q # p => queue'[q] = queue[q]
  BY <1>1
<1>4. Cardinality(Places(j, queue'[p])) =
        Cardinality(Places(j, queue[p])) + (IF j = e THEN 1 ELSE 0)
  BY <1>1, <1>3, ConsPlaces
<1>5. Cardinality(Places(j, queue[JobPriority[j]])) \in Nat
  BY <1>1, PlacesFinite
<1>6. Here(j)' = Here(j) + (IF j = e THEN 1 ELSE 0)
  BY <1>1, <1>2, <1>3, <1>4, <1>5 DEF Here
<1>7. Contains(queue'[p], j) => j = e \/ Contains(queue[p], j)
  BY <1>1, <1>3, ConsContains
<1>8. Strays(j)' = {}
  BY <1>2, <1>3, <1>7 DEF Strays
<1>. QED
  BY <1>6, <1>8

\* The pop takes it from there.
LEMMA PopTicket ==
  ASSUME RedisOK, NEW p \in Priority, BRPopLPush(p), NEW j \in Job, Strays(j) = {}
  PROVE  Here(j)' = Here(j) - (IF j = Last(queue[p]) THEN 1 ELSE 0) /\ Strays(j)' = {}
<1>1. /\ queue \in [Priority -> Seq(Job)] /\ JobPriority[j] \in Priority
      /\ queue[p] \in Seq(Job) /\ queue[p] # << >>
      /\ queue'[p] = Front(queue[p]) /\ Front(queue[p]) \in Seq(Job)
      /\ \A q \in Priority : q # p => queue'[q] = queue[q]
  BY PriorityTypes, FrontLastType DEF RedisOK, BRPopLPush
<1>2. Cardinality(Places(j, queue[p])) =
        Cardinality(Places(j, queue'[p])) + (IF j = Last(queue[p]) THEN 1 ELSE 0)
  BY <1>1, FrontPlaces
<1>3. /\ Cardinality(Places(j, queue[p])) \in Nat /\ Cardinality(Places(j, queue'[p])) \in Nat
      /\ Cardinality(Places(j, queue[JobPriority[j]])) \in Nat
  BY <1>1, PlacesFinite
<1>4. Contains(queue'[p], j) \/ j = Last(queue[p]) => Contains(queue[p], j)
  BY <1>1, <1>2, <1>3, ContainsPlaces
<1>5. j = Last(queue[p]) => p = JobPriority[j]
  BY <1>4 DEF Strays
<1>6. Here(j)' = Here(j) - (IF j = Last(queue[p]) THEN 1 ELSE 0)
  BY <1>1, <1>2, <1>3, <1>5 DEF Here
<1>7. Strays(j)' = {}
  BY <1>1, <1>4 DEF Strays
<1>. QED
  BY <1>6, <1>7

\* CancelJob's LREM takes the tickets of its own job.
LEMMA LRemTicket ==
  ASSUME RedisOK, NEW e \in Job, LRemAll(JobPriority[e], e), NEW j \in Job, Strays(j) = {}
  PROVE  Here(j)' = (IF j = e THEN 0 ELSE Here(j)) /\ Strays(j)' = {}
<1>. DEFINE p == JobPriority[e]
<1>1. /\ queue \in [Priority -> Seq(Job)] /\ p \in Priority /\ JobPriority[j] \in Priority
      /\ queue' = [queue EXCEPT ![p] = Without(queue[p], e)] /\ queue[p] \in Seq(Job)
  BY PriorityTypes DEF RedisOK, LRemAll
<1>2. JobPriority[e] = p
  OBVIOUS
<1>. HIDE DEF p
<1>3. /\ queue'[p] = Without(queue[p], e) /\ queue'[p] \in Seq(Job)
      /\ \A q \in Priority : q # p => queue'[q] = queue[q]
  BY <1>1, WithoutType
<1>4. Cardinality(Places(j, queue'[p])) = IF j = e THEN 0 ELSE Cardinality(Places(j, queue[p]))
  BY <1>1, <1>3, WithoutPlaces
<1>5. Here(j)' = IF j = e THEN 0 ELSE Here(j)
  BY <1>1, <1>2, <1>3, <1>4 DEF Here
<1>6. Contains(queue'[p], j) => Contains(queue[p], j)
  BY <1>1, <1>3, <1>4, ContainsPlaces
<1>7. Strays(j)' = {}
  BY <1>3, <1>6 DEF Strays
<1>. QED
  BY <1>5, <1>7

\* A process that takes a ticket.
LEMMA HeldGains ==
  ASSUME NEW j \in Job, NEW x, IsFiniteSet(Held(j)), x \notin Held(j),
         Held(j)' = Held(j) \union {x}
  PROVE  IsFiniteSet(Held(j)') /\ Cardinality(Held(j)') = Cardinality(Held(j)) + 1
BY FS_AddElement

\* A process that gives its ticket up.
LEMMA HeldLoses ==
  ASSUME NEW j \in Job, NEW x, IsFiniteSet(Held(j)), x \in Held(j),
         Held(j)' = Held(j) \ {x}
  PROVE  IsFiniteSet(Held(j)') /\ Cardinality(Held(j)') = Cardinality(Held(j)) - 1
BY FS_RemoveElement

\* Processes that take and give up no ticket of the job.
LEMMA HeldKept ==
  ASSUME NEW j \in Job, Ticketed(j), Held(j)' = Held(j), UNCHANGED queue
  PROVE  IsFiniteSet(Held(j)') /\ Tickets(j)' = Tickets(j) /\ Strays(j)' = {}
BY DEF Ticketed, Tickets, Here, Strays

\* A row that becomes 'queued' gets the one ticket of its job, held by the
\* process that is to push it.
LEMMA TicketMade ==
  ASSUME ExecInv, NEW j \in Job, Ticketed(j), status[j] \in {"absent", "retry"},
         status'[j] = "queued", UNCHANGED <<queue, loop, runs>>,
         NEW x, x \notin Held(j), Held(j)' = Held(j) \union {x}
  PROVE  Ticketed(j)'
<1>1. IsFiniteSet(Held(j)) /\ Tickets(j) = 0 /\ Strays(j) = {}
  BY DEF Ticketed
<1>2. Here(j) \in Nat /\ Cardinality(Held(j)) \in Nat /\ RedisOK
  BY <1>1, TicketTypes DEF ExecInv, TypeOK, StoreTypeOK, RedisOK
<1>3. IsFiniteSet(Held(j)') /\ Cardinality(Held(j)') = Cardinality(Held(j)) + 1
  BY <1>1, HeldGains
<1>4. Here(j)' = Here(j) /\ Strays(j)' = {}
  BY <1>1 DEF Here, Strays
<1>5. Tickets(j)' = 1
  BY <1>1, <1>2, <1>3, <1>4 DEF Tickets
<1>6. j \notin Executing /\ Executing' = Executing
  BY DEF ExecInv, SingleExecution, Executing, Owns, Active
<1>. QED
  BY <1>3, <1>4, <1>5, <1>6 DEF Ticketed

\* LPUSH turns the ticket held by the process that pushes into an entry.
LEMMA TicketPushed ==
  ASSUME ExecInv, NEW j \in Job, Ticketed(j), NEW e \in Job, LPush(JobPriority[e], e),
         UNCHANGED <<status, loop, runs>>, acked' = acked,
         NEW x, j = e => x \in Held(j) /\ Held(j)' = Held(j) \ {x},
         j # e => Held(j)' = Held(j)
  PROVE  Ticketed(j)'
<1>1. IsFiniteSet(Held(j)) /\ Strays(j) = {} /\ RedisOK
  BY DEF Ticketed, ExecInv, TypeOK, StoreTypeOK, RedisOK
<1>2. Here(j) \in Nat /\ Cardinality(Held(j)) \in Nat
  BY <1>1, TicketTypes
<1>3. /\ IsFiniteSet(Held(j)')
      /\ Cardinality(Held(j)') = Cardinality(Held(j)) - (IF j = e THEN 1 ELSE 0)
  <2>1. CASE j = e
    BY <1>1, <2>1, HeldLoses
  <2>2. CASE j # e
    BY <1>1, <1>2, <2>2
  <2>. QED
    BY <2>1, <2>2
<1>4. Here(j)' = Here(j) + (IF j = e THEN 1 ELSE 0) /\ Strays(j)' = {}
  BY <1>1, LPushTicket
<1>5. Tickets(j)' = Tickets(j)
  BY <1>2, <1>3, <1>4 DEF Tickets
<1>6. Executing' = Executing
  BY DEF Executing, Owns, Active
<1>. QED
  BY <1>3, <1>4, <1>5, <1>6, TicketsKept

\* The handlers of SubmitJob and CancelJob.
LEMMA ApiTicket ==
  ASSUME ExecInv, Reached, faults = 0, faults' = 0, NEW c \in Client, Api(c),
         NEW j \in Job, Ticketed(j)
  PROVE  Ticketed(j)'
<1>. USE DEF storeVars, taskVars, redisVars
<1>0. /\ RedisOK /\ status \in [Job -> Status]
      /\ call \in [Client -> [pc : CallPC, job : Job \union {NoJob}, seen : Status]]
      /\ call[c].pc # "idle" => call[c].job \in Job /\ JobPriority[call[c].job] \in Priority
  BY PriorityTypes DEF ExecInv, TypeOK, StoreTypeOK, RedisOK, ApiTypeOK
<1>1. ApiStep(c) /\ UNCHANGED <<loop, runs, pump>>
  BY DEF Api, workerVars
<1>2. Executing' = Executing /\ Claiming(j)' = Claiming(j)
  BY <1>1 DEF Executing, Owns, Active, Claiming, Holding
<1>3. CASE CreateJob(c)
  <2>1. /\ call'[c].pc = "push" /\ call'[c].job = call[c].job /\ call[c].pc = "create"
        /\ \A d \in Client : d # c => call'[d] = call[d]
        /\ status[call[c].job] = "absent" /\ UNCHANGED <<queue, acked>>
        /\ status' = [status EXCEPT ![call[c].job] = "queued"]
    BY <1>0, <1>3 DEF CreateJob, Goto, InsertTask, SetStatus
  <2>2. CASE j = call[c].job
    <3>1. <<"call", c>> \notin Held(j) /\ Held(j)' = Held(j) \union {<<"call", c>>}
      BY <1>1, <1>2, <2>1, <2>2 DEF Held
    <3>2. status[j] = "absent" /\ status'[j] = "queued"
      BY <1>0, <2>1, <2>2
    <3>. QED
      BY <1>1, <2>1, <3>1, <3>2, TicketMade
  <2>3. CASE j # call[c].job
    <3>1. Held(j)' = Held(j) /\ status'[j] = status[j]
      BY <1>0, <1>1, <1>2, <2>1, <2>3 DEF Held
    <3>. QED
      BY <1>2, <2>1, <3>1, HeldKept, TicketsKept
  <2>. QED
    BY <2>2, <2>3
<1>4. CASE PushJob(c)
  <2>. DEFINE e == call[c].job
  <2>1. /\ call[c].pc = "push" /\ LPush(JobPriority[e], e) /\ e \in Job
        /\ \A d \in Client : d # c => call'[d] = call[d]
        /\ call'[c].pc = "idle" /\ UNCHANGED <<status, acked>>
    BY <1>0, <1>4 DEF PushJob, Redis, Fault, Return, NoCall
  <2>2. /\ j = e => <<"call", c>> \in Held(j) /\ Held(j)' = Held(j) \ {<<"call", c>>}
        /\ j # e => Held(j)' = Held(j)
    BY <1>1, <1>2, <2>1 DEF Held
  <2>. HIDE DEF e
  <2>. QED
    BY <1>1, <2>1, <2>2, TicketPushed
<1>5. CASE RemoveQueued(c)
  <2>. DEFINE e == call[c].job
  <2>1. /\ call[c].pc = "lrem" /\ e \in acked /\ e \in Job /\ LRemAll(JobPriority[e], e)
        /\ \A d \in Client : d # c => call'[d] = call[d]
        /\ call'[c].pc = "idle" /\ UNCHANGED <<status, acked>>
    BY <1>0, <1>5 DEF RemoveQueued, Redis, Fault, Return, NoCall, Reached
  <2>2. Held(j)' = Held(j)
    BY <1>1, <1>2, <2>1 DEF Held
  <2>. HIDE DEF e
  <2>3. IsFiniteSet(Held(j)) /\ Strays(j) = {}
    BY DEF Ticketed
  <2>4. Here(j)' = (IF j = e THEN 0 ELSE Here(j)) /\ Strays(j)' = {}
    BY <1>0, <2>1, <2>3, LRemTicket
  <2>5. Here(j) \in Nat /\ Cardinality(Held(j)) \in Nat
    BY <1>0, <2>3, TicketTypes
  <2>6. /\ j # e => Tickets(j)' = Tickets(j)
        /\ Tickets(j)' <= Tickets(j) /\ (Tickets(j)' # 0 => Tickets(j) # 0)
        /\ Tickets(j) \in Nat /\ Tickets(j)' \in Nat
    BY <2>2, <2>4, <2>5 DEF Tickets
  <2>. QED
    BY <1>2, <2>1, <2>2, <2>3, <2>4, <2>6 DEF Ticketed
<1>6. CASE \/ CreateConflict(c) \/ UpdateCancelled(c) \/ NotCancellable(c)
           \/ \E k \in Job : SubmitJob(c, k) \/ CancelJob(c, k)
  <2>1. /\ call[c].pc # "push" /\ call'[c].pc # "push" /\ UNCHANGED queue
        /\ \A d \in Client : d # c => call'[d] = call[d]
        /\ acked \subseteq acked'
    BY <1>0, <1>6 DEF CreateConflict, UpdateCancelled, NotCancellable, SubmitJob, CancelJob,
       Goto, Return, NoCall
  <2>2. Held(j)' = Held(j)
    BY <1>1, <1>2, <2>1 DEF Held
  <2>3. \/ status'[j] = status[j]
        \/ status'[j] = "cancelled" /\ status[j] \in {"queued", "running"}
    BY <1>0, <1>6 DEF CreateConflict, UpdateCancelled, NotCancellable, SubmitJob, CancelJob,
       SetStatus, CancelTask
  <2>4. status[j] = "running" => Tickets(j) = 0
    BY DEF Ticketed
  <2>. QED
    BY <1>2, <2>1, <2>2, <2>3, <2>4, HeldKept, TicketsKept
<1>7. CASE CreateFails(c) \/ CancelFails(c) \/ CallAborts(c) \/ CallResent(c)
  BY <1>7 DEF CreateFails, CancelFails, CallAborts, CallResent, Resent, Fault
<1>. QED
  BY <1>1, <1>3, <1>4, <1>5, <1>6, <1>7 DEF ApiStep, HandlerStep

\* The worker loop: a pop takes the ticket from the queue, the claim uses it up,
\* and a claim that comes too late drops it.
LEMMA LoopTicket ==
  ASSUME ExecInv, faults = 0, faults' = 0, NEW w \in Worker, Loop(w),
         loop[w].pc # "giveback", NEW j \in Job, Ticketed(j)
  PROVE  Ticketed(j)'
<1>. USE DEF storeVars, taskVars, redisVars
<1>0. /\ RedisOK /\ status \in [Job -> Status]
      /\ loop \in [Worker -> [pc : LoopPC, at : 1..Len(Priorities), job : Job \union {NoJob}]]
      /\ loop[w].pc # "poll" => loop[w].job \in Job
      /\ Priorities[loop[w].at] \in Priority
  BY PriorityTypes DEF ExecInv, TypeOK, StoreTypeOK, RedisOK, WorkerTypeOK
<1>1. LoopStep(w) /\ UNCHANGED <<call, pump, acked>>
  BY DEF Loop, apiVars
<1>2. IsFiniteSet(Held(j)) /\ Strays(j) = {} /\ Here(j) \in Nat /\ Cardinality(Held(j)) \in Nat
  BY <1>0, TicketTypes DEF Ticketed
<1>3. ASSUME \A u \in Worker : u # w => loop'[u] = loop[u]
      PROVE  /\ (loop'[w].pc = "claim" <=> loop[w].pc = "claim") /\ loop'[w].job = loop[w].job
                  => Held(j)' = Held(j)
             /\ loop'[w].pc # "claim" /\ loop[w].pc # "claim" => Held(j)' = Held(j)
             /\ loop'[w].pc # "claim" /\ loop[w].pc = "claim" /\ loop[w].job = j
                  => <<"loop", w>> \in Held(j) /\ Held(j)' = Held(j) \ {<<"loop", w>>}
             /\ loop'[w].pc # "claim" /\ loop[w].job # j => Held(j)' = Held(j)
             /\ loop'[w].pc = "claim" /\ loop[w].pc # "claim" /\ loop'[w].job = j
                  => <<"loop", w>> \notin Held(j) /\ Held(j)' = Held(j) \union {<<"loop", w>>}
             /\ loop[w].pc # "claim" /\ loop'[w].job # j => Held(j)' = Held(j)
  <2>1. Claiming(j) = {u \in Worker : loop[u].pc = "claim" /\ loop[u].job = j}
    BY DEF Claiming, Holding
  <2>2. Claiming(j)' = {u \in Worker : loop'[u].pc = "claim" /\ loop'[u].job = j}
    BY DEF Claiming, Holding
  <2>. QED
    BY <1>1, <1>3, <2>1, <2>2 DEF Held
<1>4. ASSUME loop[w].pc = "claim", loop[w].job = j, loop'[w].pc # "claim",
             \A u \in Worker : u # w => loop'[u] = loop[u], UNCHANGED queue
      PROVE  IsFiniteSet(Held(j)') /\ Tickets(j)' = 0 /\ Strays(j)' = {}
  <2>1. <<"loop", w>> \in Held(j) /\ Held(j)' = Held(j) \ {<<"loop", w>>}
    BY <1>3, <1>4
  <2>2. IsFiniteSet(Held(j)') /\ Cardinality(Held(j)') = Cardinality(Held(j)) - 1
    BY <1>2, <2>1, HeldLoses
  <2>3. Cardinality(Held(j)') \in Nat
    BY <2>2, FS_CardinalityType
  <2>4. Here(j)' = Here(j) /\ Strays(j)' = {}
    BY <1>2, <1>4 DEF Here, Strays
  <2>5. Tickets(j) <= 1
    BY DEF Ticketed
  <2>. QED
    BY <1>2, <2>2, <2>3, <2>4, <2>5 DEF Tickets
<1>5. CASE Pop(w)
  <2>. DEFINE p == Priorities[loop[w].at]
              e == Last(queue[p])
  <2>1. /\ p \in Priority /\ BRPopLPush(p) /\ UNCHANGED <<status, runs>>
        /\ loop[w].pc = "poll" /\ loop'[w].pc = "claim" /\ loop'[w].job = e
        /\ \A u \in Worker : u # w => loop'[u] = loop[u]
    BY <1>0, <1>5 DEF Pop
  <2>. HIDE DEF p
  <2>2. Here(j)' = Here(j) - (IF j = e THEN 1 ELSE 0) /\ Strays(j)' = {}
    BY <1>0, <1>2, <2>1, PopTicket
  <2>. HIDE DEF e
  <2>3. /\ IsFiniteSet(Held(j)')
        /\ Cardinality(Held(j)') = Cardinality(Held(j)) + (IF j = e THEN 1 ELSE 0)
    <3>1. CASE j = e
      <4>1. <<"loop", w>> \notin Held(j) /\ Held(j)' = Held(j) \union {<<"loop", w>>}
        BY <1>3, <2>1, <3>1
      <4>. QED
        BY <1>2, <3>1, <4>1, HeldGains
    <3>2. CASE j # e
      <4>1. Held(j)' = Held(j)
        BY <1>3, <2>1, <3>2
      <4>. QED
        BY <1>2, <3>2, <4>1
    <3>. QED
      BY <3>1, <3>2
  <2>4. Tickets(j)' = Tickets(j)
    BY <1>2, <2>2, <2>3 DEF Tickets
  <2>5. j \in Executing' => j \in Executing
    BY <2>1 DEF Executing, Owns, OwnerPC, Active
  <2>. QED
    BY <1>1, <2>1, <2>2, <2>3, <2>4, <2>5, TicketsKept
<1>6. CASE Claim(w)
  <2>1. /\ loop[w].pc = "claim" /\ loop'[w].pc = "insert" /\ loop'[w].job = loop[w].job
        /\ \A u \in Worker : u # w => loop'[u] = loop[u]
        /\ UNCHANGED <<queue, runs>>
        /\ status' = [status EXCEPT ![loop[w].job] = "running"]
    BY <1>0, <1>6 DEF Claim, ClaimTask, LoopGoto
  <2>2. CASE j = loop[w].job
    <3>1. IsFiniteSet(Held(j)') /\ Tickets(j)' = 0 /\ Strays(j)' = {}
      BY <1>4, <2>1, <2>2
    <3>2. status'[j] = "running"
      BY <1>0, <2>1, <2>2
    <3>. QED
      BY <3>1, <3>2 DEF Ticketed
  <2>3. CASE j # loop[w].job
    <3>1. Held(j)' = Held(j) /\ status'[j] = status[j]
      BY <1>0, <1>3, <2>1, <2>3
    <3>2. j \in Executing' => j \in Executing
      BY <2>1, <2>3 DEF Executing, Owns, Active
    <3>. QED
      BY <1>1, <2>1, <3>1, <3>2, HeldKept, TicketsKept
  <2>. QED
    BY <2>2, <2>3
<1>7. CASE NotClaimed(w)
  <2>1. /\ loop[w].pc = "claim" /\ loop'[w].pc = "drop" /\ status[loop[w].job] # "queued"
        /\ \A u \in Worker : u # w => loop'[u] = loop[u]
        /\ UNCHANGED <<queue, runs, status>>
    BY <1>0, <1>7 DEF NotClaimed, LoopGoto
  <2>2. j \in Executing' => j \in Executing
    BY <2>1 DEF Executing, Owns, OwnerPC, Active
  <2>3. CASE j = loop[w].job
    <3>1. IsFiniteSet(Held(j)') /\ Tickets(j)' = 0 /\ Strays(j)' = {}
      BY <1>4, <2>1, <2>3
    <3>. QED
      BY <2>1, <2>3, <3>1 DEF Ticketed
  <2>4. CASE j # loop[w].job
    <3>1. Held(j)' = Held(j)
      BY <1>3, <2>1, <2>4
    <3>. QED
      BY <1>1, <2>1, <2>2, <3>1, HeldKept, TicketsKept
  <2>. QED
    BY <2>3, <2>4
<1>8. CASE PollEmpty(w) \/ RecordAttempt(w) \/ Spawn(w) \/ MarkFailed(w) \/ Drop(w)
  <2>1. /\ loop[w].pc # "claim" /\ loop'[w].pc # "claim" /\ UNCHANGED queue
        /\ \A u \in Worker : u # w => loop'[u] = loop[u]
    BY <1>0, <1>8 DEF PollEmpty, RecordAttempt, Spawn, MarkFailed, Drop, NextQueue, LoopGoto,
       LoopTop, AtTop, Sql, Redis, Fault, LRemProcessing
  <2>2. Held(j)' = Held(j)
    BY <1>3, <2>1
  <2>3. j \in Executing' => j \in Executing
    <3>1. CASE Spawn(w)
      <4>1. Owns(w, loop[w].job)
        BY <3>1 DEF Spawn, Owns, OwnerPC
      <4>2. /\ runs' = runs \union {[job |-> loop[w].job, n |-> attempts[loop[w].job],
                                     worker |-> w, pc |-> "handler"]}
            /\ loop'[w].pc = "poll"
        BY <1>0, <3>1 DEF Spawn, LoopTop, AtTop
      <4>. QED
        BY <2>1, <4>1, <4>2 DEF Executing, Owns, OwnerPC, Active
    <3>2. CASE PollEmpty(w) \/ RecordAttempt(w) \/ MarkFailed(w) \/ Drop(w)
      <4>1. /\ UNCHANGED runs
            /\ loop'[w].pc \in OwnerPC => loop[w].pc \in OwnerPC
            /\ loop'[w].pc \in OwnerPC => loop'[w].job = loop[w].job
        BY <1>0, <3>2 DEF PollEmpty, RecordAttempt, MarkFailed, Drop, NextQueue, LoopGoto,
           LoopTop, AtTop, OwnerPC
      <4>. QED
        BY <2>1, <4>1 DEF Executing, Owns, Active
    <3>. QED
      BY <1>8, <3>1, <3>2
  <2>4. \/ status'[j] = status[j]
        \/ status'[j] = "failed" /\ loop[w].pc = "markfailed" /\ j = loop[w].job
    BY <1>0, <1>8 DEF PollEmpty, RecordAttempt, Spawn, MarkFailed, Drop, Sql, Redis,
       InsertAttempt, SetStatus, LRemProcessing
  <2>5. loop[w].pc = "markfailed" /\ j = loop[w].job => Tickets(j) = 0
    BY DEF Ticketed, Executing, Owns, OwnerPC
  <2>. QED
    BY <1>1, <2>1, <2>2, <2>3, <2>4, <2>5, HeldKept, TicketsKept
<1>9. CASE PopFails(w) \/ ClaimFails(w) \/ LoadFails(w) \/ GiveBack(w) \/ LoopResent(w)
  BY <1>9 DEF PopFails, ClaimFails, LoadFails, GiveBack, LoopResent, Resent, Fault
<1>. QED
  BY <1>1, <1>5, <1>6, <1>7, <1>8, <1>9 DEF LoopStep

\* A run reports on a job that has no ticket, and none of its reports is 'queued'.
LEMMA RunTicket ==
  ASSUME ExecInv, faults = 0, faults' = 0, NEW r \in runs, Run(r), NEW j \in Job, Ticketed(j)
  PROVE  Ticketed(j)'
<1>. USE DEF storeVars, taskVars, redisVars
<1>0. /\ status \in [Job -> Status] /\ r.job \in Job
      /\ runs \subseteq [job : Job, n : Nat, worker : Worker, pc : RunPC]
  BY DEF ExecInv, TypeOK, StoreTypeOK, WorkerTypeOK
<1>n. ~RunResent(r)
  BY DEF RunResent, Resent, Fault
<1>1. RunStep(r) /\ UNCHANGED <<call, pump, loop, acked, queue>>
  BY <1>n DEF Run, apiVars, RunStep, HandlerSucceeds, HandlerFails, MarkSucceeded,
     MarkSucceededFails, PushDlq, MarkDeadLetter, MarkRetry, CloseAttempt, Finish, Sql, Redis,
     LPushDlq, LRemProcessing
<1>2. Held(j)' = Held(j)
  BY <1>1 DEF Held, Claiming, Holding
<1>3. j \in Executing' => j \in Executing
  <2>1. CASE Finish(r)
    BY <1>1, <2>1 DEF Finish, Executing, Owns, Active
  <2>2. CASE ~Finish(r)
    <3>1. PICK pc \in RunPC : RunGoto(r, pc) /\ (pc \in ActivePC => r.pc \in ActivePC)
      BY <1>n, <1>1, <2>2 DEF RunStep, HandlerSucceeds, HandlerFails, MarkSucceeded,
         MarkSucceededFails, PushDlq, MarkDeadLetter, MarkRetry, CloseAttempt, RunPC, ActivePC
    <3>2. [r EXCEPT !.pc = pc].job = r.job /\ [r EXCEPT !.pc = pc].pc = pc
      BY <1>0
    <3>. QED
      BY <1>1, <3>1, <3>2 DEF RunGoto, Executing, Owns, Active
  <2>. QED
    BY <2>1, <2>2
<1>4. \/ status'[j] = status[j]
      \/ Active(r) /\ r.job = j /\ status'[j] # "queued"
  BY <1>n, <1>0, <1>1 DEF RunStep, HandlerSucceeds, HandlerFails, MarkSucceeded,
     MarkSucceededFails, PushDlq, MarkDeadLetter, MarkRetry, CloseAttempt, Finish, Sql, Redis,
     SetStatus, RetryTask, UpdateAttempt, Active, ActivePC
<1>5. Active(r) /\ r.job = j => Tickets(j) = 0
  BY DEF Ticketed, Executing
<1>. QED
  BY <1>1, <1>2, <1>3, <1>4, <1>5, HeldKept, TicketsKept

\* The retry pump: one UPDATE ... WHERE status = 'retry' wins, one entry is pushed.
LEMMA PumpTicket ==
  ASSUME ExecInv, faults = 0, faults' = 0, NEW w \in Pump, Pumping(w),
         NEW j \in Job, Ticketed(j)
  PROVE  Ticketed(j)'
<1>. USE DEF storeVars, taskVars, redisVars
<1>0. /\ status \in [Job -> Status]
      /\ pump \in [Pump -> [todo : SUBSET [job : Job, n : Nat], push : Job \union {NoJob}]]
  BY DEF ExecInv, TypeOK, StoreTypeOK, PumpTypeOK
<1>1. PumpStep(w) /\ UNCHANGED <<call, acked, loop, runs>>
  BY DEF Pumping, apiVars, workerVars
<1>2. Claiming(j)' = Claiming(j) /\ Executing' = Executing
  BY <1>1 DEF Claiming, Holding, Executing, Owns, Active
<1>3. CASE PushRetry(w)
  <2>. DEFINE e == pump[w].push
  <2>1. /\ e \in Job /\ LPush(JobPriority[e], e) /\ UNCHANGED status
        /\ pump'[w].push = NoJob
        /\ \A u \in Pump : u # w => pump'[u] = pump[u]
    BY <1>0, <1>3 DEF PushRetry, Redis, Fault
  <2>2. /\ j = e => <<"pump", w>> \in Held(j) /\ Held(j)' = Held(j) \ {<<"pump", w>>}
        /\ j # e => Held(j)' = Held(j)
    BY <1>1, <1>2, <2>1, JobAssumption DEF Held
  <2>. HIDE DEF e
  <2>. QED
    BY <1>1, <2>1, <2>2, TicketPushed
<1>4. CASE \E t \in pump[w].todo : Requeue(w, t)
  <2>0. PICK t \in pump[w].todo : Requeue(w, t)
    BY <1>4
  <2>1. PICK k \in Job : k = t.job
    BY <1>0
  <2>2. /\ pump[w].push = NoJob /\ pump'[w].push = k /\ UNCHANGED queue
        /\ \A u \in Pump : u # w => pump'[u] = pump[u]
        /\ status[k] = "retry" /\ status' = [status EXCEPT ![k] = "queued"]
    BY <1>0, <2>0, <2>1 DEF Requeue, RequeueTask, SetStatus
  <2>3. CASE j = k
    <3>1. <<"pump", w>> \notin Held(j) /\ Held(j)' = Held(j) \union {<<"pump", w>>}
      BY <1>1, <1>2, <2>2, <2>3, JobAssumption DEF Held
    <3>2. status[j] = "retry" /\ status'[j] = "queued"
      BY <1>0, <2>2, <2>3
    <3>. QED
      BY <1>1, <2>2, <3>1, <3>2, TicketMade
  <2>4. CASE j # k
    <3>1. Held(j)' = Held(j) /\ status'[j] = status[j]
      BY <1>0, <1>1, <1>2, <2>2, <2>4, JobAssumption DEF Held
    <3>. QED
      BY <1>1, <1>2, <2>2, <3>1, HeldKept, TicketsKept
  <2>. QED
    BY <2>3, <2>4
<1>5. CASE SelectDue(w) \/ \E t \in pump[w].todo : RequeueNothing(w, t)
  <2>1. /\ pump'[w].push = pump[w].push /\ UNCHANGED <<queue, status>>
        /\ \A u \in Pump : u # w => pump'[u] = pump[u]
    BY <1>0, <1>5 DEF SelectDue, RequeueNothing
  <2>2. Held(j)' = Held(j)
    BY <1>1, <1>2, <2>1 DEF Held
  <2>. QED
    BY <1>1, <1>2, <2>1, <2>2, HeldKept, TicketsKept
<1>6. CASE PushResent(w) \/ \E t \in pump[w].todo : RequeueFails(w, t)
  BY <1>6 DEF PushResent, Resent, RequeueFails, Fault
<1>. QED
  BY <1>1, <1>3, <1>4, <1>5, <1>6 DEF PumpStep

\* A sweep puts entries of the jobs it touches into the queues.
LEMMA ReaperTicket ==
  ASSUME ExecInv, NEW w \in Reap, Reaping(w), NEW j \in Job, j \notin swept', Ticketed(j)
  PROVE  Ticketed(j)'
<1>1. UNCHANGED <<call, pump, loop, runs, acked, status>> /\ TypeOK /\ RedisOK
  BY DEF Reaping, apiVars, workerVars, ReaperStep, Sweep, ReadStuck, ReadFinished, ReadOther,
     ReadFails, MoveBack, MoveNothing, MoveFails, PushBack, RemoveItem, ReaperResent, Resent,
     storeVars, taskVars, ExecInv, TypeOK, StoreTypeOK, RedisOK
<1>2. Held(j)' = Held(j) /\ Executing' = Executing
  BY <1>1 DEF Held, Claiming, Holding, Executing, Owns, Active
<1>3. IsFiniteSet(Held(j)) /\ Strays(j) = {}
  BY DEF Ticketed
<1>4. Here(j)' = Here(j) /\ Strays(j)' = {}
  <2>1. CASE UNCHANGED queue
    BY <1>3, <2>1 DEF Here, Strays
  <2>2. ASSUME NEW p \in Priority, NEW e \in Job \ {j}, Prepended(p, e)
        PROVE  Here(j)' = Here(j) /\ Strays(j)' = {}
    <3>1. /\ queue \in [Priority -> Seq(Job)] /\ queue[p] \in Seq(Job) /\ JobPriority[j] \in Priority
          /\ queue' = [queue EXCEPT ![p] = Cons(e, queue[p])]
      BY <1>1, <2>2, PriorityTypes DEF RedisOK, Prepended
    <3>2. /\ Cardinality(Places(j, Cons(e, queue[p]))) =
               Cardinality(Places(j, queue[p])) + (IF j = e THEN 1 ELSE 0)
          /\ Cardinality(Places(j, queue[p])) \in Nat
      BY <3>1, ConsPlaces, PlacesFinite
    <3>3. Here(j)' = Here(j)
      BY <3>1, <3>2 DEF Here
    <3>4. Strays(j)' = {}
      BY <1>1, <1>3, <2>2, StraysKept
    <3>. QED
      BY <3>3, <3>4
  <2>. QED
    BY <1>1, <2>1, <2>2, ReaperTouches
<1>. QED
  BY <1>1, <1>2, <1>3, <1>4, TicketsKept DEF Tickets

\* No step gives a job a second ticket or loses its only one.
LEMMA TicketNext ==
  ExecInv /\ ReachInv /\ TicketInv /\ [Next]_vars => TicketInv'
<1>. SUFFICES ASSUME ExecInv, ReachInv, TicketInv, [Next]_vars, faults' = 0
              PROVE  /\ \A j \in Job \ swept' : Ticketed(j)'
                     /\ \A w \in Worker : loop'[w].pc # "giveback"
  BY DEF TicketInv
<1>1. /\ faults = 0 /\ Reached /\ \A j \in Job \ swept : Ticketed(j)
      /\ \A w \in Worker : loop[w].pc # "giveback"
  BY NoFaultYet DEF ExecInv, ReachInv, TicketInv
<1>2. ~\E w \in Worker : WorkerCrash(w)
  BY <1>1 DEF WorkerCrash, Fault
<1>3. ASSUME NEW j \in Job, j \notin swept' PROVE Ticketed(j)'
  <2>0. CASE \E w \in Reap : Reaping(w)
    <3>1. PICK w \in Reap : Reaping(w)
      BY <2>0
    <3>2. j \notin swept
      BY <1>3, <3>1, ReaperTouches DEF ExecInv
    <3>. QED
      BY <1>1, <1>3, <3>1, <3>2, ReaperTicket
  <2>1. CASE (\E k \in Job : TimePasses(k)) \/ UNCHANGED vars
    <3>1. UNCHANGED <<call, pump, loop, runs, acked, queue, status>>
      BY <2>1 DEF TimePasses, BackoffElapses, GrowsStale, apiVars, workerVars, redisVars, vars,
         storeVars, taskVars
    <3>2. Held(j)' = Held(j) /\ Executing' = Executing
      BY <3>1 DEF Held, Claiming, Holding, Executing, Owns, Active
    <3>3. Ticketed(j)
      BY <1>1, <1>3, <2>1 DEF TimePasses, reaperVars, vars
    <3>. QED
      BY <3>1, <3>2, <3>3, HeldKept, TicketsKept
  <2>2. CASE ~\E w \in Reap : Reaping(w)
    <3>1. UNCHANGED swept
      BY <2>2 DEF Next, Api, Loop, Run, Pumping, WorkerCrash, TimePasses, reaperVars, vars
    <3>2. Ticketed(j)
      BY <1>1, <1>3, <3>1
    <3>. QED
      BY <1>1, <1>2, <2>1, <2>2, <3>2, ApiTicket, LoopTicket, RunTicket, PumpTicket DEF Next
  <2>. QED
    BY <2>0, <2>2
<1>4. ASSUME NEW w \in Worker PROVE loop'[w].pc # "giveback"
  <2>1. CASE \E u \in Worker : Loop(u)
    <3>1. PICK u \in Worker : LoopStep(u)
      BY <2>1 DEF Loop
    <3>2. loop \in [Worker -> [pc : LoopPC, at : 1..Len(Priorities), job : Job \union {NoJob}]]
      BY DEF ExecInv, TypeOK, WorkerTypeOK
    <3>. QED
      BY <1>1, <3>1, <3>2 DEF LoopStep, Pop, PollEmpty, PopFails, Claim, NotClaimed, ClaimFails,
         GiveBack, RecordAttempt, Spawn, LoadFails, MarkFailed, Drop, LoopResent, Resent, NextQueue,
         LoopGoto, LoopTop, AtTop, Fault
  <2>2. CASE \E r \in runs : Run(r)
    BY <1>1, <2>2 DEF Run, RunStep, HandlerSucceeds, HandlerFails, MarkSucceeded,
       MarkSucceededFails, PushDlq, MarkDeadLetter, MarkRetry, CloseAttempt, Finish,
       RunResent, workerVars
  <2>3. CASE UNCHANGED loop
    BY <1>1, <2>3
  <2>. QED
    BY <1>2, <2>1, <2>2, <2>3 DEF Next, Api, Pumping, Reaping, TimePasses, workerVars, vars
<1>. QED
  BY <1>3, <1>4

\* A set with one element at most is counted piece by piece.
LEMMA HeldCounted ==
  ASSUME NEW j \in Job, IsFiniteSet(Held(j)), Cardinality(Held(j)) <= 1
  PROVE  /\ Cardinality(Held(j)) = Cardinality(Pushing(j)) + Cardinality(Claiming(j))
         /\ Cardinality(Pushing(j)) \in Nat /\ Cardinality(Claiming(j)) \in Nat
<1>. DEFINE P == Pushing(j)
            C == Claiming(j)
<1>1. CASE Held(j) = {}
  <2>1. P = {} /\ C = {}
    BY <1>1 DEF Held, Pushing
  <2>. QED
    BY <1>1, <2>1, FS_EmptySet
<1>2. CASE Held(j) # {}
  <2>1. PICK x : Held(j) = {x}
    <3>1. Cardinality(Held(j)) = 1
      BY <1>2, FS_EmptySet, FS_CardinalityType
    <3>. QED
      BY <3>1, FS_Singleton
  <2>2. /\ \A c \in Client : call[c].pc = "push" /\ call[c].job = j => x = <<"call", c>>
        /\ \A u \in Pump : pump[u].push = j => x = <<"pump", u>>
        /\ \A u \in C : x = <<"loop", u>>
    BY <2>1 DEF Held
  <2>3. \/ \E c \in Client : x = <<"call", c>> /\ call[c].pc = "push" /\ call[c].job = j
        \/ \E u \in Pump : x = <<"pump", u>> /\ pump[u].push = j
        \/ \E u \in C : x = <<"loop", u>>
    BY <2>1 DEF Held
  <2>4. P = {c \in Client : call[c].pc = "push" /\ call[c].job = j}
            \union {w \in Pump : pump[w].push = j}
    BY DEF Pushing
  <2>. HIDE DEF P, C
  <2>5. (\E y : P = {y} /\ C = {}) \/ (\E y : P = {} /\ C = {y})
    <3>1. CASE \E c \in Client : x = <<"call", c>> /\ call[c].pc = "push" /\ call[c].job = j
      <4>1. PICK c \in Client : x = <<"call", c>> /\ call[c].pc = "push" /\ call[c].job = j
        BY <3>1
      <4>2. P = {c} /\ C = {}
        BY <2>2, <2>4, <4>1
      <4>. QED
        BY <4>2
    <3>2. CASE \E u \in Pump : x = <<"pump", u>> /\ pump[u].push = j
      <4>1. PICK u \in Pump : x = <<"pump", u>> /\ pump[u].push = j
        BY <3>2
      <4>2. P = {u} /\ C = {}
        BY <2>2, <2>4, <4>1
      <4>. QED
        BY <4>2
    <3>3. CASE \E u \in C : x = <<"loop", u>>
      <4>1. PICK u \in C : x = <<"loop", u>>
        BY <3>3
      <4>2. P = {} /\ C = {u}
        BY <2>2, <2>4, <4>1
      <4>. QED
        BY <4>2
    <3>. QED
      BY <2>3, <3>1, <3>2, <3>3
  <2>6. Cardinality({}) = 0 /\ \A y : Cardinality({y}) = 1
    BY FS_Singleton, FS_EmptySet
  <2>7. /\ Cardinality(P) + Cardinality(C) = 1
        /\ Cardinality(P) \in Nat /\ Cardinality(C) \in Nat
    <3>1. \/ Cardinality(P) = 1 /\ Cardinality(C) = 0
          \/ Cardinality(P) = 0 /\ Cardinality(C) = 1
      BY <2>5, <2>6
    <3>. QED
      BY <3>1
  <2>8. Cardinality(Held(j)) = 1
    BY <2>1, <2>6
  <2>. QED
    BY <2>7, <2>8 DEF P, C
<1>. QED
  BY <1>1, <1>2

\* While no call fails, a job that no reaper has touched has one ticket at most,
\* and a queued one exactly one: pumps and clients do not duplicate jobs.
THEOREM TicketsUnique == Spec => []OneTicket
<1>1. Init => TicketInv
  <2>. SUFFICES ASSUME Init PROVE TicketInv
    OBVIOUS
  <2>1. ASSUME NEW j \in Job PROVE Ticketed(j)
    <3>1. Held(j) = {} /\ status[j] = "absent"
      BY <2>1, JobAssumption DEF Init, StoreInit, ApiInit, NoCall, PumpInit, PumpIdle, WorkerInit,
         AtTop, Held, Claiming, Holding
    <3>2. Places(j, queue[JobPriority[j]]) = {} /\ Strays(j) = {}
      BY <2>1, PriorityTypes DEF Init, StoreInit, Places, Strays, Contains
    <3>3. Tickets(j) = 0
      BY <3>1, <3>2, FS_EmptySet DEF Tickets, Here
    <3>. QED
      BY <3>1, <3>2, <3>3, FS_EmptySet DEF Ticketed
  <2>2. \A w \in Worker : loop[w].pc # "giveback"
    BY DEF Init, WorkerInit, AtTop
  <2>. QED
    BY <2>1, <2>2 DEF TicketInv
<1>2. TypeOK /\ TicketInv => OneTicket
  <2>. SUFFICES ASSUME TypeOK, TicketInv, faults = 0, NEW j \in Job \ swept
                PROVE  LET t == Occurs(j, queue[JobPriority[j]]) + Cardinality(Pushing(j))
                                  + Cardinality(Claiming(j))
                       IN  /\ t <= 1 /\ (status[j] = "queued" /\ j \notin acked => t = 1)
                           /\ \A p \in Priority \ {JobPriority[j]} : ~Contains(queue[p], j)
    BY DEF OneTicket
  <2>1. Ticketed(j) /\ IsFiniteSet(Held(j)) /\ Tickets(j) <= 1 /\ Strays(j) = {}
    BY DEF TicketInv, Ticketed
  <2>2. Here(j) \in Nat /\ Cardinality(Held(j)) \in Nat
    BY <2>1, TicketTypes DEF TypeOK, StoreTypeOK, RedisOK
  <2>3. Cardinality(Held(j)) <= 1
    BY <2>1, <2>2 DEF Tickets
  <2>4. /\ Cardinality(Held(j)) = Cardinality(Pushing(j)) + Cardinality(Claiming(j))
        /\ Cardinality(Pushing(j)) \in Nat /\ Cardinality(Claiming(j)) \in Nat
    BY <2>1, <2>3, HeldCounted
  <2>5. Occurs(j, queue[JobPriority[j]]) = Here(j)
    BY DEF Occurs, Here, Places
  <2>6. Occurs(j, queue[JobPriority[j]]) + Cardinality(Pushing(j)) + Cardinality(Claiming(j))
          = Tickets(j)
    BY <2>2, <2>4, <2>5 DEF Tickets
  <2>7. \A p \in Priority \ {JobPriority[j]} : ~Contains(queue[p], j)
    BY <2>1 DEF Strays
  <2>. QED
    BY <2>1, <2>6, <2>7 DEF Ticketed
<1>3. ExecInv /\ ReachInv /\ TicketInv /\ [Next]_vars => TicketInv'
  BY TicketNext
<1>4. Init => ReachInv
  BY DEF Init, StoreInit, ApiInit, NoCall, ReachInv, Reached
<1>5. ExecInv => TypeOK
  BY DEF ExecInv
<1>. QED
  BY <1>1, <1>2, <1>3, <1>4, <1>5, ReachNext, ExecInvariant, PTL DEF Spec
=============================================================================

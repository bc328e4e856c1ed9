----------------------------- MODULE ApiServer -----------------------------
(***************************************************************************)
(* The two RPC handlers of cmd/api/server.go that change state, SubmitJob  *)
(* and CancelJob.  A handler is a sequence of calls on the stores; other   *)
(* processes run between two of them, so each call is an action.  A return *)
(* that changed nothing (invalid request, unknown job, job that exists     *)
(* already, error of a read) is a stuttering step and has no action.       *)
(***************************************************************************)
EXTENDS Store

CONSTANT Client     \* RPCs in flight at the same time

VARIABLES
    call,           \* the handler each client's RPC is in
    acked           \* history: jobs a client was told are cancelled

apiVars == <<call, acked>>

CallPC == {"idle", "create", "push", "update", "lrem"}
NoCall == [pc |-> "idle", job |-> NoJob, seen |-> "absent"]

ApiInit ==
    /\ call = [c \in Client |-> NoCall]
    /\ acked = {}

Goto(c, pc) == call' = [call EXCEPT ![c].pc = pc]
Return(c)   == call' = [call EXCEPT ![c] = NoCall]

-----------------------------------------------------------------------------
\* SubmitJob

\* db.JobExists answers no.
SubmitJob(c, j) ==
    /\ call[c].pc = "idle"
    /\ status[j] = "absent"
    /\ call' = [call EXCEPT ![c] = [pc |-> "create", job |-> j, seen |-> "absent"]]
    /\ UNCHANGED <<storeVars, acked>>

CreateJob(c) ==
    LET j == call[c].job IN
    /\ call[c].pc = "create"
    /\ InsertTask(j)
    /\ Goto(c, "push")
    /\ UNCHANGED <<redisVars, faults, acked>>

\* ON CONFLICT DO NOTHING returned no row: another request created the job.
CreateConflict(c) ==
    /\ call[c].pc = "create"
    /\ status[call[c].job] # "absent"
    /\ Return(c)
    /\ UNCHANGED <<storeVars, acked>>

\* The INSERT reports an error, whether or not it was committed.
CreateFails(c) ==
    LET j == call[c].job IN
    /\ call[c].pc = "create"
    /\ Fault("db")
    /\ InsertTask(j) \/ UNCHANGED <<taskVars, rows>>
    /\ Return(c)
    /\ UNCHANGED <<redisVars, acked>>

\* A failed push is logged and the request still succeeds.
PushJob(c) ==
    LET j == call[c].job IN
    /\ call[c].pc = "push"
    /\ Redis(LPush(JobPriority[j], j))
    /\ Return(c)
    /\ UNCHANGED <<taskVars, rows, acked>>

-----------------------------------------------------------------------------
\* CancelJob

\* db.GetJobByID returns a row that is in no terminal status.
CancelJob(c, j) ==
    /\ call[c].pc = "idle"
    /\ status[j] \notin Terminal \union {"absent"}
    /\ call' = [call EXCEPT ![c] = [pc |-> "update", job |-> j, seen |-> status[j]]]
    /\ UNCHANGED <<storeVars, acked>>

UpdateCancelled(c) ==
    LET j == call[c].job IN
    /\ call[c].pc = "update"
    /\ CancelTask(j)
    /\ acked' = acked \union {j}
    /\ IF call[c].seen = "queued" THEN Goto(c, "lrem") ELSE Return(c)
    /\ UNCHANGED <<redisVars, faults>>

\* The UPDATE found the row in a status it does not accept: Cancelled = false.
NotCancellable(c) ==
    /\ call[c].pc = "update"
    /\ status[call[c].job] \notin {"queued", "running"}
    /\ Return(c)
    /\ UNCHANGED <<storeVars, acked>>

CancelFails(c) ==
    /\ call[c].pc = "update"
    /\ Fault("db")
    /\ CancelTask(call[c].job) \/ UNCHANGED <<taskVars, rows>>
    /\ Return(c)
    /\ UNCHANGED <<redisVars, acked>>

RemoveQueued(c) ==
    LET j == call[c].job IN
    /\ call[c].pc = "lrem"
    /\ Redis(LRemAll(JobPriority[j], j))
    /\ Return(c)
    /\ UNCHANGED <<taskVars, rows, acked>>

-----------------------------------------------------------------------------
\* A push or a removal of a handler is applied once more than it is called.
CallResent(c) ==
    LET j == call[c].job IN
    /\ \/ call[c].pc = "push" /\ Resent(LPush(JobPriority[j], j))
       \/ call[c].pc = "lrem" /\ Resent(LRemAll(JobPriority[j], j))
    /\ UNCHANGED apiVars

\* The API process dies, or the RPC's context ends, inside a handler.
CallAborts(c) ==
    /\ call[c].pc # "idle"
    /\ Fault("crash")
    /\ Return(c)
    /\ UNCHANGED <<taskVars, rows, redisVars, acked>>

\* The steps of a handler that has begun.
HandlerStep(c) ==
    \/ CreateJob(c) \/ CreateConflict(c) \/ CreateFails(c) \/ PushJob(c)
    \/ UpdateCancelled(c) \/ NotCancellable(c) \/ CancelFails(c) \/ RemoveQueued(c)
    \/ CallResent(c)

ApiStep(c) ==
    \/ HandlerStep(c)
    \/ CallAborts(c)
    \/ \E j \in Job : SubmitJob(c, j) \/ CancelJob(c, j)

ApiTypeOK ==
    /\ call \in [Client -> [pc : CallPC, job : Job \union {NoJob}, seen : Status]]
    /\ \A c \in Client : call[c].pc # "idle" => call[c].job \in Job
    /\ acked \subseteq Job
=============================================================================

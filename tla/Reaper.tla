------------------------------- MODULE Reaper -------------------------------
(***************************************************************************)
(* The reaper of a worker process (reaper, recoverStuckJobs,               *)
(* moveJobBackToQueue).  A sweep takes a snapshot of q:processing and      *)
(* decides entry by entry from the job's row; between the snapshot, the    *)
(* read and the Redis command the other processes run.                     *)
(***************************************************************************)
EXTENDS Store

CONSTANTS
    Reap,           \* worker processes whose reaper runs
    MaxEntries      \* bound: no sweep starts when the lists hold more entries

ASSUME ReapAssumption == MaxEntries \in Nat

VARIABLES
    reaper,         \* rest of the snapshot, and what to do with its head
    swept           \* history: jobs of which a reaper moved, pushed or removed
                    \* an entry, or tried to remove one

reaperVars == <<reaper, swept>>

ReaperAct == {"read", "move", "push", "lrem"}
ReaperIdle == [todo |-> << >>, act |-> "read"]
ReaperInit == reaper = [w \in Reap |-> ReaperIdle] /\ swept = {}

Touch(j)       == swept' = swept \union {j}
Decide(w, act) == reaper' = [reaper EXCEPT ![w].act = act]
NextItem(w)    == reaper' = [reaper EXCEPT ![w] = [todo |-> Tail(@.todo), act |-> "read"]]
Reading(w)     == reaper[w].act = "read" /\ reaper[w].todo # << >>

Entries == Len(processing) + FoldLeft(LAMBDA n, p : n + Len(queue[p]), 0, Priorities)

\* LRANGE q:processing 0 -1.
Sweep(w) ==
    /\ reaper[w] = ReaperIdle
    /\ processing # << >>
    /\ Entries <= MaxEntries
    /\ reaper' = [reaper EXCEPT ![w].todo = processing]
    /\ UNCHANGED <<storeVars, swept>>

\* Mutant: no case for 'queued'.
IsStuckRunning(j) == status[j] = "running" /\ stale[j]

\* What recoverStuckJobs does with a job in this state.
IsStuck(j)    == status[j] = "queued" \/ (status[j] = "running" /\ stale[j])
IsFinished(j) == status[j] \in {"succeeded", "failed", "retry"}

ReadStuck(w) ==
    /\ Reading(w)
    /\ IsStuck(Head(reaper[w].todo))
    /\ Decide(w, "move")
    /\ UNCHANGED <<storeVars, swept>>

ReadFinished(w) ==
    /\ Reading(w)
    /\ IsFinished(Head(reaper[w].todo))
    /\ Decide(w, "lrem")
    /\ UNCHANGED <<storeVars, swept>>

\* Running and not stuck, or a status the switch has no case for.
ReadOther(w) ==
    /\ Reading(w)
    /\ ~IsStuck(Head(reaper[w].todo)) /\ ~IsFinished(Head(reaper[w].todo))
    /\ NextItem(w)
    /\ UNCHANGED <<storeVars, swept>>

\* The read fails: the entry is moved back unseen.
ReadFails(w) ==
    /\ Reading(w)
    /\ Fault("db")
    /\ Decide(w, "move")
    /\ UNCHANGED <<taskVars, rows, redisVars, swept>>

\* moveJobBackToQueue: LMOVE takes the rightmost entry, whichever job it is.
MoveBack(w) ==
    /\ reaper[w].act = "move"
    /\ LMove(JobPriority[Head(reaper[w].todo)])
    /\ Touch(Last(processing))
    /\ NextItem(w)
    /\ UNCHANGED <<taskVars, rows, faults>>

\* LMOVE on an empty list answers nil, which the client reports as an error.
MoveNothing(w) ==
    /\ reaper[w].act = "move"
    /\ processing = << >>
    /\ Decide(w, "push")
    /\ UNCHANGED <<storeVars, swept>>

MoveFails(w) ==
    /\ reaper[w].act = "move"
    /\ Fault("redis")
    /\ \/ LMove(JobPriority[Head(reaper[w].todo)]) /\ Touch(Last(processing))
       \/ UNCHANGED <<redisVars, swept>>
    /\ Decide(w, "push")
    /\ UNCHANGED <<taskVars, rows>>

\* The fallback of moveJobBackToQueue: LPush, then LRem at "lrem".
PushBack(w) ==
    LET j == Head(reaper[w].todo) IN
    /\ reaper[w].act = "push"
    /\ Redis(LPush(JobPriority[j], j))
    /\ Touch(j)
    /\ Decide(w, "lrem")
    /\ UNCHANGED <<taskVars, rows>>

RemoveItem(w) ==
    LET j == Head(reaper[w].todo) IN
    /\ reaper[w].act = "lrem"
    /\ Redis(LRemProcessing(j))
    /\ Touch(j)
    /\ NextItem(w)
    /\ UNCHANGED <<taskVars, rows>>

\* A command of the reaper is applied once more than it is called.
ReaperResent(w) ==
    LET j == Head(reaper[w].todo) IN
    /\ \/ /\ reaper[w].act = "move"
          /\ Resent(LMove(JobPriority[j])) /\ Touch(Last(processing))
       \/ /\ reaper[w].act = "push"
          /\ Resent(LPush(JobPriority[j], j)) /\ Touch(j)
       \/ /\ reaper[w].act = "lrem"
          /\ Resent(LRemProcessing(j)) /\ Touch(j)
    /\ UNCHANGED reaper

ReaperStep(w) ==
    \/ Sweep(w) \/ ReadStuck(w) \/ ReadFinished(w) \/ ReadOther(w) \/ ReadFails(w)
    \/ MoveBack(w) \/ MoveNothing(w) \/ MoveFails(w) \/ PushBack(w) \/ RemoveItem(w)
    \/ ReaperResent(w)

ReaperTypeOK ==
    /\ reaper \in [Reap -> [todo : Seq(Job), act : ReaperAct]]
    /\ \A w \in Reap : reaper[w].act # "read" => reaper[w].todo # << >>
    /\ swept \subseteq Job
=============================================================================

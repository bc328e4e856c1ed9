----------------------------- MODULE TasksTable -----------------------------
(***************************************************************************)
(* The table tasks as the queries of the API server see it.  They change   *)
(* nothing, so what the rest of the system may do to a row is taken from   *)
(* its abstract specification, JobLifecycle, which module Scheduler        *)
(* implements.                                                             *)
(***************************************************************************)
EXTENDS Integers, FiniteSets

CONSTANTS
    Job,            \* task ids
    NoJob,          \* "no job"
    MaxAttempts,    \* tasks.max_attempts of each job
    Stamp           \* values of created_at

VARIABLES
    status,         \* tasks.status, "absent" while there is no row
    attempts,       \* tasks.attempts
    executing,      \* jobs some worker is executing
    created         \* tasks.created_at, where there is a row

tableVars == <<status, attempts, executing, created>>

ASSUME TableAssumption ==
    /\ IsFiniteSet(Job) /\ NoJob \notin Job
    /\ MaxAttempts \in [Job -> Nat \ {0}]
    /\ Stamp \subseteq Nat /\ Stamp # {}

Jobs == INSTANCE JobLifecycle

Status == {"absent", "queued", "running", "retry",
           "succeeded", "failed", "deadletter", "cancelled"}

\* Statuses no execution can overwrite.  (It can overwrite 'cancelled'.)
Final == {"succeeded", "failed", "deadletter"}

Rows == {j \in Job : status[j] # "absent"}

TableInit == Jobs!Init /\ created \in [Job -> {CHOOSE t \in Stamp : TRUE}]

\* created_at DEFAULT now() is the time of the transaction, not of its commit: a
\* row may appear behind rows that were created later, and nothing keeps two rows
\* from having the same time.
Insert(j) ==
    /\ Jobs!Submit(j)
    /\ \E t \in Stamp : created' = [created EXCEPT ![j] = t]

\* Everything else that happens to rows.
Update ==
    /\ Jobs!Next
    /\ \A j \in Job : status[j] = "absent" => status'[j] = "absent"
    /\ UNCHANGED created

TableStep == Update \/ \E j \in Job : Insert(j)

TableTypeOK ==
    /\ status \in [Job -> Status]
    /\ attempts \in [Job -> Nat]
    /\ executing \subseteq Job
    /\ created \in [Job -> Stamp]
=============================================================================

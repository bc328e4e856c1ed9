------------------------------ MODULE Queries ------------------------------
(***************************************************************************)
(* The queries of the API server over a table that changes, and the end of *)
(* the API process (waitForShutdown of cmd/api/main.go), which waits for   *)
(* the RPCs in progress.                                                   *)
(***************************************************************************)
EXTENDS WatchJob, ListJobs

VARIABLE server     \* "up", "draining" while GracefulStop waits, "down"

vars == <<tableVars, stream, list, server>>

Init == TableInit /\ WatchInit /\ ListInit /\ server = "up"

Table == TableStep /\ UNCHANGED <<stream, list, server>>

\* New RPCs are accepted until the signal.
NewWatch(s, j) == server = "up" /\ Watch(s, j) /\ UNCHANGED <<tableVars, list, server>>

Watching(s) == WatchStep(s) /\ UNCHANGED <<tableVars, list, server>>

WatchBreaks(s) ==
    /\ WatchFails(s)
    /\ UNCHANGED <<tableVars, list, server>>

NewList(f, n) == server = "up" /\ ListJobs(f, n) /\ UNCHANGED <<tableVars, stream, server>>

Listing == server = "up" /\ ListStep /\ UNCHANGED <<tableVars, stream, server>>

-----------------------------------------------------------------------------
\* waitForShutdown

\* SIGTERM: GracefulStop refuses new RPCs and waits for those in progress.
Signal ==
    /\ server = "up"
    /\ server' = "draining"
    /\ UNCHANGED <<tableVars, stream, list>>

Drained ==
    /\ server = "draining"
    /\ \A s \in Stream : ~Polling(s)
    /\ server' = "down"
    /\ UNCHANGED <<tableVars, stream, list>>

\* 30 s have passed: Stop ends the connections.
ForceStop ==
    /\ server = "draining"
    /\ server' = "down"
    /\ stream' = [s \in Stream |-> IF Polling(s) THEN Broken ELSE stream[s]]
    /\ UNCHANGED <<tableVars, list>>

Next ==
    \/ Table
    \/ \E s \in Stream :
         \/ Watching(s) \/ WatchBreaks(s)
         \/ \E j \in Job : NewWatch(s, j)
    \/ Listing
    \/ \E A \in Among, st \in StateFilters, n \in PageSizes :
         NewList([among |-> A, state |-> st], n)
    \/ Signal \/ Drained \/ ForceStop

Spec == Init /\ [][Next]_vars

\* The ticker of a stream ticks.  Nothing is assumed of jobs, clients or the
\* main goroutine.
FairSpec == Spec /\ \A s \in Stream : WF_vars(Watching(s))

-----------------------------------------------------------------------------
\* Type correctness of the table, the streams and the listing.
TypeOK ==
    /\ TableTypeOK /\ WatchTypeOK /\ ListTypeOK
    /\ server \in {"up", "draining", "down"}

\* Safety

\* A stream that the server ended by itself has sent the outcome as its last
\* event, and that is still the status of the row: nothing that was under way
\* when the stream ended, a cancelled job's execution included, changes it.
EndTellsOutcome ==
    \A s \in Stream : stream[s].pc = "ended" =>
        stream[s].last \in Final /\ stream[s].last = status[stream[s].job]

\* Rows that match this filter go on matching it.
StableFilter(f) == f.state \in Final \union {"any"}

\* No other row of the result has the same created_at.
Untied(j) == \A i \in Matching(list) \ {j} : created[i] # created[j]

\* A listing without a state filter, or with that of a final state, returns
\* every job that matched when it began and whose created_at is its own,
\* whatever is inserted or changes between its pages: rows only shift towards
\* later pages.  (Rows with the same created_at may change places between two
\* pages, and one of them be missed.  A listing of queued or running jobs can
\* miss any job: rows that leave the result shift the others towards pages
\* already read.)
ListingComplete ==
    list.pc = "done" /\ StableFilter(list) =>
        \A j \in list.owed : Untied(j) => j \in list.seen

\* Such a listing repeats rows, but not more of them than entered the result
\* since it began or share their created_at with another row.
RepeatsBounded ==
    list.pc # "idle" /\ StableFilter(list) =>
        list.got - Cardinality(list.seen)
          <= Cardinality(Matching(list) \ {j \in list.owed : Untied(j)})

-----------------------------------------------------------------------------
\* Action properties

\* What GetJob once answered as a final state, it answers ever after, with the
\* same number of attempts.
FinalReplyStable ==
    [][\A j \in Rows : GetJob(j).state \in {"SUCCEEDED", "FAILED", "DEADLETTER"} =>
           GetJob(j)' = GetJob(j)]_vars

-----------------------------------------------------------------------------
\* Liveness

\* A stream on a job that has its outcome ends.  (Not so for a cancelled job:
\* its stream polls until the client leaves or the server stops.)
OutcomeDelivered ==
    \A s \in Stream : Polling(s) /\ status[stream[s].job] \in Final ~> ~Polling(s)

\* A client whose last event is out of date gets a new one, unless the stream
\* ends.  (It may miss statuses the row only passed through.)
WatchKeepsUp ==
    \A s \in Stream :
        Polling(s) /\ stream[s].job \in Rows /\ stream[s].last # status[stream[s].job]
          ~> ~Polling(s) \/ stream[s].last = status[stream[s].job]
=============================================================================

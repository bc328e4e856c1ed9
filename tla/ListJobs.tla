------------------------------ MODULE ListJobs ------------------------------
(***************************************************************************)
(* ListJobs of cmd/api/server.go: one SELECT ... ORDER BY created_at DESC  *)
(* LIMIT n OFFSET k per request, and a token that is the next OFFSET.  A   *)
(* client that wants the whole list asks page after page with the token of *)
(* the last answer, while rows are inserted and change status.             *)
(***************************************************************************)
EXTENDS TasksTable

CONSTANTS
    PageSizes,      \* values of page_size clients send
    DefaultPage,    \* page size when page_size is 0
    MaxPage,        \* largest page size
    StateFilters,   \* values of state_filter clients send
    Among           \* sets of jobs a priority and a type filter may select

VARIABLE list       \* the listing a client has in progress

\* state_filter: none, or one of the five states that have a name.
StateFilter == {"any", "queued", "running", "succeeded", "failed", "deadletter"}

ASSUME PageAssumption ==
    /\ PageSizes \subseteq Int
    /\ DefaultPage \in Nat \ {0} /\ MaxPage \in Nat \ {0} /\ DefaultPage <= MaxPage
    /\ StateFilters \subseteq StateFilter
    /\ Among \subseteq SUBSET Job

\* Default and upper limit; a negative page_size passes.
PageSize(n) == CASE n = 0       -> DefaultPage
                 [] n > MaxPage -> MaxPage
                 [] OTHER       -> n

\* The rows the WHERE clause selects.
Matching(f) == {j \in Rows \cap f.among : f.state = "any" \/ status[j] = f.state}

\* What may be the first k rows of M in the order created_at DESC, which leaves
\* the order of rows with the same time open.
First(M, k) ==
    {D \in SUBSET M : /\ Cardinality(D) = IF k < Cardinality(M) THEN k ELSE Cardinality(M)
                      /\ \A i \in D, j \in M \ D : created[i] >= created[j]}

\* What LIMIT n OFFSET k may return: each query orders the rows anew.
Pages(M, k, n) ==
    {S \in SUBSET M : \E D \in First(M, k) : D \cap S = {} /\ D \union S \in First(M, k + n)}

-----------------------------------------------------------------------------

NoList == [pc |-> "idle", among |-> {}, state |-> "any", size |-> 1, offset |-> 0,
           owed |-> {}, seen |-> {}, got |-> 0]

ListInit == list = NoList

\* A client starts with an empty page_token.  owed is what it would get now.
ListJobs(f, n) ==
    /\ list.pc # "paging"
    /\ list' = [NoList EXCEPT !.pc = "paging", !.among = f.among, !.state = f.state,
                              !.size = n, !.owed = Matching(f)]

\* Mutants: the page_size of the request is added; a row is skipped; the
\* token leads backwards.
NextOffsetRequested(k, n) == k + n
NextOffsetSkips(k, n)     == k + PageSize(n) + 1
NextOffsetBack(k, n)      == k - PageSize(n)

\* The next_page_token.
NextOffset(k, n) == k + PageSize(n)

\* One request.  A page that is not full has no next_page_token.
NextPage ==
    LET n == PageSize(list.size) IN
    /\ list.pc = "paging"
    /\ n > 0
    /\ \E page \in Pages(Matching(list), list.offset, n) :
         list' = [list EXCEPT
           !.seen   = @ \union page,
           !.got    = @ + Cardinality(page),
           !.offset = IF Cardinality(page) = n THEN NextOffset(@, list.size) ELSE @,
           !.pc     = IF Cardinality(page) = n THEN "paging" ELSE "done"]

\* A negative LIMIT is an error of the database.
ListRefused ==
    /\ list.pc = "paging"
    /\ PageSize(list.size) < 0
    /\ list' = [list EXCEPT !.pc = "refused"]

ListStep == NextPage \/ ListRefused

ListTypeOK ==
    list \in [pc : {"idle", "paging", "done", "refused"}, among : SUBSET Job,
              state : StateFilter, size : Int, offset : Nat,
              owed : SUBSET Job, seen : SUBSET Job, got : Nat]
=============================================================================

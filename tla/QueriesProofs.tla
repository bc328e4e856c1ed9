--------------------------- MODULE QueriesProofs ---------------------------
(***************************************************************************)
(* What the queries tell their clients, for any number of jobs, streams    *)
(* and page sizes.  The argument about ListJobs is one about ranks: a row  *)
(* that shares its creation time with no other row of the result is within *)
(* the first rows, in whatever order a query puts the others, exactly when *)
(* fewer rows are newer; and while it stays in the result, its rank only   *)
(* grows.                                                                  *)
(***************************************************************************)
EXTENDS Queries, FiniteSetTheorems, TLAPS

Result == Matching(list)

Newer(M, j) == {i \in M : created[i] > created[j]}

\* The jobs a listing is sure to return.
Sure == {j \in list.owed : Untied(j)}

\* The jobs the listing owes are still in the result, and those it is sure to
\* return and has not returned yet are behind the pages already read.
OwedInv ==
    StableFilter(list) /\ list.pc # "idle" =>
        /\ list.owed \subseteq Result
        /\ list.pc # "refused" =>
             \A j \in Sure \ list.seen :
               /\ list.pc = "paging"
               /\ Cardinality(Newer(Result, j)) >= list.offset

\* The rows returned so far filled the pages, which are not more than the result.
CountInv ==
    StableFilter(list) /\ list.pc = "paging" =>
        /\ list.got = list.offset
        /\ list.offset <= Cardinality(Result)

ListInv == OwedInv /\ CountInv /\ RepeatsBounded

-----------------------------------------------------------------------------
\* Rows

\* What a step of the table may do to a row: a final status and its attempts
\* stay, and so does the creation time of every row.
LEMMA RowSteps ==
  ASSUME TableTypeOK, TableStep
  PROVE  /\ Rows \subseteq Rows'
         /\ \A j \in Rows : created'[j] = created[j]
         /\ \A j \in Job : status[j] \in Final =>
              status'[j] = status[j] /\ attempts'[j] = attempts[j]
<1>0. status \in [Job -> Status] /\ attempts \in [Job -> Nat] /\ created \in [Job -> Stamp]
  BY DEF TableTypeOK
<1>1. ASSUME Jobs!Next
      PROVE  \A j \in Job : /\ status[j] \in Final =>
                                 status'[j] = status[j] /\ attempts'[j] = attempts[j]
                            /\ status[j] # "absent" => status'[j] # "absent"
  <2>1. CASE \E i \in Job : Jobs!Submit(i)
    BY <1>0, <2>1 DEF Jobs!Submit, Final
  <2>2. CASE \E i \in Job : Jobs!Requeue(i) \/ Jobs!Cancel(i)
    BY <1>0, <2>2 DEF Jobs!Requeue, Jobs!Cancel, Final
  <2>3. CASE \E i \in Job, lost \in BOOLEAN : Jobs!Start(i, lost)
    BY <1>0, <2>3 DEF Jobs!Start, Final
  <2>4. CASE \E i \in Job : \E s \in Jobs!Outcome(i) : Jobs!Report(i, s)
    BY <1>0, <2>4 DEF Jobs!Report, Jobs!Outcome, Final
  <2>5. CASE \E S \in SUBSET Job : Jobs!Vanish(S)
    BY <2>5 DEF Jobs!Vanish
  <2>. QED
    BY <1>1, <2>1, <2>2, <2>3, <2>4, <2>5 DEF Jobs!Next
<1>2. CASE Update
  BY <1>1, <1>2 DEF Update, Rows
<1>3. CASE \E i \in Job : Insert(i)
  <2>1. PICK i \in Job : Insert(i)
    BY <1>3
  <2>2. Jobs!Next
    BY <2>1 DEF Insert, Jobs!Next
  <2>3. \A j \in Rows : created'[j] = created[j]
    BY <1>0, <2>1 DEF Insert, Jobs!Submit, Rows
  <2>. QED
    BY <1>1, <2>2, <2>3 DEF Rows
<1>. QED
  BY <1>2, <1>3 DEF TableStep

\* The table keeps its type.
LEMMA TableTypes ==
  ASSUME TableTypeOK, TableStep
  PROVE  TableTypeOK'
<1>0. /\ status \in [Job -> Status] /\ attempts \in [Job -> Nat]
      /\ executing \subseteq Job /\ created \in [Job -> Stamp]
  BY DEF TableTypeOK
<1>1. ASSUME Jobs!Next
      PROVE  status' \in [Job -> Status] /\ attempts' \in [Job -> Nat] /\ executing' \subseteq Job
  <2>1. CASE \E i \in Job : Jobs!Submit(i) \/ Jobs!Requeue(i) \/ Jobs!Cancel(i)
    BY <1>0, <2>1 DEF Jobs!Submit, Jobs!Requeue, Jobs!Cancel, Status
  <2>2. CASE \E i \in Job, lost \in BOOLEAN : Jobs!Start(i, lost)
    BY <1>0, <2>2 DEF Jobs!Start, Status
  <2>3. CASE \E i \in Job : \E s \in Jobs!Outcome(i) : Jobs!Report(i, s)
    BY <1>0, <2>3 DEF Jobs!Report, Jobs!Outcome, Status
  <2>4. CASE \E S \in SUBSET Job : Jobs!Vanish(S)
    BY <1>0, <2>4 DEF Jobs!Vanish
  <2>. QED
    BY <1>1, <2>1, <2>2, <2>3, <2>4 DEF Jobs!Next
<1>2. CASE Update
  BY <1>0, <1>1, <1>2 DEF Update, TableTypeOK
<1>3. CASE \E i \in Job : Insert(i)
  <2>1. PICK i \in Job : Insert(i)
    BY <1>3
  <2>2. Jobs!Next
    BY <2>1 DEF Insert, Jobs!Next
  <2>3. created' \in [Job -> Stamp]
    BY <1>0, <2>1 DEF Insert
  <2>. QED
    BY <1>1, <2>2, <2>3 DEF TableTypeOK
<1>. QED
  BY <1>2, <1>3 DEF TableStep

-----------------------------------------------------------------------------
\* Ranks

\* The columns of a row.
LEMMA RowTypes ==
  ASSUME TableTypeOK
  PROVE  /\ created \in [Job -> Nat] /\ Rows \subseteq Job
         /\ \A M \in SUBSET Rows : IsFiniteSet(M)
         /\ \A f : Matching(f) \subseteq Rows
<1>1. Rows \subseteq Job /\ \A f : Matching(f) \subseteq Rows
  BY DEF Rows, Matching
<1>2. created \in [Job -> Nat]
  BY TableAssumption DEF TableTypeOK
<1>3. \A M \in SUBSET Rows : IsFiniteSet(M)
  BY <1>1, TableAssumption, FS_Subset
<1>. QED
  BY <1>1, <1>2, <1>3

\* The first k rows are k, if there are as many, and all there are otherwise; an
\* untied row is one of them exactly when its rank is below their number.
LEMMA FirstRows ==
  ASSUME TableTypeOK, NEW M \in SUBSET Rows, NEW k \in Nat, NEW D \in First(M, k)
  PROVE  /\ D \subseteq M /\ IsFiniteSet(D) /\ Cardinality(D) \in Nat
         /\ k <= Cardinality(M) => Cardinality(D) = k
         /\ k >= Cardinality(M) => D = M
         /\ \A j \in M : (\A i \in M \ {j} : created[i] # created[j]) =>
              /\ Cardinality(Newer(M, j)) \in Nat
              /\ j \in D <=> Cardinality(Newer(M, j)) < Cardinality(D)
<1>0. /\ IsFiniteSet(M) /\ Cardinality(M) \in Nat /\ M \subseteq Job
      /\ created \in [Job -> Nat] /\ D \subseteq M
      /\ \A i \in D, j \in M \ D : created[i] >= created[j]
      /\ Cardinality(D) = IF k < Cardinality(M) THEN k ELSE Cardinality(M)
  BY RowTypes, FS_CardinalityType DEF First
<1>1. IsFiniteSet(D) /\ Cardinality(D) \in Nat
  BY <1>0, FS_Subset, FS_CardinalityType
<1>2. k <= Cardinality(M) => Cardinality(D) = k
  BY <1>0
<1>3. k >= Cardinality(M) => D = M
  <2>1. k >= Cardinality(M) => Cardinality(D) = Cardinality(M)
    BY <1>0
  <2>. QED
    BY <1>0, <2>1, FS_Subset
<1>4. ASSUME NEW j \in M, \A i \in M \ {j} : created[i] # created[j]
      PROVE  /\ Cardinality(Newer(M, j)) \in Nat
             /\ j \in D <=> Cardinality(Newer(M, j)) < Cardinality(D)
  <2>1. Newer(M, j) \subseteq M /\ j \notin Newer(M, j)
    BY <1>0 DEF Newer
  <2>2. IsFiniteSet(Newer(M, j)) /\ Cardinality(Newer(M, j)) \in Nat
    BY <1>0, <2>1, FS_Subset, FS_CardinalityType
  <2>3. ASSUME j \in D PROVE Cardinality(Newer(M, j)) < Cardinality(D)
    <3>1. Newer(M, j) \subseteq D /\ Newer(M, j) # D
      BY <1>0, <2>1, <2>3 DEF Newer
    <3>2. Cardinality(Newer(M, j)) <= Cardinality(D) /\ Cardinality(Newer(M, j)) # Cardinality(D)
      BY <1>1, <3>1, FS_Subset
    <3>. QED
      BY <1>1, <2>2, <3>2
  <2>4. ASSUME j \notin D PROVE ~(Cardinality(Newer(M, j)) < Cardinality(D))
    <3>1. \A i \in D : created[i] >= created[j] /\ created[i] # created[j]
      BY <1>0, <1>4, <2>4
    <3>2. D \subseteq Newer(M, j)
      BY <1>0, <3>1 DEF Newer
    <3>3. Cardinality(D) <= Cardinality(Newer(M, j))
      BY <2>2, <3>2, FS_Subset
    <3>. QED
      BY <1>1, <2>2, <3>3
  <2>. QED
    BY <2>2, <2>3, <2>4
<1>. QED
  BY <1>0, <1>1, <1>2, <1>3, <1>4

-----------------------------------------------------------------------------
\* Steps of a listing

\* Rows stay in a result whose filter is stable, no rank gets smaller, and ties
\* only come up.
LEMMA ResultGrows ==
  ASSUME TableTypeOK, TableStep, ListTypeOK, UNCHANGED list, StableFilter(list)
  PROVE  /\ Result \subseteq Result' /\ IsFiniteSet(Result')
         /\ list.owed \subseteq Result => Sure' \subseteq Sure
         /\ \A j \in Result : /\ Cardinality(Newer(Result, j)) \in Nat
                              /\ Cardinality(Newer(Result, j))' \in Nat
                              /\ Cardinality(Newer(Result, j)) <= Cardinality(Newer(Result, j))'
<1>0. TableTypeOK'
  BY TableTypes
<1>1. Result \subseteq Result'
  BY RowSteps DEF Result, Matching, StableFilter, Final, Rows
<1>2. IsFiniteSet(Result')
  BY <1>0, TableAssumption, FS_Subset DEF Result, Matching, Rows
<1>3. Result \subseteq Rows
  BY DEF Result, Matching
<1>4. ASSUME NEW j \in Result
      PROVE  /\ Cardinality(Newer(Result, j)) \in Nat
             /\ Cardinality(Newer(Result, j))' \in Nat
             /\ Cardinality(Newer(Result, j)) <= Cardinality(Newer(Result, j))'
  <2>. DEFINE old == Newer(Result, j)
              new == {i \in Result' : created'[i] > created'[j]}
  <2>1. old \subseteq new /\ new \subseteq Result'
    BY <1>1, <1>3, RowSteps DEF Newer
  <2>2. IsFiniteSet(old) /\ IsFiniteSet(new) /\ Cardinality(old) <= Cardinality(new)
    <3>1. IsFiniteSet(new)
      BY <1>2, <2>1, FS_Subset
    <3>. QED
      BY <2>1, <3>1, FS_Subset
  <2>3. Cardinality(old) \in Nat /\ Cardinality(new) \in Nat
    BY <2>2, FS_CardinalityType
  <2>4. Newer(Result, j)' = new
    BY DEF Newer
  <2>. QED
    BY <2>2, <2>3, <2>4
<1>5. ASSUME list.owed \subseteq Result PROVE Sure' \subseteq Sure
  <2>. SUFFICES ASSUME NEW j \in Sure' PROVE j \in Sure
    OBVIOUS
  <2>1. j \in list.owed /\ \A i \in Result' \ {j} : created'[i] # created'[j]
    BY DEF Sure, Untied, Result
  <2>2. \A i \in Result : created'[i] = created[i]
    BY <1>3, RowSteps
  <2>. QED
    BY <1>1, <1>5, <2>1, <2>2 DEF Sure, Untied, Result
<1>. QED
  BY <1>1, <1>2, <1>4, <1>5

\* The table moves on between two pages.
LEMMA ListTable ==
  ASSUME TableTypeOK, ListTypeOK, ListInv, TableStep, UNCHANGED list
  PROVE  ListInv'
<1>1. CASE ~StableFilter(list)
  BY <1>1 DEF ListInv, OwedInv, CountInv, RepeatsBounded, StableFilter
<1>2. CASE list.pc = "idle"
  BY <1>2 DEF ListInv, OwedInv, CountInv, RepeatsBounded
<1>3. CASE StableFilter(list) /\ list.pc # "idle"
  <2>0. list.owed \subseteq Result
    BY <1>3 DEF ListInv, OwedInv
  <2>1. /\ Result \subseteq Result' /\ IsFiniteSet(Result') /\ Sure' \subseteq Sure
        /\ \A j \in Result : /\ Cardinality(Newer(Result, j)) \in Nat
                             /\ Cardinality(Newer(Result, j))' \in Nat
                             /\ Cardinality(Newer(Result, j)) <= Cardinality(Newer(Result, j))'
    BY <1>3, <2>0, ResultGrows
  <2>2. list.offset \in Nat /\ list.got \in Nat
    BY DEF ListTypeOK
  <2>3. OwedInv'
    <3>1. ASSUME list.pc # "refused", NEW j \in Sure' \ list.seen
          PROVE  list.pc = "paging" /\ Cardinality(Newer(Result, j))' >= list.offset
      <4>1. j \in Sure \ list.seen /\ j \in Result
        BY <2>0, <2>1, <3>1 DEF Sure
      <4>2. list.pc = "paging" /\ Cardinality(Newer(Result, j)) >= list.offset
        BY <1>3, <3>1, <4>1 DEF ListInv, OwedInv
      <4>. QED
        BY <2>1, <2>2, <4>1, <4>2
    <3>2. list.owed \subseteq Result'
      BY <2>0, <2>1
    <3>. QED
      BY <3>1, <3>2 DEF OwedInv
  <2>4. /\ Cardinality(Result) \in Nat /\ Cardinality(Result') \in Nat
        /\ Cardinality(Result) <= Cardinality(Result')
        /\ Cardinality(Result \ Sure) \in Nat /\ Cardinality(Result' \ Sure') \in Nat
        /\ Cardinality(Result \ Sure) <= Cardinality(Result' \ Sure')
    <3>1. IsFiniteSet(Result) /\ IsFiniteSet(Result' \ Sure') /\ IsFiniteSet(Result \ Sure)
      BY <2>1, FS_Subset
    <3>2. Result \ Sure \subseteq Result' \ Sure'
      BY <2>1
    <3>3. Cardinality(Result) <= Cardinality(Result')
      BY <2>1, FS_Subset
    <3>4. Cardinality(Result \ Sure) <= Cardinality(Result' \ Sure')
      BY <3>1, <3>2, FS_Subset
    <3>. QED
      BY <2>1, <3>1, <3>3, <3>4, FS_CardinalityType
  <2>5. CountInv'
    BY <1>3, <2>2, <2>4 DEF ListInv, CountInv, StableFilter
  <2>6. RepeatsBounded'
    <3>1. Cardinality(list.seen) \in Nat
      BY TableAssumption, FS_Subset, FS_CardinalityType DEF ListTypeOK
    <3>2. list.got - Cardinality(list.seen) <= Cardinality(Result \ Sure)
      BY <1>3 DEF ListInv, RepeatsBounded, Result, Sure
    <3>3. list.got - Cardinality(list.seen) <= Cardinality(Result' \ Sure')
      BY <2>2, <2>4, <3>1, <3>2
    <3>. QED
      BY <3>3 DEF RepeatsBounded, Result, Sure
  <2>. QED
    BY <2>3, <2>5, <2>6 DEF ListInv
<1>. QED
  BY <1>1, <1>2, <1>3

\* A page that has a successor is full, so a row behind it is still to come; a
\* page that is not full is the end of the result.
LEMMA ListPage ==
  ASSUME TableTypeOK, ListTypeOK, ListInv, NextPage, UNCHANGED tableVars
  PROVE  ListInv'
<1>. DEFINE n == PageSize(list.size)
            k == list.offset
<1>0. /\ n \in Nat \ {0} /\ k \in Nat /\ list.got \in Nat
      /\ list.seen \subseteq Job /\ list.owed \subseteq Job
  BY PageAssumption DEF NextPage, ListTypeOK, PageSize
<1>p. PICK page \in Pages(Result, k, n) :
        list' = [list EXCEPT
           !.seen   = @ \union page,
           !.got    = @ + Cardinality(page),
           !.offset = IF Cardinality(page) = n THEN NextOffset(@, list.size) ELSE @,
           !.pc     = IF Cardinality(page) = n THEN "paging" ELSE "done"]
  BY DEF NextPage, Result
<1>1. /\ list.pc = "paging"
      /\ list'.among = list.among /\ list'.state = list.state /\ list'.owed = list.owed
      /\ list'.seen = list.seen \union page
      /\ list'.got = list.got + Cardinality(page)
      /\ Cardinality(page) = n => list'.pc = "paging" /\ list'.offset = k + n
      /\ Cardinality(page) # n => list'.pc = "done"
  BY <1>p DEF NextPage, NextOffset, ListTypeOK
<1>2. /\ Rows' = Rows /\ Result' = Result /\ Sure' = Sure
      /\ StableFilter(list)' = StableFilter(list)
  BY <1>1 DEF Rows, Result, Matching, StableFilter, Sure, Untied, tableVars
<1>3. \A j : Newer(Result, j)' = Newer(Result, j)
  BY <1>2 DEF Newer, tableVars
<1>4. CASE ~StableFilter(list)
  BY <1>2, <1>4 DEF ListInv, OwedInv, CountInv, RepeatsBounded
<1>5. CASE StableFilter(list)
  <2>p. PICK D \in First(Result, k) : D \cap page = {} /\ D \union page \in First(Result, k + n)
    BY DEF Pages
  <2>. DEFINE E == D \union page
  <2>. HIDE DEF n, k
  <2>r. /\ Result \in SUBSET Rows /\ IsFiniteSet(Result) /\ Cardinality(Result) \in Nat
        /\ list.owed \subseteq Result
        /\ k <= Cardinality(Result) /\ list.got = k
        /\ \A j \in Sure \ list.seen : Cardinality(Newer(Result, j)) >= k
    BY <1>1, <1>5, RowTypes, FS_CardinalityType DEF ListInv, OwedInv, CountInv, Result, k
  <2>d. D \subseteq Result /\ IsFiniteSet(D) /\ Cardinality(D) = k
    BY <1>0, <2>r, FirstRows
  <2>e. /\ E \subseteq Result /\ IsFiniteSet(E) /\ Cardinality(E) \in Nat
        /\ k + n >= Cardinality(Result) => E = Result
        /\ k + n <= Cardinality(Result) => Cardinality(E) = k + n
    <3>1. k + n \in Nat /\ E \in First(Result, k + n)
      BY <1>0, <2>p
    <3>. QED
      BY <2>r, <3>1, FirstRows
  <2>c. /\ IsFiniteSet(page) /\ Cardinality(page) \in Nat
        /\ Cardinality(E) = k + Cardinality(page)
    <3>1. IsFiniteSet(page) /\ D \cap page = {}
      BY <2>e, <2>p, FS_Subset
    <3>2. Cardinality(E) = Cardinality(D) + Cardinality(page) - Cardinality(D \cap page)
      BY <2>d, <3>1, FS_Union
    <3>3. Cardinality(D \cap page) = 0
      BY <3>1, FS_EmptySet
    <3>4. Cardinality(page) \in Nat
      BY <3>1, FS_CardinalityType
    <3>. QED
      BY <1>0, <2>d, <3>1, <3>2, <3>3, <3>4
  \* what the page does not reach
  <2>1. ASSUME NEW j \in Sure \ list'.seen
        PROVE  /\ j \notin E
               /\ Cardinality(Newer(Result, j)) \in Nat
               /\ Cardinality(Newer(Result, j)) >= Cardinality(E)
    <3>1. j \in Result /\ j \notin page /\ \A i \in Result \ {j} : created[i] # created[j]
      BY <1>1, <2>r, <2>1 DEF Sure, Untied, Result
    <3>2. Cardinality(Newer(Result, j)) >= k
      BY <1>1, <2>r, <2>1
    <3>3. /\ Cardinality(Newer(Result, j)) \in Nat
          /\ j \in D <=> Cardinality(Newer(Result, j)) < Cardinality(D)
      BY <1>0, <2>r, <3>1, FirstRows
    <3>4. j \notin E
      BY <1>0, <2>d, <3>1, <3>2, <3>3
    <3>5. j \in E <=> Cardinality(Newer(Result, j)) < Cardinality(E)
      <4>1. k + n \in Nat /\ E \in First(Result, k + n)
        BY <1>0, <2>p
      <4>. QED
        BY <2>r, <3>1, <4>1, FirstRows
    <3>. QED
      BY <2>e, <3>3, <3>4, <3>5
  <2>2. ASSUME Cardinality(page) = n PROVE OwedInv' /\ CountInv'
    <3>1. Cardinality(E) = k + n /\ k + n <= Cardinality(Result)
      <4>1. Cardinality(E) <= Cardinality(Result)
        BY <2>r, <2>e, FS_Subset
      <4>. QED
        BY <2>2, <2>c, <4>1
    <3>2. OwedInv'
      BY <1>1, <1>2, <1>3, <2>r, <2>1, <2>2, <3>1 DEF OwedInv
    <3>3. CountInv'
      BY <1>1, <1>2, <2>r, <2>2, <3>1 DEF CountInv
    <3>. QED
      BY <3>2, <3>3
  <2>3. ASSUME Cardinality(page) # n PROVE OwedInv' /\ CountInv'
    <3>1. E = Result
      BY <1>0, <2>r, <2>e, <2>c, <2>3
    <3>2. Sure \subseteq list'.seen
      BY <2>r, <2>1, <3>1 DEF Sure
    <3>3. OwedInv'
      BY <1>1, <1>2, <2>r, <2>3, <3>2 DEF OwedInv
    <3>4. CountInv'
      BY <1>1, <2>3 DEF CountInv
    <3>. QED
      BY <3>3, <3>4
  <2>4. OwedInv' /\ CountInv'
    BY <2>2, <2>3
  <2>5. RepeatsBounded'
    <3>. DEFINE new == Result \ Sure
    <3>1. E \subseteq list'.seen \union new
      BY <2>e, <2>1
    <3>2. IsFiniteSet(list'.seen) /\ IsFiniteSet(new)
      BY <1>0, <1>1, <2>r, <2>c, TableAssumption, FS_Subset, FS_Union
    <3>3. /\ Cardinality(list'.seen) \in Nat /\ Cardinality(new) \in Nat
          /\ Cardinality(E) <= Cardinality(list'.seen) + Cardinality(new)
      <4>1. /\ IsFiniteSet(list'.seen \union new)
            /\ Cardinality(list'.seen \union new) =
                 Cardinality(list'.seen) + Cardinality(new) - Cardinality(list'.seen \cap new)
        BY <3>2, FS_Union
      <4>2. Cardinality(E) <= Cardinality(list'.seen \union new)
        BY <3>1, <4>1, FS_Subset
      <4>3. /\ Cardinality(list'.seen) \in Nat /\ Cardinality(new) \in Nat
            /\ Cardinality(list'.seen \cap new) \in Nat
        BY <3>2, FS_Intersection, FS_CardinalityType
      <4>. QED
        BY <2>e, <4>1, <4>2, <4>3
    <3>4. list'.got = Cardinality(E)
      BY <1>1, <2>r, <2>c
    <3>5. Result' \ Sure' = new
      BY <1>2
    <3>6. list'.got - Cardinality(list'.seen) <= Cardinality(Result' \ Sure')
      <4>. HIDE DEF E, new
      <4>1. list'.got - Cardinality(list'.seen) <= Cardinality(new)
        BY <2>e, <3>3, <3>4
      <4>. QED
        BY <3>5, <4>1
    <3>. QED
      BY <3>6 DEF RepeatsBounded, Result, Sure
  <2>. QED
    BY <2>4, <2>5 DEF ListInv
<1>. QED
  BY <1>4, <1>5

\* A listing starts with nothing owed behind it.
LEMMA ListStart ==
  ASSUME TableTypeOK, ListInv, NEW f, NEW n, ListJobs(f, n), UNCHANGED tableVars
  PROVE  ListInv'
<1>1. /\ list'.among = f.among /\ list'.state = f.state /\ list'.pc = "paging"
      /\ list'.owed = Matching(f) /\ list'.offset = 0 /\ list'.got = 0 /\ list'.seen = {}
  BY DEF ListJobs, NoList
<1>2. Result' = Matching(f) /\ Rows' = Rows /\ Matching(f) \subseteq Rows
  BY <1>1 DEF Result, Matching, Rows, tableVars
<1>3. IsFiniteSet(Result') /\ Cardinality(Result') \in Nat
  BY <1>2, RowTypes, FS_CardinalityType
<1>4. OwedInv'
  <2>1. ASSUME NEW j \in Sure' PROVE Cardinality(Newer(Result, j))' >= 0
    <3>1. Newer(Result, j)' \subseteq Result'
      BY DEF Newer
    <3>2. Cardinality(Newer(Result, j)') \in Nat
      BY <1>3, <3>1, FS_Subset, FS_CardinalityType
    <3>. QED
      BY <3>2
  <2>. QED
    BY <1>1, <1>2, <2>1 DEF OwedInv
<1>5. CountInv'
  BY <1>1, <1>3 DEF CountInv
<1>6. RepeatsBounded'
  <2>1. Cardinality(Result' \ Sure') \in Nat
    BY <1>3, FS_Subset, FS_CardinalityType
  <2>2. list'.got - Cardinality(list'.seen) <= Cardinality(Result' \ Sure')
    BY <1>1, <2>1, FS_EmptySet
  <2>. QED
    BY <2>2 DEF RepeatsBounded, Result, Sure
<1>. QED
  BY <1>4, <1>5, <1>6 DEF ListInv

-----------------------------------------------------------------------------
\* Theorems

\* The types of the table, the streams and the listing.
LEMMA QueryTypes ==
  ASSUME TypeOK, [Next]_vars
  PROVE  TypeOK'
<1>0. TableTypeOK /\ WatchTypeOK /\ ListTypeOK /\ server \in {"up", "draining", "down"}
  BY DEF TypeOK
<1>t. UNCHANGED tableVars => TableTypeOK'
  BY <1>0 DEF tableVars, TableTypeOK
<1>w. UNCHANGED stream => WatchTypeOK'
  BY <1>0 DEF WatchTypeOK
<1>l. UNCHANGED list => ListTypeOK'
  BY <1>0 DEF ListTypeOK
<1>b. Broken \in [pc : StreamPC, job : Job \union {NoJob}, last : Status]
      /\ Broken.pc \notin {"polling", "ended"}
  BY DEF Broken, StreamPC, Silent, Status
<1>1. CASE Table
  BY <1>0, <1>1, <1>w, <1>l, TableTypes DEF Table, TypeOK
<1>2. CASE \E s \in Stream, j \in Job : NewWatch(s, j)
  <2>1. WatchTypeOK'
    BY <1>0, <1>2 DEF NewWatch, Watch, WatchTypeOK, StreamPC, Silent, Status
  <2>. QED
    BY <1>0, <1>2, <1>t, <1>l, <2>1 DEF NewWatch, TypeOK
<1>3. CASE \E s \in Stream : Watching(s) \/ WatchBreaks(s)
  <2>1. PICK s \in Stream : Watching(s) \/ WatchBreaks(s)
    BY <1>3
  <2>2. WatchTypeOK'
    <3>1. CASE Poll(s)
      BY <1>0, <3>1 DEF Poll, Polling, WatchTypeOK, StreamPC, TableTypeOK, Rows
    <3>2. CASE NotFound(s) \/ WatchFails(s)
      BY <1>0, <1>b, <3>2 DEF NotFound, WatchFails, WatchTypeOK
    <3>. QED
      BY <2>1, <3>1, <3>2 DEF Watching, WatchBreaks, WatchStep
  <2>. QED
    BY <1>0, <1>t, <1>l, <2>1, <2>2 DEF Watching, WatchBreaks, TypeOK
<1>4. CASE \E A \in Among, st \in StateFilters, n \in PageSizes :
             NewList([among |-> A, state |-> st], n)
  <2>1. PICK A \in Among, st \in StateFilters, n \in PageSizes :
          NewList([among |-> A, state |-> st], n)
    BY <1>4
  <2>2. A \in SUBSET Job /\ st \in StateFilter /\ n \in Int
        /\ Matching([among |-> A, state |-> st]) \in SUBSET Job
    BY PageAssumption DEF Matching, Rows
  <2>3. ListTypeOK'
    BY <2>1, <2>2 DEF NewList, ListJobs, NoList, ListTypeOK
  <2>. QED
    BY <1>0, <1>t, <1>w, <2>1, <2>3 DEF NewList, TypeOK
<1>5. CASE Listing
  <2>1. ListTypeOK'
    <3>1. CASE ListRefused
      BY <1>0, <3>1 DEF ListRefused, ListTypeOK
    <3>2. CASE NextPage
      <4>. DEFINE n == PageSize(list.size)
      <4>0. PICK page \in Pages(Matching(list), list.offset, n) :
              list' = [list EXCEPT
                 !.seen   = @ \union page,
                 !.got    = @ + Cardinality(page),
                 !.offset = IF Cardinality(page) = n THEN NextOffset(@, list.size) ELSE @,
                 !.pc     = IF Cardinality(page) = n THEN "paging" ELSE "done"]
        BY <3>2 DEF NextPage
      <4>1. n \in Nat
        BY <1>0, <3>2, PageAssumption DEF NextPage, ListTypeOK, PageSize
      <4>2. page \subseteq Job /\ Cardinality(page) \in Nat
        <5>1. page \subseteq Matching(list)
          BY DEF Pages
        <5>2. page \subseteq Job
          BY <5>1 DEF Matching, Rows
        <5>. QED
          BY <5>2, TableAssumption, FS_Subset, FS_CardinalityType
      <4>. DEFINE seen   == list.seen \union page
                  got    == list.got + Cardinality(page)
                  offset == IF Cardinality(page) = n THEN list.offset + n ELSE list.offset
                  pc     == IF Cardinality(page) = n THEN "paging" ELSE "done"
      <4>3. list' = [list EXCEPT !.seen = seen, !.got = got, !.offset = offset, !.pc = pc]
        BY <4>0 DEF NextOffset
      <4>4. seen \in SUBSET Job /\ got \in Nat /\ offset \in Nat /\ pc \in {"paging", "done"}
        <5>. HIDE DEF n
        <5>. QED
          BY <1>0, <4>1, <4>2 DEF ListTypeOK
      <4>. HIDE DEF seen, got, offset, pc
      <4>. QED
        BY <1>0, <4>3, <4>4 DEF ListTypeOK
    <3>. QED
      BY <1>5, <3>1, <3>2 DEF Listing, ListStep
  <2>. QED
    BY <1>0, <1>5, <1>t, <1>w, <2>1 DEF Listing, TypeOK
<1>6. CASE Signal \/ Drained
  BY <1>0, <1>6, <1>t, <1>w, <1>l DEF Signal, Drained, TypeOK
<1>7. CASE ForceStop
  <2>1. WatchTypeOK'
    BY <1>0, <1>7, <1>b DEF ForceStop, WatchTypeOK
  <2>. QED
    BY <1>0, <1>7, <1>t, <1>l, <2>1 DEF ForceStop, TypeOK
<1>8. CASE UNCHANGED vars
  BY <1>0, <1>8, <1>t, <1>w, <1>l DEF vars, TypeOK
<1>. QED
  BY <1>1, <1>2, <1>3, <1>4, <1>5, <1>6, <1>7, <1>8 DEF Next

\* The initial states are well typed.
LEMMA QueryInitTypes == Init => TypeOK
<1>1. Init => TableTypeOK
  BY TableAssumption DEF Init, TableInit, Jobs!Init, TableTypeOK, Status
<1>2. Init => WatchTypeOK
  BY DEF Init, WatchInit, NoStream, Silent, WatchTypeOK, StreamPC, Status
<1>3. Init => ListTypeOK
  BY DEF Init, ListInit, NoList, ListTypeOK, StateFilter
<1>. QED
  BY <1>1, <1>2, <1>3 DEF Init, TypeOK

\* Rows, listings and streams have their types in every reachable state.
THEOREM QueryTypeCorrect == Spec => []TypeOK
BY QueryInitTypes, QueryTypes, PTL DEF Spec

\* Every step keeps what is known of the listing in progress.
LEMMA ListStepInv ==
  ASSUME TypeOK, ListInv, [Next]_vars
  PROVE  ListInv'
<1>0. TableTypeOK /\ ListTypeOK
  BY DEF TypeOK
<1>1. CASE Table
  BY <1>0, <1>1, ListTable DEF Table
<1>2. CASE \E A \in Among, st \in StateFilters, n \in PageSizes :
             NewList([among |-> A, state |-> st], n)
  BY <1>0, <1>2, ListStart DEF NewList
<1>3. CASE Listing
  <2>1. CASE NextPage
    BY <1>0, <1>3, <2>1, ListPage DEF Listing
  <2>2. CASE ListRefused
    <3>1. /\ list' = [list EXCEPT !.pc = "refused"] /\ list.pc = "paging"
          /\ UNCHANGED tableVars
      BY <1>3, <2>2 DEF Listing, ListRefused
    <3>2. /\ list'.pc = "refused" /\ list'.state = list.state /\ list'.got = list.got
          /\ list'.seen = list.seen /\ list'.owed = list.owed /\ list'.among = list.among
      BY <1>0, <3>1 DEF ListTypeOK
    <3>3. Result' = Result /\ Sure' = Sure
      BY <3>1, <3>2 DEF Result, Matching, Rows, Sure, Untied, tableVars
    <3>. QED
      BY <3>1, <3>2, <3>3
         DEF ListInv, OwedInv, CountInv, RepeatsBounded, StableFilter, Result, Sure
  <2>. QED
    BY <1>3, <2>1, <2>2 DEF Listing, ListStep
<1>4. ASSUME UNCHANGED <<tableVars, list>>
      PROVE  ListInv'
  BY <1>4 DEF ListInv, OwedInv, CountInv, RepeatsBounded, StableFilter,
     Result, Sure, Untied, Matching, Newer, Rows, tableVars
<1>. QED
  BY <1>1, <1>2, <1>3, <1>4
     DEF Next, NewWatch, Watching, WatchBreaks, Signal, Drained, ForceStop, vars

\* What is known of a listing in progress holds throughout.
LEMMA ListingInvariant == Spec => []ListInv
<1>1. Init => ListInv
  <2>. SUFFICES ASSUME Init PROVE ListInv
    OBVIOUS
  <2>1. Rows = {} /\ list.pc = "idle"
    BY DEF Init, TableInit, Jobs!Init, ListInit, NoList, Rows
  <2>. QED
    BY <2>1 DEF ListInv, OwedInv, CountInv, RepeatsBounded
<1>2. TypeOK /\ ListInv /\ [Next]_vars => ListInv'
  BY ListStepInv
<1>. QED
  BY <1>1, <1>2, QueryTypeCorrect, PTL DEF Spec

\* A listing without a state filter, or with that of a final state, returns every
\* job that matched when it began and whose created_at is its own, although it
\* reads page after page by offset while rows are inserted at any place and change
\* status, and though each query orders rows with the same created_at anew.
THEOREM NothingMissed == Spec => []ListingComplete
<1>1. ListInv => ListingComplete
  BY DEF ListInv, OwedInv, ListingComplete, Sure
<1>. QED
  BY <1>1, ListingInvariant, PTL

\* Such a listing repeats at most as many rows as entered the result meanwhile or
\* share their created_at with another one.
THEOREM FewRepeats == Spec => []RepeatsBounded
<1>1. ListInv => RepeatsBounded
  BY DEF ListInv
<1>. QED
  BY <1>1, ListingInvariant, PTL

\* A stream ends only with a status that the row then keeps.
LEMMA EndStep ==
  ASSUME TypeOK, EndTellsOutcome, [Next]_vars
  PROVE  EndTellsOutcome'
<1>0. TableTypeOK /\ WatchTypeOK
  BY DEF TypeOK
<1>1. CASE Table
  <2>1. UNCHANGED stream /\ \A j \in Job : status[j] \in Final => status'[j] = status[j]
    BY <1>0, <1>1, RowSteps DEF Table
  <2>. QED
    BY <1>0, <2>1 DEF EndTellsOutcome, WatchTypeOK
<1>2. CASE \E s \in Stream, j \in Job : NewWatch(s, j)
  BY <1>0, <1>2 DEF NewWatch, Watch, EndTellsOutcome, WatchTypeOK, tableVars
<1>3. CASE \E s \in Stream : Watching(s) \/ WatchBreaks(s)
  <2>1. PICK s \in Stream : Watching(s) \/ WatchBreaks(s)
    BY <1>3
  <2>2. UNCHANGED status
    BY <2>1 DEF Watching, WatchBreaks, tableVars
  <2>3. CASE Poll(s)
    <3>. DEFINE st == status[stream[s].job]
    <3>1. stream' = [stream EXCEPT ![s].last = IF Changed(s) THEN st ELSE @,
                                   ![s].pc   = IF Complete(st) THEN "ended" ELSE @]
          /\ Polling(s)
      BY <2>3 DEF Poll
    <3>2. /\ \A t \in Stream : t # s => stream'[t] = stream[t]
          /\ stream'[s].job = stream[s].job /\ stream'[s].last = st
          /\ stream'[s].pc = "ended" => Complete(st)
      BY <1>0, <3>1 DEF WatchTypeOK, Changed, Polling
    <3>. QED
      BY <2>2, <3>2 DEF EndTellsOutcome, Complete, Final
  <2>4. CASE NotFound(s) \/ WatchFails(s)
    BY <1>0, <2>2, <2>4 DEF NotFound, WatchFails, Broken, EndTellsOutcome, WatchTypeOK
  <2>. QED
    BY <2>1, <2>3, <2>4 DEF Watching, WatchBreaks, WatchStep
<1>4. CASE ForceStop
  BY <1>0, <1>4 DEF ForceStop, Broken, EndTellsOutcome, WatchTypeOK, tableVars
<1>5. ASSUME UNCHANGED <<tableVars, stream>>
      PROVE  EndTellsOutcome'
  BY <1>5 DEF EndTellsOutcome, tableVars
<1>. QED
  BY <1>1, <1>2, <1>3, <1>4, <1>5 DEF Next, NewList, Listing, Signal, Drained, vars

\* The last event of a stream that the server ended is the job's outcome, and
\* that is still the status of the row.
THEOREM OutcomeTold == Spec => []EndTellsOutcome
<1>1. Init => EndTellsOutcome
  BY DEF Init, WatchInit, NoStream, EndTellsOutcome
<1>2. TypeOK /\ EndTellsOutcome /\ [Next]_vars => EndTellsOutcome'
  BY EndStep
<1>. QED
  BY <1>1, <1>2, QueryTypeCorrect, PTL DEF Spec

\* A final state that GetJob has answered once is its answer for ever.
THEOREM FinalReplyKept == Spec => FinalReplyStable
<1>. DEFINE Kept == \A j \in Rows : GetJob(j).state \in {"SUCCEEDED", "FAILED", "DEADLETTER"} =>
                      GetJob(j)' = GetJob(j)
<1>1. ASSUME TypeOK, [Next]_vars
      PROVE  [Kept]_vars
  <2>. SUFFICES ASSUME NEW j \in Rows,
                       GetJob(j).state \in {"SUCCEEDED", "FAILED", "DEADLETTER"}
                PROVE  GetJob(j)' = GetJob(j)
    OBVIOUS
  <2>0. j \in Job /\ status[j] \in Final
    BY DEF Rows, GetJob, statusToJobState, Final
  <2>1. CASE Table
    BY <1>1, <2>0, <2>1, RowSteps DEF Table, TypeOK, GetJob
  <2>2. CASE UNCHANGED tableVars
    BY <2>2 DEF GetJob, tableVars
  <2>. QED
    BY <1>1, <2>1, <2>2 DEF Next, NewWatch, Watching, WatchBreaks, NewList, Listing,
       Signal, Drained, ForceStop, vars
<1>. QED
  BY <1>1, QueryTypeCorrect, PTL DEF Spec, FinalReplyStable
=============================================================================

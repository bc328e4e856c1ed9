----------------------------- MODULE SeqLemmas -----------------------------
(***************************************************************************)
(* What the list operators of Store return: the facts about sequences the  *)
(* proofs in TypeProofs rest on.                                           *)
(***************************************************************************)
EXTENDS Store, SequenceTheorems, FiniteSetTheorems, WellFoundedInduction, TLAPS

-----------------------------------------------------------------------------
\* The least element of a set of naturals

\* A set of naturals that is not empty has a least element.  (The order is a
\* parameter here, so that no prover has to look into OpToRel.)
LEMMA LeastElement ==
  ASSUME NEW R, NEW I, I \subseteq Nat, I # {},
         IsWellFoundedOn(R, Nat),
         \A y, z \in Nat : y < z => <<y, z>> \in R
  PROVE  \E x \in I : \A y \in I : x <= y
<1>1. PICK x \in I : \A y \in I : ~(<<y, x>> \in R)
  BY WFMin, ZenonT(60)
<1>2. \A y \in I : ~(y < x)
  BY <1>1
<1>3. \A y \in I : y \in Nat /\ x \in Nat
  OBVIOUS
<1>4. \A y \in I : x <= y
  BY <1>2, <1>3
<1>. QED
  BY <1>4

\* Min, by which RemoveFirst finds the first occurrence, is that element.
LEMMA MinProperties ==
  ASSUME NEW I, I \subseteq Nat, I # {}
  PROVE  /\ Min(I) \in I
         /\ \A y \in I : Min(I) <= y
<1>1. \A y, z \in Nat : y < z => <<y, z>> \in OpToRel(<, Nat)
  BY DEF OpToRel
<1>2. \E x \in I : \A y \in I : x <= y
  BY <1>1, LeastElement, NatLessThanWellFounded, Zenon
<1>. QED
  BY <1>2 DEF Min

-----------------------------------------------------------------------------
\* LREM

\* LREM with count 1 gives a list of the same elements.
LEMMA RemoveFirstType ==
  ASSUME NEW S, NEW s \in Seq(S), NEW e
  PROVE  RemoveFirst(s, e) \in Seq(S)
<1>. DEFINE I == {i \in 1..Len(s) : s[i] = e}
<1>1. CASE I = {}
  BY <1>1 DEF RemoveFirst
<1>2. CASE I # {}
  <2>1. I \subseteq Nat
    OBVIOUS
  <2>2. Min(I) \in 1..Len(s)
    BY <1>2, <2>1, MinProperties
  <2>3. /\ SubSeq(s, 1, Min(I) - 1) \in Seq(S)
        /\ SubSeq(s, Min(I) + 1, Len(s)) \in Seq(S)
    <3>. DEFINE m == Min(I)
    <3>1. m \in 1..Len(s)
      BY <2>2
    <3>. HIDE DEF m
    <3>2. SubSeq(s, 1, m - 1) \in Seq(S) /\ SubSeq(s, m + 1, Len(s)) \in Seq(S)
      BY <3>1, SubSeqProperties, ElementOfSeq, LenProperties
    <3>. QED
      BY <3>2 DEF m
  <2>4. RemoveFirst(s, e) = SubSeq(s, 1, Min(I) - 1) \o SubSeq(s, Min(I) + 1, Len(s))
    BY <1>2 DEF RemoveFirst, RemoveAt, SelectInSeq
  <2>. QED
    BY <2>3, <2>4
<1>. QED
  BY <1>1, <1>2

\* The k-th smallest element of a set of indices exists, for every k up to
\* the number of indices.
LEMMA KthIndex ==
  ASSUME NEW n \in Nat, NEW keep, keep \subseteq 1..n,
         NEW k \in 1..Cardinality(keep)
  PROVE  \E i \in keep : Cardinality(keep \cap (1..i)) = k
<1>. DEFINE upto(i) == keep \cap (1..i)
            I == {i \in 0..n : k <= Cardinality(upto(i))}
<1>1. \A i \in 0..n : IsFiniteSet(upto(i)) /\ Cardinality(upto(i)) \in Nat
  <2>. TAKE i \in 0..n
  <2>1. IsFiniteSet(1..i)
    BY FS_Interval
  <2>. QED
    BY <2>1, FS_Subset, FS_CardinalityType
<1>2. upto(n) = keep
  OBVIOUS
<1>3. n \in I
  BY <1>2
<1>4. PICK i \in I : \A y \in I : i <= y
  <2>1. I \subseteq Nat
    OBVIOUS
  <2>. QED
    BY <1>3, <2>1, MinProperties
<1>5. upto(0) = {}
  OBVIOUS
<1>6. i # 0
  BY <1>5, FS_EmptySet
<1>7. i - 1 \in 0..n /\ ~(k <= Cardinality(upto(i - 1)))
  BY <1>4, <1>6
<1>8. CASE i \in keep
  <2>1. upto(i) = upto(i - 1) \union {i} /\ i \notin upto(i - 1)
    BY <1>7, <1>8
  <2>2. Cardinality(upto(i)) = Cardinality(upto(i - 1)) + 1
    BY <1>1, <1>7, <2>1, FS_AddElement
  <2>3. k <= Cardinality(upto(i)) /\ ~(k <= Cardinality(upto(i - 1)))
    BY <1>4, <1>7
  <2>4. Cardinality(upto(i - 1)) \in Nat
    BY <1>1, <1>7
  <2>5. Cardinality(upto(i)) = k
    <3>. HIDE DEF upto
    <3>. QED
      BY <2>2, <2>3, <2>4
  <2>. QED
    BY <1>8, <2>5
<1>9. CASE i \notin keep
  <2>1. upto(i) = upto(i - 1)
    BY <1>7, <1>9
  <2>. QED
    BY <1>4, <1>7, <2>1
<1>. QED
  BY <1>8, <1>9

\* LREM with count 0 gives a list of the same elements.
LEMMA WithoutType ==
  ASSUME NEW S, NEW s \in Seq(S), NEW e
  PROVE  Without(s, e) \in Seq(S)
<1>. DEFINE keep == {i \in DOMAIN s : s[i] # e}
            at(k) == CHOOSE i \in keep : Cardinality(keep \cap (1..i)) = k
<1>1. Len(s) \in Nat /\ DOMAIN s = 1..Len(s) /\ keep \subseteq 1..Len(s)
  BY LenProperties
<1>2. Cardinality(keep) \in Nat
  <2>. HIDE DEF keep
  <2>1. IsFiniteSet(1..Len(s))
    BY <1>1, FS_Interval
  <2>2. IsFiniteSet(keep)
    BY <1>1, <2>1, FS_Subset
  <2>. QED
    BY <2>2, FS_CardinalityType
<1>3. \A k \in 1..Cardinality(keep) : at(k) \in keep
  BY <1>1, KthIndex
<1>4. \A k \in 1..Cardinality(keep) : s[at(k)] \in S
  BY <1>1, <1>3, ElementOfSeq
<1>5. Without(s, e) = [k \in 1..Cardinality(keep) |-> s[at(k)]]
  BY DEF Without
<1>. HIDE DEF keep, at
<1>. QED
  BY <1>2, <1>4, <1>5

-----------------------------------------------------------------------------
\* LPUSH and the pop end

\* LPUSH of an element of S gives a list of elements of S.
LEMMA ConsType ==
  ASSUME NEW S, NEW s \in Seq(S), NEW e \in S
  PROVE  Cons(e, s) \in Seq(S)
<1>1. <<e>> \in Seq(S)
  OBVIOUS
<1>. QED
  BY <1>1, ConcatProperties DEF Cons

\* The rightmost entry of a list and the rest of it.
LEMMA FrontLastType ==
  ASSUME NEW S, NEW s \in Seq(S), s # << >>
  PROVE  Last(s) \in S /\ Front(s) \in Seq(S)
<1>1. Len(s) \in Nat \ {0}
  BY EmptySeq
<1>2. Last(s) \in S
  BY <1>1, ElementOfSeq DEF Last
<1>3. \A i \in 1..(Len(s) - 1) : s[i] \in S
  BY <1>1, ElementOfSeq
<1>4. Front(s) \in Seq(S)
  BY <1>1, <1>3, SubSeqProperties DEF Front
<1>. QED
  BY <1>2, <1>4

-----------------------------------------------------------------------------
\* Which entries are in a list

\* The entry pushed is the first; the others move up.
LEMMA ConsElements ==
  ASSUME NEW S, NEW s \in Seq(S), NEW e \in S
  PROVE  /\ Len(Cons(e, s)) = Len(s) + 1
         /\ \A i \in 1..(Len(s) + 1) : Cons(e, s)[i] = IF i = 1 THEN e ELSE s[i - 1]
<1>1. <<e>> \in Seq(S) /\ Len(<<e>>) = 1 /\ <<e>>[1] = e
  OBVIOUS
<1>2. Len(s) \in Nat /\ Cons(e, s) = <<e>> \o s
  BY DEF Cons
<1>. QED
  BY <1>1, <1>2, ConcatProperties

\* LPUSH adds one entry and keeps the others.
LEMMA ConsContains ==
  ASSUME NEW S, NEW s \in Seq(S), NEW e \in S, NEW x
  PROVE  Contains(Cons(e, s), x) <=> x = e \/ Contains(s, x)
<1>2. Len(s) \in Nat
  OBVIOUS
<1>3. /\ Len(Cons(e, s)) = Len(s) + 1
      /\ \A i \in 1..(Len(s) + 1) : Cons(e, s)[i] = IF i = 1 THEN e ELSE s[i - 1]
  BY ConsElements
<1>4. ASSUME NEW i \in 1..Len(s), s[i] = x
      PROVE  Contains(Cons(e, s), x)
  <2>1. i + 1 \in 1..(Len(s) + 1) /\ Cons(e, s)[i + 1] = x
    BY <1>2, <1>3, <1>4
  <2>. QED
    BY <1>3, <2>1 DEF Contains
<1>5. x = e => Contains(Cons(e, s), x)
  BY <1>2, <1>3 DEF Contains
<1>6. ASSUME NEW i \in 1..(Len(s) + 1), Cons(e, s)[i] = x, x # e
      PROVE  Contains(s, x)
  <2>1. i # 1 /\ s[i - 1] = x /\ i - 1 \in 1..Len(s)
    BY <1>2, <1>3, <1>6
  <2>. QED
    BY <2>1 DEF Contains
<1>. QED
  BY <1>3, <1>4, <1>5, <1>6 DEF Contains

\* The rest of a list has the same elements at the same places.
LEMMA FrontElements ==
  ASSUME NEW S, NEW s \in Seq(S), s # << >>
  PROVE  /\ Len(Front(s)) = Len(s) - 1
         /\ \A k \in 1..(Len(s) - 1) : Front(s)[k] = s[k]
<1>0. Len(s) \in Nat \ {0}
  BY EmptySeq
<1>1. \A k \in 1..(Len(s) - 1) : s[k] \in S
  BY <1>0, ElementOfSeq
<1>. DEFINE n == Len(s) - 1
<1>2. n \in Int /\ n + 1 = Len(s) /\ 0 <= n
  BY <1>0
<1>3. \A k \in 1..n : s[k] \in S
  BY <1>1
<1>. HIDE DEF n
<1>4. /\ Len(SubSeq(s, 1, n)) = IF 1 <= n THEN n - 1 + 1 ELSE 0
      /\ \A k \in 1..(n - 1 + 1) : SubSeq(s, 1, n)[k] = s[1 + k - 1]
  BY <1>2, <1>3, SubSeqProperties
<1>5. /\ Len(SubSeq(s, 1, n)) = n
      /\ \A k \in 1..n : SubSeq(s, 1, n)[k] = s[k]
  BY <1>2, <1>4
<1>. QED
  BY <1>5 DEF Front, n

\* A pop takes out the rightmost entry only.
LEMMA FrontContains ==
  ASSUME NEW S, NEW s \in Seq(S), s # << >>, NEW x, Contains(s, x)
  PROVE  x = Last(s) \/ Contains(Front(s), x)
<1>1. Len(s) \in Nat \ {0}
  BY EmptySeq
<1>2. PICK i \in 1..Len(s) : s[i] = x
  BY DEF Contains
<1>3. CASE i = Len(s)
  BY <1>2, <1>3 DEF Last
<1>4. CASE i # Len(s)
  <2>1. /\ Len(Front(s)) = Len(s) - 1
        /\ \A k \in 1..(Len(s) - 1) : Front(s)[k] = s[k]
    BY FrontElements
  <2>2. i \in 1..Len(Front(s)) /\ Front(s)[i] = x
    BY <1>1, <1>2, <1>4, <2>1
  <2>. QED
    BY <2>2 DEF Contains
<1>. QED
  BY <1>3, <1>4

\* LREM with count 1 takes out one occurrence, if there is one.
LEMMA RemoveFirstElements ==
  ASSUME NEW S, NEW s \in Seq(S), NEW e, Contains(s, e)
  PROVE  \E m \in 1..Len(s) :
           /\ s[m] = e /\ Len(RemoveFirst(s, e)) = Len(s) - 1
           /\ \A k \in 1..(Len(s) - 1) :
                RemoveFirst(s, e)[k] = IF k < m THEN s[k] ELSE s[k + 1]
<1>. DEFINE I == {i \in 1..Len(s) : s[i] = e}
<1>0. I # {}
  BY DEF Contains
<1>1. Min(I) \in I
  <2>1. I \subseteq Nat
    OBVIOUS
  <2>. HIDE DEF I
  <2>. QED
    BY <1>0, <2>1, MinProperties
<1>. DEFINE m == Min(I)
            u == SubSeq(s, 1, m - 1)
            v == SubSeq(s, m + 1, Len(s))
<1>2. m \in 1..Len(s) /\ s[m] = e /\ Len(s) \in Nat
  BY <1>1
<1>3. RemoveFirst(s, e) = u \o v
  BY <1>0 DEF RemoveFirst, RemoveAt, SelectInSeq
<1>. HIDE DEF m
<1>4. /\ u \in Seq(S) /\ Len(u) = m - 1 /\ \A k \in 1..(m - 1) : u[k] = s[k]
      /\ v \in Seq(S) /\ Len(v) = Len(s) - m
      /\ \A k \in 1..(Len(s) - m) : v[k] = s[m + k]
  BY <1>2, SubSeqProperties, ElementOfSeq
<1>. HIDE DEF u, v
<1>5. /\ Len(u \o v) = Len(s) - 1
      /\ \A k \in 1..(Len(s) - 1) : (u \o v)[k] = IF k < m THEN s[k] ELSE s[k + 1]
  <2>1. /\ Len(u \o v) = Len(u) + Len(v)
        /\ \A k \in 1..(Len(u) + Len(v)) :
             (u \o v)[k] = IF k <= Len(u) THEN u[k] ELSE v[k - Len(u)]
    BY <1>4, ConcatProperties
  <2>2. ASSUME NEW k \in 1..(Len(s) - 1)
        PROVE  (u \o v)[k] = IF k < m THEN s[k] ELSE s[k + 1]
    <3>. HIDE DEF I
    <3>1. m \in Int /\ k \in Int /\ Len(s) \in Int /\ 1 <= k /\ k <= Len(s) - 1
      BY <1>2
    <3>2. k \in 1..(Len(u) + Len(v))
      BY <1>4, <3>1
    <3>3. (u \o v)[k] = IF k <= Len(u) THEN u[k] ELSE v[k - Len(u)]
      BY <2>1, <3>2
    <3>4. CASE k < m
      <4>1. k <= Len(u) /\ k \in 1..(m - 1)
        BY <1>4, <3>1, <3>4
      <4>2. u[k] = s[k]
        BY <1>4, <4>1
      <4>. QED
        BY <3>3, <3>4, <4>1, <4>2
    <3>5. CASE ~(k < m)
      <4>1. /\ k - Len(u) \in 1..(Len(s) - m) /\ ~(k <= Len(u))
            /\ m + (k - Len(u)) = k + 1
        BY <1>4, <3>1, <3>5
      <4>2. v[k - Len(u)] = s[k + 1]
        BY <1>4, <4>1
      <4>. QED
        BY <3>3, <3>5, <4>1, <4>2
    <3>. QED
      BY <3>4, <3>5
  <2>. QED
    BY <1>2, <1>4, <2>1, <2>2
<1>. QED
  BY <1>2, <1>3, <1>5

\* It takes out no entry of another job.
LEMMA RemoveFirstContains ==
  ASSUME NEW S, NEW s \in Seq(S), NEW e, NEW x, x # e, Contains(s, x)
  PROVE  Contains(RemoveFirst(s, e), x)
<1>1. CASE ~Contains(s, e)
  BY <1>1 DEF RemoveFirst, Contains
<1>2. CASE Contains(s, e)
  <2>. DEFINE w == RemoveFirst(s, e)
  <2>1. PICK m \in 1..Len(s) : /\ s[m] = e /\ Len(w) = Len(s) - 1
                               /\ \A k \in 1..(Len(s) - 1) : w[k] = IF k < m THEN s[k] ELSE s[k + 1]
    BY <1>2, RemoveFirstElements
  <2>2. Len(s) \in Nat
    OBVIOUS
  <2>6. PICK i \in 1..Len(s) : s[i] = x
    BY DEF Contains
  <2>. HIDE DEF w
  <2>7. \A k \in 1..(Len(s) - 1) : w[k] = x => Contains(w, x)
    BY <2>1 DEF Contains
  <2>8. CASE i < m
    <3>1. i \in 1..(Len(s) - 1) /\ w[i] = x
      <4>1. i \in 1..(Len(s) - 1)
        BY <2>1, <2>2, <2>6, <2>8
      <4>. QED
        BY <2>1, <2>6, <2>8, <4>1
    <3>. QED
      BY <2>7, <3>1 DEF w
  <2>9. CASE i > m
    <3>1. /\ i - 1 \in 1..(Len(s) - 1) /\ ~(i - 1 < m) /\ (i - 1) + 1 = i
      BY <2>1, <2>2, <2>6, <2>9
    <3>2. w[i - 1] = s[(i - 1) + 1]
      BY <2>1, <3>1
    <3>. QED
      BY <2>6, <2>7, <3>1, <3>2 DEF w
  <2>. QED
    BY <2>1, <2>2, <2>6, <2>8, <2>9
<1>. QED
  BY <1>1, <1>2

-----------------------------------------------------------------------------
\* How often an entry is in a list

\* Where x is in a list.
Places(x, s) == {i \in DOMAIN s : s[i] = x}

\* A list has finitely many places.
LEMMA PlacesFinite ==
  ASSUME NEW S, NEW s \in Seq(S), NEW x
  PROVE  IsFiniteSet(Places(x, s)) /\ Cardinality(Places(x, s)) \in Nat
<1>1. Places(x, s) \subseteq 1..Len(s) /\ Len(s) \in Nat
  BY LenProperties DEF Places
<1>2. IsFiniteSet(1..Len(s))
  BY <1>1, FS_Interval
<1>. QED
  BY <1>1, <1>2, FS_Subset, FS_CardinalityType

\* w is s without the entry at place m.
LEMMA OneLess ==
  ASSUME NEW S, NEW s \in Seq(S), NEW w \in Seq(S), NEW m \in 1..Len(s),
         Len(w) = Len(s) - 1,
         \A k \in 1..Len(w) : w[k] = IF k < m THEN s[k] ELSE s[k + 1],
         NEW x
  PROVE  Cardinality(Places(x, s)) =
           Cardinality(Places(x, w)) + (IF x = s[m] THEN 1 ELSE 0)
<1>. DEFINE P == Places(x, w)
            Q == Places(x, s) \ {m}
            f == [k \in P |-> IF k < m THEN k ELSE k + 1]
<1>0. /\ Len(s) \in Nat /\ Len(w) \in Nat /\ DOMAIN s = 1..Len(s) /\ DOMAIN w = 1..Len(w)
  BY LenProperties
<1>1. \A k \in P : k \in 1..Len(w) /\ w[k] = x
  BY <1>0 DEF Places
<1>2. \A i : i \in Q <=> i \in 1..Len(s) /\ s[i] = x /\ i # m
  BY <1>0 DEF Places
<1>3. f \in [P -> Q]
  <2>. SUFFICES ASSUME NEW k \in P PROVE (IF k < m THEN k ELSE k + 1) \in Q
    OBVIOUS
  <2>. QED
    BY <1>0, <1>1, <1>2
<1>4. \A k, l \in P : f[k] = f[l] => k = l
  BY <1>0, <1>1
<1>5. ASSUME NEW i \in Q PROVE \E k \in P : f[k] = i
  <2>. DEFINE k == IF i < m THEN i ELSE i - 1
  <2>1. k \in 1..Len(w) /\ (IF k < m THEN k ELSE k + 1) = i
    BY <1>0, <1>2
  <2>2. k \in P
    BY <1>0, <1>2, <2>1 DEF Places
  <2>. QED
    BY <2>1, <2>2
<1>6. f \in Injection(P, Q) /\ f \in Surjection(P, Q)
  BY <1>3, <1>4, <1>5 DEF Injection, Surjection, IsInjective
<1>7. IsFiniteSet(Places(x, s)) /\ Cardinality(Places(x, s)) \in Nat
  BY PlacesFinite
<1>8. /\ IsFiniteSet(Q)
      /\ Cardinality(Q) = IF m \in Places(x, s) THEN Cardinality(Places(x, s)) - 1
                                              ELSE Cardinality(Places(x, s))
  BY <1>7, FS_RemoveElement
<1>9. Cardinality(P) = Cardinality(Q)
  <2>. HIDE DEF P, Q, f
  <2>. QED
    BY <1>6, <1>8, FS_Injection
<1>10. m \in Places(x, s) <=> x = s[m]
  BY <1>0 DEF Places
<1>. HIDE DEF P, Q, f
<1>. QED
  BY <1>7, <1>8, <1>9, <1>10 DEF P

\* An entry is in a list when it has a place there.
LEMMA ContainsPlaces ==
  ASSUME NEW S, NEW s \in Seq(S), NEW x
  PROVE  Contains(s, x) <=> Cardinality(Places(x, s)) # 0
<1>1. Contains(s, x) <=> Places(x, s) # {}
  BY LenProperties DEF Contains, Places
<1>. QED
  BY <1>1, PlacesFinite, FS_EmptySet

\* LPUSH adds one occurrence.
LEMMA ConsPlaces ==
  ASSUME NEW S, NEW s \in Seq(S), NEW e \in S, NEW x
  PROVE  Cardinality(Places(x, Cons(e, s))) =
           Cardinality(Places(x, s)) + (IF x = e THEN 1 ELSE 0)
<1>. DEFINE w == Cons(e, s)
<1>1. /\ Len(s) \in Nat /\ w \in Seq(S) /\ Len(w) = Len(s) + 1
      /\ \A i \in 1..(Len(s) + 1) : w[i] = IF i = 1 THEN e ELSE s[i - 1]
  <2>1. w \in Seq(S)
    BY ConsType
  <2>2. /\ Len(w) = Len(s) + 1
        /\ \A i \in 1..(Len(s) + 1) : w[i] = IF i = 1 THEN e ELSE s[i - 1]
    BY ConsElements
  <2>. QED
    BY <2>1, <2>2
<1>. HIDE DEF w
<1>2. 1 \in 1..Len(w) /\ w[1] = e /\ Len(s) = Len(w) - 1
  BY <1>1
<1>3. \A k \in 1..Len(s) : s[k] = IF k < 1 THEN w[k] ELSE w[k + 1]
  BY <1>1
<1>4. Cardinality(Places(x, w)) = Cardinality(Places(x, s)) + (IF x = w[1] THEN 1 ELSE 0)
  BY <1>1, <1>2, <1>3, OneLess, SMTT(60)
<1>. QED
  BY <1>2, <1>4 DEF w

\* A pop takes the last one.
LEMMA FrontPlaces ==
  ASSUME NEW S, NEW s \in Seq(S), s # << >>, NEW x
  PROVE  Cardinality(Places(x, s)) =
           Cardinality(Places(x, Front(s))) + (IF x = Last(s) THEN 1 ELSE 0)
<1>1. /\ Len(s) \in Nat \ {0} /\ Front(s) \in Seq(S) /\ Len(Front(s)) = Len(s) - 1
      /\ \A k \in 1..(Len(s) - 1) : Front(s)[k] = s[k]
  BY EmptySeq, FrontElements, FrontLastType
<1>2. Len(s) \in 1..Len(s) /\ Last(s) = s[Len(s)]
  BY <1>1 DEF Last
<1>. DEFINE w == Front(s)
            m == Len(s)
<1>3. /\ w \in Seq(S) /\ m \in 1..Len(s) /\ Len(w) = Len(s) - 1
      /\ \A k \in 1..Len(w) : w[k] = IF k < m THEN s[k] ELSE s[k + 1]
  BY <1>1, <1>2
<1>. HIDE DEF w, m
<1>4. Cardinality(Places(x, s)) = Cardinality(Places(x, w)) + (IF x = s[m] THEN 1 ELSE 0)
  BY <1>3, OneLess, SMTT(60)
<1>. QED
  BY <1>2, <1>4 DEF w, m

\* LREM with count 1 takes one occurrence of its own entry.
LEMMA RemoveFirstPlaces ==
  ASSUME NEW S, NEW s \in Seq(S), NEW e, NEW x
  PROVE  Cardinality(Places(x, s)) =
           Cardinality(Places(x, RemoveFirst(s, e)))
             + (IF x = e /\ Contains(s, e) THEN 1 ELSE 0)
<1>1. CASE ~Contains(s, e)
  <2>1. RemoveFirst(s, e) = s
    BY <1>1 DEF RemoveFirst, Contains
  <2>. QED
    BY <1>1, <2>1, PlacesFinite
<1>2. CASE Contains(s, e)
  <2>. DEFINE w == RemoveFirst(s, e)
  <2>1. PICK m \in 1..Len(s) : /\ s[m] = e /\ Len(w) = Len(s) - 1
                               /\ \A k \in 1..(Len(s) - 1) : w[k] = IF k < m THEN s[k] ELSE s[k + 1]
    BY <1>2, RemoveFirstElements
  <2>2. w \in Seq(S)
    BY RemoveFirstType
  <2>. HIDE DEF w
  <2>3. /\ s \in Seq(S) /\ w \in Seq(S) /\ m \in 1..Len(s) /\ Len(w) = Len(s) - 1
        /\ \A k \in 1..Len(w) : w[k] = IF k < m THEN s[k] ELSE s[k + 1]
    BY <2>1, <2>2
  <2>4. Cardinality(Places(x, s)) = Cardinality(Places(x, w)) + (IF x = s[m] THEN 1 ELSE 0)
    BY <2>3, OneLess, SMTT(60)
  <2>. QED
    BY <1>2, <2>1, <2>4 DEF w
<1>. QED
  BY <1>1, <1>2

\* A place is known by how many there are up to it.
LEMMA KthIndexUnique ==
  ASSUME NEW n \in Nat, NEW keep, keep \subseteq 1..n, NEW i \in keep, NEW k \in keep,
         Cardinality(keep \cap (1..i)) = Cardinality(keep \cap (1..k))
  PROVE  i = k
<1>1. ASSUME NEW a \in keep, NEW b \in keep, a < b,
             Cardinality(keep \cap (1..a)) = Cardinality(keep \cap (1..b))
      PROVE  FALSE
  <2>1. IsFiniteSet(1..b)
    BY FS_Interval
  <2>2. IsFiniteSet(keep \cap (1..b))
    BY <2>1, FS_Intersection
  <2>3. keep \cap (1..a) \subseteq keep \cap (1..b)
    BY <1>1
  <2>4. keep \cap (1..b) = keep \cap (1..a)
    BY <1>1, <2>2, <2>3, FS_Subset
  <2>5. b \in keep \cap (1..b) /\ b \notin keep \cap (1..a)
    BY <1>1
  <2>. QED
    BY <2>4, <2>5
<1>2. i \in Nat /\ k \in Nat
  OBVIOUS
<1>. QED
  BY <1>1, <1>2

\* LREM with count 0 takes every occurrence of its own entry and no other.
LEMMA WithoutPlaces ==
  ASSUME NEW S, NEW s \in Seq(S), NEW e, NEW x
  PROVE  Cardinality(Places(x, Without(s, e))) =
           IF x = e THEN 0 ELSE Cardinality(Places(x, s))
<1>. DEFINE keep == {i \in DOMAIN s : s[i] # e}
            upto(i) == Cardinality(keep \cap (1..i))
            n == Cardinality(keep)
            at(k) == CHOOSE i \in keep : upto(i) = k
            w == Without(s, e)
<1>1. Len(s) \in Nat /\ DOMAIN s = 1..Len(s) /\ keep \subseteq 1..Len(s)
  BY LenProperties
<1>2. IsFiniteSet(keep) /\ n \in Nat
  <2>. HIDE DEF keep
  <2>1. IsFiniteSet(1..Len(s))
    BY <1>1, FS_Interval
  <2>. QED
    BY <1>1, <2>1, FS_Subset, FS_CardinalityType
<1>3. w = [k \in 1..n |-> s[at(k)]]
  BY DEF Without
<1>4. \A k \in 1..n : at(k) \in keep /\ upto(at(k)) = k
  <2>. HIDE DEF keep
  <2>1. \A k \in 1..n : \E i \in keep : upto(i) = k
    BY <1>1, KthIndex
  <2>. QED
    BY <2>1
<1>5. \A i \in keep : upto(i) \in 1..n
  <2>. SUFFICES ASSUME NEW i \in keep PROVE upto(i) \in 1..n
    OBVIOUS
  <2>1. i \in keep \cap (1..i)
    BY <1>1
  <2>. HIDE DEF keep
  <2>2. /\ IsFiniteSet(keep \cap (1..i)) /\ upto(i) <= n
    BY <1>2, FS_Intersection
  <2>3. upto(i) \in Nat /\ upto(i) # 0
    BY <2>1, <2>2, FS_CardinalityType, FS_EmptySet
  <2>. QED
    BY <1>2, <2>2, <2>3
<1>6. \A i, k \in keep : upto(i) = upto(k) => i = k
  <2>. HIDE DEF keep
  <2>. QED
    BY <1>1, KthIndexUnique
<1>7. DOMAIN w = 1..n
  BY <1>3
<1>8. \A i \in DOMAIN s : s[i] # e <=> i \in keep
  OBVIOUS
<1>9. \A k \in 1..n : w[k] = s[at(k)] /\ w[k] # e
  <2>. HIDE DEF at, upto, n, w
  <2>. QED
    BY <1>3, <1>4
<1>. HIDE DEF keep, upto, n, at, w
<1>10. CASE x = e
  <2>1. Places(x, w) = {}
    BY <1>7, <1>9, <1>10 DEF Places
  <2>. QED
    BY <1>10, <2>1, FS_EmptySet DEF w
<1>11. CASE x # e
  <2>. DEFINE P == Places(x, w)
              Q == Places(x, s)
              f == [k \in P |-> at(k)]
  <2>1. \A k : k \in P <=> k \in 1..n /\ s[at(k)] = x
    BY <1>7, <1>9 DEF Places
  <2>2. \A i : i \in Q <=> i \in keep /\ s[i] = x
    BY <1>1, <1>8, <1>11 DEF Places
  <2>3. IsFiniteSet(Q)
    BY PlacesFinite
  <2>. HIDE DEF P, Q
  <2>4. f \in [P -> Q]
    BY <1>4, <2>1, <2>2
  <2>5. \A k, l \in P : f[k] = f[l] => k = l
    <3>1. \A k \in P : upto(f[k]) = k
      BY <1>4, <2>1
    <3>. QED
      BY <3>1
  <2>6. ASSUME NEW i \in Q PROVE \E k \in P : f[k] = i
    <3>1. upto(i) \in 1..n /\ at(upto(i)) = i
      BY <1>4, <1>5, <1>6, <2>2
    <3>. QED
      BY <2>1, <2>2, <3>1
  <2>7. f \in Injection(P, Q) /\ f \in Surjection(P, Q)
    BY <2>4, <2>5, <2>6 DEF Injection, Surjection, IsInjective
  <2>. HIDE DEF f
  <2>8. Cardinality(P) = Cardinality(Q)
    BY <2>3, <2>7, FS_Injection
  <2>. QED
    BY <1>11, <2>8 DEF P, Q, w
<1>. QED
  BY <1>10, <1>11

\* In particular it takes out no other entry.
LEMMA WithoutContains ==
  ASSUME NEW S, NEW s \in Seq(S), NEW e, NEW x, x # e, Contains(s, x)
  PROVE  Contains(Without(s, e), x)
<1>1. Without(s, e) \in Seq(S)
  BY WithoutType
<1>2. Cardinality(Places(x, Without(s, e))) = Cardinality(Places(x, s))
  BY WithoutPlaces
<1>. QED
  BY <1>1, <1>2, ContainsPlaces
\* A list that does not hold an element is a list of the others.
LEMMA WithoutElement ==
  ASSUME NEW S, NEW s \in Seq(S), NEW e
  PROVE  ~Contains(s, e) <=> s \in Seq(S \ {e})
<1>1. /\ Len(s) \in Nat /\ s \in [1..Len(s) -> S]
  OBVIOUS
<1>2. ASSUME ~Contains(s, e)
      PROVE  s \in Seq(S \ {e})
  <2>1. \A i \in 1..Len(s) : s[i] \in S \ {e}
    BY <1>1, <1>2 DEF Contains
  <2>2. s \in [1..Len(s) -> S \ {e}]
    BY <1>1, <2>1
  <2>. QED
    BY <1>1, <2>2
<1>3. ASSUME s \in Seq(S \ {e})
      PROVE  ~Contains(s, e)
  <2>1. \A i \in 1..Len(s) : s[i] \in S \ {e}
    BY <1>3, ElementOfSeq
  <2>. QED
    BY <2>1 DEF Contains
<1>. QED
  BY <1>2, <1>3
=============================================================================

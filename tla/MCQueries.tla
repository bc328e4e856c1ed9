------------------------------ MODULE MCQueries ------------------------------
(***************************************************************************)
(* Instances of Queries for TLC.                                           *)
(***************************************************************************)
EXTENDS Queries

CONSTANTS j1, j2

MCMaxAttempts == [j \in Job |-> IF j = j1 THEN 2 ELSE 1]
MCPageSizes == {-1, 0, 3}
MCStamp == 1..Cardinality(Job)
MCFilters == {"any", "succeeded"}
MCAmong == {Job}
=============================================================================

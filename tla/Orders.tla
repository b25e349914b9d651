------------------------------- MODULE Orders -------------------------------
(***************************************************************************)
(* ORDER BY, as the queries of internal/store use it.                      *)
(***************************************************************************)
EXTENDS Integers, FiniteSets

(* The rows of S, each at the place that the rows before it leave it.      *)
Ordered(S, Before(_, _)) ==
    [i \in 1..Cardinality(S) |->
        CHOOSE r \in S : Cardinality({q \in S : Before(q, r)}) = i - 1]
=============================================================================

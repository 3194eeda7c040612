------------------------------ MODULE Ordered ------------------------------
(***************************************************************************)
(* Sets of numbers and parts of sequences, in order, and sums along them:  *)
(* what a sort, an ORDER BY, a filtering and an adding loop return.        *)
(***************************************************************************)
EXTENDS Integers, Sequences, FiniteSets

\* How many members of a set are below a number.
Below(S, x) == Cardinality({y \in S : y < x})

\* The members of a finite set of numbers, in ascending order.
Ascending(S) == [k \in 1..Cardinality(S) |-> CHOOSE x \in S : Below(S, x) = k - 1]

\* The members of a sequence at some of its places, in their order.
Keep(s, places) ==
  LET p == Ascending(places) IN [k \in 1..Cardinality(places) |-> s[p[k]]]

SumSeq(values) ==
  LET sum[i \in 0..Len(values)] == IF i = 0 THEN 0 ELSE sum[i - 1] + values[i]
  IN sum[Len(values)]
=============================================================================

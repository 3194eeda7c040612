---------------------------- MODULE MCAnalytics ----------------------------
(***************************************************************************)
(* TLC instance of the analytics: one stock and a benchmark that is traded *)
(* too, as SPY is, and whose stored close may be zero.                     *)
(***************************************************************************)
EXTENDS Analytics

MCNameOrder == [s \in Symbols |-> IF s = "AAPL" THEN 1 ELSE 2]
MCCloses == [s \in Symbols |-> IF s \in BenchmarkSymbols THEN {0, 20} ELSE {20}]
MCQuotes == [s \in Symbols |-> IF s \in BenchmarkSymbols THEN {18, 20} ELSE {20}]

\* At most two bars are missing, and nothing trades on the last day, which no bar can
\* follow: a trade that the closes have not caught up with is of a day before.
Missing(s) == (1..(today - 1)) \ DOMAIN bars[s]
Explored ==
  /\ SumFunction([s \in Symbols |-> Cardinality(Missing(s))]) <= 2
  /\ \A i \in DOMAIN log : log[i].day < MaxDay
=============================================================================

----------------------------- MODULE MCInsights -----------------------------
(***************************************************************************)
(* TLC instances of the report path.                                       *)
(***************************************************************************)
EXTENDS Insights

CONSTANTS s1

MCUpper == [x \in RawSymbols |-> s1]
=============================================================================

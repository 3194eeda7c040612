-------------------------- MODULE MCTradingEngine --------------------------
(***************************************************************************)
(* TLC instances of the trading engine.                                    *)
(***************************************************************************)
EXTENDS TradingEngine, TLC

CONSTANTS s1

\* "aapl" and "AAPL" are one symbol; " " is none.
MCUpper == [x \in RawSymbols |-> IF x = " " THEN NoSymbol ELSE s1]

Symmetry == Permutations(Requests)
=============================================================================

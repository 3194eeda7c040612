---------------------------- MODULE TradingReads ----------------------------
(***************************************************************************)
(* The trading engine's read endpoints, over the state TradingEngine       *)
(* keeps: the trade log and the portfolio, the two inputs of every report  *)
(* ai-insights builds.                                                     *)
(***************************************************************************)
EXTENDS TradingEngine, Ordered, SequencesExt

CONSTANTS DefaultTradeLimit, MaxTradeLimit

ASSUME LimitAssumption ==
  DefaultTradeLimit \in 1..MaxTradeLimit /\ MaxTradeLimit \in Nat

\* executed_at is DEFAULT now(): the start of the transaction, not its commit.
ExecutedAt(t) == startedAt[t.order]

\* A limit that is absent, unparseable or not positive means the default.
normalizeTradeLimit(limit) ==
  IF limit <= 0 THEN DefaultTradeLimit
  ELSE IF limit > MaxTradeLimit THEN MaxTradeLimit ELSE limit

\* The rows of an account's trades in the order of executed_at: now() is another
\* instant in every transaction.
Log(a) ==
  LET mine == {i \in DOMAIN trades : trades[i].account = a}
      times == Ascending({ExecutedAt(trades[i]) : i \in mine})
  IN [k \in DOMAIN times |-> trades[CHOOSE i \in mine : ExecutedAt(trades[i]) = times[k]]]

\* Mutant: the newest row is cut off.
ListTradesSkipsNewest(a, n) == SubSeq(Log(a), 1, IF n < Len(Log(a)) - 1 THEN n ELSE Len(Log(a)) - 1)

\* SELECT ... FROM trades ORDER BY executed_at ASC LIMIT n.
ListTrades(a, n) == SubSeq(Log(a), 1, IF n < Len(Log(a)) THEN n ELSE Len(Log(a)))

\* GET /trading/trades?limit=...
Trades(a, limit) == ListTrades(a, normalizeTradeLimit(limit))

\* SELECT ... FROM positions WHERE quantity > 0.
ListHoldings(a) ==
  [s \in {x \in Symbols : positions[a][x].qty > 0} |-> positions[a][s].qty]
=============================================================================

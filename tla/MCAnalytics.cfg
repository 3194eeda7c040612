\* Five days, so that histories outgrow the three bars they are fetched with; lots down
\* to the tolerance.
SPECIFICATION ReportSpec
CONSTANTS
  Symbols = {"AAPL", "SPY"}
  BenchmarkSymbols = {"SPY"}
  OpeningCash = 38
  ToleratedQuantity = 1
  Closes <- MCCloses
  Quotes <- MCQuotes
  Lots = {1, 2}
  NameOrder <- MCNameOrder
  barLimit = 3
  MaxDay = 5
  MaxTrades = 2
  OvertradingTurnoverRatio = 1
  OvertradingWindowDays = 2
  PanicSellDropPct = 5
  PanicSellMinOccurrences = 2
  PanicSellMinSharePct = 30
  MinTradingDays = 2
CONSTRAINT Explored
INVARIANTS CurveIsReplay RiskDescribesAsOf RefusalIsExplained
INVARIANTS SameDayOrderIrrelevant EvidenceIsJudgeable
CHECK_DEADLOCK FALSE

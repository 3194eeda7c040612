\* Every path of one symbol's closes over seven days, beside a few of another's.
SPECIFICATION Spec
CONSTANTS
  maxWarmupBars = 7
  IntMax = 31
  Scale = 419904
  maxSymbols = 3
  historyLimit = 7
  QuantityTick = 5
  MoneyTick = 10
  Upper <- MCUpper
  Requests <- MCRequests
  Markets <- MCMarkets
INVARIANTS NoLookahead ReturnExplained TimelineIsCommon WarmupFits
INVARIANTS SameFailureReported SavedWhole
CHECK_DEADLOCK FALSE

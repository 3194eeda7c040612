\* A tick is three instants apart and a call may take as long as that.  One symbol has
\* live prices: nothing a poll or a read does with one depends on another.
SPECIFICATION Spec
CONSTANTS
  aapl = aapl
  spy = spy
  bad = bad
  NoSymbol = NoSymbol
  Symbols = {aapl}
  PollInterval = 3
  RequestTimeout = 3
  RawLists <- MCRawLists
  Upper <- MCUpper
  Days <- MCDays
  PageSize = 2
  Tickers = {aapl, spy}
  MaxTime = 15
CONSTRAINT OneAtATime
INVARIANTS OneMissedTickTolerated StaleQuoteEnds AnswerIsHonest
CHECK_DEADLOCK FALSE
PROPERTY RangesAreWhole

\* Two orders and two report requests on one account; a holding is above the
\* tolerance of one tick.
SPECIFICATION InsightsFairSpec
CONSTANTS
  Accounts = {a1}
  s1 = s1
  Symbols = {s1}
  Requests = {r1, r2}
  Readers = {b1, b2}
  Prices = {1}
  MaxQuantity = 2
  StartingBalance = 4
  PriceScale = 1
  QtyScale = 1
  RawSymbols = {"AAPL"}
  Upper <- MCUpper
  NoSymbol = NoSymbol
  RawSides = {"buy", "sell"}
  RawQuantities = {2}
  SnapScale = 1
  NoRequest = NoRequest
  DefaultTradeLimit = 1
  MaxTradeLimit = 2
  CashTolerance = 0
  QuantityTolerance = 1
INVARIANTS QuietFillIsSeen RefusedOnlyIfTorn
PROPERTIES FillEventuallyVisible EveryOrderEnds
CHECK_DEADLOCK FALSE

\* A report request that overlaps a fill, and the next one.
SPECIFICATION InsightsSpec
CONSTANTS
  Accounts = {a1}
  s1 = s1
  Symbols = {s1}
  Requests = {r1}
  Readers = {b1, b2}
  Prices = {1}
  MaxQuantity = 2
  StartingBalance = 4
  PriceScale = 1
  QtyScale = 1
  RawSymbols = {"AAPL"}
  Upper <- MCUpper
  NoSymbol = NoSymbol
  RawSides = {"buy"}
  RawQuantities = {2}
  SnapScale = 1
  NoRequest = NoRequest
  DefaultTradeLimit = 1
  MaxTradeLimit = 2
  CashTolerance = 0
  QuantityTolerance = 1
INVARIANT FillIsReflected
CHECK_DEADLOCK FALSE

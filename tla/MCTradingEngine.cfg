\* Three orders contending for one account that can afford only some of them.
SPECIFICATION Spec
CONSTANTS
  Accounts = {a1}
  s1 = s1
  Symbols = {s1}
  Requests = {r1, r2, r3}
  Prices = {3, 5}
  MaxQuantity = 2
  StartingBalance = 2
  PriceScale = 2
  QtyScale = 2
  RawSymbols = {"AAPL", "aapl", " "}
  Upper <- MCUpper
  NoSymbol = NoSymbol
  RawSides = {"buy", "sell", "hold"}
  RawQuantities = {0, 2, 3, 4, 5}
  SnapScale = 2
  NoRequest = NoRequest
SYMMETRY Symmetry
INVARIANTS TypeOK SpentOnce AnswersMatchLedger LockProtectsReads
PROPERTY Serializable
CHECK_DEADLOCK FALSE

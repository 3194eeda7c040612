\* Four orders on one account and one symbol, with prices that are not whole
\* ticks and products that are not whole cash ticks.
SPECIFICATION TotalsSpec
CONSTANTS
  Accounts = {a1}
  Symbols = {s1}
  Requests = {r1, r2, r3, r4}
  Prices = {3, 5, 8}
  MaxQuantity = 3
  StartingBalance = 5
  PriceScale = 2
  QtyScale = 2
SYMMETRY Symmetry
INVARIANTS CashConserved LogExplainsCash BasisWithinFills RealizedExplainsCash
CHECK_DEADLOCK FALSE

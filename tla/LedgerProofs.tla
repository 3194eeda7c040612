---------------------------- MODULE LedgerProofs ----------------------------
(***************************************************************************)
(* Proofs about the ledger's columns for any accounts, symbols, prices,    *)
(* quantities and scales, and for logs of any length: cash drifts from the *)
(* fills by rounding only, a stored basis stays within the prices paid,    *)
(* and realized P/L explains every change of cash.                         *)
(***************************************************************************)
EXTENDS LedgerTotals, TLAPS

-----------------------------------------------------------------------------
(* Rounding *)

\* A product of the two scales is a positive divisor.
LEMMA CashScaleType == CashScale \in Nat \ {0}
  BY ScaleAssumption DEF CashScale

\* A rounded quotient is an integer, and times its divisor it misses the dividend
\* by at most half of the divisor.
LEMMA RoundNear ==
  ASSUME NEW x \in Int, NEW d \in Nat \ {0}
  PROVE  /\ RoundNat(x, d) \in Int
         /\ 2 * (d * RoundNat(x, d)) - 2 * x <= d
         /\ 2 * x - 2 * (d * RoundNat(x, d)) <= d
<1> DEFINE n == 2 * x + d
           m == n \div (2 * d)
<1>1. m \in Int /\ n = (2 * d) * m + (n % (2 * d)) /\ n % (2 * d) \in 0..(2 * d - 1)
  OBVIOUS
<1>2. RoundNat(x, d) = m
  BY DEF RoundNat
<1>. HIDE DEF m
<1>3. (2 * d) * m = 2 * (d * m) /\ d * m \in Int
  BY <1>1
<1>. QED
  BY <1>1, <1>2, <1>3

\* The same of a value of either sign.
LEMMA RoundSignedNear ==
  ASSUME NEW x \in Int, NEW d \in Nat \ {0}
  PROVE  /\ Round(x, d) \in Int
         /\ 2 * (d * Round(x, d)) - 2 * x <= d
         /\ 2 * x - 2 * (d * Round(x, d)) <= d
<1>1. CASE x >= 0
  BY <1>1, RoundNear DEF Round
<1>2. CASE ~(x >= 0)
  <2> DEFINE m == RoundNat(-x, d)
  <2>1. -x \in Int
    OBVIOUS
  <2>2. /\ m \in Int /\ 2 * (d * m) - 2 * (-x) <= d /\ 2 * (-x) - 2 * (d * m) <= d
    BY <2>1, RoundNear
  <2>3. Round(x, d) = -m
    BY <1>2 DEF Round
  <2>. HIDE DEF m
  <2>4. d * (-m) = -(d * m)
    BY <2>2
  <2>. QED BY <2>2, <2>3, <2>4
<1>. QED
  BY <1>1, <1>2

\* When a rounded quotient is at least, and at most, an integer.
LEMMA RoundBounds ==
  ASSUME NEW x \in Int, NEW d \in Nat \ {0}, NEW k \in Int
  PROVE  /\ RoundNat(x, d) >= k <=> 2 * x + d >= 2 * (d * k)
         /\ RoundNat(x, d) <= k <=> 2 * x + d < 2 * (d * k) + 2 * d
<1> DEFINE n == 2 * x + d
           m == n \div (2 * d)
           e == n % (2 * d)
<1>1. m \in Int /\ n = 2 * (d * m) + e /\ e \in 0..(2 * d - 1)
  OBVIOUS
<1>2. RoundNat(x, d) = m
  BY DEF RoundNat
<1>3. d * m \in Int /\ d * k \in Int
  BY <1>1
<1>4. ASSUME m >= k PROVE d * m >= d * k
  BY <1>1, <1>4
<1>5. ASSUME m < k PROVE d * m + d <= d * k
  <2>1. m + 1 <= k
    BY <1>1, <1>5
  <2>2. d * (m + 1) <= d * k
    BY <1>1, <2>1
  <2>. QED BY <1>1, <2>2
<1>6. ASSUME m > k PROVE d * m >= d * k + d
  <2>1. m >= k + 1
    BY <1>1, <1>6
  <2>2. d * m >= d * (k + 1)
    BY <1>1, <2>1
  <2>. QED BY <1>1, <2>2
<1>7. ASSUME m <= k PROVE d * m <= d * k
  BY <1>1, <1>7
<1>. HIDE DEF m, e
<1>. QED
  BY <1>1, <1>2, <1>3, <1>4, <1>5, <1>6, <1>7

\* What a buy leaves between the cash column and the exact cost, and a sell.
LEMMA CashNear ==
  ASSUME NEW b \in Int, NEW q \in Nat, NEW p \in Nat
  PROVE  /\ BalanceAfterBuy(b, q, p) \in Int /\ BalanceAfterSell(b, q, p) \in Int
         /\ 2 * (CashScale * BalanceAfterBuy(b, q, p)) - 2 * (b * CashScale - p * q) <= CashScale
         /\ 2 * (b * CashScale - p * q) - 2 * (CashScale * BalanceAfterBuy(b, q, p)) <= CashScale
         /\ 2 * (CashScale * BalanceAfterSell(b, q, p)) - 2 * (b * CashScale + p * q) <= CashScale
         /\ 2 * (b * CashScale + p * q) - 2 * (CashScale * BalanceAfterSell(b, q, p)) <= CashScale
<1>1. b * CashScale - p * q \in Int /\ b * CashScale + p * q \in Int
  BY CashScaleType
<1>. QED
  BY <1>1, CashScaleType, RoundNear DEF BalanceAfterBuy, BalanceAfterSell

\* ... what a sell leaves between the realized_pl column and the exact gain ...
LEMMA RealizedNear ==
  ASSUME NEW v \in Int, NEW p \in Nat, NEW q \in Nat
  PROVE  /\ RealizedPL(v, p, q) \in Int
         /\ 2 * (CashScale * RealizedPL(v, p, q)) - 2 * ((p - v * PriceScale) * q) <= CashScale
         /\ 2 * ((p - v * PriceScale) * q) - 2 * (CashScale * RealizedPL(v, p, q)) <= CashScale
<1>1. (p - v * PriceScale) * q \in Int
  BY ScaleAssumption
<1>. QED
  BY <1>1, CashScaleType, RoundSignedNear DEF RealizedPL

\* ... and what a buy leaves between a position at its new basis and its cost.
LEMMA AvgCostNear ==
  ASSUME NEW o \in Nat, NEW v \in Int, NEW q \in Nat \ {0}, NEW p \in Nat
  PROVE  LET w == WeightedAvgCost(o, v, q, p)
             d == (o + q) * PriceScale
             x == v * PriceScale * o + p * q
         IN w \in Int /\ 2 * (d * w) - 2 * x <= d /\ 2 * x - 2 * (d * w) <= d
<1>1. (o + q) * PriceScale \in Nat \ {0} /\ v * PriceScale * o + p * q \in Int /\ o + q # 0
  BY ScaleAssumption
<1>. QED
  BY <1>1, RoundNear DEF WeightedAvgCost

\* A new basis is at least what the old one and the stored price both are, and at
\* most what they both are.  Nothing held, the old basis does not count.
LEMMA BasisBetween ==
  ASSUME NEW o \in Nat, NEW v \in Int, NEW q \in Nat \ {0}, NEW p \in Nat, NEW k \in Int
  PROVE  /\ (o = 0 \/ k <= v) /\ k <= StoredPrice(p) => k <= WeightedAvgCost(o, v, q, p)
         /\ (o = 0 \/ k >= v) /\ k >= StoredPrice(p) => k >= WeightedAvgCost(o, v, q, p)
<1> DEFINE c == PriceScale
           x == v * c * o + p * q
           d == (o + q) * c
<1>1. c \in Nat \ {0} /\ d \in Nat \ {0} /\ x \in Int /\ o + q # 0
  BY ScaleAssumption
<1>2. /\ WeightedAvgCost(o, v, q, p) = RoundNat(x, d) /\ RoundNat(x, d) \in Int
      /\ StoredPrice(p) = RoundNat(p, c) /\ RoundNat(p, c) \in Int
  BY <1>1, RoundNear DEF WeightedAvgCost, StoredPrice
<1>. HIDE DEF c
<1>3. /\ RoundNat(x, d) >= k <=> 2 * x + d >= 2 * (d * k)
      /\ RoundNat(x, d) <= k <=> 2 * x + d < 2 * (d * k) + 2 * d
  <2>. HIDE DEF x, d
  <2>. QED BY <1>1, RoundBounds
<1>4. /\ RoundNat(p, c) >= k <=> 2 * p + c >= 2 * (c * k)
      /\ RoundNat(p, c) <= k <=> 2 * p + c < 2 * (c * k) + 2 * c
  BY <1>1, RoundBounds
<1> DEFINE oc == o * c
           ock == oc * k
           ocv == oc * v
           qc == q * c
           qck == qc * k
           pq == p * q
<1>5. /\ oc \in Nat /\ ock \in Int /\ ocv \in Int /\ qc \in Nat \ {0} /\ qck \in Int /\ pq \in Nat
      /\ x = ocv + pq /\ d = oc + qc
  BY <1>1
<1>6. d * k = ock + qck
  BY <1>1
<1>7. ASSUME o = 0 \/ k <= v, k <= StoredPrice(p) PROVE k <= WeightedAvgCost(o, v, q, p)
  <2>1. ock <= ocv
    <3>1. CASE o = 0
      BY <1>1, <3>1
    <3>2. CASE k <= v
      <4>. HIDE DEF oc
      <4>. QED BY <1>5, <3>2
    <3>. QED BY <1>7, <3>1, <3>2
  <2>2. 2 * pq + qc >= 2 * qck
    <3>1. 2 * p + c >= 2 * (c * k)
      BY <1>2, <1>4, <1>7
    <3>2. q * (2 * p + c) >= q * (2 * (c * k))
      <4>1. 2 * p + c \in Int /\ 2 * (c * k) \in Int
        BY <1>1
      <4>. QED BY <3>1, <4>1
    <3>3. q * (2 * p + c) = 2 * pq + qc /\ q * (2 * (c * k)) = 2 * qck
      BY <1>1
    <3>. QED BY <3>2, <3>3
  <2>. HIDE DEF oc, ock, ocv, qc, qck, pq, x, d
  <2>3. 2 * x + d >= 2 * (d * k)
    BY <1>5, <1>6, <2>1, <2>2
  <2>. QED BY <1>2, <1>3, <2>3
<1>8. ASSUME o = 0 \/ k >= v, k >= StoredPrice(p) PROVE k >= WeightedAvgCost(o, v, q, p)
  <2>1. ock >= ocv
    <3>1. CASE o = 0
      BY <1>1, <3>1
    <3>2. CASE k >= v
      <4>. HIDE DEF oc
      <4>. QED BY <1>5, <3>2
    <3>. QED BY <1>8, <3>1, <3>2
  <2>2. 2 * pq + qc < 2 * qck + 2 * qc
    <3>1. 2 * p + c < 2 * (c * k) + 2 * c
      BY <1>2, <1>4, <1>8
    <3>2. q * (2 * p + c) < q * (2 * (c * k) + 2 * c)
      <4>1. 2 * p + c \in Int /\ 2 * (c * k) + 2 * c \in Int
        BY <1>1
      <4>. QED BY <3>1, <4>1
    <3>3. q * (2 * p + c) = 2 * pq + qc /\ q * (2 * (c * k) + 2 * c) = 2 * qck + 2 * qc
      BY <1>1
    <3>. QED BY <3>2, <3>3
  <2>. HIDE DEF oc, ock, ocv, qc, qck, pq, x, d
  <2>3. 2 * x + d < 2 * (d * k) + 2 * d
    BY <1>5, <1>6, <2>1, <2>2
  <2>. QED BY <1>2, <1>3, <2>3
<1>. QED
  BY <1>7, <1>8

-----------------------------------------------------------------------------
(* The inductive invariant *)

\* The types of what a fill reads.
LEMMA FillTypes ==
  ASSUME LedgerType, NEW a \in Accounts, NEW s \in Symbols, NEW q \in Quantities, NEW p \in Prices
  PROVE  /\ q \in Nat \ {0} /\ p \in Nat /\ StoredPrice(p) \in Int
         /\ balance[a] \in Int
         /\ positions[a][s].qty \in Nat /\ positions[a][s].avg \in Int
         /\ fills[a] \in Nat /\ spent[a] \in Int /\ logged[a] \in Int /\ booked[a] \in Int /\ traded[a] \in Nat
         /\ cost[a] \in Int /\ shares[a][s] \in Int /\ paid[a][s] \subseteq Int
<1>1. q \in Nat \ {0} /\ p \in Nat
  BY LedgerAssumption DEF Quantities
<1>2. StoredPrice(p) \in Int
  BY <1>1, ScaleAssumption, RoundNear DEF StoredPrice
<1>. QED
  BY <1>1, <1>2 DEF LedgerType

\* A fill moves one position to a new quantity and basis and one balance to a new
\* one, appends its trade, and counts it.
Filled(id, a, s, side, q, p, cash, held, realized) ==
  LET t == TradeRow(id, a, s, side, q, p, realized, cash)
  IN /\ balance' = [balance EXCEPT ![a] = cash]
     /\ positions' = [positions EXCEPT ![a][s] = held]
     /\ trades' = Append(trades, t)
     /\ Tally(t)

\* The state after a fill that costs paidOut, with profit booked: the totals of the
\* account and the position that trade, and that the others stay.
Counted(a, s, side, q, p, cash, held, paidOut, profit) ==
  /\ balance'[a] = cash /\ positions'[a][s] = held
  /\ fills'[a] = fills[a] + 1
  /\ spent'[a] = spent[a] + paidOut
  /\ logged'[a] = logged[a] + (IF side = "buy" THEN StoredPrice(p) * PriceScale * q
                               ELSE -(StoredPrice(p) * PriceScale * q))
  /\ booked'[a] = booked[a] + profit
  /\ traded'[a] = traded[a] + q
  /\ cost'[a] = cost[a] + AtBasis(held) - AtBasis(positions[a][s])
  /\ shares'[a][s] = shares[a][s] + (IF side = "buy" THEN q ELSE -q)
  /\ paid'[a][s] = IF shares'[a][s] = 0 THEN {}
                   ELSE IF side = "buy" THEN paid[a][s] \cup {StoredPrice(p)}
                   ELSE paid[a][s]
  /\ \A c \in Accounts : c # a =>
       /\ balance'[c] = balance[c] /\ positions'[c] = positions[c]
       /\ fills'[c] = fills[c] /\ spent'[c] = spent[c] /\ logged'[c] = logged[c]
       /\ booked'[c] = booked[c] /\ traded'[c] = traded[c] /\ cost'[c] = cost[c]
       /\ shares'[c] = shares[c] /\ paid'[c] = paid[c]
  /\ \A c \in Accounts, r \in Symbols : c # a \/ r # s =>
       /\ positions'[c][r] = positions[c][r]
       /\ shares'[c][r] = shares[c][r] /\ paid'[c][r] = paid[c][r]

\* A fill keeps the types, and counts itself.
LEMMA FilledTotals ==
  ASSUME LedgerType, NEW id \in Requests, NEW a \in Accounts, NEW s \in Symbols,
         NEW side \in Sides, NEW q \in Quantities, NEW p \in Prices,
         NEW cash \in Int, NEW held \in [qty : Nat, avg : Int], NEW realized \in Seq(Int),
         side = "buy" \/ (Len(realized) = 1 /\ realized[1] \in Int),
         Filled(id, a, s, side, q, p, cash, held, realized)
  PROVE  /\ LedgerType'
         /\ Counted(a, s, side, q, p, cash, held,
                    IF side = "buy" THEN p * q ELSE -(p * q),
                    IF side = "buy" THEN 0 ELSE realized[1])
<1> DEFINE t == TradeRow(id, a, s, side, q, p, realized, cash)
           sign(x) == IF side = "buy" THEN x ELSE -x
<1>1. /\ t.account = a /\ t.symbol = s /\ t.side = side /\ t.quantity = q /\ t.fill = p
      /\ t.price = StoredPrice(p) /\ t.realized = realized
  BY DEF TradeRow
<1>2. /\ q \in Nat \ {0} /\ p \in Nat /\ StoredPrice(p) \in Int /\ p * q \in Int
      /\ positions[a][s] \in [qty : Nat, avg : Int] /\ shares[a][s] \in Int
      /\ paid[a][s] \subseteq Int
  <2>1. q \in Nat \ {0} /\ p \in Nat
    BY FillTypes
  <2>2. p * q \in Int
    BY <2>1
  <2>3. /\ positions[a][s] \in [qty : Nat, avg : Int] /\ shares[a][s] \in Int
        /\ paid[a][s] \subseteq Int
    BY DEF LedgerType
  <2>. QED BY <2>1, <2>2, <2>3, FillTypes
<1>3. t \in TradeRows
  BY <1>2 DEF TradeRow, TradeRows, LedgerType
<1>4. /\ balance' = [balance EXCEPT ![a] = cash]
      /\ positions' = [positions EXCEPT ![a][s] = held]
      /\ trades' = Append(trades, t)
      /\ fills' = [fills EXCEPT ![a] = @ + 1]
      /\ spent' = [spent EXCEPT ![a] = @ + sign(p * q)]
      /\ logged' = [logged EXCEPT ![a] = @ + sign(StoredPrice(p) * PriceScale * q)]
      /\ booked' = [booked EXCEPT ![a] = @ + (IF side = "buy" THEN 0 ELSE realized[1])]
      /\ traded' = [traded EXCEPT ![a] = @ + q]
      /\ cost' = [cost EXCEPT ![a] = @ + AtBasis(positions'[a][s]) - AtBasis(positions[a][s])]
      /\ shares' = [shares EXCEPT ![a][s] = @ + sign(q)]
      /\ paid' = [paid EXCEPT ![a][s] = IF shares'[a][s] = 0 THEN {}
                                        ELSE IF side = "buy" THEN @ \cup {StoredPrice(p)}
                                        ELSE @]
  BY <1>1 DEF Filled, Tally, Signed
<1>. HIDE DEF t
<1>5. trades' \in Seq(TradeRows)
  BY <1>3, <1>4 DEF LedgerType
<1>6. /\ balance' \in [Accounts -> Int] /\ balance'[a] = cash
      /\ positions' \in [Accounts -> [Symbols -> [qty : Nat, avg : Int]]]
      /\ positions'[a][s] = held
  BY <1>4 DEF LedgerType
<1>7. /\ AtBasis(held) \in Int /\ AtBasis(positions[a][s]) \in Int
  BY <1>2, ScaleAssumption, SMTT(30) DEF AtBasis
<1>12. /\ logged' \in [Accounts -> Int]
       /\ logged'[a] = logged[a] + sign(StoredPrice(p) * PriceScale * q)
  <2> DEFINE x == sign(StoredPrice(p) * PriceScale * q)
  <2>1. StoredPrice(p) * PriceScale * q \in Int
    BY <1>2, ScaleAssumption
  <2>2. x \in Int /\ logged' = [logged EXCEPT ![a] = @ + x]
    BY <1>4, <2>1
  <2>. HIDE DEF x
  <2>3. logged' \in [Accounts -> Int] /\ logged'[a] = logged[a] + x
    BY <2>2, SMTT(30) DEF LedgerType
  <2>. QED BY <2>3 DEF x
<1>8. /\ fills' \in [Accounts -> Nat] /\ spent' \in [Accounts -> Int]
      /\ booked' \in [Accounts -> Int] /\ traded' \in [Accounts -> Nat]
      /\ cost' \in [Accounts -> Int]
      /\ fills'[a] = fills[a] + 1
      /\ spent'[a] = spent[a] + sign(p * q)
      /\ booked'[a] = booked[a] + (IF side = "buy" THEN 0 ELSE realized[1])
      /\ traded'[a] = traded[a] + q
      /\ cost'[a] = cost[a] + AtBasis(held) - AtBasis(positions[a][s])
  <2>1. spent' \in [Accounts -> Int] /\ spent'[a] = spent[a] + sign(p * q)
    <3> DEFINE x == sign(p * q)
    <3>1. x \in Int /\ spent' = [spent EXCEPT ![a] = @ + x]
      BY <1>2, <1>4
    <3>. HIDE DEF x
    <3>2. spent' \in [Accounts -> Int] /\ spent'[a] = spent[a] + x
      BY <3>1, SMTT(30) DEF LedgerType
    <3>. QED BY <3>2 DEF x
  <2>2. /\ booked' \in [Accounts -> Int]
        /\ booked'[a] = booked[a] + (IF side = "buy" THEN 0 ELSE realized[1])
    <3> DEFINE x == IF side = "buy" THEN 0 ELSE realized[1]
    <3>1. x \in Int /\ booked' = [booked EXCEPT ![a] = @ + x]
      BY <1>4
    <3>. HIDE DEF x
    <3>2. booked' \in [Accounts -> Int] /\ booked'[a] = booked[a] + x
      BY <3>1, SMTT(30) DEF LedgerType
    <3>. QED BY <3>2 DEF x
  <2>3. /\ cost' \in [Accounts -> Int]
        /\ cost'[a] = cost[a] + AtBasis(held) - AtBasis(positions[a][s])
    <3> DEFINE x == AtBasis(held)
               y == AtBasis(positions[a][s])
    <3>1. x \in Int /\ y \in Int /\ cost' = [cost EXCEPT ![a] = @ + x - y]
      BY <1>4, <1>6, <1>7
    <3>. HIDE DEF x, y
    <3>2. cost' \in [Accounts -> Int] /\ cost'[a] = cost[a] + x - y
      BY <3>1, SMTT(30) DEF LedgerType
    <3>. QED BY <3>2 DEF x, y
  <2>4. /\ fills' \in [Accounts -> Nat] /\ traded' \in [Accounts -> Nat]
        /\ fills'[a] = fills[a] + 1 /\ traded'[a] = traded[a] + q
    <3>1. q \in Nat
      BY <1>2
    <3>2. /\ fills' = [fills EXCEPT ![a] = @ + 1] /\ fills \in [Accounts -> Nat]
          /\ traded' = [traded EXCEPT ![a] = @ + q] /\ traded \in [Accounts -> Nat]
      BY <1>4 DEF LedgerType
    <3>3. fills' \in [Accounts -> Nat] /\ fills'[a] = fills[a] + 1
      BY <3>2
    <3>4. traded' \in [Accounts -> Nat] /\ traded'[a] = traded[a] + q
      BY <3>1, <3>2
    <3>. QED BY <3>3, <3>4
  <2>. QED BY <2>1, <2>2, <2>3, <2>4
<1>9. /\ shares' \in [Accounts -> [Symbols -> Int]]
      /\ shares'[a][s] = shares[a][s] + sign(q)
      /\ paid' \in [Accounts -> [Symbols -> SUBSET Int]]
      /\ paid'[a][s] = IF shares'[a][s] = 0 THEN {}
                       ELSE IF side = "buy" THEN paid[a][s] \cup {StoredPrice(p)}
                       ELSE paid[a][s]
  <2>1. sign(q) \in Int
    BY <1>2
  <2>2. shares' \in [Accounts -> [Symbols -> Int]] /\ shares'[a][s] = shares[a][s] + sign(q)
    <3> DEFINE x == sign(q)
    <3>1. x \in Int /\ shares' = [shares EXCEPT ![a][s] = @ + x]
      BY <1>4, <2>1
    <3>. HIDE DEF x
    <3>2. shares' \in [Accounts -> [Symbols -> Int]] /\ shares'[a][s] = shares[a][s] + x
      BY <3>1, SMTT(30) DEF LedgerType
    <3>. QED BY <3>2 DEF x
  <2> DEFINE new == IF shares'[a][s] = 0 THEN {}
                    ELSE IF side = "buy" THEN paid[a][s] \cup {StoredPrice(p)} ELSE paid[a][s]
  <2>3. new \in SUBSET Int /\ paid' = [paid EXCEPT ![a][s] = new]
    BY <1>2, <1>4
  <2>. HIDE DEF new
  <2>4. paid' \in [Accounts -> [Symbols -> SUBSET Int]] /\ paid'[a][s] = new
    BY <2>3 DEF LedgerType
  <2>. QED BY <2>2, <2>4 DEF new
<1>10. \A c \in Accounts : c # a =>
         /\ balance'[c] = balance[c] /\ positions'[c] = positions[c]
         /\ fills'[c] = fills[c] /\ spent'[c] = spent[c] /\ logged'[c] = logged[c]
         /\ booked'[c] = booked[c] /\ traded'[c] = traded[c] /\ cost'[c] = cost[c]
         /\ shares'[c] = shares[c] /\ paid'[c] = paid[c]
  BY <1>4 DEF LedgerType
<1>11. \A c \in Accounts, r \in Symbols : c # a \/ r # s =>
         /\ positions'[c][r] = positions[c][r]
         /\ shares'[c][r] = shares[c][r] /\ paid'[c][r] = paid[c][r]
  BY <1>4 DEF LedgerType
<1>. QED
  BY <1>5, <1>6, <1>8, <1>9, <1>10, <1>11, <1>12 DEF LedgerType, Counted

\* What a fill puts on record is near what it cost.
LEMMA PricesKept ==
  ASSUME LedgerType, LedgerType', PricesNear, NEW a \in Accounts, NEW s \in Symbols,
         NEW side \in Sides, NEW q \in Quantities, NEW p \in Prices,
         NEW cash, NEW held, NEW profit, NEW paidOut,
         paidOut = IF side = "buy" THEN p * q ELSE -(p * q),
         Counted(a, s, side, q, p, cash, held, paidOut, profit)
  PROVE  PricesNear'
<1> DEFINE m == StoredPrice(p)
           x == PriceScale * m
           y == p * q
           z == m * PriceScale * q
           k == PriceScale * traded[a]
           l == PriceScale * q
<1>1. /\ q \in Nat \ {0} /\ p \in Nat /\ m \in Int
      /\ logged[a] \in Int /\ spent[a] \in Int /\ traded[a] \in Nat
  BY FillTypes
<1>2. x \in Int /\ 2 * x - 2 * p <= PriceScale /\ 2 * p - 2 * x <= PriceScale
  BY <1>1, ScaleAssumption, RoundNear DEF StoredPrice
<1>3. PriceScale \in Nat
  BY ScaleAssumption
<1>. HIDE DEF m
<1>4. z = x * q /\ y \in Int /\ z \in Int /\ k \in Int /\ l \in Int
  BY <1>1, <1>3
<1>5. 2 * z - 2 * y <= l /\ 2 * y - 2 * z <= l
  <2>. HIDE DEF x
  <2>1. (2 * x - 2 * p) * q <= PriceScale * q /\ (2 * p - 2 * x) * q <= PriceScale * q
    <3>1. 2 * x - 2 * p \in Int /\ 2 * p - 2 * x \in Int
      BY <1>1, <1>2
    <3> DEFINE d == 2 * x - 2 * p
               e == 2 * p - 2 * x
    <3>2. d \in Int /\ e \in Int /\ d <= PriceScale /\ e <= PriceScale
      BY <1>2, <3>1
    <3>. HIDE DEF d, e
    <3>3. d * q <= PriceScale * q /\ e * q <= PriceScale * q
      BY <1>1, <1>3, <3>2
    <3>. QED BY <3>3 DEF d, e
  <2>2. (2 * x - 2 * p) * q = 2 * (x * q) - 2 * y /\ (2 * p - 2 * x) * q = 2 * y - 2 * (x * q)
    BY <1>1, <1>2
  <2>. QED BY <1>4, <2>1, <2>2
<1>6. /\ spent'[a] = spent[a] + (IF side = "buy" THEN y ELSE -y)
      /\ logged'[a] = logged[a] + (IF side = "buy" THEN z ELSE -z)
      /\ PriceScale * traded'[a] = k + l
  <2>1. traded'[a] = traded[a] + q
    BY DEF Counted
  <2>2. PriceScale * (traded[a] + q) = k + l
    BY <1>1, <1>3
  <2>. QED BY <2>1, <2>2 DEF Counted, m
<1>7. 2 * Abs(logged[a] - spent[a]) <= k
  BY DEF PricesNear
<1>8. 2 * Abs(logged'[a] - spent'[a]) <= k + l
  <2>. HIDE DEF x, y, z, k, l
  <2>. QED BY <1>1, <1>4, <1>5, <1>6, <1>7 DEF Abs
<1>9. \A c \in Accounts : c # a =>
        logged'[c] = logged[c] /\ spent'[c] = spent[c] /\ traded'[c] = traded[c]
  BY DEF Counted
<1>. HIDE DEF k, l
<1>. QED BY <1>6, <1>8, <1>9 DEF PricesNear

\* A step is a fill of a buy, a fill of a sell, or leaves money and totals alone.
FilledBuy(id, a, s, q, p) ==
  LET old == positions[a][s]
  IN Filled(id, a, s, "buy", q, p, BalanceAfterBuy(balance[a], q, p),
            [qty |-> old.qty + q, avg |-> WeightedAvgCost(old.qty, old.avg, q, p)], <<>>)

FilledSell(id, a, s, q, p) ==
  LET old == positions[a][s]
  IN /\ q <= old.qty
     /\ Filled(id, a, s, "sell", q, p, BalanceAfterSell(balance[a], q, p),
               [qty |-> old.qty - q, avg |-> old.avg], <<RealizedPL(old.avg, p, q)>>)

\* Every step with its totals is one of those three.
LEMMA StepCases ==
  ASSUME LedgerType, TotalsNext
  PROVE  \/ \E id \in Requests, a \in Accounts, s \in Symbols, q \in Quantities, p \in Prices :
              FilledBuy(id, a, s, q, p) \/ FilledSell(id, a, s, q, p)
         \/ UNCHANGED <<balance, positions, trades, totalVars>>
<1>1. ASSUME NEW t, trades' = Append(trades, t)
      PROVE  Tally(t)
  <2>1. trades \in Seq(TradeRows)
    BY DEF LedgerType
  <2>2. Len(trades') = Len(trades) + 1 /\ trades'[Len(trades) + 1] = t
    BY <1>1, <2>1
  <2>3. trades' # trades
    BY <2>1, <2>2
  <2>. QED BY <2>2, <2>3 DEF TotalsNext
<1>2. PICK id \in Requests, a \in Accounts, s \in Symbols, q \in Quantities :
        \/ \E p \in Prices : Buy(id, a, s, q, p) \/ Sell(id, a, s, q, p)
        \/ \E side \in Sides, reason \in RejectionReasons : Decline(id, a, s, side, q, reason)
  BY DEF TotalsNext, Next
<1>3. ASSUME NEW p \in Prices, Buy(id, a, s, q, p)
      PROVE  FilledBuy(id, a, s, q, p)
  BY <1>1, <1>3 DEF Buy, FilledBuy, Filled
<1>4. ASSUME NEW p \in Prices, Sell(id, a, s, q, p)
      PROVE  FilledSell(id, a, s, q, p)
  BY <1>1, <1>4 DEF Sell, FilledSell, Filled
<1>5. ASSUME NEW side \in Sides, NEW reason \in RejectionReasons,
             Decline(id, a, s, side, q, reason)
      PROVE  UNCHANGED <<balance, positions, trades, totalVars>>
  BY <1>5 DEF Decline, TotalsNext
<1>. QED
  BY <1>2, <1>3, <1>4, <1>5

\* A bound on twice an absolute value, from both sides.
LEMMA AbsBound ==
  ASSUME NEW x \in Int, NEW n \in Int
  PROVE  2 * Abs(x) <= n <=> 2 * x <= n /\ -(2 * x) <= n
  BY DEF Abs

\* What keeps the three totals, step by step, about plain integers: c and u are
\* CashScale and PriceScale, b the balance, v the basis of the o shares held, n the
\* trades so far and t the quantity they traded, m the exact value of the fill.
LEMMA CashStep ==
  ASSUME NEW c \in Int, NEW b \in Int, NEW cash \in Int, NEW start \in Int, NEW out \in Int,
         NEW m \in Int, NEW n \in Nat,
         2 * Abs((b - start) * c + out) <= n * c,
         2 * (c * cash) - 2 * (b * c - m) <= c,
         2 * (b * c - m) - 2 * (c * cash) <= c
  PROVE  2 * Abs((cash - start) * c + (out + m)) <= (n + 1) * c
<1> DEFINE x == b * c
           y == c * cash
           z == start * c
           k == n * c
<1>1. x \in Int /\ y \in Int /\ z \in Int /\ k \in Int
  OBVIOUS
<1>2. /\ (b - start) * c + out = x - z + out
      /\ (cash - start) * c + (out + m) = y - z + out + m
      /\ (n + 1) * c = k + c
  OBVIOUS
<1>3. 2 * Abs(x - z + out) <= k /\ 2 * y - 2 * (x - m) <= c /\ 2 * (x - m) - 2 * y <= c
  BY <1>2
<1>. HIDE DEF x, y, z, k
<1>4. 2 * (x - z + out) <= k /\ -(2 * (x - z + out)) <= k
  BY <1>1, <1>3, AbsBound
<1>5. 2 * (y - z + out + m) <= k + c /\ -(2 * (y - z + out + m)) <= k + c
  BY <1>1, <1>3, <1>4
<1>6. 2 * Abs(y - z + out + m) <= k + c
  BY <1>1, <1>5, AbsBound
<1>. QED
  BY <1>2, <1>6

\* ... and the explanation of the cash: gain is what cash and basis made, e and f
\* the roundings of this fill, of which f may be that of a basis of t shares.
LEMMA GainStep ==
  ASSUME NEW c \in Nat, NEW u \in Nat, NEW n \in Nat, NEW t \in Nat, NEW q \in Nat,
         NEW gap \in Int, NEW e \in Int, NEW f \in Int,
         2 * Abs(gap) <= n * (2 * c + u * t),
         2 * e <= c, -(2 * e) <= c,
         \/ 2 * f <= c /\ -(2 * f) <= c
         \/ 2 * f <= u * (t + q) /\ -(2 * f) <= u * (t + q)
  PROVE  2 * Abs(gap + e + f) <= (n + 1) * (2 * c + u * (t + q))
<1> DEFINE w == u * t
           z == u * q
           k == n * (2 * c + w)
           l == n * z
<1>1. w \in Nat /\ z \in Nat /\ k \in Int /\ l \in Nat
  <2>1. w \in Nat /\ z \in Nat
    OBVIOUS
  <2>. HIDE DEF w, z
  <2>. QED BY <2>1
<1>2. u * (t + q) = w + z
  OBVIOUS
<1>3. (n + 1) * (2 * c + (w + z)) = k + l + 2 * c + w + z
  <2>. HIDE DEF w, z
  <2>. QED BY <1>1
<1>4. 2 * Abs(gap) <= k
  OBVIOUS
<1>. HIDE DEF w, z, k, l
<1>5. 2 * gap <= k /\ -(2 * gap) <= k
  BY <1>1, <1>4, AbsBound
<1>6. \/ 2 * f <= c /\ -(2 * f) <= c
      \/ 2 * f <= w + z /\ -(2 * f) <= w + z
  BY <1>2
<1>7. /\ 2 * (gap + e + f) <= k + l + 2 * c + w + z
      /\ -(2 * (gap + e + f)) <= k + l + 2 * c + w + z
  BY <1>1, <1>5, <1>6
<1>8. 2 * Abs(gap + e + f) <= k + l + 2 * c + w + z
  BY <1>1, <1>7, AbsBound
<1>. QED
  BY <1>2, <1>3, <1>8

\* A buy keeps every part of the invariant ...
LEMMA BuyKeeps ==
  ASSUME LedgerInv,
         NEW id \in Requests, NEW a \in Accounts, NEW s \in Symbols,
         NEW q \in Quantities, NEW p \in Prices, FilledBuy(id, a, s, q, p)
  PROVE  LedgerInv'
<1> DEFINE b == balance[a]
           o == positions[a][s].qty
           v == positions[a][s].avg
           cash == BalanceAfterBuy(b, q, p)
           w == WeightedAvgCost(o, v, q, p)
           held == [qty |-> o + q, avg |-> w]
<1>1. LedgerType /\ SharesHeld /\ CashConserved /\ PricesNear /\ BasisWithinFills /\ RealizedExplainsCash
  BY DEF LedgerInv
<1>2. /\ q \in Nat \ {0} /\ p \in Nat /\ StoredPrice(p) \in Int /\ b \in Int
      /\ o \in Nat /\ v \in Int
      /\ fills[a] \in Nat /\ spent[a] \in Int /\ booked[a] \in Int /\ traded[a] \in Nat
      /\ cost[a] \in Int /\ paid[a][s] \subseteq Int
  BY <1>1, FillTypes
<1>3. /\ cash \in Int
      /\ 2 * (CashScale * cash) - 2 * (b * CashScale - p * q) <= CashScale
      /\ 2 * (b * CashScale - p * q) - 2 * (CashScale * cash) <= CashScale
  BY <1>2, CashNear
<1>4. w \in Int
  BY <1>2, AvgCostNear
<1>5. held \in [qty : Nat, avg : Int] /\ held.qty = o + q /\ held.avg = w
  BY <1>2, <1>4
<1>6. Filled(id, a, s, "buy", q, p, cash, held, <<>>)
  BY DEF FilledBuy
<1>. HIDE DEF cash, w, held
<1>7. /\ LedgerType' /\ PricesNear'
      /\ balance'[a] = cash /\ positions'[a][s] = held
      /\ fills'[a] = fills[a] + 1
      /\ spent'[a] = spent[a] + p * q
      /\ booked'[a] = booked[a] + 0
      /\ traded'[a] = traded[a] + q
      /\ cost'[a] = cost[a] + AtBasis(held) - AtBasis(positions[a][s])
      /\ shares'[a][s] = shares[a][s] + q
      /\ paid'[a][s] = IF shares'[a][s] = 0 THEN {} ELSE paid[a][s] \cup {StoredPrice(p)}
      /\ \A c \in Accounts : c # a =>
           /\ balance'[c] = balance[c] /\ positions'[c] = positions[c]
           /\ fills'[c] = fills[c] /\ spent'[c] = spent[c] /\ booked'[c] = booked[c]
           /\ traded'[c] = traded[c] /\ cost'[c] = cost[c]
           /\ shares'[c] = shares[c] /\ paid'[c] = paid[c]
      /\ \A c \in Accounts, r \in Symbols : c # a \/ r # s =>
           /\ positions'[c][r] = positions[c][r]
           /\ shares'[c][r] = shares[c][r] /\ paid'[c][r] = paid[c][r]
  <2>1. <<>> \in Seq(Int) /\ "buy" \in Sides
    BY DEF Sides
  <2>2. /\ LedgerType'
        /\ Counted(a, s, "buy", q, p, cash, held, p * q, 0)
    <3> DEFINE realized == <<>>
               paidOut == IF "buy" = "buy" THEN p * q ELSE -(p * q)
               profit == IF "buy" = "buy" THEN 0 ELSE realized[1]
    <3>1. LedgerType' /\ Counted(a, s, "buy", q, p, cash, held, paidOut, profit)
      BY <1>1, <1>3, <1>5, <1>6, <2>1, FilledTotals
    <3>. QED BY <3>1
  <2>3. PricesNear'
    <3>1. p * q = IF "buy" = "buy" THEN p * q ELSE -(p * q)
      OBVIOUS
    <3>. QED BY <1>1, <2>1, <2>2, <3>1, PricesKept
  <2>. QED
    BY <2>2, <2>3 DEF Counted
<1>8. SharesHeld'
  <2>1. \A c \in Accounts : c # a => traded'[c] = traded[c]
    BY <1>7
  <2>2. ASSUME NEW c \in Accounts, NEW r \in Symbols, c # a \/ r # s
        PROVE  positions'[c][r].qty = shares'[c][r] /\ positions'[c][r].qty <= traded'[c]
    <3>1. /\ positions[c][r].qty = shares[c][r] /\ positions[c][r].qty <= traded[c]
          /\ positions[c][r].qty \in Nat
      BY <1>1 DEF SharesHeld, LedgerType
    <3>2. traded'[c] \in Nat
      BY <1>7 DEF LedgerType
    <3>3. positions'[c][r] = positions[c][r] /\ shares'[c][r] = shares[c][r]
      BY <1>7, <2>2
    <3>4. traded'[c] >= traded[c] /\ traded[c] \in Nat
      <4>1. CASE c = a
        BY <1>2, <1>7, <4>1
      <4>2. CASE c # a
        <5>1. traded[c] \in Nat /\ traded'[c] = traded[c]
          BY <1>1, <2>1, <4>2 DEF LedgerType
        <5>. QED BY <5>1
      <4>. QED BY <4>1, <4>2
    <3>. QED BY <3>1, <3>2, <3>3, <3>4
  <2>3. positions'[a][s].qty = shares'[a][s] /\ positions'[a][s].qty <= traded'[a]
    BY <1>1, <1>2, <1>5, <1>7 DEF SharesHeld
  <2>. QED BY <2>2, <2>3 DEF SharesHeld
<1>9. CashConserved'
  <2>1. 2 * Abs((balance'[a] - StartingBalance) * CashScale + spent'[a]) <= fills'[a] * CashScale
    <3>1. 2 * Abs((b - StartingBalance) * CashScale + spent[a]) <= fills[a] * CashScale
      BY <1>1 DEF CashConserved
    <3>2. StartingBalance \in Int /\ CashScale \in Int /\ p * q \in Int
      BY <1>2, LedgerAssumption, CashScaleType
    <3>3. 2 * Abs((cash - StartingBalance) * CashScale + (spent[a] + p * q))
            <= (fills[a] + 1) * CashScale
      BY <1>2, <1>3, <3>1, <3>2, CashStep
    <3>. QED BY <1>7, <3>3
  <2>. QED BY <1>1, <1>7, <2>1 DEF CashConserved
<1>10. BasisWithinFills'
  <2>1. (\E x \in paid'[a][s] : x <= w) /\ (\E x \in paid'[a][s] : x >= w)
    <3>1. paid'[a][s] = paid[a][s] \cup {StoredPrice(p)}
      BY <1>1, <1>2, <1>7 DEF SharesHeld
    <3>2. CASE o = 0
      <4>1. StoredPrice(p) <= w /\ StoredPrice(p) >= w
        BY <1>2, <3>2, BasisBetween DEF w
      <4>. QED BY <3>1, <4>1
    <3>3. CASE o # 0
      <4>1. PICK x \in paid[a][s], y \in paid[a][s] : x <= v /\ y >= v
        BY <1>1, <1>2, <3>3 DEF BasisWithinFills
      <4>2. x \in Int /\ y \in Int
        BY <1>2
      <4>3. \E k \in {x, StoredPrice(p)} : k <= v /\ k <= StoredPrice(p)
        BY <1>2, <4>1, <4>2
      <4>4. \E k \in {y, StoredPrice(p)} : k >= v /\ k >= StoredPrice(p)
        BY <1>2, <4>1, <4>2
      <4>5. \E k \in {x, StoredPrice(p)} : k <= w
        BY <1>2, <4>2, <4>3, BasisBetween DEF w
      <4>6. \E k \in {y, StoredPrice(p)} : k >= w
        BY <1>2, <4>2, <4>4, BasisBetween, SMTT(30) DEF w
      <4>. QED BY <3>1, <4>5, <4>6
    <3>. QED BY <3>2, <3>3
  <2>. QED BY <1>1, <1>5, <1>7, <2>1 DEF BasisWithinFills
<1>11. RealizedExplainsCash'
  <2> DEFINE gain == (b - StartingBalance) * CashScale + cost[a]
             e == CashScale * cash - (b * CashScale - p * q)
             f == AtBasis(held) - AtBasis(positions[a][s]) - p * q
             gap == gain - booked[a] * CashScale
             gap2 == Gain(a)' - booked'[a] * CashScale
  <2>1. /\ p * q \in Int /\ b * CashScale \in Int /\ CashScale * cash \in Int
        /\ StartingBalance * CashScale \in Int /\ booked[a] * CashScale \in Int
        /\ AtBasis(held) \in Int /\ AtBasis(positions[a][s]) \in Int /\ cost'[a] \in Int
        /\ CashScale \in Nat /\ PriceScale \in Nat /\ StartingBalance \in Nat
    <3>1. CashScale \in Nat /\ PriceScale \in Nat /\ StartingBalance \in Nat
      BY LedgerAssumption, ScaleAssumption, CashScaleType
    <3>2. AtBasis(held) \in Int /\ AtBasis(positions[a][s]) \in Int
      BY <1>2, <1>4, <1>5, <3>1 DEF AtBasis
    <3>3. cost'[a] \in Int
      BY <1>7 DEF LedgerType
    <3>. QED BY <1>2, <1>3, <3>1, <3>2, <3>3
  <2>2. gap2 = gap + e + f
    <3>1. /\ (cash - StartingBalance) * CashScale = CashScale * cash - StartingBalance * CashScale
          /\ (b - StartingBalance) * CashScale = b * CashScale - StartingBalance * CashScale
      BY <1>2, <1>3, <2>1
    <3>2. booked'[a] = booked[a]
      BY <1>2, <1>7
    <3>3. Gain(a)' = (cash - StartingBalance) * CashScale + cost'[a]
      <4>1. balance'[a] = cash
        BY <1>7
      <4>. QED BY <4>1 DEF Gain
    <3> DEFINE x == CashScale * cash
               y == b * CashScale
               z == StartingBalance * CashScale
               k == booked[a] * CashScale
               h == p * q
               i == AtBasis(held)
               j == AtBasis(positions[a][s])
               l == Gain(a)'
    <3>4. /\ x \in Int /\ y \in Int /\ z \in Int /\ k \in Int /\ h \in Int
          /\ i \in Int /\ j \in Int
      BY <2>1
    <3>5. l = x - z + (cost[a] + i - j)
      BY <1>7, <3>1, <3>3
    <3>6. e = x - (y - h) /\ f = i - j - h /\ gap = gain - k /\ gain = y - z + cost[a]
      <4>1. e = x - (y - h) /\ f = i - j - h
        OBVIOUS
      <4>2. gap = gain - k
        OBVIOUS
      <4>3. gain = y - z + cost[a]
        BY <3>1
      <4>. QED BY <4>1, <4>2, <4>3
    <3>7. gap2 = l - k
      BY <3>2
    <3>. HIDE DEF x, y, z, k, h, i, j, l, gain, gap, gap2, e, f
    <3>. QED BY <1>2, <3>4, <3>5, <3>6, <3>7
  <2>3. 2 * e <= CashScale /\ -(2 * e) <= CashScale
    BY <1>3, <2>1
  <2>4. 2 * f <= PriceScale * (traded[a] + q) /\ -(2 * f) <= PriceScale * (traded[a] + q)
    <3> DEFINE d == (o + q) * PriceScale
               x == v * PriceScale * o + p * q
    <3>1. d \in Int /\ x \in Int /\ d * w \in Int
      BY <1>2, <1>4, <2>1
    <3>2. 2 * (d * w) - 2 * x <= d /\ 2 * x - 2 * (d * w) <= d
      BY <1>2, AvgCostNear DEF w
    <3>3. AtBasis(held) = d * w /\ AtBasis(positions[a][s]) + p * q = x
      BY <1>2, <1>4, <1>5, <2>1 DEF AtBasis
    <3>4. d <= PriceScale * (traded[a] + q) /\ PriceScale * (traded[a] + q) \in Int
      <4>1. o <= traded[a]
        BY <1>1 DEF SharesHeld
      <4> DEFINE r == traded[a] - o
      <4>2. r \in Nat /\ traded[a] = o + r
        BY <1>2, <4>1
      <4>. HIDE DEF r
      <4>3. PriceScale * (traded[a] + q) = d + PriceScale * r /\ PriceScale * r \in Nat
        BY <1>2, <2>1, <4>2
      <4>. QED BY <3>1, <4>3
    <3>. HIDE DEF d, x
    <3>. QED BY <2>1, <3>1, <3>2, <3>3, <3>4
  <2>5. 2 * Abs(gap) <= fills[a] * (2 * CashScale + PriceScale * traded[a])
    BY <1>1 DEF RealizedExplainsCash, Gain
  <2>6. gap \in Int /\ e \in Int /\ f \in Int
    BY <1>2, <2>1
  <2>. HIDE DEF gap, e, f, gap2
  <2>7. 2 * Abs(gap2) <= (fills[a] + 1) * (2 * CashScale + PriceScale * (traded[a] + q))
    BY <1>2, <2>1, <2>2, <2>3, <2>4, <2>5, <2>6, GainStep
  <2>8. 2 * Abs(Gain(a)' - booked'[a] * CashScale)
          <= fills'[a] * (2 * CashScale + PriceScale * traded'[a])
    <3>1. Gain(a)' - booked'[a] * CashScale = gap2
      BY DEF gap2
    <3>2. fills'[a] = fills[a] + 1 /\ traded'[a] = traded[a] + q
      BY <1>7
    <3>. QED BY <2>7, <3>1, <3>2
  <2>9. ASSUME NEW c \in Accounts, c # a
        PROVE  2 * Abs(Gain(c)' - booked'[c] * CashScale)
                 <= fills'[c] * (2 * CashScale + PriceScale * traded'[c])
    <3>1. /\ balance'[c] = balance[c] /\ cost'[c] = cost[c] /\ booked'[c] = booked[c]
          /\ fills'[c] = fills[c] /\ traded'[c] = traded[c]
      BY <1>7, <2>9
    <3>2. Gain(c)' = Gain(c)
      BY <3>1 DEF Gain
    <3>. QED BY <1>1, <3>1, <3>2 DEF RealizedExplainsCash
  <2>. QED BY <2>8, <2>9 DEF RealizedExplainsCash
<1>. QED
  BY <1>7, <1>8, <1>9, <1>10, <1>11 DEF LedgerInv

\* ... and so does a sell ...
LEMMA SellKeeps ==
  ASSUME LedgerInv,
         NEW id \in Requests, NEW a \in Accounts, NEW s \in Symbols,
         NEW q \in Quantities, NEW p \in Prices, FilledSell(id, a, s, q, p)
  PROVE  LedgerInv'
<1> DEFINE b == balance[a]
           o == positions[a][s].qty
           v == positions[a][s].avg
           cash == BalanceAfterSell(b, q, p)
           profit == RealizedPL(v, p, q)
           held == [qty |-> o - q, avg |-> v]
<1>1. LedgerType /\ SharesHeld /\ CashConserved /\ PricesNear /\ BasisWithinFills /\ RealizedExplainsCash
  BY DEF LedgerInv
<1>2. /\ q \in Nat \ {0} /\ p \in Nat /\ StoredPrice(p) \in Int /\ b \in Int
      /\ o \in Nat /\ v \in Int
      /\ fills[a] \in Nat /\ spent[a] \in Int /\ booked[a] \in Int /\ traded[a] \in Nat
      /\ cost[a] \in Int /\ paid[a][s] \subseteq Int
  BY <1>1, FillTypes
<1>3. /\ cash \in Int
      /\ 2 * (CashScale * cash) - 2 * (b * CashScale + p * q) <= CashScale
      /\ 2 * (b * CashScale + p * q) - 2 * (CashScale * cash) <= CashScale
  BY <1>2, CashNear
<1>4. /\ profit \in Int
      /\ 2 * (CashScale * profit) - 2 * ((p - v * PriceScale) * q) <= CashScale
      /\ 2 * ((p - v * PriceScale) * q) - 2 * (CashScale * profit) <= CashScale
  BY <1>2, RealizedNear
<1>5. q <= o /\ held \in [qty : Nat, avg : Int] /\ held.qty = o - q /\ held.avg = v
  BY <1>2 DEF FilledSell
<1>6. Filled(id, a, s, "sell", q, p, cash, held, <<profit>>)
  BY DEF FilledSell
<1>. HIDE DEF cash, profit, held
<1>7. /\ LedgerType' /\ PricesNear'
      /\ balance'[a] = cash /\ positions'[a][s] = held
      /\ fills'[a] = fills[a] + 1
      /\ spent'[a] = spent[a] + -(p * q)
      /\ booked'[a] = booked[a] + profit
      /\ traded'[a] = traded[a] + q
      /\ cost'[a] = cost[a] + AtBasis(held) - AtBasis(positions[a][s])
      /\ shares'[a][s] = shares[a][s] + -q
      /\ paid'[a][s] = IF shares'[a][s] = 0 THEN {} ELSE paid[a][s]
      /\ \A c \in Accounts : c # a =>
           /\ balance'[c] = balance[c] /\ positions'[c] = positions[c]
           /\ fills'[c] = fills[c] /\ spent'[c] = spent[c] /\ booked'[c] = booked[c]
           /\ traded'[c] = traded[c] /\ cost'[c] = cost[c]
           /\ shares'[c] = shares[c] /\ paid'[c] = paid[c]
      /\ \A c \in Accounts, r \in Symbols : c # a \/ r # s =>
           /\ positions'[c][r] = positions[c][r]
           /\ shares'[c][r] = shares[c][r] /\ paid'[c][r] = paid[c][r]
  <2> DEFINE realized == <<profit>>
             paidOut == IF "sell" = "buy" THEN p * q ELSE -(p * q)
             booking == IF "sell" = "buy" THEN 0 ELSE realized[1]
  <2>1. realized \in Seq(Int) /\ Len(realized) = 1 /\ realized[1] \in Int /\ "sell" \in Sides
    BY <1>4 DEF Sides
  <2>2. LedgerType' /\ Counted(a, s, "sell", q, p, cash, held, paidOut, booking)
    <3>1. Filled(id, a, s, "sell", q, p, cash, held, realized)
      BY <1>6
    <3>. HIDE DEF realized
    <3>. QED BY <1>1, <1>3, <1>5, <2>1, <3>1, FilledTotals
  <2>3. paidOut = -(p * q) /\ booking = profit
    OBVIOUS
  <2>4. PricesNear'
    <3>1. paidOut = IF "sell" = "buy" THEN p * q ELSE -(p * q)
      OBVIOUS
    <3>. HIDE DEF paidOut, booking
    <3>. QED BY <1>1, <2>1, <2>2, <3>1, PricesKept
  <2>. HIDE DEF paidOut, booking
  <2>. QED BY <2>2, <2>3, <2>4 DEF Counted
<1>8. SharesHeld'
  <2>1. \A c \in Accounts : c # a => traded'[c] = traded[c]
    BY <1>7
  <2>2. ASSUME NEW c \in Accounts, NEW r \in Symbols, c # a \/ r # s
        PROVE  positions'[c][r].qty = shares'[c][r] /\ positions'[c][r].qty <= traded'[c]
    <3>1. /\ positions[c][r].qty = shares[c][r] /\ positions[c][r].qty <= traded[c]
          /\ positions[c][r].qty \in Nat
      BY <1>1 DEF SharesHeld, LedgerType
    <3>2. traded'[c] \in Nat
      BY <1>7 DEF LedgerType
    <3>3. positions'[c][r] = positions[c][r] /\ shares'[c][r] = shares[c][r]
      BY <1>7, <2>2
    <3>4. traded'[c] >= traded[c] /\ traded[c] \in Nat
      <4>1. CASE c = a
        BY <1>2, <1>7, <4>1
      <4>2. CASE c # a
        <5>1. traded[c] \in Nat /\ traded'[c] = traded[c]
          BY <1>1, <2>1, <4>2 DEF LedgerType
        <5>. QED BY <5>1
      <4>. QED BY <4>1, <4>2
    <3>. QED BY <3>1, <3>2, <3>3, <3>4
  <2>3. positions'[a][s].qty = shares'[a][s] /\ positions'[a][s].qty <= traded'[a]
    BY <1>1, <1>2, <1>5, <1>7 DEF SharesHeld
  <2>. QED BY <2>2, <2>3 DEF SharesHeld
<1>9. CashConserved'
  <2>1. 2 * Abs((balance'[a] - StartingBalance) * CashScale + spent'[a]) <= fills'[a] * CashScale
    <3> DEFINE m == -(p * q)
    <3>1. 2 * Abs((b - StartingBalance) * CashScale + spent[a]) <= fills[a] * CashScale
      BY <1>1 DEF CashConserved
    <3>2. StartingBalance \in Int /\ CashScale \in Int /\ p * q \in Int /\ m \in Int
      BY <1>2, LedgerAssumption, CashScaleType
    <3>3. b * CashScale - m = b * CashScale + p * q
      BY <1>2, <3>2
    <3>4. /\ 2 * (CashScale * cash) - 2 * (b * CashScale - m) <= CashScale
          /\ 2 * (b * CashScale - m) - 2 * (CashScale * cash) <= CashScale
      BY <1>3, <3>3
    <3>. HIDE DEF m
    <3>5. 2 * Abs((cash - StartingBalance) * CashScale + (spent[a] + m))
            <= (fills[a] + 1) * CashScale
      BY <1>2, <1>3, <3>1, <3>2, <3>4, CashStep
    <3>. QED BY <1>7, <3>5 DEF m
  <2>. QED BY <1>1, <1>7, <2>1 DEF CashConserved
<1>10. BasisWithinFills'
  <2>1. ASSUME positions'[a][s].qty > 0
        PROVE  (\E x \in paid'[a][s] : x <= v) /\ (\E x \in paid'[a][s] : x >= v)
    <3>1. o > 0 /\ paid'[a][s] = paid[a][s]
      BY <1>1, <1>2, <1>5, <1>7, <2>1 DEF SharesHeld
    <3>. QED BY <1>1, <3>1 DEF BasisWithinFills
  <2>. QED BY <1>1, <1>5, <1>7, <2>1 DEF BasisWithinFills
<1>11. RealizedExplainsCash'
  <2> DEFINE e == CashScale * cash - (b * CashScale + p * q)
             f == (p - v * PriceScale) * q - CashScale * profit
             gap == Gain(a) - booked[a] * CashScale
             gap2 == Gain(a)' - booked'[a] * CashScale
  <2>1. /\ p * q \in Int /\ b * CashScale \in Int /\ CashScale * cash \in Int
        /\ StartingBalance * CashScale \in Int /\ booked[a] * CashScale \in Int
        /\ CashScale * profit \in Int /\ (p - v * PriceScale) * q \in Int
        /\ CashScale \in Nat /\ PriceScale \in Nat /\ StartingBalance \in Nat
    <3>1. CashScale \in Nat /\ PriceScale \in Nat /\ StartingBalance \in Nat
      BY LedgerAssumption, ScaleAssumption, CashScaleType
    <3>. QED BY <1>2, <1>3, <1>4, <3>1
  <2>2. gap2 = gap + e + f
    <3>1. /\ (cash - StartingBalance) * CashScale = CashScale * cash - StartingBalance * CashScale
          /\ (b - StartingBalance) * CashScale = b * CashScale - StartingBalance * CashScale
          /\ booked'[a] * CashScale = booked[a] * CashScale + CashScale * profit
      BY <1>2, <1>3, <1>4, <1>7, <2>1
    <3>2. /\ AtBasis(held) - AtBasis(positions[a][s]) = -(v * PriceScale * q)
          /\ (p - v * PriceScale) * q = p * q - v * PriceScale * q
          /\ AtBasis(held) \in Int /\ AtBasis(positions[a][s]) \in Int
      BY <1>2, <1>5, <2>1 DEF AtBasis
    <3>3. /\ Gain(a) = (b - StartingBalance) * CashScale + cost[a]
          /\ Gain(a)' = (cash - StartingBalance) * CashScale
                        + (cost[a] + AtBasis(held) - AtBasis(positions[a][s]))
      BY <1>7 DEF Gain
    <3> DEFINE x == CashScale * cash
               y == b * CashScale
               z == StartingBalance * CashScale
               k == booked[a] * CashScale
               r == CashScale * profit
               g == v * PriceScale * q
               h == p * q
               i == AtBasis(held)
               j == AtBasis(positions[a][s])
               l == Gain(a)'
    <3>4. /\ x \in Int /\ y \in Int /\ z \in Int /\ k \in Int /\ r \in Int /\ h \in Int
          /\ g \in Int /\ i \in Int /\ j \in Int
      BY <1>2, <2>1, <3>2
    <3>5. Gain(a) = y - z + cost[a] /\ l = x - z + (cost[a] + i - j)
      BY <3>1, <3>3
    <3>6. i - j = -g
      BY <3>2
    <3>7. e = x - (y + h) /\ f = h - g - r
      BY <3>2
    <3>8. gap = Gain(a) - k /\ gap2 = l - (k + r)
      BY <3>1
    <3>. HIDE DEF x, y, z, k, r, g, h, i, j, l, gap, gap2, e, f
    <3>. QED BY <1>2, <3>4, <3>5, <3>6, <3>7, <3>8
  <2>3. 2 * e <= CashScale /\ -(2 * e) <= CashScale
    BY <1>3, <2>1
  <2>4. 2 * f <= CashScale /\ -(2 * f) <= CashScale
    BY <1>4, <2>1
  <2>5. 2 * Abs(gap) <= fills[a] * (2 * CashScale + PriceScale * traded[a])
    BY <1>1 DEF RealizedExplainsCash
  <2>6. gap \in Int /\ e \in Int /\ f \in Int
    BY <1>2, <2>1 DEF Gain
  <2>. HIDE DEF gap, e, f, gap2
  <2>7. 2 * Abs(gap2) <= (fills[a] + 1) * (2 * CashScale + PriceScale * (traded[a] + q))
    BY <1>2, <2>1, <2>2, <2>3, <2>4, <2>5, <2>6, GainStep
  <2>8. 2 * Abs(gap2) <= fills'[a] * (2 * CashScale + PriceScale * traded'[a])
    BY <1>7, <2>7
  <2>9. ASSUME NEW c \in Accounts, c # a
        PROVE  2 * Abs(Gain(c)' - booked'[c] * CashScale)
                 <= fills'[c] * (2 * CashScale + PriceScale * traded'[c])
    <3>1. /\ balance'[c] = balance[c] /\ cost'[c] = cost[c] /\ booked'[c] = booked[c]
          /\ fills'[c] = fills[c] /\ traded'[c] = traded[c]
      BY <1>7, <2>9
    <3>2. Gain(c)' = Gain(c)
      BY <3>1 DEF Gain
    <3>. QED BY <1>1, <3>1, <3>2 DEF RealizedExplainsCash
  <2>. QED BY <2>8, <2>9 DEF RealizedExplainsCash, gap2
<1>. QED
  BY <1>7, <1>8, <1>9, <1>10, <1>11 DEF LedgerInv

\* ... and the first state has it ...
LEMMA InitLedger == TotalsInit => LedgerInv
<1>. SUFFICES ASSUME TotalsInit
              PROVE  LedgerInv
  OBVIOUS
<1>1. LedgerType
  BY LedgerAssumption DEF TotalsInit, Init, LedgerType
<1>5. PricesNear
  BY ScaleAssumption DEF TotalsInit, Init, PricesNear, Abs
<1>2. SharesHeld /\ BasisWithinFills
  BY DEF TotalsInit, Init, SharesHeld, BasisWithinFills
<1>3. CashConserved
  BY LedgerAssumption, CashScaleType DEF TotalsInit, Init, CashConserved, Abs
<1>4. RealizedExplainsCash
  BY LedgerAssumption, ScaleAssumption, CashScaleType
  DEF TotalsInit, Init, RealizedExplainsCash, Gain, Abs
<1>. QED
  BY <1>1, <1>2, <1>3, <1>4, <1>5 DEF LedgerInv

\* ... and a refusal, or no step, moves nothing it is about.
LEMMA StillLedger ==
  LedgerInv /\ UNCHANGED <<balance, positions, trades, totalVars>> => LedgerInv'
BY DEF LedgerInv, LedgerType, SharesHeld, CashConserved, PricesNear, BasisWithinFills,
       RealizedExplainsCash, Gain, totalVars

\* So every step keeps it ...
LEMMA NextLedger == LedgerInv /\ [TotalsNext]_vars => LedgerInv'
<1>. SUFFICES ASSUME LedgerInv, [TotalsNext]_vars
              PROVE  LedgerInv'
  OBVIOUS
<1>1. CASE TotalsNext
  <2>1. LedgerType
    BY DEF LedgerInv
  <2>. QED
    BY <1>1, <2>1, StepCases, BuyKeeps, SellKeeps, StillLedger
<1>2. CASE UNCHANGED vars
  BY <1>2, StillLedger DEF vars, ledgerVars
<1>. QED
  BY <1>1, <1>2

\* ... and every state of every run has it.
LEMMA LedgerInvariant == TotalsSpec => []LedgerInv
BY InitLedger, NextLedger, PTL DEF TotalsSpec

-----------------------------------------------------------------------------
(* The theorems *)

\* CashConserved, for any number of fills: the balance column differs from the
\* exact cost of the fills, at the unrounded prices they executed at, by at most
\* half a tick per trade.
THEOREM CashDriftBounded == TotalsSpec => []CashConserved
<1>1. LedgerInv => CashConserved
  BY DEF LedgerInv
<1>. QED
  BY <1>1, LedgerInvariant, PTL

\* LogExplainsCash, for any number of fills: against the rounded prices the trades
\* table holds, by at most another half of a price tick for each share traded.
THEOREM LogCashBounded == TotalsSpec => []LogExplainsCash
<1>1. ASSUME LedgerInv
      PROVE  LogExplainsCash
  <2>. SUFFICES ASSUME NEW a \in Accounts
                PROVE  2 * Abs((balance[a] - StartingBalance) * CashScale + logged[a])
                         <= fills[a] * CashScale + PriceScale * traded[a]
    BY DEF LogExplainsCash
  <2> DEFINE x == (balance[a] - StartingBalance) * CashScale
             h == fills[a] * CashScale
             t == PriceScale * traded[a]
  <2>1. /\ x \in Int /\ h \in Int /\ t \in Int /\ spent[a] \in Int /\ logged[a] \in Int
    <3>1. /\ balance[a] \in Int /\ fills[a] \in Nat /\ traded[a] \in Nat
          /\ spent[a] \in Int /\ logged[a] \in Int
      BY <1>1 DEF LedgerInv, LedgerType
    <3>. QED BY <3>1, LedgerAssumption, ScaleAssumption, CashScaleType
  <2>2. 2 * Abs(x + spent[a]) <= h /\ 2 * Abs(logged[a] - spent[a]) <= t
    BY <1>1 DEF LedgerInv, CashConserved, PricesNear
  <2>. HIDE DEF x, h, t
  <2>3. 2 * Abs(x + logged[a]) <= h + t
    BY <2>1, <2>2 DEF Abs
  <2>. QED BY <2>3 DEF x, h, t
<1>. QED
  BY <1>1, LedgerInvariant, PTL

\* BasisWithinFills: avg_cost stays between prices the account really paid since
\* the position was last flat, however often it is rounded and fed back.
THEOREM BasisBounded == TotalsSpec => []BasisWithinFills
<1>1. LedgerInv => BasisWithinFills
  BY DEF LedgerInv
<1>. QED
  BY <1>1, LedgerInvariant, PTL

\* RealizedExplainsCash: what the sells booked, with the basis still held, is what
\* the account made, but for the roundings of its trades.
THEOREM CashExplained == TotalsSpec => []RealizedExplainsCash
<1>1. LedgerInv => RealizedExplainsCash
  BY DEF LedgerInv
<1>. QED
  BY <1>1, LedgerInvariant, PTL

\* An account's position is what its trade log says it bought and has not sold.
THEOREM PositionsMatchLog == TotalsSpec => [](LedgerType /\ SharesHeld)
<1>1. LedgerInv => LedgerType /\ SharesHeld
  BY DEF LedgerInv
<1>. QED
  BY <1>1, LedgerInvariant, PTL
=============================================================================

--------------------------- MODULE TradingProofs ---------------------------
(***************************************************************************)
(* Proofs about TradingEngine, and about Insights beside it, for any       *)
(* accounts, symbols, requests, prices and scales: the engine's type       *)
(* invariant, that the row lock protects what a transaction read, that the *)
(* engine implements the atomic Ledger, that its answers agree with its    *)
(* tables, and that a fill nobody overlapped is in every later report.     *)
(***************************************************************************)
EXTENDS Insights, Induction

\* A product of the two scales is a positive divisor.
LEMMA CashScaleType == CashScale \in Nat \ {0}
  BY ScaleAssumption DEF CashScale

\* Rounding to a column's tick yields an integer.
LEMMA RoundNatType ==
  ASSUME NEW x \in Int, NEW d \in Nat \ {0}
  PROVE  RoundNat(x, d) \in Int
  BY DEF RoundNat

\* ... and a non-negative one from a non-negative value.
LEMMA RoundNatNat ==
  ASSUME NEW x \in Nat, NEW d \in Nat \ {0}
  PROVE  RoundNat(x, d) \in Nat
<1>1. 2 * x + d \in Nat /\ 2 * d \in Nat \ {0}
  OBVIOUS
<1>. QED
  BY <1>1 DEF RoundNat

\* The snapped quantity of a valid order is a quantity of the ledger: rounding
\* after the bounds check cannot leave the bounds.
LEMMA SnapType ==
  ASSUME NEW q \in Int, q >= SnapScale, q <= MaxQuantity * SnapScale
  PROVE  RoundNat(q, SnapScale) \in 1..MaxQuantity
<1>1. SnapScale \in Nat \ {0} /\ MaxQuantity \in Nat \ {0}
  BY EngineAssumption
<1> DEFINE d == SnapScale
           n == 2 * q + d
           m == n \div (2 * d)
<1>2. m \in Int /\ n = (2 * d) * m + (n % (2 * d)) /\ n % (2 * d) \in 0..(2 * d - 1)
  BY <1>1
<1>3. m >= 1
  <2>1. SUFFICES ASSUME m <= 0 PROVE FALSE
    BY <1>2
  <2>2. (2 * d) * m <= 0
    BY <1>1, <1>2, <2>1
  <2>. QED BY <1>1, <1>2, <2>2
<1>4. m <= MaxQuantity
  <2>1. SUFFICES ASSUME m >= MaxQuantity + 1 PROVE FALSE
    BY <1>1, <1>2
  <2>2. (2 * d) * m >= (2 * d) * (MaxQuantity + 1)
    BY <1>1, <1>2, <2>1
  <2>3. (2 * d) * (MaxQuantity + 1) = 2 * (MaxQuantity * d) + 2 * d
    BY <1>1
  <2>. QED BY <1>1, <1>2, <2>2, <2>3
<1>. QED
  BY <1>1, <1>2, <1>3, <1>4 DEF RoundNat

\* The ledger and the engine compute with the same arithmetic.
LEMMA SameMoney ==
  /\ Promise!CashScale = CashScale
  /\ \A p : Promise!StoredPrice(p) = StoredPrice(p)
  /\ \A b, q, p : /\ Promise!BalanceAfterBuy(b, q, p) = BalanceAfterBuy(b, q, p)
                  /\ Promise!BalanceAfterSell(b, q, p) = BalanceAfterSell(b, q, p)
                  /\ Promise!RealizedPL(b, p, q) = RealizedPL(b, p, q)
  /\ \A o, v, q, p : Promise!WeightedAvgCost(o, v, q, p) = WeightedAvgCost(o, v, q, p)
<1>1. \A x, d : Promise!RoundNat(x, d) = RoundNat(x, d)
  BY DEF Promise!RoundNat, RoundNat
<1>2. \A x, d : Promise!Round(x, d) = Round(x, d)
  BY <1>1 DEF Promise!Round, Round
<1>3. Promise!CashScale = CashScale
  BY DEF Promise!CashScale, CashScale
<1>. QED
  BY <1>1, <1>2, <1>3
     DEF Promise!StoredPrice, StoredPrice, Promise!BalanceAfterBuy, BalanceAfterBuy,
         Promise!BalanceAfterSell, BalanceAfterSell, Promise!RealizedPL, RealizedPL,
         Promise!WeightedAvgCost, WeightedAvgCost

-----------------------------------------------------------------------------
(* Typing of the pieces of state an action writes *)

\* There is an order, so a zero frame holds one.
LEMMA ZeroFrameType == ZeroFrame \in Frame
<1>1. \E o \in Order : TRUE
  <2>1. PICK a \in Accounts, s \in Symbols : TRUE
    BY EngineAssumption
  <2>2. [account |-> a, symbol |-> s, side |-> "buy", quantity |-> 1] \in Order
    BY EngineAssumption DEF Order, Promise!Sides, Promise!Quantities
  <2>. QED BY <2>2
<1>2. (CHOOSE o \in Order : TRUE) \in Order
  BY <1>1
<1>3. ZeroWrites \in Writeset
  BY DEF ZeroWrites, Writeset
<1>. QED
  BY <1>2, <1>3 DEF ZeroFrame, Frame

\* An accepted order is a well-formed one.
LEMMA validateOrderType ==
  ASSUME NEW a \in Accounts,
         NEW raw \in [symbol : RawSymbols, side : RawSides, quantity : RawQuantities],
         Valid(raw)
  PROVE  validateOrder(a, raw) \in Order
<1>1. Upper[raw.symbol] \in Symbols /\ raw.side \in Promise!Sides
  BY EngineAssumption DEF Valid
<1>2. RoundNat(raw.quantity, SnapScale) \in Promise!Quantities
  <2>1. raw.quantity \in Int
    BY EngineAssumption
  <2>. QED BY <2>1, SnapType DEF Valid, Promise!Quantities
<1>. QED
  BY <1>1, <1>2 DEF validateOrder, Order

\* The fields of a request's locals.
LEMMA FrameFields ==
  ASSUME TypeOK, NEW r \in Requests
  PROVE  /\ frame[r] \in Frame
         /\ frame[r].order \in Order
         /\ Account(r) \in Accounts /\ Symbol(r) \in Symbols
         /\ Side(r) \in {"buy", "sell"} /\ Quantity(r) \in Nat \ {0}
         /\ Quantity(r) \in Promise!Quantities
         /\ Price(r) \in Nat
         /\ frame[r].read \in Int /\ frame[r].staged \in Writeset
         /\ Held(r).qty \in Int /\ Held(r).avg \in Int
<1>1. frame[r] \in Frame
  BY DEF TypeOK
<1>2. /\ frame[r].order \in Order /\ frame[r].price \in Prices \cup {0}
      /\ frame[r].read \in Int /\ frame[r].staged \in Writeset
  BY <1>1 DEF Frame
<1>3. /\ Account(r) \in Accounts /\ Symbol(r) \in Symbols
      /\ Side(r) \in Promise!Sides /\ Quantity(r) \in Promise!Quantities
  BY <1>2 DEF Order, Account, Symbol, Side, Quantity
<1>4. positions[Account(r)][Symbol(r)] \in [qty : Int, avg : Int]
  BY <1>3 DEF TypeOK
<1>5. Held(r).qty \in Int /\ Held(r).avg \in Int
  BY <1>4 DEF Held
<1>6. Price(r) \in Nat
  <2>1. \A p \in Prices : p \in Nat
    BY EngineAssumption
  <2>2. Price(r) \in Prices \/ Price(r) = 0
    BY <1>2 DEF Price
  <2>. QED BY <2>1, <2>2
<1>7. Side(r) \in {"buy", "sell"} /\ Quantity(r) \in Nat \ {0}
  BY <1>3, EngineAssumption DEF Promise!Sides, Promise!Quantities
<1>. QED
  BY <1>1, <1>2, <1>3, <1>5, <1>6, <1>7

\* A price is stored as an integer.
LEMMA StoredPriceType ==
  ASSUME NEW p \in Nat
  PROVE  StoredPrice(p) \in Int
  BY RoundNatType, ScaleAssumption DEF StoredPrice

\* A transaction decides: it fills, or it rejects for a business reason; and a
\* fill leaves neither the cash nor the holding below zero.
LEMMA WritesType ==
  ASSUME TypeOK, NoOverdraft, NEW r \in Requests
  PROVE  /\ Writes(r) \in Writeset
         /\ \/ Writes(r).status = "filled"
            \/ /\ Writes(r).status = "rejected"
               /\ Writes(r).reason \in {"insufficient_balance", "insufficient_position"}
         /\ Writes(r).status = "filled" =>
              /\ Writes(r).qty >= 0
              /\ frame[r].read >= 0 => Writes(r).balance >= 0
<1> DEFINE q == Quantity(r)
           p == Price(r)
           h == Held(r)
           b == frame[r].read
<1>1. /\ q \in Nat \ {0} /\ p \in Nat /\ h.qty \in Nat /\ h.avg \in Int /\ b \in Int
  BY FrameFields DEF NoOverdraft, Held
<1>2. \A reason \in {"insufficient_balance", "insufficient_position"} :
        /\ Reject(reason) \in Writeset
        /\ Reject(reason).status = "rejected" /\ Reject(reason).reason = reason
  BY DEF Reject, ZeroWrites, Writeset
<1>3. /\ BalanceAfterBuy(b, q, p) \in Int /\ BalanceAfterSell(b, q, p) \in Int
      /\ p * q <= b * CashScale => BalanceAfterBuy(b, q, p) >= 0
      /\ b >= 0 => BalanceAfterSell(b, q, p) >= 0
  <2>1. b * CashScale - p * q \in Int /\ b * CashScale + p * q \in Int
    BY <1>1, CashScaleType
  <2>2. b >= 0 => b * CashScale + p * q \in Nat
    BY <1>1, CashScaleType
  <2>3. p * q <= b * CashScale => b * CashScale - p * q \in Nat
    BY <1>1, CashScaleType
  <2>. HIDE DEF q, p, b
  <2>. QED
    BY <2>1, <2>2, <2>3, CashScaleType, RoundNatType, RoundNatNat
       DEF BalanceAfterBuy, BalanceAfterSell
<1>4. WeightedAvgCost(h.qty, h.avg, q, p) \in Int
  <2>. HIDE DEF q, p, h
  <2>1. (h.qty + q) * PriceScale \in Nat \ {0}
    BY <1>1, ScaleAssumption
  <2>2. h.avg * PriceScale * h.qty + p * q \in Int
    BY <1>1, ScaleAssumption
  <2>. QED BY <2>1, <2>2, RoundNatType DEF WeightedAvgCost
<1>5. RealizedPL(h.avg, p, q) \in Int
  <2>. HIDE DEF q, p, h
  <2>1. (p - h.avg * PriceScale) * q \in Int
    BY <1>1, ScaleAssumption
  <2>2. -((p - h.avg * PriceScale) * q) \in Int
    BY <2>1
  <2>3. \A x \in Int : RoundNat(x, CashScale) \in Int
    BY CashScaleType, RoundNatType
  <2>. QED BY <2>1, <2>2, <2>3 DEF RealizedPL, Round
<1>6. CASE Side(r) = "buy"
  <2>1. CASE p * q > b * CashScale
    BY <1>2, <1>6, <2>1 DEF Writes, executeBuy
  <2>2. CASE ~(p * q > b * CashScale)
    <3>1. p * q <= b * CashScale
      BY <1>1, <2>2, CashScaleType
    <3>2. Writes(r) = [status |-> "filled", reason |-> "none",
                       balance |-> BalanceAfterBuy(b, q, p),
                       qty |-> h.qty + q,
                       avg |-> WeightedAvgCost(h.qty, h.avg, q, p),
                       realized |-> <<>>]
      BY <1>6, <2>2 DEF Writes, executeBuy
    <3>. HIDE DEF q, p, h, b
    <3>. QED BY <1>1, <1>3, <1>4, <3>1, <3>2 DEF Writeset
  <2>. QED BY <2>1, <2>2
<1>7. CASE Side(r) = "sell"
  <2>1. CASE q > h.qty
    BY <1>2, <1>7, <2>1 DEF Writes, executeSell
  <2>2. CASE ~(q > h.qty)
    <3>1. Writes(r) = [status |-> "filled", reason |-> "none",
                       balance |-> BalanceAfterSell(b, q, p),
                       qty |-> h.qty - q,
                       avg |-> h.avg,
                       realized |-> <<RealizedPL(h.avg, p, q)>>]
      BY <1>7, <2>2 DEF Writes, executeSell
    <3>2. <<RealizedPL(h.avg, p, q)>> \in Seq(Int)
      BY <1>5
    <3>3. h.qty - q \in Int /\ h.qty - q >= 0
      BY <1>1, <2>2
    <3>. HIDE DEF q, p, h
    <3>. QED BY <1>1, <1>3, <3>1, <3>2, <3>3 DEF Writeset
  <2>. QED BY <2>1, <2>2
<1>. QED
  BY <1>6, <1>7, FrameFields

-----------------------------------------------------------------------------
(* The inductive invariant *)

\* The initial state satisfies the invariant.
LEMMA InitInv == Init => EngineInv
<1> SUFFICES ASSUME Init PROVE EngineInv
  OBVIOUS
<1>1. TypeOK
  BY EngineAssumption, ZeroFrameType
     DEF Init, Promise!Init, TypeOK, InFlight, Answers
<1>2. NoOverdraft
  BY EngineAssumption DEF Init, Promise!Init, NoOverdraft
<1>3. LockProtectsReads
  BY DEF Init, LockProtectsReads, InTransaction
<1>4. Priced /\ Unrecorded
  BY DEF Init, Promise!Init, Priced, Unrecorded, OrderRowsOf, InTransaction
<1>. QED
  BY <1>1, <1>2, <1>3, <1>4 DEF EngineInv

\* What a commit appends is a well-formed row.
LEMMA OrderRowType ==
  ASSUME TypeOK, NEW r \in Requests,
         NEW status \in {"filled", "rejected"},
         NEW filledPrice \in Seq(Int),
         NEW reason \in Seq(Promise!RejectionReasons)
  PROVE  Promise!OrderRow(r, Account(r), Symbol(r), Side(r), Quantity(r),
                          status, filledPrice, reason) \in OrderRows
  BY FrameFields DEF Promise!OrderRow, OrderRows, Promise!Sides

\* What a fill appends to the trade log is a well-formed row.
LEMMA TradeRowType ==
  ASSUME TypeOK, NEW r \in Requests, Price(r) \in Prices,
         NEW realized \in Seq(Int), NEW b \in Int
  PROVE  Promise!TradeRow(r, Account(r), Symbol(r), Side(r), Quantity(r),
                          Price(r), realized, b) \in TradeRows
<1>1. Promise!StoredPrice(Price(r)) \in Int
  BY FrameFields, StoredPriceType, SameMoney
<1>. QED
  BY <1>1, FrameFields DEF Promise!TradeRow, TradeRows, Promise!Sides

\* A row appended for request r is on record for r and for nobody else.
LEMMA AppendRow ==
  ASSUME TypeOK, NEW r \in Requests, NEW row \in OrderRows, row.id = r,
         orders' = Append(orders, row), NEW s \in Requests, s # r
  PROVE  OrderRowsOf(s)' = OrderRowsOf(s)
  BY DEF TypeOK, OrderRowsOf

\* Releasing r's lock frees the accounts r held and no other.
LEMMA ReleaseType ==
  ASSUME TypeOK, NEW r \in Requests, Release(r)
  PROVE  /\ lock' \in [Accounts -> Requests \cup {NoRequest}]
         /\ \A a \in Accounts : lock'[a] = IF lock[a] = r THEN NoRequest ELSE lock[a]
  BY DEF TypeOK, Release

\* A commit keeps the tables typed and the account solvent.
LEMMA ApplyType ==
  ASSUME EngineInv, NEW r \in Requests, pc[r] = "commit", Apply(r)
  PROVE  /\ balance' \in [Accounts -> Int]
         /\ positions' \in [Accounts -> [Symbols -> [qty : Int, avg : Int]]]
         /\ orders' \in Seq(OrderRows)
         /\ trades' \in Seq(TradeRows)
         /\ lock' \in [Accounts -> Requests \cup {NoRequest}]
         /\ NoOverdraft'
         /\ \A s \in Requests : s # r => OrderRowsOf(s)' = OrderRowsOf(s)
         /\ \A a \in Accounts : a # Account(r) =>
              balance'[a] = balance[a] /\ positions'[a] = positions[a]
<1> DEFINE w == frame[r].staged
<1>1. TypeOK /\ NoOverdraft /\ Price(r) \in Prices /\ Price(r) \in Nat
  BY FrameFields DEF EngineInv, Priced, InTransaction
<1>2. w = Writes(r) /\ frame[r].read = balance[Account(r)]
  BY DEF EngineInv, LockProtectsReads, InTransaction
<1>3. /\ w \in Writeset
      /\ \/ w.status = "filled"
         \/ /\ w.status = "rejected"
            /\ w.reason \in {"insufficient_balance", "insufficient_position"}
      /\ w.status = "filled" => w.qty >= 0 /\ w.balance >= 0
  <2>1. frame[r].read >= 0
    BY <1>1, <1>2, FrameFields DEF NoOverdraft
  <2>. QED BY <1>1, <1>2, <2>1, WritesType
<1>4. Account(r) \in Accounts /\ Symbol(r) \in Symbols
  BY <1>1, FrameFields
<1>5. /\ lock' \in [Accounts -> Requests \cup {NoRequest}]
  BY <1>1, ReleaseType DEF Apply
<1>6. CASE w.status = "filled"
  <2>1. /\ balance' = [balance EXCEPT ![Account(r)] = w.balance]
        /\ positions' = [positions EXCEPT ![Account(r)][Symbol(r)] =
                           [qty |-> w.qty, avg |-> w.avg]]
        /\ insertOrder(r, "filled", <<StoredPrice(Price(r))>>, <<>>)
        /\ insertTrade(r, w.realized, w.balance)
    BY <1>6 DEF Apply
  <2>2. w.balance \in Int /\ w.qty \in Int /\ w.avg \in Int /\ w.realized \in Seq(Int)
    BY <1>3 DEF Writeset
  <2>3. balance' \in [Accounts -> Int]
    BY <1>1, <2>1, <2>2 DEF TypeOK
  <2>4. positions' \in [Accounts -> [Symbols -> [qty : Int, avg : Int]]]
    BY <1>1, <2>1, <2>2 DEF TypeOK
  <2>5. /\ orders' \in Seq(OrderRows)
        /\ \A s \in Requests : s # r => OrderRowsOf(s)' = OrderRowsOf(s)
    <3> DEFINE row == Promise!OrderRow(r, Account(r), Symbol(r), Side(r), Quantity(r),
                                       "filled", <<StoredPrice(Price(r))>>, <<>>)
    <3>1. <<StoredPrice(Price(r))>> \in Seq(Int)
      BY <1>1, StoredPriceType
    <3>2. row \in OrderRows
      <4>1. <<>> \in Seq(Promise!RejectionReasons)
        OBVIOUS
      <4>. QED BY <1>1, <3>1, <4>1, OrderRowType
    <3>4. row.id = r
      BY DEF Promise!OrderRow
    <3>3. orders' = Append(orders, row)
      BY <2>1 DEF insertOrder
    <3>. HIDE DEF row
    <3>. QED BY <1>1, <3>2, <3>3, <3>4, AppendRow DEF TypeOK
  <2>6. trades' \in Seq(TradeRows)
    <3>1. Promise!TradeRow(r, Account(r), Symbol(r), Side(r), Quantity(r), Price(r),
                           w.realized, w.balance) \in TradeRows
      BY <1>1, <2>2, TradeRowType
    <3>. QED BY <1>1, <2>1, <3>1 DEF insertTrade, TypeOK
  <2>7. NoOverdraft'
    <3>1. \A a \in Accounts : balance'[a] >= 0
      BY <1>1, <1>3, <1>6, <2>1, <2>2 DEF TypeOK, NoOverdraft
    <3>2. \A a \in Accounts, s \in Symbols : positions'[a][s].qty >= 0
      BY <1>1, <1>3, <1>4, <1>6, <2>1, <2>2 DEF TypeOK, NoOverdraft
    <3>. QED BY <3>1, <3>2 DEF NoOverdraft
  <2>8. \A a \in Accounts : a # Account(r) =>
          balance'[a] = balance[a] /\ positions'[a] = positions[a]
    BY <1>1, <2>1 DEF TypeOK
  <2>. QED BY <1>5, <2>3, <2>4, <2>5, <2>6, <2>7, <2>8
<1>7. CASE w.status = "rejected"
  <2>1. /\ insertOrder(r, "rejected", <<>>, <<w.reason>>)
        /\ UNCHANGED <<balance, positions, trades>>
    BY <1>7 DEF Apply
  <2>2. <<w.reason>> \in Seq(Promise!RejectionReasons)
    BY <1>3, <1>7 DEF Promise!RejectionReasons
  <2> DEFINE row == Promise!OrderRow(r, Account(r), Symbol(r), Side(r), Quantity(r),
                                     "rejected", <<>>, <<w.reason>>)
  <2>3. row \in OrderRows
    <3>1. <<>> \in Seq(Int)
      OBVIOUS
    <3>. QED BY <1>1, <2>2, <3>1, OrderRowType
  <2>6. row.id = r
    BY DEF Promise!OrderRow
  <2>4. orders' = Append(orders, row)
    BY <2>1 DEF insertOrder
  <2>5. NoOverdraft'
    BY <1>1, <2>1 DEF NoOverdraft
  <2>. HIDE DEF row
  <2>. QED BY <1>1, <1>5, <2>1, <2>3, <2>4, <2>5, <2>6, AppendRow DEF TypeOK
<1>. QED
  BY <1>3, <1>6, <1>7

\* What a transaction would write depends on its own locals and on its own
\* account's positions only.
LEMMA WritesFrame ==
  ASSUME NEW r \in Requests,
         frame'[r].order = frame[r].order,
         frame'[r].price = frame[r].price,
         frame'[r].read = frame[r].read,
         positions'[Account(r)] = positions[Account(r)]
  PROVE  Writes(r)' = Writes(r) /\ Account(r)' = Account(r)
<1>1. /\ Account(r)' = Account(r) /\ Symbol(r)' = Symbol(r) /\ Side(r)' = Side(r)
      /\ Quantity(r)' = Quantity(r) /\ Price(r)' = Price(r)
  BY DEF Account, Symbol, Side, Quantity, Price
<1>2. Held(r)' = Held(r)
  BY <1>1 DEF Held
<1>. QED
  BY <1>1, <1>2 DEF Writes, executeBuy, executeSell

\* A step of r that ends outside a transaction, releases what r held, and
\* changes no account but one that r held, disturbs no other transaction.
LEMMA OutsideStep ==
  ASSUME EngineInv, NEW r \in Requests,
         pc'[r] \notin InTransaction,
         \A s \in Requests \ {r} : pc'[s] = pc[s] /\ frame'[s] = frame[s],
         \A a \in Accounts : lock'[a] = IF lock[a] = r THEN NoRequest ELSE lock[a],
         \A a \in Accounts : lock[a] # r =>
           balance'[a] = balance[a] /\ positions'[a] = positions[a]
  PROVE  LockProtectsReads'
<1>1. TypeOK /\ LockProtectsReads
  BY DEF EngineInv
<1>2. \A s \in Requests \ {r} : pc[s] \in InTransaction =>
        /\ Account(s) \in Accounts
        /\ lock[Account(s)] = s
        /\ positions'[Account(s)] = positions[Account(s)]
        /\ balance'[Account(s)] = balance[Account(s)]
  BY <1>1, FrameFields DEF LockProtectsReads
<1>3. \A s \in Requests \ {r} : pc[s] \in InTransaction =>
        Writes(s)' = Writes(s) /\ Account(s)' = Account(s)
  BY <1>2, WritesFrame
<1>4. \A a \in Accounts : lock'[a] # NoRequest =>
        pc'[lock'[a]] \in InTransaction /\ frame'[lock'[a]].order.account = a
  <2> SUFFICES ASSUME NEW a \in Accounts, lock'[a] # NoRequest
               PROVE  pc'[lock'[a]] \in InTransaction /\ frame'[lock'[a]].order.account = a
    OBVIOUS
  <2>1. lock'[a] = lock[a] /\ lock[a] # NoRequest /\ lock[a] \in Requests \ {r}
    BY <1>1 DEF TypeOK
  <2>2. pc[lock[a]] \in InTransaction /\ Account(lock[a]) = a
    BY <1>1, <2>1 DEF LockProtectsReads
  <2>3. frame'[lock[a]] = frame[lock[a]] /\ pc'[lock[a]] = pc[lock[a]]
    BY <2>1
  <2>. QED BY <2>1, <2>2, <2>3 DEF Account
<1>5. \A s \in Requests : pc'[s] \in InTransaction =>
        lock'[Account(s)'] = s /\ frame'[s].read = balance'[Account(s)']
  BY <1>1, <1>2, <1>3 DEF LockProtectsReads
<1>6. \A s \in Requests : pc'[s] = "commit" => frame'[s].staged = Writes(s)'
  BY <1>1, <1>3 DEF LockProtectsReads, InTransaction
<1>. QED
  BY <1>4, <1>5, <1>6 DEF LockProtectsReads, Account

\* Every step keeps the invariant.
LEMMA NextInv == EngineInv /\ [Next]_vars => EngineInv'
<1> SUFFICES ASSUME EngineInv, [Next]_vars PROVE EngineInv'
  OBVIOUS
<1> USE DEF ledgerVars, txVars
<1>0. TypeOK /\ NoOverdraft /\ LockProtectsReads /\ Priced /\ Unrecorded
  BY DEF EngineInv
<1>1. ASSUME NEW r \in Requests, PlaceOrder(r) PROVE EngineInv'
  <2>1. /\ pc[r] = "idle"
        /\ pc' \in [Requests -> {"idle", "done", "crashed"} \cup InFlight]
        /\ pc'[r] \in {"price", "done"}
        /\ \A s \in Requests \ {r} : pc'[s] = pc[s] /\ frame'[s] = frame[s]
    BY <1>0, <1>1 DEF PlaceOrder, Goto, Answer, TypeOK, InFlight
  <2>2. frame' \in [Requests -> Frame]
    <3>1. CASE frame' = [frame EXCEPT ![r] = ZeroFrame]
      BY <1>0, <3>1, ZeroFrameType DEF TypeOK
    <3>2. ASSUME NEW o \in Order, frame' = [frame EXCEPT ![r].order = o]
          PROVE  frame' \in [Requests -> Frame]
      BY <1>0, <3>2 DEF TypeOK, Frame
    <3>. QED BY <1>1, <3>1, <3>2, validateOrderType DEF PlaceOrder, Answer
  <2>3. reply' \in [Requests -> Answers]
    BY <1>0, <1>1 DEF PlaceOrder, Answer, TypeOK, Answers
  <2>4. UNCHANGED <<balance, positions, orders, trades, lock, clock, startedAt>>
    BY <1>1 DEF PlaceOrder
  <2>5. TypeOK'
    BY <1>0, <2>1, <2>2, <2>3, <2>4 DEF TypeOK
  <2>6. LockProtectsReads'
    <3>1. \A a \in Accounts : lock[a] # r
      BY <1>0, <2>1, EngineAssumption DEF LockProtectsReads, InTransaction
    <3>. QED BY <2>1, <2>4, <3>1, OutsideStep DEF InTransaction
  <2>7. NoOverdraft'
    BY <1>0, <2>4 DEF NoOverdraft
  <2>8. Priced' /\ Unrecorded'
    BY <1>0, <2>1, <2>4 DEF Priced, Unrecorded, OrderRowsOf, Price, InTransaction
  <2>. QED BY <2>5, <2>6, <2>7, <2>8 DEF EngineInv
<1>2. ASSUME NEW r \in Requests, LatestPrice(r) PROVE EngineInv'
  <2>1. /\ pc[r] = "price"
        /\ pc' \in [Requests -> {"idle", "done", "crashed"} \cup InFlight]
        /\ pc'[r] \in {"begin", "record"}
        /\ \A s \in Requests \ {r} : pc'[s] = pc[s] /\ frame'[s] = frame[s]
    BY <1>0, <1>2 DEF LatestPrice, Goto, TypeOK, InFlight
  <2>2. /\ frame' \in [Requests -> Frame]
        /\ pc'[r] = "begin" => frame'[r].price \in Prices
    <3>1. ASSUME NEW p \in Prices, frame' = [frame EXCEPT ![r].price = p]
          PROVE  frame' \in [Requests -> Frame] /\ frame'[r].price \in Prices
      BY <1>0, <3>1 DEF TypeOK, Frame
    <3>2. CASE UNCHANGED frame /\ Goto(r, "record")
      BY <1>0, <3>2 DEF TypeOK, Goto
    <3>. QED BY <1>2, <3>1, <3>2 DEF LatestPrice
  <2>4. UNCHANGED <<balance, positions, orders, trades, lock, clock, startedAt, reply>>
    BY <1>2 DEF LatestPrice
  <2>5. TypeOK'
    BY <1>0, <2>1, <2>2, <2>4 DEF TypeOK
  <2>6. LockProtectsReads'
    <3>1. \A a \in Accounts : lock[a] # r
      BY <1>0, <2>1, EngineAssumption DEF LockProtectsReads, InTransaction
    <3>. QED BY <2>1, <2>4, <3>1, OutsideStep DEF InTransaction
  <2>7. NoOverdraft'
    BY <1>0, <2>4 DEF NoOverdraft
  <2>8. Priced' /\ Unrecorded'
    BY <1>0, <2>1, <2>2, <2>4 DEF Priced, Unrecorded, OrderRowsOf, Price, InTransaction
  <2>. QED BY <2>5, <2>6, <2>7, <2>8 DEF EngineInv
<1>3. ASSUME NEW r \in Requests, recordRejection(r) PROVE EngineInv'
  <2>1. /\ pc[r] = "record"
        /\ pc' \in [Requests -> {"idle", "done", "crashed"} \cup InFlight]
        /\ pc'[r] = "done"
        /\ \A s \in Requests \ {r} : pc'[s] = pc[s] /\ frame'[s] = frame[s]
    BY <1>0, <1>3 DEF recordRejection, Goto, Answer, TypeOK, InFlight
  <2>2. frame' \in [Requests -> Frame]
    BY <1>0, <1>3, ZeroFrameType DEF recordRejection, Answer, TypeOK
  <2>3. /\ reply' \in [Requests -> Answers]
        /\ clock' \in Nat /\ startedAt' \in [Requests -> Nat]
    <3>1. PICK reason \in {"symbol_unavailable", "upstream_unavailable"} : Answer(r, reason)
      BY <1>3 DEF recordRejection
    <3>2. reply' \in [Requests -> Answers]
      BY <1>0, <3>1 DEF Answer, TypeOK, Answers, Promise!RejectionReasons
    <3>3. \/ UNCHANGED <<startedAt, clock>>
          \/ startedAt' = [startedAt EXCEPT ![r] = clock] /\ clock' = clock + 1
      BY <1>3 DEF recordRejection
    <3>4. clock' \in Nat /\ startedAt' \in [Requests -> Nat]
      <4>1. clock \in Nat /\ startedAt \in [Requests -> Nat]
        BY <1>0 DEF TypeOK
      <4>2. CASE UNCHANGED <<startedAt, clock>>
        BY <4>1, <4>2
      <4>3. CASE startedAt' = [startedAt EXCEPT ![r] = clock] /\ clock' = clock + 1
        BY <4>1, <4>3
      <4>. QED BY <3>3, <4>2, <4>3
    <3>. QED BY <3>2, <3>4
  <2>4. UNCHANGED <<balance, positions, trades, lock>>
    BY <1>3 DEF recordRejection
  <2>5. /\ orders' \in Seq(OrderRows)
        /\ \A s \in Requests \ {r} : OrderRowsOf(s)' = OrderRowsOf(s)
    <3>1. CASE UNCHANGED orders
      BY <1>0, <3>1 DEF TypeOK, OrderRowsOf
    <3>2. ASSUME NEW reason \in {"symbol_unavailable", "upstream_unavailable"},
                 insertOrder(r, "rejected", <<>>, <<reason>>)
          PROVE  /\ orders' \in Seq(OrderRows)
                 /\ \A s \in Requests \ {r} : OrderRowsOf(s)' = OrderRowsOf(s)
      <4> DEFINE row == Promise!OrderRow(r, Account(r), Symbol(r), Side(r), Quantity(r),
                                         "rejected", <<>>, <<reason>>)
      <4>1. <<>> \in Seq(Int) /\ <<reason>> \in Seq(Promise!RejectionReasons)
        BY DEF Promise!RejectionReasons
      <4>2. row \in OrderRows
        BY <1>0, <4>1, OrderRowType
      <4>3. row.id = r
        BY DEF Promise!OrderRow
      <4>4. orders' = Append(orders, row)
        BY <3>2 DEF insertOrder
      <4>. HIDE DEF row
      <4>. QED BY <1>0, <4>2, <4>3, <4>4, AppendRow DEF TypeOK
    <3>. QED BY <1>3, <3>1, <3>2 DEF recordRejection
  <2>6. TypeOK'
    BY <1>0, <2>1, <2>2, <2>3, <2>4, <2>5 DEF TypeOK
  <2>7. LockProtectsReads'
    <3>1. \A a \in Accounts : lock[a] # r
      BY <1>0, <2>1, EngineAssumption DEF LockProtectsReads, InTransaction
    <3>. QED BY <2>1, <2>4, <3>1, OutsideStep DEF InTransaction
  <2>8. NoOverdraft'
    BY <1>0, <2>4 DEF NoOverdraft
  <2>9. Priced' /\ Unrecorded'
    BY <1>0, <2>1, <2>5 DEF Priced, Unrecorded, Price, InTransaction
  <2>. QED BY <2>6, <2>7, <2>8, <2>9 DEF EngineInv
<1>4. ASSUME NEW r \in Requests, Begin(r) PROVE EngineInv'
  <2>1. /\ pc[r] = "begin"
        /\ pc' \in [Requests -> {"idle", "done", "crashed"} \cup InFlight]
        /\ pc'[r] = "lock"
        /\ \A s \in Requests \ {r} : pc'[s] = pc[s]
    BY <1>0, <1>4 DEF Begin, Goto, TypeOK, InFlight
  <2>2. UNCHANGED <<balance, positions, orders, trades, lock, frame, reply>>
    BY <1>4 DEF Begin
  <2>3. clock' \in Nat /\ startedAt' \in [Requests -> Nat]
    BY <1>0, <1>4 DEF Begin, TypeOK
  <2>5. TypeOK'
    BY <1>0, <2>1, <2>2, <2>3 DEF TypeOK
  <2>6. LockProtectsReads'
    <3>1. \A a \in Accounts : lock[a] # r
      BY <1>0, <2>1, EngineAssumption DEF LockProtectsReads, InTransaction
    <3>. QED BY <2>1, <2>2, <3>1, OutsideStep DEF InTransaction
  <2>7. NoOverdraft'
    BY <1>0, <2>2 DEF NoOverdraft
  <2>8. Priced' /\ Unrecorded'
    BY <1>0, <2>1, <2>2 DEF Priced, Unrecorded, OrderRowsOf, Price, InTransaction
  <2>. QED BY <2>5, <2>6, <2>7, <2>8 DEF EngineInv
<1>5. ASSUME NEW r \in Requests, LockAccount(r) PROVE EngineInv'
  <2> DEFINE c == Account(r)
  <2>1. /\ pc[r] = "lock"
        /\ pc' \in [Requests -> {"idle", "done", "crashed"} \cup InFlight]
        /\ pc'[r] = "execute"
        /\ \A s \in Requests \ {r} : pc'[s] = pc[s]
    BY <1>0, <1>5 DEF LockAccount, Goto, TypeOK, InFlight
  <2>2. UNCHANGED <<balance, positions, orders, trades, clock, startedAt, reply>>
    BY <1>5 DEF LockAccount
  <2>3. /\ c \in Accounts /\ lock[c] = NoRequest /\ lock' = [lock EXCEPT ![c] = r]
        /\ frame' = [frame EXCEPT ![r].read = balance[c]]
    BY <1>0, <1>5, FrameFields DEF LockAccount
  <2>4. /\ frame' \in [Requests -> Frame]
        /\ \A s \in Requests \ {r} : frame'[s] = frame[s]
        /\ frame'[r].order = frame[r].order /\ frame'[r].price = frame[r].price
        /\ frame'[r].read = balance[c]
    <3>1. balance[c] \in Int /\ frame \in [Requests -> Frame]
      BY <1>0, <2>3 DEF TypeOK
    <3>. HIDE DEF c
    <3>. QED BY <2>3, <3>1 DEF Frame
  <2>5. TypeOK'
    BY <1>0, <2>1, <2>2, <2>3, <2>4 DEF TypeOK
  <2>6. LockProtectsReads'
    <3>1. \A s \in Requests : Account(s)' = Account(s)
      BY <2>4 DEF Account
    <3>2. \A s \in Requests \ {r} : pc[s] \in InTransaction => Writes(s)' = Writes(s)
      BY <2>2, <2>4, WritesFrame
    <3>3. \A a \in Accounts : lock'[a] # NoRequest =>
            pc'[lock'[a]] \in InTransaction /\ frame'[lock'[a]].order.account = a
      <4> SUFFICES ASSUME NEW a \in Accounts, lock'[a] # NoRequest
                   PROVE  pc'[lock'[a]] \in InTransaction /\ frame'[lock'[a]].order.account = a
        OBVIOUS
      <4>1. CASE a = c
        BY <1>0, <2>1, <2>3, <2>4, <4>1 DEF TypeOK, InTransaction, Account
      <4>2. CASE a # c
        <5>1. lock'[a] = lock[a] /\ lock[a] \in Requests
          BY <1>0, <2>3, <4>2 DEF TypeOK
        <5>2. pc[lock[a]] \in InTransaction /\ frame[lock[a]].order.account = a
          BY <1>0, <5>1 DEF LockProtectsReads, Account
        <5>3. lock[a] # r
          BY <2>1, <5>2 DEF InTransaction
        <5>. QED BY <2>1, <2>4, <5>1, <5>2, <5>3
      <4>. QED BY <4>1, <4>2
    <3>4. \A s \in Requests : pc'[s] \in InTransaction =>
            lock'[Account(s)'] = s /\ frame'[s].read = balance'[Account(s)']
      <4> SUFFICES ASSUME NEW s \in Requests, pc'[s] \in InTransaction
                   PROVE  lock'[Account(s)] = s /\ frame'[s].read = balance[Account(s)]
        BY <2>2, <3>1
      <4>1. CASE s = r
        BY <1>0, <2>3, <2>4, <4>1 DEF TypeOK
      <4>2. CASE s # r
        <5>1. pc[s] \in InTransaction /\ frame'[s] = frame[s] /\ Account(s) \in Accounts
          BY <1>0, <2>1, <2>4, <4>2, FrameFields
        <5>2. lock[Account(s)] = s /\ frame[s].read = balance[Account(s)]
          BY <1>0, <5>1 DEF LockProtectsReads
        <5>3. Account(s) # c
          BY <2>3, <5>2, EngineAssumption
        <5>. QED BY <1>0, <2>3, <5>1, <5>2, <5>3 DEF TypeOK
      <4>. QED BY <4>1, <4>2
    <3>5. \A s \in Requests : pc'[s] = "commit" => frame'[s].staged = Writes(s)'
      BY <1>0, <2>1, <2>4, <3>2 DEF LockProtectsReads, InTransaction
    <3>. QED BY <3>3, <3>4, <3>5 DEF LockProtectsReads, Account
  <2>7. NoOverdraft'
    BY <1>0, <2>2 DEF NoOverdraft
  <2>8. Priced' /\ Unrecorded'
    BY <1>0, <2>1, <2>2, <2>4 DEF Priced, Unrecorded, OrderRowsOf, Price, InTransaction
  <2>. QED BY <2>5, <2>6, <2>7, <2>8 DEF EngineInv
<1>6. ASSUME NEW r \in Requests, ExecuteOrder(r) PROVE EngineInv'
  <2>1. /\ pc[r] = "execute"
        /\ pc' \in [Requests -> {"idle", "done", "crashed"} \cup InFlight]
        /\ pc'[r] = "commit"
        /\ \A s \in Requests \ {r} : pc'[s] = pc[s]
    BY <1>0, <1>6 DEF ExecuteOrder, Goto, TypeOK, InFlight
  <2>2. UNCHANGED <<balance, positions, orders, trades, lock, clock, startedAt, reply>>
    BY <1>6 DEF ExecuteOrder
  <2>3. /\ frame' \in [Requests -> Frame]
        /\ \A s \in Requests : /\ frame'[s].order = frame[s].order
                               /\ frame'[s].price = frame[s].price
                               /\ frame'[s].read = frame[s].read
        /\ \A s \in Requests \ {r} : frame'[s] = frame[s]
        /\ frame'[r].staged = Writes(r)
    <3>1. Writes(r) \in Writeset
      BY <1>0, WritesType
    <3>2. frame' = [frame EXCEPT ![r].staged = Writes(r)] /\ frame \in [Requests -> Frame]
      BY <1>0, <1>6 DEF ExecuteOrder, TypeOK
    <3>. QED BY <3>1, <3>2 DEF Frame
  <2>5. TypeOK'
    BY <1>0, <2>1, <2>2, <2>3 DEF TypeOK
  <2>6. LockProtectsReads'
    <3>1. \A s \in Requests : Writes(s)' = Writes(s) /\ Account(s)' = Account(s)
      BY <2>2, <2>3, WritesFrame
    <3>2. \A a \in Accounts : lock'[a] # NoRequest =>
            pc'[lock'[a]] \in InTransaction /\ frame'[lock'[a]].order.account = a
      BY <1>0, <2>1, <2>2, <2>3 DEF LockProtectsReads, TypeOK, InTransaction, Account
    <3>3. \A s \in Requests : pc'[s] \in InTransaction =>
            lock'[Account(s)'] = s /\ frame'[s].read = balance'[Account(s)']
      BY <1>0, <2>1, <2>2, <2>3, <3>1 DEF LockProtectsReads, InTransaction
    <3>4. \A s \in Requests : pc'[s] = "commit" => frame'[s].staged = Writes(s)'
      BY <1>0, <2>1, <2>3, <3>1 DEF LockProtectsReads
    <3>. QED BY <3>2, <3>3, <3>4 DEF LockProtectsReads, Account
  <2>7. NoOverdraft'
    BY <1>0, <2>2 DEF NoOverdraft
  <2>8. Priced' /\ Unrecorded'
    BY <1>0, <2>1, <2>2, <2>3 DEF Priced, Unrecorded, OrderRowsOf, Price, InTransaction
  <2>. QED BY <2>5, <2>6, <2>7, <2>8 DEF EngineInv
<1>7. ASSUME NEW r \in Requests, Commit(r) \/ CommitUnacknowledged(r) PROVE EngineInv'
  <2>1. /\ pc[r] = "commit" /\ Apply(r)
        /\ UNCHANGED <<clock, startedAt>>
    BY <1>7 DEF Commit, CommitUnacknowledged
  <2>2. /\ pc' \in [Requests -> {"idle", "done", "crashed"} \cup InFlight]
        /\ pc'[r] \in {"invalidate", "done"}
        /\ \A s \in Requests \ {r} : pc'[s] = pc[s] /\ frame'[s] = frame[s]
    BY <1>0, <1>7 DEF Commit, CommitUnacknowledged, Goto, Answer, TypeOK, InFlight
  <2>3. frame' \in [Requests -> Frame]
    BY <1>0, <1>7, ZeroFrameType DEF Commit, CommitUnacknowledged, Answer, TypeOK
  <2>4. reply' \in [Requests -> Answers]
    <3>1. frame[r].staged.reason \in Answers
      BY <1>0, FrameFields DEF Writeset, Answers, Promise!RejectionReasons
    <3>2. "internal_error" \in Answers
      BY DEF Answers
    <3>. QED BY <1>0, <1>7, <3>1, <3>2 DEF Commit, CommitUnacknowledged, Answer, TypeOK
  <2>5. TypeOK'
    BY <2>1, <1>0, <2>2, <2>3, <2>4, ApplyType DEF TypeOK
  <2>6. LockProtectsReads'
    <3>1. \A a \in Accounts : lock'[a] = IF lock[a] = r THEN NoRequest ELSE lock[a]
      BY <1>0, <2>1, ReleaseType DEF Apply
    <3>2. lock[Account(r)] = r
      BY <1>0, <2>1 DEF LockProtectsReads, InTransaction
    <3>3. \A a \in Accounts : lock[a] # r =>
            balance'[a] = balance[a] /\ positions'[a] = positions[a]
      BY <2>1, <3>2, ApplyType
    <3>. QED BY <2>2, <3>1, <3>3, OutsideStep DEF InTransaction
  <2>7. NoOverdraft'
    BY <2>1, ApplyType
  <2>8. Priced' /\ Unrecorded'
    <3>1. \A s \in Requests \ {r} : OrderRowsOf(s)' = OrderRowsOf(s)
      BY <2>1, ApplyType
    <3>. QED BY <1>0, <2>2, <3>1 DEF Priced, Unrecorded, Price, InTransaction
  <2>. QED BY <2>5, <2>6, <2>7, <2>8 DEF EngineInv
<1>8. ASSUME NEW r \in Requests, Rollback(r) PROVE EngineInv'
  <2>1. /\ pc' \in [Requests -> {"idle", "done", "crashed"} \cup InFlight]
        /\ pc'[r] = "done"
        /\ \A s \in Requests \ {r} : pc'[s] = pc[s] /\ frame'[s] = frame[s]
    BY <1>0, <1>8 DEF Rollback, Goto, Answer, TypeOK, InFlight
  <2>2. UNCHANGED <<balance, positions, orders, trades, clock, startedAt>>
    BY <1>8 DEF Rollback
  <2>3. frame' \in [Requests -> Frame] /\ reply' \in [Requests -> Answers]
    BY <1>0, <1>8, ZeroFrameType DEF Rollback, Answer, TypeOK, Answers
  <2>4. /\ lock' \in [Accounts -> Requests \cup {NoRequest}]
        /\ \A a \in Accounts : lock'[a] = IF lock[a] = r THEN NoRequest ELSE lock[a]
    BY <1>0, <1>8, ReleaseType DEF Rollback
  <2>5. TypeOK'
    BY <1>0, <2>1, <2>2, <2>3, <2>4 DEF TypeOK
  <2>6. LockProtectsReads'
    BY <2>1, <2>2, <2>4, OutsideStep DEF InTransaction
  <2>7. NoOverdraft'
    BY <1>0, <2>2 DEF NoOverdraft
  <2>8. Priced' /\ Unrecorded'
    BY <1>0, <2>1, <2>2 DEF Priced, Unrecorded, OrderRowsOf, Price, InTransaction
  <2>. QED BY <2>5, <2>6, <2>7, <2>8 DEF EngineInv
<1>9. ASSUME NEW r \in Requests, invalidateInsights(r) PROVE EngineInv'
  <2>1. /\ pc[r] = "invalidate"
        /\ pc' \in [Requests -> {"idle", "done", "crashed"} \cup InFlight]
        /\ pc'[r] = "done"
        /\ \A s \in Requests \ {r} : pc'[s] = pc[s] /\ frame'[s] = frame[s]
    BY <1>0, <1>9 DEF invalidateInsights, Goto, Answer, TypeOK, InFlight
  <2>2. UNCHANGED <<balance, positions, orders, trades, lock, clock, startedAt>>
    BY <1>9 DEF invalidateInsights
  <2>3. frame' \in [Requests -> Frame] /\ reply' \in [Requests -> Answers]
    BY <1>0, <1>9, ZeroFrameType DEF invalidateInsights, Answer, TypeOK, Answers
  <2>5. TypeOK'
    BY <1>0, <2>1, <2>2, <2>3 DEF TypeOK
  <2>6. LockProtectsReads'
    <3>1. \A a \in Accounts : lock[a] # r
      BY <1>0, <2>1, EngineAssumption DEF LockProtectsReads, InTransaction
    <3>. QED BY <2>1, <2>2, <3>1, OutsideStep DEF InTransaction
  <2>7. NoOverdraft'
    BY <1>0, <2>2 DEF NoOverdraft
  <2>8. Priced' /\ Unrecorded'
    BY <1>0, <2>1, <2>2 DEF Priced, Unrecorded, OrderRowsOf, Price, InTransaction
  <2>. QED BY <2>5, <2>6, <2>7, <2>8 DEF EngineInv
<1>10. ASSUME Crash PROVE EngineInv'
  <2>1. /\ pc' \in [Requests -> {"idle", "done", "crashed"} \cup InFlight]
        /\ \A s \in Requests : pc'[s] \in {"idle", "done", "crashed"}
        /\ \A s \in Requests : pc'[s] = "idle" => pc[s] = "idle"
    BY <1>0, <1>10 DEF Crash, TypeOK
  <2>2. UNCHANGED <<balance, positions, orders, trades, clock, startedAt, reply>>
    BY <1>10 DEF Crash
  <2>3. frame' \in [Requests -> Frame] /\ lock' = [a \in Accounts |-> NoRequest]
    BY <1>10, ZeroFrameType DEF Crash
  <2>5. TypeOK'
    BY <1>0, <2>1, <2>2, <2>3 DEF TypeOK
  <2>6. LockProtectsReads'
    BY <2>1, <2>3 DEF LockProtectsReads, InTransaction
  <2>7. NoOverdraft'
    BY <1>0, <2>2 DEF NoOverdraft
  <2>8. Priced' /\ Unrecorded'
    BY <1>0, <2>1, <2>2 DEF Priced, Unrecorded, OrderRowsOf, InTransaction
  <2>. QED BY <2>5, <2>6, <2>7, <2>8 DEF EngineInv
<1>11. CASE UNCHANGED vars
  <2>1. UNCHANGED <<balance, positions, orders, trades, lock, clock, startedAt,
                    pc, frame, reply>>
    BY <1>11 DEF vars
  <2>2. TypeOK' /\ NoOverdraft' /\ Priced' /\ Unrecorded'
    BY <1>0, <2>1 DEF TypeOK, NoOverdraft, Priced, Unrecorded, OrderRowsOf, Price
  <2>3. LockProtectsReads'
    <3>1. \A s \in Requests : Writes(s)' = Writes(s) /\ Account(s)' = Account(s)
      BY <2>1, WritesFrame
    <3>. QED BY <1>0, <2>1, <3>1 DEF LockProtectsReads, Account
  <2>. QED BY <2>2, <2>3 DEF EngineInv
<1>. QED
  BY <1>1, <1>2, <1>3, <1>4, <1>5, <1>6, <1>7, <1>8, <1>9, <1>10, <1>11 DEF Next, Progress

-----------------------------------------------------------------------------
(* Invariance *)

\* The invariant holds in every reachable state.
THEOREM Invariance == Spec => []EngineInv
<1>. QED
  BY InitInv, NextInv, PTL DEF Spec

\* The state of PlaceOrder's requests and of the tables stays well formed.
THEOREM TypeCorrect == Spec => []TypeOK
<1>1. EngineInv => TypeOK
  BY DEF EngineInv
<1>. QED
  BY <1>1, Invariance, PTL

\* The FOR UPDATE lock keeps a transaction's reads current until it commits.
THEOREM LockSafety == Spec => []LockProtectsReads
<1>1. EngineInv => LockProtectsReads
  BY DEF EngineInv
<1>. QED
  BY <1>1, Invariance, PTL

-----------------------------------------------------------------------------
(* Nothing is spent twice *)

\* What a log leaves of an account's cash, and of its shares of a symbol: the first
\* value, and at each row what that row makes of the value before it.
CashRuns(f, a, log) ==
  f[0] = StartingBalance /\ \A i \in 1..Len(log) : f[i] = CashLeft(a, f[i - 1], log[i])
SharesRuns(f, a, s, log) ==
  f[0] = 0 /\ \A i \in 1..Len(log) : f[i] = SharesLeft(a, s, f[i - 1], log[i])

\* A row makes an integer of an integer.
LEMMA LeftType ==
  ASSUME NEW row \in TradeRows, NEW a, NEW x \in Int
  PROVE  CashLeft(a, x, row) \in Int /\ \A s : SharesLeft(a, s, x, row) \in Int
<1>1. row.quantity \in Int /\ row.fill \in Int
  <2>1. row.quantity \in Promise!Quantities /\ row.fill \in Prices
    BY DEF TradeRows
  <2>2. Promise!Quantities \subseteq Int /\ Prices \subseteq Int
    BY EngineAssumption DEF Promise!Quantities
  <2>. QED BY <2>1, <2>2
<1>2. CashScale \in Nat \ {0}
  BY CashScaleType
<1>3. /\ x * CashScale - row.fill * row.quantity \in Int
      /\ x * CashScale + row.fill * row.quantity \in Int
  BY <1>1, <1>2
<1>4. /\ RoundNat(x * CashScale - row.fill * row.quantity, CashScale) \in Int
      /\ RoundNat(x * CashScale + row.fill * row.quantity, CashScale) \in Int
  BY <1>2, <1>3, RoundNatType
<1>. QED BY <1>1, <1>4 DEF CashLeft, SharesLeft, BalanceAfterBuy, BalanceAfterSell

\* The replay of the cash is the function its definition describes.
LEMMA CashAfterIs ==
  ASSUME TypeOK, NEW a
  PROVE  CashAfter(a) \in [0..Len(trades) -> Int] /\ CashRuns(CashAfter(a), a, trades)
<1> DEFINE n == Len(trades)
           Solves(f) == f = [i \in 0..n |->
                               IF i = 0 THEN StartingBalance ELSE CashLeft(a, f[i - 1], trades[i])]
           step == [i \in 1..n |-> [x \in Int |-> CashLeft(a, x, trades[i])]]
<1>1. n \in Nat /\ \A i \in 1..n : trades[i] \in TradeRows
  BY DEF TypeOK
<1>2. step \in [1..n -> [Int -> Int]] /\ StartingBalance \in Int
  <2>1. \A i \in 1..n, x \in Int : CashLeft(a, x, trades[i]) \in Int
    BY <1>1, LeftType
  <2>. QED BY <2>1, EngineAssumption
<1>3. PICK f \in [0..n -> Int] : f[0] = StartingBalance /\ \A i \in 1..n : f[i] = step[i][f[i - 1]]
  <2>1. Runnable(n, Int, StartingBalance, step)
    <3>. HIDE DEF step, n
    <3>. QED BY <1>1, <1>2, ForwardRecursionExists
  <2>. HIDE DEF step, n
  <2>. QED BY <2>1 DEF Runnable, Runs
<1>4. \A i \in 1..n : f[i - 1] \in Int
  BY <1>1, SMTT(30)
<1>5. \A i \in 1..n : f[i] = CashLeft(a, f[i - 1], trades[i])
  BY <1>3, <1>4
<1>6. Solves(f)
  BY <1>1, <1>3, <1>5
<1> DEFINE g == CHOOSE h : Solves(h)
<1>7. Solves(g)
  <2>. HIDE DEF Solves
  <2>. QED BY <1>6
<1>8. CashAfter(a) = g
  BY DEF CashAfter
<1>9. Alike(g, f, n)
  <2>. HIDE DEF g
  <2>1. g[0] = f[0]
    BY <1>1, <1>6, <1>7
  <2>2. \A i \in 1..n : g[i - 1] = f[i - 1] => g[i] = f[i]
    BY <1>1, <1>6, <1>7
  <2>. QED BY <1>1, <2>1, <2>2, AgreeAlong DEF Stepwise
<1>. HIDE DEF g
<1>10. g = [i \in 0..n |-> g[i]]
  BY <1>7
<1>11. g = f
  BY <1>3, <1>9, <1>10 DEF Alike
<1>. QED BY <1>3, <1>5, <1>8, <1>11 DEF CashRuns

\* So is the replay of the shares.
LEMMA SharesAfterIs ==
  ASSUME TypeOK, NEW a, NEW s
  PROVE  SharesAfter(a, s) \in [0..Len(trades) -> Int] /\ SharesRuns(SharesAfter(a, s), a, s, trades)
<1> DEFINE n == Len(trades)
           Solves(f) == f = [i \in 0..n |->
                               IF i = 0 THEN 0 ELSE SharesLeft(a, s, f[i - 1], trades[i])]
           step == [i \in 1..n |-> [x \in Int |-> SharesLeft(a, s, x, trades[i])]]
<1>1. n \in Nat /\ \A i \in 1..n : trades[i] \in TradeRows
  BY DEF TypeOK
<1>2. step \in [1..n -> [Int -> Int]] /\ 0 \in Int
  <2>1. \A i \in 1..n, x \in Int : SharesLeft(a, s, x, trades[i]) \in Int
    BY <1>1, LeftType
  <2>. QED BY <2>1
<1>3. PICK f \in [0..n -> Int] : f[0] = 0 /\ \A i \in 1..n : f[i] = step[i][f[i - 1]]
  <2>1. Runnable(n, Int, 0, step)
    <3>. HIDE DEF step, n
    <3>. QED BY <1>1, <1>2, ForwardRecursionExists
  <2>. HIDE DEF step, n
  <2>. QED BY <2>1 DEF Runnable, Runs
<1>4. \A i \in 1..n : f[i - 1] \in Int
  BY <1>1, SMTT(30)
<1>5. \A i \in 1..n : f[i] = SharesLeft(a, s, f[i - 1], trades[i])
  BY <1>3, <1>4
<1>6. Solves(f)
  BY <1>1, <1>3, <1>5
<1> DEFINE g == CHOOSE h : Solves(h)
<1>7. Solves(g)
  <2>. HIDE DEF Solves
  <2>. QED BY <1>6
<1>8. SharesAfter(a, s) = g
  BY DEF SharesAfter
<1>9. Alike(g, f, n)
  <2>. HIDE DEF g
  <2>1. g[0] = f[0]
    BY <1>1, <1>6, <1>7
  <2>2. \A i \in 1..n : g[i - 1] = f[i - 1] => g[i] = f[i]
    BY <1>1, <1>6, <1>7
  <2>. QED BY <1>1, <2>1, <2>2, AgreeAlong DEF Stepwise
<1>. HIDE DEF g
<1>10. g = [i \in 0..n |-> g[i]]
  BY <1>7
<1>11. g = f
  BY <1>3, <1>9, <1>10 DEF Alike
<1>. QED BY <1>3, <1>5, <1>8, <1>11 DEF SharesRuns

\* A row added to the log changes nothing that was left before it.
LEMMA ReplayGrows ==
  ASSUME TypeOK, TypeOK', NEW row \in TradeRows, trades' = Append(trades, row), NEW a, NEW s
  PROVE  /\ \A i \in 0..Len(trades) : CashAfter(a)'[i] = CashAfter(a)[i]
         /\ \A i \in 0..Len(trades) : SharesAfter(a, s)'[i] = SharesAfter(a, s)[i]
         /\ CashAfter(a)'[Len(trades) + 1] = CashLeft(a, CashAfter(a)[Len(trades)], row)
         /\ SharesAfter(a, s)'[Len(trades) + 1] = SharesLeft(a, s, SharesAfter(a, s)[Len(trades)], row)
<1> DEFINE n == Len(trades)
           c == CashAfter(a)   d == CashAfter(a)'
           h == SharesAfter(a, s)   k == SharesAfter(a, s)'
<1>1. /\ n \in Nat /\ Len(trades') = n + 1
      /\ \A i \in 1..n : trades'[i] = trades[i]
      /\ trades'[n + 1] = row
  BY DEF TypeOK
<1>2. CashRuns(c, a, trades) /\ SharesRuns(h, a, s, trades)
  BY CashAfterIs, SharesAfterIs
<1>3. CashRuns(d, a, trades') /\ SharesRuns(k, a, s, trades')
  <2>1. (TypeOK => CashRuns(CashAfter(a), a, trades) /\ SharesRuns(SharesAfter(a, s), a, s, trades))'
    BY CashAfterIs, SharesAfterIs, PTL
  <2>. QED BY <2>1
<1>. HIDE DEF c, d, h, k, n
<1>4. /\ \A i \in 1..n : c[i] = CashLeft(a, c[i - 1], trades[i]) /\ d[i] = CashLeft(a, d[i - 1], trades[i])
      /\ \A i \in 1..n : h[i] = SharesLeft(a, s, h[i - 1], trades[i]) /\ k[i] = SharesLeft(a, s, k[i - 1], trades[i])
      /\ c[0] = d[0] /\ h[0] = k[0]
      /\ d[n + 1] = CashLeft(a, d[n], row) /\ k[n + 1] = SharesLeft(a, s, k[n], row)
  <2>1. /\ n = Len(trades) /\ \A i \in 1..n : i \in 1..(n + 1)
        /\ n + 1 \in 1..(n + 1) /\ (n + 1) - 1 = n
    BY <1>1 DEF n
  <2>. QED BY <1>1, <1>2, <1>3, <2>1 DEF CashRuns, SharesRuns
<1>5. Stepwise(d, c, n) /\ Stepwise(k, h, n)
  BY <1>4 DEF Stepwise
<1>6. Alike(d, c, n) /\ Alike(k, h, n)
  BY <1>1, <1>5, AgreeAlong
<1>7. \A i \in 0..n : d[i] = c[i] /\ k[i] = h[i]
  BY <1>6 DEF Alike
<1>8. n \in 0..n
  BY <1>1
<1>. QED BY <1>1, <1>4, <1>7, <1>8 DEF c, d, h, k, n

\* Where the account rows and the log stand still, so does what they add up to.
LEMMA SpentUnchanged ==
  ASSUME SpentOnce, balance' = balance, positions' = positions, trades' = trades
  PROVE  SpentOnce'
<1>1. ASSUME NEW a, NEW s
      PROVE  CashAfter(a)' = CashAfter(a) /\ SharesAfter(a, s)' = SharesAfter(a, s)
  BY DEF CashAfter, SharesAfter
<1>2. ASSUME NEW a, NEW n
      PROVE  Covered(a, n)' <=> Covered(a, n)
  <2>1. PICK row : row = trades[n]
    OBVIOUS
  <2>2. PICK s : s = row.symbol
    OBVIOUS
  <2>3. trades[n] = row /\ trades'[n] = row
    BY <2>1
  <2>4. SharesAfter(a, s)' = SharesAfter(a, s) /\ CashAfter(a)' = CashAfter(a)
    BY <1>1
  <2>. QED BY <2>2, <2>3, <2>4 DEF Covered
<1>. QED BY <1>1, <1>2 DEF SpentOnce

\* A commit spends what the log had left, under the lock and by its locals.
LEMMA ApplySpends ==
  ASSUME EngineInv, EngineInv', SpentOnce, NEW r \in Requests, pc[r] = "commit", Apply(r)
  PROVE  SpentOnce'
<1> DEFINE n == Len(trades)
           w == frame[r].staged
           b == Account(r)
<1>1. TypeOK /\ TypeOK' /\ w = Writes(r) /\ frame[r].read = balance[b]
  BY DEF EngineInv, LockProtectsReads, InTransaction
<1>2. CASE w.status = "rejected"
  <2>1. UNCHANGED <<balance, positions, trades>>
    BY <1>2 DEF Apply
  <2>. QED BY <2>1, SpentUnchanged
<1>3. CASE w.status = "filled"
  <2>1. /\ balance' = [balance EXCEPT ![b] = w.balance]
        /\ positions' = [positions EXCEPT ![b][Symbol(r)] = [qty |-> w.qty, avg |-> w.avg]]
        /\ insertTrade(r, w.realized, w.balance)
    BY <1>3 DEF Apply
  <2>2. PICK row \in TradeRows :
          /\ trades' = Append(trades, row)
          /\ row.account = b /\ row.symbol = Symbol(r) /\ row.side = Side(r)
          /\ row.quantity = Quantity(r) /\ row.fill = Price(r)
    <3>1. Price(r) \in Prices /\ w \in Writeset
      BY <1>1, FrameFields DEF EngineInv, Priced, InTransaction
    <3>. QED BY <1>1, <2>1, <3>1, TradeRowType DEF insertTrade, Writeset, Promise!TradeRow
  <2>3. b \in Accounts /\ Symbol(r) \in Symbols /\ Side(r) \in {"buy", "sell"}
    BY <1>1, FrameFields DEF Promise!Sides
  <2>4. /\ n \in Nat /\ Len(trades') = n + 1 /\ DOMAIN trades = 1..n /\ DOMAIN trades' = 1..(n + 1)
        /\ \A i \in 1..n : trades'[i] = trades[i]
        /\ trades'[n + 1] = row
    BY <1>1, <2>2 DEF TypeOK
  <2>5. ASSUME NEW a \in Accounts
        PROVE  /\ \A i \in 0..n : CashAfter(a)'[i] = CashAfter(a)[i]
               /\ \A s \in Symbols : \A i \in 0..n : SharesAfter(a, s)'[i] = SharesAfter(a, s)[i]
               /\ CashAfter(a)'[n + 1] = CashLeft(a, CashAfter(a)[n], row)
               /\ \A s \in Symbols :
                    SharesAfter(a, s)'[n + 1] = SharesLeft(a, s, SharesAfter(a, s)[n], row)
    BY <1>1, <2>2, ReplayGrows
  <2>6. /\ balance[b] = CashAfter(b)[n]
        /\ Held(r).qty = SharesAfter(b, Symbol(r))[n]
        /\ w = IF Side(r) = "buy" THEN executeBuy(r) ELSE executeSell(r)
    BY <1>1, <2>3 DEF SpentOnce, Held, Writes
  <2>7. /\ w.balance = CashLeft(b, CashAfter(b)[n], row)
        /\ w.qty = SharesLeft(b, Symbol(r), SharesAfter(b, Symbol(r))[n], row)
    BY <1>1, <1>3, <2>2, <2>3, <2>6 DEF executeBuy, executeSell, Reject, CashLeft, SharesLeft
  <2>8. IF row.side = "buy" THEN row.fill * row.quantity <= CashAfter(b)[n] * CashScale
                            ELSE row.quantity <= SharesAfter(b, row.symbol)[n]
    <3>1. Price(r) * Quantity(r) <= balance[b] * CashScale \/ Side(r) # "buy"
      <4>1. Price(r) \in Int /\ Quantity(r) \in Int /\ balance[b] \in Int /\ CashScale \in Int
        BY <1>1, <2>3, FrameFields, CashScaleType DEF TypeOK
      <4>2. Price(r) * Quantity(r) \in Int /\ balance[b] * CashScale \in Int
        BY <4>1
      <4>3. CASE Side(r) = "buy"
        <5>1. ~ (Price(r) * Quantity(r) > balance[b] * CashScale)
          BY <1>1, <1>3, <2>6, <4>3 DEF executeBuy, Reject
        <5>. QED BY <4>2, <5>1
      <4>. QED BY <4>3
    <3>2. Quantity(r) <= Held(r).qty \/ Side(r) = "buy"
      <4>1. Quantity(r) \in Int /\ Held(r).qty \in Int
        BY <1>1, <2>3, FrameFields DEF TypeOK, Held
      <4>2. CASE Side(r) # "buy"
        <5>1. ~ (Quantity(r) > Held(r).qty)
          BY <1>3, <2>6, <4>2 DEF executeSell, Reject
        <5>. QED BY <4>1, <5>1
      <4>. QED BY <4>2
    <3>. QED BY <2>2, <2>6, <3>1, <3>2
  <2>9. ASSUME NEW a \in Accounts
        PROVE  balance'[a] = CashAfter(a)'[n + 1]
    <3>1. CASE a = b
      BY <1>1, <2>1, <2>3, <2>5, <2>7, <3>1 DEF TypeOK
    <3>2. CASE a # b
      <4>1. balance'[a] = balance[a] /\ CashLeft(a, CashAfter(a)[n], row) = CashAfter(a)[n]
        BY <1>1, <2>1, <2>2, <3>2 DEF TypeOK, CashLeft
      <4>. QED BY <2>5, <4>1 DEF SpentOnce
    <3>. QED BY <3>1, <3>2
  <2>10. ASSUME NEW a \in Accounts, NEW s \in Symbols
         PROVE  positions'[a][s].qty = SharesAfter(a, s)'[n + 1]
    <3>1. CASE a = b /\ s = Symbol(r)
      <4>1. positions'[a][s].qty = w.qty
        BY <1>1, <2>1, <2>3, <3>1 DEF TypeOK
      <4>. QED BY <2>3, <2>5, <2>7, <3>1, <4>1
    <3>2. CASE ~ (a = b /\ s = Symbol(r))
      <4>1. positions'[a][s] = positions[a][s]
        BY <1>1, <2>1, <3>2 DEF TypeOK
      <4>2. SharesLeft(a, s, SharesAfter(a, s)[n], row) = SharesAfter(a, s)[n]
        BY <2>2, <3>2 DEF SharesLeft
      <4>. QED BY <2>5, <4>1, <4>2 DEF SpentOnce
    <3>. QED BY <3>1, <3>2
  <2>11. ASSUME NEW a \in Accounts, NEW i \in 1..(n + 1), trades'[i].account = a
         PROVE  Covered(a, i)'
    <3>1. CASE i = n + 1
      <4>1. a = b /\ trades'[i] = row /\ i - 1 = n /\ n \in 0..n
        BY <2>2, <2>4, <2>11, <3>1
      <4>2. /\ CashAfter(a)'[i - 1] = CashAfter(b)[n]
            /\ SharesAfter(a, row.symbol)'[i - 1] = SharesAfter(b, row.symbol)[n]
        BY <2>2, <2>3, <2>5, <4>1
      <4>. QED BY <2>8, <4>1, <4>2 DEF Covered
    <3>2. CASE i # n + 1
      <4>1. i \in 1..n /\ i - 1 \in 0..n /\ trades'[i] = trades[i]
        BY <2>4, <3>2
      <4>2. PICK old \in TradeRows : trades[i] = old
        BY <1>1, <2>4, <4>1 DEF TypeOK
      <4>3. PICK s \in Symbols : old.symbol = s
        BY DEF TradeRows
      <4>4. /\ CashAfter(a)'[i - 1] = CashAfter(a)[i - 1]
            /\ SharesAfter(a, s)'[i - 1] = SharesAfter(a, s)[i - 1]
        BY <2>5, <4>1
      <4>5. Covered(a, i)
        BY <2>4, <2>11, <4>1 DEF SpentOnce
      <4>. QED BY <4>1, <4>2, <4>3, <4>4, <4>5 DEF Covered
    <3>. QED BY <3>1, <3>2
  <2>. QED BY <2>4, <2>9, <2>10, <2>11 DEF SpentOnce
<1>4. w.status \in {"filled", "rejected"}
  BY DEF Apply
<1>. QED BY <1>2, <1>3, <1>4

\* Nothing has been spent before the first order.
LEMMA InitSpent == Init => SpentOnce
<1> SUFFICES ASSUME Init PROVE SpentOnce
  OBVIOUS
<1>1. TypeOK
  BY InitInv DEF EngineInv
<1>2. /\ trades = <<>> /\ Len(trades) = 0 /\ DOMAIN trades = {}
      /\ \A a \in Accounts : /\ balance[a] = StartingBalance
                             /\ \A s \in Symbols : positions[a][s].qty = 0
  BY DEF Init, Promise!Init
<1>. QED BY <1>1, <1>2, CashAfterIs, SharesAfterIs DEF CashRuns, SharesRuns, SpentOnce

\* Only a commit touches the cash, the shares or the log.
LEMMA NextSpent == EngineInv /\ EngineInv' /\ SpentOnce /\ [Next]_vars => SpentOnce'
<1> SUFFICES ASSUME EngineInv, EngineInv', SpentOnce, [Next]_vars
             PROVE  SpentOnce'
  OBVIOUS
<1>1. ASSUME UNCHANGED <<balance, positions, trades>>
      PROVE  SpentOnce'
  BY <1>1, SpentUnchanged
<1>2. ASSUME NEW r \in Requests, PlaceOrder(r) \/ Progress(r) \/ CommitUnacknowledged(r) \/ Rollback(r)
      PROVE  SpentOnce'
  <2>1. CASE Commit(r) \/ CommitUnacknowledged(r)
    BY <2>1, ApplySpends DEF Commit, CommitUnacknowledged
  <2>2. CASE ~ (Commit(r) \/ CommitUnacknowledged(r))
    BY <1>1, <1>2, <2>2
       DEF Progress, PlaceOrder, LatestPrice, recordRejection, Begin, LockAccount, ExecuteOrder,
           Rollback, invalidateInsights, ledgerVars
  <2>. QED BY <2>1, <2>2
<1>3. CASE Crash
  BY <1>1, <1>3 DEF Crash, ledgerVars
<1>4. CASE UNCHANGED vars
  BY <1>1, <1>4 DEF vars, ledgerVars
<1>. QED BY <1>2, <1>3, <1>4 DEF Next

\* ExecuteOrder never spends cash or shares twice, however many orders run at once
\* and whichever of them fail: each fill on record was covered by what the fills
\* before it left, and the account and position rows are what the log adds up to.
THEOREM NothingSpentTwice == Spec => []SpentOnce
<1>. QED
  BY InitSpent, NextSpent, Invariance, PTL DEF Spec

-----------------------------------------------------------------------------
(* The engine implements the atomic ledger *)

\* A commit is one step of the ledger: a buy the cash covers, a sell the
\* shares cover, or a refusal that is true when it is recorded.
LEMMA ApplyIsLedgerStep ==
  ASSUME EngineInv, NEW r \in Requests, pc[r] = "commit", Apply(r)
  PROVE  Promise!Next
<1> DEFINE w == frame[r].staged
           a == Account(r)
           s == Symbol(r)
           q == Quantity(r)
           p == Price(r)
<1>1. /\ TypeOK /\ NoOverdraft /\ p \in Prices /\ a \in Accounts /\ s \in Symbols
      /\ q \in Promise!Quantities /\ Side(r) \in {"buy", "sell"}
      /\ q \in Nat /\ p \in Nat /\ Held(r).qty \in Int /\ balance[a] \in Int
  BY FrameFields DEF EngineInv, Priced, InTransaction, TypeOK
<1>2. w = Writes(r) /\ frame[r].read = balance[a]
  BY DEF EngineInv, LockProtectsReads, InTransaction
<1>3. ~Promise!Recorded(r)
  BY DEF EngineInv, Unrecorded, OrderRowsOf, Promise!Recorded, InTransaction
<1>4. Held(r) = positions[a][s]
  BY DEF Held
<1>5. CASE Side(r) = "buy" /\ ~(p * q > balance[a] * CashScale)
  <2>1. w = [status |-> "filled", reason |-> "none",
             balance |-> BalanceAfterBuy(balance[a], q, p),
             qty |-> positions[a][s].qty + q,
             avg |-> WeightedAvgCost(positions[a][s].qty, positions[a][s].avg, q, p),
             realized |-> <<>>]
    BY <1>2, <1>4, <1>5 DEF Writes, executeBuy
  <2>2. p * q <= balance[a] * CashScale
    BY <1>1, <1>5, CashScaleType
  <2>3. Promise!Buy(r, a, s, q, p)
    BY <1>3, <1>5, <2>1, <2>2, SameMoney, SMTT(30)
       DEF Apply, Promise!Buy, insertOrder, insertTrade
  <2>. QED BY <1>1, <2>3 DEF Promise!Next
<1>6. CASE Side(r) = "sell" /\ ~(q > positions[a][s].qty)
  <2>1. w = [status |-> "filled", reason |-> "none",
             balance |-> BalanceAfterSell(balance[a], q, p),
             qty |-> positions[a][s].qty - q,
             avg |-> positions[a][s].avg,
             realized |-> <<RealizedPL(positions[a][s].avg, p, q)>>]
    BY <1>2, <1>4, <1>6 DEF Writes, executeSell
  <2>2. q <= positions[a][s].qty
    BY <1>1, <1>4, <1>6
  <2>3. Promise!Sell(r, a, s, q, p)
    BY <1>3, <1>6, <2>1, <2>2, SameMoney, SMTT(30)
       DEF Apply, Promise!Sell, insertOrder, insertTrade
  <2>. QED BY <1>1, <2>3 DEF Promise!Next
<1>7. ASSUME NEW reason \in Promise!RejectionReasons, w = Reject(reason),
             Promise!Justified(a, s, Side(r), q, reason)
      PROVE  Promise!Next
  <2>1. w.status = "rejected" /\ w.reason = reason
    BY <1>7 DEF Reject
  <2>2. Promise!Decline(r, a, s, Side(r), q, reason)
    BY <1>3, <1>7, <2>1 DEF Apply, Promise!Decline, insertOrder
  <2>. QED BY <1>1, <2>2 DEF Promise!Next, Promise!Sides
<1>8. CASE Side(r) = "buy" /\ p * q > balance[a] * CashScale
  <2>1. w = Reject("insufficient_balance")
    BY <1>2, <1>8 DEF Writes, executeBuy
  <2>2. Promise!Justified(a, s, Side(r), q, "insufficient_balance")
    BY <1>1, <1>8, SameMoney DEF Promise!Justified
  <2>. QED BY <1>7, <2>1, <2>2 DEF Promise!RejectionReasons
<1>9. CASE Side(r) = "sell" /\ q > positions[a][s].qty
  <2>1. w = Reject("insufficient_position")
    BY <1>2, <1>4, <1>9 DEF Writes, executeSell
  <2>2. Promise!Justified(a, s, Side(r), q, "insufficient_position")
    BY <1>9 DEF Promise!Justified
  <2>. QED BY <1>7, <2>1, <2>2 DEF Promise!RejectionReasons
<1>. QED
  BY <1>1, <1>5, <1>6, <1>8, <1>9

\* Every step of the engine is a step of the ledger or leaves the tables alone.
LEMMA StepSimulation ==
  EngineInv /\ [Next]_vars => [Promise!Next]_(Promise!ledgerVars)
<1> SUFFICES ASSUME EngineInv, [Next]_vars, ~UNCHANGED ledgerVars
             PROVE  Promise!Next
  BY DEF ledgerVars, Promise!ledgerVars
<1>1. ASSUME NEW r \in Requests, recordRejection(r) PROVE Promise!Next
  <2>1. PICK reason \in {"symbol_unavailable", "upstream_unavailable"} :
          insertOrder(r, "rejected", <<>>, <<reason>>)
    BY <1>1 DEF recordRejection, ledgerVars
  <2>2. ~Promise!Recorded(r)
    BY <1>1 DEF EngineInv, Unrecorded, OrderRowsOf, Promise!Recorded, recordRejection
  <2>3. Promise!Decline(r, Account(r), Symbol(r), Side(r), Quantity(r), reason)
    BY <1>1, <2>1, <2>2 DEF Promise!Decline, Promise!Justified, insertOrder, recordRejection
  <2>. QED
    BY <2>3, FrameFields DEF EngineInv, Promise!Next, Promise!Sides, Promise!RejectionReasons
<1>2. ASSUME NEW r \in Requests, Commit(r) \/ CommitUnacknowledged(r) PROVE Promise!Next
  BY <1>2, ApplyIsLedgerStep DEF Commit, CommitUnacknowledged
<1>. QED
  BY <1>1, <1>2
     DEF Next, Progress, vars, ledgerVars, PlaceOrder, LatestPrice, Begin, LockAccount,
         ExecuteOrder, Rollback, invalidateInsights, Crash

\* However PlaceOrder's requests interleave, fail and crash, the committed
\* tables behave as if every order had run alone.
THEOREM ImplementsLedger == Spec => Serializable
<1>1. Init => Promise!Init
  BY DEF Init
<1>. QED
  BY <1>1, Invariance, StepSimulation, PTL DEF Spec, Serializable, Promise!Spec

-----------------------------------------------------------------------------
(* What is answered is what is on record *)

\* A row appended for r is on record for r, after the rows that were there.
LEMMA AppendOwnRow ==
  ASSUME TypeOK, NEW r \in Requests, NEW row \in OrderRows, row.id = r,
         orders' = Append(orders, row), OrderRowsOf(r) = {}
  PROVE  \E i \in DOMAIN orders' : OrderRowsOf(r)' = {i} /\ orders'[i] = row
<1>1. /\ orders \in Seq(OrderRows) /\ Len(orders) \in Nat
      /\ DOMAIN orders = 1..Len(orders)
  BY DEF TypeOK
<1>2. /\ DOMAIN orders' = 1..(Len(orders) + 1)
      /\ orders'[Len(orders) + 1] = row
      /\ \A i \in 1..Len(orders) : orders'[i] = orders[i]
  BY <1>1
<1>3. OrderRowsOf(r)' = {Len(orders) + 1}
  BY <1>1, <1>2 DEF OrderRowsOf
<1>. QED
  BY <1>1, <1>2, <1>3

\* The same of the trade log.
LEMMA AppendOwnTrade ==
  ASSUME TypeOK, NEW r \in Requests, NEW row \in TradeRows, row.order = r,
         trades' = Append(trades, row), TradeRowsOf(r) = {}
  PROVE  \E i \in DOMAIN trades' : TradeRowsOf(r)' = {i}
<1>1. /\ trades \in Seq(TradeRows) /\ Len(trades) \in Nat
      /\ DOMAIN trades = 1..Len(trades)
  BY DEF TypeOK
<1>2. /\ DOMAIN trades' = 1..(Len(trades) + 1)
      /\ trades'[Len(trades) + 1] = row
      /\ \A i \in 1..Len(trades) : trades'[i] = trades[i]
  BY <1>1
<1>3. TradeRowsOf(r)' = {Len(trades) + 1}
  BY <1>1, <1>2 DEF TradeRowsOf
<1>. QED
  BY <1>1, <1>2, <1>3

\* A commit leaves the rows of every other request as they were, its own order
\* row, and a trade row of its own if it fills.
LEMMA ApplyRecords ==
  ASSUME EngineInv, NEW r \in Requests, pc[r] = "commit", Apply(r),
         AnswersMatchLedger
  PROVE  /\ \A s \in Requests \ {r} :
              /\ OrderRowsOf(s)' = OrderRowsOf(s) /\ TradeRowsOf(s)' = TradeRowsOf(s)
              /\ \A i \in OrderRowsOf(s) : orders'[i] = orders[i]
         /\ \E i \in DOMAIN orders' :
              /\ OrderRowsOf(r)' = {i}
              /\ \/ /\ frame[r].staged.status = "filled" /\ orders'[i].status = "filled"
                    /\ \E j \in DOMAIN trades' : TradeRowsOf(r)' = {j}
                 \/ /\ frame[r].staged.status = "rejected" /\ orders'[i].status = "rejected"
                    /\ orders'[i].reason = <<frame[r].staged.reason>>
                    /\ frame[r].staged.reason \in {"insufficient_balance", "insufficient_position"}
                    /\ TradeRowsOf(r)' = {}
<1> DEFINE w == frame[r].staged
<1>1. /\ TypeOK /\ NoOverdraft /\ Price(r) \in Prices /\ Price(r) \in Nat
      /\ w = Writes(r) /\ OrderRowsOf(r) = {} /\ TradeRowsOf(r) = {}
  BY FrameFields
     DEF EngineInv, Priced, LockProtectsReads, Unrecorded, InTransaction,
         AnswersMatchLedger, Agrees
<1>2. /\ w \in Writeset
      /\ \/ w.status = "filled"
         \/ /\ w.status = "rejected"
            /\ w.reason \in {"insufficient_balance", "insufficient_position"}
  BY <1>1, WritesType
<1>3. ASSUME NEW row \in OrderRows, row.id = r, orders' = Append(orders, row)
      PROVE  /\ \A s \in Requests \ {r} : /\ OrderRowsOf(s)' = OrderRowsOf(s)
                                         /\ \A i \in OrderRowsOf(s) : orders'[i] = orders[i]
             /\ \E i \in DOMAIN orders' : OrderRowsOf(r)' = {i} /\ orders'[i] = row
  <2>1. \A i \in DOMAIN orders : orders'[i] = orders[i]
    BY <1>1, <1>3 DEF TypeOK
  <2>2. \A s \in Requests : OrderRowsOf(s) \subseteq DOMAIN orders
    BY DEF OrderRowsOf
  <2>. QED BY <1>1, <1>3, <2>1, <2>2, AppendRow, AppendOwnRow
<1>4. CASE w.status = "filled"
  <2> DEFINE row == Promise!OrderRow(r, Account(r), Symbol(r), Side(r), Quantity(r),
                                     "filled", <<StoredPrice(Price(r))>>, <<>>)
             sold == Promise!TradeRow(r, Account(r), Symbol(r), Side(r), Quantity(r),
                                      Price(r), w.realized, w.balance)
  <2>1. orders' = Append(orders, row) /\ trades' = Append(trades, sold)
    BY <1>4 DEF Apply, insertOrder, insertTrade
  <2>2. row \in OrderRows
    <3>1. <<StoredPrice(Price(r))>> \in Seq(Int) /\ <<>> \in Seq(Promise!RejectionReasons)
      BY <1>1, StoredPriceType
    <3>. QED BY <1>1, <3>1, OrderRowType
  <2>3. sold \in TradeRows
    BY <1>1, <1>2, TradeRowType DEF Writeset
  <2>4. row.id = r /\ row.status = "filled" /\ sold.order = r
    BY DEF Promise!OrderRow, Promise!TradeRow
  <2>. HIDE DEF row, sold
  <2>5. \A s \in Requests \ {r} : TradeRowsOf(s)' = TradeRowsOf(s)
    BY <1>1, <2>1, <2>3, <2>4 DEF TypeOK, TradeRowsOf
  <2>6. \E j \in DOMAIN trades' : TradeRowsOf(r)' = {j}
    BY <1>1, <2>1, <2>3, <2>4, AppendOwnTrade
  <2>7. PICK i \in DOMAIN orders' : OrderRowsOf(r)' = {i} /\ orders'[i] = row
    BY <1>3, <2>1, <2>2, <2>4
  <2>8. \A s \in Requests \ {r} : /\ OrderRowsOf(s)' = OrderRowsOf(s)
                                  /\ \A k \in OrderRowsOf(s) : orders'[k] = orders[k]
    BY <1>3, <2>1, <2>2, <2>4
  <2>9. orders'[i].status = "filled"
    BY <2>4, <2>7
  <2>. QED BY <1>4, <2>5, <2>6, <2>7, <2>8, <2>9
<1>5. CASE w.status = "rejected"
  <2> DEFINE row == Promise!OrderRow(r, Account(r), Symbol(r), Side(r), Quantity(r),
                                     "rejected", <<>>, <<w.reason>>)
  <2>1. orders' = Append(orders, row) /\ trades' = trades
    BY <1>5 DEF Apply, insertOrder
  <2>2. row \in OrderRows
    <3>1. <<w.reason>> \in Seq(Promise!RejectionReasons) /\ <<>> \in Seq(Int)
      BY <1>2, <1>5 DEF Promise!RejectionReasons
    <3>. QED BY <1>1, <3>1, OrderRowType
  <2>3. row.id = r /\ row.status = "rejected" /\ row.reason = <<w.reason>>
    BY DEF Promise!OrderRow
  <2>4. \A s \in Requests : TradeRowsOf(s)' = TradeRowsOf(s)
    BY <2>1 DEF TradeRowsOf
  <2>. HIDE DEF row
  <2>5. PICK i \in DOMAIN orders' : OrderRowsOf(r)' = {i} /\ orders'[i] = row
    BY <1>3, <2>1, <2>2, <2>3
  <2>6. \A s \in Requests \ {r} : /\ OrderRowsOf(s)' = OrderRowsOf(s)
                                  /\ \A k \in OrderRowsOf(s) : orders'[k] = orders[k]
    BY <1>3, <2>1, <2>2, <2>3
  <2>7. orders'[i].status = "rejected" /\ orders'[i].reason = <<w.reason>>
    BY <2>3, <2>5
  <2>8. w.reason \in {"insufficient_balance", "insufficient_position"}
    BY <1>2, <1>5
  <2>9. TradeRowsOf(r)' = {}
    BY <1>1, <2>4
  <2>. QED BY <1>5, <2>4, <2>5, <2>6, <2>7, <2>8, <2>9
<1>. QED
  BY <1>2, <1>4, <1>5

\* A request whose rows and answer a step leaves alone agrees as before.
LEMMA AgreementKept ==
  ASSUME NEW s \in Requests, Agrees(s), reply'[s] = reply[s],
         OrderRowsOf(s)' = OrderRowsOf(s), TradeRowsOf(s)' = TradeRowsOf(s),
         \A i \in OrderRowsOf(s) : orders'[i] = orders[i]
  PROVE  Agrees(s)'
  BY DEF Agrees

\* Initially nothing is on record and nobody has an answer.
LEMMA InitAnswers == Init => AnswersInv
  BY DEF Init, Promise!Init, AnswersInv, AnswersMatchLedger, AnsweredLast, Agrees,
         OrderRowsOf, TradeRowsOf

\* Every step keeps answers and records in agreement.
LEMMA NextAnswers == EngineInv /\ AnswersInv /\ [Next]_vars => AnswersInv'
<1> SUFFICES ASSUME EngineInv, AnswersInv, [Next]_vars PROVE AnswersInv'
  OBVIOUS
<1> USE DEF ledgerVars, txVars
<1>0. /\ TypeOK /\ AnswersMatchLedger /\ AnsweredLast
      /\ \A r \in Requests : pc[r] \in {"idle", "price", "record", "begin", "lock",
                                        "execute", "commit"} =>
           OrderRowsOf(r) = {} /\ TradeRowsOf(r) = {}
  BY DEF EngineInv, AnswersInv, Unrecorded, InTransaction, AnswersMatchLedger, Agrees
\* Steps that write no row: the request that moves has no rows, or is already filled.
<1>1. ASSUME NEW r \in Requests, UNCHANGED <<orders, trades>>,
             pc[r] # "done", pc'[r] # "invalidate",
             \A s \in Requests \ {r} : pc'[s] = pc[s] /\ reply'[s] = reply[s],
             pc'[r] # "done" => reply'[r] = reply[r],
             \/ reply'[r] \in {"none", "internal_error"}
             \/ reply'[r] = "invalid_request" /\ pc[r] = "idle"
             \/ reply'[r] = "filled" /\ pc[r] = "invalidate"
             \/ reply'[r] \in {"symbol_unavailable", "upstream_unavailable"} /\ pc[r] = "record"
      PROVE  AnswersInv'
  <2>1. \A s \in Requests : OrderRowsOf(s)' = OrderRowsOf(s) /\ TradeRowsOf(s)' = TradeRowsOf(s)
    BY <1>1 DEF OrderRowsOf, TradeRowsOf
  <2>2. \A s \in Requests \ {r} : Agrees(s)'
    BY <1>0, <1>1, <2>1, AgreementKept DEF AnswersMatchLedger
  <2>3. Agrees(r)'
    <3>1. Agrees(r)
      BY <1>0 DEF AnswersMatchLedger
    <3>2. CASE reply'[r] \in {"none", "internal_error"}
      BY <1>1, <2>1, <3>1, <3>2 DEF Agrees
    <3>3. CASE reply'[r] = "invalid_request" /\ pc[r] = "idle"
      BY <1>0, <1>1, <2>1, <3>1, <3>3 DEF Agrees
    <3>4. CASE reply'[r] = "filled" /\ pc[r] = "invalidate"
      BY <1>0, <1>1, <2>1, <3>1, <3>4 DEF Agrees, AnsweredLast
    <3>5. CASE /\ reply'[r] \in {"symbol_unavailable", "upstream_unavailable"}
               /\ pc[r] = "record"
      BY <1>0, <1>1, <2>1, <3>1, <3>5 DEF Agrees
    <3>. QED BY <1>1, <3>2, <3>3, <3>4, <3>5
  <2>4. AnsweredLast'
    BY <1>0, <1>1, <2>1 DEF AnsweredLast
  <2>. QED BY <2>2, <2>3, <2>4 DEF AnswersInv, AnswersMatchLedger
<1>2. ASSUME NEW r \in Requests, PlaceOrder(r) PROVE AnswersInv'
  <2>1. /\ UNCHANGED <<orders, trades>> /\ pc[r] = "idle" /\ reply[r] = "none"
        /\ pc'[r] \in {"price", "done"}
        /\ \A s \in Requests \ {r} : pc'[s] = pc[s] /\ reply'[s] = reply[s]
        /\ pc'[r] # "done" => reply'[r] = reply[r]
        /\ reply'[r] \in {"none", "invalid_request", "internal_error"}
    BY <1>0, <1>2 DEF PlaceOrder, Goto, Answer, TypeOK, AnsweredLast
  <2>. QED BY <1>1, <2>1
<1>3. ASSUME NEW r \in Requests, recordRejection(r) PROVE AnswersInv'
  <2>1. PICK reason \in {"symbol_unavailable", "upstream_unavailable"} :
          /\ Answer(r, reason)
          /\ insertOrder(r, "rejected", <<>>, <<reason>>) \/ UNCHANGED orders
    BY <1>3 DEF recordRejection
  <2>2. /\ pc[r] = "record" /\ pc'[r] = "done" /\ reply'[r] = reason /\ UNCHANGED trades
        /\ \A s \in Requests \ {r} : pc'[s] = pc[s] /\ reply'[s] = reply[s]
    BY <1>0, <1>3, <2>1 DEF recordRejection, Answer, Goto, TypeOK
  <2>3. CASE UNCHANGED orders
    BY <1>1, <2>2, <2>3
  <2>4. CASE insertOrder(r, "rejected", <<>>, <<reason>>)
    <3> DEFINE row == Promise!OrderRow(r, Account(r), Symbol(r), Side(r), Quantity(r),
                                       "rejected", <<>>, <<reason>>)
    <3>1. row \in OrderRows
      <4>1. <<>> \in Seq(Int) /\ <<reason>> \in Seq(Promise!RejectionReasons)
        BY DEF Promise!RejectionReasons
      <4>. QED BY <1>0, <4>1, OrderRowType
    <3>2. row.id = r /\ row.status = "rejected" /\ row.reason = <<reason>>
      BY DEF Promise!OrderRow
    <3>3. orders' = Append(orders, row)
      BY <2>4 DEF insertOrder
    <3>. HIDE DEF row
    <3>4. \A s \in Requests \ {r} : OrderRowsOf(s)' = OrderRowsOf(s)
      BY <1>0, <3>1, <3>2, <3>3, AppendRow
    <3>5. \A s \in Requests : \A i \in OrderRowsOf(s) : orders'[i] = orders[i]
      BY <1>0, <3>1, <3>3 DEF TypeOK, OrderRowsOf
    <3>6. PICK i \in DOMAIN orders' : OrderRowsOf(r)' = {i} /\ orders'[i] = row
      BY <1>0, <2>2, <3>1, <3>2, <3>3, AppendOwnRow
    <3>7. \A s \in Requests : TradeRowsOf(s)' = TradeRowsOf(s)
      BY <2>2 DEF TradeRowsOf
    <3>8. \A s \in Requests \ {r} : Agrees(s)'
      BY <1>0, <2>2, <3>4, <3>5, <3>7, AgreementKept DEF AnswersMatchLedger
    <3>9. Agrees(r)'
      <4>1. TradeRowsOf(r)' = {} /\ reply'[r] = reason
        BY <1>0, <2>2, <3>7
      <4>. QED BY <3>2, <3>6, <4>1 DEF Agrees
    <3>10. AnsweredLast'
      BY <1>0, <2>2, <3>7 DEF AnsweredLast
    <3>. QED BY <3>8, <3>9, <3>10 DEF AnswersInv, AnswersMatchLedger
  <2>. QED BY <2>1, <2>3, <2>4
<1>4. ASSUME NEW r \in Requests, Commit(r) \/ CommitUnacknowledged(r) PROVE AnswersInv'
  <2>1. /\ pc[r] = "commit" /\ Apply(r) /\ reply[r] = "none"
        /\ \A s \in Requests \ {r} : pc'[s] = pc[s] /\ reply'[s] = reply[s]
        /\ \/ /\ pc'[r] = "invalidate" /\ reply'[r] = "none"
              /\ frame[r].staged.status = "filled"
           \/ /\ pc'[r] = "done" /\ reply'[r] = frame[r].staged.reason
              /\ frame[r].staged.status # "filled"
           \/ pc'[r] = "done" /\ reply'[r] = "internal_error"
    BY <1>0, <1>4 DEF Commit, CommitUnacknowledged, Goto, Answer, TypeOK, AnsweredLast
  <2>2. \A s \in Requests \ {r} :
          /\ OrderRowsOf(s)' = OrderRowsOf(s) /\ TradeRowsOf(s)' = TradeRowsOf(s)
          /\ \A i \in OrderRowsOf(s) : orders'[i] = orders[i]
    BY <1>0, <2>1, ApplyRecords
  <2>3. PICK i \in DOMAIN orders' :
          /\ OrderRowsOf(r)' = {i}
          /\ \/ /\ frame[r].staged.status = "filled" /\ orders'[i].status = "filled"
                /\ \E j \in DOMAIN trades' : TradeRowsOf(r)' = {j}
             \/ /\ frame[r].staged.status = "rejected" /\ orders'[i].status = "rejected"
                /\ orders'[i].reason = <<frame[r].staged.reason>>
                /\ frame[r].staged.reason \in {"insufficient_balance", "insufficient_position"}
                /\ TradeRowsOf(r)' = {}
    BY <1>0, <2>1, ApplyRecords
  <2>4. \A s \in Requests \ {r} : Agrees(s)'
    BY <1>0, <2>1, <2>2, AgreementKept DEF AnswersMatchLedger
  <2>5. Agrees(r)'
    BY <2>1, <2>3 DEF Agrees
  <2>6. AnsweredLast'
    BY <1>0, <2>1, <2>2, <2>3 DEF AnsweredLast
  <2>. QED BY <2>4, <2>5, <2>6 DEF AnswersInv, AnswersMatchLedger
<1>5. ASSUME NEW r \in Requests,
             LatestPrice(r) \/ Begin(r) \/ LockAccount(r) \/ ExecuteOrder(r)
      PROVE  AnswersInv'
  <2>1. /\ UNCHANGED <<orders, trades, reply>> /\ pc[r] \in InFlight \ {"invalidate"}
        /\ pc'[r] \in InFlight \ {"invalidate"}
        /\ \A s \in Requests \ {r} : pc'[s] = pc[s]
    BY <1>0, <1>5 DEF LatestPrice, Begin, LockAccount, ExecuteOrder, Goto, TypeOK, InFlight
  <2>2. reply[r] = "none"
    BY <1>0, <2>1 DEF AnsweredLast, InFlight
  <2>. QED BY <1>1, <2>1, <2>2 DEF InFlight
<1>6. ASSUME NEW r \in Requests, Rollback(r) \/ invalidateInsights(r) PROVE AnswersInv'
  <2>1. /\ UNCHANGED <<orders, trades>> /\ pc[r] # "done" /\ pc'[r] = "done"
        /\ \A s \in Requests \ {r} : pc'[s] = pc[s] /\ reply'[s] = reply[s]
        /\ \/ reply'[r] = "internal_error"
           \/ reply'[r] = "filled" /\ pc[r] = "invalidate"
    BY <1>0, <1>6 DEF Rollback, invalidateInsights, Goto, Answer, TypeOK, InTransaction
  <2>. QED BY <1>1, <2>1
<1>7. CASE Crash \/ UNCHANGED vars
  <2>1. /\ UNCHANGED <<orders, trades, reply>>
        /\ \A s \in Requests : pc'[s] = pc[s] \/ (pc'[s] = "crashed" /\ pc[s] # "done")
    BY <1>0, <1>7 DEF Crash, vars, InFlight, TypeOK
  <2>2. \A s \in Requests : /\ OrderRowsOf(s)' = OrderRowsOf(s)
                            /\ TradeRowsOf(s)' = TradeRowsOf(s)
    BY <2>1 DEF OrderRowsOf, TradeRowsOf
  <2>3. AnswersMatchLedger'
    BY <1>0, <2>1, <2>2, AgreementKept DEF AnswersMatchLedger
  <2>4. AnsweredLast'
    BY <1>0, <2>1, <2>2 DEF AnsweredLast
  <2>. QED BY <2>3, <2>4 DEF AnswersInv
<1>. QED
  BY <1>2, <1>3, <1>4, <1>5, <1>6, <1>7 DEF Next, Progress

\* PlaceOrder's answer and the tables agree, whatever fails between them: 201 means
\* one trade, a rejection names the reason on record, and no request fills twice.
THEOREM Answered == Spec => []AnswersMatchLedger
<1>1. AnswersInv => AnswersMatchLedger
  BY DEF AnswersInv
<1>. QED
  BY <1>1, InitAnswers, NextAnswers, Invariance, PTL DEF Spec

-----------------------------------------------------------------------------
(* The report path: what a step of the engine does to what reports read *)

\* A commit appends one row of its own account to the trade log, or none.
LEMMA ApplyLog ==
  ASSUME EngineInv, NEW r \in Requests, pc[r] = "commit", Apply(r)
  PROVE  \/ trades' = trades
         \/ \E row \in TradeRows : /\ trades' = Append(trades, row)
                                   /\ row.order = r /\ row.account = Account(r)
<1> DEFINE w == frame[r].staged
           row == Promise!TradeRow(r, Account(r), Symbol(r), Side(r), Quantity(r),
                                   Price(r), w.realized, w.balance)
<1>1. trades' = trades \/ trades' = Append(trades, row)
  BY DEF Apply, insertTrade
<1>2. row.order = r /\ row.account = Account(r)
  BY DEF Promise!TradeRow
<1>3. row \in TradeRows
  <2>1. TypeOK /\ Price(r) \in Prices /\ w \in Writeset
    BY FrameFields DEF EngineInv, Priced, InTransaction
  <2>. QED BY <2>1, TradeRowType DEF Writeset
<1>. HIDE DEF row
<1>. QED BY <1>1, <1>2, <1>3

\* Steps of a transaction that has begun.
Running == {"lock"} \cup InTransaction

\* What one step of the engine does to the trade log, the instants, the cached
\* reports and the requests that are about to delete one.
StepOnLog ==
  /\ \/ trades' = trades
     \/ \E r \in Requests : \E row \in TradeRows :
          /\ pc[r] = "commit" /\ trades' = Append(trades, row)
          /\ row.order = r /\ row.account = Account(r)
  /\ \/ /\ startedAt' = startedAt /\ clock' = clock
        /\ \A s \in Requests : pc'[s] \in Running => pc[s] \in Running
     \/ \E r \in Requests : /\ startedAt' = [startedAt EXCEPT ![r] = clock]
                            /\ clock' = clock + 1
                            /\ \A s \in Requests \ {r} : pc'[s] \in Running => pc[s] \in Running
  /\ \A s \in Requests : pc[s] = "done" => pc'[s] = "done"
  /\ \A s \in Requests : pc'[s] = "invalidate" =>
       pc[s] \in {"commit", "invalidate"} /\ Account(s)' = Account(s)
  /\ DOMAIN report' = DOMAIN report
  /\ \A a \in Accounts : report'[a] = report[a] \/ report'[a] = <<>>

\* Every step of the engine is such a one.
LEMMA EngineStepOnLog ==
  ASSUME EngineInv, DOMAIN report = Accounts, Next
  PROVE  StepOnLog
<1> USE DEF ledgerVars, txVars, Running, InTransaction
<1>0. TypeOK
  BY DEF EngineInv
\* Steps of one request that write no trade and are not on their way to a DEL.
<1>1. ASSUME NEW r \in Requests, trades' = trades, pc[r] # "done", pc'[r] # "invalidate",
             \A s \in Requests \ {r} : pc'[s] = pc[s] /\ frame'[s] = frame[s],
             \/ startedAt' = startedAt /\ clock' = clock /\ (pc'[r] \in Running => pc[r] \in Running)
             \/ startedAt' = [startedAt EXCEPT ![r] = clock] /\ clock' = clock + 1,
             DOMAIN report' = DOMAIN report,
             \A a \in Accounts : report'[a] = report[a] \/ report'[a] = <<>>
      PROVE  StepOnLog
  <2>1. \A s \in Requests : pc'[s] = "invalidate" => pc[s] = "invalidate" /\ Account(s)' = Account(s)
    BY <1>1 DEF Account
  <2>2. \A s \in Requests : pc[s] = "done" => pc'[s] = "done"
    BY <1>1
  <2>. QED BY <1>1, <2>1, <2>2 DEF StepOnLog
<1>2. ASSUME NEW r \in Requests, PlaceOrder(r) PROVE StepOnLog
  BY <1>0, <1>1, <1>2 DEF PlaceOrder, Goto, Answer, TypeOK
<1>3. ASSUME NEW r \in Requests, LatestPrice(r) PROVE StepOnLog
  BY <1>0, <1>1, <1>3 DEF LatestPrice, Goto, TypeOK
<1>4. ASSUME NEW r \in Requests, recordRejection(r) PROVE StepOnLog
  BY <1>0, <1>1, <1>4 DEF recordRejection, Goto, Answer, TypeOK
<1>5. ASSUME NEW r \in Requests, Begin(r) \/ LockAccount(r) PROVE StepOnLog
  BY <1>0, <1>1, <1>5 DEF Begin, LockAccount, Goto, TypeOK
<1>6. ASSUME NEW r \in Requests, ExecuteOrder(r) PROVE StepOnLog
  BY <1>0, <1>1, <1>6 DEF ExecuteOrder, Goto, TypeOK
<1>7. ASSUME NEW r \in Requests, Commit(r) \/ CommitUnacknowledged(r) PROVE StepOnLog
  <2>1. /\ pc[r] = "commit" /\ Apply(r)
        /\ UNCHANGED <<clock, startedAt, report>>
    BY <1>7 DEF Commit, CommitUnacknowledged
  <2>2. /\ pc'[r] \in {"invalidate", "done"} /\ pc'[r] = "invalidate" => frame'[r] = frame[r]
        /\ \A s \in Requests \ {r} : pc'[s] = pc[s] /\ frame'[s] = frame[s]
    BY <1>0, <1>7 DEF Commit, CommitUnacknowledged, Goto, Answer, TypeOK
  <2>3. \/ trades' = trades
        \/ \E row \in TradeRows : /\ trades' = Append(trades, row)
                                  /\ row.order = r /\ row.account = Account(r)
    BY <2>1, ApplyLog
  <2>. QED BY <2>1, <2>2, <2>3 DEF StepOnLog, Account
<1>8. ASSUME NEW r \in Requests, invalidateInsights(r) PROVE StepOnLog
  <2>1. /\ trades' = trades /\ pc[r] = "invalidate" /\ pc'[r] = "done"
        /\ startedAt' = startedAt /\ clock' = clock
        /\ \A s \in Requests \ {r} : pc'[s] = pc[s] /\ frame'[s] = frame[s]
    BY <1>0, <1>8 DEF invalidateInsights, Goto, Answer, TypeOK
  <2>2. /\ DOMAIN report' = DOMAIN report
        /\ \A a \in Accounts : report'[a] = report[a] \/ report'[a] = <<>>
    BY <1>8 DEF invalidateInsights
  <2>. QED BY <1>1, <2>1, <2>2
<1>9. ASSUME NEW r \in Requests, Rollback(r) PROVE StepOnLog
  BY <1>0, <1>1, <1>9 DEF Rollback, Goto, Answer, TypeOK
<1>10. CASE Crash
  <2>1. /\ UNCHANGED <<trades, startedAt, clock, report>>
        /\ \A s \in Requests : pc'[s] = IF pc[s] \in InFlight THEN "crashed" ELSE pc[s]
    BY <1>10 DEF Crash
  <2>2. \A s \in Requests : pc'[s] \notin Running \cup {"invalidate"} /\ (pc[s] = "done" => pc'[s] = "done")
    BY <2>1 DEF InFlight
  <2>. QED BY <2>1, <2>2 DEF StepOnLog
<1>. QED BY <1>1, <1>2, <1>3, <1>4, <1>5, <1>6, <1>7, <1>8, <1>9, <1>10 DEF Next, Progress

\* A row appended to the log leaves the rows before it, and is a trade of its own
\* request and account.
LEMMA LogGrows ==
  ASSUME TypeOK, NEW row \in TradeRows, trades' = Append(trades, row)
  PROVE  /\ \A s \in Requests : TradeRowsOf(s)' =
              TradeRowsOf(s) \cup (IF s = row.order THEN {Len(trades) + 1} ELSE {})
         /\ trades'[Len(trades) + 1] = row /\ Len(trades) + 1 \in DOMAIN trades'
         /\ \A i \in DOMAIN trades : i \in DOMAIN trades' /\ trades'[i] = trades[i]
         /\ \A a \in Accounts : Committed(a)' =
              Committed(a) \cup (IF a = row.account THEN {row.order} ELSE {})
<1>1. /\ trades \in Seq(TradeRows) /\ Len(trades) \in Nat
      /\ DOMAIN trades = 1..Len(trades)
  BY DEF TypeOK
<1>2. /\ DOMAIN trades' = 1..(Len(trades) + 1)
      /\ trades'[Len(trades) + 1] = row
      /\ \A i \in 1..Len(trades) : trades'[i] = trades[i]
  BY <1>1
<1>3. Len(trades) + 1 \notin 1..Len(trades) /\ 1..(Len(trades) + 1) = 1..Len(trades) \cup {Len(trades) + 1}
  BY <1>1
<1>4. \A s \in Requests : TradeRowsOf(s)' =
              TradeRowsOf(s) \cup (IF s = row.order THEN {Len(trades) + 1} ELSE {})
  BY <1>1, <1>2, <1>3 DEF TradeRowsOf
<1>5. row.order \in Requests
  BY DEF TradeRows
<1>6. \A a \in Accounts : Committed(a)' =
              Committed(a) \cup (IF a = row.account THEN {row.order} ELSE {})
  BY <1>1, <1>2, <1>3, <1>5 DEF Committed
<1>. QED BY <1>1, <1>2, <1>3, <1>4, <1>6

\* Every step of the engine keeps the instants apart.
LEMMA NextInstants ==
  ASSUME EngineInv, DistinctInstants, StepOnLog
  PROVE  DistinctInstants'
<1>1. /\ TypeOK /\ clock \in Nat /\ startedAt \in [Requests -> Nat] /\ clock' >= clock
  BY DEF EngineInv, TypeOK, StepOnLog
<1>2. \A s \in Requests : TradeRowsOf(s)' # {} => Begun(s)
  <2>1. CASE trades' = trades
    BY <2>1 DEF TradeRowsOf, Begun
  <2>2. ASSUME NEW r \in Requests, NEW row \in TradeRows, pc[r] = "commit",
               trades' = Append(trades, row), row.order = r
        PROVE  \A s \in Requests : TradeRowsOf(s)' # {} => Begun(s)
    BY <1>1, <2>2, LogGrows DEF Begun, InTransaction
  <2>. QED BY <2>1, <2>2 DEF StepOnLog
<1>3. \A s \in Requests : Begun(s) => startedAt[s] \in Nat /\ startedAt[s] < clock
  BY <1>1 DEF DistinctInstants
<1>4. CASE /\ startedAt' = startedAt /\ clock' = clock
           /\ \A s \in Requests : pc'[s] \in Running => pc[s] \in Running
  <2>1. \A s \in Requests : Begun(s)' => Begun(s)
    BY <1>2, <1>4 DEF Running, Begun
  <2>. QED BY <1>4, <2>1 DEF DistinctInstants
<1>5. ASSUME NEW r \in Requests, startedAt' = [startedAt EXCEPT ![r] = clock],
             clock' = clock + 1,
             \A s \in Requests \ {r} : pc'[s] \in Running => pc[s] \in Running
      PROVE  DistinctInstants'
  <2>1. \A s \in Requests \ {r} : Begun(s)' => Begun(s)
    BY <1>2, <1>5 DEF Running, Begun
  <2>2. \A s \in Requests : startedAt'[s] = IF s = r THEN clock ELSE startedAt[s]
    BY <1>1, <1>5
  <2>3. \A s \in Requests : Begun(s)' => startedAt'[s] < clock'
    BY <1>1, <1>3, <1>5, <2>1, <2>2
  <2>4. ASSUME NEW s \in Requests, NEW q \in Requests, Begun(s)', Begun(q)', startedAt'[q] = startedAt'[s]
        PROVE  q = s
    <3>1. CASE s = r
      BY <1>1, <1>3, <2>1, <2>2, <2>4, <3>1
    <3>2. CASE s # r /\ q = r
      BY <1>1, <1>3, <2>1, <2>2, <2>4, <3>2
    <3>3. CASE s # r /\ q # r
      BY <2>1, <2>2, <2>4, <3>3 DEF DistinctInstants
    <3>. QED BY <3>1, <3>2, <3>3
  <2>. QED BY <2>3, <2>4 DEF DistinctInstants
<1>. QED BY <1>4, <1>5 DEF StepOnLog

-----------------------------------------------------------------------------
(* What a report request reads *)

\* Below the cap, the log it reads has exactly the trades committed to the account.
LEMMA LogIsCommitted ==
  ASSUME TypeOK, DistinctInstants, NEW a \in Accounts,
         IsFiniteSet(Requests), Cardinality(Requests) <= MaxTradeLimit
  PROVE  Ids(Trades(a, MaxTradeLimit)) = Committed(a)
<1> DEFINE mine == {i \in DOMAIN trades : trades[i].account = a}
           instants == {ExecutedAt(trades[i]) : i \in mine}
           times == Ascending(instants)
           n == Cardinality(instants)
           row(k) == CHOOSE i \in mine : ExecutedAt(trades[i]) = times[k]
           log == [k \in DOMAIN times |-> trades[row(k)]]
<1>1. MaxTradeLimit \in Nat /\ MaxTradeLimit >= 1
  BY LimitAssumption
<1>2. \A i \in DOMAIN trades : /\ trades[i].order \in Requests
                               /\ Begun(trades[i].order)
                               /\ ExecutedAt(trades[i]) = startedAt[trades[i].order]
                               /\ ExecutedAt(trades[i]) \in Nat
  <2>1. \A i \in DOMAIN trades : trades[i] \in TradeRows
    BY DEF TypeOK
  <2>2. \A i \in DOMAIN trades : trades[i].order \in Requests
    BY <2>1 DEF TradeRows
  <2>3. \A i \in DOMAIN trades : i \in TradeRowsOf(trades[i].order)
    BY DEF TradeRowsOf
  <2>4. startedAt \in [Requests -> Nat]
    BY DEF TypeOK
  <2>. QED BY <2>2, <2>3, <2>4 DEF Begun, ExecutedAt
<1>3. /\ instants \in SUBSET Int /\ IsFiniteSet(instants)
      /\ n \in Nat /\ n <= MaxTradeLimit
  <2>1. instants \in SUBSET {startedAt[r] : r \in Requests}
    BY <1>2
  <2>2. /\ IsFiniteSet({startedAt[r] : r \in Requests})
        /\ Cardinality({startedAt[r] : r \in Requests}) <= Cardinality(Requests)
        /\ Cardinality({startedAt[r] : r \in Requests}) \in Nat /\ Cardinality(Requests) \in Nat
    BY FiniteImage
  <2>4. IsFiniteSet(instants) /\ n <= Cardinality({startedAt[r] : r \in Requests})
    <3>. HIDE DEF instants
    <3>. QED BY <2>1, <2>2, FS_Subset
  <2>5. n \in Nat
    BY <2>4, FS_CardinalityType
  <2>6. instants \in SUBSET Int
    BY <1>2
  <2>. HIDE DEF n, instants
  <2>. QED BY <1>1, <2>2, <2>4, <2>5, <2>6
<1>4. /\ times \in [1..n -> instants]
      /\ \A t \in instants : \E k \in 1..n : times[k] = t
  <2>. HIDE DEF instants
  <2>. QED BY <1>3, AscendingIs
<1>5. \A k \in 1..n : row(k) \in mine /\ ExecutedAt(trades[row(k)]) = times[k]
  <2>1. \A k \in 1..n : \E i \in mine : ExecutedAt(trades[i]) = times[k]
    BY <1>4
  <2>. HIDE DEF mine, times, n
  <2>. QED BY <2>1
<1>6. Log(a) = log
  BY DEF Log
<1>7. DOMAIN log = 1..n /\ log \in Seq({trades[i] : i \in mine}) /\ Len(log) = n
  <2>1. DOMAIN times = 1..n
    BY <1>4
  <2>. HIDE DEF mine, times, n, row
  <2>. QED BY <1>3, <1>5, <2>1
<1>8. Trades(a, MaxTradeLimit) = log
  <2>1. Trades(a, MaxTradeLimit) = SubSeq(log, 1, n)
    <3>1. normalizeTradeLimit(MaxTradeLimit) = MaxTradeLimit
      BY <1>1 DEF normalizeTradeLimit
    <3>. HIDE DEF log, n
    <3>2. (IF MaxTradeLimit < n THEN MaxTradeLimit ELSE n) = n
      BY <1>1, <1>3
    <3>. QED BY <1>6, <1>7, <3>1, <3>2 DEF Trades, ListTrades
  <2>2. SubSeq(log, 1, n) = log
    <3>. HIDE DEF log, n, mine
    <3>. QED BY <1>3, <1>7
  <2>. QED BY <2>1, <2>2
<1>9. ASSUME NEW r \in Ids(log)
      PROVE  r \in Committed(a)
  <2>1. PICK k \in 1..n : r = log[k].order
    BY <1>7 DEF Ids
  <2>2. log[k] = trades[row(k)]
    BY <1>4
  <2>3. row(k) \in DOMAIN trades /\ trades[row(k)].account = a
    <3>1. row(k) \in mine
      BY <1>5
    <3>. HIDE DEF row
    <3>. QED BY <3>1
  <2>. HIDE DEF row, log
  <2>. QED BY <1>2, <2>1, <2>2, <2>3 DEF Committed
<1>10. ASSUME NEW r \in Committed(a)
       PROVE  r \in Ids(log)
  <2>1. PICK i \in mine : trades[i].order = r
    BY <1>10 DEF Committed
  <2>2. PICK k \in 1..n : times[k] = ExecutedAt(trades[i])
    BY <1>4
  <2>3. row(k) \in DOMAIN trades /\ ExecutedAt(trades[row(k)]) = ExecutedAt(trades[i])
    <3>1. row(k) \in mine /\ ExecutedAt(trades[row(k)]) = times[k]
      BY <1>5
    <3>. HIDE DEF row
    <3>. QED BY <2>2, <3>1
  <2>4. trades[row(k)].order = r
    <3>. HIDE DEF row
    <3>. QED BY <1>2, <2>1, <2>3 DEF DistinctInstants
  <2>5. log[k].order = r /\ k \in DOMAIN log
    BY <1>4, <1>7, <2>4
  <2>. HIDE DEF log
  <2>. QED BY <2>5 DEF Ids
<1>. HIDE DEF log
<1>. QED BY <1>8, <1>9, <1>10

-----------------------------------------------------------------------------
(* Quiet fills *)

\* Initially no report request has begun and nothing has settled.
LEMMA InitInsights == InsightsInit => InsightsInv
<1> SUFFICES ASSUME InsightsInit PROVE InsightsInv
  OBVIOUS
<1>1. ReaderTypeOK
  <2>1. NoView.account \in Accounts /\ NoView.log = <<>>
    BY EngineAssumption DEF NoView
  <2>2. \A b \in Readers : view[b] = NoView /\ rpc[b] = "idle" /\ served[b] = <<>>
    BY DEF InsightsInit
  <2>3. /\ DOMAIN view = Readers /\ DOMAIN served = Readers /\ DOMAIN owed = Readers
        /\ DOMAIN report = Accounts /\ settled = {}
        /\ rpc \in [Readers -> {"idle", "trades", "done", "failed"} \cup Holding]
    BY DEF InsightsInit, Init
  <2>. QED BY <2>1, <2>2, <2>3 DEF ReaderTypeOK
<1>2. DistinctInstants
  BY DEF InsightsInit, Init, Promise!Init, DistinctInstants, Begun, InTransaction, TradeRowsOf
<1>3. SettlesOwn /\ QuietIsKept /\ QuietFillIsSeen
  BY DEF InsightsInit, Init, SettlesOwn, QuietIsKept, QuietFillIsSeen, Holding
<1>. QED BY <1>1, <1>2, <1>3 DEF InsightsInv

\* A step of the engine: a fill that settles has just had its account's report
\* deleted, and every log it is missing from is counted against it.
LEMMA TradeInsights ==
  ASSUME EngineInv, AnswersInv, InsightsInv, Trade
  PROVE  InsightsInv'
<1>1. /\ ReaderTypeOK /\ DistinctInstants /\ SettlesOwn /\ QuietIsKept /\ QuietFillIsSeen
      /\ TypeOK /\ Next /\ Settles /\ DOMAIN report = Accounts
  BY DEF InsightsInv, EngineInv, Trade, ReaderTypeOK
<1>2. StepOnLog
  BY <1>1, EngineStepOnLog
<1>3. DistinctInstants'
  BY <1>1, <1>2, NextInstants
<1> DEFINE now == {r \in Requests : /\ pc[r] = "invalidate" /\ pc'[r] = "done"
                                    /\ report'[Account(r)] = <<>>}
           older(b, r) == /\ rpc[b] \in Holding
                          /\ view[b].account = Account(r)
                          /\ r \notin Ids(view[b].log)
<1>4. /\ settled' = settled \cup now
      /\ overlapped' = overlapped \cup {r \in now : \E b \in Readers : older(b, r)}
      /\ rpc' = rpc /\ view' = view /\ served' = served /\ owed' = owed
  BY <1>1 DEF Settles, readerVars
<1>5. \A r \in Requests : pc[r] = "commit" => TradeRowsOf(r) = {}
  BY DEF EngineInv, Unrecorded, InTransaction, AnswersInv, AnswersMatchLedger, Agrees
<1>6. ReaderTypeOK'
  BY <1>1, <1>2, <1>4 DEF ReaderTypeOK, StepOnLog
<1>7. /\ \A a \in Accounts : Committed(a) \subseteq Committed(a)'
      /\ \A a \in Accounts : \A r \in Committed(a)' \ Committed(a) : pc[r] = "commit"
      /\ \A s \in Requests : \A i \in TradeRowsOf(s)' :
           \/ i \in TradeRowsOf(s) /\ trades'[i] = trades[i]
           \/ pc[s] = "commit" /\ trades'[i].account = Account(s)
  <2>1. CASE trades' = trades
    BY <2>1 DEF Committed, TradeRowsOf
  <2>2. ASSUME NEW r \in Requests, NEW row \in TradeRows, pc[r] = "commit",
               trades' = Append(trades, row), row.order = r, row.account = Account(r)
        PROVE  <1>7!1 /\ <1>7!2 /\ <1>7!3
    <3>1. <1>7!1 /\ <1>7!2
      BY <1>1, <2>2, LogGrows
    <3>2. \A s \in Requests : TradeRowsOf(s) \subseteq DOMAIN trades
      BY DEF TradeRowsOf
    <3>3. <1>7!3
      BY <1>1, <2>2, <3>2, LogGrows
    <3>. QED BY <3>1, <3>3
  <2>. QED BY <1>2, <2>1, <2>2 DEF StepOnLog
<1>8. SettlesOwn'
  <2>1. ASSUME NEW r \in Requests, pc'[r] = "invalidate", NEW i \in TradeRowsOf(r)'
        PROVE  trades'[i].account = Account(r)'
    <3>1. pc[r] \in {"commit", "invalidate"} /\ Account(r)' = Account(r)
      BY <1>2, <2>1 DEF StepOnLog
    <3>. QED BY <1>1, <1>5, <1>7, <2>1, <3>1 DEF SettlesOwn
  <2>2. \A r \in settled' : pc'[r] = "done"
    BY <1>1, <1>2, <1>4 DEF SettlesOwn, StepOnLog, ReaderTypeOK
  <2>. QED BY <2>1, <2>2 DEF SettlesOwn
<1>9. ASSUME NEW a \in Accounts, NEW r \in Quiet(a)'
      PROVE  r \in Quiet(a) \/ (r \in now /\ Account(r) = a /\ \A b \in Readers : ~older(b, r))
  <2>1. r \in settled \cup now /\ r \in Committed(a)' /\ r \notin overlapped'
    BY <1>4, <1>9 DEF Quiet
  <2>2. r \in Committed(a)
    BY <1>1, <1>7, <2>1 DEF SettlesOwn
  <2>3. CASE r \in settled
    BY <1>4, <2>1, <2>2, <2>3 DEF Quiet
  <2>4. CASE r \in now
    <3>1. PICK i \in TradeRowsOf(r) : trades[i].account = a
      BY <2>2 DEF Committed, TradeRowsOf
    <3>2. Account(r) = a
      BY <1>1, <2>4, <3>1 DEF SettlesOwn
    <3>. QED BY <1>4, <2>1, <2>4, <3>2
  <2>. QED BY <2>1, <2>3, <2>4
<1>10. QuietIsKept'
  <2>1. ASSUME NEW a \in Accounts, report'[a] # <<>>
        PROVE  Quiet(a)' \subseteq report'[a][1].basis
    <3>1. report'[a] = report[a]
      BY <1>2, <2>1 DEF StepOnLog
    <3>2. Quiet(a) \subseteq report'[a][1].basis
      BY <1>1, <2>1, <3>1 DEF QuietIsKept
    <3>. QED BY <1>9, <2>1, <3>2
  <2>2. ASSUME NEW b \in Readers, rpc'[b] \in Holding
        PROVE  (Quiet(view[b].account) \subseteq Ids(view[b].log))'
    <3>1. PICK a \in Accounts : a = view[b].account /\ Quiet(a) \subseteq Ids(view[b].log)
      BY <1>1, <1>4, <2>2 DEF QuietIsKept, ReaderTypeOK
    <3>2. \A r \in Quiet(a)' : r \in Ids(view[b].log)
      BY <1>4, <1>9, <2>2, <3>1
    <3>. QED BY <1>4, <3>1, <3>2
  <2>3. ASSUME NEW b \in Readers, rpc'[b] = "set"
        PROVE  (view[b].out.basis = Ids(view[b].log))'
    BY <1>1, <1>4, <2>3 DEF QuietIsKept
  <2>4. ASSUME NEW b \in Readers, rpc'[b] \in {"trades"} \cup Holding
        PROVE  (owed[b] \subseteq settled \cap Committed(view[b].account))'
    <3>1. PICK a \in Accounts : a = view[b].account /\ owed[b] \subseteq settled \cap Committed(a)
      BY <1>1, <1>4, <2>4 DEF QuietIsKept, ReaderTypeOK
    <3>2. Committed(a) \subseteq Committed(a)'
      BY <1>7, <3>1
    <3>. QED BY <1>4, <3>1, <3>2
  <2>. QED BY <2>1, <2>2, <2>3, <2>4 DEF QuietIsKept
<1>11. QuietFillIsSeen'
  BY <1>1, <1>4 DEF QuietFillIsSeen
<1>. QED BY <1>3, <1>6, <1>8, <1>10, <1>11 DEF InsightsInv

\* A step of one report request: the state of the engine and of the others stays,
\* and what this one holds, serves or stores has the quiet fills of its account.
LEMMA ReaderInsights ==
  ASSUME InsightsInv, NEW b \in Readers,
         UNCHANGED <<ledgerVars, txVars, pc, frame, reply, settled, overlapped>>,
         ReaderTypeOK',
         \A c \in Readers \ {b} : /\ rpc'[c] = rpc[c] /\ view'[c] = view[c]
                                  /\ served'[c] = served[c] /\ owed'[c] = owed[c],
         \A a \in Accounts : \/ report'[a] = report[a]
                             \/ report'[a] # <<>> => Quiet(a) \subseteq report'[a][1].basis,
         rpc'[b] \in Holding => Quiet(view'[b].account) \subseteq Ids(view'[b].log),
         rpc'[b] = "set" => view'[b].out.basis = Ids(view'[b].log),
         rpc'[b] \in {"trades"} \cup Holding =>
           owed'[b] \subseteq settled \cap Committed(view'[b].account),
         served'[b] # <<>> => owed'[b] \ overlapped \subseteq served'[b][1].basis
  PROVE  InsightsInv'
<1> USE DEF ledgerVars, txVars
<1>1. DistinctInstants /\ SettlesOwn /\ QuietIsKept /\ QuietFillIsSeen
  BY DEF InsightsInv
<1>2. \A a \in Accounts : Quiet(a)' = Quiet(a) /\ Committed(a)' = Committed(a)
  BY DEF Quiet, Committed
<1>3. DistinctInstants' /\ SettlesOwn'
  BY <1>1 DEF DistinctInstants, Begun, TradeRowsOf, SettlesOwn, Account
<1>4. QuietIsKept'
  <2>1. ASSUME NEW a \in Accounts, report'[a] # <<>>
        PROVE  Quiet(a)' \subseteq report'[a][1].basis
    BY <1>1, <1>2, <2>1 DEF QuietIsKept
  <2>2. ASSUME NEW c \in Readers
        PROVE  /\ rpc'[c] \in Holding => (Quiet(view[c].account) \subseteq Ids(view[c].log))'
               /\ rpc'[c] = "set" => (view[c].out.basis = Ids(view[c].log))'
               /\ rpc'[c] \in {"trades"} \cup Holding =>
                    (owed[c] \subseteq settled \cap Committed(view[c].account))'
    <3>1. PICK a \in Accounts : a = view'[c].account
      BY DEF ReaderTypeOK
    <3>2. Quiet(a)' = Quiet(a) /\ Committed(a)' = Committed(a)
      BY <1>2
    <3>3. /\ rpc'[c] \in Holding => Quiet(a) \subseteq Ids(view'[c].log)
          /\ rpc'[c] = "set" => view'[c].out.basis = Ids(view'[c].log)
          /\ rpc'[c] \in {"trades"} \cup Holding => owed'[c] \subseteq settled \cap Committed(a)
      BY <1>1, <3>1 DEF QuietIsKept
    <3>. QED BY <3>1, <3>2, <3>3 DEF Ids
  <2>. QED BY <2>1, <2>2 DEF QuietIsKept
<1>5. QuietFillIsSeen'
  BY <1>1 DEF QuietFillIsSeen
<1>. QED BY <1>3, <1>4, <1>5 DEF InsightsInv

\* Every step keeps the invariant.
LEMMA NextInsights ==
  ASSUME IsFiniteSet(Requests), Cardinality(Requests) <= MaxTradeLimit,
         EngineInv, AnswersInv, InsightsInv, [InsightsNext]_insightsVars
  PROVE  InsightsInv'
<1> USE DEF ledgerVars, txVars, readerVars, historyVars, vars
<1>0. /\ ReaderTypeOK /\ DistinctInstants /\ SettlesOwn /\ QuietIsKept /\ QuietFillIsSeen /\ TypeOK
  BY DEF InsightsInv, EngineInv
<1> DEFINE Others(b) == \A c \in Readers \ {b} :
             /\ rpc'[c] = rpc[c] /\ view'[c] = view[c]
             /\ served'[c] = served[c] /\ owed'[c] = owed[c]
<1>1. CASE Trade
  BY <1>1, TradeInsights
<1>2. ASSUME NEW b \in Readers, Get(b) PROVE InsightsInv'
  <2>1. PICK a \in Accounts :
          /\ owed' = [owed EXCEPT ![b] = settled \cap Committed(a)]
          /\ \/ report[a] # <<>> /\ Serve(b, report[a][1])
             \/ /\ view' = [view EXCEPT ![b].account = a]
                /\ Step(b, "trades") /\ UNCHANGED served
    BY <1>2 DEF Get
  <2>2. UNCHANGED <<vars, settled, overlapped>>
    BY <1>2 DEF Get
  <2>3. owed'[b] = settled \cap Committed(a) /\ DOMAIN owed' = Readers
    BY <1>0, <2>1 DEF ReaderTypeOK
  <2>4. CASE report[a] # <<>> /\ Serve(b, report[a][1])
    <3>1. rpc'[b] = "done" /\ served'[b] = <<report[a][1]>> /\ Others(b) /\ ReaderTypeOK'
      <4>1. NoView.account \in Accounts
        BY EngineAssumption DEF NoView
      <4>. QED BY <1>0, <2>1, <2>2, <2>3, <2>4, <4>1 DEF Serve, Step, ReaderTypeOK
    <3>2. owed'[b] \ overlapped \subseteq served'[b][1].basis
      BY <1>0, <2>3, <2>4, <3>1 DEF QuietIsKept, Quiet
    <3>. QED BY <2>2, <3>1, <3>2, ReaderInsights DEF Holding
  <2>5. CASE view' = [view EXCEPT ![b].account = a] /\ Step(b, "trades") /\ UNCHANGED served
    <3>1. rpc[b] = "idle" /\ served[b] = <<>> /\ view[b].log = <<>>
      BY <1>0, <1>2 DEF Get, ReaderTypeOK
    <3>2. /\ rpc'[b] = "trades" /\ served'[b] = served[b] /\ Others(b)
          /\ view'[b].account = a /\ view'[b].log = view[b].log
          /\ DOMAIN view'[b] = DOMAIN NoView /\ DOMAIN view' = Readers
      BY <1>0, <2>1, <2>5 DEF Step, ReaderTypeOK, NoView
    <3>3. ReaderTypeOK'
      BY <1>0, <2>2, <2>3, <2>5, <3>1, <3>2 DEF Step, ReaderTypeOK
    <3>. QED BY <2>2, <2>3, <3>1, <3>2, <3>3, ReaderInsights DEF Holding
  <2>. QED BY <2>1, <2>4, <2>5
\* The other steps begin with nothing served and owe what they owed.
<1>3. ASSUME NEW b \in Readers, Fail(b), rpc[b] \in {"trades"} \cup Holding,
             UNCHANGED <<vars, historyVars>>
      PROVE  InsightsInv'
  <2>1. rpc'[b] = "failed" /\ served'[b] = served[b] /\ Others(b) /\ ReaderTypeOK' /\ served[b] = <<>>
    <3>1. NoView.account \in Accounts
      BY EngineAssumption DEF NoView
    <3>. QED BY <1>0, <1>3, <3>1 DEF Fail, Step, ReaderTypeOK, Holding
  <2>. QED BY <1>3, <2>1, ReaderInsights DEF Holding
<1>4. ASSUME NEW b \in Readers, ReadTrades(b) PROVE InsightsInv'
  <2> DEFINE log == Trades(view[b].account, MaxTradeLimit)
  <2>1. rpc[b] = "trades" /\ UNCHANGED <<vars, historyVars>>
    BY <1>4 DEF ReadTrades
  <2>2. /\ view[b].account \in Accounts /\ served[b] = <<>>
        /\ owed[b] \subseteq settled \cap Committed(view[b].account)
    BY <1>0, <2>1 DEF ReaderTypeOK, QuietIsKept
  <2>3. Ids(log) = Committed(view[b].account)
    BY <1>0, <2>2, LogIsCommitted
  <2>. HIDE DEF log
  <2>4. CASE view' = [view EXCEPT ![b].log = log] /\ Step(b, "balance") /\ UNCHANGED served
    <3>1. /\ rpc'[b] = "balance" /\ served'[b] = <<>> /\ Others(b) /\ owed'[b] = owed[b]
          /\ view'[b].account = view[b].account /\ view'[b].log = log /\ ReaderTypeOK'
      BY <1>0, <2>1, <2>2, <2>4 DEF Step, ReaderTypeOK, NoView, Holding
    <3>2. Quiet(view[b].account) \subseteq Ids(log)
      BY <2>3 DEF Quiet
    <3>. QED BY <2>1, <2>2, <3>1, <3>2, ReaderInsights
  <2>5. CASE /\ log = <<>>
             /\ view' = [view EXCEPT ![b].out = Report(<<>>, "no_trades", FALSE)]
             /\ Step(b, "set") /\ UNCHANGED served
    <3>1. /\ rpc'[b] = "set" /\ served'[b] = <<>> /\ Others(b) /\ owed'[b] = owed[b]
          /\ view'[b].account = view[b].account /\ view'[b].log = view[b].log
          /\ view'[b].out = Report(<<>>, "no_trades", FALSE) /\ ReaderTypeOK'
      BY <1>0, <2>1, <2>2, <2>5 DEF Step, ReaderTypeOK, NoView, Holding
    <3>2. view[b].log = <<>>
      BY <1>0, <2>1 DEF ReaderTypeOK
    <3>3. view'[b].out.basis = Ids(view'[b].log)
      BY <3>1, <3>2 DEF Report
    <3>4. Quiet(view[b].account) \subseteq Ids(view'[b].log)
      BY <2>3, <2>5, <3>1, <3>2 DEF Quiet
    <3>. QED BY <2>1, <2>2, <3>1, <3>3, <3>4, ReaderInsights
  <2>6. CASE Fail(b)
    BY <1>3, <2>1, <2>6
  <2>. QED BY <1>4, <2>4, <2>5, <2>6 DEF ReadTrades, log
\* Between the log and the report, only the other fields of its view change.
<1>5. ASSUME NEW b \in Readers, rpc[b] \in {"balance", "holdings", "build"},
             UNCHANGED <<vars, historyVars, served>>,
             NEW l \in {"holdings", "build", "set"}, Step(b, l),
             Others(b), DOMAIN view' = Readers, DOMAIN view'[b] = DOMAIN NoView,
             view'[b].account = view[b].account, view'[b].log = view[b].log,
             l = "set" => view'[b].out.basis = Ids(view[b].log)
      PROVE  InsightsInv'
  <2>1. rpc'[b] = l /\ ReaderTypeOK' /\ served'[b] = <<>>
    BY <1>0, <1>5 DEF Step, ReaderTypeOK, Holding
  <2>2. /\ Quiet(view[b].account) \subseteq Ids(view[b].log)
        /\ owed[b] \subseteq settled \cap Committed(view[b].account)
    BY <1>0, <1>5 DEF QuietIsKept, Holding
  <2>. QED BY <1>5, <2>1, <2>2, ReaderInsights
<1>6. ASSUME NEW b \in Readers, ReadBalance(b) PROVE InsightsInv'
  <2>1. rpc[b] = "balance" /\ UNCHANGED <<vars, historyVars>>
    BY <1>6 DEF ReadBalance
  <2>2. CASE /\ view' = [view EXCEPT ![b].balance = balance[view[b].account]]
             /\ Step(b, "holdings") /\ UNCHANGED served
    <3>1. /\ Others(b) /\ DOMAIN view' = Readers /\ DOMAIN view'[b] = DOMAIN NoView
          /\ view'[b].account = view[b].account /\ view'[b].log = view[b].log
      BY <1>0, <2>1, <2>2 DEF Step, ReaderTypeOK, NoView
    <3>. QED BY <1>5, <2>1, <2>2, <3>1
  <2>. QED BY <1>3, <1>6, <2>1, <2>2 DEF ReadBalance, Holding
<1>7. ASSUME NEW b \in Readers, ReadHoldings(b) PROVE InsightsInv'
  <2> DEFINE held == ListHoldings(view[b].account)
             torn == Committed(view[b].account) # Ids(view[b].log)
  <2>1. rpc[b] = "holdings" /\ UNCHANGED <<vars, historyVars>>
    BY <1>7 DEF ReadHoldings
  <2>2. CASE /\ view' = [view EXCEPT ![b].holdings = held, ![b].torn = torn]
             /\ Step(b, "build") /\ UNCHANGED served
    <3>. HIDE DEF held, torn
    <3>1. /\ Others(b) /\ DOMAIN view' = Readers /\ DOMAIN view'[b] = DOMAIN NoView
          /\ view'[b].account = view[b].account /\ view'[b].log = view[b].log
      BY <1>0, <2>1, <2>2 DEF Step, ReaderTypeOK, NoView
    <3>. QED BY <1>5, <2>1, <2>2, <3>1
  <2>. QED BY <1>3, <1>7, <2>1, <2>2 DEF ReadHoldings, Holding
<1>8. ASSUME NEW b \in Readers, Build(b) PROVE InsightsInv'
  <2>1. rpc[b] = "build" /\ UNCHANGED <<vars, historyVars>>
    BY <1>8 DEF Build
  <2>2. ASSUME NEW status, view' = [view EXCEPT ![b].out = Report(view[b].log, status, view[b].torn)],
               Step(b, "set"), UNCHANGED served
        PROVE  InsightsInv'
    <3>1. /\ Others(b) /\ DOMAIN view' = Readers /\ DOMAIN view'[b] = DOMAIN NoView
          /\ view'[b].account = view[b].account /\ view'[b].log = view[b].log
          /\ view'[b].out = Report(view[b].log, status, view[b].torn)
      BY <1>0, <2>1, <2>2 DEF Step, ReaderTypeOK, NoView
    <3>2. view'[b].out.basis = Ids(view[b].log)
      BY <3>1 DEF Report
    <3>. QED BY <1>5, <2>1, <2>2, <3>1, <3>2
  <2>. QED BY <1>3, <1>8, <2>1, <2>2 DEF Build, Holding
<1>9. ASSUME NEW b \in Readers, Set(b) PROVE InsightsInv'
  <2>1. /\ rpc[b] = "set" /\ Serve(b, view[b].out)
        /\ UNCHANGED <<ledgerVars, txVars, pc, frame, reply, historyVars>>
        /\ \/ report' = [report EXCEPT ![view[b].account] = <<view[b].out>>]
           \/ UNCHANGED report
    BY <1>9 DEF Set
  <2>2. /\ view[b].account \in Accounts
        /\ Quiet(view[b].account) \subseteq view[b].out.basis
        /\ owed[b] \subseteq settled \cap Committed(view[b].account)
    BY <1>0, <2>1 DEF QuietIsKept, ReaderTypeOK, Holding
  <2>3. /\ DOMAIN report' = Accounts
        /\ \A a \in Accounts : \/ report'[a] = report[a]
                               \/ Quiet(a) \subseteq report'[a][1].basis
    BY <1>0, <2>1, <2>2 DEF ReaderTypeOK
  <2>4. rpc'[b] = "done" /\ served'[b] = <<view[b].out>> /\ Others(b) /\ ReaderTypeOK'
    <3>1. NoView.account \in Accounts
      BY EngineAssumption DEF NoView
    <3>. QED BY <1>0, <2>1, <2>3, <3>1 DEF Serve, Step, ReaderTypeOK
  <2>5. owed'[b] \ overlapped \subseteq served'[b][1].basis
    BY <2>1, <2>2, <2>4 DEF Quiet
  <2>. QED BY <2>1, <2>3, <2>4, <2>5, ReaderInsights DEF Holding
\* An entry that expires or a stuttering step disturbs nobody.
<1>10. ASSUME UNCHANGED <<ledgerVars, txVars, pc, frame, reply, readerVars, historyVars>>,
              DOMAIN report' = Accounts,
              \A a \in Accounts : report'[a] = report[a] \/ report'[a] = <<>>
       PROVE  InsightsInv'
  <2>1. ReaderTypeOK'
    BY <1>0, <1>10 DEF ReaderTypeOK
  <2>2. DistinctInstants' /\ SettlesOwn' /\ QuietFillIsSeen'
    BY <1>0, <1>10 DEF DistinctInstants, Begun, TradeRowsOf, SettlesOwn, Account, QuietFillIsSeen
  <2>3. QuietIsKept'
    <3>1. \A a : Quiet(a)' = Quiet(a) /\ Committed(a)' = Committed(a)
      BY <1>10 DEF Quiet, Committed
    <3>. QED BY <1>0, <1>10, <3>1 DEF QuietIsKept
  <2>. QED BY <2>1, <2>2, <2>3 DEF InsightsInv
<1>11. ASSUME NEW a \in Accounts, Expire(a) PROVE InsightsInv'
  BY <1>0, <1>10, <1>11 DEF Expire, ReaderTypeOK
<1>12. CASE UNCHANGED insightsVars
  BY <1>0, <1>10, <1>12 DEF insightsVars, ReaderTypeOK
<1>. QED
  BY <1>1, <1>2, <1>4, <1>6, <1>7, <1>8, <1>9, <1>11, <1>12 DEF InsightsNext

\* A report request touches nothing the engine's invariants speak of.
LEMMA EngineBeside ==
  ASSUME EngineInv, AnswersInv, [InsightsNext]_insightsVars
  PROVE  EngineInv' /\ AnswersInv'
<1>1. CASE Trade
  BY <1>1, NextInv, NextAnswers DEF Trade
<1>2. CASE UNCHANGED <<ledgerVars, txVars, pc, frame, reply>>
  <2> USE <1>2 DEF ledgerVars, txVars
  <2>1. \A r \in Requests : /\ Account(r)' = Account(r) /\ Price(r)' = Price(r)
                            /\ Writes(r)' = Writes(r)
                            /\ OrderRowsOf(r)' = OrderRowsOf(r) /\ TradeRowsOf(r)' = TradeRowsOf(r)
    BY WritesFrame DEF Account, Price, OrderRowsOf, TradeRowsOf
  <2>2. TypeOK' /\ NoOverdraft' /\ LockProtectsReads' /\ Priced' /\ Unrecorded'
    BY <2>1 DEF EngineInv, TypeOK, NoOverdraft, LockProtectsReads, Priced, Unrecorded
  <2>3. AnswersInv'
    BY <2>1 DEF AnswersInv, AnswersMatchLedger, AnsweredLast, Agrees
  <2>. QED BY <2>2, <2>3 DEF EngineInv
<1>3. Trade \/ UNCHANGED <<ledgerVars, txVars, pc, frame, reply>>
  BY DEF InsightsNext, insightsVars, vars, Get, ReadTrades, ReadBalance, ReadHoldings, Build,
         Set, Expire
<1>. QED BY <1>1, <1>2, <1>3

\* Nor what the log says was spent.
LEMMA SpentBeside ==
  ASSUME EngineInv, EngineInv', SpentOnce, [InsightsNext]_insightsVars
  PROVE  SpentOnce'
<1>1. CASE Trade
  BY <1>1, NextSpent DEF Trade
<1>2. CASE UNCHANGED ledgerVars
  BY <1>2, SpentUnchanged DEF ledgerVars
<1>3. Trade \/ UNCHANGED ledgerVars
  BY DEF InsightsNext, insightsVars, vars, Get, ReadTrades, ReadBalance, ReadHoldings, Build,
         Set, Expire
<1>. QED BY <1>1, <1>2, <1>3

\* As long as there are no more orders than the trade log's cap, a fill whose DEL
\* ran while nobody worked from an older log is in every report that is served to a
\* request begun after its answer: whatever is cached, read, computed and stored
\* around it, for any number of orders, report requests and accounts.
THEOREM QuietFillsAreSeen ==
  ASSUME IsFiniteSet(Requests), Cardinality(Requests) <= MaxTradeLimit
  PROVE  InsightsSpec => []QuietFillIsSeen
<1> DEFINE Inv == EngineInv /\ AnswersInv /\ InsightsInv
<1>1. InsightsInit => Inv
  BY InitInv, InitAnswers, InitInsights DEF InsightsInit
<1>2. Inv /\ [InsightsNext]_insightsVars => Inv'
  BY EngineBeside, NextInsights
<1>3. Inv => QuietFillIsSeen
  BY DEF InsightsInv
<1>. HIDE DEF Inv
<1>. QED
  BY <1>1, <1>2, <1>3, PTL DEF InsightsSpec

\* The engine keeps its promises beside the report path: no cash or share is spent
\* twice, the row lock protects what a transaction read, and answers agree with the
\* tables, while reports are read, cached and expire.
THEOREM EngineHoldsBeside ==
  InsightsSpec => [](SpentOnce /\ LockProtectsReads /\ AnswersMatchLedger)
<1> DEFINE Inv == EngineInv /\ AnswersInv /\ SpentOnce
<1>1. InsightsInit => Inv
  BY InitInv, InitAnswers, InitSpent DEF InsightsInit
<1>2. Inv /\ [InsightsNext]_insightsVars => Inv'
  BY EngineBeside, SpentBeside
<1>3. Inv => SpentOnce /\ LockProtectsReads /\ AnswersMatchLedger
  BY DEF EngineInv, AnswersInv
<1>. HIDE DEF Inv
<1>. QED
  BY <1>1, <1>2, <1>3, PTL DEF InsightsSpec
=============================================================================

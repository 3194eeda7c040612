---------------------------- MODULE LedgerTotals ----------------------------
(***************************************************************************)
(* The ledger with running totals of its trade log, and what its columns   *)
(* must add up to after any sequence of fills and refusals, NUMERIC(20,4)  *)
(* rounding included.  The totals are history: each is carried on from the *)
(* row a step appends to the log, and no step reads them.                  *)
(***************************************************************************)
EXTENDS Ledger

VARIABLES
  fills,    \* per account, its trades
  spent,    \* per account, what its buys cost less what its sells brought,
            \* at the unrounded prices, in the unit of price * quantity
  logged,   \* the same at the rounded prices its trade rows hold
  booked,   \* per account, the realized_pl of its sells
  traded,   \* per account, the quantity of its trades
  cost,     \* per account, its positions at their stored basis, in that unit
  shares,   \* per account and symbol, shares bought less shares sold
  paid      \* per account and symbol, the prices of the buys since the log was last flat

totalVars == <<fills, spent, logged, booked, traded, cost, shares, paid>>
vars == <<ledgerVars, totalVars>>

TotalsInit ==
  /\ Init
  /\ fills = [a \in Accounts |-> 0]
  /\ spent = [a \in Accounts |-> 0]
  /\ logged = [a \in Accounts |-> 0]
  /\ booked = [a \in Accounts |-> 0]
  /\ traded = [a \in Accounts |-> 0]
  /\ cost = [a \in Accounts |-> 0]
  /\ shares = [a \in Accounts |-> [s \in Symbols |-> 0]]
  /\ paid = [a \in Accounts |-> [s \in Symbols |-> {}]]

-----------------------------------------------------------------------------
Signed(t, x) == IF t.side = "buy" THEN x ELSE -x
AtBasis(position) == position.avg * PriceScale * position.qty

\* The totals with trade t.
Tally(t) ==
  LET a == t.account
      s == t.symbol
  IN /\ fills' = [fills EXCEPT ![a] = @ + 1]
     /\ spent' = [spent EXCEPT ![a] = @ + Signed(t, t.fill * t.quantity)]
     /\ logged' = [logged EXCEPT ![a] = @ + Signed(t, t.price * PriceScale * t.quantity)]
     /\ booked' = [booked EXCEPT ![a] = @ + (IF t.side = "buy" THEN 0 ELSE t.realized[1])]
     /\ traded' = [traded EXCEPT ![a] = @ + t.quantity]
     /\ cost' = [cost EXCEPT ![a] = @ + AtBasis(positions'[a][s]) - AtBasis(positions[a][s])]
     /\ shares' = [shares EXCEPT ![a][s] = @ + Signed(t, t.quantity)]
     /\ paid' = [paid EXCEPT ![a][s] = IF shares'[a][s] = 0 THEN {}
                                       ELSE IF t.side = "buy" THEN @ \cup {t.price}
                                       ELSE @]

TotalsNext ==
  /\ Next
  /\ \/ trades' # trades /\ Tally(trades'[Len(trades')])
     \/ trades' = trades /\ UNCHANGED totalVars

TotalsSpec == TotalsInit /\ [][TotalsNext]_vars

-----------------------------------------------------------------------------
(* Properties *)

Abs(x) == IF x >= 0 THEN x ELSE -x

\* updateBalance rounds on every fill, so cash drifts from the exact cost of
\* the fills, at the unrounded prices they executed at, by at most half a tick
\* per trade, never more and never by a lost or doubled leg.
CashConserved ==
  \A a \in Accounts :
    2 * Abs((balance[a] - StartingBalance) * CashScale + spent[a]) <= fills[a] * CashScale

\* The trades table alone explains the cash, but only this closely: its price
\* column is rounded before it is stored, so replaying the rows misses the balance
\* by up to half a cash tick per trade and half a price tick per share traded.
LogExplainsCash ==
  \A a \in Accounts :
    2 * Abs((balance[a] - StartingBalance) * CashScale + logged[a])
      <= fills[a] * CashScale + PriceScale * traded[a]

\* WeightedAvgCost never leaves the range of the prices paid since the
\* position was last flat, although it is rounded and fed back on every buy; a
\* re-opened position forgets the basis its zero-quantity row still carries.
BasisWithinFills ==
  \A a \in Accounts, s \in Symbols :
    positions[a][s].qty > 0 =>
      /\ \E x \in paid[a][s] : x <= positions[a][s].avg
      /\ \E x \in paid[a][s] : x >= positions[a][s].avg

\* What an account has made: its change of cash, and the basis it still holds.
Gain(a) == (balance[a] - StartingBalance) * CashScale + cost[a]

\* The realized P/L captured on each sell, with the basis still held, explains
\* every change of cash: what the account has made is what its trades booked.
\* Each trade may round three columns: balance, avg_cost and realized_pl.
RealizedExplainsCash ==
  \A a \in Accounts :
    2 * Abs(Gain(a) - booked[a] * CashScale)
      <= fills[a] * (2 * CashScale + PriceScale * traded[a])

TradeRows == [order : Requests, account : Accounts, symbol : Symbols, side : Sides,
              quantity : Quantities, price : Int, realized : Seq(Int), fill : Prices,
              balance : Int]

\* The state of the ledger and of its totals is well formed.
LedgerType ==
  /\ balance \in [Accounts -> Int]
  /\ positions \in [Accounts -> [Symbols -> [qty : Nat, avg : Int]]]
  /\ trades \in Seq(TradeRows)
  /\ fills \in [Accounts -> Nat] /\ spent \in [Accounts -> Int]
  /\ logged \in [Accounts -> Int]
  /\ booked \in [Accounts -> Int] /\ traded \in [Accounts -> Nat]
  /\ cost \in [Accounts -> Int]
  /\ shares \in [Accounts -> [Symbols -> Int]]
  /\ paid \in [Accounts -> [Symbols -> SUBSET Int]]

\* What the proofs add: a position holds the shares its log says, which are no
\* more than were ever traded.
SharesHeld ==
  \A a \in Accounts, s \in Symbols :
    positions[a][s].qty = shares[a][s] /\ positions[a][s].qty <= traded[a]

\* The prices on record are those paid, to half a tick a share.
PricesNear ==
  \A a \in Accounts : 2 * Abs(logged[a] - spent[a]) <= PriceScale * traded[a]

LedgerInv ==
  LedgerType /\ SharesHeld /\ CashConserved /\ PricesNear /\ BasisWithinFills /\ RealizedExplainsCash
=============================================================================

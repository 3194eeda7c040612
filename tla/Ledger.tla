------------------------------- MODULE Ledger -------------------------------
(***************************************************************************)
(* What the trading engine promises its accounts, as if every order ran    *)
(* alone: an order is recorded at most once; a buy fills only if the cash  *)
(* covers it, a sell only if the shares do; a fill moves cash, position,   *)
(* order history and trade log in one step; a refusal writes one order row *)
(* and nothing else, and says truthfully why.  Nothing here knows of       *)
(* transactions, locks, caches, crashes or lost acknowledgements.          *)
(***************************************************************************)
EXTENDS Money, Sequences

CONSTANTS Accounts,         \* one per registered user
          Symbols,          \* normalised ticker symbols
          Requests,         \* order requests; a request's id is its order's id
          Prices,           \* prices market-data can quote, in fine units
          MaxQuantity,      \* maxQuantity, in ticks
          StartingBalance   \* cash of a new account, in ticks

ASSUME LedgerAssumption ==
  /\ Accounts # {} /\ Symbols # {}
  /\ Prices \subseteq Nat \ {0}
  /\ MaxQuantity \in Nat \ {0}
  /\ StartingBalance \in Nat

VARIABLES balance,    \* accounts.balance, per account
          positions,  \* positions row per account and symbol; no row is 0 at 0
          orders,     \* the orders table, in commit order
          trades      \* the trades table, in commit order

ledgerVars == <<balance, positions, orders, trades>>

Sides == {"buy", "sell"}
Quantities == 1..MaxQuantity

\* A NULL column is <<>> and a value v is <<v>>.
OrderRow(id, a, s, side, q, status, filledPrice, reason) ==
  [id |-> id, account |-> a, symbol |-> s, side |-> side, quantity |-> q,
   status |-> status, filledPrice |-> filledPrice, reason |-> reason]

\* A trade row, with two values of the same fill that other places hold: the
\* unrounded price (fill) and the balance the caller is told (balance).
TradeRow(id, a, s, side, q, p, realized, newBalance) ==
  [order |-> id, account |-> a, symbol |-> s, side |-> side, quantity |-> q,
   price |-> StoredPrice(p), realized |-> realized,
   fill |-> p, balance |-> newBalance]

Recorded(id) == \E i \in DOMAIN orders : orders[i].id = id

Init ==
  /\ balance = [a \in Accounts |-> StartingBalance]
  /\ positions = [a \in Accounts |-> [s \in Symbols |-> [qty |-> 0, avg |-> 0]]]
  /\ orders = <<>>
  /\ trades = <<>>

-----------------------------------------------------------------------------
Buy(id, a, s, q, p) ==
  /\ ~Recorded(id)
  /\ p * q <= balance[a] * CashScale
  /\ LET held == positions[a][s]
         cash == BalanceAfterBuy(balance[a], q, p)
     IN /\ balance' = [balance EXCEPT ![a] = cash]
        /\ positions' = [positions EXCEPT ![a][s] =
             [qty |-> held.qty + q,
              avg |-> WeightedAvgCost(held.qty, held.avg, q, p)]]
        /\ orders' = Append(orders,
             OrderRow(id, a, s, "buy", q, "filled", <<StoredPrice(p)>>, <<>>))
        /\ trades' = Append(trades, TradeRow(id, a, s, "buy", q, p, <<>>, cash))

Sell(id, a, s, q, p) ==
  /\ ~Recorded(id)
  /\ q <= positions[a][s].qty
  /\ LET held == positions[a][s]
         cash == BalanceAfterSell(balance[a], q, p)
     IN /\ balance' = [balance EXCEPT ![a] = cash]
        /\ positions' = [positions EXCEPT ![a][s] =
             [qty |-> held.qty - q, avg |-> held.avg]]
        /\ orders' = Append(orders,
             OrderRow(id, a, s, "sell", q, "filled", <<StoredPrice(p)>>, <<>>))
        /\ trades' = Append(trades,
             TradeRow(id, a, s, "sell", q, p, <<RealizedPL(held.avg, p, q)>>, cash))

\* A business rejection is true of the account at the moment it is recorded; a
\* rejection for want of a price can come at any time.
Justified(a, s, side, q, reason) ==
  \/ /\ reason = "insufficient_balance"
     /\ side = "buy"
     /\ \E p \in Prices : p * q > balance[a] * CashScale
  \/ /\ reason = "insufficient_position"
     /\ side = "sell"
     /\ q > positions[a][s].qty
  \/ reason \in {"symbol_unavailable", "upstream_unavailable"}

Decline(id, a, s, side, q, reason) ==
  /\ ~Recorded(id)
  /\ Justified(a, s, side, q, reason)
  /\ orders' = Append(orders, OrderRow(id, a, s, side, q, "rejected", <<>>, <<reason>>))
  /\ UNCHANGED <<balance, positions, trades>>

RejectionReasons == {"insufficient_balance", "insufficient_position",
                     "symbol_unavailable", "upstream_unavailable"}

Next ==
  \E id \in Requests, a \in Accounts, s \in Symbols, q \in Quantities :
    \/ \E p \in Prices : Buy(id, a, s, q, p) \/ Sell(id, a, s, q, p)
    \/ \E side \in Sides, reason \in RejectionReasons : Decline(id, a, s, side, q, reason)

Spec == Init /\ [][Next]_ledgerVars
=============================================================================

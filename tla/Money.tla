------------------------------- MODULE Money -------------------------------
(***************************************************************************)
(* The trading engine's arithmetic, as it lands in Postgres.  Every money  *)
(* and share column is NUMERIC(20,4), so a value is computed finer than    *)
(* its column and rounded when it is stored.  All quantities here are      *)
(* integers in one of three units:                                         *)
(*   price     fine units; PriceScale of them are one tick of a price      *)
(*             column.  A price from market-data is not snapped to a tick. *)
(*   quantity  ticks of a share; QtyScale of them are one share.           *)
(*   cash      ticks of the balance column.                                *)
(* price * quantity therefore counts CashScale-ths of a cash tick.         *)
(***************************************************************************)
EXTENDS Integers

CONSTANTS PriceScale, QtyScale

ASSUME ScaleAssumption == /\ PriceScale \in Nat \ {0}
                          /\ QtyScale \in Nat \ {0}

CashScale == PriceScale * QtyScale

\* x/d rounded to an integer, half away from zero: a NUMERIC column's rounding.
RoundNat(x, d) == (2 * x + d) \div (2 * d)
Round(x, d) == IF x >= 0 THEN RoundNat(x, d) ELSE -RoundNat(-x, d)

\* The price column's value for an unsnapped price.
StoredPrice(p) == RoundNat(p, PriceScale)

\* Mutant: the debit is taken from the price column, not from the price.
DebitAtStoredPrice(balance, q, p) ==
  RoundNat(balance * CashScale - StoredPrice(p) * PriceScale * q, CashScale)

\* Mutant: a sell's proceeds leave out the fractional share.
CreditWholeShares(balance, q, p) ==
  RoundNat(balance * CashScale + p * ((q \div QtyScale) * QtyScale), CashScale)

\* The balance column after a buy of q at p, and after a sell of q at p.
BalanceAfterBuy(balance, q, p) == RoundNat(balance * CashScale - p * q, CashScale)
BalanceAfterSell(balance, q, p) == RoundNat(balance * CashScale + p * q, CashScale)

\* Mutant: old basis and new price averaged without their quantities.
UnweightedAvgCost(oldQty, oldAvg, q, p) == RoundNat(oldAvg * PriceScale + p, 2 * PriceScale)

\* The avg_cost column after adding q at p to oldQty held at oldAvg.
WeightedAvgCost(oldQty, oldAvg, q, p) ==
  IF oldQty + q = 0
  THEN 0
  ELSE RoundNat(oldAvg * PriceScale * oldQty + p * q, (oldQty + q) * PriceScale)

\* Mutant: basis minus price.
LossAsGain(avgCost, p, q) == Round((avgCost * PriceScale - p) * q, CashScale)

\* The realized_pl column of a sell of q at p against a basis of avgCost.
RealizedPL(avgCost, p, q) == Round((p - avgCost * PriceScale) * q, CashScale)
=============================================================================

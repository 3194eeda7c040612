--------------------------- MODULE Reconstruction ---------------------------
(***************************************************************************)
(* A portfolio's history, derived from its trade log and the stored daily  *)
(* closes: the calendar, the equity curve, and the guard that compares     *)
(* what was derived with the live account.  Days are numbers, prices and   *)
(* quantities whole, so sums are exact.                                    *)
(*                                                                         *)
(* bars is a function from symbols to functions from days to closes; a log *)
(* is a sequence of [id, day, symbol, side, quantity, price, loss].        *)
(***************************************************************************)
EXTENDS Ordered, SequencesExt

CONSTANTS OpeningCash, ToleratedQuantity

ASSUME ReconstructionAssumption == OpeningCash \in Nat /\ ToleratedQuantity \in Nat

Final(seq) == seq[Len(seq)]

\* Calendar: the days on which every symbol has a bar.
Calendar(bars) ==
  Ascending({d \in UNION {DOMAIN bars[s] : s \in DOMAIN bars} :
               \A s \in DOMAIN bars : d \in DOMAIN bars[s]})

\* What an execution adds to its symbol's holding.
Delta(t) == IF t.side = "sell" THEN -t.quantity ELSE t.quantity

Quantity(holdings, s) == IF s \in DOMAIN holdings THEN holdings[s] ELSE 0

\* Mutant: a holding that is not positive is dust.
applyTradeClamps(t, st) ==
  LET q == Quantity(st.holdings, t.symbol) + Delta(t)
      open == (DOMAIN st.holdings \ {t.symbol}) \cup (IF q <= 0 THEN {} ELSE {t.symbol})
  IN [cash |-> st.cash - Delta(t) * t.price,
      holdings |-> [s \in open |-> IF s = t.symbol THEN q ELSE st.holdings[s]]]

\* applyTrade: one execution folded into cash and holdings; a holding of nothing
\* leaves the map.
applyTrade(t, st) ==
  LET q == Quantity(st.holdings, t.symbol) + Delta(t)
      open == (DOMAIN st.holdings \ {t.symbol}) \cup (IF q = 0 THEN {} ELSE {t.symbol})
  IN [cash |-> st.cash - Delta(t) * t.price,
      holdings |-> [s \in open |-> IF s = t.symbol THEN q ELSE st.holdings[s]]]

ApplyAll(ts, st) ==
  LET after[i \in 0..Len(ts)] == IF i = 0 THEN st ELSE applyTrade(ts[i], after[i - 1])
  IN after[Len(ts)]

ValueOf(holdings, bars, d) == SumFunction([s \in DOMAIN holdings |-> holdings[s] * bars[s][d]])

Opened == [cash |-> OpeningCash, holdings |-> <<>>]
NoCurve == [dates |-> <<>>, cash |-> <<>>, equity |-> <<>>, holdings |-> <<>>, missing |-> FALSE]

\* How many of the ordered trades are applied on or before a date, whether or not
\* their own days are in the calendar.
TradesBy(ordered, d) == Cardinality({i \in DOMAIN ordered : ordered[i].day <= d})

\* The log by day, stably.
StableByDay(log) ==
  LET NotAfter(j, i) == log[j].day < log[i].day \/ (log[j].day = log[i].day /\ j <= i)
      Rank(i) == Cardinality({j \in DOMAIN log : NotAfter(j, i)})
  IN [k \in DOMAIN log |-> log[CHOOSE i \in DOMAIN log : Rank(i) = k]]

\* Reconstruct: the curve over the calendar from the first trade on; missing when a
\* holding has no close on some date of it.
Reconstruct(log, bars, calendar) ==
  IF log = <<>> \/ calendar = <<>> THEN NoCurve
  ELSE
    LET ordered == StableByDay(log)
        dates == Keep(calendar, {k \in DOMAIN calendar : calendar[k] >= ordered[1].day})
        n == Len(dates)
        after[i \in 0..n] ==      \* trades applied, cash and holdings after i dates
          IF i = 0 THEN [next |-> 0, st |-> Opened]
          ELSE LET last == after[i - 1]
                   next == TradesBy(ordered, dates[i])
               IN [next |-> next, st |-> ApplyAll(SubSeq(ordered, last.next + 1, next), last.st)]
        states == [i \in 1..n |-> after[i].st]
        missing == \E i \in 1..n : \E s \in DOMAIN states[i].holdings :
                     s \notin DOMAIN bars \/ dates[i] \notin DOMAIN bars[s]
    IN IF missing THEN [NoCurve EXCEPT !.missing = TRUE]
       ELSE [dates |-> dates,
             cash |-> [i \in 1..n |-> states[i].cash],
             equity |-> [i \in 1..n |->
                           states[i].cash + ValueOf(states[i].holdings, bars, dates[i])],
             holdings |-> IF n = 0 THEN <<>> ELSE states[n].holdings,
             missing |-> FALSE]

\* Mutant: the curve's last state is compared with the account as it is.
projectNothing(r, log) ==
  [derived |-> [cash |-> Final(r.cash), holdings |-> r.holdings], left |-> r.holdings]

\* What the trades after the curve's last date make of its last state.
RolledForward(r, log) ==
  ApplyAll(Keep(log, {i \in DOMAIN log : log[i].day > Final(r.dates)}),
           [cash |-> Final(r.cash), holdings |-> r.holdings])

\* Mutant: the map of the reconstruction is rolled forward itself.
projectInPlace(r, log) ==
  [derived |-> RolledForward(r, log), left |-> RolledForward(r, log).holdings]

\* projectPastCalendar: the last state rolled forward, and what that leaves in the map
\* of holdings the reconstruction shares with its callers: a copy is rolled.
projectPastCalendar(r, log) == [derived |-> RolledForward(r, log), left |-> r.holdings]

\* Reconcile: the derived state must be the account's; an empty curve always is.
Reconciles(r, log, live) ==
  \/ r.dates = <<>>
  \/ LET derived == projectPastCalendar(r, log).derived
         positions == {s \in DOMAIN live.holdings : live.holdings[s] > ToleratedQuantity}
     IN /\ derived.cash = live.cash
        /\ DOMAIN derived.holdings = positions
        /\ \A s \in positions : LET gap == derived.holdings[s] - live.holdings[s]
                                IN gap <= ToleratedQuantity /\ -gap <= ToleratedQuantity
=============================================================================

----------------------------- MODULE Analytics -----------------------------
(***************************************************************************)
(* The sections of a portfolio report, computed while an account trades    *)
(* and closes are ingested with gaps: a symbol may have no bar for a day,  *)
(* and the newest closes are older than the newest trades.  The account    *)
(* and its log are read together here; Insights models reads that tear.    *)
(***************************************************************************)
EXTENDS Reconstruction

CONSTANTS Symbols, BenchmarkSymbols,
          Closes, Quotes,    \* per symbol: closing prices, and prices orders fill at
          Lots,              \* the quantities of orders
          NameOrder,              \* the order of the symbols' names
          barLimit,          \* bars the client asks for (its historyLimit)
          MaxDay, MaxTrades, \* bounds on the days and on the log
          OvertradingTurnoverRatio, OvertradingWindowDays,
          PanicSellDropPct, PanicSellMinOccurrences, PanicSellMinSharePct,
          MinTradingDays

ASSUME AnalyticsAssumption ==
  /\ IsFiniteSet(Symbols) /\ BenchmarkSymbols \subseteq Symbols
  /\ \A s \in Symbols : Closes[s] \subseteq Nat /\ Quotes[s] \subseteq Nat
  /\ NameOrder \in [Symbols -> Nat] /\ \A s, x \in Symbols : NameOrder[s] = NameOrder[x] => s = x
  /\ Lots \subseteq Nat \ {0} /\ barLimit \in Nat \ {0} /\ MaxDay \in Nat /\ MaxTrades \in Nat
  /\ MinTradingDays \in Nat \ {0}

VARIABLES
  today,
  bars,    \* market-data: the stored closes
  log,     \* GET /trading/trades
  cash,    \* the account
  held     \* its positions: quantity and total cost

reportVars == <<today, bars, log, cash, held>>

ReportInit ==
  /\ today = 1
  /\ bars = [s \in Symbols |-> <<>>]
  /\ log = <<>>
  /\ cash = OpeningCash
  /\ held = [s \in Symbols |-> [qty |-> 0, cost |-> 0]]

-----------------------------------------------------------------------------
(* What surrounds the report *)

\* An order of q fills at p.  loss: the trade has a realized P/L and it is negative.
Fill(s, side, q, p) ==
  /\ Len(log) < MaxTrades
  /\ IF side = "buy"
     THEN /\ cash >= q * p
          /\ cash' = cash - q * p
          /\ held' = [held EXCEPT ![s] = [qty |-> @.qty + q, cost |-> @.cost + q * p]]
     ELSE /\ held[s].qty >= q
          /\ cash' = cash + q * p
          /\ held' = [held EXCEPT ![s] = [qty |-> @.qty - q,
                                         cost |-> @.cost - (@.cost * q) \div @.qty]]
  /\ log' = Append(log, [id |-> Len(log) + 1, day |-> today,
                         symbol |-> s, side |-> side,
                         quantity |-> q, price |-> p,
                         loss |-> side = "sell" /\ p * held[s].qty < held[s].cost])
  /\ UNCHANGED <<today, bars>>

\* The day ends and its bars are ingested; a symbol may have none.
DayEnds ==
  /\ today < MaxDay
  /\ \E traded \in SUBSET Symbols : \E close \in [traded -> UNION Range(Closes)] :
       /\ \A s \in traded : close[s] \in Closes[s]
       /\ bars' = [s \in Symbols |->
                    IF s \notin traded THEN bars[s]
                    ELSE [d \in DOMAIN bars[s] \cup {today} |->
                            IF d = today THEN close[s] ELSE bars[s][d]]]
  /\ today' = today + 1
  /\ UNCHANGED <<log, cash, held>>

ReportNext ==
  \/ \E s \in Symbols, side \in {"buy", "sell"}, q \in Lots :
       \E p \in Quotes[s] : Fill(s, side, q, p)
  \/ DayEnds

ReportSpec == ReportInit /\ [][ReportNext]_reportVars

-----------------------------------------------------------------------------
(* The sections *)

reconstructionSymbols(trades) == {trades[i].symbol : i \in DOMAIN trades} \cup BenchmarkSymbols

\* The days of a symbol's newest bars, which is what market-data serves.
Recent(s) == {d \in DOMAIN bars[s] : Cardinality({e \in DOMAIN bars[s] : e > d}) < barLimit}

\* FetchHistories: the error of the first symbol, by name, whose bars could not be
\* fetched (down) or that has none.
Failing(trades, down) == {s \in reconstructionSymbols(trades) : s \in down \/ DOMAIN bars[s] = {}}
FetchError(trades, down) ==
  LET first == CHOOSE s \in Failing(trades, down) :
                 \A x \in Failing(trades, down) : NameOrder[s] <= NameOrder[x]
  IN IF first \in down THEN "upstream_unavailable" ELSE "symbol_unavailable"

\* Mutant: the oldest bars are served.
UsedOldest(trades) ==
  [s \in reconstructionSymbols(trades) |->
     [d \in {x \in DOMAIN bars[s] : Cardinality({e \in DOMAIN bars[s] : e < x}) < barLimit} |->
        bars[s][d]]]

Used(trades) == [s \in reconstructionSymbols(trades) |-> [d \in Recent(s) |-> bars[s][d]]]

Curve(trades) == Reconstruct(trades, Used(trades), Calendar(Used(trades)))
Live == [cash |-> cash,
         holdings |-> [s \in {x \in Symbols : held[x].qty > 0} |-> held[s].qty]]

\* ComputeRisk: the market values the weights are shares of, and what they are
\* shares of.  holdings: the map of the reconstruction, as the guard left it.
ComputeRisk(r, holdings) ==
  IF Len(r.dates) < MinTradingDays
  THEN [state |-> "insufficient_data", positions |-> <<>>, cash |-> 0, equity |-> 0]
  ELSE [state |-> "ok",
        positions |-> [s \in DOMAIN holdings |-> holdings[s] * bars[s][Final(r.dates)]],
        cash |-> Final(r.cash), equity |-> Final(r.equity)]

\* buyAndHold: a benchmark's closes over exactly the dates of the curve.
buyAndHold(s, r) == [i \in DOMAIN r.dates |-> bars[s][r.dates[i]]]

ComputeBenchmarking(r) ==
  IF Len(r.dates) < MinTradingDays THEN <<>>
  ELSE [s \in BenchmarkSymbols |-> buyAndHold(s, r)]

\* overtrading: value traded in the window against the mean equity of the window.
overtrading(trades, r) ==
  LET asOf == Final(r.dates)
      start == asOf - OvertradingWindowDays
      window == {i \in DOMAIN trades : trades[i].day > start /\ trades[i].day <= asOf}
      traded == SumSeq([i \in DOMAIN trades |->
                          IF i \in window THEN trades[i].quantity * trades[i].price ELSE 0])
      days == {i \in DOMAIN r.dates : r.dates[i] > start}
      sum == SumFunction([i \in days |-> r.equity[i]])
      fires == /\ window # {} /\ days # {} /\ sum # 0
               /\ traded * Cardinality(days) > OvertradingTurnoverRatio * sum
  IN IF r.dates # <<>> /\ fires THEN {trades[i].id : i \in window} ELSE {}

\* The number of dates of the curve strictly before a day.
Search(day, dates) == Cardinality({i \in DOMAIN dates : dates[i] < day})

\* Mutant: a sell after the last close is judged as well.
JudgedStale(t, dates) == t.side = "sell" /\ Search(t.day, dates) >= 2

\* A sell the rule can be evaluated for: not after the last close, and with two
\* sessions before it.
Judged(t, dates) ==
  t.side = "sell" /\ t.day <= Final(dates) /\ Search(t.day, dates) >= 2

\* droppedAcross priorSessions: prices are compared with a threshold price.
droppedAcross(t, dates) ==
  LET i == Search(t.day, dates)
  IN 100 * bars[t.symbol][dates[i]] <= (100 - PanicSellDropPct) * bars[t.symbol][dates[i - 1]]

\* panicSelling: sells at a loss into a drop, if they are many or a large share.
panicSelling(trades, r) ==
  IF r.dates = <<>> THEN {}
  ELSE LET sells == {i \in DOMAIN trades : Judged(trades[i], r.dates)}
           panics == {i \in sells : trades[i].loss /\ droppedAcross(trades[i], r.dates)}
           n == Cardinality(panics)
       IN IF n # 0 /\ (n >= PanicSellMinOccurrences
                       \/ 100 * n >= PanicSellMinSharePct * Cardinality(sells))
          THEN {trades[i].id : i \in panics} ELSE {}

\* ErrMissingClose past the curve: a holding has no close at its last date, a benchmark
\* opened at nothing, or a sell at a loss that is judged has nothing to have fallen from.
LacksClose(trades, r, holdings) ==
  LET dates == r.dates
  IN \/ /\ Len(dates) >= MinTradingDays
        /\ \/ \E s \in DOMAIN holdings : Final(dates) \notin Recent(s)
           \/ \E s \in BenchmarkSymbols : bars[s][dates[1]] = 0
     \/ /\ dates # <<>>
        /\ \E i \in DOMAIN trades :
             /\ Judged(trades[i], dates) /\ trades[i].loss
             /\ bars[trades[i].symbol][dates[Search(trades[i].day, dates) - 1]] = 0

\* What the guard leaves in the map of holdings; it leaves an empty curve at once.
HoldingsLeft(r, trades) ==
  IF r.dates = <<>> THEN r.holdings ELSE projectPastCalendar(r, trades).left

\* buildInsights on a log, while the symbols of a set cannot be fetched.
buildInsights(trades, down) ==
  LET r == Curve(trades)
      holdings == HoldingsLeft(r, trades)
      outcome == IF trades = <<>> THEN "no_trades"
                 ELSE IF Failing(trades, down) # {} THEN FetchError(trades, down)
                 ELSE IF r.missing THEN "missing_close"
                 ELSE IF ~Reconciles(r, trades, Live) THEN "unverified"
                 ELSE IF LacksClose(trades, r, holdings) THEN "missing_close"
                 ELSE "ok"
      none == [outcome |-> outcome, curve |-> NoCurve, risk |-> ComputeRisk(NoCurve, <<>>),
               benchmarks |-> <<>>, overtrading |-> {}, panicSelling |-> {}]
  IN IF outcome # "ok" THEN none
     ELSE [outcome |-> "ok", curve |-> r, risk |-> ComputeRisk(r, holdings),
           benchmarks |-> ComputeBenchmarking(r),
           overtrading |-> overtrading(trades, r), panicSelling |-> panicSelling(trades, r)]

Report == buildInsights(log, {})

-----------------------------------------------------------------------------
(* Correctness *)

\* A report is bound by a quantifier where it is used more than once, so that TLC
\* computes it once.
Trades == {log[i] : i \in DOMAIN log}
\* The signed sums of the trades up to a day: of a symbol's quantities, and of cash.
Traded(s, d) ==
  SumSeq([i \in DOMAIN log |->
            IF log[i].symbol = s /\ log[i].day <= d THEN Delta(log[i]) ELSE 0])
Spent(d) ==
  SumSeq([i \in DOMAIN log |-> IF log[i].day <= d THEN Delta(log[i]) * log[i].price ELSE 0])

\* executed_at is the start of a transaction, so two trades of one day may be listed
\* in either order, a sell before its buy even: the report is the same.
SameDayOrderIrrelevant ==
  \A i \in 1..(Len(log) - 1) :
    log[i].day = log[i + 1].day =>
      buildInsights([log EXCEPT ![i] = log[i + 1], ![i + 1] = log[i]], {}) = Report

\* The symbols a report is about.
Concerned == {t.symbol : t \in Trades} \cup BenchmarkSymbols

IsReplay(r) ==
  /\ Range(r.dates) = {d \in 1..MaxDay : /\ \E t \in Trades : t.day <= d
                                         /\ \A s \in Concerned : d \in Recent(s)}
  /\ \A i \in DOMAIN r.dates :
       LET d == r.dates[i]
           owned == {s \in Symbols : Traded(s, d) # 0}
       IN r.equity[i] = OpeningCash - Spent(d)
                          + SumFunction([s \in owned |-> Traded(s, d) * bars[s][d]])

\* The curve has every common session since the first trade, among the newest barLimit
\* bars of each symbol, and its points are what all trades up to that day, on sessions
\* or not, and that day's closes make them.
CurveIsReplay ==
  \A report \in {Report} : report.outcome = "ok" => IsReplay(report.curve)

\* What can keep a report of an account read in one piece from being made.
Cause(outcome, down) ==
  \/ outcome = "no_trades" /\ log = <<>>
  \/ outcome = "upstream_unavailable" /\ Concerned \cap down # {}
  \/ outcome = "symbol_unavailable" /\ \E s \in Concerned : DOMAIN bars[s] = {}
  \/ outcome = "unverified" /\ \E s \in Symbols : held[s].qty \in 1..ToleratedQuantity
  \/ outcome = "missing_close" /\ \E s \in Concerned : \E d \in Recent(s) : bars[s][d] = 0
  \/ outcome = "ok" /\ Concerned \cap down = {} /\ \A s \in Concerned : DOMAIN bars[s] # {}

\* An account read in one piece is refused its report for four causes only.  The guard
\* does not refuse it for trades since the last close, nor on days without a bar, nor for
\* a curve cut short, but only for a position within its tolerance; ErrMissingClose takes
\* a close of zero: gaps in the bars do not cause it, nor symbols sold out long ago.
RefusalIsExplained ==
  \A down \in SUBSET Symbols : \A outcome \in {buildInsights(log, down).outcome} : Cause(outcome, down)

DescribesAsOf(risk, dates) ==
  LET d == Final(dates)
  IN risk.state = "ok" =>
       /\ risk.positions = [s \in {x \in Symbols : Traded(x, d) # 0} |-> Traded(s, d) * bars[s][d]]
       /\ risk.cash = OpeningCash - Spent(d)
       /\ risk.cash + SumFunction(risk.positions) = risk.equity

\* The risk section weighs what its as-of date says: the positions and the cash of the
\* trades up to that date at that day's closes, and no trade after it, although the guard
\* has just rolled those forward; so the weights add up to a hundred.
RiskDescribesAsOf ==
  \A report \in {Report} : DescribesAsOf(report.risk, report.curve.dates)

Judgeable(report, dates) ==
  \A t \in Trades :
    /\ t.id \in report.overtrading \cup report.panicSelling => \E d \in dates : d >= t.day
    /\ t.id \in report.panicSelling =>
         /\ t.side = "sell" /\ t.loss
         /\ \E a, b \in dates :
              /\ a < b /\ b < t.day
              /\ \A d \in dates : d < t.day => d <= a \/ d = b
              /\ 100 * bars[t.symbol][b] <= (100 - PanicSellDropPct) * bars[t.symbol][a]

\* Evidence is judged only on what the curve reaches.  A trade cited for either rule
\* is on or before the as-of date, so trading after the last close alone never fires
\* one; and one cited for panic selling is a losing sell whose symbol fell by the
\* threshold over the two sessions of the curve that came last before it.
EvidenceIsJudgeable ==
  \A report \in {Report} : Judgeable(report, Range(report.curve.dates))

-----------------------------------------------------------------------------
(* The inductive invariant *)

Executions(S) == [id : Nat, day : Nat, symbol : S, side : {"buy", "sell"}, quantity : Nat,
                  price : Nat, loss : BOOLEAN]

\* A log in the order of its days.
DaysAscend(trades) == \A i, j \in DOMAIN trades : i < j => trades[i].day <= trades[j].day

ReportTypeOK ==
  /\ today \in Nat \ {0}
  /\ DOMAIN bars = Symbols
  /\ \A s \in Symbols : DOMAIN bars[s] \subseteq 1..MaxDay /\ \A d \in DOMAIN bars[s] : bars[s][d] \in Nat
  /\ log \in Seq(Executions(Symbols)) /\ DaysAscend(log)
  /\ \A i \in DOMAIN log : log[i].id = i /\ log[i].day <= today
  /\ cash \in Int /\ held \in [Symbols -> [qty : Nat, cost : Int]]

\* The cash and the positions are what the log makes of an opening balance.
AccountIsReplay ==
  LET derived == ApplyAll(log, Opened)
  IN /\ cash = derived.cash
     /\ \A s \in Symbols : held[s].qty = Quantity(derived.holdings, s)

ReportInv == ReportTypeOK /\ AccountIsReplay
=============================================================================

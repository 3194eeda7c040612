------------------------------ MODULE Backtest ------------------------------
(***************************************************************************)
(* One run of the backtesting service: the request is validated, every     *)
(* symbol's history is fetched concurrently, the histories are aligned on  *)
(* their common days, a strategy gives its signals, a portfolio with one   *)
(* pool of cash is simulated bar by bar, and the run is saved with its     *)
(* trade log in one transaction.                                           *)
(*                                                                         *)
(* Symbols are numbered in alphabetical order, days from 1 on.  A price is *)
(* whole ticks of its column, which is where it comes from.  Money and     *)
(* quantities are whole numbers of a unit so small that every division is  *)
(* exact; their columns are coarser and round.                             *)
(***************************************************************************)
EXTENDS Strategies

CONSTANTS maxSymbols,
          historyLimit,  \* bars the client asks for, market-data's own maximum
          QuantityTick, MoneyTick,   \* units of a quantity, of money, per column tick
          Upper,       \* a raw symbol's trimmed, upper-cased form; 0 when empty
          Requests,    \* requests [symbols, strategy, capital, start, end] that may
                       \* arrive; a date that does not parse is 0
          Markets      \* what market-data may have stored: a sequence of bars
                       \* [day, open, close] per symbol, in ascending order

ASSUME BacktestAssumption ==
  /\ maxSymbols \in Nat \ {0} /\ historyLimit \in Nat \ {0}
  /\ QuantityTick \in Nat \ {0} /\ MoneyTick \in Nat \ {0}

Listed == {Upper[raw] : raw \in DOMAIN Upper} \ {0}
Bar == [day : Int, open : Int, close : Int]

ASSUME RequestsAssumption ==
  /\ Upper \in [DOMAIN Upper -> Nat]
  /\ \A r \in Requests :
       /\ r \in [symbols : Seq(DOMAIN Upper), strategy : [kind : STRING, params : Seq(Int)],
                 capital : Int, start : Nat, end : Nat]
       /\ Decoded(r.strategy)

\* market-data keeps one bar per symbol and day.
ASSUME MarketsAssumption ==
  \A market \in Markets : \A s \in Listed :
    /\ market[s] \in Seq(Bar)
    /\ \A j, k \in DOMAIN market[s] : j < k => market[s][j].day < market[s][k].day

VARIABLES
  stored,     \* the histories market-data has
  at,         \* where the run is: request, fetch, simulate, save, insert, answered
  reply,      \* the answer: its code and, for a fetch that failed, the symbol
  req,        \* the request, symbols normalised
  errs,       \* the outcome of each symbol's fetch
  waitErr,    \* the error errgroup.Wait would return: the first to occur, 0 if none
  aligned,    \* a sequence of bars per symbol, of equal length
  signals,
  sim,        \* the simulation: bars done, cash, quantity, avgCost, trades, equity
  tx,         \* the transaction's rows, and how many trades it has inserted
  db          \* Postgres: the run's row and the rows of its trades

vars == <<stored, at, reply, req, errs, waitErr, aligned, signals, sim, tx, db>>

NoReply == [code |-> "none", symbol |-> 0]
NoSim == [bar |-> 0, cash |-> 0, quantity |-> <<>>, avgCost |-> <<>>, trades |-> <<>>,
          equity |-> 0]
NoReq == [symbols |-> <<>>, strategy |-> [kind |-> "none", params |-> <<>>],
          capital |-> 0, start |-> 0, end |-> 0]
NoRows == [runs |-> {}, trades |-> {}]
NoTx == [runs |-> {}, trades |-> {}, done |-> 0]

Init ==
  /\ stored \in Markets
  /\ at = "request" /\ reply = NoReply /\ req = NoReq
  /\ errs = <<>> /\ waitErr = 0
  /\ aligned = <<>> /\ signals = <<>> /\ sim = NoSim
  /\ tx = NoTx /\ db = NoRows

Reply(code, symbol) == at' = "answered" /\ reply' = [code |-> code, symbol |-> symbol]

-----------------------------------------------------------------------------
(* Validation and fetch *)

Uppered(raw) == [i \in DOMAIN raw |-> Upper[raw[i]]]
Sorted(symbols) == Ascending(ToSet(symbols))

normalizeSymbols(raw) ==
  /\ Len(raw) \in 1..maxSymbols
  /\ \A i \in DOMAIN raw : Upper[raw[i]] # 0
  /\ IsInjective(Uppered(raw))

validateRequest(r) ==
  /\ normalizeSymbols(r.symbols)
  /\ NewStrategy(r.strategy)
  /\ r.capital > 0
  /\ r.start # 0 /\ r.end # 0 /\ r.start < r.end

RunBacktest ==
  /\ at = "request"
  /\ \E r \in Requests :
       IF validateRequest(r)
       THEN /\ req' = [r EXCEPT !.symbols = Sorted(Uppered(r.symbols))]
            /\ errs' = [i \in DOMAIN r.symbols |-> "pending"]
            /\ at' = "fetch" /\ UNCHANGED reply
       ELSE Reply("invalid_request", 0) /\ UNCHANGED <<req, errs>>
  /\ UNCHANGED <<stored, waitErr, aligned, signals, sim, tx, db>>

\* One goroutine's History call ends.  A failure cancels nobody else's.
History(i) ==
  /\ at = "fetch" /\ errs[i] = "pending"
  /\ \E err \in {"upstream_unavailable",
                 IF stored[req.symbols[i]] = <<>> THEN "symbol_unavailable" ELSE "ok"} :
       /\ errs' = [errs EXCEPT ![i] = err]
       /\ waitErr' = IF waitErr = 0 /\ err # "ok" THEN i ELSE waitErr
  /\ UNCHANGED <<stored, at, reply, req, aligned, signals, sim, tx, db>>

-----------------------------------------------------------------------------
(* Alignment *)

\* Mutant: the limit keeps the oldest bars.
ServedOldest(bars) == Keep(bars, {k \in DOMAIN bars : k <= historyLimit})

\* What market-data answers: the newest bars, as many as the limit, oldest first.
Served(bars) == Keep(bars, {k \in DOMAIN bars : Len(bars) - k < historyLimit})

sliceRange(bars, start, end) ==
  Keep(bars, {k \in DOMAIN bars : start <= bars[k].day /\ bars[k].day <= end})

\* Each symbol's history in the range; the first one's bars, in their order, are
\* kept where every other symbol has a bar of the same day.
alignBars ==
  LET ranged == [i \in DOMAIN req.symbols |->
                   sliceRange(Served(stored[req.symbols[i]]), req.start, req.end)]
      ByDay(i, day) == {b \in ToSet(ranged[i]) : b.day = day}
      first == ranged[1]
      common == Keep(first, {k \in DOMAIN first :
                               \A i \in DOMAIN req.symbols : ByDay(i, first[k].day) # {}})
  IN [i \in DOMAIN req.symbols |->
        [k \in DOMAIN common |-> CHOOSE b \in ByDay(i, common[k].day) : TRUE]]

FailedFetches == {i \in DOMAIN errs : errs[i] # "ok"}

Run(bars) ==
  /\ aligned' = bars
  /\ signals' = [i \in DOMAIN bars |-> GenerateSignals(req.strategy, bars[i])]
  /\ sim' = [NoSim EXCEPT !.cash = req.capital,
                          !.quantity = [i \in DOMAIN bars |-> 0],
                          !.avgCost = [i \in DOMAIN bars |-> 0]]
  /\ at' = "simulate" /\ UNCHANGED reply

\* Mutant: the error reported is the one errgroup.Wait returns.
FetchedFirstError ==
  /\ at = "fetch" /\ \A i \in DOMAIN errs : errs[i] # "pending"
  /\ IF waitErr # 0
     THEN Reply(errs[waitErr], req.symbols[waitErr]) /\ UNCHANGED <<aligned, signals, sim>>
     ELSE LET bars == alignBars
          IN IF bars[1] = <<>> \/ WarmupBars(req.strategy) > Len(bars[1])
             THEN Reply("date_range_unavailable", 0) /\ UNCHANGED <<aligned, signals, sim>>
             ELSE Run(bars)
  /\ UNCHANGED <<stored, req, errs, waitErr, tx, db>>

\* Wait returns: the first failure in symbol order ends the run, then an empty
\* alignment does, then one shorter than the warm-up.
Fetched ==
  /\ at = "fetch" /\ \A i \in DOMAIN errs : errs[i] # "pending"
  /\ LET bars == alignBars
         Ends(code, symbol) == Reply(code, symbol) /\ UNCHANGED <<aligned, signals, sim>>
     IN IF FailedFetches # {}
        THEN LET i == Min(FailedFetches) IN Ends(errs[i], req.symbols[i])
        ELSE IF bars[1] = <<>> THEN Ends("date_range_unavailable", 0)
        ELSE IF WarmupBars(req.strategy) > Len(bars[1]) THEN Ends("invalid_request", 0)
        ELSE Run(bars)
  /\ UNCHANGED <<stored, req, errs, waitErr, tx, db>>

-----------------------------------------------------------------------------
(* Simulation *)

Portfolio == DOMAIN aligned
Record(side, i, k, quantity, pl) ==
  [symbol |-> req.symbols[i], side |-> side, bar |-> k, price |-> aligned[i][k].open,
   quantity |-> quantity, pl |-> pl]
Value(p, price) == p.cash + SumSeq([i \in Portfolio |-> p.quantity[i] * price[i]])

\* Mutant: the fill answers the bar's own signal.
SignalSameBar(i, k) == signals[i][k]

\* The signal symbol i's fill at bar k answers: the previous bar's.
Signal(i, k) == signals[i][k - 1]

\* Mutant: the position is not reset when it is sold.
SellKeeps(p, i, k) ==
  IF Signal(i, k) # "sell" \/ p.quantity[i] = 0 THEN p
  ELSE LET open == aligned[i][k].open
       IN [p EXCEPT !.cash = @ + p.quantity[i] * open,
                    !.trades = Append(@, Record("sell", i, k, p.quantity[i],
                                                (open - p.avgCost[i]) * p.quantity[i]))]

\* The whole position is sold into the shared cash.
Sell(p, i, k) ==
  IF Signal(i, k) # "sell" \/ p.quantity[i] = 0 THEN p
  ELSE LET open == aligned[i][k].open
       IN [p EXCEPT !.cash = @ + p.quantity[i] * open,
                    !.trades = Append(@, Record("sell", i, k, p.quantity[i],
                                                (open - p.avgCost[i]) * p.quantity[i])),
                    !.quantity[i] = 0, !.avgCost[i] = 0]

\* A buy spends the bar's target, or what the pool still holds.
Buy(p, i, k, target) ==
  LET spend == IF p.cash < target THEN p.cash ELSE target
  IN IF Signal(i, k) # "buy" \/ p.quantity[i] # 0 \/ spend <= 0 THEN p
     ELSE LET open == aligned[i][k].open
              quantity == Exactly(spend, open)
          IN [p EXCEPT !.cash = @ - spend, !.quantity[i] = quantity, !.avgCost[i] = open,
                       !.trades = Append(@, Record("buy", i, k, quantity, 0))]

\* One bar of SimulatePortfolio: sells, the target off the equity at the open,
\* buys, the mark to market at the close.  No fill on the first bar.
SimulateBar ==
  /\ at = "simulate" /\ sim.bar < Len(aligned[1])
  /\ LET k == sim.bar + 1
         n == Len(aligned)
         sold[i \in 0..n] == IF i = 0 THEN sim ELSE Sell(sold[i - 1], i, k)
         equityAtOpen == Value(sold[n], [i \in Portfolio |-> aligned[i][k].open])
         target == Exactly(equityAtOpen, n)
         bought[i \in 0..n] == IF i = 0 THEN sold[n] ELSE Buy(bought[i - 1], i, k, target)
         filled == IF k = 1 THEN sim ELSE bought[n]
     IN sim' = [filled EXCEPT !.bar = k,
                              !.equity = Value(filled, [i \in Portfolio |-> aligned[i][k].close])]
  /\ UNCHANGED <<stored, at, reply, req, errs, waitErr, aligned, signals, tx, db>>

\* Gains and losses of the closed round trips.
tradeStats(trades) ==
  LET Total(S) == SumSeq([i \in DOMAIN trades |-> IF i \in S THEN trades[i].pl ELSE 0])
      closed == {i \in DOMAIN trades : trades[i].side = "sell"}
      wins == {i \in closed : trades[i].pl > 0}
      losses == {i \in closed : trades[i].pl < 0}
  IN [closed |-> Cardinality(closed), wins |-> Cardinality(wins),
      grossGain |-> Total(wins), grossLoss |-> -Total(losses)]

ComputeMetrics(p) ==
  [gain |-> p.equity - req.capital, stats |-> tradeStats(p.trades)]

Simulated ==
  /\ at = "simulate" /\ sim.bar = Len(aligned[1])
  /\ at' = "save"
  /\ UNCHANGED <<stored, reply, req, errs, waitErr, aligned, signals, sim, tx, db>>

-----------------------------------------------------------------------------
(* The store *)

\* A NUMERIC column's rounding, half away from zero.
InTicks(x, tick) ==
  IF x >= 0 THEN (2 * x + tick) \div (2 * tick) ELSE -((tick - 2 * x) \div (2 * tick))

\* The run's row; its five metrics are ratios of what ComputeMetrics returns, rounded
\* by columns of their own.
Row == [symbols |-> req.symbols, strategy |-> req.strategy,
        finalEquity |-> InTicks(sim.equity, MoneyTick), metrics |-> ComputeMetrics(sim)]

\* A trade as its columns hold it.
Stored(t) == [t EXCEPT !.quantity = InTicks(@, QuantityTick), !.pl = InTicks(@, MoneyTick)]
TradeRow(i) == [seq |-> i, trade |-> Stored(sim.trades[i])]

\* Mutant: the run's row is inserted before the transaction of its trades begins.
InsertBacktestAlone ==
  /\ at = "save" /\ at' = "insert"
  /\ tx' = [NoTx EXCEPT !.runs = {Row}] /\ db' = [NoRows EXCEPT !.runs = {Row}]
  /\ UNCHANGED <<stored, reply, req, errs, waitErr, aligned, signals, sim>>

\* SaveBacktest: the transaction begins with the run's row ...
InsertBacktest ==
  /\ at = "save" /\ at' = "insert"
  /\ tx' = [NoTx EXCEPT !.runs = {Row}]
  /\ UNCHANGED <<stored, reply, req, errs, waitErr, aligned, signals, sim, db>>

\* ... inserts the trades one by one, by their place in the log ...
InsertTrade ==
  /\ at = "insert" /\ tx.done < Len(sim.trades)
  /\ tx' = [tx EXCEPT !.done = @ + 1, !.trades = @ \cup {TradeRow(tx.done + 1)}]
  /\ UNCHANGED <<stored, at, reply, req, errs, waitErr, aligned, signals, sim, db>>

\* ... and commits; the commit's answer may be lost.
CommitBacktest ==
  /\ at = "insert" /\ tx.done = Len(sim.trades)
  /\ tx' = NoTx /\ db' = [runs |-> tx.runs, trades |-> tx.trades]
  /\ \E code \in {"created", "internal_error"} : Reply(code, 0)
  /\ UNCHANGED <<stored, req, errs, waitErr, aligned, signals, sim>>

\* Any of these steps fails, or the connection or the process does: Postgres rolls
\* the transaction back.
SaveFails ==
  /\ at \in {"save", "insert"}
  /\ tx' = NoTx /\ Reply("internal_error", 0)
  /\ UNCHANGED <<stored, req, errs, waitErr, aligned, signals, sim, db>>

\* GetBacktest: the trades ORDER BY seq.
GetBacktest ==
  LET seqs == Ascending({row.seq : row \in db.trades})
      RowOf(seq) == CHOOSE row \in db.trades : row.seq = seq
  IN [i \in DOMAIN seqs |-> RowOf(seqs[i]).trade]

-----------------------------------------------------------------------------
Next ==
  \/ RunBacktest \/ (\E i \in DOMAIN errs : History(i)) \/ Fetched
  \/ SimulateBar \/ Simulated
  \/ InsertBacktest \/ InsertTrade \/ CommitBacktest \/ SaveFails

Spec == Init /\ [][Next]_vars

-----------------------------------------------------------------------------
(* Correctness *)

\* No lookahead: run on the bars before a fill's day only, the strategy already
\* gives that signal on the last of them.
NoLookahead ==
  \A n \in DOMAIN sim.trades :
    LET t == sim.trades[n]
        i == CHOOSE j \in Portfolio : req.symbols[j] = t.symbol
        past == SubSeq(aligned[i], 1, t.bar - 1)
    IN GenerateSignals(req.strategy, past)[t.bar - 1] = t.side

\* The pool is closed: at every bar the equity is the starting capital, plus what
\* the closed trades of the log made and lost, plus what the open positions would.
ReturnExplained ==
  sim.bar > 0 =>
    LET stats == ComputeMetrics(sim).stats
        Unrealised(i) == sim.quantity[i] * (aligned[i][sim.bar].close - sim.avgCost[i])
    IN /\ sim.cash >= 0
       /\ ComputeMetrics(sim).gain =
            stats.grossGain - stats.grossLoss + SumSeq([i \in Portfolio |-> Unrealised(i)])

DaysOf(bars) == {b.day : b \in ToSet(bars)}
NewestDays(bars) == {bars[k].day : k \in {j \in DOMAIN bars : Len(bars) < j + historyLimit}}
CommonDays(market, r) ==
  {d \in r.start..r.end : \A s \in ToSet(r.symbols) : d \in NewestDays(market[s])}

\* The bars are those of the common days, in order, and each is its symbol's own.
OnCommonDays(market, r, bars) ==
  \A i \in DOMAIN bars :
    /\ DaysOf(bars[i]) = CommonDays(market, r)
    /\ \A k \in DOMAIN bars[i] : k > 1 => bars[i][k - 1].day < bars[i][k].day
    /\ ToSet(bars[i]) \subseteq ToSet(market[r.symbols[i]])

\* The timeline is the days of the request, last one included, on which every symbol
\* has a bar among its newest historyLimit, in order, and each bar is that symbol's
\* own: the limit never drops a newer day for an older one, nor lets a symbol run on
\* days another has lost to it.
TimelineIsCommon == at \in {"simulate", "save", "insert"} => OnCommonDays(stored, req, aligned)

\* A strategy that is accepted fits the bound on its warm-up as a number, not only
\* as the int its sum wraps to.
WarmupFits ==
  at = "fetch" =>
    LET p == req.strategy.params
    IN CASE req.strategy.kind = "ma_crossover" -> p[2] <= maxWarmupBars
         [] req.strategy.kind = "rsi"          -> p[1] + 1 <= maxWarmupBars
         [] req.strategy.kind = "macd"         -> p[2] + p[3] - 1 <= maxWarmupBars

\* The failure reported does not depend on which fetch ended first: it is that of
\* the first failing symbol in alphabetical order.
SameFailureReported ==
  reply.code \in {"symbol_unavailable", "upstream_unavailable"} =>
    /\ \A i \in DOMAIN errs : errs[i] # "pending"
    /\ \A i \in DOMAIN errs : req.symbols[i] < reply.symbol => errs[i] = "ok"
    /\ \E i \in DOMAIN errs : req.symbols[i] = reply.symbol /\ errs[i] = reply.code

\* A number and the tick it is stored as, half of one apart at most.
WithinHalf(column, x, tick) == 2 * (column * tick - x) \in -tick..tick
ReadsAs(row, t) ==
  /\ row.symbol = t.symbol /\ row.side = t.side /\ row.bar = t.bar /\ row.price = t.price
  /\ WithinHalf(row.quantity, t.quantity, QuantityTick) /\ WithinHalf(row.pl, t.pl, MoneyTick)

\* A run anyone can read has its whole trade log, in the order of the simulation, each
\* number within half a tick of its column of the one the POST answered; and a run that
\* is answered can be read.  No failure between the inserts leaves part of a run.
SavedWhole ==
  /\ db.runs # {} =>
       /\ DOMAIN GetBacktest = DOMAIN sim.trades
       /\ \A i \in DOMAIN sim.trades : ReadsAs(GetBacktest[i], sim.trades[i])
  /\ reply.code = "created" => db.runs # {}

-----------------------------------------------------------------------------
(* The inductive invariant *)

\* What validation has established of a request.
Accepted(r) ==
  /\ r.symbols \in Seq(Listed) /\ r.symbols # <<>>
  /\ \A i, j \in DOMAIN r.symbols : i < j => r.symbols[i] < r.symbols[j]
  /\ Decoded(r.strategy) /\ NewStrategy(r.strategy)
  /\ r.capital \in Int /\ r.start \in Int /\ r.end \in Int

Outcomes == {"pending", "ok", "symbol_unavailable", "upstream_unavailable"}

TradeType == [symbol : Listed, side : {"buy", "sell"}, bar : Nat, price : Int, quantity : Int,
              pl : Int]

\* A trade answers a signal of its symbol, given on the bar before it.
Answers(t, symbols, bars, sigs) ==
  \E j \in DOMAIN bars : /\ symbols[j] = t.symbol
                         /\ t.bar \in 2..Len(bars[1])
                         /\ sigs[j][t.bar - 1] = t.side

\* Bars long enough for the strategy, as many for each symbol.
Playable(r, bars) ==
  /\ bars \in Seq(Seq(Bar)) /\ Len(bars) = Len(r.symbols)
  /\ \A i \in DOMAIN bars : Len(bars[i]) = Len(bars[1])
  /\ WarmupBars(r.strategy) <= Len(bars[1])

\* The simulations of which every trade answers a signal.
SimStates(symbols, bars, sigs) ==
  [bar : 0..Len(bars[1]), cash : Int, quantity : [DOMAIN bars -> Int],
   avgCost : [DOMAIN bars -> Int],
   trades : Seq({t \in TradeType : Answers(t, symbols, bars, sigs)}), equity : Int]

RunTypeOK ==
  /\ stored \in Markets
  /\ at \in {"request", "fetch", "simulate", "save", "insert", "answered"}
  /\ at # "answered" => reply = NoReply /\ db = NoRows
  /\ at \in {"fetch", "simulate", "save", "insert"} =>
       Accepted(req) /\ errs \in [DOMAIN req.symbols -> Outcomes]
  /\ at \in {"request", "fetch"} => aligned = <<>>
  /\ at \in {"simulate", "save", "insert"} => aligned # <<>>

\* A run that has begun has its bars and the signals the strategy gives on them.
RunFollowsSignals ==
  IF aligned = <<>> THEN sim = NoSim
  ELSE /\ Accepted(req) /\ Playable(req, aligned)
       /\ signals = [i \in DOMAIN aligned |-> GenerateSignals(req.strategy, aligned[i])]
       /\ sim \in SimStates(req.symbols, aligned, signals)

\* The transaction holds the first trades of the log; what it commits is all of them.
TradeRows(n) == {TradeRow(i) : i \in 1..n}
InTransaction ==
  /\ tx.done \in 0..Len(sim.trades) /\ tx.trades = TradeRows(tx.done)
  /\ at = "insert" => tx.runs = {Row}

BacktestInv ==
  /\ RunTypeOK /\ RunFollowsSignals
  /\ SameFailureReported /\ TimelineIsCommon
  /\ at = "insert" => InTransaction
  /\ db.runs # {} => db.trades = TradeRows(Len(sim.trades))
  /\ reply.code = "created" => db.runs # {}
=============================================================================

# QuantSim in TLA+

A verification development for QuantSim, a paper-trading platform: Go services
(`gateway`, `auth`, `market-data`, `trading-engine`, `backtesting`,
`ai-insights`) over Postgres and Redis, and a React frontend. The modules here
are translated from the source under `src/`; `PROJECT.json` maps each
definition to the lines it stands for.

## 1. The system and its parts

| part | state it keeps | operations | what is hard |
|---|---|---|---|
| trading-engine, orders | `accounts`, `positions`, `orders`, `trades` in Postgres | place an order: validate, price over HTTP, execute in one transaction, delete the cached report | concurrent orders of one account; the lock held from the read to COMMIT; lost COMMIT acknowledgements; crashes; rounding to NUMERIC(20,4) |
| trading-engine, reads | none | order history, trade log (capped), positions, portfolio | reads in several queries without a snapshot; a log ordered by transaction start |
| ai-insights, report path | report per user in Redis, TTL 5 min | get, compute (trade log, portfolio, bars, reconcile), set | a cache filled from old data after its invalidation; torn reads; tolerances |
| ai-insights, sections | none | calendar, reconstruction, guard, weights, benchmarks, trading patterns | missing bars; trades after the last close; the order of one day's trades |
| ai-insights, narrative | narrative cache and daily counter in Redis | hash the report, cache, daily allowance, two drafts, validate, render | paying without bound; a Redis outage; prose beside a report it was not written for |
| gateway, login backoff | failure count per account in memory | attempt, succeed, undo, sweep | counts taken in advance and corrected by answers that arrive in any order |
| gateway, per-IP limiter | fixed windows per address in memory | allow, sweep | clock read before the lock; every connection comes from the proxy |
| auth | users in Postgres, revoked tokens in Redis | register, login, refresh, logout | refresh racing logout; a revocation store that fails open; tokens without a jti |
| market-data | live prices in Redis (TTL 45 s), bars in Postgres | poll every 15 s, ingest, latest price, history | slow and queued polls; a price that is a memory of one; partial ingests |
| backtesting | saved backtests in Postgres | align, simulate a strategy, save | look-ahead; one pool of cash; concurrent fetches that fail |
| frontend | session, panels | sign in and out, one shared refresh, narrative hook | answers that arrive after the state they belong to has gone |

They interact by HTTP calls and by two shared stores. The one place where a
service writes a key of another is the report cache: trading-engine deletes
`insights:{user}` after a fill, ai-insights fills it. That is why `Insights`
composes the two services rather than modelling either alone; likewise
`Sessions` composes the browser with auth, `Narrative` the browser with the
narrative endpoint, `LivePrices` the poller with the client an order prices
from, and `AuthGate` the two limiters a login passes.

What makes each part correct:

* orders: no cash and no share is spent twice; a fill changes cash, position,
  order and trade together or not at all; the answer matches what was recorded;
  every order ends; the columns add up within their rounding;
* report: a fill is in every later report; a refusal has a cause; nothing stale
  stays for good; the figures are those of the log at their own date, whatever
  bars are missing or cut off;
* narrative: the bill is bounded; only checked prose is served, and only beside
  the report it describes;
* limiters: Retry-After is honest, only refused passwords count, a client has
  one budget and pays for its own requests;
* sessions: a revocation is final and reaches one token; identities do not mix;
  nothing waits for ever;
* market-data: one missed tick is no outage, a price the market has left behind
  stops being served, stored ranges are whole;
* backtests: no look-ahead, no money made or lost outside the log, one answer
  whatever the scheduling.

## 2. Modules

| module | models | kind |
|---|---|---|
| `Money` | the arithmetic of a fill and the rounding of its columns | operators |
| `Ledger` | what trading-engine promises, one order at a time | abstract specification |
| `LedgerTotals` | running totals of the ledger's trade log, and what its columns must add up to | history on `Ledger` |
| `TradingEngine` | PlaceOrder under concurrency, failure and crash | detailed specification, implements `Ledger` |
| `TradingReads` | the trade log and the holdings as the API returns them | operators over `TradingEngine` |
| `Insights` | the report path, composed with `TradingEngine` | composition |
| `Reconstruction` | calendar, equity curve, guard | operators |
| `Analytics` | the report's sections over a growing log and bars with gaps | specification |
| `Drafts` | the contract of the language model: vocabulary, validation, rendering | operators |
| `Narrative` | the narrative endpoint with its cache and allowance, and the browser's hook and view | composition |
| `LoginBackoff` | the gateway's per-account backoff | specification |
| `AuthGate` | the per-IP windows in front of it | composition |
| `Auth` | registration, login, refresh, logout | specification |
| `Sessions` | AuthProvider and the API client on top of `Auth` | composition |
| `LivePrices` | the poller, the price cache, the price of an order | specification |
| `Ingest` | history ingest | specification |
| `MarketData` | both in one process that restarts | composition |
| `Strategies` | the three strategies and their indicators | operators |
| `Backtest` | a backtest from its request to the saved run | specification |
| `Ordered` | sorted sets of numbers, the kept part of a sequence, running sums | operators |
| `LedgerProofs`, `GatewayProofs`, `SessionsProofs`, `MarketDataProofs`, `NarrativeProofs` | | theorems of the module or composition they are named for |
| `TradingProofs` | | theorems of `TradingEngine` and `Insights` |
| `HistoryProofs` | | theorems of `Backtest` and `Analytics` |
| `Induction` | | lemmas: induction over the naturals, recursive functions, the operators of `Ordered` |
| `MC*` | instances | TLC |

**Money.** Prices are integers in fine units (`PriceScale` to a tick), because
a price from market-data is not snapped; quantities are ticks; cash is ticks of
the balance column. `RoundNat` is the rounding of a NUMERIC(20,4) column. The
scales are constants: the code's are 10^4 for quantities, and as fine as a
float64 price is for prices.

**Ledger.** `Buy`, `Sell` and `Decline` are the whole of an order. A trade row
carries two values of the same fill that live elsewhere in the code: the
unrounded price, so that conservation can be stated against what was really
paid, and the balance told to the caller.

**LedgerTotals.** `Tally` carries eight totals on from the row a step appends to
the log: fills, cash spent at the unrounded prices and at the rounded ones the
trade rows hold (`logged`), profit booked, quantity traded, stored basis, shares
and the prices paid since a position was last flat. No step of the ledger reads
them; they make the conservation laws statements about a state, which can be
proved for a log of any length, where a sum over the log could only be checked.

**TradingEngine.** One process per request, one action per stretch of code
between two calls that can wait: `PlaceOrder` (decode, validate, resolve the
account), `LatestPrice` (HTTP, outside any transaction), `recordRejection` (one
INSERT without a lock), `Begin`, `LockAccount` (SELECT ... FOR UPDATE),
`ExecuteOrder` (everything the transaction reads and stages), `Commit`,
`invalidateInsights`. Staged writes live in the request's `frame` and reach the
tables at COMMIT. `CommitUnacknowledged` is a COMMIT that lands while its caller
sees an error; `Rollback` is any statement failing or the client going away;
`Crash` is the process dying. A request runs once: a client that retries sends a
new one, since the code has no idempotency key. `Promise` is the instance of
`Ledger` on the engine's tables.

**TradingReads.** `executed_at` is `DEFAULT now()`, the transaction's start, so
`Log` sorts by `startedAt`, which a request gets at `Begin`, before it waits for
the lock; `ListTrades` cuts it at the limit.

**Insights.** One process per report request: `Get`, `ReadTrades`,
`ReadBalance` and `ReadHoldings` (the two queries behind GET
/trading/portfolio), `Build`, `Set`; `Expire` is the TTL. `Trade` is any step of
`TradingEngine`. A report is abstracted to what it was computed from (`basis`)
and its status; the replay of the log is one fold. A window without a calendar
date reconciles trivially, as in the code. `settled`, `overlapped`, `owed` and
a report's `torn` are history that no step reads.

**Reconstruction, Analytics.** The opposite cut of the same service: account and
log are read together, and what is computed from them is modelled day by day.
`Fill` and `DayEnds` make the logs, of orders of any of the `Lots`, and the bars
with their gaps. Every history is cut to its `barLimit` newest bars (`Recent`,
`Used`), as the client's `historyLimit` does. `buildInsights` is the chain of the
code, with the refusals it can end in: the first symbol by name that cannot be
fetched or has no bars (`FetchError`), a holding without a close, the guard, and
a zero close that something would be divided by (`LacksClose`). The failures of
its other two calls, for the trades and for the portfolio, are in `Insights`
(`Fail`). The code's map of holdings is shared by the reconstruction, the guard and
the risk section; `projectPastCalendar` therefore returns what it derives *and*
what it leaves in that map, and `ComputeRisk` weighs what was left. Days are
numbers, prices and quantities whole. The specification is named `ReportSpec`
(`ReportInit`, `ReportNext`), so that one module of proofs can extend it beside
`Backtest`. Loops over the log are recursive functions (`ApplyAll`, `Reconstruct`)
or counts (`TradesBy`: how far the code's index has got by a date); the stable sort
puts each trade at its rank (`StableByDay`). The average cost of a partly sold
position is rounded down, which only its loss flag sees. In float64 the order in
which a day's trades are added can change the last bits of a figure, hence of the
report's hash (the comment in `Reconstruct` says the order is borrowed from
trading-engine's query); in exact arithmetic it cannot, and
`SameDayOrderIrrelevant` is about everything else it could change.

**Drafts, Narrative.** A draft is a sequence of lexemes, two of them the braces
("left", "right"); a vocabulary is a function from tokens to the kind of their
value, and a value of a kind `format` does not know is an error. `Validate` reads the braces by the pattern of the code,
`Render` from the left. The loop of `Render` is the recursive function
`RenderFrom`, whose `RenderStep` goes from one opening brace (`Opens`) past the
next closing one (`Closes`); `RenderError` stands for the error it returns
instead of a text. Requests run in slots:
`CacheGet`, `Allow`, `Generate` (a paid call each time), `CacheSet`; any
Redis command may fail. The browser's `useNarrative` keeps its refs (`inFlight`,
`requestId`) through remounts, and `narrativeView` decides what stands on the
page beside the report, which is fetched apart.

**LoginBackoff, AuthGate.** A login reads the clock and passes its address's
window under the shard's lock; then reads the clock again (`Arrive`), takes the
backoff's mutex (`Attempt`), and is answered (`Answered`). An entry without
failures, or a window without a count, stands for a key the map does not have.
`aborted` is an answer cut short, which makes `httputil.ReverseProxy` panic
through the middleware; it is external and modelled from how the middleware
calls it. Requests to the other `/auth` routes are counted per address like a
login without a key. A key stands for its own shard.

**Auth, Sessions.** Registration and login are one step each; refresh and logout
are split at every call to Redis and Postgres, and go on when Redis fails. A
second client (`Replay`, `Server`) uses any refresh token that was ever issued.
The browser's requests are answered at any later moment; a 401 makes them wait
for the one shared refresh and be sent once more; a sign-out cancels nothing.

**LivePrices, Ingest.** Time is in fractions of a poll interval. The ticker's
channel holds one tick, so a slow call is followed by another at once. Ingest
goes symbol by symbol and page by page; the two halves share no variable, so the
run explores them one at a time (`OneAtATime`). Alpaca reads its latest trades at
some instant of a call (`SnapshotsRead`), and the market goes on trading
(`Trades`); both are external. What is kept with a price is when the trade it is
of was overtaken by a later one, since a halted symbol's price is not stale
however old it is. `UpsertBars` has three outcomes: stored, refused with an error
in the results, and refused at the batch's Sync, whose error comes from the
deferred `results.Close()` and is dropped. `job.before` and `job.lost` are history:
what was stored before the request, and which results are of such a batch.

**Strategies, Backtest.** The simulation is exact: where a division has a whole
result `Exactly` is that result, elsewhere some integer of which nothing is known,
and TLC stops with an error if a run gets there. Prices and capital of the instance
are chosen so that it does not; the proofs hold for whatever is chosen. What is
saved is not exact: `InTicks` rounds quantities and profits to their NUMERIC
columns (`QuantityTick`, `MoneyTick` units each), and `GetBacktest` returns the
rounded rows. Saving is a transaction of as many steps as there are rows
(`InsertBacktest`, `InsertTrade`, `CommitBacktest`), any of which may fail
(`SaveFails`); the commit's answer may be lost. A history is the newest
`historyLimit` bars market-data has (`Served`), cut before the range is taken. The
running sums and averages of the indicators are recursive functions along the bars.
Parameters wrap at `IntMax`. A request is what the decoder returns (`Decoded`:
absent parameters are 0), with its capital and dates; a date that does not parse is
0. The fetches of the histories end in any order.

## 3. Runs

| run | instance | result |
|---|---|---|
| `ledger` | 1 account, 1 symbol, 4 orders, 3 prices, scales of 2 | cash, basis and realized P/L agree up to rounding; the trade rows explain the cash up to theirs |
| `engine` | 3 concurrent orders, 2 prices, raw input of every kind | implements `Ledger`; nothing is spent twice; answers match the tables; reads stay current under the lock |
| `insights` | 2 orders, 2 report requests | a quiet fill is seen; refusals have a cause; every order ends; every fill is eventually visible for good |
| `insights_stale` | 1 order, 2 report requests | **violated**: a stale report stored after the DEL |
| `insights_one_tick` | 1 order of one tick, 1 report request | **violated**: a one-tick holding blocks every report |
| `backoff` | 3 logins, 2 addresses, direct or through the proxy, 5 instants | Retry-After holds, an outage does not accumulate, one budget per client |
| `backoff_outage` | 4 logins | **violated**: a 502 restarts the window |
| `sessions` | 2 users, a browser, a second client, 4 token pairs, 3 instants | revocation is exact; identities do not mix; every request ends |
| `market_data` | 1 live symbol, 3 fractions to a poll, 15 instants; 2 ingested symbols, 3 days in pages of 2 | one missed tick is tolerated; an overtaken price ends; ranges are whole; answers honest |
| `backtest` | every path of two prices over 7 days, 3 strategies, a history one bar longer than the limit, columns coarser than the amounts, refused requests of every kind | no look-ahead; the pool is closed; the answer does not depend on scheduling; a saved run is whole |
| `narrative` | 2 requests in flight, 2 asks, 2 days, every draft of up to 5 lexemes | the bill is bounded; only checked prose, only beside its report; loading ends |
| `analytics` | 2 symbols, 5 days with up to two bars missing, histories cut to 3 bars, closes of zero, 2 trades of 1 or 2 ticks, any symbols out of reach | the curve is the replay of the log; risk is that of its date; a refusal has a cause; the order of a day's trades is irrelevant; evidence is judgeable |

The violated properties state what a comment or a document of the repository
says; `findings` in `PROJECT.json` quotes the line and tells what the code does.

The models show more disagreements that no run of their own records:

* a fill between the reads of the log and of the portfolio makes `Reconcile`
  refuse a healthy account, and the refusal is cached; the comment on
  `Reconcile` says that a refusal means a divergence unexplained by anything the
  service knows. `RefusedOnlyIfTorn` is the part that holds;
* the comment on `CacheTTL` says a report is deliberately not invalidated when a
  trade is placed; trading-engine deletes it on every fill (`invalidateInsights`);
* the comment on `ListTrades` (`interfaces.go:60`) says a capped log is a
  consistent prefix of the history. The log is sorted by `executed_at`, the start
  of a transaction (`postgres_trading_store.go:327`): a sell that began before
  the buy that funded it, and waited for the lock, comes first, and a cap between
  the two leaves a sell without its buy. Two orders and a cap of one show it;
* an answer cut short while it is proxied stays counted as a failed login
  (`dropped` in `OutageDoesNotAccumulate`), where the comment on
  `RateLimitLoginByAccount` says only a 401 counts;
* the same comment says a legitimate user is never throttled however often they
  sign in; `FreeFailures + 2` sign-ins in flight at once have one refused, since
  each counts until it is answered;
* `performRefresh` ends the session on any answer that is not a success, a 5xx
  included (`client.ts:178`), while `AuthProvider` keeps its tokens on a 5xx
  because it says nothing about them;
* a request of an earlier session whose 401 arrives after another user signed in
  is retried with that user's token; `OnePrincipal` therefore speaks of what is
  shown, and `crossed` marks such requests;
* a Redis outage is a missing price to market-data's handler, hence a 404 and
  `symbol_unavailable`; the comment on `LatestPrice` in the trading engine's
  client says the two cases are kept apart so that an outage is not reported as a
  bad ticker;
* an ingest reports a symbol as ingested whose batch Postgres refused at its Sync:
  `UpsertBars` drops the error of the deferred `results.Close()`
  (`historical_price_store.go:41`), and the comment on `IngestResult` says that a
  symbol's "failure is reported here" (`types.go:32`). `AnswerIsHonest` exempts
  exactly these results;
* both clients' comments say that 2000 bars are the whole stored history
  (`backtesting/internal/client/market_data_client.go:23`,
  `ai-insights/internal/client/market_data_client.go:24`); beyond 2000 daily bars,
  about eight years, a backtest silently starts later than it was asked to and a
  curve later than the first trade. `TimelineIsCommon` and `CurveIsReplay` say
  what holds with the limit;
* a crash between INCR and EXPIRE would "cap that user forever", says
  `redis_generation_counter.go:54`; the key carries its date, so it caps one day;
* a first trade in a symbol with little history cuts the calendar of the whole
  report down to that symbol's days; the report says so only by its as-of date.

Bounds. Orders contend for one account because the lock, the cache key and the
totals are per account and share nothing across accounts. Three requests are
the fewest in which one holds the lock, one waits and one is yet to come; four
orders let a position open, close and re-open with a different basis. Scales of
2 make half-tick roundings, prices are chosen odd so that products are not
whole ticks, and the starting balance affords some orders and not others. The
report runs use scales of 1, so that a refusal cannot come from rounding, and
`MaxTradeLimit` no smaller than the number of orders. `QuantityTolerance` is one
tick, as in the code. Five instants let a window end and the next be met, and
three logins with one free failure reach the second delay. One request per
address and window makes the limiter bite; `MaxStall` bounds the time between
the clock and the shard's lock below a window: nothing in the code waits there,
and a goroutine that slept through a whole window would open a window in the
past. Tokens live one and two instants, so that every order of expiry,
revocation and use occurs. Fifteen instants are five polls, enough for a price to be written, miss a tick
behind a slow call, be overtaken, and end. Seven days warm up every strategy and let
it trade and close; the one history of eight bars outgrows the limit of seven. Five
days are the fewest with two sessions before a sell, one after it, and a history
longer than the three bars it is fetched with; nothing trades on the last of them,
which no bar can follow, and at most two bars are missing (`Explored`). A lot of one
is the guard's tolerance, one of two above it; the opening cash affords two orders
of one tick or one of two. SPY's close is 0 or 20: a fall for the panic rule, and a
close nothing can be divided by. Drafts of five lexemes exceed the length limits,
nest and leave open every combination of braces.

Symmetry is used over requests, and over addresses, only in runs without
liveness.

Fairness. `insights` assumes that an order that can take its next step
eventually does (the price call has a 3 s timeout, the Redis call 500 ms, and
Postgres serves a row lock's queue) and that Redis drops an entry whose TTL is
over; of the report requests nothing is assumed. `sessions` and `narrative`
assume that a browser's fetch settles: each carries an `AbortSignal.timeout`.
Nothing assumes that a failure happens or not.

Deadlock is not checked in any run: requests, orders, days and instants are
finitely many, and the system may stop when they are used up.

## 4. What is proved

The theorems hold for every value of the constants that the named assumptions
allow: the bounds of section 3 limit the runs, not the proofs. Each inductive
invariant stands at the end of the module it is about (in `TradingEngine`,
`LoginBackoff`, `AuthGate`, ... as `...Inv`); the proofs have one lemma per action.

| module | theorem | states |
|---|---|---|
| `TradingProofs` | `TypeCorrect`, `NothingSpentTwice`, `LockSafety` | `TypeOK`, `SpentOnce`, `LockProtectsReads` |
| | `ImplementsLedger` | `Serializable`: the engine implements `Ledger` |
| | `Answered` | `AnswersMatchLedger` |
| | `QuietFillsAreSeen` | `QuietFillIsSeen`, for no more orders than `MaxTradeLimit` |
| | `EngineHoldsBeside` | `SpentOnce`, `LockProtectsReads` and `AnswersMatchLedger` of the engine composed with the report path |
| `LedgerProofs` | `CashDriftBounded`, `BasisBounded`, `CashExplained` | `CashConserved`, `BasisWithinFills`, `RealizedExplainsCash` |
| | `LogCashBounded` | `LogExplainsCash` |
| | `PositionsMatchLog` | a position is what its trades bought less what they sold |
| `GatewayProofs` | `HonestRetryAfter`, `OutageForgiven` | `RetryAfterHonest`, `OutageDoesNotAccumulate` |
| | `GateImplementsBackoff`, `BackoffBehindGate` | the gateway implements `LoginBackoff`, hence has both |
| | `BudgetKept`, `LimitedFairly` | `BudgetPerSource`, `LimitedForOwnRequests` |
| `SessionsProofs` | `RevocationExact`, `OneUserAtATime` | `RevocationIsExact`, `OnePrincipal` |
| `MarketDataProofs` | `PriceOutlivesMissedTick`, `StaleQuotesEnd` | `OneMissedTickTolerated`, `StaleQuoteEnds` |
| | `IngestAnswersTruly`, `HistoryHasNoHoles` | `AnswerIsHonest`, and `RangesAreWhole`, which is about steps |
| `NarrativeProofs` | `BillStaysBounded`, `ShownProseMatches` | `BillIsBounded`, `ProseMatchesReport` |
| | `ServedProseIsChecked`, `PassedDraftsRender` | `ProseIsChecked`, `ValidatedDraftsRender` |
| `HistoryProofs` | `SignalsAreCausal` | a signal of a bar is the same whatever bars follow it |
| | `BacktestInvariant` | `BacktestInv`, which the next five rest on |
| | `FillsNeverLookAhead`, `TimelineCommon` | `NoLookahead`, `TimelineIsCommon` |
| | `WarmupNeverWraps`, `FailureIsDeterministic`, `SavedRunsAreWhole` | `WarmupFits`, `SameFailureReported`, `SavedWhole` |
| | `ReportInvariant` | `ReportInv`, which the next five rest on |
| | `CurveReplaysLog`, `ReportIgnoresSameDayOrder` | `CurveIsReplay`, `SameDayOrderIrrelevant` |
| | `RefusalsHaveCause` | `RefusalIsExplained` |
| | `RiskIsAsOf`, `EvidenceIsReached` | `RiskDescribesAsOf`, `EvidenceIsJudgeable` |

**TradingEngine.** The inductive invariant is `EngineInv`: `TypeOK`,
`NoOverdraft`, `LockProtectsReads`, and two facts the other three need.
`NoOverdraft` is not inductive by itself: a staged balance is non-negative only
because it was computed from the balance still committed, which is what
`LockProtectsReads` says, and only for a price market-data quoted (`Priced`). The
ledger records an id once, so the simulation also needs that a request that has
not committed has no row (`Unrecorded`). `LockProtectsReads` is preserved by other
requests' commits because they hold the locks of other accounts (`OutsideStep`)
and what a request would write depends on its own account only (`WritesFrame`).
`SpentOnce` replays the log of committed trades: each fill must be covered by what
the fills before it left, and the rows must be what the replay ends in. `Covered`
cannot be read off a balance that is not negative; it needs that the balance a
commit spent from is the one the log had left, which is `LockProtectsReads` again
(`ApplySpends`), and that appending a row leaves the replay of the others alone
(`ReplayGrows`).
`ApplyIsLedgerStep` then shows that a commit is a `Buy`, `Sell` or `Decline`,
`StepSimulation` that every other step stutters. `AnswersMatchLedger` adds
`AnsweredLast`: nobody is answered before the last step, and a request on its way
to the invalidation has its trade. `ApplyRecords` says what a commit adds to the
two logs, and `AgreementKept` that no other request's rows are among it.

**Insights.** `InsightsInv` follows a quiet fill, one that settled while no report
request was working from an older log (`QuietIsKept`): it is in the report that is
cached, if any, in every log a request is working from, and in what such a request
will store. A settlement establishes this because the DEL comes after the commit,
so that a cached report without the fill is gone, and no request is left that read
before it; a later request reads a log that only grows (`LogGrows`) and that holds
every committed trade of the account (`LogIsCommitted`). That last fact needs the
instants of transactions to be distinct (`DistinctInstants`), since the log is
sorted by them, and the log to fit under its cap: hence the hypothesis that there
are no more orders than `MaxTradeLimit`. Above the cap (`tradeLimit` in
`ai-insights/internal/client/trading_client.go:18`) the newest fills are cut off
and the property is false of the code too. `EngineHoldsBeside` carries the engine's
invariants over to the composition, whose other steps leave the engine alone.

**Ledger.** Each trade rounds up to three columns, each by at most half a tick
(`CashNear`, `RealizedNear`, `AvgCostNear`); the laws say that the errors add up
and do not multiply. For the balance that is one step of the sum. That is against the unrounded prices
of the fills; a trade row holds a rounded price, whose error is multiplied by the
quantity (`PricesNear`), so `LogExplainsCash` adds half a price tick per share
traded. The realized
profit is different: the average cost is multiplied by the shares still held, so
one rounding of it costs up to half a tick per share, and the bound grows with
the quantity traded. It is inductive only with `SharesHeld`, that no position
exceeds what was ever traded. The basis is fed back into itself on each buy:
`BasisBetween` shows that a rounded weighted average of two numbers stays between
them when the bounds are columns themselves.

**LoginBackoff, AuthGate.** `RetryAfterHonest` survives other logins because an
undo only ends a block earlier (`UndoUnblocks`), and another attempt is what
`grants` counts. That a longer run of failures never shortens the delay
(`DelayGrows`) needs the code's doubling loop as a recursive function
(`DoubledIs`). `OutageDoesNotAccumulate` counts attempts in flight as a finite set
(`ForwardedFinite`). Behind the gate the clock is read before the shard's lock, so
a window may begin up to `MaxStall` in the past. `LastWindow` says where the last
window begins in the log of admitted requests, and that of those before it all but
the latest `IPLimit` came a `Span` earlier; `Spread`, at most twice the limit in
any span, is then kept by each append (`SpreadAppend`). `GateImplementsBackoff`
maps each step of the gateway to one of the backoff or a stutter, so neither
property of the backoff is proved twice.

**Auth, Sessions.** `RevocationIsExact` rests on when entries disappear.
`EntriesOutlive`: Redis holds an entry only for a token that was signed out, and
no shorter than the token lives, although its TTL was computed at an earlier
instant than it was stored (`LogoutsCover`); a refresh past the check keeps no
mark of lateness (`RefreshesOwn`), and a jti is one token's (`OwnJti`).
`OnePrincipal` needs three facts about the browser: a profile request belongs to
the sign-in under way (`OneSignIn`), a request not marked as crossed is the shown
user's own (`OwnRequests`), and the refresh in flight is of the pair held
(`OwnPair`). That a sign-out holds is a part of `OwnPair`.

**LivePrices, Ingest.** `OutlivesMisses` is the argument behind "one missed tick
is no outage": a price lasts an interval beyond the latest begin of the next poll
(`Due`) for each poll it may still miss, which holds because the ticker is never
late and a call never longer than the interval (`OnTime`). A restart loses the
memory of the poller and not the price. `StaleQuoteEnds` holds because a trade can
overtake what a poll was told only once the poll's call has begun (`OvertakenLater`),
the price is written at most a timeout later and lives no longer than the TTL from
then (`LivesTTL`), so it expires within the two of being overtaken (`StaleExpires`).
`AnswerIsHonest` needs that a result of "ingested" is of a symbol that exists
(`IngestedExist`); it and `RangesAreWhole` need that only a whole range reaches the
store (`UnderWay`).

**Narrative, Drafts.** The bill is bounded by counting what is owed: each
generation under way may still make one or two calls (`Owed`), and the calls made
together with those owed never pass twice the allowances (`Covered`). Taking an
allowance adds two of each, a call moves one from owed to made, and a failed Redis
command or a full cap adds none. `ProseIsOwn` follows a text from the draft through
cache, answer and hook. `ValidatedDraftsRender` is about two readers of one text:
`Validate` takes tokens by a pattern, `Render` scans. `NextToken` shows that from
a position outside any token the next opening brace begins one and the next
closing brace ends it, if the draft passes; `RendersOn` goes on behind it, and the
induction runs backwards from the end of the draft (`PassedRenders`). `Checked`
concludes that a rendered text has no brace and no digit of the model's own.

**Strategies, Backtest.** That a fill does not look ahead is shown in two parts.
Each indicator is causal: on two series that agree up to a bar it computes the
same up to that bar (`movingAveragesCausal`, `emaCausal`, `wilderRSICausal`,
`macdLineCausal`, `signalLineCausal`), and so do the signals read off it
(`crossoverCausal`, `zoneExitCausal`), whatever the strategy and its parameters
(`SignalsAreCausal`). The run then only has to be shown to follow its signals:
`RunFollowsSignals` says that every trade answers a signal of the bar before the
one it fills at, and is kept by each symbol's sell and buy within a bar.
`NoLookahead` cuts the histories after that bar and finds the same signal.
`TimelineIsCommon` follows from what `alignBars` keeps (`alignBarsIs`) of the newest
bars of each history (`ServedIs`), which are in ascending order. `SameFailureReported` compares the error reported
with the alphabetically first symbol that failed, in whatever order the fetches
ended.
`SavedWhole` needs that the rows in the transaction are the first trades of the run,
in their order (`InTransaction`), that only a transaction holding all of them
commits, and that nothing is answered as created before; a stored amount is within
half a column tick of the simulation's (`InTicksNear`). `WarmupNeverWraps` uses that each
summand is bounded before the sum is taken, and that the bound is below half of
the largest int.

**Reconstruction, Analytics.** The thread is the *books* of a log: cash and
holdings after each of its trades (`ReplayIs`), which are the sums of what its
trades moved (`BooksAreSums`). `ReconstructIs` shows that the curve, with its
index into the sorted log and its skipped days, shows at each session the books
after the trades of that day or earlier; `CurveIsReplay` is that in the words of
the log. `ProjectionEnds` rolls the last session on through the trades after it
and arrives at the books of the whole log. `ReportInv` adds `AccountIsReplay`,
that these are the account itself: without it nothing relates the log to what
`Reconcile` compares it with. `RefusalIsExplained` follows: derived and live account
are the same books, so the guard can refuse only for a holding within
`ToleratedQuantity`, which is dropped on one side of the comparison and not on the
other (`AccountReconciles`; `insights_one_tick` exhibits it), and every symbol the
curve or a section needs has a close on every date of the calendar, so that what is
missing can only be a zero (`LacksCloseIs`). `RiskDescribesAsOf` says that the
holdings the guard leaves behind are the books at the curve's last date, not those
it has rolled forward to.
`SameDayOrderIrrelevant` takes any log with two neighbours of a day exchanged: the
two trades commute (`TradesCommute`), no date separates them (`SameDayCounts`), so
the curve, the reconciliation and both patterns are the same.
`EvidenceIsJudgeable` shows that what a pattern cites was found by its own search
(`SearchIs`), and that a sell that is judged has two sessions before it
(`JudgedHasPriors`).

**Induction.** The library's induction theorems take an operator, which no
installed prover can instantiate. The same facts about a *set* of numbers can be
used: `LeastElement` (from `WFMin`) and `SetInduction`. From these,
`RecursionExists` and `BackwardRecursionExists` show that there is a function that
goes on by a given step from each value to the next, or whose value at each place
is computed from the values at later places. A recursive definition then has the
equation it is written as, which `DoubledIs` and `RenderFromIs` use.
`ForwardRecursionExists` is the same along a finite stretch, which every loop over
a log or a series needs; `AgreeAlong` says that two such functions agree as far as
their steps do. `AscendingIs` and `KeepIs` say what sorting a finite set and
filtering a sequence return, `SumSeqIs` what a running sum is.

Assumptions on the constants that the proofs made explicit, and what in the code
justifies them: logins and slots are finitely many at a time (`IsFiniteSet`:
connections of one process); a header is a sequence of addresses and garbage, and
garbage no address; the browser is one of auth's clients; an ingest names at least
one symbol, since an empty list means the default watchlist
(`service/market_data.go:48`); drafts are texts, that is sequences of lexemes, and
the error of `Render` is no text; a backtest request is decoded JSON
(`RequestsAssumption`); market-data keeps one bar per symbol and day and returns
them ORDER BY time (`MarketsAssumption`); a limit is at least one bar and a column's
tick at least one unit (`BacktestAssumption`); opening cash and tolerance are naturals
(`ReconstructionAssumption`); prices are not negative, an order is of at least one
unit, symbols are finitely many and their names differ, and benchmarks are among the
symbols whose bars are fetched (`AnalyticsAssumption`). TLC evaluates each of them.

Only model-checked:

* liveness (`EveryOrderEnds`, `FillEventuallyVisible`, `EveryRequestSettles`,
  `LoadingEnds`), since the provers here have no rule for fairness;
* `RefusedOnlyIfTorn` of `Insights`, which is not true for every value of the
  constants: a holding within the tolerance is refused untorn, and so is an account
  whose rounding drift has passed the tolerance. It holds in the scales of its run;
* `ReturnExplained` of `Backtest`, which is about amounts of money and holds only
  where every division of the run is exact; the code's floats make it true up to
  their rounding;
* the three violated properties, which are refuted.

## 5. Abstractions and limits

* float64 arithmetic is exact integer arithmetic followed by the rounding of
  the column; a NaN or infinite input falls into the refused branch of
  validation; overflow of NUMERIC(20,4) is not modelled.
* Transactions begin at distinct instants; ties in `executed_at` are broken by
  a random id in the code.
* An account that cannot be read, and one that does not exist, are both an
  error answer.
* A rollback frees its lock at once; with a cancelled context the code frees it
  when the connection is closed.
* Report requests do not crash on their own: a request that stops for good at
  any step is already a behaviour, since nothing is assumed of them.
* An account with more trades than the log's cap is refused every report; the
  runs stay below the cap.
* A second ingest at the same time as the first is left out: each range is
  upserted in one transaction.
* The derived cash of `Reconcile` multiplies the rounded prices of the trade rows,
  the balance moved by unrounded ones. `CashConserved` does not bound the difference,
  being about the unrounded prices; `LogExplainsCash` does, by half a cash tick per
  trade and half a price tick per share: a single fill of more than two hundred
  shares can pass the guard's one-cent tolerance. The report runs use scales of 1,
  where prices are whole ticks and nothing is rounded.
* The bound on the narrative's bill holds while Redis fails its commands; a Redis
  that loses the day's counter (an eviction, a restart without persistence) starts
  the count again, and no step of `Narrative` does that.
* `SameDayOrderIrrelevant` is about two neighbours of one UTC day. A pair whose
  transactions began on either side of midnight, or of which the log's cap keeps one,
  is not covered.
* Of a saved run's five metrics the models have what they are computed from, the
  gains and the statistics of the closed trades, not the ratios.
* A trade that the account is read without (the tear of `Insights`) and the gaps of
  the bars are modelled apart: `Analytics` reads account and log together.

Not modelled: floating-point statistics (volatility, Sharpe ratio, drawdown, the
concentration index and the profile band read off them), the reading of
formatted figures, order history and the live pricing of positions (plain reads),
the other frontend hooks (the same request-id guard around a free call), the
middleware that keeps no state, input validation of auth (string rules), the
language-model client and its prompt, rendering, and deployment.

## 6. What is left

1. `RefusedOnlyIfTorn` under the hypotheses that make it true (scales of 1, every
   order above the tolerance): a prefix of the ledger replays to its own
   positions, which the totals of `LedgerTotals` say of the whole log, and a log
   that is read untorn is such a prefix up to its order. The books of
   `HistoryProofs` and `TradesCommute` are the lemmas to start from.
2. `ReturnExplained` under the hypothesis that the run's divisions are exact.
3. An order that a client retries after a timeout is a second order; the code has
   no idempotency key, and no document of the repository promises one, so there is
   no property to state until it does.
4. The parts listed as not modelled: validation rules of auth, the language-model
   client, the middleware of the gateway that keeps no state.

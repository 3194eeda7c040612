----------------------------- MODULE LivePrices -----------------------------
(***************************************************************************)
(* The market-data service's live prices.  A poller asks Alpaca for every  *)
(* symbol's latest trade once per tick and keeps it in Redis under a TTL;  *)
(* an order reads that price through the trading engine's client.  What is *)
(* kept with a price is the instant of the trade that overtook it, so that *)
(* a stale price is told from a symbol nobody trades.                      *)
(*                                                                         *)
(* Time is counted in fractions of a poll interval.  A poll's Redis writes *)
(* take no time on that scale; the Alpaca call takes any, up to its        *)
(* timeout.                                                                *)
(***************************************************************************)
EXTENDS Integers

CONSTANTS Symbols,        \* the watchlist
          PollInterval, RequestTimeout,
          MaxTime         \* bound on the clock

ASSUME LivePricesAssumption ==
  /\ PollInterval \in Nat \ {0}
  /\ RequestTimeout \in 1..PollInterval
  /\ MaxTime \in Nat

VARIABLES
  now,
  tickAt,    \* when the ticker fires next
  ticked,    \* a tick waits in the ticker's channel, which holds one
  poll,      \* the poll in progress, when its call began, whether Alpaca has read
             \* its latest trades for it, and since when one of them has been overtaken
  price,     \* Redis: price:{symbol}, as until when it lives, whether it is a usable
             \* number, and since when a later trade has overtaken it (history)
  quote,     \* the last answer the engine's client got for an order
  \* history, read by no step of the code
  misses     \* per symbol, polls without it and restarts since its last write

liveVars == <<now, tickAt, ticked, poll, price, quote, misses>>

\* Mutant: a price lives two intervals.
PriceTTLShort == 2 * PollInterval

PriceTTL == 3 * PollInterval

Never == 0     \* nothing is read or cached at instant 0, so nothing is overtaken then
Idle == [at |-> "idle", began |-> 0, read |-> FALSE, overtaken |-> [s \in Symbols |-> Never]]
NoPrice == [until |-> 0, usable |-> FALSE, overtaken |-> Never]
NoQuote == [answer |-> "none", stale |-> 0]

LiveInit ==
  /\ now = 0
  /\ tickAt = PollInterval
  /\ ticked = FALSE
  /\ poll = Idle
  /\ price = [s \in Symbols |-> NoPrice]
  /\ quote = NoQuote
  /\ misses = [s \in Symbols |-> 2]   \* nothing was ever written

-----------------------------------------------------------------------------
(* The poller *)

Cached(s) == now < price[s].until

\* SET price:{symbol} ... EX PriceTTL, of the trade the poll was told of.
SetPrice(s, usable) ==
  [until |-> now + PriceTTL, usable |-> usable, overtaken |-> poll.overtaken[s]]

\* The loop takes a tick: one batched GetSnapshots call begins.
StartPoll ==
  /\ ticked /\ poll = Idle
  /\ ticked' = FALSE
  /\ poll' = [Idle EXCEPT !.at = "fetching", !.began = now]
  /\ UNCHANGED <<now, tickAt, price, misses, quote>>

\* Alpaca reads its latest trades for the call; how long before its answer arrives
\* is not known.
SnapshotsRead ==
  /\ poll.at = "fetching" /\ ~poll.read
  /\ poll' = [poll EXCEPT !.read = TRUE]
  /\ UNCHANGED <<now, tickAt, ticked, price, misses, quote>>

\* The symbol trades: its latest trade is no longer the one that was read, nor the
\* one that is cached.
FirstOf(instant) == IF instant = Never THEN now ELSE instant
Trades(s) ==
  /\ Cached(s) \/ poll.read
  /\ price' = IF Cached(s) THEN [price EXCEPT ![s].overtaken = FirstOf(@)] ELSE price
  /\ poll' = IF poll.read THEN [poll EXCEPT !.overtaken[s] = FirstOf(@)] ELSE poll
  /\ UNCHANGED <<now, tickAt, ticked, misses, quote>>

Least(a, b) == IF a < b THEN a ELSE b
Missed(n) == [s \in Symbols |-> Least(misses[s] + n, 2)]

\* Mutant: a symbol without a trade in the snapshots has its price written again.
PollAnsweredRewrites ==
  /\ poll.at = "fetching" /\ poll.read
  /\ now < poll.began + RequestTimeout
  /\ \E traded \in SUBSET Symbols, usable \in BOOLEAN :
       /\ price' = [s \in Symbols |-> IF s \in traded THEN SetPrice(s, usable)
                                     ELSE [price[s] EXCEPT !.until = now + PriceTTL]]
       /\ misses' = [s \in Symbols |-> IF s \in traded THEN 0 ELSE Missed(1)[s]]
  /\ poll' = Idle
  /\ UNCHANGED <<now, tickAt, ticked, quote>>

\* The snapshots arrive before the timeout.  A symbol missing from them, or
\* whose SET fails, keeps what it had; the loop goes on with the next.
PollAnswered ==
  /\ poll.at = "fetching" /\ poll.read
  /\ now < poll.began + RequestTimeout
  /\ \E traded \in SUBSET Symbols, usable \in BOOLEAN :
       /\ price' = [s \in Symbols |-> IF s \in traded THEN SetPrice(s, usable) ELSE price[s]]
       /\ misses' = [s \in Symbols |-> IF s \in traded THEN 0 ELSE Missed(1)[s]]
  /\ poll' = Idle
  /\ UNCHANGED <<now, tickAt, ticked, quote>>

\* The call fails, at the latest by its timeout; the error is logged and the
\* loop waits for the next tick.
PollFails ==
  /\ poll.at = "fetching"
  /\ poll' = Idle
  /\ misses' = Missed(1)
  /\ UNCHANGED <<now, tickAt, ticked, price, quote>>

\* The process restarts: a new ticker starts its first interval now, and a poll
\* in flight or a tick already due is lost with it.
PollerRestarts ==
  /\ poll' = Idle /\ ticked' = FALSE
  /\ tickAt' = now + PollInterval
  /\ misses' = Missed(IF ticked \/ poll # Idle THEN 2 ELSE 1)
  /\ UNCHANGED <<now, price, quote>>

\* Time passes, once everything due by now has been done.
Tick ==
  /\ now < MaxTime
  /\ ~(ticked /\ poll = Idle)
  /\ poll.at = "fetching" => now < poll.began + RequestTimeout
  /\ now' = now + 1
  /\ IF now' = tickAt THEN ticked' = TRUE /\ tickAt' = tickAt + PollInterval
     ELSE UNCHANGED <<ticked, tickAt>>
  /\ quote' = NoQuote
  /\ UNCHANGED <<poll, price, misses>>

-----------------------------------------------------------------------------
(* The price of an order *)

Answer(a) == [answer |-> a, stale |-> 0]

\* How long ago a later trade overtook the price.
StaleFor(p) == IF p.overtaken = Never THEN 0 ELSE now - p.overtaken

\* GET /market-data/prices/{symbol} as the engine's client reads it.  A miss and
\* a Redis error are both a 404; a price that is not a positive number, and
\* anything else that goes wrong, is an upstream failure.
LatestPrice(s) ==
  /\ \/ /\ Cached(s) /\ price[s].usable
        /\ quote' = [answer |-> "price", stale |-> StaleFor(price[s])]
     \/ Cached(s) /\ ~price[s].usable /\ quote' = Answer("upstream_unavailable")
     \/ quote' = Answer("symbol_unavailable")
     \/ quote' = Answer("upstream_unavailable")
  /\ UNCHANGED <<now, tickAt, ticked, poll, price, misses>>

-----------------------------------------------------------------------------
LiveNext ==
  \/ Tick \/ StartPoll \/ SnapshotsRead \/ PollAnswered \/ PollFails
  \/ \E s \in Symbols : Trades(s) \/ LatestPrice(s)

-----------------------------------------------------------------------------
(* Correctness *)

\* A poll that has run into its timeout, about to be logged as failed.
TimedOut == poll.at = "fetching" /\ now = poll.began + RequestTimeout

\* One missed tick does not look like an outage (live.go, PriceTTL): a price is
\* gone only after two polls, or a restart and a poll, have gone without its
\* symbol, however slow the calls and however the ticks queue up behind them.
OneMissedTickTolerated ==
  \A s \in Symbols : ~Cached(s) => misses[s] = 2 \/ (misses[s] = 1 /\ TimedOut)

\* A price the market has left behind is not served "forever" (the TTL's reason in
\* the live prices' SPEC): an order is priced from it for less than PriceTTL and one
\* call's timeout after the trade that overtook it, whether polls fail, are slow,
\* answer without the symbol, or die with the process.  A halted symbol's price may
\* be as old as it likes: no trade has overtaken it.
StaleQuoteEnds ==
  quote.answer = "price" => quote.stale < PriceTTL + RequestTimeout

-----------------------------------------------------------------------------
(* The inductive invariant, for the proofs *)

Polls ==
  [at : {"fetching"}, began : Nat, read : BOOLEAN, overtaken : [Symbols -> Nat]] \cup {Idle}
Prices == [until : Nat, usable : BOOLEAN, overtaken : Nat]

LiveType ==
  /\ now \in Nat /\ tickAt \in Nat /\ ticked \in BOOLEAN
  /\ poll \in Polls
  /\ price \in [Symbols -> Prices]
  /\ misses \in [Symbols -> 0..2]

\* The ticker is never late, a call never outlives its timeout, and a call that
\* no tick has caught up with began within an interval of the next one.
OnTime ==
  /\ now < tickAt /\ tickAt <= now + PollInterval
  /\ poll.at = "fetching" =>
       /\ poll.began <= now /\ now <= poll.began + RequestTimeout
       /\ ~ticked => tickAt <= poll.began + PollInterval

\* When the next poll begins at the latest, or the one in progress began.
Due == IF poll.at = "fetching" THEN poll.began ELSE IF ticked THEN now ELSE tickAt

\* A price outlives the polls it has still to miss, an interval for each.
OutlivesMisses ==
  \A s \in Symbols :
    /\ misses[s] = 0 => price[s].until >= Due + 2 * PollInterval
    /\ misses[s] = 1 => price[s].until >= Due + PollInterval

\* What a poll was told can only be overtaken once its call has begun.
OvertakenLater ==
  poll.at = "fetching" =>
    \A s \in Symbols : poll.overtaken[s] = Never \/ poll.began <= poll.overtaken[s]

\* No price lives longer than the TTL from now ...
LivesTTL == \A s \in Symbols : price[s].until <= now + PriceTTL

\* ... and one that was overtaken expires within the TTL and a timeout of it.
StaleExpires ==
  \A s \in Symbols :
    price[s].overtaken = Never \/ price[s].until <= price[s].overtaken + PriceTTL + RequestTimeout

LiveInv ==
  /\ LiveType /\ OnTime /\ OutlivesMisses
  /\ OvertakenLater /\ LivesTTL /\ StaleExpires /\ StaleQuoteEnds
=============================================================================

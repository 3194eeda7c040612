-------------------------- MODULE MarketDataProofs --------------------------
(***************************************************************************)
(* Proofs about the market-data service: how long a price outlives the     *)
(* polls that miss it, for any interval, timeout and watchlist, and what   *)
(* an ingest stores and answers, for any lists, days and page size.        *)
(***************************************************************************)
EXTENDS MarketData, FiniteSetTheorems, TLAPS

-----------------------------------------------------------------------------
(* Live prices *)

\* The poll and the clock, as the arithmetic below needs them.
LEMMA LiveFacts ==
  ASSUME LiveInv
  PROVE  /\ now \in Nat /\ tickAt \in Nat /\ ticked \in BOOLEAN
         /\ poll.began \in Nat /\ Due \in Nat
         /\ poll.at \in {"idle", "fetching"}
         /\ poll = Idle <=> poll.at = "idle"
         /\ PollInterval \in Nat \ {0} /\ RequestTimeout \in Nat
         /\ RequestTimeout <= PollInterval
         /\ PriceTTL = 3 * PollInterval /\ PriceTTL \in Nat
         /\ \A s \in Symbols : /\ misses[s] \in 0..2
                               /\ price[s].until \in Nat /\ price[s].overtaken \in Nat
                               /\ poll.overtaken[s] \in Nat
<1>1. /\ PollInterval \in Nat \ {0} /\ RequestTimeout \in Nat
      /\ RequestTimeout <= PollInterval
      /\ PriceTTL = 3 * PollInterval /\ PriceTTL \in Nat
  BY LivePricesAssumption DEF PriceTTL
<1>2. /\ now \in Nat /\ tickAt \in Nat /\ ticked \in BOOLEAN
      /\ poll \in Polls
      /\ \A s \in Symbols : misses[s] \in 0..2 /\ price[s] \in Prices
  BY DEF LiveInv, LiveType
<1>3. /\ poll.began \in Nat /\ poll.at \in {"idle", "fetching"}
      /\ poll = Idle <=> poll.at = "idle"
      /\ \A s \in Symbols : poll.overtaken[s] \in Nat
  BY <1>2 DEF Idle, Polls, Never
<1>4. \A s \in Symbols : price[s].until \in Nat /\ price[s].overtaken \in Nat
  BY <1>2 DEF Prices
<1> QED BY <1>1, <1>2, <1>3, <1>4 DEF Due

\* The idle poller, and the one that fetches, by their parts.
LEMMA DueCases ==
  ASSUME LiveInv
  PROVE  /\ poll.at = "fetching" => Due = poll.began
         /\ poll.at = "idle" /\ ticked => Due = now
         /\ poll.at = "idle" /\ ~ticked => Due = tickAt
BY DEF Due

\* An empty cache and no poll under way have the invariant.
LEMMA LiveInitial == LiveInit => LiveInv
<1> SUFFICES ASSUME LiveInit PROVE LiveInv OBVIOUS
<1>1. PollInterval \in Nat \ {0} BY LivePricesAssumption
<1>2. LiveType
  <2>1. poll \in Polls BY DEF LiveInit, Polls
  <2>2. price \in [Symbols -> Prices] /\ misses \in [Symbols -> 0..2]
    BY DEF LiveInit, NoPrice, Prices, Never
  <2> QED BY <1>1, <2>1, <2>2 DEF LiveInit, LiveType
<1>3. OnTime BY <1>1 DEF LiveInit, OnTime, Idle
<1>4. OutlivesMisses
  <2>1. \A s \in Symbols : misses[s] = 2 BY DEF LiveInit
  <2>2. 2 # 0 /\ 2 # 1 OBVIOUS
  <2>3. \A s \in Symbols : misses[s] # 0 /\ misses[s] # 1 BY <2>1, <2>2, Zenon
  <2> QED BY <2>3 DEF OutlivesMisses
<1>5. OvertakenLater /\ LivesTTL /\ StaleExpires /\ StaleQuoteEnds
  BY <1>1 DEF LiveInit, OvertakenLater, LivesTTL, StaleExpires, StaleQuoteEnds, NoPrice,
     NoQuote, Idle, Never, PriceTTL
<1> QED BY <1>2, <1>3, <1>4, <1>5 DEF LiveInv

\* A tick begins a poll, or is dropped while one runs.
LEMMA StartPollKeeps == ASSUME LiveInv, StartPoll PROVE LiveInv'
<1>1. /\ ticked /\ ticked' = FALSE /\ poll = Idle /\ poll.at = "idle" /\ Due = now
      /\ poll' = [at |-> "fetching", began |-> now, read |-> FALSE,
                  overtaken |-> [s \in Symbols |-> Never]]
      /\ UNCHANGED <<now, tickAt, price, misses, quote>>
  BY LiveFacts, DueCases DEF StartPoll, Idle
<1>2. LiveType'
  <2>1. poll' \in Polls BY <1>1, LiveFacts DEF Polls, Never
  <2> QED BY <1>1, <2>1 DEF LiveInv, LiveType
<1>3. OnTime' BY <1>1, LiveFacts DEF LiveInv, OnTime
<1>4. Due' = Due BY <1>1 DEF Due
<1>5. OutlivesMisses' BY <1>1, <1>4 DEF LiveInv, OutlivesMisses
<1>6. OvertakenLater' BY <1>1 DEF OvertakenLater
<1> QED BY <1>1, <1>2, <1>3, <1>5, <1>6
  DEF LiveInv, LivesTTL, StaleExpires, StaleQuoteEnds

\* Alpaca's reading its trades is seen by nobody.
LEMMA SnapshotsReadKeeps == ASSUME LiveInv, SnapshotsRead PROVE LiveInv'
<1>1. /\ poll.at = "fetching" /\ poll' = [poll EXCEPT !.read = TRUE] /\ poll \in Polls
      /\ UNCHANGED <<now, tickAt, ticked, price, misses, quote>>
  BY DEF SnapshotsRead, LiveInv, LiveType
<1>2. poll \in [at : {"fetching"}, began : Nat, read : BOOLEAN, overtaken : [Symbols -> Nat]]
  BY <1>1 DEF Polls, Idle
<1>3. /\ poll' \in Polls /\ poll'.at = poll.at /\ poll'.began = poll.began
      /\ poll'.overtaken = poll.overtaken
  BY <1>1, <1>2 DEF Polls
<1> QED BY <1>1, <1>3
  DEF LiveInv, LiveType, OnTime, OutlivesMisses, Due, OvertakenLater, LivesTTL, StaleExpires,
      StaleQuoteEnds

\* The instant something was overtaken is now or was already there.
LEMMA FirstOfIs ==
  ASSUME LiveInv, NEW instant \in Nat
  PROVE  /\ FirstOf(instant) \in Nat
         /\ FirstOf(instant) = now \/ (FirstOf(instant) = instant /\ instant # Never)
BY LiveFacts DEF FirstOf

\* A trade overtakes what the poll was told and what the cache holds, for the first
\* time now or earlier.
LEMMA TradesKeeps == ASSUME LiveInv, NEW t \in Symbols, Trades(t) PROVE LiveInv'
<1>1. UNCHANGED <<now, tickAt, ticked, misses, quote>> BY DEF Trades
<1>2. poll' = IF poll.read THEN [poll EXCEPT !.overtaken[t] = FirstOf(@)] ELSE poll
  BY DEF Trades
<1>3. price' = IF Cached(t) THEN [price EXCEPT ![t].overtaken = FirstOf(@)] ELSE price
  BY DEF Trades
<1>4. poll \in Polls /\ price \in [Symbols -> Prices] BY DEF LiveInv, LiveType
<1>5. /\ FirstOf(poll.overtaken[t]) \in Nat /\ FirstOf(price[t].overtaken) \in Nat
      /\ now \in Nat /\ PriceTTL \in Nat /\ RequestTimeout \in Nat
  BY LiveFacts, FirstOfIs
<1>6. /\ poll' \in Polls /\ poll'.at = poll.at /\ poll'.began = poll.began
      /\ \A s \in Symbols : poll'.overtaken[s] \in {poll.overtaken[s], FirstOf(poll.overtaken[s])}
  <2>1. CASE poll.read
    <3> DEFINE over == FirstOf(poll.overtaken[t])
    <3>1. poll \in [at : {"fetching"}, began : Nat, read : BOOLEAN, overtaken : [Symbols -> Nat]]
      BY <1>4, <2>1 DEF Polls, Idle
    <3>2. poll' = [poll EXCEPT !.overtaken = [@ EXCEPT ![t] = over]] BY <1>2, <2>1
    <3>3. over \in Nat BY <1>5
    <3> HIDE DEF over
    <3>4. /\ poll' \in Polls /\ poll'.at = poll.at /\ poll'.began = poll.began
          /\ poll'.overtaken = [poll.overtaken EXCEPT ![t] = over]
          /\ poll.overtaken \in [Symbols -> Nat]
      BY <3>1, <3>2, <3>3 DEF Polls
    <3> QED BY <3>4 DEF over
  <2>2. CASE ~poll.read BY <1>2, <1>4, <2>2
  <2> QED BY <2>1, <2>2
<1>7. /\ price' \in [Symbols -> Prices]
      /\ \A s \in Symbols :
           /\ price'[s].until = price[s].until
           /\ price'[s].overtaken \in {price[s].overtaken, FirstOf(price[s].overtaken)}
  BY <1>3, <1>4, <1>5 DEF Prices
<1>8. LiveType' BY <1>1, <1>6, <1>7 DEF LiveInv, LiveType
<1>9. OnTime' /\ Due' = Due BY <1>1, <1>6 DEF LiveInv, OnTime, Due
<1>10. OutlivesMisses' BY <1>1, <1>7, <1>9 DEF LiveInv, OutlivesMisses
<1>11. OvertakenLater'
  <2>1. poll.at = "fetching" => poll.began <= now BY DEF LiveInv, OnTime
  <2>2. \A s \in Symbols : poll.overtaken[s] \in Nat BY LiveFacts
  <2> QED BY <1>6, <2>1, <2>2, FirstOfIs DEF LiveInv, OvertakenLater
<1>12. LivesTTL' BY <1>1, <1>7 DEF LiveInv, LivesTTL, PriceTTL
<1>13. StaleExpires'
  <2> SUFFICES ASSUME NEW s \in Symbols, price'[s].overtaken # Never
               PROVE  price'[s].until <= price'[s].overtaken + PriceTTL + RequestTimeout
    BY DEF StaleExpires, PriceTTL
  <2>1. price[s].until \in Nat /\ price[s].until <= now + PriceTTL
    BY LiveFacts DEF LiveInv, LivesTTL
  <2>2. \/ price[s].overtaken = Never
        \/ price[s].until <= price[s].overtaken + PriceTTL + RequestTimeout
    BY DEF LiveInv, StaleExpires
  <2>3. price[s].overtaken \in Nat BY LiveFacts
  <2> QED BY <1>5, <1>7, <2>1, <2>2, <2>3, FirstOfIs
<1> QED BY <1>1, <1>8, <1>9, <1>10, <1>11, <1>12, <1>13 DEF LiveInv, StaleQuoteEnds, PriceTTL

\* A poll that ends is followed by the next within an interval of its beginning.
LEMMA AfterPoll ==
  ASSUME LiveInv, poll.at = "fetching", poll' = Idle, UNCHANGED <<now, tickAt, ticked>>
  PROVE  /\ Due' \in Nat /\ Due' <= poll.began + PollInterval
         /\ Due' <= now + PollInterval /\ OnTime'
<1>1. /\ poll.began <= now /\ now <= poll.began + RequestTimeout
      /\ ~ticked => tickAt <= poll.began + PollInterval
      /\ now < tickAt /\ tickAt <= now + PollInterval
  BY DEF LiveInv, OnTime
<1>2. Due' = IF ticked THEN now ELSE tickAt BY DEF Due, Idle
<1>3. OnTime' BY <1>1 DEF OnTime, Idle
<1> QED BY <1>1, <1>2, <1>3, LiveFacts

\* One more miss, or two, of a symbol that can count them.
LEMMA MissedIs ==
  ASSUME LiveInv, NEW n \in 1..2, NEW s \in Symbols
  PROVE  /\ Missed(n)[s] \in 1..2
         /\ Missed(n)[s] = 1 => misses[s] = 0 /\ n = 1
BY LiveFacts DEF Missed, Least

\* The vendor's answer is written with a fresh lifetime.
LEMMA PollAnsweredKeeps == ASSUME LiveInv, PollAnswered PROVE LiveInv'
<1>1. PICK traded \in SUBSET Symbols, usable \in BOOLEAN :
        /\ price' = [s \in Symbols |-> IF s \in traded THEN SetPrice(s, usable) ELSE price[s]]
        /\ misses' = [s \in Symbols |-> IF s \in traded THEN 0 ELSE Missed(1)[s]]
  BY DEF PollAnswered
<1>2. poll.at = "fetching" /\ poll' = Idle /\ UNCHANGED <<now, tickAt, ticked, quote>>
  BY DEF PollAnswered
<1>3. /\ Due' \in Nat /\ Due' <= poll.began + PollInterval
      /\ Due' <= now + PollInterval /\ OnTime'
  BY <1>2, AfterPoll
<1>4. /\ Due = poll.began /\ now \in Nat /\ poll.began \in Nat
      /\ PriceTTL = 3 * PollInterval /\ PollInterval \in Nat
  BY <1>2, LiveFacts, DueCases
<1>5. \A s \in Symbols :
        SetPrice(s, usable) =
          [until |-> now + PriceTTL, usable |-> usable, overtaken |-> poll.overtaken[s]]
  BY DEF SetPrice
<1>6. \A s \in Symbols :
        IF s \in traded
        THEN /\ price'[s].until = now + PriceTTL /\ misses'[s] = 0
             /\ price'[s].overtaken = poll.overtaken[s]
        ELSE /\ price'[s] = price[s] /\ misses'[s] \in 1..2
             /\ misses'[s] = 1 => misses[s] = 0
  BY <1>1, <1>5, MissedIs
<1>7. LiveType'
  <2>1. \A s \in Symbols : SetPrice(s, usable) \in Prices
    <3> SUFFICES ASSUME NEW s \in Symbols PROVE SetPrice(s, usable) \in Prices OBVIOUS
    <3>1. /\ poll.overtaken[s] \in Nat /\ now + PriceTTL \in Nat
          /\ SetPrice(s, usable) =
               [until |-> now + PriceTTL, usable |-> usable, overtaken |-> poll.overtaken[s]]
      BY <1>4, <1>5, LiveFacts
    <3> QED BY <3>1 DEF Prices
  <2>2. price' \in [Symbols -> Prices] BY <1>1, <2>1 DEF LiveInv, LiveType
  <2>3. misses' \in [Symbols -> 0..2] BY <1>1, MissedIs
  <2>4. poll' \in Polls BY <1>2 DEF Polls
  <2> QED BY <1>2, <2>2, <2>3, <2>4 DEF LiveInv, LiveType
<1>8. OutlivesMisses'
  <2> SUFFICES ASSUME NEW s \in Symbols
               PROVE  /\ misses'[s] = 0 => price'[s].until >= Due' + 2 * PollInterval
                      /\ misses'[s] = 1 => price'[s].until >= Due' + PollInterval
    BY DEF OutlivesMisses
  <2>1. CASE s \in traded BY <1>3, <1>4, <1>6, <2>1
  <2>2. CASE s \notin traded
    <3>1. misses'[s] # 0 /\ price'[s].until = price[s].until /\ price[s].until \in Nat
      BY <1>6, <2>2, LiveFacts
    <3>2. misses'[s] = 1 => price[s].until >= Due + 2 * PollInterval
      BY <1>6, <2>2 DEF LiveInv, OutlivesMisses
    <3> QED BY <1>3, <1>4, <3>1, <3>2
  <2> QED BY <2>1, <2>2
<1>9. OvertakenLater' BY <1>2 DEF OvertakenLater, Idle
<1>10. LivesTTL' BY <1>2, <1>4, <1>6 DEF LiveInv, LivesTTL, PriceTTL
<1>11. StaleExpires'
  <2> SUFFICES ASSUME NEW s \in Symbols, price'[s].overtaken # Never
               PROVE  price'[s].until <= price'[s].overtaken + PriceTTL + RequestTimeout
    BY DEF StaleExpires, PriceTTL
  <2>1. CASE s \in traded
    <3>1. poll.began <= poll.overtaken[s] /\ now <= poll.began + RequestTimeout
      BY <1>2, <1>6, <2>1 DEF LiveInv, OvertakenLater, OnTime
    <3>2. poll.overtaken[s] \in Nat /\ RequestTimeout \in Nat BY LiveFacts
    <3> QED BY <1>4, <1>6, <2>1, <3>1, <3>2
  <2>2. CASE s \notin traded BY <1>6, <2>2 DEF LiveInv, StaleExpires
  <2> QED BY <2>1, <2>2
<1>12. StaleQuoteEnds' BY <1>2 DEF LiveInv, StaleQuoteEnds, PriceTTL
<1> QED BY <1>3, <1>7, <1>8, <1>9, <1>10, <1>11, <1>12 DEF LiveInv

\* A poll that fails leaves the prices of the poll before it, within their lifetime.
LEMMA PollFailsKeeps == ASSUME LiveInv, PollFails PROVE LiveInv'
<1>1. /\ poll.at = "fetching" /\ poll' = Idle /\ misses' = Missed(1)
      /\ UNCHANGED <<now, tickAt, ticked, price, quote>>
  BY DEF PollFails
<1>2. /\ Due' \in Nat /\ Due' <= poll.began + PollInterval /\ OnTime'
  BY <1>1, AfterPoll
<1>3. Due = poll.began /\ poll.began \in Nat /\ PollInterval \in Nat
  BY <1>1, LiveFacts, DueCases
<1>4. LiveType'
  <2>1. misses' \in [Symbols -> 0..2] BY <1>1, MissedIs DEF Missed
  <2>2. poll' \in Polls BY <1>1 DEF Polls
  <2> QED BY <1>1, <2>1, <2>2 DEF LiveInv, LiveType
<1>5. OutlivesMisses'
  <2> SUFFICES ASSUME NEW s \in Symbols
               PROVE  /\ misses'[s] = 0 => price[s].until >= Due' + 2 * PollInterval
                      /\ misses'[s] = 1 => price[s].until >= Due' + PollInterval
    BY <1>1 DEF OutlivesMisses
  <2>1. misses'[s] # 0 /\ (misses'[s] = 1 => misses[s] = 0) BY <1>1, MissedIs
  <2>2. misses[s] = 0 => price[s].until >= Due + 2 * PollInterval
    BY DEF LiveInv, OutlivesMisses
  <2>3. price[s].until \in Nat BY LiveFacts
  <2> QED BY <1>2, <1>3, <2>1, <2>2, <2>3
<1>6. OvertakenLater' BY <1>1 DEF OvertakenLater, Idle
<1> QED BY <1>1, <1>2, <1>4, <1>5, <1>6 DEF LiveInv, LivesTTL, StaleExpires, StaleQuoteEnds

\* A restart costs the poll in flight or due, and the rest of an interval.
LEMMA RestartKeeps == ASSUME LiveInv, PollerRestarts PROVE LiveInv'
<1> DEFINE lost == IF ticked \/ poll # Idle THEN 2 ELSE 1
<1>1. /\ poll' = Idle /\ ticked' = FALSE /\ tickAt' = now + PollInterval
      /\ misses' = Missed(lost) /\ lost \in 1..2
      /\ UNCHANGED <<now, price, quote>>
  BY DEF PollerRestarts
<1>2. lost = 1 => ~ticked /\ poll.at = "idle" BY LiveFacts
<1> HIDE DEF lost
<1>3. /\ now \in Nat /\ tickAt \in Nat /\ PollInterval \in Nat \ {0} /\ now < tickAt
  BY LiveFacts DEF LiveInv, OnTime
<1>4. Due' = now + PollInterval BY <1>1 DEF Due, Idle
<1>5. LiveType'
  <2>1. misses' \in [Symbols -> 0..2] BY <1>1, MissedIs DEF Missed
  <2>2. poll' \in Polls BY <1>1 DEF Polls
  <2>3. now' \in Nat /\ tickAt' \in Nat BY <1>1, <1>3
  <2>4. ticked' \in BOOLEAN BY <1>1
  <2> QED BY <1>1, <2>1, <2>2, <2>3, <2>4 DEF LiveInv, LiveType
<1>6. OnTime' BY <1>1, <1>3 DEF OnTime, Idle
<1>7. OutlivesMisses'
  <2> SUFFICES ASSUME NEW s \in Symbols
               PROVE  /\ misses'[s] = 0 => price[s].until >= Due' + 2 * PollInterval
                      /\ misses'[s] = 1 => price[s].until >= Due' + PollInterval
    BY <1>1 DEF OutlivesMisses
  <2>1. misses'[s] # 0 /\ (misses'[s] = 1 => misses[s] = 0 /\ lost = 1) BY <1>1, MissedIs
  <2>2. misses'[s] = 1 => price[s].until >= tickAt + 2 * PollInterval
    BY <1>2, <2>1, DueCases DEF LiveInv, OutlivesMisses
  <2>3. price[s].until \in Nat BY LiveFacts
  <2> QED BY <1>3, <1>4, <2>1, <2>2, <2>3
<1>8. OvertakenLater' BY <1>1 DEF OvertakenLater, Idle
<1> QED BY <1>1, <1>5, <1>6, <1>7, <1>8 DEF LiveInv, LivesTTL, StaleExpires, StaleQuoteEnds

\* Time passes only while a poll is in progress or none is due, and a tick that
\* comes due finds the next poll no later than it was.
LEMMA TickKeeps == ASSUME LiveInv, Tick PROVE LiveInv'
<1>1. /\ now' = now + 1 /\ ~(ticked /\ poll = Idle)
      /\ poll.at = "fetching" => now < poll.began + RequestTimeout
      /\ quote' = NoQuote /\ UNCHANGED <<poll, price, misses>>
  BY DEF Tick
<1>2. /\ now \in Nat /\ tickAt \in Nat /\ poll.began \in Nat /\ PollInterval \in Nat \ {0}
      /\ RequestTimeout \in Nat /\ ticked \in BOOLEAN /\ poll.at \in {"idle", "fetching"}
      /\ poll = Idle <=> poll.at = "idle"
      /\ now < tickAt /\ tickAt <= now + PollInterval
      /\ poll.at = "fetching" =>
           /\ poll.began <= now /\ now <= poll.began + RequestTimeout
           /\ ~ticked => tickAt <= poll.began + PollInterval
  BY LiveFacts DEF LiveInv, OnTime
<1>3. \/ now' = tickAt /\ ticked' = TRUE /\ tickAt' = tickAt + PollInterval
      \/ now' # tickAt /\ UNCHANGED <<ticked, tickAt>>
  BY DEF Tick
<1>4. LiveType'
  <2>1. now' \in Nat /\ tickAt' \in Nat BY <1>1, <1>2, <1>3
  <2>2. ticked' \in BOOLEAN BY <1>2, <1>3, Zenon
  <2> QED BY <1>1, <2>1, <2>2 DEF LiveInv, LiveType
<1>5. OnTime' BY <1>1, <1>2, <1>3 DEF OnTime
<1>6. Due' = Due BY <1>1, <1>2, <1>3 DEF Due
<1>7. OutlivesMisses' BY <1>1, <1>6 DEF LiveInv, OutlivesMisses
<1>8. OvertakenLater' /\ StaleExpires' /\ StaleQuoteEnds'
  BY <1>1 DEF LiveInv, OvertakenLater, StaleExpires, StaleQuoteEnds, NoQuote, PriceTTL
<1>9. LivesTTL' BY <1>1, <1>2, LiveFacts DEF LiveInv, LivesTTL, PriceTTL
<1> QED BY <1>4, <1>5, <1>7, <1>8, <1>9 DEF LiveInv

\* A read takes what the cache holds, if it has not expired.
LEMMA LatestPriceKeeps ==
  ASSUME LiveInv, NEW s \in Symbols, LatestPrice(s) PROVE LiveInv'
<1>1. UNCHANGED <<now, tickAt, ticked, poll, price, misses>> BY DEF LatestPrice
<1>2. LiveType' /\ OnTime' /\ OutlivesMisses' /\ OvertakenLater' /\ LivesTTL' /\ StaleExpires'
  BY <1>1 DEF LiveInv, LiveType, OnTime, OutlivesMisses, Due, OvertakenLater, LivesTTL,
     StaleExpires
<1>3. StaleQuoteEnds'
  <2>1. CASE Cached(s) /\ quote' = [answer |-> "price", stale |-> StaleFor(price[s])]
    <3>1. now < price[s].until BY <2>1 DEF Cached
    <3>2. /\ now \in Nat /\ price[s].until \in Nat /\ price[s].overtaken \in Nat
          /\ PriceTTL \in Nat /\ RequestTimeout \in Nat
          /\ PriceTTL = 3 * PollInterval /\ PollInterval \in Nat \ {0}
      BY LiveFacts
    <3>3. \/ price[s].overtaken = Never
          \/ price[s].until <= price[s].overtaken + PriceTTL + RequestTimeout
      BY DEF LiveInv, StaleExpires
    <3>4. StaleFor(price[s]) < PriceTTL + RequestTimeout
      BY <3>1, <3>2, <3>3 DEF StaleFor
    <3> QED BY <2>1, <3>4 DEF StaleQuoteEnds, PriceTTL
  <2>2. CASE quote' \in {Answer("upstream_unavailable"), Answer("symbol_unavailable")}
    BY <2>2 DEF StaleQuoteEnds, Answer
  <2> QED BY <2>1, <2>2 DEF LatestPrice
<1> QED BY <1>2, <1>3 DEF LiveInv

\* The ingest changes nothing of the poller's.
LEMMA LiveRests == ASSUME LiveInv, UNCHANGED liveVars PROVE LiveInv'
BY DEF liveVars, LiveInv, LiveType, OnTime, OutlivesMisses, Due, OvertakenLater, LivesTTL,
   StaleExpires, StaleQuoteEnds

\* Every step of the service keeps the poller's invariant.
LEMMA LiveNextKeeps == LiveInv /\ [Next]_vars => LiveInv'
<1> SUFFICES ASSUME LiveInv, [Next]_vars PROVE LiveInv' OBVIOUS
<1>1. CASE LiveNext
  BY <1>1, TickKeeps, StartPollKeeps, SnapshotsReadKeeps, TradesKeeps, PollAnsweredKeeps,
     PollFailsKeeps, LatestPriceKeeps
  DEF LiveNext
<1>2. CASE PollerRestarts BY <1>2, RestartKeeps
<1>3. CASE UNCHANGED liveVars BY <1>3, LiveRests
<1> QED BY <1>1, <1>2, <1>3 DEF Next, Restart, vars

\* The poller's invariant holds throughout.
LEMMA LiveHolds == Spec => []LiveInv
<1>1. Init => LiveInv BY LiveInitial DEF Init
<1> QED BY <1>1, LiveNextKeeps, PTL DEF Spec

\* PriceTTL is three intervals so that one missed tick does not look like an
\* outage: what is left of a price covers an interval for each poll it may still
\* miss, counted from when that poll is due at the latest (OutlivesMisses).
THEOREM PriceOutlivesMissedTick == Spec => []OneMissedTickTolerated
<1>1. LiveInv => OneMissedTickTolerated
  <2> SUFFICES ASSUME LiveInv, NEW s \in Symbols, ~Cached(s), misses[s] # 2
               PROVE  misses[s] = 1 /\ TimedOut
    BY DEF OneMissedTickTolerated
  <2>1. /\ now \in Nat /\ tickAt \in Nat /\ poll.began \in Nat /\ PollInterval \in Nat \ {0}
        /\ RequestTimeout \in Nat /\ RequestTimeout <= PollInterval
        /\ poll.at \in {"idle", "fetching"} /\ ticked \in BOOLEAN
        /\ misses[s] \in {0, 1} /\ price[s].until \in Nat /\ Due \in Nat
    BY LiveFacts
  <2>2. price[s].until <= now BY <2>1 DEF Cached
  <2>3. /\ misses[s] = 0 => Due + 2 * PollInterval <= now
        /\ misses[s] = 1 => Due + PollInterval <= now
    BY <2>1, <2>2 DEF LiveInv, OutlivesMisses
  <2>4. /\ now < tickAt
        /\ poll.at = "fetching" => now <= poll.began + RequestTimeout
    BY DEF LiveInv, OnTime
  <2>5. poll.at = "fetching" /\ Due = poll.began BY <2>1, <2>3, <2>4, DueCases
  <2> QED BY <2>1, <2>3, <2>4, <2>5 DEF TimedOut
<1> QED BY <1>1, LiveHolds, PTL

\* The TTL's purpose: whatever the poller does or fails to do, no order is priced from a
\* quote a later trade overtook more than PriceTTL and one call's timeout ago.
THEOREM StaleQuotesEnd == Spec => []StaleQuoteEnds
<1>1. LiveInv => StaleQuoteEnds BY DEF LiveInv
<1> QED BY <1>1, LiveHolds, PTL

-----------------------------------------------------------------------------
(* Ingest *)

\* A job under way, by its type.
LEMMA JobFacts ==
  ASSUME IngestInv
  PROVE  /\ rows \in [Tickers -> SUBSET Days]
         /\ job \in Jobs
         /\ job.results \in Seq(Results) /\ Len(job.results) \in Nat
         /\ DOMAIN job.results = 1..Len(job.results)
         /\ job.list \in Seq(DOMAIN Upper) /\ Len(job.list) \in Nat
         /\ job.at \in {"fetch", "store"} => Current \in Tickers \cup {NoSymbol}
<1>1. rows \in [Tickers -> SUBSET Days] /\ job \in Jobs BY DEF IngestInv, IngestType
<1>2. job.results \in Seq(Results) /\ job.list \in RawLists \cup {<<>>} BY <1>1 DEF Jobs
<1>3. job.list \in Seq(DOMAIN Upper)
  <2>1. <<>> \in Seq(DOMAIN Upper) OBVIOUS
  <2>2. RawLists \subseteq Seq(DOMAIN Upper) BY IngestAssumption
  <2> QED BY <1>2, <2>1, <2>2
<1>4. /\ Len(job.results) \in Nat /\ DOMAIN job.results = 1..Len(job.results)
      /\ Len(job.list) \in Nat
  BY <1>2, <1>3
<1>5. job.at \in {"fetch", "store"} => Current \in Tickers \cup {NoSymbol}
  <2> SUFFICES ASSUME job.at \in {"fetch", "store"}
               PROVE  Current \in Tickers \cup {NoSymbol}
    OBVIOUS
  <2>1. Len(job.results) + 1 \in 1..Len(job.list)
    BY <1>4 DEF IngestInv, UnderWay
  <2>2. job.list[Len(job.results) + 1] \in DOMAIN Upper BY <1>3, <2>1
  <2> QED BY <2>2, IngestAssumption DEF Current
<1> QED BY <1>1, <1>2, <1>3, <1>4, <1>5

\* A request whose results are all upstream failures stored nothing: one result
\* of another kind makes the count fall short.
LEMMA AllUpstream ==
  ASSUME NEW results \in Seq(Results), Upstream(results) = Len(results),
         NEW i \in DOMAIN results
  PROVE  results[i].what = "upstream"
<1> DEFINE U == {j \in DOMAIN results : results[j].what = "upstream"}
           n == Len(results)
<1>1. n \in Nat /\ DOMAIN results = 1..n OBVIOUS
<1>2. U \subseteq 1..n BY <1>1
<1>3. Cardinality(U) = n BY DEF Upstream
<1> HIDE DEF n, U
<1>4. IsFiniteSet(1..n) /\ Cardinality(1..n) = n
  <2>1. IsFiniteSet(1..n) /\ Cardinality(1..n) = IF 1 > n THEN 0 ELSE n - 1 + 1
    BY <1>1, FS_Interval
  <2> QED BY <1>1, <2>1
<1>5. U = 1..n BY <1>2, <1>3, <1>4, FS_Subset
<1> QED BY <1>1, <1>5 DEF U, n

\* The answer of a request tells what it stored.  A result is recorded once its
\* symbol's rows are written or left alone, or its batch has been lost.
LEMMA RecordKeeps ==
  ASSUME IngestInv, job.at \in {"fetch", "store"},
         NEW what \in Whats, NEW lost, Record(what, lost),
         lost \in {job.lost, job.lost \cup {Len(job.results) + 1}},
         rows' \in [Tickers -> SUBSET Days],
         \A s \in Tickers : rows[s] \subseteq rows'[s] /\ (s # Current => rows'[s] = rows[s]),
         rows' # rows => what \in {"ingested", "not_stored"},
         what = "ingested" =>
           /\ Current \in Tickers
           /\ job.range \subseteq rows'[Current] \/ Len(job.results) + 1 \in lost
  PROVE  IngestInv'
<1> DEFINE last == Len(job.results) + 1
           results == Append(job.results, Result(Current, what))
           at == IF Len(results) < Len(job.list) THEN "fetch"
                 ELSE IF Upstream(results) = Len(job.list) THEN "502" ELSE "200"
<1>1. job' = [job EXCEPT !.at = at, !.got = {}, !.results = results, !.lost = lost]
  BY DEF Record
<1>2. /\ job \in Jobs /\ rows \in [Tickers -> SUBSET Days]
      /\ job.results \in Seq(Results) /\ Len(job.results) \in Nat
      /\ DOMAIN job.results = 1..Len(job.results) /\ Len(job.list) \in Nat
      /\ Current \in Tickers \cup {NoSymbol}
  BY JobFacts
<1>3. job.list # <<>> /\ Len(job.results) < Len(job.list) BY DEF IngestInv, UnderWay
<1>4. Result(Current, what) \in Results /\ Result(Current, what).what = what
      /\ Result(Current, what).symbol = Current
  BY <1>2 DEF Result, Results
<1>5. /\ results \in Seq(Results) /\ Len(results) = last
      /\ DOMAIN results = 1..last /\ last \in DOMAIN results
      /\ results[last] = Result(Current, what)
      /\ \A i \in 1..Len(job.results) : results[i] = job.results[i]
  BY <1>2, <1>4
<1>6. at \in {"fetch", "200", "502"} BY Zenon
<1>7. /\ at = "fetch" => Len(results) < Len(job.list)
      /\ at = "502" => Upstream(results) = Len(results)
  BY <1>2, <1>3, <1>5
<1>8. /\ lost \in SUBSET Nat /\ \A i \in lost : i <= last
      /\ job.lost \subseteq lost
  BY <1>2 DEF Jobs, IngestInv, UnderWay
<1>9. \A i \in DOMAIN job.results : i \in DOMAIN results /\ results[i] = job.results[i]
  BY <1>2, <1>5
<1> HIDE DEF results, at
<1>10. /\ job'.at = at /\ job'.list = job.list /\ job'.range = job.range /\ job'.got = {}
       /\ job'.results = results /\ job'.before = job.before /\ job'.lost = lost
  BY <1>1, <1>2 DEF Jobs
<1>11. IngestType'
  <2>1. at \in {"idle", "fetch", "store", "200", "400", "502"} BY <1>6
  <2>2. job' \in Jobs BY <1>1, <1>2, <1>5, <1>8, <2>1 DEF Jobs
  <2> QED BY <2>2 DEF IngestType
<1>12. UnderWay' BY <1>3, <1>5, <1>6, <1>7, <1>8, <1>10 DEF UnderWay
<1>13. IngestedExist'
  <2> SUFFICES ASSUME NEW i \in DOMAIN results, results[i].what = "ingested"
               PROVE  results[i].symbol \in Tickers
    BY <1>10 DEF IngestedExist
  <2>1. CASE i = last BY <1>4, <1>5, <2>1
  <2>2. CASE i # last
    <3>1. i \in DOMAIN job.results BY <1>2, <1>5, <2>2
    <3> QED BY <1>9, <3>1 DEF IngestInv, IngestedExist
  <2> QED BY <2>1, <2>2
<1>14. \A s \in Tickers : rows'[s] # job.before[s] =>
         \E i \in DOMAIN results :
           results[i].symbol = s /\ results[i].what \in {"ingested", "not_stored"}
  <2> SUFFICES ASSUME NEW s \in Tickers, rows'[s] # job.before[s]
               PROVE  \E i \in DOMAIN results :
                        results[i].symbol = s /\ results[i].what \in {"ingested", "not_stored"}
    OBVIOUS
  <2>1. CASE rows'[s] = rows[s]
    <3>1. PICK i \in DOMAIN job.results :
            job.results[i].symbol = s /\ job.results[i].what \in {"ingested", "not_stored"}
      BY <2>1 DEF IngestInv, AnswerIsHonest
    <3> QED BY <1>9, <3>1
  <2>2. CASE rows'[s] # rows[s]
    <3>1. s = Current /\ what \in {"ingested", "not_stored"} BY <2>2
    <3> QED BY <1>4, <1>5, <3>1
  <2> QED BY <2>1, <2>2
<1>15. AnswerIsHonest'
  <2>1. at = "502" => rows' = job.before
    <3> SUFFICES ASSUME at = "502" PROVE rows' = job.before OBVIOUS
    <3>1. \A i \in DOMAIN results : results[i].what = "upstream"
      BY <1>5, <1>7, AllUpstream
    <3>2. "upstream" \notin {"ingested", "not_stored"} OBVIOUS
    <3>3. \A s \in Tickers : rows'[s] = job.before[s] BY <1>14, <3>1, <3>2
    <3>4. job.before \in [Tickers -> SUBSET Days] BY <1>2 DEF Jobs
    <3> QED BY <3>3, <3>4
  <2>2. ASSUME NEW i \in DOMAIN results, results[i].what = "ingested", i \notin lost
        PROVE  job.range \subseteq rows'[results[i].symbol]
    <3>1. CASE i = last BY <1>4, <1>5, <2>2, <3>1
    <3>2. CASE i # last
      <4>1. i \in DOMAIN job.results /\ results[i] = job.results[i]
        BY <1>2, <1>5, <1>9, <3>2
      <4>2. job.range \subseteq rows[results[i].symbol]
        BY <1>8, <2>2, <4>1 DEF IngestInv, AnswerIsHonest
      <4>3. results[i].symbol \in Tickers
        BY <2>2, <4>1 DEF IngestInv, IngestedExist
      <4> QED BY <4>2, <4>3
    <3> QED BY <3>1, <3>2
  <2> QED BY <1>10, <1>14, <2>1, <2>2 DEF AnswerIsHonest
<1> QED BY <1>11, <1>12, <1>13, <1>15 DEF IngestInv

\* No job and no history have the invariant.
LEMMA IngestInitial == IngestInit => IngestInv
<1> SUFFICES ASSUME IngestInit PROVE IngestInv OBVIOUS
<1>1. <<>> \in Seq(Results) OBVIOUS
<1>2. IngestType BY <1>1 DEF IngestInit, NoJob, Nothing, IngestType, Jobs
<1>3. UnderWay /\ IngestedExist /\ AnswerIsHonest
  BY DEF IngestInit, NoJob, UnderWay, IngestedExist, AnswerIsHonest
<1> QED BY <1>2, <1>3 DEF IngestInv

\* A job that has recorded nothing, of a list that names something or of none.
LEMMA FreshJob ==
  ASSUME IngestInv, UNCHANGED rows, NEW at \in {"idle", "fetch", "400"},
         NEW list \in RawLists \cup {<<>>}, NEW range \in SUBSET Days,
         at = "fetch" => list \in RawLists,
         job' = [at |-> at, list |-> list, range |-> range, got |-> {}, results |-> <<>>,
                 before |-> rows, lost |-> {}]
  PROVE  IngestInv'
<1> DEFINE none == <<>>
<1>1. job' = [at |-> at, list |-> list, range |-> range, got |-> {}, results |-> none,
              before |-> rows, lost |-> {}]
  OBVIOUS
<1>2. none \in Seq(Results) /\ Len(none) = 0 /\ DOMAIN none = {} OBVIOUS
<1>3. at = "fetch" => list # <<>> /\ 0 < Len(list)
  <2>1. list \in RawLists => list \in Seq(DOMAIN Upper) /\ list # <<>> BY IngestAssumption
  <2>2. ASSUME NEW q \in Seq(DOMAIN Upper), q # <<>> PROVE 0 < Len(q) BY <2>2
  <2>3. list \in RawLists => 0 < Len(list) BY <2>1, <2>2
  <2> QED BY <2>1, <2>3
<1>4. rows \in [Tickers -> SUBSET Days] BY DEF IngestInv, IngestType
<1> HIDE DEF none
<1>5. /\ job'.at = at /\ job'.list = list /\ job'.got = {} /\ job'.results = none
      /\ job'.before = rows /\ job'.lost = {} /\ job'.range = range
  BY <1>1
<1>6. IngestType'
  <2>1. at \in {"idle", "fetch", "store", "200", "400", "502"} /\ {} \in SUBSET Days
        /\ {} \in SUBSET Nat
    OBVIOUS
  <2>2. job' \in Jobs BY <1>1, <1>2, <1>4, <2>1 DEF Jobs
  <2> QED BY <1>4, <2>2 DEF IngestType
<1>7. UnderWay' BY <1>2, <1>3, <1>5 DEF UnderWay
<1>8. IngestedExist' /\ AnswerIsHonest'
  BY <1>2, <1>5 DEF IngestedExist, AnswerIsHonest
<1> QED BY <1>6, <1>7, <1>8 DEF IngestInv

\* Pages are gathered until they are the range; nothing is stored before that.
LEMMA GetBarsKeeps == ASSUME IngestInv, GetBars PROVE IngestInv'
<1>1. /\ job.at = "fetch" /\ Current # NoSymbol /\ UNCHANGED rows
      /\ rows \in [Tickers -> SUBSET Days]
  BY JobFacts DEF GetBars
<1> DEFINE got == job.got \cup FetchBarsPage
           at == IF got = job.range THEN "store" ELSE "fetch"
<1>2. CASE job' = [job EXCEPT !.got = got, !.at = at]
  <2>1. job \in Jobs /\ job.got \subseteq job.range BY JobFacts DEF IngestInv, UnderWay
  <2>2. got \subseteq job.range /\ got \subseteq Days
    BY <2>1 DEF FetchBarsPage, Jobs
  <2>3. at \in {"store", "fetch"} /\ (at = "store" => got = job.range) OBVIOUS
  <2> HIDE DEF got, at
  <2>4. /\ job'.at = at /\ job'.list = job.list /\ job'.range = job.range /\ job'.got = got
        /\ job'.results = job.results /\ job'.before = job.before /\ job'.lost = job.lost
    BY <1>2, <2>1 DEF Jobs
  <2>5. IngestType'
    <3>1. job' \in Jobs BY <1>2, <2>1, <2>2, <2>3 DEF Jobs
    <3> QED BY <1>1, <3>1 DEF IngestType
  <2>6. UnderWay'
    <3>1. Current' = Current BY <2>4 DEF Current
    <3> QED BY <1>1, <2>2, <2>3, <2>4, <3>1 DEF UnderWay, IngestInv
  <2>7. IngestedExist' /\ AnswerIsHonest'
    BY <1>1, <2>3, <2>4 DEF IngestInv, IngestedExist, AnswerIsHonest
  <2> QED BY <2>5, <2>6, <2>7 DEF IngestInv
<1>3. CASE Record("upstream", job.lost)
  <2>1. "upstream" \in Whats /\ "upstream" # "ingested" BY DEF Whats
  <2> QED BY <1>1, <1>3, <2>1, RecordKeeps
<1> QED BY <1>2, <1>3 DEF GetBars

\* The batch is stored whole or not at all; its acknowledgement may be lost, and so
\* may the news that it was not.
LEMMA UpsertBarsKeeps == ASSUME IngestInv, UpsertBars PROVE IngestInv'
<1>1. /\ job.at = "store" /\ Current \in Tickers /\ job.got = job.range
      /\ rows \in [Tickers -> SUBSET Days] /\ job.got \in SUBSET Days
  BY JobFacts DEF UpsertBars, IngestInv, UnderWay, Jobs
<1>2. ASSUME NEW what \in {"ingested", "not_stored"},
             rows' = [rows EXCEPT ![Current] = @ \cup job.got], Record(what, job.lost)
      PROVE  IngestInv'
  <2>1. /\ rows' \in [Tickers -> SUBSET Days] /\ job.range \subseteq rows'[Current]
        /\ \A s \in Tickers : /\ rows[s] \subseteq rows'[s]
                              /\ s # Current => rows'[s] = rows[s]
    BY <1>1, <1>2
  <2>2. what \in Whats BY DEF Whats
  <2> QED BY <1>1, <1>2, <2>1, <2>2, RecordKeeps
<1>3. CASE UNCHANGED rows /\ Record("not_stored", job.lost)
  <2>1. "not_stored" \in Whats /\ "not_stored" # "ingested" BY DEF Whats
  <2> QED BY <1>1, <1>3, <2>1, RecordKeeps
<1>4. CASE UNCHANGED rows /\ Record("ingested", job.lost \cup {Len(job.results) + 1})
  <2>1. "ingested" \in Whats BY DEF Whats
  <2> QED BY <1>1, <1>4, <2>1, RecordKeeps
<1> QED BY <1>2, <1>3, <1>4 DEF UpsertBars

\* The poller changes nothing of the ingest's.
LEMMA IngestRests == ASSUME IngestInv, UNCHANGED ingestVars PROVE IngestInv'
BY DEF ingestVars, IngestInv, IngestType, UnderWay, Current, IngestedExist, AnswerIsHonest

\* Every step of the service keeps the ingest's invariant.
LEMMA IngestNextKeeps == IngestInv /\ [Next]_vars => IngestInv'
<1> SUFFICES ASSUME IngestInv, [Next]_vars PROVE IngestInv' OBVIOUS
<1>1. CASE Ingest
  <2>1. ASSUME NEW list \in RawLists, NEW start \in Days, NEW end \in Days,
               job' = [NoJob EXCEPT !.at = "fetch", !.list = list, !.before = rows,
                                    !.range = {d \in Days : start <= d /\ d <= end}]
        PROVE  IngestInv'
    <3> DEFINE range == {d \in Days : start <= d /\ d <= end}
    <3>1. /\ UNCHANGED rows /\ range \in SUBSET Days
          /\ job' = [at |-> "fetch", list |-> list, range |-> range, got |-> {},
                     results |-> <<>>, before |-> rows, lost |-> {}]
      BY <1>1, <2>1 DEF Ingest, NoJob
    <3> HIDE DEF range
    <3> QED BY <3>1, FreshJob, SMTT(30)
  <2>2. CASE job' = [NoJob EXCEPT !.at = "400", !.before = rows]
    <3>1. /\ UNCHANGED rows /\ "400" # "fetch"
          /\ job' = [at |-> "400", list |-> <<>>, range |-> {}, got |-> {},
                     results |-> <<>>, before |-> rows, lost |-> {}]
      BY <1>1, <2>2 DEF Ingest, NoJob
    <3>2. <<>> \in RawLists \cup {<<>>} /\ {} \in SUBSET Days OBVIOUS
    <3> QED BY <3>1, <3>2, FreshJob, SMTT(30)
  <2> QED BY <1>1, <2>1, <2>2 DEF Ingest
<1>2. CASE GetBars BY <1>2, GetBarsKeeps
<1>3. CASE InvalidSymbol
  <2>1. /\ job.at = "fetch" /\ UNCHANGED rows /\ Record("invalid", job.lost)
        /\ rows \in [Tickers -> SUBSET Days] /\ "invalid" \in Whats
        /\ "invalid" # "ingested"
    BY <1>3, JobFacts DEF InvalidSymbol, Whats
  <2> QED BY <2>1, RecordKeeps
<1>4. CASE UpsertBars BY <1>4, UpsertBarsKeeps
<1>5. CASE IngestRestarts
  <2>1. /\ UNCHANGED rows
        /\ job' = [at |-> "idle", list |-> <<>>, range |-> {}, got |-> {}, results |-> <<>>,
                   before |-> rows, lost |-> {}]
    BY <1>5 DEF IngestRestarts, NoJob
  <2>2. "idle" # "fetch" OBVIOUS
  <2>3. <<>> \in RawLists \cup {<<>>} /\ {} \in SUBSET Days OBVIOUS
  <2> QED BY <2>1, <2>2, <2>3, FreshJob
<1>6. CASE UNCHANGED ingestVars BY <1>6, IngestRests
<1> QED BY <1>1, <1>2, <1>3, <1>4, <1>5, <1>6 DEF Next, IngestNext, Restart, vars

\* The ingest's invariant holds throughout.
LEMMA IngestHolds == Spec => []IngestInv
<1>1. Init => IngestInv BY IngestInitial DEF Init
<1> QED BY <1>1, IngestNextKeeps, PTL DEF Spec

\* The response of an ingest tells what it did: 502 means that nothing was stored, every
\* symbol it changed is reported, and an "ingested" one has every day of the range even
\* when a later one fails, unless Postgres refused its batch after the last result.
THEOREM IngestAnswersTruly == Spec => []AnswerIsHonest
<1>1. IngestInv => AnswerIsHonest BY DEF IngestInv
<1> QED BY <1>1, IngestHolds, PTL

\* UpsertBars writes a symbol's whole range in one transaction, and no other step
\* writes at all.
THEOREM HistoryHasNoHoles == Spec => RangesAreWhole
<1> DEFINE Whole == \A s \in Tickers : rows'[s] # rows[s] => rows'[s] = rows[s] \cup job.range
<1>1. IngestInv /\ [Next]_vars => [Whole]_ingestVars
  <2> SUFFICES ASSUME IngestInv, Next PROVE Whole
    BY DEF vars, ingestVars
  <2>1. CASE UNCHANGED rows BY <2>1
  <2>2. CASE UpsertBars
    <3>1. job.got = job.range /\ rows \in [Tickers -> SUBSET Days]
      BY <2>2, JobFacts DEF UpsertBars, IngestInv, UnderWay
    <3>2. CASE rows' = [rows EXCEPT ![Current] = @ \cup job.got] BY <3>1, <3>2
    <3> QED BY <2>1, <2>2, <3>2 DEF UpsertBars
  <2> QED
    BY <2>1, <2>2 DEF Next, IngestNext, Restart, IngestRestarts, Ingest, GetBars,
       InvalidSymbol, ingestVars
<1> QED BY <1>1, IngestHolds, PTL DEF Spec, RangesAreWhole
=============================================================================

----------------------------- MODULE Strategies -----------------------------
(***************************************************************************)
(* The three trading strategies of the backtesting service: validation of  *)
(* their parameters, the indicators and the signals they give.             *)
(*                                                                         *)
(* A strategy is its kind and its parameters in wire order:                *)
(*   ma_crossover <<short_window, long_window>>                            *)
(*   rsi          <<period, oversold, overbought>>                         *)
(*   macd         <<fast_period, slow_period, signal_period>>              *)
(* Prices are whole multiples of 1/Scale, and every division the           *)
(* indicators make must be exact there: Exactly has no value otherwise.    *)
(***************************************************************************)
EXTENDS Ordered, SequencesExt

CONSTANTS maxWarmupBars,
          IntMax,         \* the largest int of the build
          Scale

ASSUME StrategiesAssumption ==
  /\ maxWarmupBars \in Nat \ {0}
  /\ IntMax \in Nat /\ maxWarmupBars < IntMax \div 2
  /\ Scale \in Nat \ {0}

\* TLC stops at a division that is not exact: it cannot choose from Int.
Exactly(a, b) == IF b > 0 /\ a % b = 0 THEN a \div b ELSE CHOOSE q \in Int : TRUE

\* A sum as the int it is stored in.
AsInt(n) == ((n + IntMax + 1) % (2 * (IntMax + 1))) - (IntMax + 1)

-----------------------------------------------------------------------------
(* Construction *)

\* A strategy as the decoder hands it over: each parameter is a number, 0 if absent.
Decoded(strategy) ==
  /\ strategy \in [kind : STRING, params : Seq(Int)]
  /\ strategy.kind = "ma_crossover" => Len(strategy.params) = 2
  /\ strategy.kind \in {"rsi", "macd"} => Len(strategy.params) = 3

newMACrossover(p) == p[1] >= 2 /\ p[2] > p[1]

newRSIStrategy(p) ==
  /\ p[1] >= 2 /\ p[1] <= maxWarmupBars
  /\ 0 < p[2] /\ p[2] < p[3] /\ p[3] < 100

\* Mutant: only the sum is bounded, not what is added.
newMACDStrategySumOnly(p) == p[1] >= 2 /\ p[2] > p[1] /\ p[3] >= 2

newMACDStrategy(p) ==
  /\ p[1] >= 2 /\ p[2] > p[1] /\ p[3] >= 2
  /\ p[2] <= maxWarmupBars /\ p[3] <= maxWarmupBars

\* Bars before the indicator's first value.
WarmupBars(strategy) ==
  LET p == strategy.params
  IN CASE strategy.kind = "ma_crossover" -> p[2]
       [] strategy.kind = "rsi"          -> AsInt(p[1] + 1)
       [] strategy.kind = "macd"         -> AsInt(p[2] + p[3] - 1)

NewStrategy(strategy) ==
  /\ CASE strategy.kind = "ma_crossover" -> newMACrossover(strategy.params)
       [] strategy.kind = "rsi"          -> newRSIStrategy(strategy.params)
       [] strategy.kind = "macd"         -> newMACDStrategy(strategy.params)
       [] OTHER                          -> FALSE
  /\ WarmupBars(strategy) <= maxWarmupBars

-----------------------------------------------------------------------------
(* Indicators.  A place that has no value yet holds 0. *)

\* The trailing mean, from a running sum.
movingAverages(closes, window) ==
  LET sum[i \in 0..Len(closes)] ==
        IF i = 0 THEN 0
        ELSE sum[i - 1] + closes[i] - (IF i > window THEN closes[i - window] ELSE 0)
  IN [i \in 1..Len(closes) |-> IF i >= window THEN Exactly(sum[i], window) ELSE 0]

\* Seeded with the mean of the first period values; alpha is 2 / (period + 1).
ema(values, period) ==
  LET e[i \in 0..Len(values)] ==
        IF i < period THEN 0
        ELSE IF i = period THEN Exactly(SumSeq(SubSeq(values, 1, period)), period)
        ELSE Exactly(2 * values[i] + (period - 1) * e[i - 1], period + 1)
  IN [i \in 1..Len(values) |-> e[i]]

\* A reading of the RSI, as a numerator and a denominator.
rsiFromAverages(gain, loss) ==
  IF gain = 0 /\ loss = 0 THEN <<50, 1>> ELSE <<100 * gain, gain + loss>>

\* Wilder's average of the changes: the mean of the first period of them, then
\* each next one at the weight of one in period.
Smoothed(changes, period) ==
  LET avg[i \in 0..Len(changes)] ==
        IF i <= period THEN 0
        ELSE IF i = period + 1 THEN Exactly(SumSeq(SubSeq(changes, 2, period + 1)), period)
        ELSE Exactly(avg[i - 1] * (period - 1) + changes[i], period)
  IN [i \in 1..Len(changes) |-> avg[i]]

\* The part of a change that is a gain; there is none on the first bar.
Gains(closes) ==
  [i \in 1..Len(closes) |->
     IF i > 1 /\ closes[i] > closes[i - 1] THEN closes[i] - closes[i - 1] ELSE 0]
Losses(closes) ==
  [i \in 1..Len(closes) |->
     IF i > 1 /\ closes[i] < closes[i - 1] THEN closes[i - 1] - closes[i] ELSE 0]

wilderRSI(closes, period) ==
  LET gain == Smoothed(Gains(closes), period)
      loss == Smoothed(Losses(closes), period)
  IN [i \in 1..Len(closes) |->
        IF i <= period THEN <<0, 1>> ELSE rsiFromAverages(gain[i], loss[i])]

-----------------------------------------------------------------------------
(* Signals *)

\* On the bar where fast crosses slow, after the first at which both have a value.
crossoverSignals(fast, slow, from) ==
  [i \in 1..Len(fast) |->
     IF i <= from THEN "none"
     ELSE LET above == fast[i] > slow[i]
              wasAbove == fast[i - 1] > slow[i - 1]
          IN IF above = wasAbove THEN "none" ELSE IF above THEN "buy" ELSE "sell"]

\* On the bar where the RSI leaves a zone.
rsiZoneExitSignals(rsi, oversold, overbought, from) ==
  LET Over(i, n) == rsi[i][1] > n * rsi[i][2]
      Under(i, n) == rsi[i][1] < n * rsi[i][2]
  IN [i \in 1..Len(rsi) |->
        IF i < from THEN "none"
        ELSE IF ~Over(i - 1, oversold) /\ Over(i, oversold) THEN "buy"
        ELSE IF ~Under(i - 1, overbought) /\ Under(i, overbought) THEN "sell"
        ELSE "none"]

macdLine(closes, p) ==
  LET fast == ema(closes, p[1])
      slow == ema(closes, p[2])
  IN [i \in 1..Len(closes) |-> IF i >= p[2] THEN fast[i] - slow[i] ELSE 0]

\* The signal line is an average of the MACD line from its first value on.
signalLine(line, p) ==
  SubSeq(line, 1, p[2] - 1) \o ema(SubSeq(line, p[2], Len(line)), p[3])

closesOf(bars) == [i \in 1..Len(bars) |-> bars[i].close * Scale]

GenerateSignals(strategy, bars) ==
  LET p == strategy.params
      closes == closesOf(bars)
      line == macdLine(closes, p)
  IN IF WarmupBars(strategy) > Len(bars) THEN [i \in 1..Len(bars) |-> "none"]
     ELSE
     CASE strategy.kind = "ma_crossover" ->
            crossoverSignals(movingAverages(closes, p[1]), movingAverages(closes, p[2]), p[2])
       [] strategy.kind = "rsi" ->
            rsiZoneExitSignals(wilderRSI(closes, p[1]), p[2], p[3], p[1] + 2)
       [] strategy.kind = "macd" ->
            crossoverSignals(line, signalLine(line, p), p[2] + p[3] - 1)
=============================================================================

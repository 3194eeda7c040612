----------------------------- MODULE MCBacktest -----------------------------
(***************************************************************************)
(* TLC instance of a backtest: two symbols, and a third that is unknown.   *)
(***************************************************************************)
EXTENDS Backtest

\* Raw 11 is another spelling of symbol 1, raw 0 is blank.
MCUpper == [r \in {0, 1, 2, 3, 11} |-> IF r = 11 THEN 1 ELSE r]

\* A bar that opens where the day before closed, or at the other price.
Bars(days, closes, gap) ==
  [k \in 1..Len(days) |->
     [day |-> days[k], close |-> closes[days[k]],
      open |-> LET before == IF days[k] = 1 THEN 1 ELSE closes[days[k] - 1]
               IN IF gap THEN 3 - before ELSE before]]

All == <<1, 2, 3, 4, 5, 6, 7>>
Closes == [1..7 -> {1, 2}]

\* A bar more than market-data serves.
Long == {Bars(<<1, 2, 3, 4, 5, 6, 7, 8>>, closes, FALSE) :
           closes \in {<<1, 2, 1, 2, 1, 1, 2, 2>>, <<2, 1, 1, 2, 2, 1, 2, 1>>}}

Second == {Bars(All, <<1, 1, 2, 2, 1, 1, 2>>, FALSE), Bars(All, <<2, 2, 2, 1, 2, 1, 2>>, TRUE),
           Bars(<<1, 3, 4, 5, 6, 7>>, <<2, 1, 2, 1, 2, 1, 2>>, FALSE), <<>>}

MCMarkets ==
  {<<Bars(All, closes, gap), second, <<>>>> : closes \in Closes, gap \in BOOLEAN, second \in Second}
  \cup {<<first, second, <<>>>> : first \in Long, second \in Second \cup Long}

MA == [kind |-> "ma_crossover", params |-> <<2, 3>>]
RSI == [kind |-> "rsi", params |-> <<2, 30, 70>>]
MACD == [kind |-> "macd", params |-> <<2, 3, 2>>]
Request(symbols, strategy) ==
  [symbols |-> symbols, strategy |-> strategy, capital |-> 1536, start |-> 1, end |-> 8]

\* Runs that are accepted, and ones that are not: a duplicate, a blank, too many,
\* no known strategy, parameters whose sum wraps, no capital, a date that is none, and
\* a range of one day too few.
MCRequests ==
  {Request(<<2, 1>>, s) : s \in {MA, RSI, MACD}}
  \cup {Request(<<1, 2>>, MA), Request(<<11>>, MACD), Request(<<3, 2, 1>>, RSI)}
  \cup {[Request(<<1, 2>>, MA) EXCEPT !.start = 2, !.end = 6]}
  \cup {Request(<<1, 11>>, MA), Request(<<1, 0>>, MA), Request(<<1, 2, 3, 3>>, MA),
        Request(<<1>>, [kind |-> "other", params |-> <<>>]),
        Request(<<1>>, [kind |-> "macd", params |-> <<2, 31, 31>>]),
        Request(<<1>>, [kind |-> "macd", params |-> <<2, 6, 3>>]),
        Request(<<1>>, [kind |-> "rsi", params |-> <<31, 30, 70>>]),
        Request(<<1>>, [kind |-> "ma_crossover", params |-> <<2, 8>>]),
        [Request(<<1>>, MA) EXCEPT !.capital = 0], [Request(<<1>>, MA) EXCEPT !.start = 0],
        [Request(<<1>>, MA) EXCEPT !.end = 1], [Request(<<1>>, MA) EXCEPT !.end = 2],
        [Request(<<1>>, MA) EXCEPT !.start = 9, !.end = 10]}
=============================================================================

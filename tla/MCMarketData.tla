--------------------------- MODULE MCMarketData ---------------------------
(***************************************************************************)
(* TLC instance of the market-data service.                                *)
(***************************************************************************)
EXTENDS MarketData

CONSTANTS aapl, spy, bad

\* A symbol may be named twice, in any case, and may be no symbol at all.
MCUpper == (aapl :> aapl) @@ (spy :> spy) @@ (bad :> NoSymbol)
MCRawLists == {<<aapl>>, <<aapl, spy>>, <<spy, bad>>, <<aapl, aapl>>}
MCDays == 1..3

\* The two halves share no variable, so they are explored one at a time: the other
\* one stands still where it began.
OneAtATime ==
  \/ liveVars = <<0, PollInterval, FALSE, Idle, [s \in Symbols |-> NoPrice], NoQuote,
                  [s \in Symbols |-> 2]>>
  \/ ingestVars = <<Nothing, NoJob>>
=============================================================================

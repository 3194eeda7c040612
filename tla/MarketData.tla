----------------------------- MODULE MarketData -----------------------------
(***************************************************************************)
(* The market-data process: the poller and the request handlers, which     *)
(* share nothing but the process they live in.                             *)
(***************************************************************************)
EXTENDS LivePrices, Ingest

vars == <<liveVars, ingestVars>>

Init == LiveInit /\ IngestInit

Restart == PollerRestarts /\ IngestRestarts

Next ==
  \/ LiveNext /\ UNCHANGED ingestVars
  \/ IngestNext /\ UNCHANGED liveVars
  \/ Restart

Spec == Init /\ [][Next]_vars
=============================================================================

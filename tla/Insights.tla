------------------------------ MODULE Insights ------------------------------
(***************************************************************************)
(* ai-insights' portfolio report beside the trading engine that feeds it   *)
(* and invalidates it.  A report request looks in Redis, and on a miss     *)
(* reads the trade log, then the portfolio (two queries of its own), each  *)
(* over HTTP with no snapshot between them; it reconciles what the log     *)
(* derives with what the account holds, and stores the result with a TTL.  *)
(* Orders fill, and delete the cached report, between any two of those     *)
(* steps.                                                                  *)
(***************************************************************************)
EXTENDS TradingReads, FiniteSets

CONSTANTS Readers,            \* report requests; each runs once
          CashTolerance,      \* in ticks of the balance column
          QuantityTolerance   \* in ticks of a share

ASSUME InsightsAssumption ==
  CashTolerance \in Nat /\ QuantityTolerance \in Nat

VARIABLES
  rpc,     \* the step each report request is about to take
  view,    \* its locals: account, trade log, balance, holdings, report
  served,  \* the report it returned: <<>> until then, and after an error
  \* history, read by no step of the code
  settled,     \* fills answered with their cached report gone
  overlapped,  \* those that were answered while an older log was in use
  owed         \* fills of its account settled before each request began

readerVars == <<rpc, view, served>>
historyVars == <<settled, overlapped, owed>>
insightsVars == <<vars, readerVars, historyVars>>

Ids(log) == {log[i].order : i \in DOMAIN log}
Committed(a) == {r \in Requests : \E i \in DOMAIN trades :
                                    trades[i].order = r /\ trades[i].account = a}

\* The steps at which a report request works from a trade log it has read.
Holding == {"balance", "holdings", "build", "set"}

\* A rendered report, by what it was computed from.  torn is history: a trade
\* committed between the reads of the log and of the holdings.
Report(log, status, torn) == [basis |-> Ids(log), status |-> status, torn |-> torn]

NoView == [account |-> CHOOSE a \in Accounts : TRUE, log |-> <<>>, balance |-> 0,
           holdings |-> <<>>, torn |-> FALSE, out |-> Report(<<>>, "none", FALSE)]

InsightsInit ==
  /\ Init
  /\ rpc = [b \in Readers |-> "idle"]
  /\ view = [b \in Readers |-> NoView]
  /\ served = [b \in Readers |-> <<>>]
  /\ settled = {}
  /\ overlapped = {}
  /\ owed = [b \in Readers |-> {}]

-----------------------------------------------------------------------------
(* Reconciliation *)

\* Mutant: a sell spends cash.
SellsSpend(log) ==
  FoldLeft(LAMBDA c, t : c - t.quantity * t.price, StartingBalance * QtyScale, log)

\* What a replay of a trade log holds of a symbol.
Replayed(log, s) ==
  FoldLeft(LAMBDA q, t : IF t.symbol # s THEN q
                         ELSE IF t.side = "sell" THEN q - t.quantity
                         ELSE q + t.quantity,
           0, log)

\* The fold of applyTrade over the calendar and then past its end: cash in
\* QtyScale-ths of a tick, and the symbols left with a non-zero quantity.
DerivedCash(log) ==
  FoldLeft(LAMBDA c, t : IF t.side = "sell" THEN c + t.quantity * t.price
                         ELSE c - t.quantity * t.price,
           StartingBalance * QtyScale, log)
DerivedHoldings(log) ==
  LET left == {s \in Symbols : Replayed(log, s) # 0}
  IN [s \in left |-> Replayed(log, s)]

Within(x, y, tolerance) == x - y <= tolerance /\ y - x <= tolerance

\* The live positions Reconcile compares: those above the tolerance.
livePositions(holdings) ==
  LET kept == {s \in DOMAIN holdings : ~Within(holdings[s], 0, QuantityTolerance)}
  IN [s \in kept |-> holdings[s]]

Reconcile(log, cash, holdings) ==
  LET derived == DerivedHoldings(log)
      live == livePositions(holdings)
  IN /\ Within(DerivedCash(log), cash * QtyScale, CashTolerance * QtyScale)
     /\ DOMAIN derived = DOMAIN live
     /\ \A s \in DOMAIN live : Within(derived[s], live[s], QuantityTolerance)

-----------------------------------------------------------------------------
(* PortfolioInsights, one action per call that can wait *)

Step(b, l) == rpc' = [rpc EXCEPT ![b] = l]
Serve(b, report_) ==
  /\ served' = [served EXCEPT ![b] = <<report_>>]
  /\ view' = [view EXCEPT ![b] = NoView]
  /\ Step(b, "done")
\* An upstream failed: the request is answered with an error, which is never cached.
Fail(b) ==
  /\ Step(b, "failed")
  /\ view' = [view EXCEPT ![b] = NoView]
  /\ UNCHANGED served

\* GET insights:{user}.  A miss and a Redis error both mean compute.
Get(b) ==
  /\ rpc[b] = "idle"
  /\ \E a \in Accounts :
       /\ owed' = [owed EXCEPT ![b] = settled \cap Committed(a)]
       /\ \/ /\ report[a] # <<>>
             /\ Serve(b, report[a][1])
          \/ /\ view' = [view EXCEPT ![b].account = a]
             /\ Step(b, "trades")
             /\ UNCHANGED served
  /\ UNCHANGED <<vars, settled, overlapped>>

\* GET /trading/trades at the cap.  An empty log is a report of its own.
ReadTrades(b) ==
  /\ rpc[b] = "trades"
  /\ LET log == Trades(view[b].account, MaxTradeLimit)
     IN \/ /\ log # <<>>
           /\ view' = [view EXCEPT ![b].log = log]
           /\ Step(b, "balance")
           /\ UNCHANGED served
        \/ /\ log = <<>>
           /\ view' = [view EXCEPT ![b].out = Report(<<>>, "no_trades", FALSE)]
           /\ Step(b, "set")
           /\ UNCHANGED served
        \/ Fail(b)
  /\ UNCHANGED <<vars, historyVars>>

\* GET /trading/portfolio, first query: the account row.
ReadBalance(b) ==
  /\ rpc[b] = "balance"
  /\ \/ /\ view' = [view EXCEPT ![b].balance = balance[view[b].account]]
        /\ Step(b, "holdings")
        /\ UNCHANGED served
     \/ Fail(b)
  /\ UNCHANGED <<vars, historyVars>>

\* Its second query, in a transaction of its own: the positions.
ReadHoldings(b) ==
  /\ rpc[b] = "holdings"
  /\ LET a == view[b].account
     IN \/ /\ view' = [view EXCEPT ![b].holdings = ListHoldings(a),
                                   ![b].torn = Committed(a) # Ids(view[b].log)]
           /\ Step(b, "build")
           /\ UNCHANGED served
        \/ Fail(b)
  /\ UNCHANGED <<vars, historyVars>>

\* Fetch the bars, reconstruct, reconcile, compute the sections.  With no
\* calendar date in the window there is nothing to reconcile.
Build(b) ==
  /\ rpc[b] = "build"
  /\ LET v == view[b]
         status == IF Reconcile(v.log, v.balance, v.holdings) THEN "ok" ELSE "unverified"
     IN \/ \E s \in {status, "ok"} :
             /\ view' = [view EXCEPT ![b].out = Report(v.log, s, v.torn)]
             /\ Step(b, "set")
             /\ UNCHANGED served
        \/ Fail(b)
  /\ UNCHANGED <<vars, historyVars>>

\* SET insights:{user} with the TTL; a failed write is ignored.
Set(b) ==
  /\ rpc[b] = "set"
  /\ \/ report' = [report EXCEPT ![view[b].account] = <<view[b].out>>]
     \/ UNCHANGED report
  /\ Serve(b, view[b].out)
  /\ UNCHANGED <<ledgerVars, txVars, pc, frame, reply, historyVars>>

\* Mutant: the entry is stored without a TTL.
ExpireNever(a) == FALSE /\ UNCHANGED insightsVars

\* The TTL runs out.
Expire(a) ==
  /\ report[a] # <<>>
  /\ report' = [report EXCEPT ![a] = <<>>]
  /\ UNCHANGED <<ledgerVars, txVars, pc, frame, reply, readerVars, historyVars>>

\* The history of the fills a step of the trading engine settles.
Settles ==
  /\ LET now == {r \in Requests : /\ pc[r] = "invalidate" /\ pc'[r] = "done"
                                  /\ report'[Account(r)] = <<>>}
         older(b, r) == /\ rpc[b] \in Holding
                        /\ view[b].account = Account(r)
                        /\ r \notin Ids(view[b].log)
     IN /\ settled' = settled \cup now
        /\ overlapped' = overlapped \cup {r \in now : \E b \in Readers : older(b, r)}
  /\ UNCHANGED <<readerVars, owed>>

Trade == Next /\ Settles

-----------------------------------------------------------------------------
InsightsNext ==
  \/ Trade
  \/ \E b \in Readers :
       Get(b) \/ ReadTrades(b) \/ ReadBalance(b) \/ ReadHoldings(b) \/ Build(b) \/ Set(b)
  \/ \E a \in Accounts : Expire(a)

InsightsSpec == InsightsInit /\ [][InsightsNext]_insightsVars

\* Redis drops an entry whose time is up.  Every call PlaceOrder waits on is bounded:
\* market-data by its 3 s timeout, Redis by 500 ms, Postgres by serving the queue of
\* a row lock in turn.  Of the report requests nothing is assumed.
InsightsFairSpec ==
  /\ InsightsSpec
  /\ \A a \in Accounts : WF_insightsVars(Expire(a))
  /\ \A r \in Requests : WF_insightsVars(Progress(r) /\ Settles)

-----------------------------------------------------------------------------
(* Properties *)

\* A fill that was answered with its cached report gone, while no report
\* request held an older trade log, is in every report any later request is
\* served: the synchronous DEL before the answer does what Step 24 built it for.
QuietFillIsSeen ==
  \A b \in Readers : served[b] # <<>> => owed[b] \ overlapped \subseteq served[b][1].basis

\* What its proof adds.  Transactions that have begun have each an instant of their
\* own, the one their trades are ordered by.
Begun(r) == pc[r] \in {"lock"} \cup InTransaction \/ TradeRowsOf(r) # {}
DistinctInstants ==
  \A r \in Requests : Begun(r) =>
    /\ startedAt[r] < clock
    /\ \A q \in Requests : Begun(q) /\ startedAt[q] = startedAt[r] => q = r

\* A request whose fill is on its way to the DEL has it in the log of its own account,
\* and one that has settled never runs again.
SettlesOwn ==
  /\ \A r \in Requests : pc[r] = "invalidate" =>
       \A i \in TradeRowsOf(r) : trades[i].account = Account(r)
  /\ \A r \in settled : pc[r] = "done"

\* The settled fills of an account that no older log was in use beside.
Quiet(a) == (settled \cap Committed(a)) \ overlapped

\* Whatever a later request may be served has them: the cached report, the log a
\* request works from, and what it is about to store.
QuietIsKept ==
  /\ \A a \in Accounts : report[a] # <<>> => Quiet(a) \subseteq report[a][1].basis
  /\ \A b \in Readers : rpc[b] \in Holding => Quiet(view[b].account) \subseteq Ids(view[b].log)
  /\ \A b \in Readers : rpc[b] = "set" => view[b].out.basis = Ids(view[b].log)
  /\ \A b \in Readers : rpc[b] \in {"trades"} \cup Holding =>
       owed[b] \subseteq settled \cap Committed(view[b].account)

\* The shape of a report request's state: it has no log at first, and is served last.
ReaderTypeOK ==
  /\ rpc \in [Readers -> {"idle", "trades", "done", "failed"} \cup Holding]
  /\ DOMAIN view = Readers /\ DOMAIN served = Readers /\ DOMAIN owed = Readers
  /\ DOMAIN report = Accounts
  /\ \A b \in Readers :
       /\ DOMAIN view[b] = DOMAIN NoView /\ view[b].account \in Accounts
       /\ rpc[b] \in {"idle", "trades"} => view[b].log = <<>>
       /\ rpc[b] # "done" => served[b] = <<>>
  /\ settled \subseteq Requests

InsightsInv == ReaderTypeOK /\ DistinctInstants /\ SettlesOwn /\ QuietIsKept /\ QuietFillIsSeen

\* The objective of the invalidation, without that exception: after a
\* successful fill removed the cached report, the next request recomputes.
FillIsReflected ==
  \A b \in Readers : served[b] # <<>> => owed[b] \subseteq served[b][1].basis

\* Reconcile's refusal always has a cause: it is never served for an account
\* whose log, balance and positions were read without a trade in between.
RefusedOnlyIfTorn ==
  \A b \in Readers : served[b] # <<>> /\ served[b][1].status = "unverified" => served[b][1].torn

\* Whatever happened to its DEL (lost, failed, never reached, overtaken by an
\* older report), the TTL brings every fill into view for good.
FillEventuallyVisible ==
  \A r \in Requests : TradeRowsOf(r) # {} ~>
    [](\A a \in Accounts : report[a] # <<>> /\ r \in Committed(a) => r \in report[a][1].basis)
=============================================================================

--------------------------- MODULE TradingEngine ---------------------------
(***************************************************************************)
(* The trading engine: HTTP order requests that run PlaceOrder             *)
(* concurrently against one Postgres database.  An order is validated,     *)
(* priced by a network call made outside any transaction, and executed in  *)
(* one transaction that holds the account row locked (SELECT ... FOR       *)
(* UPDATE).  Writes are staged in the transaction and land at COMMIT.  A   *)
(* fill then deletes the user's cached portfolio report.  Statements fail, *)
(* acknowledgements get lost, and the process crashes.                     *)
(*                                                                         *)
(* A request runs once; a client that retries sends a new request.         *)
(***************************************************************************)
EXTENDS Money, Sequences

CONSTANTS Accounts, Symbols, Requests, Prices, MaxQuantity, StartingBalance,
          RawSymbols,     \* symbol strings a caller may send
          Upper,          \* their trimmed, upper-cased form; NoSymbol if empty or too long
          NoSymbol,
          RawSides,       \* side strings a caller may send
          RawQuantities,  \* quantities a caller may send, in SnapScale-ths of a tick
          SnapScale,
          NoRequest       \* the owner of a free row lock

ASSUME EngineAssumption ==
  /\ Accounts # {} /\ Symbols # {}
  /\ Prices \subseteq Nat \ {0}
  /\ MaxQuantity \in Nat \ {0}
  /\ StartingBalance \in Nat
  /\ Upper \in [RawSymbols -> Symbols \cup {NoSymbol}]
  /\ NoSymbol \notin Symbols
  /\ RawQuantities \subseteq Int
  /\ SnapScale \in Nat \ {0}
  /\ NoRequest \notin Requests

VARIABLES
  \* Postgres, committed
  balance, positions, orders, trades,
  lock,       \* owner of each account's row lock
  clock,      \* now(): one tick per transaction begun
  \* one goroutine per request
  pc,         \* the step the request is about to take
  frame,      \* its locals: validated order, price fetched for it, balance read
              \* under the lock, uncommitted writes; gone once it returns
  startedAt,  \* now() in the request's transaction: executed_at and created_at
  reply,      \* the answer sent to the client
  \* Redis
  report      \* the cached portfolio report of each account, <<>> if none

ledgerVars == <<balance, positions, orders, trades>>
txVars == <<lock, clock, startedAt>>
vars == <<ledgerVars, txVars, pc, frame, reply, report>>

\* The atomic ledger the engine promises: its state is what is committed in
\* Postgres, and an order of it is a request.
Promise == INSTANCE Ledger WITH Requests <- Requests, balance <- balance,
             positions <- positions, orders <- orders, trades <- trades

Order == [account : Accounts, symbol : Symbols,
          side : Promise!Sides, quantity : Promise!Quantities]

\* Locals that no request has set.
ZeroWrites == [status |-> "none", reason |-> "none", balance |-> 0,
               qty |-> 0, avg |-> 0, realized |-> <<>>]
ZeroFrame == [order |-> CHOOSE o \in Order : TRUE, price |-> 0, read |-> 0,
              staged |-> ZeroWrites]

InFlight == {"price", "record", "begin", "lock", "execute", "commit", "invalidate"}
InTransaction == {"execute", "commit"}   \* holding the account row's lock

Init ==
  /\ Promise!Init
  /\ lock = [a \in Accounts |-> NoRequest]
  /\ clock = 0
  /\ pc = [r \in Requests |-> "idle"]
  /\ frame = [r \in Requests |-> ZeroFrame]
  /\ startedAt = [r \in Requests |-> 0]
  /\ reply = [r \in Requests |-> "none"]
  /\ report = [a \in Accounts |-> <<>>]

-----------------------------------------------------------------------------
(* Helpers *)

Goto(r, l) == pc' = [pc EXCEPT ![r] = l]
Answer(r, answer) ==
  /\ Goto(r, "done")
  /\ reply' = [reply EXCEPT ![r] = answer]
  /\ frame' = [frame EXCEPT ![r] = ZeroFrame]

\* Mutant: no upper bound on the quantity.
ValidUnbounded(raw) ==
  /\ Upper[raw.symbol] # NoSymbol
  /\ raw.side \in Promise!Sides
  /\ raw.quantity >= SnapScale

\* Validation refuses a quantity outside 1 tick .. MaxQuantity, then snaps it.
Valid(raw) ==
  /\ Upper[raw.symbol] # NoSymbol
  /\ raw.side \in Promise!Sides
  /\ raw.quantity >= SnapScale
  /\ raw.quantity <= MaxQuantity * SnapScale

validateOrder(a, raw) ==
  [account |-> a, symbol |-> Upper[raw.symbol], side |-> raw.side,
   quantity |-> RoundNat(raw.quantity, SnapScale)]

Account(r) == frame[r].order.account
Symbol(r) == frame[r].order.symbol
Side(r) == frame[r].order.side
Quantity(r) == frame[r].order.quantity
Price(r) == frame[r].price
Held(r) == positions[Account(r)][Symbol(r)]

insertOrder(r, status, filledPrice, reason) ==
  orders' = Append(orders,
    Promise!OrderRow(r, Account(r), Symbol(r), Side(r), Quantity(r),
                     status, filledPrice, reason))

insertTrade(r, realized, newBalance) ==
  trades' = Append(trades,
    Promise!TradeRow(r, Account(r), Symbol(r), Side(r), Quantity(r),
                     Price(r), realized, newBalance))

\* Mutant: the transaction is abandoned with the row still locked.
ReleaseNothing(r) == lock' = lock

Release(r) ==
  lock' = [a \in Accounts |-> IF lock[a] = r THEN NoRequest ELSE lock[a]]

-----------------------------------------------------------------------------
(* PlaceOrder, one action per step between two calls that can wait *)

\* Decode, validate, resolve the account.  A malformed order, or an account
\* that cannot be read, is answered at once and leaves no trace.
PlaceOrder(r) ==
  /\ pc[r] = "idle"
  /\ \E a \in Accounts, raw \in [symbol : RawSymbols, side : RawSides, quantity : RawQuantities] :
       \/ /\ Valid(raw)
          /\ frame' = [frame EXCEPT ![r].order = validateOrder(a, raw)]
          /\ Goto(r, "price")
          /\ UNCHANGED reply
       \/ /\ ~Valid(raw)
          /\ Answer(r, "invalid_request")
       \/ /\ Valid(raw)
          /\ Answer(r, "internal_error")
  /\ UNCHANGED <<ledgerVars, txVars, report>>

\* The market-data call: a price, a 404, or anything else that goes wrong.
LatestPrice(r) ==
  /\ pc[r] = "price"
  /\ \/ \E p \in Prices : frame' = [frame EXCEPT ![r].price = p] /\ Goto(r, "begin")
     \/ Goto(r, "record") /\ UNCHANGED frame
  /\ UNCHANGED <<ledgerVars, txVars, reply, report>>

\* The audit row of an order that never got a price: one INSERT of its own, no
\* lock.  If it fails the caller still gets the price error, and no row exists.
recordRejection(r) ==
  /\ pc[r] = "record"
  /\ \E reason \in {"symbol_unavailable", "upstream_unavailable"} :
       /\ Answer(r, reason)
       /\ \/ /\ insertOrder(r, "rejected", <<>>, <<reason>>)
             /\ startedAt' = [startedAt EXCEPT ![r] = clock]
             /\ clock' = clock + 1
          \/ UNCHANGED <<orders, startedAt, clock>>
  /\ UNCHANGED <<balance, positions, trades, lock, report>>

\* BEGIN fixes the transaction's now(), before any lock is waited for.
Begin(r) ==
  /\ pc[r] = "begin"
  /\ startedAt' = [startedAt EXCEPT ![r] = clock]
  /\ clock' = clock + 1
  /\ Goto(r, "lock")
  /\ UNCHANGED <<ledgerVars, lock, frame, reply, report>>

\* Mutant: SELECT balance without FOR UPDATE.
ReadAccount(r) ==
  /\ pc[r] = "lock"
  /\ lock' = [lock EXCEPT ![Account(r)] = r]
  /\ frame' = [frame EXCEPT ![r].read = balance[Account(r)]]
  /\ Goto(r, "execute")
  /\ UNCHANGED <<ledgerVars, clock, startedAt, reply, report>>

\* SELECT balance ... FOR UPDATE: waits until no transaction holds the row.
LockAccount(r) ==
  /\ pc[r] = "lock"
  /\ lock[Account(r)] = NoRequest
  /\ lock' = [lock EXCEPT ![Account(r)] = r]
  /\ frame' = [frame EXCEPT ![r].read = balance[Account(r)]]
  /\ Goto(r, "execute")
  /\ UNCHANGED <<ledgerVars, clock, startedAt, reply, report>>

\* What a transaction is about to commit, from the balance it read and the
\* position it sees.
Reject(reason) == [status |-> "rejected", reason |-> reason, balance |-> 0,
                   qty |-> 0, avg |-> 0, realized |-> <<>>]

executeBuy(r) ==
  IF Price(r) * Quantity(r) > frame[r].read * CashScale
  THEN Reject("insufficient_balance")
  ELSE [status |-> "filled", reason |-> "none",
        balance |-> BalanceAfterBuy(frame[r].read, Quantity(r), Price(r)),
        qty |-> Held(r).qty + Quantity(r),
        avg |-> WeightedAvgCost(Held(r).qty, Held(r).avg, Quantity(r), Price(r)),
        realized |-> <<>>]

executeSell(r) ==
  IF Quantity(r) > Held(r).qty
  THEN Reject("insufficient_position")
  ELSE [status |-> "filled", reason |-> "none",
        balance |-> BalanceAfterSell(frame[r].read, Quantity(r), Price(r)),
        qty |-> Held(r).qty - Quantity(r),
        avg |-> Held(r).avg,
        realized |-> <<RealizedPL(Held(r).avg, Price(r), Quantity(r))>>]

Writes(r) == IF Side(r) = "buy" THEN executeBuy(r) ELSE executeSell(r)

ExecuteOrder(r) ==
  /\ pc[r] = "execute"
  /\ frame' = [frame EXCEPT ![r].staged = Writes(r)]
  /\ Goto(r, "commit")
  /\ UNCHANGED <<ledgerVars, txVars, reply, report>>

\* Mutant: a fill commits without its position row.
ApplyForgetsPosition(r) ==
  LET w == frame[r].staged
  IN /\ \/ /\ w.status = "filled"
           /\ balance' = [balance EXCEPT ![Account(r)] = w.balance]
           /\ insertOrder(r, "filled", <<StoredPrice(Price(r))>>, <<>>)
           /\ insertTrade(r, w.realized, w.balance)
           /\ UNCHANGED positions
        \/ /\ w.status = "rejected"
           /\ insertOrder(r, "rejected", <<>>, <<w.reason>>)
           /\ UNCHANGED <<balance, positions, trades>>
     /\ Release(r)

\* COMMIT makes the staged rows visible together and releases the lock.
Apply(r) ==
  LET w == frame[r].staged
  IN /\ \/ /\ w.status = "filled"
           /\ balance' = [balance EXCEPT ![Account(r)] = w.balance]
           /\ positions' = [positions EXCEPT ![Account(r)][Symbol(r)] =
                              [qty |-> w.qty, avg |-> w.avg]]
           /\ insertOrder(r, "filled", <<StoredPrice(Price(r))>>, <<>>)
           /\ insertTrade(r, w.realized, w.balance)
        \/ /\ w.status = "rejected"
           /\ insertOrder(r, "rejected", <<>>, <<w.reason>>)
           /\ UNCHANGED <<balance, positions, trades>>
     /\ Release(r)

\* Mutant: a rejection returns before COMMIT, so the deferred rollback undoes its row.
CommitDropsRejection(r) ==
  /\ pc[r] = "commit"
  /\ IF frame[r].staged.status = "filled"
     THEN Apply(r) /\ Goto(r, "invalidate") /\ UNCHANGED <<reply, frame>>
     ELSE Release(r) /\ UNCHANGED ledgerVars /\ Answer(r, frame[r].staged.reason)
  /\ UNCHANGED <<clock, startedAt, report>>

\* The acknowledged commit: a fill goes on to invalidate the cached report, a
\* rejection is answered.
Commit(r) ==
  /\ pc[r] = "commit"
  /\ Apply(r)
  /\ IF frame[r].staged.status = "filled"
     THEN Goto(r, "invalidate") /\ UNCHANGED <<reply, frame>>
     ELSE Answer(r, frame[r].staged.reason)
  /\ UNCHANGED <<clock, startedAt, report>>

\* The commit lands but its acknowledgement does not arrive: PlaceOrder sees an
\* error, answers 500 and never reaches the invalidation.
CommitUnacknowledged(r) ==
  /\ pc[r] = "commit"
  /\ Apply(r)
  /\ Answer(r, "internal_error")
  /\ UNCHANGED <<clock, startedAt, report>>

\* A statement of the transaction fails, or its context is cancelled: the
\* deferred Rollback undoes everything, and no row records the attempt.
Rollback(r) ==
  /\ pc[r] \in {"begin", "lock"} \cup InTransaction
  /\ Release(r)
  /\ Answer(r, "internal_error")
  /\ UNCHANGED <<ledgerVars, clock, startedAt, report>>

\* DEL insights:{user}, on a context the client cannot cancel.  Its failure is
\* logged and does not change the answer.
invalidateInsights(r) ==
  /\ pc[r] = "invalidate"
  /\ \/ report' = [report EXCEPT ![Account(r)] = <<>>]
     \/ UNCHANGED report
  /\ Answer(r, "filled")
  /\ UNCHANGED <<ledgerVars, txVars>>

\* The process dies: its goroutines vanish unanswered, Postgres rolls their
\* transactions back and frees their locks.
Crash ==
  /\ \E r \in Requests : pc[r] \in InFlight
  /\ pc' = [r \in Requests |-> IF pc[r] \in InFlight THEN "crashed" ELSE pc[r]]
  /\ frame' = [r \in Requests |-> ZeroFrame]
  /\ lock' = [a \in Accounts |-> NoRequest]
  /\ UNCHANGED <<ledgerVars, clock, startedAt, reply, report>>

-----------------------------------------------------------------------------
\* Steps a request takes unless something goes wrong.
Progress(r) ==
  \/ LatestPrice(r) \/ recordRejection(r) \/ Begin(r) \/ LockAccount(r)
  \/ ExecuteOrder(r) \/ Commit(r) \/ invalidateInsights(r)

Next ==
  \/ \E r \in Requests :
       PlaceOrder(r) \/ Progress(r) \/ CommitUnacknowledged(r) \/ Rollback(r)
  \/ Crash

Spec == Init /\ [][Next]_vars

-----------------------------------------------------------------------------
(* Properties *)

Answers == {"none", "filled", "invalid_request", "internal_error"} \cup Promise!RejectionReasons
Writeset == [status : {"none", "filled", "rejected"},
             reason : {"none", "insufficient_balance", "insufficient_position"},
             balance : Int, qty : Int, avg : Int, realized : Seq(Int)]
Frame == [order : Order, price : Prices \cup {0}, read : Int, staged : Writeset]
OrderRows == [id : Requests, account : Accounts, symbol : Symbols,
              side : Promise!Sides, quantity : Promise!Quantities,
              status : {"filled", "rejected"}, filledPrice : Seq(Int),
              reason : Seq(Promise!RejectionReasons)]
TradeRows == [order : Requests, account : Accounts, symbol : Symbols,
              side : Promise!Sides, quantity : Promise!Quantities, price : Int,
              realized : Seq(Int), fill : Prices, balance : Int]

\* Type invariant of the engine's state.
TypeOK ==
  /\ balance \in [Accounts -> Int]
  /\ positions \in [Accounts -> [Symbols -> [qty : Int, avg : Int]]]
  /\ orders \in Seq(OrderRows)
  /\ trades \in Seq(TradeRows)
  /\ lock \in [Accounts -> Requests \cup {NoRequest}]
  /\ clock \in Nat
  /\ pc \in [Requests -> {"idle", "done", "crashed"} \cup InFlight]
  /\ frame \in [Requests -> Frame]
  /\ startedAt \in [Requests -> Nat]
  /\ reply \in [Requests -> Answers]

\* No fill leaves an account overdrawn or a position below zero: what the proofs
\* need of a balance that is read.
NoOverdraft ==
  \A a \in Accounts :
    balance[a] >= 0 /\ \A s \in Symbols : positions[a][s].qty >= 0

\* What a trade row leaves of an account's cash, and of its shares of a symbol.
CashLeft(a, cash, row) ==
  IF row.account # a THEN cash
  ELSE IF row.side = "buy" THEN BalanceAfterBuy(cash, row.quantity, row.fill)
  ELSE BalanceAfterSell(cash, row.quantity, row.fill)

SharesLeft(a, s, shares, row) ==
  IF row.account # a \/ row.symbol # s THEN shares
  ELSE IF row.side = "buy" THEN shares + row.quantity
  ELSE shares - row.quantity

\* What the log alone says was left after each of its rows: the fills replayed
\* one after the other, each spending what the one before it left.
CashAfter(a) ==
  LET cash[n \in 0..Len(trades)] ==
        IF n = 0 THEN StartingBalance ELSE CashLeft(a, cash[n - 1], trades[n])
  IN cash

SharesAfter(a, s) ==
  LET shares[n \in 0..Len(trades)] ==
        IF n = 0 THEN 0 ELSE SharesLeft(a, s, shares[n - 1], trades[n])
  IN shares

\* The account's fill at place n of the log spent only what the fills before it had left.
Covered(a, n) ==
  LET row == trades[n]
  IN IF row.side = "buy"
     THEN row.fill * row.quantity <= CashAfter(a)[n - 1] * CashScale
     ELSE row.quantity <= SharesAfter(a, row.symbol)[n - 1]

\* No cash and no share is spent twice, and none is lost: every fill on record was
\* covered by what the fills before it left, not by what they had already spent,
\* and the account and position rows are what replaying the log leaves.  Two orders
\* that both read the row before either wrote it break this although every value
\* they write is plausible.
SpentOnce ==
  \A a \in Accounts :
    /\ balance[a] = CashAfter(a)[Len(trades)]
    /\ \A s \in Symbols : positions[a][s].qty = SharesAfter(a, s)[Len(trades)]
    /\ \A n \in DOMAIN trades : trades[n].account = a => Covered(a, n)

\* However requests interleave, fail and crash, the committed tables change as
\* the atomic ledger allows: FOR UPDATE makes the engine equivalent to running
\* one order at a time.
Serializable == Promise!Spec

\* The rows the request r left in the two tables.
OrderRowsOf(r) == {i \in DOMAIN orders : orders[i].id = r}
TradeRowsOf(r) == {i \in DOMAIN trades : trades[i].order = r}

\* The rows and the answer of one request are consistent with each other.
Agrees(r) ==
  LET filled(i) == orders[i].status = "filled"
      refused(i) == orders[i].status = "rejected" /\ orders[i].reason = <<reply[r]>>
  IN /\ \A i, j \in OrderRowsOf(r) : i = j
     /\ \A i, j \in TradeRowsOf(r) : i = j
     /\ TradeRowsOf(r) # {} <=> \E i \in OrderRowsOf(r) : filled(i)
     /\ reply[r] = "filled" => TradeRowsOf(r) # {}
     /\ reply[r] \in {"insufficient_balance", "insufficient_position"} =>
          \E i \in OrderRowsOf(r) : refused(i)
     /\ reply[r] \in {"symbol_unavailable", "upstream_unavailable"} =>
          \A i \in OrderRowsOf(r) : refused(i)
     /\ reply[r] = "invalid_request" => OrderRowsOf(r) = {}

\* The answer and the database agree.  201 means one filled order and one
\* trade; a business rejection is on record with the reason the caller was
\* given and moved nothing; an order without a price moved nothing; an invalid
\* order left nothing.  Only a 500, or no answer at all, leaves it open whether
\* the order filled, and even then it filled at most once.
AnswersMatchLedger == \A r \in Requests : Agrees(r)

\* Between taking the account row's lock and committing, what a transaction
\* read is still what is committed, and what it staged is what it would still
\* decide: the reason a computed balance may be written back over the row and
\* the position may be read without a lock of its own.
LockProtectsReads ==
  /\ \A a \in Accounts : lock[a] # NoRequest =>
       pc[lock[a]] \in InTransaction /\ Account(lock[a]) = a
  /\ \A r \in Requests : pc[r] \in InTransaction =>
       lock[Account(r)] = r /\ frame[r].read = balance[Account(r)]
  /\ \A r \in Requests : pc[r] = "commit" => frame[r].staged = Writes(r)

\* What the proof of serializability adds to the lock: a transaction runs with a
\* price market-data quoted, decides between filling and rejecting, and its
\* request has no row on record before it commits.
Priced == \A r \in Requests : pc[r] \in {"begin", "lock"} \cup InTransaction => Price(r) \in Prices
Unrecorded ==
  \A r \in Requests :
    pc[r] \in {"idle", "price", "record", "begin", "lock"} \cup InTransaction => OrderRowsOf(r) = {}

EngineInv == TypeOK /\ NoOverdraft /\ LockProtectsReads /\ Priced /\ Unrecorded

\* What the proof about the answers adds: nobody is answered before the last step,
\* and what is on its way to the invalidation has been filled.
AnsweredLast ==
  \A r \in Requests : /\ pc[r] # "done" => reply[r] = "none"
                      /\ pc[r] = "invalidate" => TradeRowsOf(r) # {}

AnswersInv == AnswersMatchLedger /\ AnsweredLast

\* Every order request is answered or dies with its process: nobody waits
\* forever on the row lock, whoever held it.
EveryOrderEnds == \A r \in Requests : pc[r] = "price" ~> pc[r] \in {"done", "crashed"}
=============================================================================

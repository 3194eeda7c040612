------------------------------- MODULE Ingest -------------------------------
(***************************************************************************)
(* The market-data service's history.  An ingest request pages through     *)
(* Alpaca's daily bars and upserts them into Postgres, symbol by symbol.   *)
(***************************************************************************)
EXTENDS Integers, Sequences, FiniteSets, SequencesExt

CONSTANTS Tickers,        \* the symbols that exist
          RawLists,       \* lists of raw symbols an ingest request may name
          Upper,          \* a raw symbol's trimmed, upper-cased form; NoSymbol if invalid
          NoSymbol,
          Days,           \* trading days with a bar at Alpaca
          PageSize        \* bars per page

ASSUME IngestAssumption ==
  /\ Days \subseteq Nat /\ PageSize \in Nat \ {0}
  /\ Upper \in [DOMAIN Upper -> Tickers \cup {NoSymbol}]
  /\ RawLists \subseteq Seq(DOMAIN Upper) \ {<<>>}   \* none named means the watchlist

VARIABLES
  rows,      \* Postgres: the days with a bar, per symbol
  job        \* the ingest request in progress

ingestVars == <<rows, job>>

\* What the table held before the request (job.before), and which results were
\* recorded of a batch that Postgres then did not commit (job.lost), is history, read
\* by no step of the code.
Nothing == [s \in Tickers |-> {}]
NoJob == [at |-> "idle", list |-> <<>>, range |-> {}, got |-> {}, results |-> <<>>,
          before |-> Nothing, lost |-> {}]

IngestInit ==
  /\ rows = Nothing
  /\ job = NoJob

-----------------------------------------------------------------------------
Result(s, what) == [symbol |-> s, what |-> what]
Upstream(results) == Cardinality({i \in DOMAIN results : results[i].what = "upstream"})

\* The request: a list of symbols and a range of days, each symbol in turn.  An
\* end before the start is not refused: the range is empty.  A body or a date that
\* does not parse is refused before anything is fetched.
Ingest ==
  /\ job.at \in {"idle", "200", "400", "502"}
  /\ \/ \E list \in RawLists, start, end \in Days :
          job' = [NoJob EXCEPT !.at = "fetch", !.list = list, !.before = rows,
                               !.range = {d \in Days : start <= d /\ d <= end}]
     \/ job' = [NoJob EXCEPT !.at = "400", !.before = rows]
  /\ UNCHANGED rows

Current == Upper[job.list[Len(job.results) + 1]]

\* Mutant: every kind of failure counts as an upstream one.
RecordAnyFailure(what, lost) ==
  LET results == Append(job.results, Result(Current, what))
      failed == Cardinality({i \in DOMAIN results : results[i].what # "ingested"})
  IN job' = [job EXCEPT !.at = IF Len(results) < Len(job.list) THEN "fetch"
                               ELSE IF failed = Len(job.list) THEN "502" ELSE "200",
                        !.got = {}, !.results = results, !.lost = lost]

\* The symbol's result is appended; after the last one the request is answered,
\* as an upstream failure iff every symbol was one.
Record(what, lost) ==
  LET results == Append(job.results, Result(Current, what))
  IN job' = [job EXCEPT !.at = IF Len(results) < Len(job.list) THEN "fetch"
                               ELSE IF Upstream(results) = Len(job.list) THEN "502" ELSE "200",
                        !.got = {}, !.results = results, !.lost = lost]

\* A page: the next bars of the range, in ascending order.
FetchBarsPage ==
  LET rest == job.range \ job.got
  IN {d \in rest : Cardinality({e \in rest : e <= d}) <= PageSize}

\* GetBars, one page: the last one ends it, an error of any page drops them all.
GetBars ==
  /\ job.at = "fetch" /\ Current # NoSymbol
  /\ UNCHANGED rows
  /\ LET got == job.got \cup FetchBarsPage
     IN \/ job' = [job EXCEPT !.got = got, !.at = IF got = job.range THEN "store" ELSE "fetch"]
        \/ Record("upstream", job.lost)

InvalidSymbol ==
  /\ job.at = "fetch" /\ Current = NoSymbol
  /\ UNCHANGED rows
  /\ Record("invalid", job.lost)

\* Mutant: the bars are inserted one statement at a time.
UpsertBarsOneByOne ==
  /\ job.at = "store"
  /\ \E bars \in SUBSET job.got :
       /\ rows' = [rows EXCEPT ![Current] = @ \cup bars]
       /\ Record(IF bars = job.got THEN "ingested" ELSE "not_stored", job.lost)

\* UpsertBars: one batch, one implicit transaction, committed at its Sync.  A
\* failure the results show may be of the acknowledgement only; one at the Sync
\* comes after every result was read, from the deferred Close, and is dropped.
UpsertBars ==
  /\ job.at = "store"
  /\ \/ /\ rows' = [rows EXCEPT ![Current] = @ \cup job.got]
        /\ \E what \in {"ingested", "not_stored"} : Record(what, job.lost)
     \/ /\ job.got # {} /\ UNCHANGED rows
        /\ \/ Record("not_stored", job.lost)
           \/ Record("ingested", job.lost \cup {Len(job.results) + 1})

-----------------------------------------------------------------------------
IngestNext == Ingest \/ GetBars \/ InvalidSymbol \/ UpsertBars

\* The process restarts and the request is lost; what it stored stays.
IngestRestarts == job' = [NoJob EXCEPT !.before = rows] /\ UNCHANGED rows

-----------------------------------------------------------------------------
(* Correctness *)

\* History has no holes of the service's own making: a symbol's days change only
\* by the whole range a request asked for, whichever page or batch fails and
\* wherever the process restarts.
RangesAreWhole ==
  [][\A s \in Tickers : rows'[s] # rows[s] => rows'[s] = rows[s] \cup job.range]_ingestVars

\* The answer to an ingest tells what happened: "upstream unavailable" means that
\* nothing was stored; whatever changed is reported of its symbol, as ingested or as
\* not stored; and a symbol reported as ingested has its whole range, however its
\* batch and those of the other symbols failed, unless Postgres refused the batch
\* after its last result.
AnswerIsHonest ==
  /\ job.at = "502" => rows = job.before
  /\ \A s \in Tickers : rows[s] # job.before[s] =>
       \E i \in DOMAIN job.results :
         job.results[i].symbol = s /\ job.results[i].what \in {"ingested", "not_stored"}
  /\ \A i \in DOMAIN job.results :
       job.results[i].what = "ingested" /\ i \notin job.lost =>
         job.range \subseteq rows[job.results[i].symbol]

-----------------------------------------------------------------------------
(* The inductive invariant, for the proofs *)

Whats == {"ingested", "not_stored", "upstream", "invalid"}
Results == [symbol : Tickers \cup {NoSymbol}, what : Whats]

Jobs ==
  [at : {"idle", "fetch", "store", "200", "400", "502"}, list : RawLists \cup {<<>>},
   range : SUBSET Days, got : SUBSET Days, results : Seq(Results),
   before : [Tickers -> SUBSET Days], lost : SUBSET Nat]

IngestType ==
  /\ rows \in [Tickers -> SUBSET Days]
  /\ job \in Jobs

\* A request under way has symbols left, and goes to the store with the whole
\* range of one that exists.
UnderWay ==
  /\ job.at \in {"fetch", "store"} => job.list # <<>> /\ Len(job.results) < Len(job.list)
  /\ job.got \subseteq job.range
  /\ job.at = "store" => job.got = job.range /\ Current # NoSymbol
  /\ \A i \in job.lost : i <= Len(job.results)

\* Whatever is reported as ingested is of a symbol that exists.
IngestedExist ==
  \A i \in DOMAIN job.results :
    job.results[i].what = "ingested" => job.results[i].symbol \in Tickers

IngestInv == IngestType /\ UnderWay /\ IngestedExist /\ AnswerIsHonest
=============================================================================

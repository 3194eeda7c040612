----------------------------- MODULE Narrative -----------------------------
(***************************************************************************)
(* The written summary of a portfolio: GET /insights/portfolio/narrative   *)
(* with its cache and its daily allowance in Redis, the paid calls to the  *)
(* language model, and the frontend's useNarrative hook and the view that  *)
(* decides whether the prose it holds may stand beside the report on the   *)
(* screen.                                                                 *)
(*                                                                         *)
(* A report is its content: two requests that compute equal reports get    *)
(* equal hashes.  Any number of requests are in flight, each in a slot.    *)
(***************************************************************************)
EXTENDS Drafts

CONSTANTS Users, viewer,      \* viewer: the user whose browser is modelled
          Reports,            \* [hash, computed]: what portfolios may look like
          RawDrafts,          \* what the model may write: a function from sections
          Slots,
          DailyGenerationCap,
          MaxDay, MaxAsks,    \* bounds on the days and on the requests
          MaxIds              \* bound on the ids the hook hands out

ASSUME NarrativeAssumption ==
  /\ viewer \in Users
  /\ IsFiniteSet(Slots)
  /\ \A raw \in RawDrafts : \A name \in DOMAIN raw : raw[name] \in Seq(Lexemes)
  /\ DailyGenerationCap \in Nat /\ MaxDay \in Nat /\ MaxAsks \in Nat /\ MaxIds \in Nat

VARIABLES
  day,
  report,     \* the report each user's portfolio has now
  generator,  \* whether there is one; a Redis that is not configured always fails
  cache,      \* Redis: narrative:{user}:{hash}, as [user, hash, prose]
  count,      \* Redis: narrative:count:{user}:{day}
  req,        \* the requests being served
  asks,
  hook,       \* useNarrative: its refs, its state, its calls not yet settled
  screen,     \* the report the page shows
  \* history, read by no step of the code
  calls       \* per user and day, model calls made on that day's allowance

serverVars == <<cache, count, req, calls>>
vars == <<day, report, generator, serverVars, asks, hook, screen>>

NoProse == [user |-> viewer, hash |-> "none", clean |-> TRUE]
NoAnswer == [state |-> "none", reason |-> "none", hash |-> "none", prose |-> NoProse]
Free == [at |-> "free", user |-> viewer, report |-> [hash |-> "none", computed |-> {}],
         day |-> 0, tries |-> 0, answer |-> NoAnswer]
\* offered: the rendered page has the control that calls regenerate.
NewHook == [mounted |-> FALSE, status |-> "loading", requestId |-> 0, inFlight |-> FALSE,
            inFlightId |-> 0, calls |-> {}, narrative |-> NoAnswer, offered |-> FALSE]

Init ==
  /\ day = 0
  /\ report \in [Users -> Reports]
  /\ generator \in BOOLEAN
  /\ cache = {}
  /\ count = [u \in Users |-> [d \in 0..MaxDay |-> 0]]
  /\ req = [s \in Slots |-> Free]
  /\ asks = 0
  /\ hook = NewHook
  /\ screen = report[viewer]
  /\ calls = [u \in Users |-> [d \in 0..MaxDay |-> 0]]

-----------------------------------------------------------------------------
(* The handler *)

Vocab(s) == Placeholders(req[s].report)

\* A request comes in and the report is computed; a report that fails is an error.
Ask(s, u) ==
  /\ req[s].at = "free" /\ asks < MaxAsks
  /\ asks' = asks + 1
  /\ \E failed \in BOOLEAN :
       req' = [req EXCEPT ![s] =
         [Free EXCEPT !.at = IF failed THEN "answered" ELSE "cache", !.user = u,
                      !.report = report[u],
                      !.answer.state = IF failed THEN "error" ELSE "none"]]

Answer(s, state, reason, prose) ==
  [Free EXCEPT !.at = "answered",
               !.answer = [state |-> state, reason |-> reason,
                           hash |-> req[s].report.hash, prose |-> prose]]
writeNarrative(s, prose) == req' = [req EXCEPT ![s] = Answer(s, "ok", "none", prose)]
writeUnavailable(s, reason) == req' = [req EXCEPT ![s] = Answer(s, "unavailable", reason, NoProse)]

\* Mutant: entries are looked up by their user alone.
CachedByUser(s) == {e \in cache : e.user = req[s].user}

CachedNarrative(s) == {e \in cache : e.user = req[s].user /\ e.hash = req[s].report.hash}

\* After a miss: nothing to phrase, or no generator, ends the request unpaid.
GetMiss(s) ==
  IF DOMAIN Vocab(s) = {} THEN writeUnavailable(s, "nothing")
  ELSE IF ~generator THEN writeUnavailable(s, "notConfigured")
  ELSE req' = [req EXCEPT ![s].at = "allow"]

\* The cache: a hit is served whatever the generator's state; an error is a miss.
CacheGet(s) ==
  /\ req[s].at = "cache"
  /\ \/ \E e \in CachedNarrative(s) : writeNarrative(s, e.prose)
     \/ GetMiss(s)
  /\ UNCHANGED <<cache, count, calls>>

\* Mutant: a counter that cannot be reached lets the request through.
AllowFailsOpen(s) ==
  /\ req[s].at = "allow"
  /\ LET n == count[req[s].user][day] + 1
     IN \/ /\ count' = [count EXCEPT ![req[s].user][day] = n]
           /\ IF n <= DailyGenerationCap
              THEN req' = [req EXCEPT ![s].at = "draft", ![s].day = day]
              ELSE writeUnavailable(s, "overCap")
        \/ UNCHANGED count /\ req' = [req EXCEPT ![s].at = "draft", ![s].day = day]
  /\ UNCHANGED <<cache, calls>>

\* The counter: INCR, then EXPIRE; the count is compared after it was taken.  No
\* counter, and an error of either command, refuse.
Allow(s) ==
  /\ req[s].at = "allow"
  /\ LET n == count[req[s].user][day] + 1
     IN \/ /\ count' = [count EXCEPT ![req[s].user][day] = n]
           /\ \/ IF n <= DailyGenerationCap
                 THEN req' = [req EXCEPT ![s].at = "draft", ![s].day = day]
                 ELSE writeUnavailable(s, "overCap")
              \/ writeUnavailable(s, "failed")
        \/ UNCHANGED count /\ writeUnavailable(s, "failed")
  /\ UNCHANGED <<cache, calls>>

Pay(s) == calls' = [calls EXCEPT ![req[s].user][req[s].day] = @ + 1]

\* What the drafts the model may write come to, for each vocabulary: whether they
\* pass, whether they render, and whether the text shows nothing it should not.
Outcomes ==
  {[vocab |-> vocab, usable |-> Usable(raw, vocab),
    renders |-> Renders(raw, vocab), clean |-> RendersClean(raw, vocab)] :
     vocab \in {Placeholders(r) : r \in Reports}, raw \in RawDrafts}

Rendered(s, o) ==
  IF ~o.renders THEN writeUnavailable(s, "unrenderable")
  ELSE req' = [req EXCEPT ![s].at = "store",
                          ![s].answer.prose = [user |-> req[s].user, hash |-> req[s].report.hash,
                                               clean |-> o.clean]]

\* Mutant: the second draft is taken as it comes.
GenerateTrustsRetry(s) ==
  /\ req[s].at = "draft" /\ Pay(s)
  /\ \E o \in {o \in Outcomes : o.vocab = Vocab(s)} :
       IF o.usable \/ req[s].tries = 1 THEN Rendered(s, o) ELSE req' = [req EXCEPT ![s].tries = 1]
  /\ UNCHANGED <<cache, count>>

\* One paid call of Generate.  Its failure ends the generation; a draft that breaks
\* the contract is tried once more; one that passed and does not render is not.
Generate(s) ==
  /\ req[s].at = "draft" /\ Pay(s)
  /\ \/ writeUnavailable(s, "failed")
     \/ \E o \in {o \in Outcomes : o.vocab = Vocab(s)} :
          IF o.usable THEN Rendered(s, o)
          ELSE IF req[s].tries = 1 THEN writeUnavailable(s, "failed")
          ELSE req' = [req EXCEPT ![s].tries = 1]
  /\ UNCHANGED <<cache, count>>

\* The narrative is stored, or not, and served either way.
CacheSet(s) ==
  /\ req[s].at = "store"
  /\ LET prose == req[s].answer.prose
         same == {e \in cache : e.user = req[s].user /\ e.hash = req[s].report.hash}
         entry == [user |-> req[s].user, hash |-> req[s].report.hash, prose |-> prose]
     IN /\ \/ cache' = (cache \ same) \cup {entry}
           \/ UNCHANGED cache
        /\ writeNarrative(s, prose)
  /\ UNCHANGED <<count, calls>>

\* The process dies, or the answer finds nobody waiting for it.
Gone(s) ==
  /\ req[s].at # "free" /\ \A c \in hook.calls : c.slot # s
  /\ req' = [req EXCEPT ![s] = Free]
  /\ UNCHANGED <<cache, count, calls>>

Serve(s) == CacheGet(s) \/ Allow(s) \/ Generate(s) \/ CacheSet(s) \/ Gone(s)

-----------------------------------------------------------------------------
(* The hook and the page *)

\* Mutant: a call in flight is left to itself.
loadReturns(s, mounted) ==
  IF hook.inFlight
  THEN hook' = [hook EXCEPT !.mounted = mounted] /\ UNCHANGED <<req, asks>>
  ELSE LET id == hook.requestId + 1
       IN /\ Ask(s, viewer)
          /\ hook' = [hook EXCEPT !.mounted = mounted, !.inFlight = TRUE, !.requestId = id,
                                  !.inFlightId = id, !.status = "loading",
                                  !.narrative = NoAnswer,
                                  !.calls = @ \cup {[slot |-> s, id |-> id]}]

\* load: a call already in flight is adopted, otherwise one is made.
load(s, mounted) ==
  IF hook.inFlight
  THEN /\ hook' = [hook EXCEPT !.mounted = mounted, !.requestId = hook.inFlightId]
       /\ UNCHANGED <<req, asks>>
  ELSE LET id == hook.requestId + 1
       IN /\ Ask(s, viewer)
          /\ hook' = [hook EXCEPT !.mounted = mounted, !.inFlight = TRUE, !.requestId = id,
                                  !.inFlightId = id, !.status = "loading",
                                  !.narrative = NoAnswer,
                                  !.calls = @ \cup {[slot |-> s, id |-> id]}]

HookKeeps == UNCHANGED <<day, report, generator, cache, count, calls, screen>>

\* The effect runs, on a new instance or again on the same one.
Effect(s) == ~hook.mounted /\ load(s, TRUE) /\ HookKeeps

\* The control is clicked; it stays until the next Render, so two clicks may land in
\* one frame.
Regenerate(s) == hook.mounted /\ hook.offered /\ load(s, TRUE) /\ HookKeeps

Cleanup ==
  /\ hook.mounted /\ hook.requestId < MaxIds
  /\ hook' = [hook EXCEPT !.mounted = FALSE, !.requestId = @ + 1, !.offered = FALSE]
  /\ UNCHANGED <<req, asks>> /\ HookKeeps

\* The component is gone for good, and its calls with it.
Discard ==
  /\ ~hook.mounted /\ hook # NewHook
  /\ hook' = NewHook
  /\ UNCHANGED <<req, asks>> /\ HookKeeps

\* A call settles: with the answer of its slot, or with the browser's timeout,
\* after which the server goes on alone.  A call that was disowned changes
\* nothing but inFlight.
Settle(c) ==
  /\ c \in hook.calls
  /\ \E answer \in {NoAnswer} \cup (IF req[c.slot].at = "answered"
                                    THEN {req[c.slot].answer} ELSE {}) :
       LET failed == answer.state \in {"none", "error"}
           settled == [hook EXCEPT !.inFlight = FALSE, !.calls = @ \ {c}]
       IN /\ hook' = IF hook.requestId # c.id THEN settled
                     ELSE [settled EXCEPT !.status = IF failed THEN "error" ELSE "ok",
                                          !.narrative = IF failed THEN NoAnswer ELSE answer]
          /\ req' = IF answer # NoAnswer THEN [req EXCEPT ![c.slot] = Free] ELSE req
  /\ UNCHANGED asks /\ HookKeeps

\* The page fetches the report again.
RefetchReport ==
  /\ screen' = report[viewer]
  /\ UNCHANGED <<day, report, generator, serverVars, asks, hook>>

describesReport == screen.hash = hook.narrative.hash

\* narrativeNotice: three reasons have a notice of their own, all others one.
Notice(reason) ==
  CASE reason = "nothing" -> "silent"
    [] reason \in {"notConfigured", "overCap"} -> "notice"
    [] OTHER -> "retry"

\* narrativeView: what stands where the prose would.
narrativeView ==
  IF hook.status = "loading" THEN "pending"
  ELSE IF hook.status = "error" THEN Notice("none")
  ELSE IF hook.narrative.state # "ok" THEN Notice(hook.narrative.reason)
  ELSE IF ~describesReport THEN "retry"
  ELSE "prose"

RenderPage ==
  /\ hook.mounted
  /\ hook' = [hook EXCEPT !.offered = narrativeView = "retry"]
  /\ UNCHANGED <<req, asks>> /\ HookKeeps

-----------------------------------------------------------------------------
(* What surrounds them *)

\* A fill or a new close changes a report.
ReportChanges ==
  /\ \E u \in Users, r \in Reports :
       /\ report[u] # r
       /\ report' = [report EXCEPT ![u] = r]
  /\ UNCHANGED <<day, generator, cache, count, req, calls, asks, hook, screen>>

CacheExpires ==
  /\ \E e \in cache : cache' = cache \ {e}
  /\ UNCHANGED <<day, report, generator, count, req, calls, asks, hook, screen>>

Midnight ==
  /\ day < MaxDay
  /\ day' = day + 1
  /\ UNCHANGED <<report, generator, serverVars, asks, hook, screen>>

Next ==
  \/ \E s \in Slots :
       \/ Serve(s) /\ UNCHANGED <<day, report, generator, asks, hook, screen>>
       \/ /\ \E u \in Users : Ask(s, u)
          /\ UNCHANGED <<day, report, generator, cache, count, calls, hook, screen>>
       \/ Effect(s) \/ Regenerate(s)
  \/ \E c \in hook.calls : Settle(c)
  \/ Cleanup \/ Discard \/ RenderPage \/ RefetchReport \/ ReportChanges \/ CacheExpires \/ Midnight

\* A call of the browser has a timeout of its own.
Fairness == WF_vars(\E c \in hook.calls : Settle(c))

Spec == Init /\ [][Next]_vars
FairSpec == Spec /\ Fairness

-----------------------------------------------------------------------------
(* Correctness *)

\* The bill is bounded: on one day's allowance a user's requests, however many and
\* however concurrent, make at most two model calls for each of the cap's
\* generations, also while Redis fails its commands.  Redis keeps the day's count here:
\* no step restarts or evicts it.
BillIsBounded ==
  \A u \in Users, d \in 0..MaxDay : calls[u][d] <= 2 * DailyGenerationCap

\* Prose on the page was written about this user's own portfolio and for exactly
\* the figures of the report above it, although the two are fetched apart and
\* either may change, be cached or arrive late.
ProseMatchesReport ==
  narrativeView = "prose" =>
    hook.narrative.prose.user = viewer /\ hook.narrative.prose.hash = screen.hash

\* Nothing unchecked is served or kept: every narrative in the cache or in an
\* answer shows no brace and no figure but the report's own.
ProseIsChecked ==
  /\ \A e \in cache : e.prose.clean
  /\ \A s \in Slots : req[s].answer.prose.clean

\* The page never stays on "preparing": a mounted hook that is loading ends.
LoadingEnds ==
  (hook.mounted /\ hook.status = "loading") ~> ~(hook.mounted /\ hook.status = "loading")

\* Validate and Render read braces differently, the one by a pattern that sees no
\* brace inside a token, the other from the left: still no draft that passed the
\* one fails in the other, which would be a paid call wasted without a retry.
ValidatedDraftsRender ==
  \A s \in Slots : req[s].answer.reason # "unrenderable"

-----------------------------------------------------------------------------
(* The inductive invariant, for the proofs *)

AnyReport == Reports \cup {Free.report}
Hashes == {r.hash : r \in AnyReport}
Proses == [user : Users, hash : Hashes, clean : BOOLEAN]
Answers == [state : {"none", "error", "ok", "unavailable"},
            reason : {"none", "nothing", "notConfigured", "overCap", "failed", "unrenderable"},
            hash : Hashes, prose : Proses]
Serving == [at : {"free", "cache", "allow", "draft", "store", "answered"}, user : Users,
            report : AnyReport, day : 0..MaxDay, tries : {0, 1}, answer : Answers]
Hooks == [mounted : BOOLEAN, status : {"loading", "error", "ok"}, requestId : Nat,
          inFlight : BOOLEAN, inFlightId : Nat, calls : SUBSET [slot : Slots, id : Nat],
          narrative : Answers, offered : BOOLEAN]

NarrativeType ==
  /\ day \in 0..MaxDay
  /\ report \in [Users -> Reports]
  /\ cache \in SUBSET [user : Users, hash : Hashes, prose : Proses]
  /\ count \in [Users -> [0..MaxDay -> Nat]]
  /\ calls \in [Users -> [0..MaxDay -> Nat]]
  /\ req \in [Slots -> Serving]
  /\ hook \in Hooks

\* The model calls that generations under way may still make, as pairs of a slot
\* and the attempt.
Owed(u, d) ==
  {a \in Slots \X {0, 1} : LET q == req[a[1]]
                         IN q.at = "draft" /\ q.user = u /\ q.day = d /\ q.tries <= a[2]}

\* Every call that was or may be made has its half of an allowance.
Covered ==
  \A u \in Users, d \in 0..MaxDay :
    LET bill == calls[u][d] + Cardinality(Owed(u, d))
    IN bill <= 2 * count[u][d] /\ bill <= 2 * DailyGenerationCap

\* Prose is kept, served and shown under the hash it was written for, and only
\* to its user.
ProseIsOwn ==
  /\ \A e \in cache : e.prose.user = e.user /\ e.prose.hash = e.hash
  /\ \A s \in Slots :
       LET q == req[s]
       IN /\ q.at = "store" => q.answer.prose.user = q.user /\ q.answer.prose.hash = q.report.hash
          /\ q.answer.state = "ok" => q.at = "answered" /\ q.answer.prose.hash = q.answer.hash
  /\ \A c \in hook.calls :
       LET q == req[c.slot]
       IN /\ q.at # "free" /\ q.user = viewer
          /\ q.answer.state = "ok" => q.answer.prose.user = viewer
  /\ \A c, e \in hook.calls : c.slot = e.slot => c = e
  /\ hook.narrative.state = "ok" =>
       /\ hook.narrative.prose.user = viewer
       /\ hook.narrative.prose.hash = hook.narrative.hash

NarrativeInv == NarrativeType /\ Covered /\ ProseIsOwn /\ ProseIsChecked
                /\ ValidatedDraftsRender
=============================================================================

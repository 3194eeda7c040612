---------------------------- MODULE LoginBackoff ----------------------------
(***************************************************************************)
(* The gateway's per-account login backoff: RateLimitLoginByAccount around *)
(* a Backoff that concurrent logins and the sweeper share.  A login reads  *)
(* the clock, then takes the mutex, where it is refused or counted as a    *)
(* failure in advance; the auth service answers later, and the answer      *)
(* keeps, clears or takes back the count.                                  *)
(***************************************************************************)
EXTENDS Integers, FiniteSets

CONSTANTS Logins,        \* login requests; each runs once
          Emails,        \* emails as submitted
          Keys,          \* accounts, as the backoff keys them
          Key,           \* an email's key: trimmed and lower-cased, or NoKey
          NoKey,         \* an empty, unparseable or oversized body
          FreeFailures, BaseDelay, MaxDelay,
          Verdicts,      \* what can come back from the proxy
          MaxTime        \* bound on the clock

ASSUME BackoffAssumption ==
  /\ IsFiniteSet(Logins)
  /\ Key \in [Emails -> Keys \cup {NoKey}] /\ NoKey \notin Keys
  /\ FreeFailures \in Nat
  /\ BaseDelay \in Nat \ {0}
  /\ MaxDelay \in Nat \ {0}
  /\ Verdicts \subseteq {"401", "200", "other", "aborted"}
  /\ MaxTime \in Nat

VARIABLES
  now,       \* the process clock
  attempts,  \* failures and lastFailure per key; no failures where the map has no entry
  pc,        \* the step each login is about to take, or how it ended
  key,       \* the key of each login
  at,        \* the clock each login read before it took the mutex
  retryAt,   \* when a refused login was told to come back
  \* history, read by no step of the code
  refuted,   \* 401s of each key since its count was last cleared
  dropped,   \* answers of each key cut short since its count was last cleared
  blame,     \* what a refusal rested on: an attempt within the delay, by its outcome
  grants     \* attempts of each key let through since a login was refused

counterVars == <<attempts, refuted, dropped>>
loginVars == <<pc, key, at, retryAt, blame, grants>>
vars == <<now, counterVars, loginVars>>

NoEntry == [failures |-> 0, lastFailure |-> 0]

Init ==
  /\ now = 0
  /\ attempts = [k \in Keys |-> NoEntry]
  /\ pc = [l \in Logins |-> "idle"]
  /\ key = [l \in Logins |-> NoKey]
  /\ at = [l \in Logins |-> 0]
  /\ retryAt = [l \in Logins |-> 0]
  /\ refuted = [k \in Keys |-> 0]
  /\ dropped = [k \in Keys |-> 0]
  /\ blame = [l \in Logins |-> "none"]
  /\ grants = [l \in Logins |-> 0]

-----------------------------------------------------------------------------
\* BaseDelay doubled once per failure past the first paid one, until it
\* reaches the cap.
Doubled[n \in Nat] ==
  IF n = 0 THEN BaseDelay
  ELSE IF Doubled[n - 1] >= MaxDelay THEN Doubled[n - 1] ELSE 2 * Doubled[n - 1]

Delay(failures) ==
  IF failures <= FreeFailures THEN 0
  ELSE LET d == Doubled[failures - FreeFailures - 1]
       IN IF d > MaxDelay THEN MaxDelay ELSE d

stale(a, t) == t - a.lastFailure >= MaxDelay

\* The first moment a key's entry lets an attempt through.
BlockedUntil(k) == attempts[k].lastFailure + Delay(attempts[k].failures)

Forwarded(k) == {l \in Logins : pc[l] = "forwarded" /\ key[l] = k}

Put(k, failures, t) ==
  attempts' = [attempts EXCEPT ![k] = [failures |-> failures, lastFailure |-> t]]
Clear(k) ==
  /\ refuted' = [refuted EXCEPT ![k] = 0]
  /\ dropped' = [dropped EXCEPT ![k] = 0]

-----------------------------------------------------------------------------
\* The body is read for its email, and Attempt reads the clock.  Without a key
\* the request is forwarded and nothing is counted.
Arrive(l) ==
  /\ pc[l] = "idle"
  /\ \E e \in Emails :
       /\ key' = [key EXCEPT ![l] = Key[e]]
       /\ pc' = [pc EXCEPT ![l] = IF Key[e] = NoKey THEN "passed" ELSE "attempt"]
       /\ at' = [at EXCEPT ![l] = now]
  /\ UNCHANGED <<now, counterVars, retryAt, blame, grants>>

Allow(l) ==
  /\ pc' = [pc EXCEPT ![l] = "forwarded"]
  /\ grants' = [m \in Logins |-> IF pc[m] = "refused" /\ key[m] = key[l]
                                 THEN grants[m] + 1 ELSE grants[m]]
  /\ UNCHANGED <<retryAt, blame>>

\* Mutant: the wait is rounded down to the last whole second before its end.
RefuseRoundsDown(l, wait) ==
  /\ pc' = [pc EXCEPT ![l] = "refused"]
  /\ retryAt' = [retryAt EXCEPT ![l] = now + wait - 1]
  /\ UNCHANGED <<counterVars, blame, grants>>

\* A refusal counts nothing and moves no window.
Refuse(l, wait) ==
  LET delay == Delay(attempts[key[l]].failures)
      recent(m) == key[m] = key[l] /\ at[l] - at[m] < delay
  IN /\ pc' = [pc EXCEPT ![l] = "refused"]
     /\ retryAt' = [retryAt EXCEPT ![l] = now + wait]
     /\ blame' = [blame EXCEPT ![l] =
          IF \E m \in Logins : recent(m) /\ pc[m] \in {"401", "aborted"} THEN "verdict"
          ELSE IF \E m \in Logins : recent(m) /\ pc[m] = "forwarded" THEN "in_flight"
          ELSE "nobody"]
     /\ UNCHANGED <<counterVars, grants>>

\* Backoff.Attempt, under the mutex, with the clock read before it.
Attempt(l) ==
  /\ pc[l] = "attempt"
  /\ LET k == key[l]
         a == attempts[k]
         fresh == a = NoEntry \/ stale(a, at[l])
         elapsed == at[l] - a.lastFailure
         delay == Delay(a.failures)
     IN \/ /\ fresh
           /\ Put(k, 1, at[l])
           /\ Clear(k)
           /\ Allow(l)
        \/ /\ ~fresh
           /\ delay > 0 /\ elapsed < delay
           /\ Refuse(l, delay - elapsed)
        \/ /\ ~fresh
           /\ delay = 0 \/ elapsed >= delay
           /\ Put(k, a.failures + 1, at[l])
           /\ Allow(l)
           /\ UNCHANGED <<refuted, dropped>>
  /\ UNCHANGED <<now, key, at>>

\* Succeed: one success clears the key.
Succeed(l) ==
  /\ attempts' = [attempts EXCEPT ![key[l]] = NoEntry]
  /\ Clear(key[l])

\* Mutant: an answer that is no verdict keeps its count.
UndoNothing(l) == UNCHANGED counterVars

\* Undo: the count goes back by one, wherever it stands by now; an entry at
\* zero is deleted.  lastFailure is not restored.
Undo(l) ==
  LET k == key[l]
      a == attempts[k]
  IN \/ /\ a = NoEntry
        /\ UNCHANGED counterVars
     \/ /\ a.failures > 1
        /\ Put(k, a.failures - 1, a.lastFailure)
        /\ UNCHANGED <<refuted, dropped>>
     \/ /\ a.failures = 1
        /\ attempts' = [attempts EXCEPT ![k] = NoEntry]
        /\ Clear(k)

\* The auth service's answer.  An answer cut short panics through the
\* middleware (ReverseProxy aborts the handler), and nothing after it runs.
Answered(l) ==
  /\ pc[l] = "forwarded"
  /\ \E v \in Verdicts :
       /\ pc' = [pc EXCEPT ![l] = v]
       /\ \/ /\ v = "401"
             /\ refuted' = [refuted EXCEPT ![key[l]] = @ + 1]
             /\ UNCHANGED <<attempts, dropped>>
          \/ v = "200" /\ Succeed(l)
          \/ v = "other" /\ Undo(l)
          \/ /\ v = "aborted"
             /\ dropped' = [dropped EXCEPT ![key[l]] = @ + 1]
             /\ UNCHANGED <<attempts, refuted>>
  /\ UNCHANGED <<now, key, at, retryAt, blame, grants>>

\* The sweeper, with a clock it read before it took the mutex.
EvictStale ==
  \E t \in 0..now :
    LET old == {k \in Keys : attempts[k] # NoEntry /\ stale(attempts[k], t)}
    IN /\ old # {}
       /\ attempts' = [k \in Keys |-> IF k \in old THEN NoEntry ELSE attempts[k]]
       /\ refuted' = [k \in Keys |-> IF k \in old THEN 0 ELSE refuted[k]]
       /\ dropped' = [k \in Keys |-> IF k \in old THEN 0 ELSE dropped[k]]
       /\ UNCHANGED <<now, loginVars>>

Tick == now < MaxTime /\ now' = now + 1 /\ UNCHANGED <<counterVars, loginVars>>

Next == \/ \E l \in Logins : Arrive(l) \/ Attempt(l) \/ Answered(l)
        \/ EvictStale
        \/ Tick

Spec == Init /\ [][Next]_vars

-----------------------------------------------------------------------------
(* Properties *)

\* Retry-After is honest: a client that was refused and comes back when it was
\* told to finds the window closed, unless another attempt was let through in
\* the meantime.  Refused attempts, late answers, undone counts and the sweeper
\* never move its window back.
RetryAfterHonest ==
  \A l \in Logins : pc[l] = "refused" /\ grants[l] = 0 => BlockedUntil(key[l]) <= retryAt[l]

\* An outage does not accumulate: a key's count is never more than its 401s,
\* its attempts still in flight and its answers cut short.
OutageDoesNotAccumulate ==
  \A k \in Keys :
    attempts[k].failures <= refuted[k] + dropped[k] + Cardinality(Forwarded(k))

\* The comment on RateLimitLoginByAccount: an upstream 502 does not accumulate as a failed password,
\* so a refusal rests on an attempt, made within the delay, that auth refused or
\* has not answered yet.
RefusedForCause == \A l \in Logins : pc[l] = "refused" => blame[l] # "nobody"

\* The backoff's state is well formed: a login that is counted, or was refused, has a
\* key, and no login has read a clock that is still to come.
BackoffType ==
  /\ now \in Nat
  /\ attempts \in [Keys -> [failures : Nat, lastFailure : Nat]]
  /\ pc \in [Logins -> {"idle", "passed", "attempt", "forwarded", "refused"} \cup Verdicts]
  /\ key \in [Logins -> Keys \cup {NoKey}]
  /\ at \in [Logins -> 0..now] /\ retryAt \in [Logins -> Nat]
  /\ refuted \in [Keys -> Nat] /\ dropped \in [Keys -> Nat]
  /\ grants \in [Logins -> Nat]
  /\ \A l \in Logins : pc[l] \in {"attempt", "forwarded", "refused"} => key[l] \in Keys

BackoffInv == BackoffType /\ RetryAfterHonest /\ OutageDoesNotAccumulate
=============================================================================

--------------------------- MODULE GatewayProofs ---------------------------
(***************************************************************************)
(* Proofs about the gateway's login backoff and the gate in front of it,   *)
(* for any number of concurrent requests, accounts and addresses and any   *)
(* limits: Retry-After is honest, an outage does not accumulate, a client  *)
(* has one budget and is limited for its own requests only.                *)
(***************************************************************************)
EXTENDS AuthGate, Induction, FiniteSetTheorems

-----------------------------------------------------------------------------
(* The delays *)

\* The recursive definition of the doubled delays has a solution, of natural numbers.
LEMMA DoubledIs ==
  /\ Doubled \in [Nat -> Nat]
  /\ Doubled[0] = BaseDelay
  /\ \A n \in Nat : Doubled[n + 1] = IF Doubled[n] >= MaxDelay THEN Doubled[n] ELSE 2 * Doubled[n]
<1> DEFINE g == [d \in Nat |-> IF d >= MaxDelay THEN d ELSE 2 * d]
           step(f) == [n \in Nat |-> IF n = 0 THEN BaseDelay
                                     ELSE IF f[n - 1] >= MaxDelay THEN f[n - 1] ELSE 2 * f[n - 1]]
<1>1. g \in [Nat -> Nat] /\ BaseDelay \in Nat
  BY BackoffAssumption
<1>2. PICK f \in [Nat -> Nat] : f[0] = BaseDelay /\ \A n \in Nat : f[n + 1] = g[f[n]]
  <2>1. ASSUME NEW h \in [Nat -> Nat], NEW v \in Nat
        PROVE  \E f \in [Nat -> Nat] : f[0] = v /\ \A n \in Nat : f[n + 1] = h[f[n]]
    BY RecursionExists
  <2>. HIDE DEF g
  <2>. QED BY <1>1, <2>1
<1>3. f = step(f)
  <2>1. ASSUME NEW n \in Nat
        PROVE  f[n] = step(f)[n]
    <3>1. CASE n = 0
      BY <1>2, <3>1
    <3>2. CASE n # 0
      <4>1. n - 1 \in Nat /\ (n - 1) + 1 = n
        BY <3>2
      <4>2. f[n] = g[f[n - 1]]
        BY <1>2, <4>1
      <4>. QED BY <3>2, <4>1, <4>2
    <3>. QED BY <3>1, <3>2
  <2>. QED BY <2>1
<1>4. Doubled = step(Doubled)
  <2>1. Doubled = CHOOSE h : h = step(h)
    BY DEF Doubled
  <2>. HIDE DEF step
  <2>. QED BY <1>3, <2>1
<1>5. Doubled[0] = BaseDelay
  BY <1>4
<1>6. ASSUME NEW n \in Nat
      PROVE  Doubled[n + 1] = IF Doubled[n] >= MaxDelay THEN Doubled[n] ELSE 2 * Doubled[n]
  <2>1. n + 1 \in Nat /\ n + 1 # 0 /\ (n + 1) - 1 = n
    OBVIOUS
  <2>2. Doubled[n + 1] = step(Doubled)[n + 1]
    BY <1>4
  <2>. QED BY <2>1, <2>2
<1> DEFINE S == {n \in Nat : Doubled[n] \in Nat}
<1>7. Nat \subseteq S
  <2>1. 0 \in S
    BY <1>1, <1>5
  <2>2. \A n \in Nat : n \in S => n + 1 \in S
    BY <1>6, BackoffAssumption
  <2>. HIDE DEF S
  <2>. QED BY <2>1, <2>2, SetInduction
<1>8. Doubled \in [Nat -> Nat]
  <2>1. Doubled = [n \in Nat |-> Doubled[n]]
    BY <1>4
  <2>. QED BY <1>7, <2>1
<1>. QED
  BY <1>5, <1>6, <1>8

\* A delay is a natural number.
LEMMA DelayType ==
  ASSUME NEW n \in Nat
  PROVE  Delay(n) \in Nat
<1>1. n > FreeFailures => n - FreeFailures - 1 \in Nat
  BY BackoffAssumption
<1>2. n > FreeFailures => Doubled[n - FreeFailures - 1] \in Nat
  BY <1>1, DoubledIs
<1>. QED
  BY <1>2, BackoffAssumption DEF Delay

\* A failure less never lengthens the delay.
LEMMA DelayGrows ==
  ASSUME NEW n \in Nat \ {0}
  PROVE  Delay(n - 1) <= Delay(n)
<1> DEFINE m == n - FreeFailures - 1
           c == Doubled[m]
           d == Doubled[m - 1]
<1>1. n \in Nat /\ n - 1 \in Nat /\ FreeFailures \in Nat /\ MaxDelay \in Nat /\ m \in Int
  BY BackoffAssumption
<1>2. CASE m >= 1
  <2>1. m \in Nat /\ m - 1 \in Nat /\ m = (m - 1) + 1
    BY <1>1, <1>2
  <2>2. c \in Nat /\ d \in Nat /\ c = IF d >= MaxDelay THEN d ELSE 2 * d
    <3>. HIDE DEF m
    <3>. QED BY <2>1, DoubledIs
  <2>3. /\ Delay(n) = IF c > MaxDelay THEN MaxDelay ELSE c
        /\ Delay(n - 1) = IF d > MaxDelay THEN MaxDelay ELSE d
    <3>1. n - 1 - FreeFailures - 1 = m - 1 /\ n > FreeFailures /\ n - 1 > FreeFailures
      BY <1>1, <1>2
    <3>. QED BY <1>1, <3>1 DEF Delay
  <2>. HIDE DEF c, d
  <2>. QED BY <1>1, <2>2, <2>3
<1>3. CASE m < 1
  <2>1. n - 1 <= FreeFailures
    BY <1>1, <1>3
  <2>2. Delay(n - 1) = 0 /\ Delay(n) \in Nat
    BY <1>1, <2>1, DelayType DEF Delay
  <2>. QED BY <2>2
<1>. QED
  BY <1>1, <1>2, <1>3

-----------------------------------------------------------------------------
(* The inductive invariant *)

\* The attempts of a key in flight can be counted.
LEMMA ForwardedFinite ==
  ASSUME NEW k
  PROVE  IsFiniteSet(Forwarded(k)) /\ Cardinality(Forwarded(k)) \in Nat
<1>1. Forwarded(k) \subseteq Logins /\ IsFiniteSet(Logins)
  BY BackoffAssumption DEF Forwarded
<1>. QED
  BY <1>1, FS_Subset, FS_CardinalityType

\* The first state has the invariant.
LEMMA InitBackoff == Init => BackoffInv
<1>. SUFFICES ASSUME Init
              PROVE  BackoffInv
  OBVIOUS
<1>1. BackoffType
  BY DEF Init, BackoffType, NoEntry
<1>2. RetryAfterHonest
  BY DEF Init, RetryAfterHonest
<1>3. OutageDoesNotAccumulate
  BY ForwardedFinite DEF Init, OutageDoesNotAccumulate, NoEntry
<1>. QED
  BY <1>1, <1>2, <1>3 DEF BackoffInv

\* A clock that goes on, and an entry that is cleared, keep the invariant's two
\* promises for a key.
LEMMA Unblocked ==
  ASSUME NEW k \in Keys, attempts'[k] = NoEntry
  PROVE  BlockedUntil(k)' = 0
BY BackoffAssumption DEF BlockedUntil, NoEntry, Delay

\* What a step of Attempt does: a first failure, a refusal, or one failure more.
LEMMA AttemptCases ==
  ASSUME BackoffType, NEW l \in Logins, Attempt(l)
  PROVE  /\ pc[l] = "attempt" /\ key[l] \in Keys /\ at[l] \in 0..now
         /\ attempts[key[l]] \in [failures : Nat, lastFailure : Nat]
         /\ UNCHANGED <<now, key, at>>
         /\ \/ Put(key[l], 1, at[l]) /\ Clear(key[l]) /\ Allow(l)
            \/ /\ at[l] - attempts[key[l]].lastFailure < Delay(attempts[key[l]].failures)
               /\ Refuse(l, Delay(attempts[key[l]].failures)
                              - (at[l] - attempts[key[l]].lastFailure))
            \/ /\ Put(key[l], attempts[key[l]].failures + 1, at[l]) /\ Allow(l)
               /\ UNCHANGED <<refuted, dropped>>
BY DEF Attempt, BackoffType

\* Every step keeps the types.
LEMMA NextType ==
  ASSUME BackoffType, Next
  PROVE  BackoffType'
<1>1. ASSUME NEW l \in Logins, Arrive(l)
      PROVE  BackoffType'
  BY <1>1, BackoffAssumption DEF BackoffType, Arrive, counterVars
<1>2. ASSUME NEW l \in Logins, Attempt(l)
      PROVE  BackoffType'
  <2> DEFINE k == key[l]
             a == attempts[k]
  <2>1. /\ pc[l] = "attempt" /\ k \in Keys /\ at[l] \in Nat
        /\ a \in [failures : Nat, lastFailure : Nat] /\ UNCHANGED <<now, key, at>>
    BY <1>2, AttemptCases DEF BackoffType
  <2>2. ASSUME NEW n \in Nat, Put(k, n, at[l])
        PROVE  attempts' \in [Keys -> [failures : Nat, lastFailure : Nat]]
    BY <2>1, <2>2 DEF Put, BackoffType
  <2>3. ASSUME Allow(l)
        PROVE  /\ pc' = [pc EXCEPT ![l] = "forwarded"] /\ UNCHANGED retryAt
               /\ grants' \in [Logins -> Nat]
    BY <2>3 DEF Allow, BackoffType
  <2>4. CASE Put(k, 1, at[l]) /\ Clear(k) /\ Allow(l)
    <3>1. attempts' \in [Keys -> [failures : Nat, lastFailure : Nat]]
      BY <2>2, <2>4
    <3>2. refuted' \in [Keys -> Nat] /\ dropped' \in [Keys -> Nat]
      BY <2>4 DEF Clear, BackoffType
    <3>. QED BY <2>1, <2>3, <2>4, <3>1, <3>2 DEF BackoffType
  <2>5. CASE /\ at[l] - a.lastFailure < Delay(a.failures)
             /\ Refuse(l, Delay(a.failures) - (at[l] - a.lastFailure))
    <3> DEFINE w == Delay(a.failures) - (at[l] - a.lastFailure)
    <3>1. now + w \in Nat
      BY <2>1, <2>5, DelayType DEF BackoffType
    <3>. HIDE DEF w
    <3>2. retryAt' \in [Logins -> Nat] /\ pc' = [pc EXCEPT ![l] = "refused"]
          /\ UNCHANGED <<counterVars, grants>>
      BY <2>5, <3>1 DEF Refuse, BackoffType, w
    <3>. QED BY <2>1, <3>2 DEF BackoffType, counterVars
  <2>6. CASE Put(k, a.failures + 1, at[l]) /\ Allow(l) /\ UNCHANGED <<refuted, dropped>>
    <3>1. attempts' \in [Keys -> [failures : Nat, lastFailure : Nat]]
      BY <2>1, <2>2, <2>6
    <3>. QED BY <2>1, <2>3, <2>6, <3>1 DEF BackoffType
  <2>. QED BY <1>2, <2>4, <2>5, <2>6, AttemptCases
<1>3. ASSUME NEW l \in Logins, Answered(l)
      PROVE  BackoffType'
  <2>1. pc[l] = "forwarded" /\ key[l] \in Keys /\ UNCHANGED <<now, key, at, retryAt, grants>>
    BY <1>3 DEF Answered, BackoffType
  <2>2. PICK v \in Verdicts :
          /\ pc' = [pc EXCEPT ![l] = v]
          /\ \/ /\ refuted' = [refuted EXCEPT ![key[l]] = @ + 1]
                /\ UNCHANGED <<attempts, dropped>>
             \/ Succeed(l)
             \/ Undo(l)
             \/ /\ dropped' = [dropped EXCEPT ![key[l]] = @ + 1]
                /\ UNCHANGED <<attempts, refuted>>
    BY <1>3 DEF Answered
  <2>3. /\ pc' \in [Logins -> {"idle", "passed", "attempt", "forwarded", "refused"} \cup Verdicts]
        /\ \A m \in Logins : pc'[m] \in {"attempt", "forwarded", "refused"} => key'[m] \in Keys
    BY <2>1, <2>2 DEF BackoffType
  <2>4. NoEntry \in [failures : Nat, lastFailure : Nat]
    BY DEF NoEntry
  <2>5. ASSUME Undo(l)
        PROVE  attempts' \in [Keys -> [failures : Nat, lastFailure : Nat]]
    <3> DEFINE a == attempts[key[l]]
    <3>1. a \in [failures : Nat, lastFailure : Nat]
      BY <2>1 DEF BackoffType
    <3>2. CASE a.failures > 1 /\ Put(key[l], a.failures - 1, a.lastFailure)
      <4>1. [failures |-> a.failures - 1, lastFailure |-> a.lastFailure]
              \in [failures : Nat, lastFailure : Nat]
        BY <3>1, <3>2
      <4>. QED BY <2>1, <3>2, <4>1 DEF Put, BackoffType
    <3>. QED BY <2>1, <2>4, <2>5, <3>2 DEF Undo, BackoffType, counterVars
  <2>6. attempts' \in [Keys -> [failures : Nat, lastFailure : Nat]]
    BY <2>1, <2>2, <2>4, <2>5 DEF Succeed, BackoffType
  <2>7. refuted' \in [Keys -> Nat] /\ dropped' \in [Keys -> Nat]
    BY <2>1, <2>2 DEF Succeed, Undo, Clear, BackoffType, counterVars
  <2>. QED BY <2>1, <2>3, <2>6, <2>7 DEF BackoffType
<1>4. CASE EvictStale
  <2>1. NoEntry \in [failures : Nat, lastFailure : Nat]
    BY DEF NoEntry
  <2>. QED
    BY <1>4, <2>1 DEF BackoffType, EvictStale, loginVars
<1>5. CASE Tick
  BY <1>5 DEF BackoffType, Tick, counterVars, loginVars
<1>. QED
  BY <1>1, <1>2, <1>3, <1>4, <1>5 DEF Next

\* A window's end is a natural number.
LEMMA BlockedType ==
  ASSUME BackoffType, NEW k \in Keys
  PROVE  BlockedUntil(k) \in Nat /\ attempts[k] \in [failures : Nat, lastFailure : Nat]
BY DelayType DEF BlockedUntil, BackoffType

\* An undone attempt does not move a window's end forward, whichever attempt it was.
LEMMA UndoUnblocks ==
  ASSUME BackoffType, NEW l \in Logins, key[l] \in Keys, Undo(l), NEW k \in Keys
  PROVE  BlockedUntil(k)' <= BlockedUntil(k)
<1> DEFINE a == attempts[key[l]]
<1>1. BlockedUntil(k) \in Nat /\ a \in [failures : Nat, lastFailure : Nat]
  BY BlockedType
<1>2. CASE attempts'[k] = attempts[k]
  BY <1>1, <1>2 DEF BlockedUntil
<1>3. CASE k = key[l] /\ attempts'[k] = NoEntry
  BY <1>1, <1>3, Unblocked
<1>4. CASE /\ k = key[l] /\ a.failures > 1
           /\ attempts'[k] = [failures |-> a.failures - 1, lastFailure |-> a.lastFailure]
  <2>1. a.failures \in Nat \ {0} /\ a.failures - 1 \in Nat
    BY <1>1, <1>4
  <2>2. Delay(a.failures - 1) <= Delay(a.failures)
    BY <2>1, DelayGrows
  <2>3. Delay(a.failures - 1) \in Nat /\ Delay(a.failures) \in Nat /\ a.lastFailure \in Nat
    BY <1>1, <2>1, DelayType
  <2>4. /\ BlockedUntil(k)' = a.lastFailure + Delay(a.failures - 1)
        /\ BlockedUntil(k) = a.lastFailure + Delay(a.failures)
    BY <1>4 DEF BlockedUntil
  <2>. QED BY <2>2, <2>3, <2>4
<1>. QED
  BY <1>2, <1>3, <1>4 DEF Undo, Put, BackoffType, counterVars

\* Every step keeps a refusal's Retry-After honest ...
LEMMA NextRetry ==
  ASSUME BackoffInv, Next
  PROVE  RetryAfterHonest'
<1>. BackoffType /\ RetryAfterHonest /\ BackoffType'
  BY NextType DEF BackoffInv
<1>. SUFFICES ASSUME NEW m \in Logins, pc'[m] = "refused", grants'[m] = 0,
                     NEW k \in Keys, k = key'[m]
              PROVE  BlockedUntil(k)' <= retryAt'[m]
  <2>1. ASSUME NEW m \in Logins, pc'[m] = "refused", grants'[m] = 0
        PROVE  BlockedUntil(key[m])' <= retryAt'[m]
    <3>1. PICK k \in Keys : k = key'[m]
      BY <2>1 DEF BackoffType
    <3>2. BlockedUntil(k)' <= retryAt'[m]
      BY <2>1, <3>1
    <3>. QED BY <3>1, <3>2 DEF BlockedUntil
  <2>. QED BY <2>1 DEF RetryAfterHonest
\* It is enough that the refusal is old and its key is no longer blocked than it was.
<1>1. ASSUME pc[m] = "refused", grants[m] = 0, key'[m] = key[m], retryAt'[m] = retryAt[m],
             \/ attempts'[k] = attempts[k]
             \/ attempts'[k] = NoEntry
             \/ BlockedUntil(k)' <= BlockedUntil(k)
      PROVE  BlockedUntil(k)' <= retryAt'[m]
  <2>1. /\ BlockedUntil(k) <= retryAt[m] /\ retryAt[m] \in Nat
        /\ BlockedUntil(k) \in Nat /\ BlockedUntil(k)' \in Nat
    <3>1. BlockedUntil(k) = BlockedUntil(key[m])
      BY <1>1
    <3>2. BlockedUntil(k)' \in Nat
      <4>1. attempts'[k].failures \in Nat /\ attempts'[k].lastFailure \in Nat
        BY DEF BackoffType
      <4>2. Delay(attempts'[k].failures) \in Nat
        BY <4>1, DelayType
      <4>. QED BY <4>1, <4>2 DEF BlockedUntil
    <3>. QED BY <1>1, <3>1, <3>2, BlockedType DEF RetryAfterHonest, BackoffType
  <2>2. attempts'[k] = attempts[k] => BlockedUntil(k)' = BlockedUntil(k)
    BY DEF BlockedUntil
  <2>3. attempts'[k] = NoEntry => BlockedUntil(k)' = 0
    BY Unblocked
  <2>. QED BY <1>1, <2>1, <2>2, <2>3
<1>2. ASSUME NEW l \in Logins, Arrive(l)
      PROVE  BlockedUntil(k)' <= retryAt'[m]
  BY <1>1, <1>2 DEF Arrive, BackoffType, counterVars
<1>3. ASSUME NEW l \in Logins, Attempt(l)
      PROVE  BlockedUntil(k)' <= retryAt'[m]
  <2> DEFINE j == key[l]
             a == attempts[j]
  <2>1. /\ pc[l] = "attempt" /\ j \in Keys /\ at[l] \in 0..now
        /\ a \in [failures : Nat, lastFailure : Nat] /\ UNCHANGED <<now, key, at>>
    BY <1>3, AttemptCases
  <2>2. ASSUME NEW n, Put(j, n, at[l]), Allow(l)
        PROVE  BlockedUntil(k)' <= retryAt'[m]
    <3>1. m # l /\ pc[m] = "refused"
      BY <2>1, <2>2 DEF Allow, BackoffType
    <3>2. key[m] # j /\ grants[m] = 0
      BY <2>2, <3>1 DEF Allow, BackoffType
    <3>3. attempts'[k] = attempts[k]
      BY <2>1, <2>2, <3>2 DEF Put, BackoffType
    <3>. QED BY <1>1, <2>1, <2>2, <3>1, <3>2, <3>3 DEF Allow
  <2>3. CASE /\ at[l] - a.lastFailure < Delay(a.failures)
             /\ Refuse(l, Delay(a.failures) - (at[l] - a.lastFailure))
    <3>1. attempts' = attempts /\ grants' = grants
      BY <2>3 DEF Refuse, counterVars
    <3>2. CASE m = l
      <4>1. retryAt'[l] = now + (Delay(a.failures) - (at[l] - a.lastFailure))
        BY <2>3 DEF Refuse, BackoffType
      <4>2. BlockedUntil(k)' = a.lastFailure + Delay(a.failures)
        BY <2>1, <3>1, <3>2 DEF BlockedUntil
      <4>3. Delay(a.failures) \in Nat /\ a.lastFailure \in Nat /\ now \in Nat
        BY <2>1, DelayType DEF BackoffType
      <4>. QED BY <2>1, <3>2, <4>1, <4>2, <4>3
    <3>3. CASE m # l
      <4>1. pc[m] = "refused" /\ retryAt'[m] = retryAt[m]
        BY <2>3, <3>3 DEF Refuse, BackoffType
      <4>. QED BY <1>1, <2>1, <3>1, <4>1
    <3>. QED BY <3>2, <3>3
  <2>. QED BY <1>3, <2>2, <2>3, AttemptCases
<1>4. ASSUME NEW l \in Logins, Answered(l)
      PROVE  BlockedUntil(k)' <= retryAt'[m]
  <2>1. /\ pc[l] = "forwarded" /\ key[l] \in Keys
        /\ UNCHANGED <<now, key, at, retryAt, grants>>
    BY <1>4 DEF Answered, BackoffType
  <2>2. PICK v \in Verdicts :
          /\ pc' = [pc EXCEPT ![l] = v]
          /\ attempts' = attempts \/ Succeed(l) \/ Undo(l)
    BY <1>4 DEF Answered
  <2>3. v # "refused"
    BY BackoffAssumption
  <2>4. pc[m] = "refused"
    BY <2>2, <2>3 DEF BackoffType
  <2>5. CASE Succeed(l)
    BY <1>1, <2>1, <2>4, <2>5 DEF Succeed, BackoffType
  <2>6. CASE Undo(l)
    <3>1. BlockedUntil(k)' <= BlockedUntil(k)
      BY <2>1, <2>6, UndoUnblocks
    <3>. QED BY <1>1, <2>1, <2>4, <3>1
  <2>. QED BY <1>1, <2>1, <2>2, <2>4, <2>5, <2>6
<1>5. CASE EvictStale
  BY <1>1, <1>5 DEF EvictStale, loginVars, BackoffType
<1>6. CASE Tick
  BY <1>1, <1>6 DEF Tick, loginVars, counterVars
<1>. QED
  BY <1>2, <1>3, <1>4, <1>5, <1>6 DEF Next

\* ... and every count backed by an answer or an attempt in flight.
LEMMA NextOutage ==
  ASSUME BackoffInv, Next
  PROVE  OutageDoesNotAccumulate'
<1>. BackoffType /\ OutageDoesNotAccumulate /\ BackoffType'
  BY NextType DEF BackoffInv
<1>. SUFFICES ASSUME NEW k \in Keys
              PROVE  attempts'[k].failures
                       <= refuted'[k] + dropped'[k] + Cardinality(Forwarded(k)')
  BY DEF OutageDoesNotAccumulate
<1> DEFINE n == Cardinality(Forwarded(k))
           n2 == Cardinality(Forwarded(k)')
<1>1. /\ attempts[k].failures <= refuted[k] + dropped[k] + n
      /\ attempts[k] \in [failures : Nat, lastFailure : Nat]
      /\ refuted[k] \in Nat /\ dropped[k] \in Nat /\ n \in Nat
      /\ refuted'[k] \in Nat /\ dropped'[k] \in Nat
  BY ForwardedFinite DEF OutageDoesNotAccumulate, BackoffType
<1>2. IsFiniteSet(Forwarded(k)')
  <2>1. Forwarded(k)' \subseteq Logins
    BY DEF Forwarded
  <2>. QED BY <2>1, BackoffAssumption, FS_Subset
<1>3. n2 \in Nat
  BY <1>2, FS_CardinalityType
\* Where the key's entry is cleared, or nothing of it changes, nothing is to be shown.
<1>4. ASSUME attempts'[k] = NoEntry
      PROVE  attempts'[k].failures <= refuted'[k] + dropped'[k] + n2
  BY <1>1, <1>3, <1>4 DEF NoEntry
<1>5. ASSUME attempts'[k] = attempts[k], refuted'[k] = refuted[k], dropped'[k] = dropped[k],
             Forwarded(k)' = Forwarded(k)
      PROVE  attempts'[k].failures <= refuted'[k] + dropped'[k] + n2
  BY <1>1, <1>5
<1>6. ASSUME NEW l \in Logins, Arrive(l)
      PROVE  attempts'[k].failures <= refuted'[k] + dropped'[k] + n2
  <2>1. Forwarded(k)' = Forwarded(k)
    BY <1>6 DEF Forwarded, Arrive, BackoffType
  <2>. QED BY <1>5, <1>6, <2>1 DEF Arrive, counterVars
<1>7. ASSUME NEW l \in Logins, Attempt(l)
      PROVE  attempts'[k].failures <= refuted'[k] + dropped'[k] + n2
  <2> DEFINE j == key[l]
             a == attempts[j]
  <2>1. /\ pc[l] = "attempt" /\ j \in Keys
        /\ a \in [failures : Nat, lastFailure : Nat] /\ UNCHANGED <<now, key, at>>
    BY <1>7, AttemptCases
  <2>2. ASSUME Allow(l), k = j
        PROVE  n2 = n + 1
    <3>1. Forwarded(k)' = Forwarded(k) \cup {l} /\ l \notin Forwarded(k)
      BY <2>1, <2>2 DEF Allow, Forwarded, BackoffType
    <3>. QED BY <3>1, ForwardedFinite, FS_AddElement
  <2>3. ASSUME Allow(l), k # j
        PROVE  Forwarded(k)' = Forwarded(k)
    BY <2>1, <2>3 DEF Allow, Forwarded, BackoffType
  <2>4. CASE Put(j, 1, at[l]) /\ Clear(j) /\ Allow(l)
    <3>1. CASE k = j
      <4>1. attempts'[k].failures = 1
        BY <2>1, <2>4, <3>1 DEF Put, BackoffType
      <4>. QED BY <1>1, <1>3, <2>2, <2>4, <3>1, <4>1
    <3>2. CASE k # j
      <4>1. /\ attempts'[k] = attempts[k] /\ refuted'[k] = refuted[k]
            /\ dropped'[k] = dropped[k]
        BY <2>4, <3>2 DEF Put, Clear, BackoffType
      <4>. QED BY <1>5, <2>3, <2>4, <3>2, <4>1
    <3>. QED BY <3>1, <3>2
  <2>5. ASSUME NEW w, Refuse(l, w)
        PROVE  Forwarded(k)' = Forwarded(k) /\ UNCHANGED counterVars
    BY <2>1, <2>5 DEF Refuse, Forwarded, BackoffType
  <2>6. CASE Put(j, a.failures + 1, at[l]) /\ Allow(l) /\ UNCHANGED <<refuted, dropped>>
    <3>1. CASE k = j
      <4>1. attempts'[k].failures = attempts[k].failures + 1
        BY <2>1, <2>6, <3>1 DEF Put, BackoffType
      <4>. QED BY <1>1, <2>2, <2>6, <3>1, <4>1
    <3>2. CASE k # j
      <4>1. attempts'[k] = attempts[k]
        BY <2>6, <3>2 DEF Put, BackoffType
      <4>. QED BY <1>5, <2>3, <2>6, <3>2, <4>1
    <3>. QED BY <3>1, <3>2
  <2>. QED BY <1>5, <1>7, <2>4, <2>5, <2>6, AttemptCases DEF counterVars
<1>8. ASSUME NEW l \in Logins, Answered(l)
      PROVE  attempts'[k].failures <= refuted'[k] + dropped'[k] + n2
  <2> DEFINE j == key[l]
             a == attempts[j]
  <2>1. /\ pc[l] = "forwarded" /\ j \in Keys /\ key' = key
        /\ a \in [failures : Nat, lastFailure : Nat]
    BY <1>8 DEF Answered, BackoffType
  <2>2. PICK v \in Verdicts :
          /\ pc' = [pc EXCEPT ![l] = v]
          /\ \/ /\ refuted' = [refuted EXCEPT ![j] = @ + 1]
                /\ UNCHANGED <<attempts, dropped>>
             \/ Succeed(l)
             \/ Undo(l)
             \/ /\ dropped' = [dropped EXCEPT ![j] = @ + 1]
                /\ UNCHANGED <<attempts, refuted>>
    BY <1>8 DEF Answered
  <2>3. v # "forwarded"
    BY BackoffAssumption
  <2>4. CASE k # j
    <3>1. Forwarded(k)' = Forwarded(k)
      BY <2>1, <2>2, <2>3, <2>4 DEF Forwarded, BackoffType
    <3>2. attempts'[k] = attempts[k] /\ refuted'[k] = refuted[k] /\ dropped'[k] = dropped[k]
      BY <2>2, <2>4 DEF Succeed, Undo, Put, Clear, counterVars, BackoffType
    <3>. QED BY <1>5, <3>1, <3>2
  <2>5. CASE k = j
    <3>1. n2 = n - 1
      <4>1. Forwarded(k)' = Forwarded(k) \ {l} /\ l \in Forwarded(k)
        BY <2>1, <2>2, <2>3, <2>5 DEF Forwarded, BackoffType
      <4>. QED BY <4>1, ForwardedFinite, FS_RemoveElement
    <3>2. CASE refuted' = [refuted EXCEPT ![j] = @ + 1] /\ UNCHANGED <<attempts, dropped>>
      <4>1. refuted'[k] = refuted[k] + 1
        BY <2>5, <3>2 DEF BackoffType
      <4>. QED BY <1>1, <3>1, <3>2, <4>1
    <3>3. CASE dropped' = [dropped EXCEPT ![j] = @ + 1] /\ UNCHANGED <<attempts, refuted>>
      <4>1. dropped'[k] = dropped[k] + 1
        BY <2>5, <3>3 DEF BackoffType
      <4>. QED BY <1>1, <3>1, <3>3, <4>1
    <3>4. CASE Succeed(l)
      BY <1>4, <2>1, <2>5, <3>4 DEF Succeed, BackoffType
    <3>5. CASE Undo(l)
      <4>1. CASE a = NoEntry /\ UNCHANGED counterVars
        BY <1>4, <2>5, <4>1 DEF counterVars
      <4>2. CASE /\ a.failures > 1 /\ Put(j, a.failures - 1, a.lastFailure)
                 /\ UNCHANGED <<refuted, dropped>>
        <5>1. attempts'[k].failures = attempts[k].failures - 1
          BY <2>5, <4>2 DEF Put, BackoffType
        <5>. QED BY <1>1, <3>1, <4>2, <5>1
      <4>3. CASE attempts' = [attempts EXCEPT ![j] = NoEntry]
        BY <1>4, <2>1, <2>5, <4>3 DEF BackoffType
      <4>. QED BY <3>5, <4>1, <4>2, <4>3 DEF Undo
    <3>. QED BY <2>2, <3>2, <3>3, <3>4, <3>5
  <2>. QED BY <2>4, <2>5
<1>9. CASE EvictStale
  <2>1. Forwarded(k)' = Forwarded(k)
    BY <1>9 DEF EvictStale, loginVars, Forwarded
  <2>. QED BY <1>4, <1>5, <1>9, <2>1 DEF EvictStale
<1>10. CASE Tick
  <2>1. Forwarded(k)' = Forwarded(k)
    BY <1>10 DEF Tick, loginVars, Forwarded
  <2>. QED BY <1>5, <1>10, <2>1 DEF Tick, counterVars
<1>. QED
  BY <1>6, <1>7, <1>8, <1>9, <1>10 DEF Next

\* So every step keeps the invariant ...
LEMMA NextBackoff == BackoffInv /\ [Next]_vars => BackoffInv'
<1>1. ASSUME BackoffInv, Next
      PROVE  BackoffInv'
  BY <1>1, NextType, NextRetry, NextOutage DEF BackoffInv
<1>2. ASSUME BackoffInv, UNCHANGED vars
      PROVE  BackoffInv'
  BY <1>2 DEF vars, counterVars, loginVars, BackoffInv, BackoffType, RetryAfterHonest,
     BlockedUntil, OutageDoesNotAccumulate, Forwarded
<1>. QED
  BY <1>1, <1>2

\* ... and every state of every run of the backoff has it.
LEMMA BackoffInvariant == Spec => []BackoffInv
BY InitBackoff, NextBackoff, PTL DEF Spec

\* RetryAfterHonest, for any number of concurrent logins: a refused client that comes
\* back when it was told to is let through, unless another attempt was.
THEOREM HonestRetryAfter == Spec => []RetryAfterHonest
<1>1. BackoffInv => RetryAfterHonest
  BY DEF BackoffInv
<1>. QED
  BY <1>1, BackoffInvariant, PTL

\* OutageDoesNotAccumulate: a key's count never exceeds its 401s, its attempts in
\* flight and its answers cut short.
THEOREM OutageForgiven == Spec => []OutageDoesNotAccumulate
<1>1. BackoffInv => OutageDoesNotAccumulate
  BY DEF BackoffInv
<1>. QED
  BY <1>1, BackoffInvariant, PTL

-----------------------------------------------------------------------------
(* The gate in front of the backoff *)

\* Behind the gate the backoff runs as it does alone: the gate implements its
\* specification, and what is proved of every run of the backoff holds there.
THEOREM GateImplementsBackoff == GateSpec => Spec
<1>1. GateInit => Init
  BY DEF GateInit
<1>2. [GateNext]_<<vars, gateVars>> => [Next]_vars
  BY DEF GateNext, Enter, AllowIP, EvictIP, Login, Next
<1>. QED
  BY <1>1, <1>2, PTL DEF GateSpec, Spec

\* The span is positive, and within a window.
LEMMA SpanType == Span \in Nat \ {0} /\ Span <= IPWindow
BY GateAssumption DEF Span

\* Whatever header a client sends, directly or through the proxy, its request is held
\* against its own address.
LEMMA OwnAddress ==
  ASSUME NEW source \in Addresses, NEW header \in Headers
  PROVE  /\ clientIP(source, header) = source
         /\ clientIP(Proxy, Append(header, source)) = source
<1>1. clientIP(source, header) = source
  BY GateAssumption DEF clientIP
<1>2. rightmostForwarded(Append(header, source)) = source
  <2>1. header \in Seq(Addresses \cup {Garbage})
    BY GateAssumption
  <2>2. /\ Append(header, source) # <<>>
        /\ Append(header, source)[Len(Append(header, source))] = source
    BY <2>1
  <2>. QED BY <2>2 DEF rightmostForwarded
<1>3. source # Garbage
  BY GateAssumption
<1>. QED
  BY <1>1, <1>2, <1>3 DEF clientIP

\* The three steps of a request at the gate's lock: a new window, one request more in
\* the window, and a refusal.
Opens(a, r) ==
  /\ windows[a] = NoWindow \/ Elapsed(windows[a], readAt[r])
  /\ windows' = [windows EXCEPT ![a] = [count |-> 1, windowStart |-> readAt[r]]]
  /\ gate' = [gate EXCEPT ![r] = "through"]
  /\ admitted' = [admitted EXCEPT ![a] = Append(@, now)]

Joins(a, r) ==
  /\ windows[a] # NoWindow /\ windows[a].count < IPLimit
  /\ windows' = [windows EXCEPT ![a].count = @ + 1]
  /\ gate' = [gate EXCEPT ![r] = "through"]
  /\ admitted' = [admitted EXCEPT ![a] = Append(@, now)]

Limits(a, r) ==
  /\ windows[a] # NoWindow /\ ~Elapsed(windows[a], readAt[r])
  /\ windows[a].count >= IPLimit
  /\ gate' = [gate EXCEPT ![r] = "limited"]
  /\ Admitted(a, now - IPWindow - MaxStall + 1, now) >= IPLimit => spent'[r]
  /\ UNCHANGED <<windows, admitted>>

\* A step of AllowIP is one of the three, for the request's own source.
LEMMA AllowCases ==
  ASSUME GateType, NEW r \in Logins, AllowIP(r)
  PROVE  /\ gate[r] = "clock" /\ caller[r].source \in Addresses
         /\ readAt[r] \in 0..now /\ now <= readAt[r] + MaxStall
         /\ readAt' = [readAt EXCEPT ![r] = 0] /\ caller' = [caller EXCEPT ![r] = NoAddress]
         /\ \E b \in BOOLEAN : spent' = [spent EXCEPT ![r] = b]
         /\ UNCHANGED vars
         /\ \/ Opens(caller[r].source, r)
            \/ Joins(caller[r].source, r)
            \/ Limits(caller[r].source, r)
<1> DEFINE a == caller[r].source
<1>1. /\ gate[r] = "clock" /\ a \in Addresses /\ caller[r].ip = a
      /\ readAt[r] \in 0..now /\ now <= readAt[r] + MaxStall
  BY DEF AllowIP, GateType
<1>2. gate'[r] = "through" => admitted' = [admitted EXCEPT ![a] = Append(@, now)]
  BY DEF AllowIP
<1>3. gate'[r] # "through" => admitted' = admitted
  BY DEF AllowIP
<1>4. ASSUME /\ windows[a] = NoWindow \/ Elapsed(windows[a], readAt[r])
             /\ windows' = [windows EXCEPT ![a] = [count |-> 1, windowStart |-> readAt[r]]]
             /\ gate' = [gate EXCEPT ![r] = "through"]
      PROVE  Opens(a, r)
  <2>1. gate'[r] = "through"
    BY <1>4 DEF GateType
  <2>. QED BY <1>2, <1>4, <2>1 DEF Opens
<1>5. ASSUME /\ windows[a] # NoWindow /\ windows[a].count < IPLimit
             /\ windows' = [windows EXCEPT ![a].count = @ + 1]
             /\ gate' = [gate EXCEPT ![r] = "through"]
      PROVE  Joins(a, r)
  <2>1. gate'[r] = "through"
    BY <1>5 DEF GateType
  <2>. QED BY <1>2, <1>5, <2>1 DEF Joins
<1>6. ASSUME /\ windows[a] # NoWindow /\ ~Elapsed(windows[a], readAt[r])
             /\ windows[a].count >= IPLimit /\ UNCHANGED windows
             /\ gate' = [gate EXCEPT ![r] = "limited"]
      PROVE  Limits(a, r)
  <2>1. gate'[r] # "through"
    BY <1>6 DEF GateType
  <2>2. Admitted(a, now - IPWindow - MaxStall + 1, now) >= IPLimit => spent'[r]
    <3> DEFINE own == Admitted(a, now - IPWindow - MaxStall + 1, now)
               b == gate'[r] = "through" \/ own >= IPLimit
    <3>1. spent' = [spent EXCEPT ![r] = b]
      BY DEF AllowIP
    <3>. HIDE DEF b
    <3>2. spent'[r] = b
      BY <3>1 DEF GateType
    <3>3. own >= IPLimit => b
      BY DEF b
    <3>. QED BY <3>2, <3>3
  <2>. QED BY <1>3, <1>6, <2>1, <2>2 DEF Limits
<1>7. Opens(a, r) \/ Joins(a, r) \/ Limits(a, r)
  BY <1>1, <1>4, <1>5, <1>6 DEF AllowIP
<1>. QED
  BY <1>1, <1>7 DEF AllowIP

\* What one time more does to a sequence of times.
LEMMA AppendTimes ==
  ASSUME NEW T \in Seq(Nat), NEW t \in Nat
  PROVE  /\ Append(T, t) \in Seq(Nat) /\ Len(Append(T, t)) = Len(T) + 1
         /\ Append(T, t)[Len(T) + 1] = t /\ Append(T, t) # <<>>
         /\ \A i \in 1..Len(T) : Append(T, t)[i] = T[i]
OBVIOUS

\* One time more keeps the times spread, if what is two limits before it is a span
\* before it.
LEMMA SpreadAppend ==
  ASSUME NEW T \in Seq(Nat), NEW t \in Nat, Spread(T),
         \A i \in 1..Len(T) : T[i] <= t,
         \A i \in 1..Len(T) : i + 2 * IPLimit = Len(T) + 1 => T[i] + Span <= t
  PROVE  Spread(Append(T, t))
<1> DEFINE U == Append(T, t)
           m == Len(T)
<1>1. /\ U \in Seq(Nat) /\ Len(U) = m + 1 /\ U[m + 1] = t /\ \A i \in 1..m : U[i] = T[i]
      /\ m \in Nat /\ DOMAIN U = 1..(m + 1) /\ DOMAIN T = 1..m
  BY AppendTimes
<1>2. IPLimit \in Nat \ {0}
  BY GateAssumption
<1>. HIDE DEF U
<1>3. ASSUME NEW i \in 1..(m + 1), NEW j \in 1..(m + 1), i <= j
      PROVE  U[i] <= U[j]
  <2>1. CASE j = m + 1 /\ i = m + 1
    BY <1>1, <2>1
  <2>2. CASE j = m + 1 /\ i # m + 1
    BY <1>1, <2>2, SMTT(30)
  <2>3. CASE j # m + 1
    <3>1. i \in 1..m /\ j \in 1..m
      BY <1>1, <1>3, <2>3
    <3>. QED BY <1>1, <1>3, <3>1 DEF Spread
  <2>. QED BY <2>1, <2>2, <2>3
<1>4. ASSUME NEW i \in 1..(m + 1), i + 2 * IPLimit \in 1..(m + 1)
      PROVE  U[i] + Span <= U[i + 2 * IPLimit]
  <2>1. i \in 1..m
    BY <1>1, <1>2, <1>4
  <2>2. CASE i + 2 * IPLimit = m + 1
    BY <1>1, <2>1, <2>2
  <2>3. CASE i + 2 * IPLimit # m + 1
    <3> DEFINE j == i + 2 * IPLimit
    <3>1. j \in 1..m
      <4>1. j \in 1..(m + 1) /\ j # m + 1 /\ m \in Nat
        BY <1>1, <1>4, <2>3
      <4>. HIDE DEF j, m
      <4>. QED BY <4>1
    <3>2. T[i] + Span <= T[j]
      BY <1>1, <2>1, <3>1 DEF Spread
    <3>. HIDE DEF j
    <3>3. U[i] = T[i] /\ U[j] = T[j]
      BY <1>1, <2>1, <3>1
    <3>4. U[i] + Span <= U[j]
      BY <3>2, <3>3
    <3>. QED BY <3>4 DEF j
  <2>. QED BY <2>2, <2>3
<1>. QED
  BY <1>1, <1>3, <1>4 DEF Spread, U

\* The types of what the gate keeps for an address.
LEMMA TimesType ==
  ASSUME GateType, BackoffType, NEW a \in Addresses
  PROVE  /\ admitted[a] \in Seq(Nat) /\ now \in Nat
         /\ \A i \in 1..Len(admitted[a]) : admitted[a][i] \in Nat /\ admitted[a][i] <= now
         /\ windows[a] \in [count : Nat, windowStart : Nat]
<1>1. now \in Nat /\ admitted[a] \in Seq(0..now) /\ windows[a] \in [count : Nat, windowStart : Nat]
  BY DEF GateType, BackoffType
<1>2. ASSUME NEW i \in 1..Len(admitted[a])
      PROVE  admitted[a][i] \in Nat /\ admitted[a][i] <= now
  BY <1>1
<1>3. admitted[a] \in Seq(Nat)
  BY <1>1, <1>2
<1>. QED
  BY <1>1, <1>2, <1>3

\* A new window, a span after the one before it, keeps an address's times spread ...
LEMMA OpensKeeps ==
  ASSUME BackoffType, GateType, NEW a \in Addresses, NEW r \in Logins,
         readAt[r] \in 0..now, now <= readAt[r] + MaxStall, Opens(a, r),
         Spread(admitted[a]), NEW n \in 0..Len(admitted[a]), LastWindow(a, n), now' = now
  PROVE  Spread(admitted'[a]) /\ \E k \in 0..Len(admitted'[a]) : LastWindow(a, k)'
<1> DEFINE T == admitted[a]
           U == admitted'[a]
           w == windows[a]
<1>0. PICK m \in Nat : m = Len(T)
  <2>1. Len(T) \in Nat
    BY TimesType
  <2>. QED BY <2>1
<1>1. /\ T \in Seq(Nat) /\ now \in Nat /\ m = Len(T) /\ m \in Nat /\ n \in 0..m
      /\ \A i \in 1..m : T[i] \in Nat /\ T[i] <= now
      /\ w \in [count : Nat, windowStart : Nat]
  BY <1>0, TimesType
<1>2. IPLimit \in Nat \ {0} /\ IPWindow \in Nat \ {0} /\ MaxStall \in Nat /\ Span \in Nat \ {0}
  BY GateAssumption, SpanType
<1>3. U = Append(T, now)
  BY DEF Opens, GateType
<1>4. /\ U \in Seq(Nat) /\ Len(U) = m + 1 /\ U[m + 1] = now /\ U # <<>>
      /\ \A i \in 1..m : U[i] = T[i]
  <2>. HIDE DEF T, U
  <2>. QED BY <1>1, <1>3, AppendTimes
<1>5. windows'[a] = [count |-> 1, windowStart |-> readAt[r]]
  BY DEF Opens, GateType
<1>6. m - n <= IPLimit /\ (m > 0 => n < m)
  <2>1. m > 0 => T # <<>>
    BY <1>1
  <2>. QED BY <1>1, <2>1 DEF LastWindow
<1>. HIDE DEF U, w
\* The last window is over, by the clock the request read or because it was swept.
<1>7. ASSUME m > 0
      PROVE  T[n + 1] + Span <= now
  <2>1. T # <<>> /\ n + 1 \in 1..m
    BY <1>1, <1>6, <1>7
  <2>2. CASE w = NoWindow
    BY <2>1, <2>2 DEF LastWindow, w
  <2>3. CASE w # NoWindow
    <3>1. readAt[r] - w.windowStart >= IPWindow
      BY <2>3 DEF Opens, Elapsed, w
    <3>2. T[n + 1] - MaxStall <= w.windowStart
      BY <2>3 DEF LastWindow, w
    <3> DEFINE x == T[n + 1]
               y == w.windowStart
    <3>3. x \in Nat /\ y \in Nat
      BY <1>1, <2>1
    <3>. HIDE DEF x, y
    <3>4. x + (IPWindow - MaxStall) <= now
      <4>1. readAt[r] - y >= IPWindow /\ x - MaxStall <= y /\ readAt[r] \in 0..now
        BY <3>1, <3>2 DEF x, y
      <4>. QED BY <1>1, <1>2, <3>3, <4>1
    <3>. QED BY <3>4 DEF x, Span
  <2>. QED BY <2>2, <2>3
<1>8. ASSUME NEW i \in 1..m, i + IPLimit <= m
      PROVE  T[i] + Span <= now
  <2>1. i <= n + 1 /\ n + 1 \in 1..m
    BY <1>1, <1>2, <1>6, <1>8, SMTT(30)
  <2>2. T[i] <= T[n + 1]
    BY <1>1, <2>1, SMTT(30) DEF Spread
  <2>3. T[n + 1] + Span <= now
    BY <1>7, <1>8
  <2>. HIDE DEF T
  <2>4. T[i] \in Nat /\ T[n + 1] \in Nat
    <3> DEFINE k == n + 1
    <3>1. k \in 1..m /\ i \in 1..m
      BY <2>1
    <3>. HIDE DEF k
    <3>2. T[i] \in Nat /\ T[k] \in Nat
      BY <1>1, <3>1
    <3>. QED BY <3>2 DEF k
  <2>. QED BY <1>1, <1>2, <2>2, <2>3, <2>4, SMTT(30)
<1>. HIDE DEF T
<1>9. Spread(U)
  <2>1. \A i \in 1..m : i + 2 * IPLimit = m + 1 => T[i] + Span <= now
    BY <1>1, <1>2, <1>8
  <2>2. \A i \in 1..m : T[i] <= now
    BY <1>1
  <2>3. Spread(T)
    BY DEF T
  <2>. QED BY <1>1, <1>3, <2>1, <2>2, <2>3, SpreadAppend
<1>10. LastWindow(a, m)'
  <2>1. \A i \in 1..m : i + IPLimit <= m => U[i] + Span <= U[m + 1]
    BY <1>4, <1>8
  <2>2. Len(U) - m <= IPLimit /\ m < Len(U)
    BY <1>1, <1>2, <1>4
  <2>3. /\ windows'[a].count > 0 /\ windows'[a].count = Len(U) - m
        /\ U[m + 1] - MaxStall <= windows'[a].windowStart
        /\ windows'[a].windowStart <= U[m + 1]
    BY <1>1, <1>2, <1>4, <1>5
  <2>4. windows'[a] # NoWindow
    BY <1>5 DEF NoWindow
  <2>5. U = admitted'[a]
    BY DEF U
  <2>. QED BY <1>4, <2>1, <2>2, <2>3, <2>4, <2>5 DEF LastWindow
<1>11. m \in 0..Len(U)
  BY <1>1, <1>4
<1>. QED
  BY <1>9, <1>10, <1>11 DEF U

\* ... and so does one request more in a window that has room.
LEMMA JoinsKeeps ==
  ASSUME BackoffType, GateType, NEW a \in Addresses, NEW r \in Logins, Joins(a, r),
         Spread(admitted[a]), NEW n \in 0..Len(admitted[a]), LastWindow(a, n), now' = now
  PROVE  Spread(admitted'[a]) /\ \E k \in 0..Len(admitted'[a]) : LastWindow(a, k)'
<1> DEFINE T == admitted[a]
           U == admitted'[a]
           w == windows[a]
<1>0. PICK m \in Nat : m = Len(T)
  <2>1. Len(T) \in Nat
    BY TimesType
  <2>. QED BY <2>1
<1>1. /\ T \in Seq(Nat) /\ now \in Nat /\ m = Len(T) /\ m \in Nat /\ n \in 0..m
      /\ \A i \in 1..m : T[i] \in Nat /\ T[i] <= now
      /\ w \in [count : Nat, windowStart : Nat]
  BY <1>0, TimesType
<1>2. IPLimit \in Nat \ {0} /\ IPWindow \in Nat \ {0} /\ MaxStall \in Nat /\ Span \in Nat \ {0}
  BY GateAssumption, SpanType
<1>3. U = Append(T, now)
  BY DEF Joins, GateType
<1>4. /\ U \in Seq(Nat) /\ Len(U) = m + 1 /\ U[m + 1] = now /\ U # <<>>
      /\ \A i \in 1..m : U[i] = T[i]
  <2>. HIDE DEF T, U
  <2>. QED BY <1>1, <1>3, AppendTimes
<1>5. /\ windows'[a].count = w.count + 1 /\ windows'[a].windowStart = w.windowStart
      /\ w # NoWindow /\ w.count < IPLimit
  BY <1>1 DEF Joins, GateType
<1>6. /\ w.count > 0 /\ w.count = m - n
      /\ T[n + 1] - MaxStall <= w.windowStart /\ w.windowStart <= T[n + 1]
      /\ \A i \in 1..n : i + IPLimit <= n => T[i] + Span <= T[n + 1]
  BY <1>1, <1>5 DEF LastWindow
<1>7. n + 1 \in 1..m /\ m - n < IPLimit
  BY <1>1, <1>5, <1>6, SMTT(30)
<1>. HIDE DEF T, U, w
<1>8. Spread(U)
  <2>1. ASSUME NEW i \in 1..m, i + 2 * IPLimit = m + 1
        PROVE  T[i] + Span <= now
    <3>1. i \in 1..n /\ i + IPLimit <= n
      BY <1>1, <1>2, <1>7, <2>1
    <3>2. T[i] + Span <= T[n + 1]
      BY <1>6, <3>1
    <3> DEFINE k == n + 1
    <3>3. k \in 1..m /\ T[i] + Span <= T[k]
      BY <1>7, <3>2
    <3>. HIDE DEF k
    <3>4. T[k] <= now /\ T[k] \in Nat /\ T[i] \in Nat
      BY <1>1, <3>3
    <3>. QED BY <1>1, <1>2, <3>3, <3>4
  <2>2. \A i \in 1..m : T[i] <= now
    BY <1>1
  <2>3. Spread(T)
    BY DEF T
  <2>. QED BY <1>1, <1>3, <2>1, <2>2, <2>3, SpreadAppend
<1>9. LastWindow(a, n)'
  <2>1. U[n + 1] = T[n + 1] /\ \A i \in 1..n : U[i] = T[i]
    BY <1>1, <1>4, <1>7
  <2>2. Len(U) - n <= IPLimit /\ n < Len(U)
    BY <1>1, <1>2, <1>4, <1>7, SMTT(30)
  <2>3. /\ windows'[a].count > 0 /\ windows'[a].count = Len(U) - n
    <3>1. windows'[a].count = (m - n) + 1 /\ Len(U) = m + 1
      BY <1>4, <1>5, <1>6
    <3>2. m \in Nat /\ n \in 0..m
      BY <1>1
    <3>. QED BY <3>1, <3>2
  <2>4. windows'[a] # NoWindow
    BY <2>3 DEF NoWindow
  <2>5. U = admitted'[a]
    BY DEF U
  <2>. QED BY <1>4, <1>5, <1>6, <2>1, <2>2, <2>3, <2>4, <2>5 DEF LastWindow
<1>10. n \in 0..Len(U)
  BY <1>1, <1>4
<1>. QED
  BY <1>8, <1>9, <1>10 DEF U

\* A refused request's own source used the limit up: the window's requests are recent.
LEMMA LimitsSpent ==
  ASSUME BackoffType, GateType, NEW a \in Addresses, NEW r \in Logins,
         readAt[r] \in 0..now, now <= readAt[r] + MaxStall, Limits(a, r),
         Spread(admitted[a]), NEW n \in 0..Len(admitted[a]), LastWindow(a, n)
  PROVE  spent'[r]
<1> DEFINE T == admitted[a]
           w == windows[a]
           from == now - IPWindow - MaxStall + 1
           own == {i \in DOMAIN T : from <= T[i] /\ T[i] <= now}
<1>0. PICK m \in Nat : m = Len(T)
  <2>1. Len(T) \in Nat
    BY TimesType
  <2>. QED BY <2>1
<1>1. /\ T \in Seq(Nat) /\ now \in Nat /\ m = Len(T) /\ n \in 0..m /\ DOMAIN T = 1..m
      /\ \A i \in 1..m : T[i] \in Nat /\ T[i] <= now
      /\ w \in [count : Nat, windowStart : Nat]
  BY <1>0, TimesType
<1>2. IPLimit \in Nat \ {0} /\ IPWindow \in Nat \ {0} /\ MaxStall \in Nat
  BY GateAssumption
<1>3. /\ w # NoWindow /\ w.count >= IPLimit /\ readAt[r] - w.windowStart < IPWindow
  BY <1>1, <1>2 DEF Limits, Elapsed
<1>4. w.count = m - n /\ w.windowStart <= T[n + 1]
  BY <1>1, <1>3 DEF LastWindow
<1>. HIDE DEF T, w
<1>5. (n + 1)..m \subseteq own
  <2>1. SUFFICES ASSUME NEW i \in (n + 1)..m
                 PROVE  i \in 1..m /\ from <= T[i] /\ T[i] <= now
    BY <1>1
  <2> DEFINE k == n + 1
  <2>2. k \in 1..m /\ i \in 1..m /\ k <= i /\ w.windowStart <= T[k]
    BY <1>1, <1>4, <2>1
  <2>. HIDE DEF k
  <2>3. T[k] <= T[i]
    BY <1>1, <2>2 DEF Spread, T
  <2>4. T[k] \in Nat /\ T[i] \in Nat /\ T[i] <= now
    BY <1>1, <2>2
  <2>5. from <= w.windowStart
    BY <1>1, <1>2, <1>3, SMTT(30)
  <2>. QED BY <1>1, <1>2, <2>2, <2>3, <2>4, <2>5
<1>6. IsFiniteSet(own)
  <2>1. IsFiniteSet(1..m) /\ own \subseteq 1..m
    BY <1>1, FS_Interval
  <2>. HIDE DEF own
  <2>. QED BY <2>1, FS_Subset
<1>7. Cardinality((n + 1)..m) = m - n
  <2> DEFINE k == n + 1
  <2>1. k \in Int /\ m \in Int /\ m \in Nat /\ n \in 0..m
    BY <1>1
  <2>2. Cardinality(k..m) = IF k > m THEN 0 ELSE m - k + 1
    <3>. HIDE DEF k
    <3>. QED BY <2>1, FS_Interval
  <2>. QED BY <2>1, <2>2
<1>8. Cardinality(own) \in Nat /\ m - n <= Cardinality(own)
  <2>. HIDE DEF own
  <2>. QED BY <1>5, <1>6, <1>7, FS_Subset, FS_CardinalityType
<1>9. Admitted(a, from, now) = Cardinality(own)
  BY DEF Admitted, T
<1>. HIDE DEF own
<1>. QED
  BY <1>1, <1>2, <1>3, <1>4, <1>8, <1>9 DEF Limits

\* The first state has the gate's invariant.
LEMMA InitGate == GateInit => GateInv
<1>. SUFFICES ASSUME GateInit
              PROVE  GateInv
  OBVIOUS
<1>1. BackoffType
  BY InitBackoff DEF GateInit, BackoffInv
<1>2. GateType
  BY DEF GateInit, Init, GateType, NoWindow, NoAddress
<1>3. LimitedForOwnRequests
  BY DEF GateInit, LimitedForOwnRequests
<1>4. ASSUME NEW a \in Addresses
      PROVE  Spread(admitted[a]) /\ \E n \in 0..Len(admitted[a]) : LastWindow(a, n)
  <2>1. admitted[a] = <<>> /\ windows[a] = NoWindow
    BY DEF GateInit
  <2>2. Spread(admitted[a])
    BY <2>1 DEF Spread
  <2>3. LastWindow(a, 0)
    BY <2>1, GateAssumption DEF LastWindow
  <2>. QED BY <2>1, <2>2, <2>3
<1>. QED
  BY <1>1, <1>2, <1>3, <1>4 DEF GateInv

\* A window stays the last one while the clock goes on, and when it is swept.
LEMMA WindowStays ==
  ASSUME BackoffType, GateType, NEW a \in Addresses, NEW n \in 0..Len(admitted[a]),
         LastWindow(a, n), admitted'[a] = admitted[a], now <= now', now' \in Nat,
         \/ windows'[a] = windows[a]
         \/ /\ windows[a] # NoWindow /\ windows'[a] = NoWindow
            /\ \E t \in 0..now : Elapsed(windows[a], t)
  PROVE  LastWindow(a, n)'
<1> DEFINE T == admitted[a]
           w == windows[a]
<1>1. /\ T \in Seq(Nat) /\ now \in Nat /\ n \in 0..Len(T) /\ Len(T) \in Nat
      /\ \A i \in 1..Len(T) : T[i] \in Nat
      /\ w \in [count : Nat, windowStart : Nat]
  BY TimesType
<1>2. /\ Span \in Nat /\ MaxStall \in Nat /\ IPWindow \in Nat
  BY SpanType, GateAssumption
<1>3. CASE windows'[a] = w
  <2>1. ASSUME w = NoWindow, T # <<>>
        PROVE  T[n + 1] + Span <= now'
    <3>1. T[n + 1] + Span <= now /\ n < Len(T)
      BY <2>1 DEF LastWindow
    <3> DEFINE k == n + 1
    <3>2. k \in 1..Len(T) /\ T[k] + Span <= now
      BY <1>1, <3>1
    <3>. HIDE DEF k, T
    <3>3. T[k] \in Nat
      BY <1>1, <3>2
    <3>4. T[k] + Span <= now'
      BY <1>1, <1>2, <3>2, <3>3
    <3>. QED BY <3>4 DEF k
  <2>. QED BY <1>3, <2>1 DEF LastWindow
<1>4. CASE /\ w # NoWindow /\ windows'[a] = NoWindow
           /\ \E t \in 0..now : Elapsed(w, t)
  <2>1. PICK t \in 0..now : t - w.windowStart >= IPWindow
    BY <1>4 DEF Elapsed
  <2>2. T[n + 1] - MaxStall <= w.windowStart /\ w.count > 0 /\ w.count = Len(T) - n
    BY <1>4 DEF LastWindow
  <2>3. T[n + 1] + Span <= now'
    <3> DEFINE k == n + 1
    <3>1. k \in 1..Len(T)
      BY <1>1, <2>2
    <3>2. T[k] - MaxStall <= w.windowStart
      BY <2>2
    <3>. HIDE DEF k, T, w
    <3>3. T[k] \in Nat /\ w.windowStart \in Nat
      BY <1>1, <3>1
    <3>4. T[k] + (IPWindow - MaxStall) <= now'
      BY <1>1, <1>2, <2>1, <3>2, <3>3, SMTT(30)
    <3>. QED BY <3>4 DEF k, Span
  <2>. QED BY <1>4, <2>3 DEF LastWindow
<1>. QED
  BY <1>3, <1>4

\* A sequence over a set is one over a larger set.
LEMMA SeqWidens ==
  ASSUME NEW S, NEW T, S \subseteq T, NEW s \in Seq(S)
  PROVE  s \in Seq(T)
<1>1. \A i \in 1..Len(s) : s[i] \in T
  OBVIOUS
<1>. QED
  BY <1>1

\* Every step keeps the gate's types.
LEMMA NextGateType ==
  ASSUME BackoffType, BackoffType', GateType, GateNext
  PROVE  GateType'
<1>1. now \in Nat /\ now' \in Nat
  BY DEF BackoffType
<1>2. ASSUME NEW r \in Logins, Enter(r)
      PROVE  GateType'
  <2>1. PICK source \in Addresses : caller' = [caller EXCEPT ![r] = [ip |-> source, source |-> source]]
    <3>1. PICK source \in Addresses, header \in Headers, direct \in BOOLEAN :
            LET ip == IF direct THEN clientIP(source, header)
                      ELSE clientIP(Proxy, Append(header, source))
            IN caller' = [caller EXCEPT ![r] = [ip |-> ip, source |-> source]]
      BY <1>2 DEF Enter
    <3>. QED BY <3>1, OwnAddress
  <2>2. /\ gate' = [gate EXCEPT ![r] = "clock"] /\ readAt' = [readAt EXCEPT ![r] = now]
        /\ now' = now /\ windows' = windows /\ admitted' = admitted /\ spent' = spent
    BY <1>2 DEF Enter, vars
  <2>. QED BY <1>1, <2>1, <2>2, GateAssumption DEF GateType
<1>3. ASSUME NEW r \in Logins, AllowIP(r)
      PROVE  GateType'
  <2> DEFINE a == caller[r].source
  <2>1. /\ a \in Addresses /\ readAt[r] \in 0..now
        /\ readAt' = [readAt EXCEPT ![r] = 0] /\ caller' = [caller EXCEPT ![r] = NoAddress]
        /\ \E b \in BOOLEAN : spent' = [spent EXCEPT ![r] = b]
        /\ now' = now
    BY <1>3, AllowCases DEF vars
  <2>2. NoAddress \in [ip : Addresses \cup {Proxy}, source : Addresses \cup {Proxy}]
    BY DEF NoAddress
  <2>3. windows[a] \in [count : Nat, windowStart : Nat] /\ admitted[a] \in Seq(0..now)
    BY <2>1 DEF GateType
  <2>4. CASE Opens(a, r)
    <3>1. windows' \in [Addresses \cup {Proxy} -> [count : Nat, windowStart : Nat]]
      BY <1>1, <2>1, <2>4 DEF Opens, GateType
    <3>2. admitted' \in [Addresses -> Seq(0..now)]
      BY <1>1, <2>1, <2>3, <2>4 DEF Opens, GateType
    <3>. QED BY <1>1, <2>1, <2>2, <2>4, <3>1, <3>2, SMTT(30) DEF Opens, GateType
  <2>5. CASE Joins(a, r)
    <3>1. windows' \in [Addresses \cup {Proxy} -> [count : Nat, windowStart : Nat]]
      <4> DEFINE v == [windows[a] EXCEPT !.count = @ + 1]
      <4>1. v \in [count : Nat, windowStart : Nat]
        BY <2>3
      <4>2. windows' = [windows EXCEPT ![a] = v]
        BY <2>5 DEF Joins
      <4>. HIDE DEF v
      <4>. QED BY <2>1, <4>1, <4>2 DEF GateType
    <3>2. admitted' \in [Addresses -> Seq(0..now)]
      BY <1>1, <2>1, <2>3, <2>5 DEF Joins, GateType
    <3>. QED BY <1>1, <2>1, <2>2, <2>5, <3>1, <3>2, SMTT(30) DEF Joins, GateType
  <2>6. CASE Limits(a, r)
    BY <1>1, <2>1, <2>2, <2>6 DEF Limits, GateType
  <2>. QED BY <1>3, <2>4, <2>5, <2>6, AllowCases
<1>4. ASSUME NEW a \in Addresses \cup {Proxy}, EvictIP(a)
      PROVE  GateType'
  <2>1. NoWindow \in [count : Nat, windowStart : Nat]
    BY DEF NoWindow
  <2>. QED BY <1>4, <2>1 DEF EvictIP, GateType, vars
<1>5. ASSUME now' = now, UNCHANGED gateVars
      PROVE  GateType'
  BY <1>5 DEF GateType, gateVars
<1>6. ASSUME NEW l \in Logins, Login(l)
      PROVE  GateType'
  BY <1>5, <1>6 DEF Login, Arrive, Attempt, Answered
<1>7. CASE EvictStale /\ UNCHANGED gateVars
  BY <1>5, <1>7 DEF EvictStale
<1>8. CASE Prompt /\ Tick /\ UNCHANGED gateVars
  <2>1. now' = now + 1 /\ UNCHANGED gateVars
    BY <1>8 DEF Tick
  <2>2. admitted' \in [Addresses -> Seq(0..now')]
    <3>1. 0..now \subseteq 0..now'
      BY <1>1, <2>1
    <3>2. \A a \in Addresses : admitted[a] \in Seq(0..now')
      <4>1. ASSUME NEW a \in Addresses
            PROVE  admitted[a] \in Seq(0..now')
        <5>1. admitted[a] \in Seq(0..now)
          BY DEF GateType
        <5>. QED BY <3>1, <5>1, SeqWidens
      <4>. QED BY <4>1
    <3>. QED BY <2>1, <3>2 DEF GateType, gateVars
  <2>3. readAt' \in [Logins -> 0..now']
    BY <1>1, <2>1 DEF GateType, gateVars
  <2>4. ASSUME NEW r \in Logins, gate[r] = "clock"
        PROVE  now' <= readAt[r] + MaxStall
    <3>1. now - readAt[r] < MaxStall /\ readAt[r] \in 0..now /\ MaxStall \in Nat
      BY <1>8, <2>4, GateAssumption DEF Prompt, GateType
    <3>. QED BY <1>1, <2>1, <3>1
  <2>. QED BY <1>1, <2>1, <2>2, <2>3, <2>4 DEF GateType, gateVars
<1>. QED
  BY <1>2, <1>3, <1>4, <1>6, <1>7, <1>8 DEF GateNext

\* Every step keeps the gate's invariant ...
LEMMA NextGate == GateInv /\ [GateNext]_<<vars, gateVars>> => GateInv'
<1>1. ASSUME GateInv, GateNext
      PROVE  GateInv'
  <2>1. BackoffType /\ GateType /\ LimitedForOwnRequests
    BY <1>1 DEF GateInv
  <2>2. BackoffType'
    <3>1. Next \/ UNCHANGED vars
      BY <1>1 DEF GateNext, Enter, AllowIP, EvictIP, Login, Next
    <3>2. ASSUME UNCHANGED vars
          PROVE  BackoffType'
      BY <2>1, <3>2 DEF vars, counterVars, loginVars, BackoffType
    <3>. QED BY <2>1, <3>1, <3>2, NextType
  <2>3. GateType'
    BY <1>1, <2>1, <2>2, NextGateType
  <2>4. now \in Nat /\ now' \in Nat
    BY <2>1, <2>2 DEF BackoffType
\* An address whose requests and window a step leaves alone, or whose window is swept.
  <2>5. ASSUME NEW a \in Addresses, admitted'[a] = admitted[a], now <= now',
               \/ windows'[a] = windows[a]
               \/ /\ windows[a] # NoWindow /\ windows'[a] = NoWindow
                  /\ \E t \in 0..now : Elapsed(windows[a], t)
        PROVE  Spread(admitted'[a]) /\ \E n \in 0..Len(admitted'[a]) : LastWindow(a, n)'
    <3>1. PICK n \in 0..Len(admitted[a]) : LastWindow(a, n)
      BY <1>1 DEF GateInv
    <3>2. LastWindow(a, n)'
      BY <2>1, <2>4, <2>5, <3>1, WindowStays
    <3>3. Spread(admitted[a])
      BY <1>1 DEF GateInv
    <3>. QED BY <2>5, <3>2, <3>3
  <2>6. ASSUME LimitedForOwnRequests',
               \A a \in Addresses :
                 Spread(admitted'[a]) /\ \E n \in 0..Len(admitted'[a]) : LastWindow(a, n)'
        PROVE  GateInv'
    BY <2>2, <2>3, <2>6 DEF GateInv
  <2>7. ASSUME UNCHANGED gateVars, now <= now'
        PROVE  GateInv'
    <3>1. LimitedForOwnRequests'
      BY <2>1, <2>7 DEF LimitedForOwnRequests, gateVars
    <3>. QED BY <2>5, <2>6, <2>7, <3>1 DEF gateVars
  <2>8. ASSUME NEW r \in Logins, Enter(r)
        PROVE  GateInv'
    <3>1. LimitedForOwnRequests'
      BY <2>1, <2>8 DEF LimitedForOwnRequests, Enter, GateType
    <3>2. admitted' = admitted /\ windows' = windows /\ now' = now
      BY <2>8 DEF Enter, vars
    <3>. QED BY <2>4, <2>5, <2>6, <3>1, <3>2
  <2>9. ASSUME NEW r \in Logins, AllowIP(r)
        PROVE  GateInv'
    <3>1. PICK a \in Addresses :
            /\ gate[r] = "clock" /\ readAt[r] \in 0..now /\ now <= readAt[r] + MaxStall
            /\ now' = now
            /\ \E b \in BOOLEAN : spent' = [spent EXCEPT ![r] = b]
            /\ Opens(a, r) \/ Joins(a, r) \/ Limits(a, r)
      BY <2>1, <2>9, AllowCases DEF vars
    <3>2. PICK n \in 0..Len(admitted[a]) : LastWindow(a, n)
      BY <1>1 DEF GateInv
    <3>3. Spread(admitted[a])
      BY <1>1 DEF GateInv
    <3>4. ASSUME NEW c \in Addresses, c # a
          PROVE  Spread(admitted'[c]) /\ \E k \in 0..Len(admitted'[c]) : LastWindow(c, k)'
      <4>1. admitted'[c] = admitted[c] /\ windows'[c] = windows[c]
        BY <2>1, <3>1, <3>4 DEF Opens, Joins, Limits, GateType
      <4>. QED BY <2>4, <2>5, <3>1, <4>1
    <3>5. ASSUME gate' = [gate EXCEPT ![r] = "through"]
          PROVE  LimitedForOwnRequests'
      BY <2>1, <3>1, <3>5 DEF LimitedForOwnRequests, GateType
    <3>6. CASE Opens(a, r)
      <4>1. Spread(admitted'[a]) /\ \E k \in 0..Len(admitted'[a]) : LastWindow(a, k)'
        BY <2>1, <3>1, <3>2, <3>3, <3>6, OpensKeeps
      <4>2. LimitedForOwnRequests'
        BY <3>5, <3>6 DEF Opens
      <4>. QED BY <2>6, <3>4, <4>1, <4>2
    <3>7. CASE Joins(a, r)
      <4>1. Spread(admitted'[a]) /\ \E k \in 0..Len(admitted'[a]) : LastWindow(a, k)'
        BY <2>1, <3>1, <3>2, <3>3, <3>7, JoinsKeeps
      <4>2. LimitedForOwnRequests'
        BY <3>5, <3>7 DEF Joins
      <4>. QED BY <2>6, <3>4, <4>1, <4>2
    <3>8. CASE Limits(a, r)
      <4>1. spent'[r]
        BY <2>1, <3>1, <3>2, <3>3, <3>8, LimitsSpent
      <4>2. LimitedForOwnRequests'
        BY <2>1, <3>1, <3>8, <4>1 DEF LimitedForOwnRequests, Limits, GateType
      <4>3. Spread(admitted'[a]) /\ \E k \in 0..Len(admitted'[a]) : LastWindow(a, k)'
        BY <2>4, <2>5, <3>1, <3>8 DEF Limits
      <4>. QED BY <2>6, <3>4, <4>2, <4>3
    <3>. QED BY <3>1, <3>6, <3>7, <3>8
  <2>10. ASSUME NEW e \in Addresses \cup {Proxy}, EvictIP(e)
         PROVE  GateInv'
    <3>1. LimitedForOwnRequests'
      BY <2>1, <2>10 DEF LimitedForOwnRequests, EvictIP
    <3>2. /\ admitted' = admitted /\ now' = now
          /\ windows' = [windows EXCEPT ![e] = NoWindow] /\ windows[e] # NoWindow
          /\ \E t \in 0..now : Elapsed(windows[e], t)
      BY <2>10 DEF EvictIP, vars
    <3>3. ASSUME NEW c \in Addresses
          PROVE  Spread(admitted'[c]) /\ \E k \in 0..Len(admitted'[c]) : LastWindow(c, k)'
      <4>1. c # e => windows'[c] = windows[c]
        BY <2>1, <3>2 DEF GateType
      <4>2. c = e => windows'[c] = NoWindow
        BY <2>1, <3>2 DEF GateType
      <4>. QED BY <2>4, <2>5, <3>2, <4>1, <4>2
    <3>. QED BY <2>6, <3>1, <3>3
  <2>11. ASSUME NEW l \in Logins, Login(l)
         PROVE  GateInv'
    BY <2>4, <2>7, <2>11 DEF Login, Arrive, Attempt, Answered
  <2>12. CASE EvictStale /\ UNCHANGED gateVars
    BY <2>4, <2>7, <2>12 DEF EvictStale
  <2>13. CASE Prompt /\ Tick /\ UNCHANGED gateVars
    BY <2>4, <2>7, <2>13 DEF Tick
  <2>. QED
    BY <1>1, <2>8, <2>9, <2>10, <2>11, <2>12, <2>13 DEF GateNext
<1>2. ASSUME GateInv, UNCHANGED <<vars, gateVars>>
      PROVE  GateInv'
  BY <1>2 DEF vars, counterVars, loginVars, gateVars, GateInv, BackoffType, GateType,
     LimitedForOwnRequests, LastWindow
<1>. QED
  BY <1>1, <1>2

\* ... and every state of every run behind the gate has it.
LEMMA GateInvariant == GateSpec => []GateInv
BY InitGate, NextGate, PTL DEF GateSpec

\* Times that are spread put at most two limits into less than a span.
LEMMA SpreadBudget ==
  ASSUME NEW T \in Seq(Nat), Spread(T), NEW t \in Nat
  PROVE  Cardinality({i \in DOMAIN T : t <= T[i] /\ T[i] <= t + Span - 1}) <= 2 * IPLimit
<1> DEFINE I == {i \in DOMAIN T : t <= T[i] /\ T[i] <= t + Span - 1}
<1>. SUFFICES Cardinality(I) <= 2 * IPLimit
  OBVIOUS
<1>1. IPLimit \in Nat \ {0} /\ Span \in Nat
  BY GateAssumption, SpanType
<1>2. I \subseteq Nat /\ DOMAIN T = 1..Len(T) /\ Len(T) \in Nat
  OBVIOUS
<1>3. CASE I = {}
  <2>. HIDE DEF I
  <2>. QED BY <1>1, <1>3, FS_EmptySet
<1>4. CASE I # {}
  <2>1. PICK x \in I : \A y \in I : x <= y
    <3>. HIDE DEF I
    <3>. QED BY <1>2, <1>4, LeastElement
  <2> DEFINE d == 2 * IPLimit
  <2>2. x \in Nat /\ d \in Nat /\ d > 0
    BY <1>1, <1>2
  <2>3. ASSUME NEW y \in I
        PROVE  y <= x + d - 1
    <3>1. y \in DOMAIN T /\ x \in DOMAIN T /\ y \in Nat /\ x <= y
      BY <1>2, <2>1
    <3>2. SUFFICES ASSUME x + d <= y
                   PROVE  FALSE
      BY <2>2, <3>1
    <3> DEFINE z == x + d
    <3>3. z \in DOMAIN T /\ z <= y
      BY <1>2, <2>2, <3>1, <3>2
    <3>4. T[x] + Span <= T[z]
      BY <3>1, <3>3 DEF Spread
    <3>. HIDE DEF z, d
    <3>5. T[z] <= T[y]
      BY <3>1, <3>3 DEF Spread
    <3>6. T[x] \in Nat /\ T[y] \in Nat /\ T[z] \in Nat /\ t <= T[x] /\ T[y] <= t + Span - 1
      BY <3>1, <3>3
    <3>. QED BY <1>1, <3>4, <3>5, <3>6, SMTT(30)
  <2>4. I \subseteq x..(x + d - 1)
    <3>. HIDE DEF d
    <3>1. ASSUME NEW y \in I
          PROVE  y \in x..(x + d - 1)
      BY <1>2, <2>1, <2>2, <2>3
    <3>. QED BY <3>1
  <2>5. /\ IsFiniteSet(x..(x + d - 1)) /\ Cardinality(x..(x + d - 1)) = d
    <3> DEFINE e == x + d - 1
    <3>1. e \in Int /\ x \in Int /\ e - x + 1 = d /\ ~(x > e)
      BY <2>2
    <3>. HIDE DEF d, e
    <3>2. IsFiniteSet(x..e) /\ Cardinality(x..e) = IF x > e THEN 0 ELSE e - x + 1
      BY <3>1, FS_Interval
    <3>. QED BY <3>1, <3>2 DEF e
  <2>. HIDE DEF I
  <2>6. Cardinality(I) <= Cardinality(x..(x + d - 1))
    BY <2>4, <2>5, FS_Subset
  <2>. QED BY <2>5, <2>6
<1>. QED
  BY <1>3, <1>4

\* BudgetPerSource, for any limit, window and stall, and any number of clients: in any
\* span of a window, less the time a request may wait for the lock, at most twice the
\* limit of a client's requests get through.
THEOREM BudgetKept == GateSpec => []BudgetPerSource
<1>1. ASSUME GateInv
      PROVE  BudgetPerSource
  <2>1. ASSUME NEW a \in Addresses, NEW t \in 0..now
        PROVE  Admitted(a, t, t + IPWindow - MaxStall - 1) <= 2 * IPLimit
    <3>1. admitted[a] \in Seq(Nat) /\ Spread(admitted[a]) /\ t \in Nat
      BY <1>1, TimesType DEF GateInv
    <3>2. t + IPWindow - MaxStall - 1 = t + Span - 1
      BY <3>1, GateAssumption DEF Span
    <3>. QED BY <3>1, <3>2, SpreadBudget DEF Admitted
  <2>. QED BY <2>1 DEF BudgetPerSource
<1>. QED
  BY <1>1, GateInvariant, PTL

\* LimitedForOwnRequests: a client is refused only when its own requests of the last
\* window, and the stalls around it, used the limit up.
THEOREM LimitedFairly == GateSpec => []LimitedForOwnRequests
<1>1. GateInv => LimitedForOwnRequests
  BY DEF GateInv
<1>. QED
  BY <1>1, GateInvariant, PTL

\* What holds of the backoff holds behind the gate.
THEOREM BackoffBehindGate == GateSpec => [](RetryAfterHonest /\ OutageDoesNotAccumulate)
<1>1. BackoffInv => RetryAfterHonest /\ OutageDoesNotAccumulate
  BY DEF BackoffInv
<1>. QED
  BY <1>1, GateImplementsBackoff, BackoffInvariant, PTL
=============================================================================

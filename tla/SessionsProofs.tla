--------------------------- MODULE SessionsProofs ---------------------------
(***************************************************************************)
(* Proofs about the auth service and the browser's session: revocation is  *)
(* exact, one principal is signed in at a time, and a sign-out holds, for  *)
(* any users, requests, lifetimes and number of token pairs.               *)
(***************************************************************************)
EXTENDS Sessions, TLAPS

-----------------------------------------------------------------------------
(* Token pairs *)

\* What is known of a pair of tokens.
PairType == [user : Users, jti : Nat, issued : Nat, after : BOOLEAN]

\* What every step leaves of the pairs there were.
Kept == /\ Len(pairs) <= Len(pairs')
        /\ DOMAIN pairs \subseteq DOMAIN pairs'
        /\ \A n \in DOMAIN pairs : pairs'[n] = pairs[n]

\* A pair that was issued.
LEMMA PairFacts ==
  ASSUME AuthType, NEW n \in DOMAIN pairs
  PROVE  /\ n \in 1..Len(pairs) /\ n \in Nat /\ Len(pairs) \in Nat
         /\ pairs[n].user \in Users /\ pairs[n].jti \in Nat /\ pairs[n].issued \in Nat
         /\ RefreshExpires(n) \in Nat
<1>1. pairs \in Seq(PairType) BY DEF AuthType, PairType
<1>2. n \in 1..Len(pairs) /\ Len(pairs) \in Nat BY <1>1
<1> HIDE DEF PairType
<1>3. pairs[n] \in PairType BY <1>1, <1>2
<1> QED BY <1>2, <1>3, AuthAssumption DEF PairType, RefreshExpires

\* A pair that is issued takes the next index, and leaves the others alone.
LEMMA Issues ==
  ASSUME AuthType, NEW u \in Users, NEW after \in BOOLEAN,
         CanIssue, issueTokenPair(u, after)
  PROVE  /\ pairs' \in Seq(PairType) /\ Kept
         /\ Len(pairs') = Len(pairs) + 1 /\ DOMAIN pairs' = 1..Issued
         /\ Len(pairs) \in Nat /\ DOMAIN pairs = 1..Len(pairs)
         /\ Issued \notin DOMAIN pairs /\ Issued <= MaxPairs /\ Issued \in Nat \ {0}
         /\ pairs'[Issued] = Pair(u, Issued, after)
<1>1. pairs \in Seq(PairType) /\ now \in Nat BY DEF AuthType, PairType
<1>2. Len(pairs) \in Nat /\ DOMAIN pairs = 1..Len(pairs) BY <1>1
<1>3. MaxPairs \in Nat BY AuthAssumption
<1>4. Issued \in Nat /\ Issued <= MaxPairs /\ Issued \notin DOMAIN pairs
  BY <1>2, <1>3 DEF CanIssue, Issued
<1>5. Pair(u, Issued, after) \in PairType BY <1>1, <1>4 DEF Pair, PairType
<1>6. pairs' = Append(pairs, Pair(u, Issued, after)) BY DEF issueTokenPair, Issued
<1> HIDE DEF PairType, Pair
<1>7. /\ pairs' \in Seq(PairType) /\ Len(pairs') = Len(pairs) + 1
      /\ DOMAIN pairs' = 1..Issued /\ pairs'[Issued] = Pair(u, Issued, after)
      /\ \A n \in DOMAIN pairs : pairs'[n] = pairs[n]
  BY <1>1, <1>2, <1>5, <1>6 DEF Issued
<1> QED BY <1>2, <1>4, <1>7 DEF Kept, Issued

\* A step that leaves the pairs alone keeps them.
LEMMA Stays == ASSUME AuthType, UNCHANGED pairs PROVE Kept
BY DEF Kept, AuthType

-----------------------------------------------------------------------------
(* The auth service keeps its invariant *)

\* A step that changes nothing the auth service keeps.
LEMMA AuthRests == ASSUME AuthInv, UNCHANGED authVars PROVE AuthInv'
BY DEF AuthInv, AuthType, OwnJti, EntriesOutlive, LogoutsCover, RefreshesOwn,
   RevocationIsExact, RefreshExpires, authVars, storeVars

\* A pair that is issued to whoever shows a password or a token that is not late.
LEMMA IssueKeeps ==
  ASSUME AuthInv, NEW u \in Users, CanIssue, issueTokenPair(u, FALSE),
         users' \subseteq Users,
         UNCHANGED <<now, revoked, refreshCall, logoutCall, stored, unjust>>
  PROVE  AuthInv' /\ Kept /\ Len(pairs') = Issued /\ pairs'[Issued].user = u
<1> USE DEF AuthInv
<1>1. /\ pairs' \in Seq(PairType) /\ Kept
      /\ Len(pairs') = Len(pairs) + 1 /\ DOMAIN pairs' = 1..Issued
      /\ Len(pairs) \in Nat /\ DOMAIN pairs = 1..Len(pairs)
      /\ Issued \notin DOMAIN pairs /\ Issued <= MaxPairs /\ Issued \in Nat \ {0}
      /\ pairs'[Issued] = Pair(u, Issued, FALSE)
  BY Issues
<1>2. /\ pairs'[Issued].user = u /\ pairs'[Issued].jti = Issued /\ ~pairs'[Issued].after
  BY <1>1 DEF Pair
<1>3. \A n \in DOMAIN pairs' : n \in DOMAIN pairs \/ n = Issued BY <1>1 DEF Issued
<1>4. DOMAIN pairs \subseteq DOMAIN pairs' /\ \A n \in DOMAIN pairs : pairs'[n] = pairs[n]
  BY <1>1 DEF Kept
<1> HIDE DEF Issued
<1>5. AuthType'
  BY <1>1, <1>4 DEF AuthType, PairType
<1>6. OwnJti' BY <1>1, <1>2, <1>3, <1>4 DEF OwnJti
<1>7. EntriesOutlive' BY <1>4 DEF EntriesOutlive, RefreshExpires, AuthType
<1>8. LogoutsCover' BY <1>4 DEF LogoutsCover, RefreshExpires
<1>9. RefreshesOwn' BY <1>4 DEF RefreshesOwn
<1>10. RevocationIsExact' BY <1>2, <1>3, <1>4 DEF RevocationIsExact
<1> QED BY <1>1, <1>2, <1>5, <1>6, <1>7, <1>8, <1>9, <1>10 DEF Issued

\* A refusal with a reason.
LEMMA JustlyDenied ==
  ASSUME AuthInv, NEW n \in DOMAIN pairs, Wrong(n), n \in stored \/ now >= RefreshExpires(n)
  PROVE  unjust' = FALSE
<1>1. now \in Nat /\ RefreshExpires(n) \in Nat BY PairFacts DEF AuthInv, AuthType
<1>2. ~unjust /\ ~(n \notin stored /\ now < RefreshExpires(n))
  BY <1>1 DEF AuthInv, RevocationIsExact
<1>3. (unjust \/ (n \notin stored /\ now < RefreshExpires(n))) = FALSE BY <1>2
<1> QED BY <1>3 DEF Wrong

\* A logout reserves the whole of what is left of its token's life.
LEMMA LogoutKeeps ==
  ASSUME AuthInv, NEW n, Logout(browser, n),
         UNCHANGED <<now, users, pairs, revoked, refreshCall, stored, unjust>>
  PROVE  AuthInv'
<1> USE DEF AuthInv
<1> DEFINE l == logoutCall'[browser]
<1>1. browser \in Clients BY SessionAssumption
<1>2. /\ l = NoLogout \/ /\ n \in DOMAIN pairs /\ now < RefreshExpires(n)
                         /\ pairs[n].jti # NoJti
                         /\ l = [at |-> "revoke", token |-> n, ttl |-> RefreshExpires(n) - now]
      /\ \A c \in Clients \ {browser} : logoutCall'[c] = logoutCall[c]
  BY <1>1 DEF Logout, ValidRefresh, AuthType
<1>3. now \in Nat BY DEF AuthType
<1>4. n \in DOMAIN pairs => RefreshExpires(n) \in Nat /\ n \in Nat BY PairFacts
<1>5. /\ l \in [at : {"none", "revoke"}, token : Nat, ttl : Nat]
      /\ l.at = "revoke" => /\ l.token \in DOMAIN pairs /\ pairs[l.token].jti # NoJti
                            /\ RefreshExpires(l.token) <= now + l.ttl
  <2>1. CASE l = NoLogout BY <2>1 DEF NoLogout, NoToken
  <2>2. CASE l # NoLogout BY <2>2, <1>2, <1>3, <1>4
  <2> QED BY <2>1, <2>2
<1>6. logoutCall' \in [Clients -> [at : {"none", "revoke"}, token : Nat, ttl : Nat]]
  <2>1. logoutCall' = [logoutCall EXCEPT ![browser] = l] BY <1>1 DEF Logout, AuthType
  <2> HIDE DEF l
  <2> QED BY <2>1, <1>5 DEF AuthType
<1> HIDE DEF l
<1>7. AuthType' BY <1>6 DEF AuthType
<1>8. LogoutsCover' BY <1>2, <1>5 DEF LogoutsCover, RefreshExpires, l
<1> QED
  BY <1>7, <1>8 DEF OwnJti, EntriesOutlive, RefreshesOwn, RevocationIsExact, RefreshExpires

\* A refresh call begins, with a token that was issued.  It is denied only when
\* the token has expired.
LEMMA PresentKeeps ==
  ASSUME AuthInv, NEW n \in DOMAIN pairs, Present(browser, n),
         UNCHANGED <<storeVars, pairs>>
  PROVE  /\ AuthInv' /\ refreshCall'[browser].token = n
         /\ refreshCall'[browser].at \in {"check", "denied"}
<1> USE DEF AuthInv
<1> DEFINE f == refreshCall'[browser]
<1>1. browser \in Clients /\ n \in Nat BY SessionAssumption, PairFacts
<1>2. refreshCall \in [Clients -> [at : RefreshSteps, token : Nat, late : BOOLEAN, out : Nat]]
  BY DEF AuthType
<1>3. /\ \/ f = [at |-> "check", token |-> n, late |-> n \in stored, out |-> NoToken]
         \/ f = [NoCall EXCEPT !.at = "denied", !.token = n]
      /\ refreshCall' = [refreshCall EXCEPT ![browser] = f]
      /\ unjust' = FALSE
  <2>1. CASE ValidRefresh(n) /\ UNCHANGED unjust
    <3>1. unjust' = FALSE BY <2>1 DEF AuthType, RevocationIsExact
    <3>2. refreshCall' = [refreshCall EXCEPT ![browser] =
            [at |-> "check", token |-> n, late |-> n \in stored, out |-> NoToken]]
      BY <2>1 DEF Present
    <3> QED BY <3>1, <3>2, <1>1, <1>2
  <2>2. CASE ~ValidRefresh(n) /\ Deny(browser, n)
    <3>1. now >= RefreshExpires(n) BY <2>2, PairFacts, SMTT(30) DEF ValidRefresh, AuthType
    <3>2. unjust' = FALSE BY <2>2, <3>1, JustlyDenied DEF Deny
    <3> QED BY <2>2, <3>2, <1>1, <1>2 DEF Deny
  <2> QED BY <2>1, <2>2 DEF Present
<1>4. /\ f \in [at : RefreshSteps, token : Nat, late : BOOLEAN, out : Nat]
      /\ f.token = n /\ f.at \in {"check", "denied"}
      /\ f.at = "check" => (f.late => n \in stored)
  <2>0. (n \in stored) \in BOOLEAN /\ NoToken \in Nat BY DEF NoToken
  <2> DEFINE late == n \in stored
  <2>1. late \in BOOLEAN /\ (late => n \in stored) BY <2>0
  <2>2. \/ f = [at |-> "check", token |-> n, late |-> late, out |-> NoToken]
        \/ f = [at |-> "denied", token |-> n, late |-> FALSE, out |-> NoToken]
    BY <1>3 DEF NoCall
  <2> HIDE DEF late, f
  <2>3. CASE f = [at |-> "check", token |-> n, late |-> late, out |-> NoToken]
    <3>1. f \in [at : RefreshSteps, token : Nat, late : BOOLEAN, out : Nat]
      BY <2>0, <2>1, <2>3, <1>1 DEF RefreshSteps
    <3>2. f.token = n /\ f.at = "check" BY <2>3
    <3>3. f.late = late BY <2>3
    <3> QED BY <3>1, <3>2, <3>3, <2>1
  <2>4. CASE f = [at |-> "denied", token |-> n, late |-> FALSE, out |-> NoToken]
    BY <2>0, <2>4, <1>1 DEF RefreshSteps
  <2> QED BY <2>2, <2>3, <2>4
<1> HIDE DEF f
<1>5. AuthType' BY <1>2, <1>3, <1>4 DEF AuthType, storeVars
<1>6. RefreshesOwn'
  <2> SUFFICES ASSUME NEW c \in Clients
               PROVE  LET g == refreshCall'[c]
                      IN /\ g.at # "none" => g.token \in DOMAIN pairs
                         /\ g.at = "check" => (g.late => g.token \in stored)
                         /\ g.at = "lookup" => ~g.late
                         /\ g.at = "issued" => /\ g.out \in DOMAIN pairs
                                               /\ pairs[g.out].user = pairs[g.token].user
    BY DEF RefreshesOwn, storeVars
  <2>1. CASE c = browser BY <2>1, <1>4 DEF f
  <2>2. CASE c # browser
    <3>1. refreshCall'[c] = refreshCall[c] BY <2>2, <1>2, <1>3
    <3> QED BY <3>1 DEF RefreshesOwn
  <2> QED BY <2>1, <2>2
<1> QED
  BY <1>3, <1>4, <1>5, <1>6 DEF f, storeVars, OwnJti, EntriesOutlive, LogoutsCover,
     RevocationIsExact, RefreshExpires

\* A refresh call that is over.
LEMMA CallEnds ==
  ASSUME AuthInv, refreshCall' = [refreshCall EXCEPT ![browser] = NoCall],
         UNCHANGED <<storeVars, pairs, unjust>>
  PROVE  AuthInv'
<1> USE DEF AuthInv
<1>1. AuthType' BY DEF AuthType, storeVars, NoCall, NoToken, RefreshSteps
<1>2. RefreshesOwn' BY DEF RefreshesOwn, AuthType, NoCall, storeVars
<1> QED
  BY <1>1, <1>2 DEF storeVars, OwnJti, EntriesOutlive, LogoutsCover,
     RevocationIsExact, RefreshExpires

\* The token of an entry that has not run out was itself revoked, and a revoked
\* token that Redis no longer knows has expired.
LEMMA RedisKnows ==
  ASSUME AuthInv, NEW n \in DOMAIN pairs
  PROVE  /\ now < revoked[pairs[n].jti] => n \in stored
         /\ n \in stored /\ ~(now < revoked[pairs[n].jti]) => now >= RefreshExpires(n)
<1> USE DEF AuthInv
<1>1. /\ n \in Nat /\ pairs[n].jti \in Nat /\ RefreshExpires(n) \in Nat /\ now \in Nat
  BY PairFacts DEF AuthType
<1>2. MaxPairs \in Nat /\ 0 \in 0..MaxPairs BY AuthAssumption
<1>3. CASE pairs[n].jti = NoJti
  <2>1. revoked[pairs[n].jti] = 0 BY <1>2, <1>3 DEF EntriesOutlive, AuthType, NoJti
  <2>2. n \notin stored BY <1>3 DEF EntriesOutlive
  <2> QED BY <1>1, <2>1, <2>2
<1>4. CASE pairs[n].jti # NoJti
  <2>1. pairs[n].jti = n /\ n \in 0..MaxPairs BY <1>1, <1>2, <1>4 DEF OwnJti
  <2>2. revoked[n] \in Nat BY <2>1 DEF AuthType
  <2>3. revoked[n] > 0 => n \in stored BY <2>1 DEF EntriesOutlive, AuthType
  <2>4. n \in stored => RefreshExpires(n) <= revoked[n] BY DEF EntriesOutlive
  <2> QED BY <1>1, <2>1, <2>2, <2>3, <2>4
<1> QED BY <1>3, <1>4

\* The revocation check denies a refresh or passes it on, and touches no other.
LEMMA IsRevokedKeeps ==
  ASSUME AuthInv, NEW c \in Clients, IsRevoked(c)
  PROVE  /\ AuthInv' /\ refreshCall'[c].token = refreshCall[c].token
         /\ refreshCall'[c].at # "none"
         /\ \A d \in Clients \ {c} : refreshCall'[d] = refreshCall[d]
<1> USE DEF AuthInv
<1> DEFINE n == refreshCall[c].token
           f == refreshCall'[c]
<1>1. /\ refreshCall[c].at = "check" /\ n \in DOMAIN pairs
      /\ refreshCall[c].late => n \in stored
      /\ UNCHANGED <<storeVars, pairs>>
  BY DEF IsRevoked, RefreshesOwn
<1>2. /\ refreshCall \in [Clients -> [at : RefreshSteps, token : Nat, late : BOOLEAN, out : Nat]]
      /\ refreshCall[c] \in [at : RefreshSteps, token : Nat, late : BOOLEAN, out : Nat]
  BY DEF AuthType
<1>3. /\ now < revoked[pairs[n].jti] => n \in stored
      /\ n \in stored /\ ~(now < revoked[pairs[n].jti]) => now >= RefreshExpires(n)
  BY <1>1, RedisKnows
<1>4. PICK late \in BOOLEAN :
      \/ /\ refreshCall' = [refreshCall EXCEPT ![c] = [NoCall EXCEPT !.at = "denied", !.token = n]]
         /\ unjust' = FALSE
      \/ /\ ~late /\ unjust' = FALSE
         /\ refreshCall' = [refreshCall EXCEPT ![c].at = "lookup", ![c].late = late]
  <2>1. CASE now < revoked[pairs[n].jti] /\ Deny(c, n)
    <3>1. unjust' = FALSE BY <2>1, <1>1, <1>3, JustlyDenied DEF Deny
    <3> QED BY <2>1, <3>1 DEF Deny
  <2>2. CASE /\ ~(now < revoked[pairs[n].jti]) /\ UNCHANGED unjust
             /\ refreshCall' = [refreshCall EXCEPT ![c].at = "lookup",
                                  ![c].late = refreshCall[c].late /\ ~(now >= RefreshExpires(n))]
    <3>1. ~(refreshCall[c].late /\ ~(now >= RefreshExpires(n))) BY <2>2, <1>1, <1>3
    <3>2. (refreshCall[c].late /\ ~(now >= RefreshExpires(n))) = FALSE BY <3>1
    <3> QED BY <2>2, <3>2 DEF AuthType, RevocationIsExact
  <2>3. CASE /\ refreshCall' = [refreshCall EXCEPT ![c].at = "lookup", ![c].late = FALSE]
             /\ UNCHANGED unjust
    BY <2>3 DEF AuthType, RevocationIsExact
  <2> QED BY <2>1, <2>2, <2>3 DEF IsRevoked
<1>5. /\ f \in [at : RefreshSteps, token : Nat, late : BOOLEAN, out : Nat]
      /\ f.token = n /\ f.at \in {"denied", "lookup"} /\ (f.at = "lookup" => ~f.late)
      /\ refreshCall' = [refreshCall EXCEPT ![c] = f]
      /\ unjust' = FALSE
  <2>1. CASE refreshCall' = [refreshCall EXCEPT ![c] = [NoCall EXCEPT !.at = "denied", !.token = n]]
    BY <2>1, <1>2, <1>4 DEF NoCall, NoToken, RefreshSteps
  <2>2. CASE /\ ~late /\ unjust' = FALSE
             /\ refreshCall' = [refreshCall EXCEPT ![c].at = "lookup", ![c].late = late]
    BY <2>2, <1>2 DEF RefreshSteps
  <2> QED BY <2>1, <2>2, <1>4
<1>9. f.at # "none" /\ f.at # "check" /\ f.at # "issued" BY <1>5
<1> HIDE DEF f
<1>6. \A d \in Clients \ {c} : refreshCall'[d] = refreshCall[d] BY <1>2, <1>5
<1>7. AuthType' BY <1>1, <1>2, <1>5 DEF AuthType, storeVars
<1>8. RefreshesOwn'
  <2> SUFFICES ASSUME NEW d \in Clients
               PROVE  LET g == refreshCall'[d]
                      IN /\ g.at # "none" => g.token \in DOMAIN pairs
                         /\ g.at = "check" => (g.late => g.token \in stored)
                         /\ g.at = "lookup" => ~g.late
                         /\ g.at = "issued" => /\ g.out \in DOMAIN pairs
                                               /\ pairs[g.out].user = pairs[g.token].user
    BY <1>1 DEF RefreshesOwn, storeVars
  <2>1. CASE d = c
    <3>1. refreshCall'[d] = f /\ f.token \in DOMAIN pairs BY <2>1, <1>1, <1>5 DEF f
    <3> QED BY <3>1, <1>5, <1>9
  <2>2. CASE d # c BY <2>2, <1>6 DEF RefreshesOwn
  <2> QED BY <2>1, <2>2
<1> QED
  BY <1>1, <1>5, <1>6, <1>7, <1>8, <1>9 DEF f, storeVars, OwnJti, EntriesOutlive, LogoutsCover,
     RevocationIsExact, RefreshExpires

\* The new pair belongs to the subject of the token that was presented.
LEMMA LookupKeeps ==
  ASSUME AuthInv, NEW c \in Clients, Lookup(c)
  PROVE  /\ AuthInv' /\ Kept /\ refreshCall'[c].token = refreshCall[c].token
         /\ refreshCall'[c].at # "none"
         /\ \A d \in Clients \ {c} : refreshCall'[d] = refreshCall[d]
<1> USE DEF AuthInv
<1> DEFINE n == refreshCall[c].token
           u == pairs[n].user
<1>1. /\ refreshCall[c].at = "lookup" /\ n \in DOMAIN pairs /\ ~refreshCall[c].late
      /\ UNCHANGED <<storeVars, unjust>>
  BY DEF Lookup, RefreshesOwn
<1>2. /\ refreshCall \in [Clients -> [at : RefreshSteps, token : Nat, late : BOOLEAN, out : Nat]]
      /\ refreshCall[c] \in [at : RefreshSteps, token : Nat, late : BOOLEAN, out : Nat]
      /\ u \in Users /\ refreshCall[c].late = FALSE
  BY <1>1, PairFacts DEF AuthType
<1>3. CASE /\ CanIssue /\ issueTokenPair(u, refreshCall[c].late)
           /\ refreshCall' = [refreshCall EXCEPT ![c].at = "issued", ![c].out = Issued]
  <2> DEFINE f == refreshCall'[c]
  <2> HIDE DEF u
  <2>1. issueTokenPair(u, FALSE) BY <1>2, <1>3
  <2>2. /\ pairs' \in Seq(PairType) /\ Kept
        /\ Len(pairs') = Len(pairs) + 1 /\ DOMAIN pairs' = 1..Issued
        /\ Len(pairs) \in Nat /\ DOMAIN pairs = 1..Len(pairs)
        /\ Issued \notin DOMAIN pairs /\ Issued <= MaxPairs /\ Issued \in Nat \ {0}
        /\ pairs'[Issued] = Pair(u, Issued, FALSE)
    BY <1>2, <1>3, <2>1, Issues
  <2>3. /\ pairs'[Issued].user = u /\ pairs'[Issued].jti = Issued /\ ~pairs'[Issued].after
    BY <2>2 DEF Pair
  <2>4. \A m \in DOMAIN pairs' : m \in DOMAIN pairs \/ m = Issued BY <2>2 DEF Issued
  <2>5. DOMAIN pairs \subseteq DOMAIN pairs' /\ \A m \in DOMAIN pairs : pairs'[m] = pairs[m]
    BY <2>2 DEF Kept
  <2>6. Issued \in DOMAIN pairs' BY <2>2
  <2> HIDE DEF Issued
  <2>7. /\ f \in [at : RefreshSteps, token : Nat, late : BOOLEAN, out : Nat]
        /\ f.token = n /\ f.at = "issued" /\ f.out = Issued
        /\ \A d \in Clients \ {c} : refreshCall'[d] = refreshCall[d]
        /\ refreshCall' = [refreshCall EXCEPT ![c] = f]
    BY <1>2, <1>3, <2>2 DEF RefreshSteps
  <2> HIDE DEF f
  <2>8. AuthType' BY <1>1, <1>2, <2>2, <2>5, <2>7 DEF AuthType, PairType, storeVars
  <2>9. OwnJti' BY <2>2, <2>3, <2>4, <2>5 DEF OwnJti
  <2>10. EntriesOutlive'
    BY <1>1, <2>5 DEF EntriesOutlive, RefreshExpires, AuthType, storeVars
  <2>11. LogoutsCover' BY <1>1, <2>5 DEF LogoutsCover, RefreshExpires, storeVars
  <2>12. RefreshesOwn'
    <3> SUFFICES ASSUME NEW d \in Clients
                 PROVE  LET g == refreshCall'[d]
                        IN /\ g.at # "none" => g.token \in DOMAIN pairs'
                           /\ g.at = "check" => (g.late => g.token \in stored)
                           /\ g.at = "lookup" => ~g.late
                           /\ g.at = "issued" => /\ g.out \in DOMAIN pairs'
                                                 /\ pairs'[g.out].user = pairs'[g.token].user
      BY <1>1 DEF RefreshesOwn, storeVars
    <3>1. CASE d = c
      <4>1. refreshCall'[d] = f /\ n \in DOMAIN pairs' /\ pairs'[n].user = u
        BY <3>1, <1>1, <2>5 DEF f, u
      <4> QED BY <4>1, <2>3, <2>6, <2>7
    <3>2. CASE d # c BY <3>2, <2>5, <2>7 DEF RefreshesOwn
    <3> QED BY <3>1, <3>2
  <2>13. RevocationIsExact' BY <1>1, <2>3, <2>4, <2>5 DEF RevocationIsExact
  <2> QED BY <2>2, <2>7, <2>8, <2>9, <2>10, <2>11, <2>12, <2>13 DEF f
<1>4. CASE /\ refreshCall' = [refreshCall EXCEPT ![c].at = "error"]
           /\ UNCHANGED pairs
  <2>1. Kept BY <1>4, Stays
  <2>2. /\ refreshCall'[c] \in [at : RefreshSteps, token : Nat, late : BOOLEAN, out : Nat]
        /\ refreshCall'[c].token = n /\ refreshCall'[c].at = "error"
        /\ \A d \in Clients \ {c} : refreshCall'[d] = refreshCall[d]
    BY <1>2, <1>4 DEF RefreshSteps
  <2>3. AuthType' BY <1>1, <1>2, <1>4, <2>2 DEF AuthType, storeVars
  <2>4. RefreshesOwn' BY <1>1, <1>4, <2>2 DEF RefreshesOwn, storeVars
  <2> QED
    BY <1>1, <1>4, <2>1, <2>2, <2>3, <2>4 DEF storeVars, OwnJti, EntriesOutlive, LogoutsCover,
       RevocationIsExact, RefreshExpires
<1> QED BY <1>3, <1>4 DEF Lookup

\* The entry is written for the token's own jti, and outlives the token.
LEMMA RevokeKeeps == ASSUME AuthInv, NEW c \in Clients, Revoke(c) PROVE AuthInv'
<1> USE DEF AuthInv
<1> DEFINE n == logoutCall[c].token
           t == now + logoutCall[c].ttl
<1>1. /\ n \in DOMAIN pairs /\ pairs[n].jti # NoJti /\ RefreshExpires(n) <= t
      /\ UNCHANGED <<now, users, pairs, refreshCall, unjust>>
      /\ logoutCall' = [logoutCall EXCEPT ![c] = NoLogout]
  BY DEF Revoke, LogoutsCover
<1>2. n \in Nat /\ pairs[n].jti = n /\ n \in 0..MaxPairs /\ RefreshExpires(n) \in Nat \ {0}
  <2>1. n \in 1..Len(pairs) /\ Len(pairs) \in Nat /\ pairs[n].issued \in Nat
    BY <1>1, PairFacts
  <2>2. RefreshExpires(n) \in Nat \ {0} BY <2>1, AuthAssumption, SMTT(30) DEF RefreshExpires
  <2> QED BY <1>1, <2>1, <2>2, AuthAssumption DEF OwnJti
<1>3. t \in Nat BY DEF AuthType
<1>4. \/ revoked' = [revoked EXCEPT ![n] = t] /\ stored' = stored \cup {n}
      \/ UNCHANGED <<revoked, stored>>
  BY <1>2 DEF Revoke
<1> HIDE DEF n, t
<1>5. stored \subseteq stored' /\ stored' \subseteq DOMAIN pairs BY <1>1, <1>4 DEF AuthType
<1>6. AuthType'
  <2>1. revoked' \in [0..MaxPairs -> Nat] BY <1>3, <1>4 DEF AuthType
  <2>2. logoutCall' \in [Clients -> [at : {"none", "revoke"}, token : Nat, ttl : Nat]]
    BY <1>1 DEF AuthType, NoLogout, NoToken
  <2> QED BY <1>1, <1>5, <2>1, <2>2 DEF AuthType
<1>7. EntriesOutlive'
  <2>1. /\ revoked \in [0..MaxPairs -> Nat]
        /\ \A j \in 0..MaxPairs : revoked[j] > 0 => j \in stored /\ j # NoJti
        /\ \A m \in stored : pairs[m].jti # NoJti /\ RefreshExpires(m) <= revoked[m]
    BY DEF EntriesOutlive, AuthType
  <2>2. CASE revoked' = [revoked EXCEPT ![n] = t] /\ stored' = stored \cup {n}
    <3>1. \A j \in 0..MaxPairs : revoked'[j] = IF j = n THEN t ELSE revoked[j]
      BY <2>1, <2>2
    <3>2. DOMAIN revoked' = 0..MaxPairs BY <2>1, <2>2
    <3>3. \A m \in stored : m \in 0..MaxPairs
      <4> TAKE m \in stored
      <4>1. m \in DOMAIN pairs /\ pairs[m].jti # NoJti BY <2>1 DEF AuthType
      <4>2. m \in Nat /\ m <= MaxPairs BY <4>1, PairFacts DEF OwnJti
      <4> QED BY <4>2, AuthAssumption
    <3>4. \A m \in stored' : pairs'[m].jti # NoJti /\ RefreshExpires(m)' <= revoked'[m]
      BY <1>1, <1>2, <2>1, <2>2, <3>1, <3>3 DEF RefreshExpires
    <3>5. n # NoJti BY <1>1, <1>2
    <3>6. \A j \in DOMAIN revoked' : revoked'[j] > 0 => j \in stored' /\ j # NoJti
      BY <2>1, <2>2, <3>1, <3>2, <3>5
    <3> QED BY <3>4, <3>6 DEF EntriesOutlive
  <2>3. CASE UNCHANGED <<revoked, stored>>
    BY <2>3, <1>1 DEF EntriesOutlive, RefreshExpires
  <2> QED BY <2>2, <2>3, <1>4
<1>8. LogoutsCover' BY <1>1 DEF LogoutsCover, RefreshExpires, AuthType, NoLogout
<1>9. RefreshesOwn' BY <1>1, <1>5 DEF RefreshesOwn
<1> QED BY <1>1, <1>6, <1>7, <1>8, <1>9 DEF OwnJti, RevocationIsExact

\* Time passes, and nothing else changes.
LEMMA TickKeeps == ASSUME AuthInv, Tick PROVE AuthInv'
<1> USE DEF AuthInv
<1>1. /\ now \in Nat /\ now' = now + 1
      /\ UNCHANGED <<users, pairs, revoked, refreshCall, logoutCall, stored, unjust>>
  BY DEF Tick, AuthType
<1>2. AuthType' BY <1>1 DEF AuthType
<1>3. LogoutsCover'
  <2> SUFFICES ASSUME NEW c \in Clients, logoutCall[c].at = "revoke"
               PROVE  LET l == logoutCall[c]
                      IN /\ l.token \in DOMAIN pairs /\ pairs[l.token].jti # NoJti
                         /\ RefreshExpires(l.token) <= (now + 1) + l.ttl
    BY <1>1 DEF LogoutsCover, RefreshExpires
  <2> DEFINE n == logoutCall[c].token
  <2>1. /\ n \in DOMAIN pairs /\ pairs[n].jti # NoJti
        /\ RefreshExpires(n) <= now + logoutCall[c].ttl
    BY DEF LogoutsCover
  <2>2. RefreshExpires(n) \in Nat BY <2>1, PairFacts
  <2>3. logoutCall[c].ttl \in Nat BY DEF AuthType
  <2> QED BY <1>1, <2>1, <2>2, <2>3
<1> QED
  BY <1>1, <1>2, <1>3 DEF OwnJti, EntriesOutlive, RefreshesOwn, RevocationIsExact,
     RefreshExpires

-----------------------------------------------------------------------------
(* The session keeps its invariant *)

\* The pairs that are held and carried are known.
LEMMA Carried ==
  ASSUME SessionInv
  PROVE  /\ browser \in Clients /\ me \in Calls /\ me \notin Requests
         /\ Len(pairs) \in Nat /\ DOMAIN pairs = 1..Len(pairs)
         /\ held # NoToken => held \in DOMAIN pairs
         /\ \A r \in Calls : tok[r] # NoToken => tok[r] \in DOMAIN pairs
<1>1. pairs \in Seq(PairType) BY DEF SessionInv, AuthInv, AuthType, PairType
<1> HIDE DEF PairType
<1>2. Len(pairs) \in Nat /\ DOMAIN pairs = 1..Len(pairs) BY <1>1
<1>3. held \in 0..Len(pairs) /\ \A r \in Calls : tok[r] \in 0..Len(pairs)
  BY DEF SessionInv, SessionType
<1> QED BY <1>2, <1>3, SessionAssumption DEF Calls, NoToken

\* The server's steps, and another client's, do not touch the session.
LEMMA Apart ==
  ASSUME SessionInv, AuthInv', Kept, UNCHANGED <<browserVars, markVars>>,
         refreshCall'[browser].token = refreshCall[browser].token,
         refreshCall[browser].at # "none" => refreshCall'[browser].at # "none"
  PROVE  SessionInv'
<1> USE DEF SessionInv, browserVars, markVars
<1>1. /\ Len(pairs) \in Nat /\ DOMAIN pairs = 1..Len(pairs)
      /\ held # NoToken => held \in DOMAIN pairs
      /\ \A r \in Calls : tok[r] # NoToken => tok[r] \in DOMAIN pairs
  BY Carried
<1>2. /\ Len(pairs) <= Len(pairs') /\ Len(pairs') \in Nat
      /\ \A n \in DOMAIN pairs : pairs'[n] = pairs[n]
  <2>1. pairs' \in Seq(PairType) BY DEF AuthInv, AuthType, PairType
  <2> QED BY <2>1 DEF Kept
<1>3. SessionType' BY <1>1, <1>2 DEF SessionType
<1>4. OneSignIn' /\ OwnRequests' BY DEF OneSignIn, OwnRequests
<1>5. OwnPair' BY <1>1, <1>2 DEF OwnPair
<1>6. OwnIdentity' BY <1>1, <1>2 DEF OwnIdentity
<1> QED BY <1>3, <1>4, <1>5, <1>6

\* The server's own steps touch no client.
LEMMA ServerKeeps == ASSUME SessionInv, Server PROVE SessionInv'
<1> USE DEF SessionInv
<1>1. browser \in Clients /\ AuthType BY SessionAssumption DEF AuthInv
<1>2. ASSUME NEW c \in Clients, IsRevoked(c) PROVE SessionInv'
  <2>1. /\ AuthInv' /\ refreshCall'[c].token = refreshCall[c].token
        /\ refreshCall'[c].at # "none"
        /\ \A d \in Clients \ {c} : refreshCall'[d] = refreshCall[d]
    BY <1>2, IsRevokedKeeps
  <2>2. Kept BY <1>1, <1>2, Stays DEF IsRevoked
  <2>3. /\ refreshCall'[browser].token = refreshCall[browser].token
        /\ refreshCall[browser].at # "none" => refreshCall'[browser].at # "none"
    BY <1>1, <2>1
  <2> QED BY <2>1, <2>2, <2>3, Apart DEF Server
<1>3. ASSUME NEW c \in Clients, Lookup(c) PROVE SessionInv'
  <2>1. /\ AuthInv' /\ Kept /\ refreshCall'[c].token = refreshCall[c].token
        /\ refreshCall'[c].at # "none"
        /\ \A d \in Clients \ {c} : refreshCall'[d] = refreshCall[d]
    BY <1>3, LookupKeeps
  <2>2. /\ refreshCall'[browser].token = refreshCall[browser].token
        /\ refreshCall[browser].at # "none" => refreshCall'[browser].at # "none"
    BY <1>1, <2>1
  <2> QED BY <2>1, <2>2, Apart DEF Server
<1>4. ASSUME NEW c \in Clients, Revoke(c) PROVE SessionInv'
  BY <1>1, <1>4, RevokeKeeps, Stays, Apart DEF Server, Revoke
<1>5. CASE Tick BY <1>1, <1>5, TickKeeps, Stays, Apart DEF Server, Tick
<1> QED BY <1>2, <1>3, <1>4, <1>5 DEF Server, AuthStep

\* What Replay issues comes from a token whose revocation is not known to Redis
\* any more, and that has therefore expired, or from one that was not revoked.
LEMMA ReplayKeeps ==
  ASSUME SessionInv, NEW n \in DOMAIN pairs, Replay(n) PROVE SessionInv'
<1> USE DEF SessionInv
<1>1. /\ UNCHANGED <<storeVars, refreshCall, browserVars, markVars>> /\ AuthType
      /\ now \in Nat /\ RefreshExpires(n) \in Nat /\ now < RefreshExpires(n)
  BY PairFacts DEF Replay, ValidRefresh, AuthInv, AuthType
<1>2. /\ now < revoked[pairs[n].jti] => n \in stored
      /\ n \in stored /\ ~(now < revoked[pairs[n].jti]) => now >= RefreshExpires(n)
  BY RedisKnows
<1>3. CASE now < revoked[pairs[n].jti] /\ Wrong(n) /\ UNCHANGED pairs
  <2>1. unjust' = FALSE BY <1>2, <1>3, JustlyDenied
  <2>2. unjust = FALSE BY DEF AuthInv, AuthType, RevocationIsExact
  <2>3. UNCHANGED authVars BY <1>1, <1>3, <2>1, <2>2 DEF authVars
  <2> QED BY <1>1, <2>3, AuthRests, Stays, Apart DEF authVars
<1>4. CASE CanIssue /\ issueTokenPair(pairs[n].user, FALSE) /\ UNCHANGED unjust
  <2>1. AuthInv' /\ Kept
    BY <1>1, <1>4, PairFacts, IssueKeeps DEF storeVars, AuthInv, AuthType
  <2> QED BY <1>1, <2>1, Apart
<1>5. CASE /\ ~(now < revoked[pairs[n].jti])
           /\ CanIssue /\ issueTokenPair(pairs[n].user, n \in stored) /\ UNCHANGED unjust
  <2>1. (n \in stored) = FALSE BY <1>1, <1>2, <1>5
  <2> QED BY <1>4, <1>5, <2>1
<1> QED BY <1>3, <1>4, <1>5 DEF Replay

\* A sign-in begins for the user who types it.
LEMMA SignInKeeps == ASSUME SessionInv, NEW u \in Users, SignIn(u) PROVE SessionInv'
<1> USE DEF SessionInv
<1>1. AuthInv' BY AuthRests DEF SignIn
<1>2. UNCHANGED <<pairs, refreshCall>> BY DEF SignIn, authVars, storeVars
<1>3. SessionType' BY <1>2 DEF SignIn, SessionType
<1>4. OneSignIn' /\ OwnRequests' /\ OwnPair' /\ OwnIdentity'
  BY <1>2 DEF SignIn, OneSignIn, OwnRequests, OwnPair, OwnIdentity
<1> QED BY <1>1, <1>3, <1>4

\* A request is sent with the token the client holds.
LEMMA SendKeeps == ASSUME SessionInv, NEW r \in Requests, Send(r) PROVE SessionInv'
<1> USE DEF SessionInv
<1>1. AuthInv' BY AuthRests DEF Send
<1>2. UNCHANGED <<pairs, refreshCall>> BY DEF Send, authVars, storeVars
<1>3. r \in Calls /\ r # me /\ me \in Calls BY SessionAssumption DEF Calls
<1>4. SessionType' BY <1>2, <1>3 DEF Send, SessionType, Pending
<1>5. OneSignIn' BY <1>3 DEF Send, OneSignIn, SessionType
<1>6. OwnRequests' BY <1>3 DEF Send, OwnRequests, SessionType, Calls
<1>7. OwnPair' BY <1>2 DEF Send, OwnPair
<1>8. OwnIdentity' BY <1>2, <1>3 DEF Send, OwnIdentity, SessionType
<1> QED BY <1>1, <1>4, <1>5, <1>6, <1>7, <1>8

\* The pair a sign-in gets is its user's, and nothing of an earlier session is
\* left to be answered in its name: its requests have all crossed.
LEMMA SignInAnsweredKeeps == ASSUME SessionInv, SignInAnswered PROVE SessionInv'
<1> USE DEF SessionInv
<1>1. /\ signIn = "login" /\ who \in Users /\ user = NoUser /\ ~signedOut
      /\ UNCHANGED <<now, revoked, refreshCall, logoutCall, stored, unjust>>
      /\ UNCHANGED <<user, who, inFlightRefresh, signedOut, crossed>>
  BY DEF SignInAnswered, SessionType, OneSignIn
<1>2. /\ Len(pairs) \in Nat /\ DOMAIN pairs = 1..Len(pairs)
      /\ held # NoToken => held \in DOMAIN pairs
      /\ \A r \in Calls : tok[r] # NoToken => tok[r] \in DOMAIN pairs
      /\ me \in Calls /\ me \notin Requests
  BY Carried
<1>3. CASE (Login(who) \/ Register(who)) /\ establish(Issued)
  <2>1. CanIssue /\ issueTokenPair(who, FALSE) /\ users' \subseteq Users
    BY <1>1, <1>3 DEF Login, Register, AuthInv, AuthType
  <2>2. AuthInv' /\ Kept /\ Len(pairs') = Issued /\ pairs'[Issued].user = who
    BY <1>1, <2>1, IssueKeeps
  <2>3. \A n \in DOMAIN pairs : pairs'[n] = pairs[n] BY <2>2 DEF Kept
  <2>4. Issued = Len(pairs) + 1 BY DEF Issued
  <2>5. /\ held' = Issued /\ signIn' = "me" /\ req' = [req EXCEPT ![me] = "sent"]
        /\ tok' = [tok EXCEPT ![me] = Issued] /\ issuer' = [issuer EXCEPT ![me] = who]
        /\ tainted' = (tainted \/ inFlightRefresh)
    BY <1>3 DEF establish
  <2> HIDE DEF Issued
  <2>6. SessionType'
    <3>1. req' \in [Calls -> Pending \cup {"idle", "ok", "failed", "unauthorized"}]
      BY <2>5 DEF SessionType, Pending
    <3>2. tok' \in [Calls -> 0..Len(pairs')]
      BY <1>2, <2>2, <2>4, <2>5 DEF SessionType
    <3> QED BY <1>1, <1>2, <2>2, <2>4, <2>5, <3>1, <3>2 DEF SessionType
  <2>7. OneSignIn' BY <1>1, <1>2, <2>5 DEF OneSignIn, SessionType
  <2>8. OwnRequests'
    <3>1. \A r \in Requests : r \in Calls /\ r # me BY <1>2 DEF Calls
    <3> QED BY <1>1, <2>5, <3>1 DEF OwnRequests, SessionType
  <2>9. OwnPair' BY <1>1, <2>2, <2>5 DEF OwnPair
  <2>10. OwnIdentity'
    <3>1. \A r \in Calls : /\ tok'[r] = IF r = me THEN Issued ELSE tok[r]
                           /\ issuer'[r] = IF r = me THEN who ELSE issuer[r]
      BY <2>5 DEF SessionType
    <3> SUFFICES ASSUME ~tainted', NEW r \in Calls \ crossed, tok'[r] # NoToken
                 PROVE  pairs'[tok'[r]].user = issuer'[r]
      BY <1>1 DEF OwnIdentity
    <3>2. CASE r = me BY <2>2, <3>1, <3>2
    <3>3. CASE r # me
      <4>1. tok'[r] = tok[r] /\ issuer'[r] = issuer[r] /\ ~tainted BY <2>5, <3>1, <3>3
      <4>2. tok[r] \in DOMAIN pairs BY <1>2, <4>1
      <4> QED BY <2>3, <4>1, <4>2 DEF OwnIdentity
    <3> QED BY <3>2, <3>3
  <2> QED BY <2>2, <2>6, <2>7, <2>8, <2>9, <2>10
<1>4. CASE SignInFails(who) /\ signIn' = "none" /\ UNCHANGED <<held, req, tok, issuer, tainted>>
  <2>1. UNCHANGED pairs /\ users' \subseteq Users
    BY <1>1, <1>4 DEF SignInFails, AuthInv, AuthType
  <2>2. AuthInv'
    BY <1>1, <2>1 DEF AuthInv, AuthType, OwnJti, EntriesOutlive, LogoutsCover, RefreshesOwn,
       RevocationIsExact, RefreshExpires
  <2>3. SessionType' BY <1>1, <1>4, <2>1 DEF SessionType
  <2>4. OneSignIn' /\ OwnRequests' /\ OwnPair' /\ OwnIdentity'
    BY <1>1, <1>4, <2>1 DEF OneSignIn, OwnRequests, OwnPair, OwnIdentity
  <2> QED BY <2>2, <2>3, <2>4
<1> QED BY <1>3, <1>4 DEF SignInAnswered

\* What was in flight crosses the end of the session.
LEMMA SignOutKeeps == ASSUME SessionInv, SignOut PROVE SessionInv'
<1> USE DEF SessionInv
<1>1. /\ user # NoUser /\ signIn = "none" /\ held' = NoToken /\ user' = NoUser /\ signedOut'
      /\ signedOut' = TRUE
      /\ crossed' = crossed \cup {r \in Requests : req[r] \in Pending}
      /\ tainted' = (tainted \/ inFlightRefresh)
      /\ UNCHANGED <<now, users, pairs, revoked, refreshCall, stored, unjust>>
      /\ UNCHANGED <<signIn, who, req, tok, inFlightRefresh, issuer>>
  BY DEF SignOut, clearSession, OneSignIn, SessionType
<1>2. AuthInv'
  <2>1. CASE Logout(browser, held) BY <2>1, <1>1, LogoutKeeps
  <2>2. CASE UNCHANGED logoutCall BY <2>2, <1>1, AuthRests DEF authVars, storeVars
  <2> QED BY <2>1, <2>2 DEF SignOut
<1>3. Len(pairs) \in Nat BY Carried
<1>4. SessionType' BY <1>1, <1>3 DEF SessionType, NoToken
<1>5. OneSignIn' BY <1>1 DEF OneSignIn
<1>6. OwnRequests' BY <1>1 DEF OwnRequests
<1>7. OwnPair' BY <1>1 DEF OwnPair
<1>8. OwnIdentity' BY <1>1 DEF OwnIdentity
<1> QED BY <1>2, <1>4, <1>5, <1>6, <1>7, <1>8

\* A request that ends is not in flight, and carries nothing.  The profile is the
\* signing-in user's, because it was asked for with that user's pair.
LEMMA AnsweredKeeps == ASSUME SessionInv, NEW r \in Calls, Answered(r) PROVE SessionInv'
<1> USE DEF SessionInv
<1>1. /\ AuthInv' /\ UNCHANGED <<pairs, refreshCall, who, inFlightRefresh, signedOut>>
      /\ req[r] \in Pending
  BY AuthRests DEF Answered, authVars, storeVars, Pending
<1>2. /\ Len(pairs) \in Nat /\ DOMAIN pairs = 1..Len(pairs)
      /\ me \in Calls /\ me \notin Requests
  BY Carried
<1>3. PICK outcome \in {"ok", "failed", "unauthorized"} :
         /\ Settle(r, outcome)
         /\ outcome = "ok" => tok[r] \in DOMAIN pairs
  BY DEF Answered, ValidAccess
<1>4. /\ req' = [req EXCEPT ![r] = IF r = me THEN "idle" ELSE outcome]
      /\ tok' = [tok EXCEPT ![r] = NoToken]
      /\ issuer' = [issuer EXCEPT ![r] = NoUser]
  BY <1>3 DEF Settle
<1>5. \A s \in Calls : /\ req'[s] \in Pending => req[s] \in Pending /\ s # r
                       /\ tok'[s] = IF s = r THEN NoToken ELSE tok[s]
                       /\ s # r => issuer'[s] = issuer[s]
  BY <1>4 DEF SessionType, Pending
<1>6. /\ req' \in [Calls -> Pending \cup {"idle", "ok", "failed", "unauthorized"}]
      /\ tok' \in [Calls -> 0..Len(pairs)]
      /\ issuer' \in [Calls -> Users \cup {NoUser}]
  BY <1>2, <1>4 DEF SessionType, NoToken
<1>7. CASE r # me /\ UNCHANGED <<held, user, signIn, crossed, tainted>>
  <2>1. SessionType' BY <1>1, <1>6, <1>7 DEF SessionType
  <2>2. OneSignIn' BY <1>1, <1>2, <1>5, <1>7 DEF OneSignIn
  <2>3. OwnRequests' BY <1>1, <1>5, <1>7 DEF OwnRequests, Calls
  <2>4. OwnPair' BY <1>1, <1>7 DEF OwnPair
  <2>5. OwnIdentity' BY <1>1, <1>5, <1>7 DEF OwnIdentity
  <2> QED BY <1>1, <2>1, <2>2, <2>3, <2>4, <2>5
<1>8. ASSUME r = me, signIn' = "none"
      PROVE  /\ user = NoUser /\ signIn = "me" /\ issuer[me] = who /\ ~signedOut
             /\ \A s \in Requests \ crossed : req[s] \notin Pending
             /\ req'[me] \notin Pending
  BY <1>1, <1>2, <1>5, <1>8 DEF OneSignIn, OwnRequests
<1>9. CASE /\ r = me /\ signIn' = "none" /\ outcome = "ok" /\ user' = pairs[tok[me]].user
           /\ UNCHANGED <<held, crossed, tainted>>
  <2>1. tok[me] \in DOMAIN pairs /\ tok[me] # NoToken BY <1>2, <1>3, <1>9 DEF NoToken
  <2>2. user' \in Users BY <1>9, <2>1, PairFacts DEF AuthInv
  <2>3. SessionType' BY <1>1, <1>6, <1>9, <2>2 DEF SessionType
  <2>4. OneSignIn' BY <1>1, <1>8, <1>9 DEF OneSignIn
  <2>5. OwnRequests' BY <1>5, <1>8, <1>9 DEF OwnRequests, Calls
  <2>6. OwnPair' BY <1>1, <1>8, <1>9 DEF OwnPair
  <2>7. OwnIdentity'
    <3> SUFFICES ASSUME ~tainted' PROVE OwnIdentity' BY DEF OwnIdentity
    <3>1. ~tainted BY <1>9
    <3>2. me \notin crossed BY <1>2 DEF SessionType
    <3>3. pairs[tok[me]].user = who BY <1>2, <1>8, <1>9, <2>1, <3>1, <3>2 DEF OwnIdentity
    <3>4. held # NoToken => pairs[held].user = who BY <1>8, <1>9, <3>1 DEF OwnPair
    <3> QED BY <1>1, <1>5, <1>9, <3>1, <3>3, <3>4 DEF OwnIdentity
  <2> QED BY <1>1, <2>3, <2>4, <2>5, <2>6, <2>7
<1>10. CASE /\ r = me /\ signIn' = "none" /\ clearSession
            /\ tainted' = (tainted \/ inFlightRefresh)
  <2>1. /\ held' = NoToken /\ user' = NoUser
        /\ crossed' = crossed \cup {s \in Requests : req[s] \in Pending}
    BY <1>10 DEF clearSession
  <2>2. SessionType' BY <1>1, <1>2, <1>6, <1>10, <2>1 DEF SessionType, NoToken
  <2>3. OneSignIn' BY <1>1, <1>8, <1>10, <2>1 DEF OneSignIn
  <2>4. OwnRequests' BY <1>5, <1>8, <2>1 DEF OwnRequests, Calls
  <2>5. OwnPair' BY <1>1, <1>8, <1>10, <2>1 DEF OwnPair
  <2>6. OwnIdentity' BY <1>1, <1>5, <1>10, <2>1 DEF OwnIdentity
  <2> QED BY <1>1, <2>2, <2>3, <2>4, <2>5, <2>6
<1>11. CASE r = me /\ signIn' = "none" /\ UNCHANGED <<held, user, crossed, tainted>>
  <2>1. SessionType' BY <1>1, <1>6, <1>11 DEF SessionType
  <2>2. OneSignIn' BY <1>1, <1>8, <1>11 DEF OneSignIn
  <2>3. OwnRequests' BY <1>5, <1>8, <1>11 DEF OwnRequests, Calls
  <2>4. OwnPair' BY <1>1, <1>8, <1>11 DEF OwnPair
  <2>5. OwnIdentity' BY <1>1, <1>5, <1>8, <1>11 DEF OwnIdentity
  <2> QED BY <1>1, <2>1, <2>2, <2>3, <2>4, <2>5
<1> QED BY <1>3, <1>7, <1>9, <1>10, <1>11 DEF Settle

\* A refresh begins with the pair held, or is joined.
LEMMA RefreshKeeps ==
  ASSUME SessionInv, NEW r \in Calls, refreshAccessToken(r) PROVE SessionInv'
<1> USE DEF SessionInv
<1>1. /\ req[r] = "sent" /\ req' = [req EXCEPT ![r] = "waiting"]
      /\ UNCHANGED <<storeVars, pairs, held, user, signIn, who, tok, markVars>>
  BY DEF refreshAccessToken
<1>2. /\ held # NoToken => held \in DOMAIN pairs
      /\ me \in Calls /\ me \notin Requests
  BY Carried
<1>3. /\ AuthInv'
      /\ \/ UNCHANGED <<refreshCall, inFlightRefresh>>
         \/ /\ inFlightRefresh' = TRUE /\ held # NoToken
            /\ held = refreshCall'[browser].token /\ refreshCall'[browser].at # "none"
  <2>1. CASE inFlightRefresh /\ UNCHANGED <<refreshCall, unjust, inFlightRefresh>>
    BY <1>1, <2>1, AuthRests DEF authVars
  <2>2. CASE held # NoToken /\ Present(browser, held) /\ inFlightRefresh' = TRUE
    <3>1. /\ AuthInv' /\ refreshCall'[browser].token = held
          /\ refreshCall'[browser].at \in {"check", "denied"}
      BY <1>1, <1>2, <2>2, PresentKeeps
    <3>2. refreshCall'[browser].at # "none" BY <3>1
    <3> QED BY <2>2, <3>1, <3>2
  <2> QED BY <2>1, <2>2 DEF refreshAccessToken
<1>4. \A s \in Calls : req'[s] \in Pending => req[s] \in Pending
  BY <1>1 DEF SessionType, Pending
<1>5. SessionType'
  <2>1. req' \in [Calls -> Pending \cup {"idle", "ok", "failed", "unauthorized"}]
    BY <1>1 DEF SessionType, Pending
  <2>2. inFlightRefresh' \in BOOLEAN BY <1>3 DEF SessionType
  <2> QED BY <1>1, <2>1, <2>2 DEF SessionType, markVars
<1>6. OneSignIn' BY <1>1, <1>2, <1>4 DEF OneSignIn, markVars
<1>7. OwnRequests' BY <1>1, <1>4 DEF OwnRequests, markVars, Calls
<1>8. OwnPair' BY <1>1, <1>3 DEF OwnPair, markVars
<1>9. OwnIdentity' BY <1>1 DEF OwnIdentity, markVars
<1> QED BY <1>3, <1>5, <1>6, <1>7, <1>8, <1>9

\* What a resolved refresh leaves of the requests: those that waited go on with
\* the new pair, or have ended.
LEMMA Resolved ==
  ASSUME SessionInv, NEW n \in 0..Len(pairs), Resolve(n), UNCHANGED pairs
  PROVE  /\ req' \in [Calls -> Pending \cup {"idle", "ok", "failed", "unauthorized"}]
         /\ tok' \in [Calls -> 0..Len(pairs)]
         /\ issuer' \in [Calls -> Users \cup {NoUser}]
         /\ signIn' \in {"none", "login", "me"} /\ (signIn' = "login" => signIn = "login")
         /\ signIn' \in {signIn, "none"}
         /\ \A r \in Calls : /\ req'[r] \in Pending =>
                                  req[r] \in Pending /\ issuer'[r] = issuer[r]
                             /\ tok'[r] = IF req[r] = "waiting" THEN n ELSE tok[r]
                             /\ tok'[r] # NoToken => issuer'[r] = issuer[r]
         /\ req'[me] \in Pending => signIn' = signIn
<1> USE DEF SessionInv
<1>1. /\ req \in [Calls -> Pending \cup {"idle", "ok", "failed", "unauthorized"}]
      /\ tok \in [Calls -> 0..Len(pairs)] /\ issuer \in [Calls -> Users \cup {NoUser}]
      /\ signIn \in {"none", "login", "me"} /\ me \in Calls
  BY Carried DEF SessionType
<1> DEFINE waiting == {r \in Calls : req[r] = "waiting"}
<1>2. CASE n # NoToken
  <2>1. /\ req' = [r \in Calls |-> IF r \in waiting THEN "resent" ELSE req[r]]
        /\ tok' = [r \in Calls |-> IF r \in waiting THEN n ELSE tok[r]]
        /\ issuer' = [r \in Calls |-> issuer[r]] /\ signIn' = signIn
    BY <1>2 DEF Resolve
  <2> QED BY <1>1, <2>1 DEF Pending
<1>3. CASE n = NoToken
  <2>1. /\ req' = [r \in Calls |-> IF r \notin waiting THEN req[r]
                                   ELSE IF r = me THEN "idle" ELSE "unauthorized"]
        /\ tok' = [r \in Calls |-> IF r \in waiting THEN n ELSE tok[r]]
        /\ issuer' = [r \in Calls |-> IF r \in waiting THEN NoUser ELSE issuer[r]]
        /\ signIn' = IF me \in waiting THEN "none" ELSE signIn
    BY <1>3 DEF Resolve
  <2>2. \A r \in Calls : req'[r] \in Pending => r \notin waiting /\ req[r] \in Pending
    BY <1>1, <2>1 DEF Pending
  <2>3. req' \in [Calls -> Pending \cup {"idle", "ok", "failed", "unauthorized"}]
    BY <1>1, <2>1 DEF Pending
  <2> QED BY <1>1, <1>3, <2>1, <2>2, <2>3
<1> QED BY <1>2, <1>3

\* The refresh resolves: what it brought belongs to the owner of the pair held,
\* and so to everyone who waited for it and has not crossed.
LEMMA ResolveKeeps == ASSUME SessionInv, performRefresh PROVE SessionInv'
<1> USE DEF SessionInv
<1> DEFINE c == refreshCall[browser]
<1>1. /\ inFlightRefresh /\ ~inFlightRefresh'
      /\ inFlightRefresh' = FALSE
      /\ UNCHANGED <<storeVars, pairs, unjust, who, signedOut, tainted>>
      /\ refreshCall' = [refreshCall EXCEPT ![browser] = NoCall]
  BY DEF performRefresh, Resolve
<1>2. AuthInv' BY <1>1, CallEnds
<1>3. /\ Len(pairs) \in Nat /\ DOMAIN pairs = 1..Len(pairs) /\ browser \in Clients
      /\ me \in Calls /\ me \notin Requests
      /\ held # NoToken => held \in DOMAIN pairs
      /\ \A r \in Calls : tok[r] # NoToken => tok[r] \in DOMAIN pairs
  BY Carried
<1>4. ~tainted => /\ held # NoToken /\ held = c.token /\ held \in DOMAIN pairs
                  /\ user # NoUser \/ signIn = "me" => pairs[held].user = who
  BY <1>1, <1>3 DEF OwnPair
<1>5. CASE c.at = "issued" /\ held' = c.out /\ Resolve(c.out) /\ UNCHANGED <<user, crossed>>
  <2> DEFINE n == c.out
  <2>1. n \in DOMAIN pairs /\ pairs[n].user = pairs[c.token].user
    BY <1>3, <1>5 DEF AuthInv, RefreshesOwn
  <2> HIDE DEF n
  <2>2. n \in 0..Len(pairs) /\ n # NoToken /\ held' = n /\ Resolve(n) /\ signIn' = signIn
    BY <1>3, <1>5, <2>1 DEF NoToken, n, Resolve
  <2>3. /\ req' \in [Calls -> Pending \cup {"idle", "ok", "failed", "unauthorized"}]
        /\ tok' \in [Calls -> 0..Len(pairs)]
        /\ issuer' \in [Calls -> Users \cup {NoUser}]
        /\ \A r \in Calls : /\ req'[r] \in Pending =>
                                 req[r] \in Pending /\ issuer'[r] = issuer[r]
                            /\ tok'[r] = IF req[r] = "waiting" THEN n ELSE tok[r]
                            /\ tok'[r] # NoToken => issuer'[r] = issuer[r]
    BY <1>1, <2>2, Resolved
  <2>4. SessionType' BY <1>1, <1>5, <2>2, <2>3 DEF SessionType
  <2>5. OneSignIn' BY <1>1, <1>3, <1>5, <2>2, <2>3 DEF OneSignIn
  <2>6. OwnRequests' BY <1>5, <2>3 DEF OwnRequests, Calls
  <2>7. OwnPair'
    <3>1. ~tainted => ~signedOut BY <1>4 DEF OwnPair
    <3>2. ~tainted => (user # NoUser \/ signIn = "me" => pairs[n].user = who) BY <1>4, <2>1
    <3> QED BY <1>1, <1>5, <2>2, <3>1, <3>2 DEF OwnPair
  <2>8. OwnIdentity'
    <3> SUFFICES ASSUME ~tainted PROVE OwnIdentity' BY <1>1 DEF OwnIdentity
    <3>1. user # NoUser => user = who /\ pairs[n].user = user
      BY <1>4, <2>1 DEF OwnIdentity
    <3>2. ASSUME NEW r \in Calls \ crossed, tok'[r] # NoToken
          PROVE  pairs[tok'[r]].user = issuer'[r]
      <4>1. issuer'[r] = issuer[r] BY <2>3, <3>2
      <4>2. CASE req[r] = "waiting"
        <5>1. tok'[r] = n /\ req[r] \in Pending BY <2>3, <4>2 DEF Pending
        <5>2. CASE r = me
          <6>1. signIn = "me" /\ issuer[r] = who BY <5>1, <5>2 DEF OneSignIn
          <6> QED BY <1>4, <2>1, <4>1, <5>1, <6>1
        <5>3. CASE r # me
          <6>1. user # NoUser /\ issuer[r] = user
            BY <5>1, <5>3 DEF OwnRequests, Calls
          <6> QED BY <3>1, <4>1, <5>1, <6>1
        <5> QED BY <5>2, <5>3
      <4>3. CASE req[r] # "waiting" BY <2>3, <3>2, <4>1, <4>3 DEF OwnIdentity
      <4> QED BY <4>2, <4>3
    <3> QED BY <1>1, <1>5, <2>2, <3>1, <3>2 DEF OwnIdentity
  <2> QED BY <1>2, <2>4, <2>5, <2>6, <2>7, <2>8
<1>6. ASSUME Resolve(NoToken), clearSession \/ UNCHANGED <<held, user, crossed>>
      PROVE  SessionInv'
  <2>1. NoToken \in 0..Len(pairs) BY <1>3 DEF NoToken
  <2>2. /\ req' \in [Calls -> Pending \cup {"idle", "ok", "failed", "unauthorized"}]
        /\ tok' \in [Calls -> 0..Len(pairs)]
        /\ issuer' \in [Calls -> Users \cup {NoUser}]
        /\ signIn' \in {"none", "login", "me"} /\ (signIn' = "login" => signIn = "login")
        /\ signIn' \in {signIn, "none"}
        /\ \A r \in Calls : /\ req'[r] \in Pending =>
                                 req[r] \in Pending /\ issuer'[r] = issuer[r]
                            /\ tok'[r] # NoToken => tok'[r] = tok[r] /\ issuer'[r] = issuer[r]
        /\ req'[me] \in Pending => signIn' = signIn
    BY <1>1, <1>6, <2>1, Resolved
  <2>3. \/ UNCHANGED <<held, user, crossed>>
        \/ /\ held' = NoToken /\ user' = NoUser
           /\ crossed' = crossed \cup {r \in Requests : req[r] \in Pending}
    BY <1>6 DEF clearSession
  <2>4. SessionType' BY <1>1, <2>1, <2>2, <2>3 DEF SessionType
  <2>5. OneSignIn' BY <1>1, <1>3, <2>2, <2>3 DEF OneSignIn
  <2>6. OwnRequests' BY <2>2, <2>3 DEF OwnRequests, Calls
  <2>7. OwnPair' BY <1>1, <2>2, <2>3 DEF OwnPair
  <2>8. OwnIdentity' BY <1>1, <2>2, <2>3 DEF OwnIdentity
  <2> QED BY <1>2, <2>4, <2>5, <2>6, <2>7, <2>8
<1> QED BY <1>5, <1>6 DEF performRefresh

-----------------------------------------------------------------------------
(* The theorems *)

\* The first state has the invariant.
LEMMA SessionInit == Init => SessionInv
<1> SUFFICES ASSUME Init PROVE SessionInv OBVIOUS
<1>1. Len(Stale) \in Nat /\ DOMAIN Stale = 1..Len(Stale) /\ \A i \in DOMAIN Stale : Stale[i] \in Users
  BY AuthAssumption
<1>2. /\ pairs = [i \in 1..Len(Stale) |-> Pair(Stale[i], NoJti, FALSE)] /\ now = 0
      /\ users = {Stale[i] : i \in DOMAIN Stale}
      /\ revoked = [j \in 0..MaxPairs |-> 0]
      /\ refreshCall = [d \in Clients |-> NoCall] /\ logoutCall = [d \in Clients |-> NoLogout]
      /\ stored = {} /\ unjust = FALSE
  BY <1>1 DEF Init, AuthInit
<1>3. \A i \in 1..Len(Stale) : Pair(Stale[i], NoJti, FALSE) \in PairType
  BY <1>1, <1>2 DEF Pair, PairType, NoJti
<1> HIDE DEF PairType
<1>4. pairs \in Seq(PairType)
  <2>1. pairs \in [1..Len(Stale) -> PairType] BY <1>2, <1>3
  <2> QED BY <1>1, <2>1 DEF Seq
<1>5. Len(pairs) = Len(Stale) /\ DOMAIN pairs = 1..Len(Stale) BY <1>1, <1>2
<1>6. \A n \in DOMAIN pairs : pairs[n].user = Stale[n] /\ pairs[n].jti = NoJti /\ ~pairs[n].after
  BY <1>2, <1>5 DEF Pair
<1>7. AuthType
  BY <1>1, <1>2, <1>4 DEF AuthType, PairType, NoCall, NoLogout, NoToken, RefreshSteps
<1>8. AuthInv
  <2>1. OwnJti /\ RevocationIsExact BY <1>2, <1>6 DEF OwnJti, RevocationIsExact
  <2>2. EntriesOutlive BY <1>2 DEF EntriesOutlive
  <2>3. LogoutsCover /\ RefreshesOwn BY <1>2 DEF LogoutsCover, RefreshesOwn, NoCall, NoLogout
  <2> QED BY <1>7, <2>1, <2>2, <2>3 DEF AuthInv
<1>9. /\ held \in {NoToken} \cup {i \in DOMAIN Stale : i = 1}
      /\ user = (IF held = NoToken THEN NoUser ELSE Stale[held]) /\ who = user
      /\ signIn = "none" /\ req = [r \in Calls |-> "idle"] /\ tok = [r \in Calls |-> NoToken]
      /\ inFlightRefresh = FALSE /\ signedOut = FALSE
      /\ issuer = [r \in Calls |-> NoUser] /\ crossed = {} /\ tainted = FALSE
  BY DEF Init
<1>10. held \in 0..Len(pairs) /\ (held # NoToken => held \in DOMAIN pairs /\ user = pairs[held].user)
  BY <1>1, <1>5, <1>6, <1>9 DEF NoToken
<1>11. user \in Users \cup {NoUser} BY <1>1, <1>9
<1>12. SessionType
  <2>1. tok \in [Calls -> 0..Len(pairs)] BY <1>1, <1>5, <1>9 DEF NoToken
  <2>2. /\ req \in [Calls -> Pending \cup {"idle", "ok", "failed", "unauthorized"}]
        /\ issuer \in [Calls -> Users \cup {NoUser}]
    BY <1>9 DEF Pending
  <2> QED BY <1>9, <1>10, <1>11, <2>1, <2>2 DEF SessionType
<1>13. me \in Calls BY DEF Calls
<1>14. OneSignIn /\ OwnRequests /\ OwnPair /\ OwnIdentity
  BY <1>9, <1>10, <1>13 DEF OneSignIn, OwnRequests, OwnPair, OwnIdentity, Pending, Calls
<1> QED BY <1>8, <1>12, <1>14 DEF SessionInv

\* Every step keeps the invariant.
LEMMA SessionNext == SessionInv /\ [Next]_sessionVars => SessionInv'
<1> SUFFICES ASSUME SessionInv, [Next]_sessionVars PROVE SessionInv' OBVIOUS
<1>1. CASE UNCHANGED sessionVars
  <2>1. AuthInv' BY <1>1, AuthRests DEF SessionInv, sessionVars
  <2> QED
    BY <1>1, <2>1, Stays, Apart DEF SessionInv, AuthInv, sessionVars, authVars
<1>2. CASE Next
  BY <1>2, SignInKeeps, SignInAnsweredKeeps, SignOutKeeps, SendKeeps, AnsweredKeeps,
     RefreshKeeps, ResolveKeeps, ReplayKeeps, ServerKeeps DEF Next
<1> QED BY <1>1, <1>2

\* The invariant holds throughout.
LEMMA SessionHolds == Spec => []SessionInv
BY SessionInit, SessionNext, PTL DEF Spec

\* A sign-out takes back its own token for good, and no other: entries of the
\* blocklist outlive the tokens they are for (EntriesOutlive), and every one of
\* them is the entry of a token somebody signed out.
THEOREM RevocationExact == Spec => []RevocationIsExact
<1>1. SessionInv => RevocationIsExact BY DEF SessionInv, AuthInv
<1> QED BY <1>1, SessionHolds, PTL

\* AuthProvider and the API client never mix two users' tokens and requests, and after
\* logout() no answer or retry puts tokens back, as long as no session begins or ends
\* under a shared refresh.
THEOREM OneUserAtATime == Spec => []OnePrincipal
<1>1. SessionInv => OnePrincipal BY DEF SessionInv, OwnPair, OnePrincipal
<1> QED BY <1>1, SessionHolds, PTL
=============================================================================

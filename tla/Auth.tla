-------------------------------- MODULE Auth --------------------------------
(***************************************************************************)
(* The auth service: registration, login, refresh and logout over the      *)
(* users table and a Redis set of revoked tokens whose entries expire with *)
(* the tokens they revoke.  Tokens are stateless: nothing but its own      *)
(* expiry, or a revocation that was stored, takes one back.  A refresh and *)
(* a logout each wait on Redis or Postgres between their steps; both go on *)
(* when Redis fails.                                                       *)
(***************************************************************************)
EXTENDS Naturals, Sequences

CONSTANTS Users,
          Clients,          \* whoever may call refresh and logout
          AccessTokenTTL, RefreshTokenTTL,
          Stale,            \* users signed in before tokens carried a jti
          MaxPairs,         \* bound on the token pairs issued
          MaxTime           \* bound on the clock

ASSUME AuthAssumption ==
  /\ Stale \in Seq(Users)
  /\ AccessTokenTTL \in Nat \ {0}
  /\ RefreshTokenTTL \in Nat \ {0}
  /\ MaxPairs \in Nat /\ MaxTime \in Nat

VARIABLES
  now,
  users,        \* rows of users, each with its account
  pairs,        \* every token pair issued, in order; a token is known by its index
  revoked,      \* Redis: when the entry of each jti runs out, 0 if there is none
  refreshCall,  \* the refresh each client has in flight
  logoutCall,   \* the logout each client has in flight
  \* history, read by no step of the code
  stored,       \* tokens whose own revocation reached Redis
  unjust        \* a refresh was denied that had no reason to be

storeVars == <<now, users, revoked, logoutCall, stored>>
authVars == <<storeVars, pairs, refreshCall, unjust>>

NoToken == 0
NoJti == 0    \* the jti of a token that was issued without one

NoCall == [at |-> "none", token |-> NoToken, late |-> FALSE, out |-> NoToken]
NoLogout == [at |-> "none", token |-> NoToken, ttl |-> 0]

\* A pair is issued for a user at a moment; after is history: its refresh token
\* came from one that was revoked before the refresh began.
Pair(u, jti, after) == [user |-> u, jti |-> jti, issued |-> now, after |-> after]

AuthInit ==
  /\ now = 0
  /\ users = {Stale[i] : i \in DOMAIN Stale}
  /\ pairs = [i \in DOMAIN Stale |-> Pair(Stale[i], NoJti, FALSE)]
  /\ revoked = [j \in 0..MaxPairs |-> 0]
  /\ refreshCall = [c \in Clients |-> NoCall]
  /\ logoutCall = [c \in Clients |-> NoLogout]
  /\ stored = {}
  /\ unjust = FALSE

-----------------------------------------------------------------------------
(* Tokens *)

AccessExpires(n) == pairs[n].issued + AccessTokenTTL
RefreshExpires(n) == pairs[n].issued + RefreshTokenTTL

\* ValidateToken and the token type, for a refresh and for an access token.
ValidRefresh(n) == n \in DOMAIN pairs /\ now < RefreshExpires(n)
ValidAccess(n) == n \in DOMAIN pairs /\ now < AccessExpires(n)

CanIssue == Len(pairs) < MaxPairs
\* Every pair has a jti of its own; refreshing a token does not take it back.
issueTokenPair(u, after) == pairs' = Append(pairs, Pair(u, Len(pairs) + 1, after))
Issued == Len(pairs) + 1

-----------------------------------------------------------------------------
(* Handlers *)

\* Login with the right password, and registration.  User and account commit in
\* one transaction; the unique index refuses a name that is taken.
Login(u) ==
  /\ u \in users /\ CanIssue
  /\ issueTokenPair(u, FALSE)
  /\ UNCHANGED users
Register(u) ==
  /\ u \notin users /\ CanIssue
  /\ issueTokenPair(u, FALSE)
  /\ users' = users \cup {u}
\* No pair comes back: wrong credentials, a name that is taken, a fault before
\* COMMIT, or an acknowledgement lost after it.
SignInFails(u) ==
  /\ UNCHANGED pairs
  /\ users' \in {users, users \cup {u}}

\* ErrTokenInvalid; just if the token has expired or was itself revoked.
Wrong(n) == unjust' = (unjust \/ (n \notin stored /\ now < RefreshExpires(n)))
Deny(c, n) ==
  /\ refreshCall' = [refreshCall EXCEPT ![c] = [NoCall EXCEPT !.at = "denied", !.token = n]]
  /\ Wrong(n)

\* A client presents a refresh token; the signature, the expiry and the type
\* are checked before anything is asked of a store.
Present(c, n) ==
  \/ /\ ValidRefresh(n)
     /\ refreshCall' = [refreshCall EXCEPT ![c] =
          [at |-> "check", token |-> n, late |-> n \in stored, out |-> NoToken]]
     /\ UNCHANGED unjust
  \/ ~ValidRefresh(n) /\ Deny(c, n)

\* GET revoked:{jti}.  An error fails open; so does an entry that has run out
\* with its token since the expiry was checked.
IsRevoked(c) ==
  /\ refreshCall[c].at = "check"
  /\ LET n == refreshCall[c].token
         hit == now < revoked[pairs[n].jti]
         lapsed == now >= RefreshExpires(n)
         pass(late) == refreshCall' = [refreshCall EXCEPT ![c].at = "lookup", ![c].late = late]
     IN \/ hit /\ Deny(c, n)
        \/ ~hit /\ pass(refreshCall[c].late /\ ~lapsed) /\ UNCHANGED unjust
        \/ pass(FALSE) /\ UNCHANGED unjust
  /\ UNCHANGED <<storeVars, pairs>>

\* GetUserByID, then a new pair for the token's subject.
Lookup(c) ==
  /\ refreshCall[c].at = "lookup"
  /\ \/ /\ CanIssue
        /\ issueTokenPair(pairs[refreshCall[c].token].user, refreshCall[c].late)
        /\ refreshCall' = [refreshCall EXCEPT ![c].at = "issued", ![c].out = Issued]
     \/ /\ refreshCall' = [refreshCall EXCEPT ![c].at = "error"]
        /\ UNCHANGED pairs
  /\ UNCHANGED <<storeVars, unjust>>

\* Mutant: the entry lives as long as an access token.
LogoutShortTTL(c, n) ==
  logoutCall' = [logoutCall EXCEPT ![c] =
    IF ValidRefresh(n) /\ pairs[n].jti # NoJti
    THEN [at |-> "revoke", token |-> n, ttl |-> AccessTokenTTL]
    ELSE NoLogout]

\* A token that is invalid, expired or without a jti is refused; otherwise what
\* is left of its life is the entry's.
Logout(c, n) ==
  logoutCall' = [logoutCall EXCEPT ![c] =
    IF ValidRefresh(n) /\ pairs[n].jti # NoJti
    THEN [at |-> "revoke", token |-> n, ttl |-> RefreshExpires(n) - now]
    ELSE NoLogout]

\* SET revoked:{jti} with that TTL; its failure is logged and answered as success.
Revoke(c) ==
  /\ logoutCall[c].at = "revoke"
  /\ LET l == logoutCall[c]
     IN \/ /\ revoked' = [revoked EXCEPT ![pairs[l.token].jti] = now + l.ttl]
           /\ stored' = stored \cup {l.token}
        \/ UNCHANGED <<revoked, stored>>
  /\ logoutCall' = [logoutCall EXCEPT ![c] = NoLogout]
  /\ UNCHANGED <<now, users, pairs, refreshCall, unjust>>

Tick == now < MaxTime /\ now' = now + 1
        /\ UNCHANGED <<users, pairs, revoked, refreshCall, logoutCall, stored, unjust>>

AuthStep == (\E c \in Clients : IsRevoked(c) \/ Lookup(c) \/ Revoke(c)) \/ Tick

-----------------------------------------------------------------------------
(* Properties *)

\* A sign-out takes back exactly its own token.  It is final: a refresh that
\* begins after the revocation was stored gets no pair, as long as Redis answers
\* and the token does not expire under the call.  It spares the others, old tokens
\* without a jti included: a refresh is denied only for a token that has expired
\* or whose own revocation was stored.
RevocationIsExact ==
  /\ \A n \in DOMAIN pairs : ~pairs[n].after
  /\ ~unjust

-----------------------------------------------------------------------------
(* The inductive invariant, for the proofs *)

RefreshSteps == {"none", "check", "lookup", "issued", "denied", "error"}

AuthType ==
  /\ now \in Nat
  /\ users \subseteq Users
  /\ pairs \in Seq([user : Users, jti : Nat, issued : Nat, after : BOOLEAN])
  /\ revoked \in [0..MaxPairs -> Nat]
  /\ refreshCall \in
       [Clients -> [at : RefreshSteps, token : Nat, late : BOOLEAN, out : Nat]]
  /\ logoutCall \in [Clients -> [at : {"none", "revoke"}, token : Nat, ttl : Nat]]
  /\ stored \subseteq DOMAIN pairs
  /\ unjust \in BOOLEAN

\* A jti is the pair's own index, and one that Redis can hold an entry for.
OwnJti ==
  \A n \in DOMAIN pairs : pairs[n].jti # NoJti => pairs[n].jti = n /\ n <= MaxPairs

\* The entries of Redis are those of the tokens whose revocation was stored, and
\* outlive them.
EntriesOutlive ==
  /\ \A j \in DOMAIN revoked : revoked[j] > 0 => j \in stored /\ j # NoJti
  /\ \A n \in stored : pairs[n].jti # NoJti /\ RefreshExpires(n) <= revoked[n]

\* A logout under way holds a token of its own jti, and time enough for it.
LogoutsCover ==
  \A c \in Clients : logoutCall[c].at = "revoke" =>
    LET l == logoutCall[c]
    IN /\ l.token \in DOMAIN pairs /\ pairs[l.token].jti # NoJti
       /\ RefreshExpires(l.token) <= now + l.ttl

\* A refresh under way knows its token, is late only for one that was revoked,
\* has lost that mark once past Redis, and ends with a pair of the same user.
RefreshesOwn ==
  \A c \in Clients :
    LET f == refreshCall[c]
    IN /\ f.at # "none" => f.token \in DOMAIN pairs
       /\ f.at = "check" => (f.late => f.token \in stored)
       /\ f.at = "lookup" => ~f.late
       /\ f.at = "issued" => /\ f.out \in DOMAIN pairs
                             /\ pairs[f.out].user = pairs[f.token].user

AuthInv == AuthType /\ OwnJti /\ EntriesOutlive /\ LogoutsCover /\ RefreshesOwn
           /\ RevocationIsExact
=============================================================================

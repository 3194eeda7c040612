------------------------------ MODULE Sessions ------------------------------
(***************************************************************************)
(* The browser's session on top of the auth service: AuthProvider keeps    *)
(* one token pair and the user it shows, and the API client sends          *)
(* requests, shares one refresh among those that meet a 401, and retries   *)
(* each of them once.  Nothing is cancelled by a sign-out: requests and a  *)
(* refresh in flight go on and are answered later.  A second client        *)
(* replays refresh tokens that were issued to anyone.                      *)
(***************************************************************************)
EXTENDS Auth, FiniteSets

CONSTANTS browser,          \* the client whose calls interleave with everything
          Requests,         \* API requests; each is made once
          me,               \* the request for the profile that ends a sign-in
          NoUser

ASSUME SessionAssumption == /\ me \notin Requests /\ NoUser \notin Users
                            /\ browser \in Clients

VARIABLES
  held,     \* the pair in the refs accessToken and refreshToken
  user,     \* the user shown; NoUser is the login screen
  signIn,   \* the sign-in in flight: "none", "login" or "me"
  who,      \* the user it is for, then the user signed in
  req,      \* the step each request is at, or how it ended
  tok,      \* the token its last attempt carried
  inFlightRefresh,   \* a refresh is shared by whoever waits for one
  \* history, read by no step of the code
  signedOut,   \* the session was ended by the sign-out button
  issuer,      \* the user a request was made for
  crossed,     \* requests in flight when a session ended
  tainted      \* a session began or ended with a refresh in flight

browserVars == <<held, user, signIn, who, req, tok, inFlightRefresh>>
markVars == <<signedOut, issuer, crossed, tainted>>
sessionVars == <<authVars, browserVars, markVars>>

Calls == Requests \cup {me}
Pending == {"sent", "waiting", "resent"}

Init ==
  /\ AuthInit
  \* the login screen, or a tab left open since before tokens had a jti
  /\ held \in {NoToken} \cup {i \in DOMAIN Stale : i = 1}
  /\ user = IF held = NoToken THEN NoUser ELSE Stale[held]
  /\ who = user
  /\ signIn = "none"
  /\ req = [r \in Calls |-> "idle"]
  /\ tok = [r \in Calls |-> NoToken]
  /\ inFlightRefresh = FALSE
  /\ signedOut = FALSE
  /\ issuer = [r \in Calls |-> NoUser]
  /\ crossed = {}
  /\ tainted = FALSE

-----------------------------------------------------------------------------
(* AuthProvider *)

\* clearSession, with the history of what was in flight.
clearSession ==
  /\ held' = NoToken
  /\ user' = NoUser
  /\ crossed' = crossed \cup {r \in Requests : req[r] \in Pending}

\* Mutant: tokens left over from an earlier sign-in are kept.
establishKeepsTokens(n) ==
  /\ held' = IF held = NoToken THEN n ELSE held
  /\ signIn' = "me"
  /\ req' = [req EXCEPT ![me] = "sent"]
  /\ tok' = [tok EXCEPT ![me] = held']
  /\ issuer' = [issuer EXCEPT ![me] = who]
  /\ tainted' = (tainted \/ inFlightRefresh)

\* establish: keep the pair, then ask who it belongs to.
establish(n) ==
  /\ held' = n
  /\ signIn' = "me"
  /\ req' = [req EXCEPT ![me] = "sent"]
  /\ tok' = [tok EXCEPT ![me] = n]
  /\ issuer' = [issuer EXCEPT ![me] = who]
  /\ tainted' = (tainted \/ inFlightRefresh)

\* The form of the login screen is submitted.
SignIn(u) ==
  /\ user = NoUser /\ signIn = "none"
  /\ signIn' = "login" /\ who' = u /\ signedOut' = FALSE
  /\ UNCHANGED <<authVars, held, user, req, tok, inFlightRefresh, issuer, crossed, tainted>>

SignInAnswered ==
  /\ signIn = "login"
  /\ \/ (Login(who) \/ Register(who)) /\ establish(Issued)
     \/ SignInFails(who) /\ signIn' = "none" /\ UNCHANGED <<held, req, tok, issuer, tainted>>
  /\ UNCHANGED <<now, revoked, refreshCall, logoutCall, stored, unjust>>
  /\ UNCHANGED <<user, who, inFlightRefresh, signedOut, crossed>>

\* logout: clear first, then revoke the token that was held.  The call may never
\* reach the server, and nobody waits for it.
SignOut ==
  /\ user # NoUser /\ logoutCall[browser] = NoLogout
  /\ clearSession
  /\ signedOut' = TRUE
  /\ tainted' = (tainted \/ inFlightRefresh)
  /\ Logout(browser, held) \/ UNCHANGED logoutCall
  /\ UNCHANGED <<now, users, pairs, revoked, refreshCall, stored, unjust>>
  /\ UNCHANGED <<signIn, who, req, tok, inFlightRefresh, issuer>>

-----------------------------------------------------------------------------
(* The API client *)

Send(r) ==
  /\ req[r] = "idle" /\ user # NoUser
  /\ req' = [req EXCEPT ![r] = "sent"]
  /\ tok' = [tok EXCEPT ![r] = held]
  /\ issuer' = [issuer EXCEPT ![r] = user]
  /\ UNCHANGED <<authVars, held, user, signIn, who, inFlightRefresh, signedOut, crossed, tainted>>

\* A request ends.  The profile's request ends the sign-in with it: a profile is
\* shown, a 401 drops the pair, and anything else keeps it.
Settle(r, outcome) ==
  /\ req' = [req EXCEPT ![r] = IF r = me THEN "idle" ELSE outcome]
  /\ tok' = [tok EXCEPT ![r] = NoToken]
  /\ issuer' = [issuer EXCEPT ![r] = NoUser]
  /\ \/ r # me /\ UNCHANGED <<held, user, signIn, crossed, tainted>>
     \/ /\ r = me
        /\ signIn' = "none"
        /\ \/ outcome = "ok" /\ user' = pairs[tok[me]].user
              /\ UNCHANGED <<held, crossed, tainted>>
           \/ outcome = "unauthorized" /\ clearSession
              /\ tainted' = (tainted \/ inFlightRefresh)
           \/ outcome = "failed" /\ UNCHANGED <<held, user, crossed, tainted>>

\* The gateway answers: what the token deserves, or a fault or timeout of 10 s.
Answered(r) ==
  /\ req[r] \in {"sent", "resent"}
  /\ \/ ValidAccess(tok[r]) /\ Settle(r, "ok")
     \/ Settle(r, "failed")
     \/ ~ValidAccess(tok[r]) /\ req[r] = "resent" /\ Settle(r, "unauthorized")
     \/ ~ValidAccess(tok[r]) /\ req[r] = "sent" /\ ~inFlightRefresh /\ held = NoToken
        /\ Settle(r, "unauthorized")
  /\ UNCHANGED <<authVars, who, inFlightRefresh, signedOut>>

\* A first 401 with a refresh token at hand: join the refresh in flight, or
\* begin one with the token held now.
refreshAccessToken(r) ==
  /\ req[r] = "sent" /\ ~ValidAccess(tok[r])
  /\ \/ inFlightRefresh /\ UNCHANGED <<refreshCall, unjust, inFlightRefresh>>
     \/ /\ ~inFlightRefresh /\ held # NoToken
        /\ Present(browser, held)
        /\ inFlightRefresh' = TRUE
  /\ req' = [req EXCEPT ![r] = "waiting"]
  /\ UNCHANGED <<storeVars, pairs, held, user, signIn, who, tok, markVars>>

\* The shared promise resolves and everyone who waits goes on: with a token,
\* to the one retry; without, to the 401 it came with.
Resolve(n) ==
  LET waiting == {r \in Calls : req[r] = "waiting"}
      retried == [r \in Calls |-> IF r \in waiting THEN "resent" ELSE req[r]]
      given == [r \in Calls |-> IF r \notin waiting THEN req[r]
                                ELSE IF r = me THEN "idle" ELSE "unauthorized"]
  IN /\ inFlightRefresh' = FALSE
     /\ refreshCall' = [refreshCall EXCEPT ![browser] = NoCall]
     /\ req' = IF n # NoToken THEN retried ELSE given
     /\ tok' = [r \in Calls |-> IF r \in waiting THEN n ELSE tok[r]]
     /\ issuer' = [r \in Calls |-> IF n = NoToken /\ r \in waiting THEN NoUser ELSE issuer[r]]
     /\ signIn' = IF n = NoToken /\ me \in waiting THEN "none" ELSE signIn

\* Mutant: the refresh is sent like any other request, and its own 401 joins
\* the refresh in flight.
performRefreshIntercepted ==
  /\ inFlightRefresh
  /\ refreshCall[browser].at # "denied"
  /\ LET c == refreshCall[browser]
     IN \/ c.at = "issued" /\ held' = c.out /\ Resolve(c.out) /\ UNCHANGED <<user, crossed>>
        \/ c.at = "error" /\ clearSession /\ Resolve(NoToken)
        \/ Resolve(NoToken)
           /\ IF req[me] = "waiting" THEN clearSession ELSE UNCHANGED <<held, user, crossed>>
  /\ UNCHANGED <<storeVars, pairs, unjust, who, signedOut, tainted>>

\* performRefresh goes on: a new pair is kept whoever is signed in by now, any
\* refusal clears the session, and silence leaves it as it was (but the profile's
\* own 401 still drops the pair).
performRefresh ==
  /\ inFlightRefresh
  /\ LET c == refreshCall[browser]
     IN \/ c.at = "issued" /\ held' = c.out /\ Resolve(c.out) /\ UNCHANGED <<user, crossed>>
        \/ c.at \in {"denied", "error"} /\ clearSession /\ Resolve(NoToken)
        \/ Resolve(NoToken)
           /\ IF req[me] = "waiting" THEN clearSession ELSE UNCHANGED <<held, user, crossed>>
  /\ UNCHANGED <<storeVars, pairs, unjust, who, signedOut, tainted>>

-----------------------------------------------------------------------------
(* The other client: any refresh token ever issued, presented again *)

\* One call from end to end.  Its own pair is as good as any.
Replay(n) ==
  /\ ValidRefresh(n)
  /\ LET hit == now < revoked[pairs[n].jti]
         issue(after) == CanIssue /\ issueTokenPair(pairs[n].user, after) /\ UNCHANGED unjust
     IN \/ hit /\ Wrong(n) /\ UNCHANGED pairs
        \/ ~hit /\ issue(n \in stored)
        \/ issue(FALSE)
  /\ UNCHANGED <<storeVars, refreshCall, browserVars, markVars>>

Server == AuthStep /\ UNCHANGED <<browserVars, markVars>>

Next ==
  \/ \E u \in Users : SignIn(u)
  \/ SignInAnswered
  \/ SignOut
  \/ \E r \in Requests : Send(r)
  \/ \E r \in Calls : Answered(r) \/ refreshAccessToken(r)
  \/ performRefresh
  \/ \E n \in DOMAIN pairs : Replay(n)
  \/ Server

\* Every fetch carries an AbortSignal.timeout of its own.
Fairness == /\ \A r \in Calls : WF_sessionVars(Answered(r) \/ refreshAccessToken(r))
            /\ WF_sessionVars(performRefresh)

Spec == Init /\ [][Next]_sessionVars
FairSpec == Spec /\ Fairness

-----------------------------------------------------------------------------
(* Properties *)

\* The user on the screen, the owner of the tokens held and the user who signed in
\* last are the same, and every attempt of a request is made in the name of the user
\* it was made for.
OwnIdentity ==
  ~tainted =>
    /\ user # NoUser => user = who
    /\ user # NoUser /\ held # NoToken => pairs[held].user = user
    /\ \A r \in Calls \ crossed : tok[r] # NoToken => pairs[tok[r]].user = issuer[r]

\* One principal at a time, and none once it has signed out: identities do not mix, and
\* no late answer or retry brings back the tokens of a session that was ended.  Exempt
\* are a session begun or ended with a refresh in flight, and requests in flight when
\* one ended.
OnePrincipal == OwnIdentity /\ (signedOut /\ ~tainted => held = NoToken)

\* Every request ends, through 401s, a shared refresh and its failure.
EveryRequestSettles ==
  \A r \in Calls : req[r] \in Pending ~> req[r] \notin Pending

-----------------------------------------------------------------------------
(* The inductive invariant, for the proofs *)

SessionType ==
  /\ held \in 0..Len(pairs)
  /\ user \in Users \cup {NoUser} /\ who \in Users \cup {NoUser}
  /\ signIn \in {"none", "login", "me"}
  /\ signIn = "login" => who \in Users
  /\ req \in [Calls -> Pending \cup {"idle", "ok", "failed", "unauthorized"}]
  /\ tok \in [Calls -> 0..Len(pairs)]
  /\ issuer \in [Calls -> Users \cup {NoUser}]
  /\ crossed \subseteq Requests
  /\ inFlightRefresh \in BOOLEAN /\ signedOut \in BOOLEAN /\ tainted \in BOOLEAN

\* The login screen is up until the profile is known; the profile's request
\* belongs to the sign-in under way, and nobody is signing in after a sign-out.
OneSignIn ==
  /\ signIn # "none" => user = NoUser
  /\ req[me] \in Pending => signIn = "me" /\ issuer[me] = who
  /\ signedOut => signIn = "none" /\ user = NoUser

\* A request in flight is the shown user's own, or crossed the end of a session.
OwnRequests ==
  \A r \in Requests \ crossed : req[r] \in Pending => user # NoUser /\ issuer[r] = user

\* Unless a session began or ended under a refresh, the refresh in flight is of
\* the pair held, and the pair held is that of the user signed in or signing in.
OwnPair ==
  ~tainted =>
    /\ inFlightRefresh =>
         /\ held # NoToken /\ held = refreshCall[browser].token
         /\ refreshCall[browser].at # "none"
    /\ held # NoToken /\ (user # NoUser \/ signIn = "me") => pairs[held].user = who
    /\ signedOut => held = NoToken

SessionInv == AuthInv /\ SessionType /\ OneSignIn /\ OwnRequests /\ OwnPair /\ OwnIdentity
=============================================================================

\* Two users, one browser with a request beside the sign-in's own, and a client
\* replaying tokens; a
\* refresh token lives two instants, an access token one.
SPECIFICATION FairSpec
CONSTANTS
  u1 = u1
  u2 = u2
  Users = {u1, u2}
  Stale <- MCStale
  browser = browser
  Clients = {browser}
  Requests = {r1}
  me = me
  NoUser = NoUser
  AccessTokenTTL = 1
  RefreshTokenTTL = 2
  MaxPairs = 4
  MaxTime = 2
INVARIANTS RevocationIsExact OnePrincipal
PROPERTY EveryRequestSettles
CHECK_DEADLOCK FALSE

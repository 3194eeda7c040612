\* Logins for one account, the first free of charge, delays of 2 and then the cap
\* of 3; one request per address in a window of 3.
SPECIFICATION GateSpec
CONSTANTS
  Logins = {l1, l2, l3}
  k1 = k1
  Keys = {k1}
  Emails = {"foo@x", ""}
  Key <- MCKey
  NoKey = NoKey
  FreeFailures = 1
  BaseDelay = 2
  MaxDelay = 3
  Verdicts = {"401", "200", "other", "aborted"}
  MaxTime = 4
  Addresses = {a1, a2}
  Proxy = Proxy
  Garbage = Garbage
  Headers <- MCHeaders
  IPLimit = 1
  IPWindow = 3
  MaxStall = 1
SYMMETRY Symmetry
INVARIANTS RetryAfterHonest OutageDoesNotAccumulate BudgetPerSource LimitedForOwnRequests
CHECK_DEADLOCK FALSE

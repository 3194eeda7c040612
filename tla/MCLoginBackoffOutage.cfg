\* Wrong passwords, then an outage of the auth service.
SPECIFICATION Spec
CONSTANTS
  Logins = {l1, l2, l3, l4}
  k1 = k1
  Keys = {k1}
  Emails = {"foo@x", ""}
  Key <- MCKey
  NoKey = NoKey
  FreeFailures = 0
  BaseDelay = 1
  MaxDelay = 3
  Verdicts = {"401", "other"}
  MaxTime = 4
INVARIANT RefusedForCause
CHECK_DEADLOCK FALSE

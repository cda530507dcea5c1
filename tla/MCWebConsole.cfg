SPECIFICATION FairConsoleSpec
CONSTANTS
  Ids = {s1, s2}
  TTL = 1
  MaxTime = 2
  MaxRenewals = 2
  MaxFaults = 2
CHECK_DEADLOCK FALSE
INVARIANTS
  PinsStayValid
  UIHasPair
  RefusedForGood
PROPERTIES
  RenewalPickedUp
  SessionsKept

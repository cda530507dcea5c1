SPECIFICATION Spec
CONSTANTS
  Netmaps <- MCNetmaps
  Prefixes = {"lan", "lab"}
  Ports = {443}
  Nothing = Nothing
  MaxApplies = 2
  MaxFaults = 2
  MaxRestarts = 1
CHECK_DEADLOCK FALSE
INVARIANTS
  AppliedIsInForce
  CleanExit
  NoRouteLeaks

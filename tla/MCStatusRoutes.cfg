SPECIFICATION FairSpec
CONSTANTS
  Nodes = {hub, n1}
  Hub = hub
  Routes = {s1, s2}
  Attached <- MCAttached
  Reoffers <- MCReoffers
  hub = hub
  n1 = n1
  s1 = s1
  s2 = s2
  Addrs = {x1, x2}
  NoAddr = NoAddr
  BadRoute = BadRoute
  Admins = {a1}
  MaxChanges = 1
  MaxRequests = 2
CHECK_DEADLOCK FALSE
INVARIANTS
  EnabledByAdminOnly
PROPERTIES
  EnabledConverges

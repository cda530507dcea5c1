SPECIFICATION Spec
CONSTANTS
  Requests = {r1, r2}
  Tokens = {t1, t2}
  Uniques = {u1, u2}
  MaxHost = 2
  Domain = TRUE
  MaxDeletes = 1
  MaxRestarts = 1
  NoRequest = NoRequest
SYMMETRY Symmetry
CHECK_DEADLOCK FALSE
INVARIANTS
  TokenMakesOneNode
  EnrollAddressStaysFree
  HubAddressReserved
  NamedDevicesResolve
PROPERTIES
  EnrollsAtomically

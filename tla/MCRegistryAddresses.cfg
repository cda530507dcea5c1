SPECIFICATION Spec
CONSTANTS
  Requests = {r1, r2, r3}
  Tokens = {t1, t2}
  Uniques = {u1, u2}
  MaxHost = 3
  Domain = FALSE
  MaxDeletes = 1
  MaxRestarts = 1
  NoRequest = NoRequest
SYMMETRY Symmetry
CHECK_DEADLOCK FALSE
INVARIANT AddressesUnique

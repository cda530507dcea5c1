SPECIFICATION Spec
CONSTANTS
  Devices = {d1, d2}
  Static = {d2}
  LockKeys = {k1, k2}
  NoKey = NoKey
  Admins = {a1}
  Agents = {n1}
  MaxCommands = 4
  MaxRekeys = 0
  MaxFaults = 0
SYMMETRY Symmetry
INVARIANT SignaturesByLockKey

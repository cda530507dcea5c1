SPECIFICATION Spec
CONSTANTS
  Devices = {d1}
  Static = {}
  LockKeys = {k1, k2}
  NoKey = NoKey
  Admins = {a1, a2}
  Agents = {n1}
  MaxCommands = 3
  MaxRekeys = 1
  MaxFaults = 2
SYMMETRY Symmetry
INVARIANT TypeOK
PROPERTIES
  PinnedInstallsSigned
  PersistedPinSticks

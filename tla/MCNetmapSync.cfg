SPECIFICATION FairSpec
CONSTANTS
  Nodes = {n1}
  Writers = {w1, w2}
  NTables = 2
  Cascaded = {2}
  MaxWrites = 2
  MaxDisturbances = 2
INVARIANTS
  TypeOK
  StaleNetmapIsOutdated
  NoLostWakeup
PROPERTIES
  KeepsPromise
  Converges

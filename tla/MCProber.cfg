SPECIFICATION FairSpec
CONSTANTS
  Peers = {p1}
  CandLists <- MCCandLists
  Dialable <- MCDialable
  MaxCandidates = 2
  CandidateWindow = 1
  DirectStaleAfter = 2
  RetryAfterFail = 2
  RetryAfterDemote = 1
  MaxNetmaps = 2
  MaxFaults = 2
INVARIANTS
  TypeOK
  NoCandidatesNoPath
  RoutesFollowProbes
PROPERTIES
  DeadPathRelayed
  KeepsHunting

SPECIFICATION FairSpec
CONSTANTS
  RawNames <- MCRawNames
  Slug <- MCSlug
  HubName = "NAS"
  Addrs = {1, 2, 3}
  Foreign = {"x"}
  MaxWrites = 2
  MaxDisturbances = 2
CHECK_DEADLOCK FALSE
INVARIANTS
  OneDevicePerName
  CurrentListIsExact
  ViewsAgree
  OneBlock
PROPERTIES
  NewcomersRenameNoNode
  ForeignLinesKept
  NamesArrive

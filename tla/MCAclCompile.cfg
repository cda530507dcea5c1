SPECIFICATION AclSpec
CONSTANTS
  Hub = "hub"
  Spokes = {"linux1", "linux2", "mac"}
  Statics = {"phone"}
  Linux = {"hub", "linux1", "linux2"}
  Subnets = {"hubLan", "lan1"}
  Router <- MCRouter
  Tags = {"a"}
  Labels = {"A", "--"}
  Slug <- MCSlug
  NoTag = ""
  Blank = Blank
  PolicyReqs <- MCPolicyReqs
  Packets <- MCPackets
  MultiportMax = 2
  MaxPolicies = 2
INVARIANTS
  OnlyAllowed
  AllowedArrives

SPECIFICATION AccessSpec
CONSTANTS
  Wildcard = "*"
  Slash = "/"
  Dot = "."
  Lower <- MCLower
  Prefix = "_grafain"
  RoleIds <- MCRoleIds
  Addresses <- MCAddresses
  Images <- MCImages
  GenesisFiles <- MCFiles
  RolePermissions <- MCRolePermissions
  Paths <- MCPaths
  InitialStores <- MCStores
  GasCost = 10
INVARIANT AcceptedMeansStored

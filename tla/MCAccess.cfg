SPECIFICATION FairAccessSpec
CONSTANTS
  Wildcard = "*"
  Slash = "/"
  Dot = "."
  Lower <- MCLower
  Prefix = "_grafain"
  RoleIds <- MCRoleIds
  Addresses <- MCAddresses
  Images <- MCImages
  GenesisFiles <- MCFiles
  RolePermissions <- MCRolePermissions
  Paths <- MCPaths
  InitialStores <- MCStores
  GasCost = 10
INVARIANT LoadedExactly
INVARIANT DecidedByHeldRoles
INVARIANT FailsOnMissingRole
INVARIANT RolesAcyclic
INVARIANT LoadsWellFormed
INVARIANT AccessFollowsFile
PROPERTY Terminates

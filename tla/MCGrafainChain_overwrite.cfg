SPECIFICATION Spec
CONSTANTS
  Wildcard = "*"
  Slash = "/"
  Dot = "."
  Lower <- MCLower
  Prefix = "_grafain"
  RoleIds <- MCRoleIds
  Keys = {"alice", "bert"}
  Contracts = {"team", "ops"}
  Images <- MCImages
  Checksums = {"sum1", "sum2"}
  NoArtifact = NoArtifact
  RoleStore <- MCRoleStore
  RolePermissions <- MCRolePermissions
  Binds <- MCBinds
  GenesisStore <- MCGenesisStore
  Nodes = {"n1"}
  Txs <- AllTxs
  MaxTxs = 3
  MaxBlocks = 0
  MaxMempool <- NoPool
  MaxCrashes = 0
INVARIANT OwnerDecides
CHECK_DEADLOCK FALSE

SPECIFICATION MCSpec
CONSTANTS
  Wildcard = "*"
  Slash = "/"
  Dot = "."
  Lower <- MCLower
  Prefix = "_grafain"
  RoleIds <- MCRoleIds
  Keys = {"alice", "bert"}
  Contracts = {"team", "ops"}
  Images <- MCImages
  Checksums = {"sum1", "sum2"}
  NoArtifact = NoArtifact
  RoleStore <- MCRoleStore
  RolePermissions <- MCRolePermissions
  Binds <- MCBinds
  GenesisStore <- MCGenesisStore
  Nodes = {"n1", "n2"}
  Txs <- MCTxs
  MaxTxs = 4
  MaxBlocks = 2
  MaxMempool <- OnePool
  MaxCrashes = 1
INVARIANT NoReplay
INVARIANT ChangesAreEntitled
INVARIANT ReplicasAgree
INVARIANT EntriesHaveProvenance
INVARIANT CheckIsolated
INVARIANT MempoolStaysDeliverable
PROPERTY ImplementsRegistry
PROPERTY DecidedGetsCommitted
CHECK_DEADLOCK FALSE

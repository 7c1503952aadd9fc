SPECIFICATION FairSpec
CONSTANTS
  SyncCalls = {"s1", "s2"}
  CommitCalls = {"c1", "c2"}
  TxOf <- MCTxOf
  Unmarshalable = {"broken"}
  Suffixes = {"u", "v"}
INVARIANT ReportsTruth
INVARIANT OneAnswer
PROPERTY EventReachesWaiter
PROPERTY EveryCallReturns
CHECK_DEADLOCK FALSE

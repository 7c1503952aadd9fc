SPECIFICATION FairSpec
CONSTANTS
  Callers = {"a", "b", "c"}
  MaxNonce = 3
  MaxLost = 2
INVARIANT RefusedOnlyForCause
INVARIANT AlwaysIncrements
PROPERTY RefusedRecovers
CHECK_DEADLOCK FALSE

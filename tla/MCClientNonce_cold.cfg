SPECIFICATION Spec
CONSTANTS
  Callers = {"a", "b"}
  MaxNonce = 4
  MaxLost = 0
INVARIANT AlwaysIncrements
CHECK_DEADLOCK FALSE

SPECIFICATION Spec
CONSTANTS
  Ids = {"p", "q"}
  Accounts = {"r1", "r2"}
  Rules = {"r1", "r2"}
  Electors = {"e1", "e2"}
  Payloads <- MCPayloads
  Timers = {"aswap/release"}
  MaxTime = 3
INVARIANT EffectsAreVoted
INVARIANT WonTakesEffect
INVARIANT TasksFindHandlers
INVARIANT ClosedOnTime
CHECK_DEADLOCK FALSE

SPECIFICATION PipelineSpec
CONSTANTS
  Keys = {"alice", "bert"}
  Messages <- MCMessages
  Batchable = {"cash/send", "multisig/update"}
  Options = {"cash/send", "multisig/update"}
  Contracts = {"c1"}
  MaxFiles = 6
INVARIANT AcceptedAsSigned
INVARIANT RefusedForCause
CHECK_DEADLOCK FALSE

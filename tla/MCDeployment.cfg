SPECIFICATION FairClusterSpec
CONSTANTS
  Images = {"nginx", "setup"}
  Pods = {"web", "junk"}
  Containers <- MCContainers
  InitContainers <- MCInitContainers
  Undecodable = {"junk"}
  MaxLosses = 2
INVARIANT AdmittedWasRegistered
INVARIANT RefusedForCause
PROPERTY RegisteredGetsIn
PROPERTY SeedingEnds
PROPERTY ImplementsAdmission

\* Once grafain's pod is lost under the hook and the rest is decided, nothing happens.
CHECK_DEADLOCK FALSE

\* Two attempts, or one with two sandbox runs, on a shared host: a pool that
\* stragglers can fill, docker and git that may fail.
CONSTANTS
  MaxCalls = 3
  PoolSize = 2
  DockerMayFail = TRUE
  GitMayFail = TRUE
  Foreign = {f1}
  None = None
SPECIFICATION Spec
INVARIANTS
  CommitIsWhatPassed
  CommitHoldsOneAttempt
  CleanupStopsTheAgent
  OtherSessionsSurvive
PROPERTIES
  SandboxContainersAreRemoved
  ProcessExits

SPECIFICATION DeploySpec
CONSTANTS
  Versions = {"v1", "v2"}
  Chunks = 2
  MaxRuns = 3
  MaxFaults = 2
INVARIANTS
  DeployRecovers
  CleanupLeavesTwo
PROPERTY MatchIsTrusted
CHECK_DEADLOCK FALSE

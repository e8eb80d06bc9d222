CONSTANTS
  Shards = {s1, s2}
  FailureCounts = {0, 3}
SPECIFICATION SharderFairSpec
INVARIANTS
  PassEarned
  UploadComplete
PROPERTIES
  ImplementsTestRun
  Completes
CHECK_DEADLOCK FALSE

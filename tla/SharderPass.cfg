CONSTANTS
  Shards = {s1, s2}
  FailureCounts = {0, 10}
SPECIFICATION SharderSpec
INVARIANT PassMeansNoFailure
CHECK_DEADLOCK FALSE

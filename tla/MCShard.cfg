CONSTANTS
  Shards = {s1}
  NoStatusTimeout = 2
  MonitorTimeout = 3
  MaxAttempts = 2
  MaxTests = 3
SPECIFICATION FairSpec
INVARIANTS
  ResultsKept
  NoOrphanVM
  HangAfterStatus
PROPERTIES
  KeepsPromise
  Termination
CHECK_DEADLOCK FALSE

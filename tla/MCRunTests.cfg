\* Three tests, up to three crashes: a crash in the last two entries of the log, and
\* a second one in what the restart does.
CONSTANTS
  FileSystems = {"ext4", "ext3"}
  PrimaryFS = "ext4"
  Lists <- MCLists
  Files <- MCFiles
  Comments = {"#old"}
  Alias <- MCAlias
  Sets <- MCSets
  Requests <- MCRequests
  NumTests = 3
SPECIFICATION FairSpec
INVARIANTS DoneIsTested ResultsKept AskedIsRun ShardArgs DevicesApart
PROPERTIES DoneStays Completes
CHECK_DEADLOCK FALSE

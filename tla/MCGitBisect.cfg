CONSTANT Last = 5
SPECIFICATION FairSpec
INVARIANTS
  FoundIsFirstBad
  EachCommitOnce
PROPERTIES
  CountsDown
  Ends
CHECK_DEADLOCK FALSE

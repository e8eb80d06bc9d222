CONSTANTS
  Watchers = {w1}
  Commits = {c1, c2}
  Handlers = {h1, h2}
  MaxTests = 2
  AggMinCount = 2
  Nobody = Nobody
SPECIFICATION FairSpec
INVARIANTS
  ResultsRecorded
  LatestIsTested
PROPERTIES
  EveryCallEnds
  StopStops

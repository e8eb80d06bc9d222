CONSTANTS
  Watchers = {w1}
  Commits = {c1, c2}
  Handlers = {h1}
  MaxTests = 2
  AggMinCount = 2
  Nobody = Nobody
SPECIFICATION FairSpec
PROPERTIES
  TidiesUp

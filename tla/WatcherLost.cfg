CONSTANTS
  Watchers = {w1}
  Commits = {c1, c2}
  Handlers = {h1}
  MaxTests = 3
  AggMinCount = 9
  Nobody = Nobody
SPECIFICATION Spec
INVARIANTS
  EveryCommitIsTested

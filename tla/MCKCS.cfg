\* Two requests at a time, one bisection, which may expire.
CONSTANTS
  h1 = h1
  h2 = h2
  b1 = b1
  Handlers = {h1, h2}
  Bisections = {b1}
  MaxSteps = 2
  MayExpire = TRUE
  Tracker = Tracker
  Nobody = Nobody
SPECIFICATION FairSpec
INVARIANTS LocksMatch RegisteredIsWhole OneWorker NotStranded
PROPERTIES EveryRequestEnds IdleShutsDown
CHECK_DEADLOCK FALSE

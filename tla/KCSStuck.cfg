\* One bisection, which may be idle for four hours.
CONSTANTS
  h1 = h1
  b1 = b1
  Handlers = {h1}
  Bisections = {b1}
  MaxSteps = 2
  MayExpire = TRUE
  Tracker = Tracker
  Nobody = Nobody
SPECIFICATION FairSpec
PROPERTY ShutsDownWhenIdle
CHECK_DEADLOCK FALSE

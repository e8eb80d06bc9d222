\* Two calls at a time, two KCS VMs one after the other, two attempts.
CONSTANTS
  c1 = c1
  c2 = c2
  Callers = {c1, c2}
  MaxVMs = 2
  MaxAttempts = 2
  None = None
SPECIFICATION FairSpec
INVARIANTS NoSecondVM AddressKnown AtMostOnce
PROPERTIES EveryCallEnds MarkedIsDeleted

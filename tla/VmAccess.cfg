CONSTANTS
  r1 = r1
  r2 = r2
  NoKey = NoKey
  Slots = {r1, r2}
  Keys = {k}
  k = k
  MaxAttempts = 2
  MaxPolls = 1
  MaxRequests = 2
  MaxEvents = 1
SPECIFICATION Spec
SYMMETRY Interchangeable
INVARIANTS TypeOK ExecutesOnce  
CHECK_DEADLOCK FALSE

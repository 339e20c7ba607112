CONSTANTS
  Requests = {r1}
  MaxTries = 2
  CacheLimit = 1
  CacheEvict = 1
  MaxSockets = 3
  MaxCuts = 1
  MaxRefusals = 1
  MaxCloses = 1
SPECIFICATION FairSpec
INVARIANTS  ClientNeverDeaf
PROPERTIES KeepsPromise LinkSettles
CHECK_DEADLOCK FALSE

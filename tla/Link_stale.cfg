CONSTANTS
  Requests = {r1}
  MaxTries = 2
  CacheLimit = 1
  CacheEvict = 1
  MaxSockets = 2
  MaxCuts = 1
  MaxRefusals = 0
  MaxCloses = 0
SPECIFICATION FairSpec
PROPERTY ReconnectRegisters
CHECK_DEADLOCK FALSE

CONSTANTS
  Callers = {c1, c2, c3}
  PoolSize = 1
  MaxCalls = 3
  MaxFaults = 1
  MaxCancels = 1
  MaxShutdowns = 1
SPECIFICATION FairSpec
INVARIANTS TypeOK  RunningInPool LockHasHolder OverflowBounded
PROPERTIES CallsEnd
CHECK_DEADLOCK FALSE

CONSTANTS
  t1 = t1
  t2 = t2
  s1 = s1
  s2 = s2
  Tasks = {t1, t2}
  Sessions = {s1}
  SessionOf <- OneSession
  NoTask = NoTask
  Awaited = {t1}
  Consumers = {c1, c2}
  Slots = {j1, j2}
  Admins = {a1}
  MaxConcurrent = 1
  MaxRetryAttempts = 0
  MaxQueueLength = 1
  MaxFaults = 1
  MaxCrashes = 0
  MaxGarbage = 1
  MaxRequeues = 1
  MaxStops = 1
  MaxClears = 0
SPECIFICATION Spec
SYMMETRY ConsumerSymmetry
INVARIANTS TypeOK SemaphoreAccounting SingleCopy

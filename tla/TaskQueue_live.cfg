CONSTANTS
  t1 = t1
  t2 = t2
  s1 = s1
  s2 = s2
  Tasks = {t1, t2}
  Sessions = {s1}
  SessionOf <- OneSession
  NoTask = NoTask
  Awaited = {}
  Consumers = {c1}
  Slots = {j1, j2}
  Admins = {a1}
  MaxConcurrent = 1
  MaxRetryAttempts = 1
  MaxQueueLength = 2
  MaxFaults = 1
  MaxCrashes = 1
  MaxGarbage = 0
  MaxRequeues = 1
  MaxStops = 0
  MaxClears = 1
SPECIFICATION FairSpec
INVARIANTS LossBounded ExecutionsBounded
PROPERTIES EverythingSettles KeepsPromise

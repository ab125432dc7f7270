SPECIFICATION Spec
CONSTANTS
  t1 = t1
  t2 = t2
  Task = {t1, t2}
  Concurrency = 1
  MaxQueue = NoLimit
  NoLimit = NoLimit
  MaxResources = 2
INVARIANT AbortedStaysAborted

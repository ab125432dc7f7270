SPECIFICATION FairDrainedSpec
CONSTANTS
  t1 = t1
  t2 = t2
  t3 = t3
  Task = {t1, t2, t3}
  Concurrency = 1
  MaxQueue = NoLimit
  NoLimit = NoLimit
  MaxResources = 2
PROPERTY ImplementsLedger

SPECIFICATION FairSpec
CONSTANTS
  t1 = t1
  t2 = t2
  t3 = t3
  Task = {t1, t2, t3}
  Concurrency = 1
  MaxQueue = 1
  NoLimit = NoLimit
  MaxResources = 2
PROPERTIES
  ServedOrStranded
  RejectedOnlyWhenBusy

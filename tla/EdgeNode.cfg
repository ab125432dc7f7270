SPECIFICATION Spec
CONSTANTS
  t1 = t1
  t2 = t2
  t3 = t3
  t4 = t4
  Task = {t1, t2, t3, t4}
  Concurrency = 2
  MaxQueue = NoLimit
  NoLimit = NoLimit
  MaxResources = 2
SYMMETRY Symmetry
INVARIANTS
  Accounting
  ActiveTasksExact
  FailedNodeOwesNothing
  SlotDiscipline
  TwoOutcomesOnlyByAbort

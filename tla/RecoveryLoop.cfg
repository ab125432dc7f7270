CONSTANTS
  NumNodes = 2
  Schedules <- MCSchedules
  PersistenceK = 2
  MaxSteps = 7
  Workloads <- MCWorkloads
  BaseLatency = 1400
  Arms = {"PROPOSED", "FIXED", "NONE"}
  NotApplicable = NotApplicable

SPECIFICATION ReportSpec

INVARIANTS
  EpisodesSeparated NoLingeringFault ConfirmedAnswered NoStaleMitigation ReportFaithful
PROPERTIES RecoveryConfirmed FaultStrikesOnce

\* A run ends after MaxSteps steps.
CHECK_DEADLOCK FALSE

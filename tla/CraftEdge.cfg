SPECIFICATION ExperimentSpec
CONSTANTS
  n1 = n1
  n2 = n2
  Node = {n1, n2}
  Cause = {"CPU_OVERLOAD", "GENERIC_RESOURCE_FAULT"}
  Demand <- MCDemand
  Setting <- MCSetting
  Alpha = 2
  BenefitWeight = 10
  CostWeight = 3
  BaseLatency = 1800
  MaxCalls = 4
  MaxStream = 2
SYMMETRY Symmetry
INVARIANTS
  StatsAgree
  EpisodeHasFault
  EpsilonSchedule
  ReportMatchesPolicy
PROPERTY RejectedNeverCredited
\* The bound on calls ends every run.
CHECK_DEADLOCK FALSE

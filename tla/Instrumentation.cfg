SPECIFICATION Spec
CONSTANTS
  NotApplicable = NotApplicable
  MaxSessions = 2
  MaxClock = 2
  MaxRecords = 1
  Rss <- MCRss
  Observations <- MCObservations
INVARIANTS
  PeakCovers
  RatesBracketed
PROPERTIES
  SamplersEnd
\* The last session ends.
CHECK_DEADLOCK FALSE

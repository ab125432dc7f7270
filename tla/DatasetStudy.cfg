SPECIFICATION Spec
CONSTANTS
  h1 = h1
  h2 = h2
  Missing = Missing
  NormalWord = NormalWord
  AttackWord = AttackWord
  NotApplicable = NotApplicable
  NoLimit = NoLimit
  Experiment <- MCExperiment
  Scores = {30, 65, 85, 95}
  WarmUp = 3
  WarmThreshold = 85
  Threshold = 65
  HistoryLength = 4
  MinRecords = 2
  Effects = {0, 1, 2}
  CausalPeriod = 4
  CausalFirst = 2
  CalibrationGrid = {15, 45, 65, 70, 90}
  DiagnosisGrid = {15, 45, 65, 70}
  Operating = 15
  BuggyDefault = 65
  Persistences = {1, 2, 3}
INVARIANTS
  FiltersAgree
  CountsBalance
  SweepsAgree
\* The experiment ends, or fails before it starts.
CHECK_DEADLOCK FALSE

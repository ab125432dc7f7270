SPECIFICATION PrepSpec
CONSTANTS
  a = a
  b = b
  c = c
  Rows = {a, b, c}
  Invalid = Invalid
  Feature <- MCFeature
  DataSets <- MCDataSets
  SampleSize = 2
  MaxLaunches = 3
INVARIANTS
  FilesHomogeneous
  FullPassExact
\* No process is started any more.
CHECK_DEADLOCK FALSE

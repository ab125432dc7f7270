CONSTANTS
  Node = {n1, n2}
  Backup = backup
  WindowSize = 5
  MaxRecords = 11
  MaxStreams = 2
SPECIFICATION Spec
SYMMETRY Symmetry
VIEW View
INVARIANT ConsecutiveLadder
\* A run ends after MaxStreams streams.
CHECK_DEADLOCK FALSE

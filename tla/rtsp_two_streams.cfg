SPECIFICATION Spec
CONSTANTS
  s1 = s1
  s2 = s2
  worker = worker
  Sessions <- MCSessions
  UI = ui
  Workers <- MCWorkers
  NULL = NULL
  MaxRtsp = 2
  MaxSub = 1
SYMMETRY MCSymmetry
INVARIANTS
  OwnStream
CHECK_DEADLOCK FALSE

SPECIFICATION FairSpec
CONSTANTS
  s1 = s1
  s2 = s2
  worker = worker
  Sessions <- MCSessions
  UI = ui
  Workers <- MCWorkers
  NULL = NULL
  MaxRtsp = 2
  MaxSub = 2
CONSTRAINT NotCrossed
PROPERTIES
  ShutdownCloses
CHECK_DEADLOCK FALSE

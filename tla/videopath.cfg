SPECIFICATION FairSpec
CONSTANT MaxCalls = 4
INVARIANTS
  TypeOK
  TransportSafe
  OnlyFirstFrameMixed
PROPERTIES
  InitReturns
CHECK_DEADLOCK FALSE

SPECIFICATION Spec
CONSTANT MaxCalls = 3
INVARIANTS TypeOK RingCounts RewindIsLate CurrentCall CleanExit
CHECK_DEADLOCK FALSE

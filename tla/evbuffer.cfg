SPECIFICATION Spec
CONSTANTS
  b1 = b1
  b2 = b2
  Bufs <- MCBufs
  cr = cr
  lf = lf
  x = x
  junk = junk
  CR = cr
  LF = lf
  Junk = junk
  Bytes <- MCBytes
  Pieces <- MCPieces
  MinAlloc = 1
  PrintfSpace = 2
  MaxTotal = 4
SYMMETRY MCSymmetry
CONSTRAINT MemoryBound
INVARIANTS
  TypeOK
  Layout
PROPERTIES
  IsByteQueue
CHECK_DEADLOCK FALSE

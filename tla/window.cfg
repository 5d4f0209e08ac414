SPECIFICATION Spec
CONSTANTS
  Local = Local
  Remote = Remote
  None = None
  Decoders <- MCDecoders
  Widths = {0, 4, 6}
  Heights = {1, 2}
INVARIANTS
  TypeOK
  PictureSafe
CHECK_DEADLOCK FALSE

SPECIFICATION FairSpec
CONSTANTS
  BlockSize = 3
  Lengths <- MCLengths
  FrameTs = 1
  MaxFrames = 3
  MaxDisturbed = 4
INVARIANTS
  TypeOK
  DamageIsLocal
  OneTimestampPerFrame
PROPERTIES
  DeliversFrames
  FramesArrive
CHECK_DEADLOCK FALSE

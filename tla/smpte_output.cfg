SPECIFICATION Spec
CONSTANTS
  PktsPerFrame = 3
  Numbers = 5
  Geometry <- Small
  PayloadIds = {2}
  Audios <- SmallAudios
  MaxFrames = 4
  MaxFailures = 1
INVARIANTS
  FramesArrive
  AudioIsThere
  LinesAreMarked
  HalvesAreWhole

SPECIFICATION FairSpec
CONSTANTS
  PktsPerFrame = 2
  SeqRange = 5
  VideoOnly = TRUE
  NbBuffers = 2
  Skipped = 1
  Late = 1
  MaxPackets = 12
  MaxErrors = 1
  MaxStarts = 2
INVARIANTS
  CompleteFramesAreWhole
  GoodFramesComplete
  KeepsUpReadsInOrder
PROPERTIES
  StopReturns
CHECK_DEADLOCK TRUE

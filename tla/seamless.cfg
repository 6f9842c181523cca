SPECIFICATION Spec
CONSTANTS
  NbElmt = 3
  SeqMod = 6
  FirstSeq = 4
  Threshold = 1
  MaxPacket = 4
  MaxDelay = 1
  MaxLoss = 0
  MaxErrors = 1
  MaxQueue = 1
INVARIANTS
  ConsecutiveOrError
PROPERTIES
  CloseReturns
CHECK_DEADLOCK FALSE

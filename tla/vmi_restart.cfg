SPECIFICATION FairSpec
CONSTANTS
  MaxFrames = 2
  Inputs <- OnePin
  Outputs <- TwoPins
  Throwing <- SecondPin
  MaxReads = 2
  MaxStarts = 2
INVARIANTS
  NoEarlyRelease
  NoLeak
  SendsInOrder
  QuietWhenStopped
  NeverTerminates
  OutputsServe
PROPERTIES
  CallsReturn
  FramesAreSent
CHECK_DEADLOCK TRUE

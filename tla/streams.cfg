SPECIFICATION LiveSpec
CONSTANTS
  Pins = {"rtp", "tr03", "aes67"}
  Senders = {"same", "own", "tall"}
  SeqMod = 6
  MaxParts = 3
  MaxLoss = 3
  MaxFail = 1
  W = 3
  H = 2
  PayloadLen = 12
  LineHeader = 2
  FrameLen = 2
  MaxLen = 4
INVARIANTS
  GivenFramesAreWhole
  WholeFramesAreGiven
PROPERTIES
  StopReturns
CHECK_DEADLOCK FALSE

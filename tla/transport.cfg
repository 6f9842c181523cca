SPECIFICATION Spec
CONSTANTS
  Links = {"tcpIn", "tcpOut", "shm"}
  MaxBreaks = 1
  Conns = 3
  Room = 3
  NbSeg = 2
  Queue = 2
INVARIANTS
  GivenFramesAreWhole
PROPERTIES
  FramesFlow
  StopReturns
CHECK_DEADLOCK FALSE

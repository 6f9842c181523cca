SPECIFICATION Spec
CONSTANTS
  Sources = {"a", "b"}
  Multicast = {"a"}
  Queues = 4
  Slots = 2
  NbPkts = 2
  Pool = 4
  Mrts = {0, 1}
  MaxPackets = 4
  MaxTroubles = 1
INVARIANTS
  MbufsKept
  JoinIsPending
PROPERTY
  PacketsAreOwn
CHECK_DEADLOCK FALSE

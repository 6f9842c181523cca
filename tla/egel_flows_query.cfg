SPECIFICATION FairSpec
CONSTANTS
  Sources = {"a"}
  Multicast = {"a"}
  Queues = 3
  Slots = 1
  NbPkts = 1
  Pool = 4
  Mrts = {1}
  MaxPackets = 0
  MaxTroubles = 2
PROPERTY
  QueriesAnswered
CHECK_DEADLOCK FALSE

SPECIFICATION Spec
CONSTANTS
  Clients = {c1, c2}
  Requests = {1, 2}
  Commands = {"nic", "exit", "blank", "unknown"}
  MaxCalls = 4
  c1 = c1
  c2 = c2
CHECK_DEADLOCK FALSE
INVARIANTS
  NoRequestLost
  AnswerIsOwn
  RingNeverFull
  FreedHasNoReply
SYMMETRY AlikeClients

SPECIFICATION FairSpec
CONSTANTS
  c1 = c1
  c2 = c2
  tcp = tcp
  None = None
  Cycle = {c1, c2}
  Device = {tcp}
  Packet = {}
  OpKind = {"busRead"}
  Timeout = 2
  Elapse = {0, 1, 2}
  RbaCount = 2
  UnreadyMod = 4
  MaxCopies = 1
  Reentrant = FALSE
  Conformant = FALSE
INVARIANTS
  QueuesSound
  DeadlinesInOrder
PROPERTIES
  SentInOrder
  EveryCloseAnswered
  DeviceCloseEnds

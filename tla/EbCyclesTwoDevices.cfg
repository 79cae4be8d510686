SPECIFICATION Spec
CONSTANTS
  c1 = c1
  c2 = c2
  udp = udp
  tcp = tcp
  None = None
  Cycle = {c1, c2}
  Device = {udp, tcp}
  Packet = {udp}
  OpKind = {"busRead", "huge", "bad"}
  Timeout = 1
  Elapse = {0, 1}
  RbaCount = 2
  UnreadyMod = 3
  MaxCopies = 2
  Reentrant = FALSE
  Conformant = TRUE
SYMMETRY CycleSymmetry
INVARIANTS
  ConformantNeverBlamed
PROPERTIES
  AnswerReachesOwner
  KeepsPromise

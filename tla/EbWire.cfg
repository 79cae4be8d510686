SPECIFICATION Spec
CONSTANTS
  Queues <- MCQueues
  Long = 3
  Stride = 2
  MaxOps = 2
  MaxCount = 2
  Dead <- MCDead
  Mtus = {0, 9}
  Buffer = 7
  MaxLosses = 1
  MaxCopies = 1
INVARIANTS  AnswersBelong PacketsAreWhole
CHECK_DEADLOCK FALSE

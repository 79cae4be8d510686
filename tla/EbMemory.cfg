SPECIFICATION Spec
CONSTANTS
  Static = FALSE
  InitSize = 2
  MaxSize = 8
  Sizes <- MCSizes
  EbNull = 7
INVARIANTS
  FreeListSound
  NothingLeaks

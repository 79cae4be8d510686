SPECIFICATION Spec
CONSTANTS
  None = None
  Dev <- Ordinary
  addr_first <- OrdinaryFirst
  addr_last <- OrdinaryLast
  Top = 44
  Align = 2
  Required = 4
  MaxDevices = 3
INVARIANTS
  SortedDisjoint
  HandlerReceivesAll

  

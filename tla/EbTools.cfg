SPECIFICATION ToolsFairSpec
CONSTANTS
  root = root
  a = a
  b = b
  dev = dev
  net = net
  Bus <- MCBus
  Root = root
  Trees <- MCTrees
  NoTable = NoTable
  Ids <- MCIds
  Places = {1, 2, 4, 5, 7, 8}
  Room = 2
  MaxDevices = 4
  Top = 20
  MaxFaults = 2
  Commands <- MCCommands
  Port <- MCPort
  Lines = {2, 4}
  Firmware <- MCFirmware
  Memory <- MCMemory
  Given <- MCGiven
  OpsPerCycle = 2
INVARIANTS FoundAll NothingOutlivesTheSearch TransfersExactly AccessesExactly
PROPERTIES  ToolEnds
CHECK_DEADLOCK FALSE

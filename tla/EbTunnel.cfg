SPECIFICATION TunnelFairSpec
CONSTANTS
  c1 = c1
  c2 = c2
  device = device
  device6 = device6
  other = other
  Client = {c1, c2}
  Host = {device, device6, other}
  IPv4 = {device, other}
  Stray <- MCStray
  Nobody = Nobody
  Target <- MCTarget
  Text <- MCText
  Length = {2}
  Mtu = 3
  Radix = 2
  Loads <- MCLoads
  Leaves = {c2}
INVARIANTS FramesAreWhole OnlyItsDevice
PROPERTIES EveryRequestPasses
CHECK_DEADLOCK FALSE

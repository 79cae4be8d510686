SPECIFICATION FairSpec
CONSTANTS
  h1 = h1
  u = u
  t = t
  None = None
  Handle = {h1}
  Peer = {u, t}
  Stream = {t}
  Size <- MCSize
  Local <- MCLocal
  Remote <- MCRemote
  Proposal <- MCProposal
  MaxAttempts = 2
  Network = {TRUE, FALSE}
INVARIANTS
  LargestCommonWidth
  SidesAgree
PROPERTIES
  RefusedOnlyWithoutCommonWidth
  OpenComesBack

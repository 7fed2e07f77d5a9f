SPECIFICATION FairSpec
CONSTANTS
  p1 = p1
  p2 = p2
  Channels = {p1, p2}
  NoChannel = NoChannel
  Chain <- Chains
  StartHeight <- Heights
  StartChain <- Genesis
  Bad = {12}
  MaxChainLength = 2
  MaxRollback = 1
  Flaky = {p1}
INVARIANTS WaitIsRescued ExtensionsAreSegments OneExtensionAtATime BlameHasCause
PROPERTY AskedPeerIsFollowed
CHECK_DEADLOCK FALSE

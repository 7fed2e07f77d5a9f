CONSTANTS
  b0 = b0
  b1 = b1
  m1 = m1
  m2 = m2
  a = a
  f = f
  Peers = {a, f}
  Flaky = {f}
  MicroBlocks = {m1, m2}
  KeyBlocks = {b0, b1}
  Prev <- MCPrev
  Invs <- MCInvs
  Start = b0
  MaxBlocks = 1
  None = None
SPECIFICATION FairSpec
PROPERTIES
  NextIsFetched
CHECK_DEADLOCK FALSE

CONSTANTS
  t1 = t1
  t2 = t2
  Txs = {t1, t2}
  Requires <- Chained
  Putters = {Putter}
  Cleaner = Cleaner
  Miners = {}
  Appender = Appender
  NoTx = NoTx
  InitialChain <- OneBlock
  MaxSize = 2
  MaxBlocks = 2
  MaxChanges = 2
SPECIFICATION FairSpec
INVARIANTS
  NoGhostPortfolio
  NothingLost
PROPERTIES
  ConfirmedLeave

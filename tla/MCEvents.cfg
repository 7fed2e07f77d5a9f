CONSTANTS
  Levels = 4
  MaxN = 2
  Ids <- MCIds
  Generators <- MCGenerators
  Txs <- MCTxs
  Blocks <- MCBlocks
  Signed <- MCSigned
  Micros <- MCMicros
  Genesis <- MCGenesis
  Applicable <- MCApplicable
  ScoreBound = 2
  MaxTotal = 2
  MaxRollbackDepth = 3
  NoNg = NoNg
  MaxPending = 2
SPECIFICATION EventSpec
INVARIANTS
  TypeOK
  Linked
  NoTxTwice
  CapacityAccounted
  InfoInSync
  ScoreAccumulates
  RollbackWindow
  EventsFollowChain
  RollbackTargetExists
PROPERTIES
  Finality
  OnlyRollbackLowersScore

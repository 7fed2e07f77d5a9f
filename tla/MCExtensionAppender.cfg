CONSTANTS
  Levels = 3
  MaxN = 1
  Ids <- MCIds
  Generators <- MCGenerators
  Txs <- MCTxs
  Blocks <- MCBlocks
  Signed <- MCBlocks
  Micros <- MCMicros
  Genesis <- MCGenesis
  Applicable <- MCApplicable
  Extensions <- MCExtensions
  ScoreBound = 2
  MaxTotal = 2
  MaxRollbackDepth = 2
  NoNg = NoNg
  NoExt = NoExt
SPECIFICATION ExtFairSpec
INVARIANTS
  RecoveryLosesUnsignedOnly
  RefusedExtensionRestores
  AcceptedExtensionIsChain
PROPERTIES
  ExtensionEnds

CONSTANTS
  Ids <- MCIds
  BaseId = "base"
  Txs <- MCTxs
  BaseTxs <- MCBaseTxs
  MaxMicros = 3
  MaxDiff = 4
SPECIFICATION Spec
INVARIANTS
  CachesCoherent
  HardenedPairAgrees

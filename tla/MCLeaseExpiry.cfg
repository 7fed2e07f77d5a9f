CONSTANTS
  Sender = Sender
  Recipient = Recipient
  Miner = Miner
  TxTypes <- LeaseTypes
  LeaseTerm = 2
  AssetFees = FALSE
  MaxRollbackDepth = 2
  MaxHeight = 5
  MaxBlocks = 4
  NoTx = NoTx
  NoValue = NoValue
SPECIFICATION Spec
INVARIANTS
  LeasesRestored
CHECK_DEADLOCK FALSE

CONSTANTS
  Sender = Sender
  Recipient = Recipient
  Miner = Recipient
  TxTypes <- AllTypes
  LeaseTerm = 2
  AssetFees = TRUE
  MaxRollbackDepth = 2
  MaxHeight = 5
  MaxBlocks = 4
  NoTx = NoTx
  NoValue = NoValue
SPECIFICATION Spec
INVARIANTS
  RollbackRestores
  CachesCurrent
  AddressIndexExact
  CarryFeeKept
CHECK_DEADLOCK FALSE

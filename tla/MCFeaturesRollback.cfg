CONSTANTS
  FeatureIds = {1, 2}
  PreActivated = {2}
  Period = 2
  MinVotes = 2
  DoubleAfter = 4
  BoundaryRollbacks = TRUE
  MaxHeight = 8
  NoLiquid = NoLiquid
SPECIFICATION Spec
INVARIANTS
  StatusFollowsChain

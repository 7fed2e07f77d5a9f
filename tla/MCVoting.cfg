CONSTANTS
  FeatureIds = {1, 2}
  PreActivated = {2}
  Period = 2
  MinVotes = 2
  DoubleAfter = 4
  BoundaryRollbacks = FALSE
  MaxHeight = 9
  NoLiquid = NoLiquid
  ActivatedAt = 3
  Term = 3
  VotingInterval = 2
  Initial = 3
  MinIncrement = 2
  InitialAmount = 100
  None = None
  RewardVotes <- MCRewardVotes
  RewardVote <- MCRewardVote
SPECIFICATION VotingSpec
INVARIANTS
  StatusFollowsChain
  RewardFollowsVotes
  AmountAccumulates
PROPERTIES
  ActivationIsStable

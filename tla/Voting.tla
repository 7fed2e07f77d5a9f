------------------------------- MODULE Voting -------------------------------
(***************************************************************************)
(* The two votes a block header carries, for features and for the reward,  *)
(* on one chain: processBlock and removeAfter of                           *)
(* state/BlockchainUpdaterImpl.scala with both counts, one in Features and *)
(* one in Rewards.  Each step of the chain is a step of both, so a         *)
(* rollback inside a window of one vote may cross a boundary of the other. *)
(***************************************************************************)
EXTENDS Features

CONSTANTS
  ActivatedAt, Term, VotingInterval, Initial, MinIncrement, InitialAmount, None,
  RewardVotes,
  RewardVote     \* RewardVote[v]: the reward vote of a header with feature votes v

ASSUME VotingAssumption ==
  /\ Term \in Nat \ {0} /\ VotingInterval \in 1 .. Term
  /\ Initial \in Nat /\ MinIncrement \in Nat \ {0}
  /\ ActivatedAt \in Nat \ {0} /\ InitialAmount \in Nat
  /\ None \notin Nat /\ NoLiquid \notin [vote : RewardVotes \union {-1}, reward : Nat \union {None}]
  /\ RewardVotes \subseteq Int /\ RewardVote \in [SUBSET FeatureIds -> RewardVotes]

VARIABLES rewardChain, rewardLiquid   \* what is stored and liquid of the rewards

R == INSTANCE Rewards WITH chain <- rewardChain, liquid <- rewardLiquid, Votes <- RewardVotes

votingVars == <<vars, rewardChain, rewardLiquid>>

-----------------------------------------------------------------------------
\* processBlock: a block on the persisted chain, on the liquid one, instead of it.
BlockOnPersisted(v) == AppendToPersisted(v) /\ R!AppendToPersisted(RewardVote[v])
BlockOnLiquid(v) == Harden(v) /\ R!Harden(RewardVote[v])
BlockInstead(v) == ReplaceLiquid(v) /\ R!ReplaceLiquid(RewardVote[v])

\* removeAfter
Rollback(h) == RemoveAfter(h) /\ R!RemoveAfter(h)

VotingInit == Init /\ R!Init

VotingNext ==
  \/ \E v \in SUBSET FeatureIds : BlockOnPersisted(v) \/ BlockOnLiquid(v) \/ BlockInstead(v)
  \/ \E h \in 1 .. MaxHeight : Rollback(h)

VotingSpec == VotingInit /\ [][VotingNext]_votingVars

-----------------------------------------------------------------------------
\* Whatever competitors and rollbacks led to the chain, the reward of every
\* block is the one a strict majority of its ancestors voted for.
RewardFollowsVotes == R!RewardFollowsVotes

\* The stored total of Waves is the initial amount plus the rewards paid.
AmountAccumulates == R!AmountAccumulates
=============================================================================

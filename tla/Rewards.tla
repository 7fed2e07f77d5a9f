------------------------------ MODULE Rewards ------------------------------
(***************************************************************************)
(* The block reward and the votes that move it: nextReward in              *)
(* state/BlockchainUpdaterImpl.scala, votingWindow in                      *)
(* settings/BlockchainSettings.scala, and the rewards, votes and total     *)
(* amount stored by database/LevelDBWriter.scala.                          *)
(*                                                                         *)
(* The reward of a block is fixed when it becomes liquid, from the votes   *)
(* of persisted blocks and of the liquid block it hardens; competitors of  *)
(* the liquid block inherit its reward.                                    *)
(***************************************************************************)
EXTENDS Integers, Sequences, FiniteSets

CONSTANTS
  ActivatedAt,        \* activation height of BlockReward
  Term, VotingInterval, Initial, MinIncrement,   \* RewardsSettings
  Votes,              \* header.rewardVote; a negative one is no vote
  InitialAmount,      \* Waves before rewards
  MaxHeight,          \* bound: heights explored
  None, NoLiquid

VARIABLES
  chain,     \* persisted: <<[vote, reward, amount]>>, amount is Keys.wavesAmount
  liquid     \* NoLiquid, or [vote, reward]: the base's vote and NgState.reward

vars == <<chain, liquid>>

-----------------------------------------------------------------------------
Height == Len(chain) + (IF liquid = NoLiquid THEN 0 ELSE 1)

\* RewardsSettings
NearestTermEnd(h) ==
  LET diff == h - ActivatedAt + 1
  IN ActivatedAt + ((diff + Term - 1) \div Term) * Term - 1
VotingWindow(h) == {i \in NearestTermEnd(h) - VotingInterval + 1 .. NearestTermEnd(h) : i <= h}

\* blockRewardVotes at the current height: persisted votes, then the liquid one.
BlockRewardVotes(h) ==
  [i \in VotingWindow(h) \cap 1 .. Height |->
     IF i <= Len(chain) THEN chain[i].vote ELSE liquid.vote]

\* The stored reward of the last persisted block, None before activation.
PersistedReward == IF chain = <<>> THEN None ELSE chain[Len(chain)].reward
LastBlockReward ==
  IF liquid # NoLiquid /\ liquid.reward # None THEN liquid.reward ELSE PersistedReward

Floor0(n) == IF n < 0 THEN 0 ELSE n
\* Mutant: half of the interval is enough.
AdjustedByHalf(votes, current) ==
  LET cast == {i \in DOMAIN votes : votes[i] >= 0}
      lt == Cardinality({i \in cast : votes[i] < current})
      gt == Cardinality({i \in cast : votes[i] > current})
      threshold == VotingInterval \div 2
  IN IF lt >= threshold THEN Floor0(current - MinIncrement)
     ELSE IF gt >= threshold THEN current + MinIncrement ELSE current

Adjusted(votes, current) ==
  LET cast == {i \in DOMAIN votes : votes[i] >= 0}
      lt == Cardinality({i \in cast : votes[i] < current})
      gt == Cardinality({i \in cast : votes[i] > current})
      threshold == VotingInterval \div 2 + 1
  IN IF lt >= threshold THEN Floor0(current - MinIncrement)
     ELSE IF gt >= threshold THEN current + MinIncrement ELSE current

NextReward ==
  LET since == Height + 1 - ActivatedAt
  IN IF since < 0 THEN LastBlockReward
     ELSE IF LastBlockReward = None THEN Initial
     ELSE IF since > 0 /\ since % Term = 0 THEN Adjusted(BlockRewardVotes(Height), LastBlockReward)
     ELSE LastBlockReward

WavesAmount == IF chain = <<>> THEN InitialAmount ELSE chain[Len(chain)].amount

\* Mutant: the amount grows by the reward of the block before.
StoredLate(b) ==
  [vote |-> b.vote, reward |-> b.reward,
   amount |-> WavesAmount + (IF PersistedReward = None THEN 0 ELSE PersistedReward)]

\* doAppend: the reward and the amount are stored only if there is a reward.
Stored(b) ==
  [vote |-> b.vote, reward |-> b.reward,
   amount |-> WavesAmount + (IF b.reward = None THEN 0 ELSE b.reward)]

\* processBlock on the persisted chain, on the liquid block, instead of it.
AppendToPersisted(v) ==
  /\ liquid = NoLiquid /\ Height < MaxHeight
  /\ liquid' = [vote |-> v, reward |-> NextReward]
  /\ UNCHANGED chain
Harden(v) ==
  /\ liquid # NoLiquid /\ Height < MaxHeight
  /\ chain' = Append(chain, Stored(liquid))
  /\ liquid' = [vote |-> v, reward |-> NextReward]

ReplaceLiquid(v) ==
  /\ liquid # NoLiquid /\ chain # <<>>
  /\ liquid' = [vote |-> v, reward |-> liquid.reward]
  /\ UNCHANGED chain

RemoveAfter(h) ==
  /\ h \in 1 .. Len(chain)
  /\ liquid' = NoLiquid
  /\ chain' = SubSeq(chain, 1, h)

Init == chain = <<>> /\ liquid = [vote |-> -1, reward |-> IF ActivatedAt = 1 THEN Initial ELSE None]

Next ==
  \/ \E v \in Votes : AppendToPersisted(v) \/ Harden(v) \/ ReplaceLiquid(v)
  \/ \E h \in 1 .. MaxHeight : RemoveAfter(h)

Spec == Init /\ [][Next]_vars

-----------------------------------------------------------------------------
\* The reference: the reward at each height from the votes of the chain alone.
Blocks == IF liquid = NoLiquid THEN chain ELSE Append(chain, liquid)
\* A strict majority of the voting interval moves it by one increment.
Decided(votes, current) ==
  LET below == Cardinality({i \in DOMAIN votes : votes[i] >= 0 /\ votes[i] < current})
      above == Cardinality({i \in DOMAIN votes : votes[i] > current})
  IN CASE 2 * below > VotingInterval -> Floor0(current - MinIncrement)
       [] 2 * above > VotingInterval -> current + MinIncrement
       [] OTHER -> current
RewardByChain ==
  LET r[h \in 0 .. Height] ==
        IF h < ActivatedAt THEN None
        ELSE IF h = ActivatedAt THEN Initial
        ELSE IF (h - ActivatedAt) % Term # 0 THEN r[h - 1]
        ELSE Decided([i \in h - VotingInterval .. h - 1 |-> Blocks[i].vote], r[h - 1])
  IN r

\* Whatever competitors, rollbacks and restarts led to the chain, the reward of
\* every block is the one its ancestors voted for: nodes on one chain agree.
RewardFollowsVotes == \A h \in 1 .. Height : Blocks[h].reward = RewardByChain[h]

\* The stored total is the initial amount plus the rewards paid so far.
Paid ==
  LET p[h \in 0 .. Len(chain)] ==
        IF h = 0 THEN 0 ELSE p[h - 1] + (IF chain[h].reward = None THEN 0 ELSE chain[h].reward)
  IN p
AmountAccumulates == \A h \in 1 .. Len(chain) : chain[h].amount = InitialAmount + Paid[h]
=============================================================================

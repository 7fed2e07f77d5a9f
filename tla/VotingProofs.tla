---------------------------- MODULE VotingProofs ----------------------------
(***************************************************************************)
(* Proofs about the votes for features and for the reward.                 *)
(***************************************************************************)
EXTENDS Voting, Induction, FiniteSetTheorems, TLAPS

-----------------------------------------------------------------------------
(* Arithmetic of windows and terms.                                          *)

\* A multiple, and the number just below it, divided.
LEMMA Multiple ==
  ASSUME NEW n \in Nat, NEW w \in Nat \ {0}, n % w = 0
  PROVE  /\ n = w * (n \div w) /\ n \div w \in Nat
         /\ (n + w - 1) \div w = n \div w
         /\ n > 0 => n >= w /\ (n - 1) \div w = n \div w - 1
<1> DEFINE k == n \div w
<1>1. k \in Nat /\ n = w * k
  OBVIOUS
<1>2. n + w - 1 = w * k + (w - 1) /\ w - 1 \in 0 .. w - 1
  BY <1>1
<1> HIDE DEF k
<1>3. (w * k + (w - 1)) \div w = k
  BY <1>1
<1>4. n > 0 => k >= 1
  BY <1>1
<1>5. n > 0 => n - 1 = w * (k - 1) + (w - 1)
  BY <1>1
<1>6. n > 0 => (w * (k - 1) + (w - 1)) \div w = k - 1
  BY <1>1, <1>4
<1>7. n > 0 => n >= w
  BY <1>1, <1>4
<1> QED BY <1>1, <1>2, <1>3, <1>5, <1>6, <1>7 DEF k

-----------------------------------------------------------------------------
(* The reward.  Each block satisfies the rule that fixes its reward from its *)
(* ancestors, so the chain itself is the function that the reference defines *)
(* by recursion.                                                             *)

Ballots == RewardVotes \union {-1}
Payments == Nat \union {None}

Rule(bs, h) ==
  IF h < ActivatedAt THEN None
  ELSE IF h = ActivatedAt THEN Initial
  ELSE IF (h - ActivatedAt) % Term # 0 THEN bs[h - 1].reward
  ELSE R!Decided([i \in h - VotingInterval .. h - 1 |-> bs[i].vote], bs[h - 1].reward)

Follows(bs) ==
  \A h \in 1 .. Len(bs) : /\ bs[h].reward = Rule(bs, h)
                          /\ bs[h].reward \in IF h < ActivatedAt THEN {None} ELSE Nat

\* The voting interval lies within the term and above the activation.
LEMMA IntervalWithin ==
  ASSUME NEW h \in Nat, h > ActivatedAt, (h - ActivatedAt) % Term = 0
  PROVE  h - VotingInterval \in 1 .. h - 1
<1>1. Term \in Nat \ {0} /\ VotingInterval \in 1 .. Term /\ ActivatedAt \in Nat \ {0}
  BY VotingAssumption
<1>2. h - ActivatedAt \in Nat /\ h - ActivatedAt > 0
  BY <1>1
<1>3. h - ActivatedAt >= Term
  BY <1>1, <1>2, Multiple
<1> QED BY <1>1, <1>3

\* The rule looks at the votes and the rewards of the ancestors only.
LEMMA RuleKept ==
  ASSUME NEW bs, NEW cs, NEW h \in Nat \ {0},
         \A i \in 1 .. h - 1 : cs[i].reward = bs[i].reward /\ cs[i].vote = bs[i].vote
  PROVE  Rule(cs, h) = Rule(bs, h)
<1>1. CASE h <= ActivatedAt
  BY <1>1, VotingAssumption DEF Rule
<1>2. CASE h > ActivatedAt
  <2>1. h - 1 \in 1 .. h - 1 /\ ~(h < ActivatedAt) /\ h # ActivatedAt
    BY <1>2, VotingAssumption
  <2>2. CASE (h - ActivatedAt) % Term # 0
    BY <2>1, <2>2 DEF Rule
  <2>3. CASE (h - ActivatedAt) % Term = 0
    <3>1. h - VotingInterval \in 1 .. h - 1
      BY <1>2, <2>3, IntervalWithin
    <3>2. \A i \in h - VotingInterval .. h - 1 : i \in 1 .. h - 1
      BY <3>1
    <3>3. [i \in h - VotingInterval .. h - 1 |-> bs[i].vote] = [i \in h - VotingInterval .. h - 1 |-> cs[i].vote]
      BY <3>2
    <3> QED BY <2>1, <2>3, <3>3 DEF Rule
  <2> QED BY <2>2, <2>3
<1> QED BY <1>1, <1>2, VotingAssumption

\* A majority moves the reward by an increment, and never below zero.
LEMMA DecidedType ==
  ASSUME NEW v, NEW cur \in Nat
  PROVE  R!Decided(v, cur) \in Nat
<1>1. R!Decided(v, cur) \in {R!Floor0(cur - MinIncrement), cur + MinIncrement, cur}
  BY DEF R!Decided
<1>2. R!Floor0(cur - MinIncrement) \in Nat
  BY VotingAssumption DEF R!Floor0
<1> QED BY <1>1, <1>2, VotingAssumption

\* What is kept of a chain follows the rule.
LEMMA FollowsKept ==
  ASSUME NEW bs, Follows(bs), Len(bs) \in Nat, NEW cs, Len(cs) \in Nat, Len(cs) <= Len(bs),
         \A i \in 1 .. Len(cs) : cs[i].reward = bs[i].reward,
         \A i \in 1 .. Len(cs) - 1 : cs[i].vote = bs[i].vote
  PROVE  Follows(cs)
<1> SUFFICES ASSUME NEW h \in 1 .. Len(cs)
             PROVE  /\ cs[h].reward = Rule(cs, h)
                    /\ cs[h].reward \in IF h < ActivatedAt THEN {None} ELSE Nat
  BY DEF Follows
<1>1. h \in 1 .. Len(bs) /\ \A i \in 1 .. h - 1 : i \in 1 .. Len(cs) - 1 /\ i \in 1 .. Len(cs)
  OBVIOUS
<1>2. Rule(cs, h) = Rule(bs, h)
  BY <1>1, RuleKept
<1> QED BY <1>1, <1>2 DEF Follows

\* The reward that the rule gives.
LEMMA RuleType ==
  ASSUME NEW bs, Follows(bs), Len(bs) \in Nat \ {0}
  PROVE  Rule(bs, Len(bs) + 1) \in IF Len(bs) + 1 < ActivatedAt THEN {None} ELSE Nat
<1>1. PICK h : h = Len(bs) + 1
  OBVIOUS
<1>2. h - 1 \in 1 .. Len(bs) /\ (h > ActivatedAt => ~(h - 1 < ActivatedAt)) /\ h \in Int
  BY <1>1, VotingAssumption
<1>3. h > ActivatedAt => bs[h - 1].reward \in Nat
  BY <1>2 DEF Follows
<1>4. h > ActivatedAt => Rule(bs, h) \in Nat
  BY <1>2, <1>3, DecidedType, VotingAssumption DEF Rule
<1>5. h = ActivatedAt => Rule(bs, h) \in Nat
  BY VotingAssumption DEF Rule
<1>6. h < ActivatedAt => Rule(bs, h) = None
  BY DEF Rule
<1> QED BY <1>1, <1>2, <1>4, <1>5, <1>6, VotingAssumption

\* A block with the reward of the rule extends it.
LEMMA FollowsExtended ==
  ASSUME NEW bs, Follows(bs), Len(bs) \in Nat \ {0}, NEW cs, Len(cs) = Len(bs) + 1,
         \A i \in 1 .. Len(bs) : cs[i].reward = bs[i].reward /\ cs[i].vote = bs[i].vote,
         cs[Len(bs) + 1].reward = Rule(bs, Len(bs) + 1)
  PROVE  Follows(cs)
<1> SUFFICES ASSUME NEW h \in 1 .. Len(cs)
             PROVE  /\ cs[h].reward = Rule(cs, h)
                    /\ cs[h].reward \in IF h < ActivatedAt THEN {None} ELSE Nat
  BY DEF Follows
<1>1. \A i \in 1 .. h - 1 : i \in 1 .. Len(bs)
  OBVIOUS
<1>2. Rule(cs, h) = Rule(bs, h)
  BY <1>1, RuleKept
<1>3. CASE h \in 1 .. Len(bs)
  BY <1>2, <1>3 DEF Follows
<1>4. CASE h = Len(bs) + 1
  BY <1>2, <1>4, RuleType
<1> QED BY <1>3, <1>4

\* The counts of the rewards are cardinalities.
LEMMA Counting == ASSUME NEW S PROVE R!Cardinality(S) = Cardinality(S)
BY DEF R!Cardinality, Cardinality

\* nextReward counts the majority as the reference does.
LEMMA AdjustedIsDecided ==
  ASSUME NEW D, IsFiniteSet(D), Cardinality(D) <= VotingInterval, NEW v \in [D -> Int], NEW cur \in Nat
  PROVE  R!Adjusted(v, cur) = R!Decided(v, cur)
<1> DEFINE below == {i \in DOMAIN v : v[i] >= 0 /\ v[i] < cur}
           above == {i \in DOMAIN v : v[i] > cur}
           cast == {i \in DOMAIN v : v[i] >= 0}
<1>1. {i \in cast : v[i] < cur} = below /\ {i \in cast : v[i] > cur} = above
  OBVIOUS
<1>2. below \subseteq D /\ above \subseteq D /\ below \intersect above = {} /\ below \union above \subseteq D
  OBVIOUS
<1> HIDE DEF below, above
<1>3. IsFiniteSet(below) /\ IsFiniteSet(above) /\ Cardinality(below) \in Nat /\ Cardinality(above) \in Nat
  BY <1>2, FS_Subset, FS_CardinalityType
<1>4. Cardinality(below) + Cardinality(above) <= VotingInterval
  <2>1. Cardinality(below \union above) = Cardinality(below) + Cardinality(above) - Cardinality({})
    BY <1>2, <1>3, FS_Union
  <2>2. Cardinality({}) = 0 /\ Cardinality(D) \in Nat
    BY FS_EmptySet, FS_CardinalityType
  <2>3. Cardinality(below \union above) <= Cardinality(D)
    BY <1>2, FS_Subset
  <2> QED BY <1>3, <2>1, <2>2, <2>3, VotingAssumption
<1>5. R!Cardinality(below) = Cardinality(below) /\ R!Cardinality(above) = Cardinality(above)
  BY Counting
<1>6. PICK b, a : b = Cardinality(below) /\ a = Cardinality(above)
  OBVIOUS
<1>7. R!Adjusted(v, cur) =
        IF b >= VotingInterval \div 2 + 1 THEN R!Floor0(cur - MinIncrement)
        ELSE IF a >= VotingInterval \div 2 + 1 THEN cur + MinIncrement ELSE cur
  BY <1>1, <1>5, <1>6 DEF R!Adjusted
<1>8. R!Decided(v, cur) =
        CASE 2 * b > VotingInterval -> R!Floor0(cur - MinIncrement)
          [] 2 * a > VotingInterval -> cur + MinIncrement
          [] OTHER -> cur
  BY <1>5, <1>6 DEF R!Decided, below, above
<1>9. b \in Nat /\ a \in Nat /\ b + a <= VotingInterval /\ VotingInterval \in Nat
  BY <1>3, <1>4, <1>6, VotingAssumption
<1>10. /\ b >= VotingInterval \div 2 + 1 <=> 2 * b > VotingInterval
       /\ a >= VotingInterval \div 2 + 1 <=> 2 * a > VotingInterval
       /\ ~(2 * b > VotingInterval /\ 2 * a > VotingInterval)
  BY <1>9
<1> QED BY <1>7, <1>8, <1>10

StoredType == [vote : Ballots, reward : Payments, amount : Nat]
RewardType ==
  /\ rewardChain \in Seq(StoredType)
  /\ rewardLiquid = NoLiquid \/ rewardLiquid \in [vote : Ballots, reward : Payments]
  /\ R!Height # 0

\* The blocks are the persisted ones and the liquid one.
LEMMA BlocksFacts ==
  ASSUME RewardType
  PROVE  /\ Len(R!Blocks) = R!Height /\ R!Height \in Nat \ {0} /\ Len(rewardChain) \in Nat
         /\ \A i \in 1 .. Len(rewardChain) : R!Blocks[i] = rewardChain[i] /\ rewardChain[i] \in StoredType
         /\ rewardLiquid # NoLiquid => /\ R!Blocks[Len(rewardChain) + 1] = rewardLiquid
                                       /\ R!Height = Len(rewardChain) + 1
         /\ rewardLiquid = NoLiquid => R!Height = Len(rewardChain)
<1> DEFINE T == StoredType \union [vote : Ballots, reward : Payments]
<1>1. rewardChain \in Seq(StoredType) /\ Len(rewardChain) \in Nat
  BY LenProperties DEF RewardType
<1>2. \A i \in 1 .. Len(rewardChain) : rewardChain[i] \in StoredType
  BY <1>1, ElementOfSeq
<1>3. CASE rewardLiquid = NoLiquid
  BY <1>1, <1>2, <1>3 DEF RewardType, R!Blocks, R!Height
<1>4. CASE rewardLiquid # NoLiquid
  <2>1. rewardLiquid \in T
    BY <1>4 DEF RewardType
  <2>2. rewardChain \in Seq(T)
    BY <1>1, SeqMonotonic
  <2> HIDE DEF T
  <2>3. /\ R!Blocks = Append(rewardChain, rewardLiquid) /\ R!Height = Len(rewardChain) + 1
    BY <1>4 DEF R!Blocks, R!Height
  <2>4. /\ Len(R!Blocks) = Len(rewardChain) + 1
        /\ \A i \in 1 .. Len(rewardChain) : R!Blocks[i] = rewardChain[i]
        /\ R!Blocks[Len(rewardChain) + 1] = rewardLiquid
    BY <2>1, <2>2, <2>3, AppendProperties
  <2> QED BY <1>1, <1>2, <1>4, <2>3, <2>4
<1> QED BY <1>3, <1>4

\* A reward is carried by the last block that has one.
LEMMA LastReward ==
  ASSUME RewardType, Follows(R!Blocks)
  PROVE  R!LastBlockReward = R!Blocks[R!Height].reward
<1> DEFINE n == Len(rewardChain)
           H == R!Height
<1>1. /\ Len(R!Blocks) = H /\ H \in Nat \ {0} /\ n \in Nat
      /\ \A i \in 1 .. n : R!Blocks[i] = rewardChain[i]
      /\ rewardLiquid # NoLiquid => R!Blocks[n + 1] = rewardLiquid /\ H = n + 1
      /\ rewardLiquid = NoLiquid => H = n
  BY BlocksFacts
<1>2. rewardChain = <<>> <=> n = 0
  BY EmptySeq DEF RewardType
<1> HIDE DEF n, H
<1>3. R!PersistedReward = IF n = 0 THEN None ELSE rewardChain[n].reward
  BY <1>2 DEF R!PersistedReward, n
<1>4. CASE rewardLiquid = NoLiquid
  <2>1. n \in 1 .. n /\ n # 0 /\ H = n
    BY <1>1, <1>4
  <2>2. R!PersistedReward = R!Blocks[H].reward
    BY <1>1, <1>3, <2>1
  <2> QED BY <1>4, <2>2 DEF R!LastBlockReward, H
<1>5. CASE rewardLiquid # NoLiquid /\ rewardLiquid.reward # None
  BY <1>1, <1>5 DEF R!LastBlockReward, H
<1>6. CASE rewardLiquid # NoLiquid /\ rewardLiquid.reward = None
  <2>1. H \in 1 .. H /\ R!Blocks[H].reward = None
    BY <1>1, <1>6
  <2>2. H < ActivatedAt
    BY <1>1, <2>1, VotingAssumption DEF Follows
  <2>3. ASSUME n # 0 PROVE rewardChain[n].reward = None
    <3>1. n \in 1 .. n /\ n \in 1 .. H /\ n < ActivatedAt
      BY <1>1, <1>6, <2>2, <2>3, VotingAssumption
    <3> QED BY <1>1, <3>1 DEF Follows
  <2>4. R!PersistedReward = None
    BY <1>3, <2>3
  <2> QED BY <1>6, <2>1, <2>4 DEF R!LastBlockReward, H
<1> QED BY <1>4, <1>5, <1>6

\* At the end of a term the votes counted are those of the interval before it.
LEMMA CountedVotes ==
  ASSUME RewardType, NEW h, h = R!Height + 1, h > ActivatedAt, (h - ActivatedAt) % Term = 0
  PROVE  R!BlockRewardVotes(R!Height) = [i \in h - VotingInterval .. h - 1 |-> R!Blocks[i].vote]
<1> DEFINE n == Len(rewardChain)
           H == R!Height
           D == h - VotingInterval .. h - 1
<1>1. /\ H \in Nat \ {0} /\ n \in Nat
      /\ \A i \in 1 .. n : R!Blocks[i] = rewardChain[i]
      /\ rewardLiquid # NoLiquid => R!Blocks[n + 1] = rewardLiquid /\ H = n + 1
      /\ rewardLiquid = NoLiquid => H = n
  BY BlocksFacts
<1>2. /\ Term \in Nat \ {0} /\ VotingInterval \in 1 .. Term /\ ActivatedAt \in Nat \ {0}
  BY VotingAssumption
<1>3. h \in Nat /\ h = H + 1 /\ h - VotingInterval \in 1 .. h - 1
  <2>1. h \in Nat
    BY <1>1
  <2> QED BY <2>1, IntervalWithin
<1>4. PICK d : d = h - ActivatedAt
  OBVIOUS
<1> HIDE DEF H, n
<1>5. d \in Nat /\ d % Term = 0 /\ d = H - ActivatedAt + 1
  BY <1>1, <1>2, <1>3, <1>4
<1>6. (d + Term - 1) \div Term = d \div Term /\ d = Term * (d \div Term) /\ d \div Term \in Nat
  BY <1>2, <1>5, Multiple
<1>7. R!NearestTermEnd(H) = H
  <2>1. R!NearestTermEnd(H) = ActivatedAt + ((d + Term - 1) \div Term) * Term - 1
    BY <1>5 DEF R!NearestTermEnd
  <2>2. PICK k : k = d \div Term
    OBVIOUS
  <2>3. R!NearestTermEnd(H) = ActivatedAt + k * Term - 1 /\ d = Term * k /\ k \in Nat
    BY <1>6, <2>1, <2>2
  <2>4. k * Term = d
    BY <1>2, <2>3
  <2> QED BY <1>1, <1>2, <1>3, <1>4, <2>3, <2>4
<1>8. R!VotingWindow(H) \intersect 1 .. H = D
  <2>1. R!VotingWindow(H) = {i \in H - VotingInterval + 1 .. H : i <= H}
    BY <1>7 DEF R!VotingWindow
  <2> QED BY <1>1, <1>2, <1>3, <2>1
<1>9. \A i \in D : (IF i <= n THEN rewardChain[i].vote ELSE rewardLiquid.vote) = R!Blocks[i].vote
  BY <1>1, <1>2, <1>3
<1>10. R!BlockRewardVotes(H) =
         [i \in D |-> IF i <= n THEN rewardChain[i].vote ELSE rewardLiquid.vote]
  <2>1. R!BlockRewardVotes(H) = [i \in R!VotingWindow(H) \intersect 1 .. H |->
                                   IF i <= n THEN rewardChain[i].vote ELSE rewardLiquid.vote]
    BY DEF R!BlockRewardVotes, H, n
  <2> QED BY <1>8, <2>1
<1>11. R!BlockRewardVotes(H) = [i \in D |-> R!Blocks[i].vote]
  BY <1>9, <1>10
<1> QED BY <1>11 DEF H

\* nextReward is what the rule gives for the next height.
LEMMA NextRewardIsRule ==
  ASSUME RewardType, Follows(R!Blocks)
  PROVE  R!NextReward = Rule(R!Blocks, R!Height + 1)
<1> DEFINE H == R!Height
           n == Len(rewardChain)
<1>1. /\ Len(R!Blocks) = H /\ H \in Nat \ {0} /\ n \in Nat
      /\ \A i \in 1 .. n : R!Blocks[i] = rewardChain[i] /\ rewardChain[i] \in StoredType
      /\ rewardLiquid # NoLiquid => R!Blocks[n + 1] = rewardLiquid /\ H = n + 1
      /\ rewardLiquid = NoLiquid => H = n
  BY BlocksFacts
<1>2. PICK last : last = R!LastBlockReward
  OBVIOUS
<1>3. last = R!Blocks[H].reward
  BY <1>2, LastReward
<1>4. PICK h : h = H + 1
  OBVIOUS
<1> DEFINE d == h - ActivatedAt
           D == h - VotingInterval .. h - 1
           v == [i \in D |-> R!Blocks[i].vote]
<1>5. ActivatedAt \in Nat \ {0} /\ Term \in Nat \ {0} /\ VotingInterval \in 1 .. Term /\ None \notin Nat
  BY VotingAssumption
<1>6. H \in 1 .. Len(R!Blocks) /\ h - 1 = H /\ h \in Nat
  BY <1>1, <1>4
<1>7. R!NextReward = IF d < 0 THEN last ELSE IF last = None THEN Initial
                     ELSE IF d > 0 /\ d % Term = 0 THEN R!Adjusted(R!BlockRewardVotes(H), last) ELSE last
  <2>1. R!Height + 1 - ActivatedAt = d
    BY <1>1, <1>4, <1>5
  <2> QED BY <1>2, <2>1 DEF R!NextReward
<1>8. (H < ActivatedAt => last = None) /\ (~(H < ActivatedAt) => last \in Nat)
  BY <1>3, <1>6 DEF Follows
<1>9. Rule(R!Blocks, h) = IF h < ActivatedAt THEN None ELSE IF h = ActivatedAt THEN Initial
                          ELSE IF d % Term # 0 THEN last ELSE R!Decided(v, last)
  <2>1. last = R!Blocks[h - 1].reward
    BY <1>3, <1>6
  <2> QED BY <2>1, Zenon DEF Rule
<1>10. CASE h <= ActivatedAt
  BY <1>1, <1>4, <1>5, <1>6, <1>7, <1>8, <1>9, <1>10
<1>11. CASE h > ActivatedAt /\ d % Term # 0
  BY <1>1, <1>4, <1>5, <1>6, <1>7, <1>8, <1>9, <1>11
<1>12. CASE h > ActivatedAt /\ d % Term = 0
  <2>1. d > 0 /\ ~(d < 0) /\ last \in Nat /\ last # None
    BY <1>5, <1>6, <1>8, <1>12
  <2>2. R!BlockRewardVotes(H) = v
    BY <1>4, <1>12, CountedVotes
  <2>3. h - VotingInterval \in 1 .. h - 1
    BY <1>6, <1>12, IntervalWithin
  <2>4. v \in [D -> Int]
    <3>1. \A i \in D : i \in 1 .. n \/ (i = n + 1 /\ rewardLiquid # NoLiquid)
      BY <1>1, <1>5, <1>6, <2>3
    <3>2. \A i \in 1 .. n : rewardChain[i].vote \in Ballots
      BY <1>1 DEF StoredType
    <3>3. rewardLiquid # NoLiquid => rewardLiquid.vote \in Ballots
      BY DEF RewardType
    <3>4. Ballots \subseteq Int
      BY VotingAssumption DEF Ballots
    <3>5. \A i \in D : R!Blocks[i].vote \in Int
      BY <1>1, <3>1, <3>2, <3>3, <3>4
    <3> QED BY <3>5
  <2>5. IsFiniteSet(D) /\ Cardinality(D) <= VotingInterval
    <3>1. h - VotingInterval \in Int /\ h - 1 \in Int
      BY <1>5, <1>6
    <3>2. /\ IsFiniteSet(D)
          /\ Cardinality(D) = IF h - VotingInterval > h - 1 THEN 0 ELSE (h - 1) - (h - VotingInterval) + 1
      BY <3>1, FS_Interval
    <3> QED BY <1>5, <1>6, <2>3, <3>2
  <2> HIDE DEF D, v
  <2>6. R!Adjusted(v, last) = R!Decided(v, last)
    BY <2>1, <2>4, <2>5, AdjustedIsDecided
  <2> QED BY <1>4, <1>5, <1>6, <1>7, <1>9, <1>12, <2>1, <2>2, <2>6
<1> QED BY <1>5, <1>6, <1>10, <1>11, <1>12

\* The same of the next state.
BlocksView ==
  /\ Len(R!Blocks) = R!Height /\ R!Height \in Nat \ {0} /\ Len(rewardChain) \in Nat
  /\ \A i \in 1 .. Len(rewardChain) : R!Blocks[i] = rewardChain[i]
  /\ rewardLiquid # NoLiquid => /\ R!Blocks[Len(rewardChain) + 1] = rewardLiquid
                                /\ R!Height = Len(rewardChain) + 1
  /\ rewardLiquid = NoLiquid => R!Height = Len(rewardChain)

LEMMA NextBlocks == RewardType' => BlocksView'
<1>1. RewardType => BlocksView
  BY BlocksFacts DEF BlocksView
<1> QED BY <1>1, PTL

\* What is stored: the amount grows by the reward.
AmountStep(c, h) ==
  c[h].amount = (IF h = 1 THEN InitialAmount ELSE c[h - 1].amount)
                + (IF c[h].reward = None THEN 0 ELSE c[h].reward)

RewardInv ==
  /\ RewardType
  /\ Follows(R!Blocks)
  /\ \A h \in 1 .. Len(rewardChain) : AmountStep(rewardChain, h)

\* A new liquid block on a chain that agrees with the old one, or instead of the
\* liquid one: its vote is valid and its reward is right.
LEMMA RewardLiquidKept ==
  ASSUME RewardInv, RewardType', NEW n \in Nat, Len(rewardChain') = n,
         rewardLiquid' # NoLiquid,
         \A i \in 1 .. n : /\ rewardChain'[i].reward = R!Blocks[i].reward
                           /\ rewardChain'[i].vote = R!Blocks[i].vote,
         \/ n = R!Height /\ rewardLiquid'.reward = R!NextReward
         \/ n + 1 = R!Height /\ rewardLiquid'.reward = R!Blocks[n + 1].reward
  PROVE  Follows(R!Blocks)'
<1> DEFINE bs == R!Blocks
<1>1. RewardType /\ Follows(bs)
  BY DEF RewardInv
<1>2. Len(bs) = R!Height /\ R!Height \in Nat \ {0}
  BY <1>1, BlocksFacts
<1>3. PICK cs : cs = R!Blocks'
  OBVIOUS
<1>4. /\ Len(cs) = n + 1
      /\ \A i \in 1 .. n : cs[i] = rewardChain'[i]
      /\ cs[n + 1] = rewardLiquid'
  <2>1. BlocksView'
    BY NextBlocks
  <2> QED BY <1>3, <2>1 DEF BlocksView
<1>5. PICK b : b = bs
  OBVIOUS
<1> HIDE DEF bs
<1>6. CASE n = R!Height /\ rewardLiquid'.reward = R!NextReward
  <2>1. cs[Len(b) + 1].reward = Rule(b, Len(b) + 1)
    BY <1>1, <1>2, <1>4, <1>5, <1>6, NextRewardIsRule DEF bs
  <2>2. \A i \in 1 .. Len(b) : cs[i].reward = b[i].reward /\ cs[i].vote = b[i].vote
    BY <1>2, <1>4, <1>5, <1>6 DEF bs
  <2>3. Len(b) \in Nat \ {0} /\ Len(cs) = Len(b) + 1 /\ Follows(b)
    BY <1>1, <1>2, <1>4, <1>5, <1>6 DEF bs
  <2>4. Follows(cs)
    BY <2>1, <2>2, <2>3, FollowsExtended
  <2> QED BY <1>3, <2>4
<1>7. CASE n + 1 = R!Height /\ rewardLiquid'.reward = bs[n + 1].reward
  <2>1. Len(b) \in Nat /\ Len(cs) \in Nat /\ Len(cs) <= Len(b) /\ Follows(b) /\ Len(cs) - 1 = n
    BY <1>1, <1>2, <1>4, <1>5, <1>7 DEF bs
  <2>2. \A i \in 1 .. Len(cs) : cs[i].reward = b[i].reward
    BY <1>2, <1>4, <1>5, <1>7 DEF bs
  <2>3. \A i \in 1 .. Len(cs) - 1 : cs[i].vote = b[i].vote
    BY <1>2, <1>4, <1>5, <1>7, <2>1 DEF bs
  <2>4. Follows(cs)
    BY <2>1, <2>2, <2>3, FollowsKept
  <2> QED BY <1>3, <2>4
<1> QED BY <1>6, <1>7 DEF bs

\* A new liquid block is well formed.
LEMMA RewardLiquidType ==
  ASSUME RewardInv, NEW v \in RewardVotes, NEW r, r = R!NextReward \/ (rewardLiquid # NoLiquid /\ r = rewardLiquid.reward)
  PROVE  [vote |-> v, reward |-> r] \in [vote : Ballots, reward : Payments]
         /\ [vote |-> v, reward |-> r] # NoLiquid
<1>1. RewardType /\ Follows(R!Blocks)
  BY DEF RewardInv
<1>2. PICK bs : bs = R!Blocks
  OBVIOUS
<1>3. Len(bs) = R!Height /\ Len(bs) \in Nat \ {0} /\ Follows(bs)
  BY <1>1, <1>2, BlocksFacts
<1>4. Rule(bs, Len(bs) + 1) \in Payments
  BY <1>3, RuleType DEF Payments
<1>5. R!NextReward \in Payments
  BY <1>1, <1>2, <1>3, <1>4, NextRewardIsRule
<1>6. r \in Payments
  BY <1>1, <1>5 DEF RewardType
<1> QED BY <1>6, VotingAssumption DEF Ballots, Payments

\* A block on the persisted chain, on the liquid one, or instead of it.
LEMMA RewardBlockKept ==
  ASSUME RewardInv, NEW v \in RewardVotes,
         R!AppendToPersisted(v) \/ R!Harden(v) \/ R!ReplaceLiquid(v)
  PROVE  RewardInv'
<1> DEFINE n == Len(rewardChain)
<1>1. RewardType /\ Follows(R!Blocks) /\ \A h \in 1 .. n : AmountStep(rewardChain, h)
  BY DEF RewardInv
<1>2. /\ R!Height \in Nat \ {0} /\ n \in Nat
      /\ \A i \in 1 .. n : R!Blocks[i] = rewardChain[i] /\ rewardChain[i] \in StoredType
      /\ rewardLiquid # NoLiquid => R!Blocks[n + 1] = rewardLiquid /\ R!Height = n + 1
      /\ rewardLiquid = NoLiquid => R!Height = n
  BY <1>1, BlocksFacts
<1>3. PICK r : rewardLiquid' = [vote |-> v, reward |-> r]
               /\ (r = R!NextReward \/ (rewardLiquid # NoLiquid /\ r = rewardLiquid.reward))
  BY DEF R!AppendToPersisted, R!Harden, R!ReplaceLiquid
<1>4. rewardLiquid' \in [vote : Ballots, reward : Payments] /\ rewardLiquid' # NoLiquid
  BY <1>3, RewardLiquidType
<1>5. CASE rewardChain' = rewardChain
  <2>1. RewardType'
    <3>1. R!Height' = n + 1
      BY <1>4, <1>5 DEF R!Height
    <3> QED BY <1>1, <1>2, <1>4, <1>5, <3>1 DEF RewardType
  <2>2. \/ n = R!Height /\ rewardLiquid'.reward = R!NextReward
        \/ n + 1 = R!Height /\ rewardLiquid'.reward = R!Blocks[n + 1].reward
    <3>1. CASE R!AppendToPersisted(v)
      BY <1>2, <3>1 DEF R!AppendToPersisted
    <3>2. CASE R!ReplaceLiquid(v)
      BY <1>2, <3>2 DEF R!ReplaceLiquid
    <3>3. ~R!Harden(v)
      <4> SUFFICES ASSUME R!Harden(v) PROVE FALSE
        OBVIOUS
      <4>1. PICK b : rewardChain' = Append(rewardChain, b)
        BY DEF R!Harden
      <4>2. rewardChain \in Seq(StoredType \union {b})
        BY <1>1, SeqMonotonic DEF RewardType
      <4>3. Len(rewardChain') = n + 1
        BY <4>1, <4>2, AppendProperties
      <4> QED BY <1>2, <1>5, <4>3
    <3> QED BY <3>1, <3>2, <3>3
  <2>3. \A i \in 1 .. n : /\ rewardChain'[i].reward = R!Blocks[i].reward
                          /\ rewardChain'[i].vote = R!Blocks[i].vote
    BY <1>2, <1>5
  <2>4. Follows(R!Blocks)'
    BY <1>2, <1>4, <1>5, <2>1, <2>2, <2>3, RewardLiquidKept
  <2> QED BY <1>1, <1>5, <2>1, <2>4 DEF RewardInv, AmountStep
<1>6. CASE rewardChain' # rewardChain
  <2>1. /\ rewardLiquid # NoLiquid /\ rewardChain' = Append(rewardChain, R!Stored(rewardLiquid))
        /\ rewardLiquid'.reward = R!NextReward
    BY <1>6 DEF R!AppendToPersisted, R!Harden, R!ReplaceLiquid
  <2>2. PICK b : b = R!Stored(rewardLiquid)
    OBVIOUS
  <2>3. rewardLiquid \in [vote : Ballots, reward : Payments]
    BY <1>1, <2>1 DEF RewardType
  <2>4. rewardChain = <<>> <=> n = 0
    BY <1>1, EmptySeq DEF RewardType
  <2>5. /\ b = [vote |-> rewardLiquid.vote, reward |-> rewardLiquid.reward,
                amount |-> R!WavesAmount + (IF rewardLiquid.reward = None THEN 0 ELSE rewardLiquid.reward)]
    BY <2>2 DEF R!Stored
  <2>6. R!WavesAmount = (IF n = 0 THEN InitialAmount ELSE rewardChain[n].amount) /\ R!WavesAmount \in Nat
    <3>1. R!WavesAmount = IF n = 0 THEN InitialAmount ELSE rewardChain[n].amount
      BY <2>4 DEF R!WavesAmount
    <3>2. n # 0 => n \in 1 .. n
      BY <1>2
    <3>3. n # 0 => rewardChain[n].amount \in Nat
      BY <1>2, <3>2 DEF StoredType
    <3> QED BY <3>1, <3>3, VotingAssumption
  <2>7. b \in StoredType
    BY <2>3, <2>5, <2>6 DEF StoredType, Payments
  <2>8. /\ rewardChain' \in Seq(StoredType) /\ Len(rewardChain') = n + 1
        /\ \A i \in 1 .. n : rewardChain'[i] = rewardChain[i]
        /\ rewardChain'[n + 1] = b
    BY <1>1, <2>1, <2>2, <2>7, AppendProperties DEF RewardType
  <2>9. RewardType'
    <3>1. R!Height' = n + 2
      BY <1>2, <1>4, <2>8 DEF R!Height
    <3> QED BY <1>2, <1>4, <2>8, <3>1 DEF RewardType
  <2>10. \A i \in 1 .. n + 1 : /\ rewardChain'[i].reward = R!Blocks[i].reward
                               /\ rewardChain'[i].vote = R!Blocks[i].vote
    <3>1. b.reward = rewardLiquid.reward /\ b.vote = rewardLiquid.vote
      BY <2>5
    <3>2. \A i \in 1 .. n + 1 : i \in 1 .. n \/ i = n + 1
      BY <1>2
    <3> QED BY <1>2, <2>1, <2>8, <3>1, <3>2
  <2>11. Follows(R!Blocks)'
    BY <1>2, <1>4, <2>1, <2>8, <2>9, <2>10, RewardLiquidKept
  <2>12. ASSUME NEW h \in 1 .. n + 1 PROVE AmountStep(rewardChain', h)
    <3>1. CASE h \in 1 .. n
      <4>1. h # 1 => h - 1 \in 1 .. n
        BY <1>2, <3>1
      <4> QED BY <1>1, <2>8, <3>1, <4>1 DEF AmountStep
    <3>2. CASE h = n + 1
      <4>1. h - 1 = n /\ (n # 0 => n \in 1 .. n) /\ (h = 1 <=> n = 0)
        BY <1>2, <3>2
      <4>2. b.reward = rewardLiquid.reward
            /\ b.amount = R!WavesAmount + (IF rewardLiquid.reward = None THEN 0 ELSE rewardLiquid.reward)
        BY <2>5
      <4> QED BY <2>6, <2>8, <3>2, <4>1, <4>2 DEF AmountStep
    <3> QED BY <1>2, <3>1, <3>2
  <2> QED BY <2>8, <2>9, <2>11, <2>12 DEF RewardInv, AmountStep
<1> QED BY <1>5, <1>6

\* A rollback leaves a prefix.
LEMMA RewardRollbackKept ==
  ASSUME RewardInv, NEW m, R!RemoveAfter(m)
  PROVE  RewardInv'
<1> DEFINE n == Len(rewardChain)
<1>1. RewardType /\ Follows(R!Blocks) /\ \A h \in 1 .. n : AmountStep(rewardChain, h)
  BY DEF RewardInv
<1>2. /\ Len(R!Blocks) = R!Height /\ R!Height \in Nat \ {0} /\ n \in Nat
      /\ \A i \in 1 .. n : R!Blocks[i] = rewardChain[i] /\ rewardChain[i] \in StoredType
      /\ rewardLiquid # NoLiquid => R!Height = n + 1
      /\ rewardLiquid = NoLiquid => R!Height = n
  BY <1>1, BlocksFacts
<1>3. m \in 1 .. n /\ rewardLiquid' = NoLiquid /\ rewardChain' = SubSeq(rewardChain, 1, m)
  BY DEF R!RemoveAfter
<1>4. /\ rewardChain' \in Seq(StoredType) /\ Len(rewardChain') = m
      /\ \A i \in 1 .. m : rewardChain'[i] = rewardChain[i]
  <2>1. m \in Nat \ {0} /\ m <= n
    BY <1>2, <1>3
  <2>2. \A i \in 1 .. m : i \in 1 .. n /\ rewardChain[i] \in StoredType
    BY <1>2, <2>1
  <2> QED BY <1>1, <1>3, <2>1, <2>2, SubSeqProperties DEF RewardType
<1>5. RewardType'
  <2>1. R!Height' = m
    BY <1>2, <1>3, <1>4 DEF R!Height
  <2> QED BY <1>2, <1>3, <1>4, <2>1 DEF RewardType
<1>6. PICK bs, cs : bs = R!Blocks /\ cs = R!Blocks'
  OBVIOUS
<1>7. Len(cs) = m /\ \A i \in 1 .. m : cs[i] = rewardChain[i]
  <2>1. BlocksView'
    BY <1>5, NextBlocks
  <2> QED BY <1>3, <1>4, <1>6, <2>1 DEF BlocksView
<1>8. /\ Len(bs) \in Nat /\ Len(cs) \in Nat /\ Len(cs) <= Len(bs) /\ Follows(bs)
      /\ \A i \in 1 .. Len(cs) : cs[i].reward = bs[i].reward
      /\ \A i \in 1 .. Len(cs) - 1 : cs[i].vote = bs[i].vote
  <2>1. m <= n /\ m \in Nat /\ \A i \in 1 .. m : i \in 1 .. n
    BY <1>2, <1>3
  <2>2. \A i \in 1 .. m - 1 : i \in 1 .. m
    BY <2>1
  <2> QED BY <1>1, <1>2, <1>6, <1>7, <2>1, <2>2
<1>9. Follows(R!Blocks)'
  <2>1. Follows(cs)
    BY <1>8, FollowsKept
  <2> QED BY <1>6, <2>1
<1>10. ASSUME NEW h \in 1 .. m PROVE AmountStep(rewardChain', h)
  <2>1. h \in 1 .. n /\ (h # 1 => h - 1 \in 1 .. m)
    BY <1>2, <1>3
  <2> QED BY <1>1, <1>4, <2>1 DEF AmountStep
<1> QED BY <1>4, <1>5, <1>9, <1>10 DEF RewardInv, AmountStep

\* The invariant of the rewards, on the chain that both votes share.
THEOREM RewardInvariance == VotingSpec => []RewardInv
<1>1. VotingInit => RewardInv
  <2> SUFFICES ASSUME VotingInit PROVE RewardInv
    OBVIOUS
  <2> DEFINE b == [vote |-> -1, reward |-> IF ActivatedAt = 1 THEN Initial ELSE None]
  <2>1. rewardChain = <<>> /\ rewardLiquid = b
    BY DEF VotingInit, R!Init
  <2>2. b \in [vote : Ballots, reward : Payments] /\ b # NoLiquid
    BY VotingAssumption DEF Ballots, Payments
  <2>3. rewardChain \in Seq(StoredType) /\ Len(rewardChain) = 0
    BY <2>1, EmptySeq
  <2>4. R!Height = 1
    BY <2>1, <2>2, <2>3 DEF R!Height
  <2>5. RewardType
    BY <2>1, <2>2, <2>3, <2>4 DEF RewardType
  <2>6. PICK bs : bs = R!Blocks
    OBVIOUS
  <2>7. Len(bs) = 1 /\ bs[1] = b
    BY <2>1, <2>2, <2>3, <2>4, <2>5, <2>6, BlocksFacts
  <2>8. bs[1].reward = Rule(bs, 1) /\ bs[1].reward \in IF 1 < ActivatedAt THEN {None} ELSE Nat
    <3>1. bs[1].reward = IF ActivatedAt = 1 THEN Initial ELSE None
      BY <2>7
    <3> QED BY <3>1, VotingAssumption DEF Rule
  <2>9. Follows(bs)
    <3>1. \A h \in 1 .. Len(bs) : h = 1
      BY <2>7
    <3> QED BY <2>8, <3>1 DEF Follows
  <2> QED BY <2>3, <2>5, <2>6, <2>9 DEF RewardInv
<1>2. RewardInv /\ [VotingNext]_votingVars => RewardInv'
  <2> SUFFICES ASSUME RewardInv, [VotingNext]_votingVars PROVE RewardInv'
    OBVIOUS
  <2>1. ASSUME NEW v \in SUBSET FeatureIds, BlockOnPersisted(v) \/ BlockOnLiquid(v) \/ BlockInstead(v)
        PROVE  RewardInv'
    <3>1. RewardVote[v] \in RewardVotes
      BY VotingAssumption
    <3>2. \/ R!AppendToPersisted(RewardVote[v]) \/ R!Harden(RewardVote[v])
          \/ R!ReplaceLiquid(RewardVote[v])
      BY <2>1 DEF BlockOnPersisted, BlockOnLiquid, BlockInstead
    <3> QED BY <3>1, <3>2, RewardBlockKept
  <2>2. ASSUME NEW h \in 1 .. MaxHeight, Rollback(h) PROVE RewardInv'
    BY <2>2, RewardRollbackKept DEF Rollback
  <2>3. CASE UNCHANGED votingVars
    <3>1. rewardChain' = rewardChain /\ rewardLiquid' = rewardLiquid
      BY <2>3 DEF votingVars
    <3>2. RewardType' /\ R!Blocks' = R!Blocks
      BY <3>1 DEF RewardInv, RewardType, R!Blocks, R!Height
    <3> QED BY <3>1, <3>2 DEF RewardInv, AmountStep
  <2> QED BY <2>1, <2>2, <2>3 DEF VotingNext
<1> QED BY <1>1, <1>2, PTL DEF VotingSpec

\* The chain is the function that the reference defines by recursion.
LEMMA ChainIsReference ==
  ASSUME RewardInv
  PROVE  \A h \in 1 .. R!Height : R!Blocks[h].reward = R!RewardByChain[h]
<1> DEFINE H == R!Height
           bs == R!Blocks
           Eq(r) == r = [h \in 0 .. H |->
                           IF h < ActivatedAt THEN None
                           ELSE IF h = ActivatedAt THEN Initial
                           ELSE IF (h - ActivatedAt) % Term # 0 THEN r[h - 1]
                           ELSE R!Decided([i \in h - VotingInterval .. h - 1 |-> bs[i].vote], r[h - 1])]
           w == [h \in 0 .. H |-> IF h = 0 THEN None ELSE bs[h].reward]
<1>1. H \in Nat \ {0} /\ Len(bs) = H /\ Follows(bs)
  BY BlocksFacts DEF RewardInv
<1>2. R!RewardByChain = CHOOSE r : Eq(r)
  BY DEF R!RewardByChain
<1> HIDE DEF H, bs
<1>3. Eq(w)
  <2>1. ASSUME NEW h \in 0 .. H
        PROVE  w[h] = IF h < ActivatedAt THEN None
                      ELSE IF h = ActivatedAt THEN Initial
                      ELSE IF (h - ActivatedAt) % Term # 0 THEN w[h - 1]
                      ELSE R!Decided([i \in h - VotingInterval .. h - 1 |-> bs[i].vote], w[h - 1])
    <3>1. CASE h = 0
      BY <3>1, VotingAssumption
    <3>2. CASE h \in 1 .. H /\ h <= ActivatedAt
      <4>1. w[h] = Rule(bs, h)
        BY <1>1, <3>2 DEF Follows
      <4> QED BY <1>1, <3>2, <4>1, VotingAssumption DEF Rule
    <3>3. CASE h \in 1 .. H /\ h > ActivatedAt
      <4>1. w[h] = Rule(bs, h)
        BY <1>1, <3>3 DEF Follows
      <4>2. h - 1 \in 0 .. H /\ h - 1 # 0 /\ ~(h < ActivatedAt) /\ h # ActivatedAt
        BY <1>1, <3>3, VotingAssumption
      <4>3. w[h - 1] = bs[h - 1].reward
        BY <4>2
      <4> HIDE DEF w
      <4> QED BY <4>1, <4>2, <4>3, Zenon DEF Rule
    <3> QED BY <1>1, <3>1, <3>2, <3>3, VotingAssumption
  <2> QED BY <2>1
<1>4. PICK f : f = R!RewardByChain /\ Eq(f)
  <2> HIDE DEF Eq, w
  <2> QED BY <1>2, <1>3
<1>5. f[0] = w[0]
  BY <1>1, <1>4, VotingAssumption
<1>6. ASSUME NEW i \in 0 .. H - 1, f[i] = w[i] PROVE f[i + 1] = w[i + 1]
  <2>1. i + 1 \in 0 .. H /\ i + 1 - 1 = i
    BY <1>1
  <2>2. PICK h : h = i + 1
    OBVIOUS
  <2>3. h \in 0 .. H /\ h - 1 = i /\ f[h - 1] = w[h - 1]
    BY <1>6, <2>1, <2>2
  <2>4. f[h] = IF h < ActivatedAt THEN None
               ELSE IF h = ActivatedAt THEN Initial
               ELSE IF (h - ActivatedAt) % Term # 0 THEN f[h - 1]
               ELSE R!Decided([x \in h - VotingInterval .. h - 1 |-> bs[x].vote], f[h - 1])
    BY <1>4, <2>3
  <2>5. w[h] = IF h < ActivatedAt THEN None
               ELSE IF h = ActivatedAt THEN Initial
               ELSE IF (h - ActivatedAt) % Term # 0 THEN w[h - 1]
               ELSE R!Decided([x \in h - VotingInterval .. h - 1 |-> bs[x].vote], w[h - 1])
    BY <1>3, <2>3
  <2> HIDE DEF w, Eq
  <2>6. f[h] = w[h]
    <3>1. PICK z : z = [x \in h - VotingInterval .. h - 1 |-> bs[x].vote]
      OBVIOUS
    <3>2. /\ f[h] = IF h < ActivatedAt THEN None ELSE IF h = ActivatedAt THEN Initial
                    ELSE IF (h - ActivatedAt) % Term # 0 THEN f[h - 1] ELSE R!Decided(z, f[h - 1])
          /\ w[h] = IF h < ActivatedAt THEN None ELSE IF h = ActivatedAt THEN Initial
                    ELSE IF (h - ActivatedAt) % Term # 0 THEN w[h - 1] ELSE R!Decided(z, w[h - 1])
      BY <2>4, <2>5, <3>1
    <3> QED BY <2>3, <3>2
  <2> QED BY <2>2, <2>6
<1>7. \A k \in 0 .. H : f[k] = w[k]
  <2> HIDE DEF w, Eq
  <2> QED BY <1>1, <1>5, <1>6, StepwiseEqual
<1>8. \A h \in 1 .. H : h \in 0 .. H /\ h # 0
  BY <1>1
<1> QED BY <1>4, <1>7, <1>8 DEF H, bs

\* Nodes on one chain agree on the reward of every block: it is the one that a
\* strict majority of the blocks of each voting interval asked for, whatever
\* competitors, rollbacks and hardenings led to the chain.
THEOREM RewardsFollowVotes == VotingSpec => []RewardFollowsVotes
<1>1. RewardInv => RewardFollowsVotes
  BY ChainIsReference DEF RewardFollowsVotes, R!RewardFollowsVotes
<1> QED BY <1>1, RewardInvariance, PTL

\* The stored amounts are the sums that the reference defines by recursion.
LEMMA AmountIsReference ==
  ASSUME RewardInv
  PROVE  \A h \in 1 .. Len(rewardChain) : rewardChain[h].amount = InitialAmount + R!Paid[h]
<1> DEFINE n == Len(rewardChain)
           pay(h) == IF rewardChain[h].reward = None THEN 0 ELSE rewardChain[h].reward
           Eq(p) == p = [h \in 0 .. n |-> IF h = 0 THEN 0 ELSE p[h - 1] + pay(h)]
           w == [h \in 0 .. n |-> IF h = 0 THEN 0 ELSE rewardChain[h].amount - InitialAmount]
<1>1. /\ n \in Nat /\ InitialAmount \in Nat
      /\ \A i \in 1 .. n : rewardChain[i] \in StoredType /\ AmountStep(rewardChain, i)
  BY BlocksFacts, VotingAssumption DEF RewardInv
<1>2. \A i \in 1 .. n : rewardChain[i].amount \in Nat /\ pay(i) \in Nat
  BY <1>1 DEF StoredType, Payments
<1>3. R!Paid = CHOOSE p : Eq(p)
  BY DEF R!Paid
<1>4. \A i \in 1 .. n : rewardChain[i].amount = (IF i = 1 THEN InitialAmount ELSE rewardChain[i - 1].amount) + pay(i)
  BY <1>1 DEF AmountStep
<1> HIDE DEF n, pay
<1>5. Eq(w)
  <2>1. ASSUME NEW h \in 0 .. n, h # 0 PROVE w[h] = w[h - 1] + pay(h)
    <3>1. h \in 1 .. n /\ h - 1 \in 0 .. n /\ (h # 1 => h - 1 \in 1 .. n /\ h - 1 # 0) /\ (h = 1 => h - 1 = 0)
      BY <1>1, <2>1
    <3>2. w[h] = rewardChain[h].amount - InitialAmount
          /\ w[h - 1] = IF h - 1 = 0 THEN 0 ELSE rewardChain[h - 1].amount - InitialAmount
      BY <2>1, <3>1
    <3> QED BY <1>1, <1>2, <1>4, <3>1, <3>2
  <2> QED BY <2>1
<1>6. PICK f : f = R!Paid /\ Eq(f)
  <2> HIDE DEF Eq, w
  <2> QED BY <1>3, <1>5
<1>7. f[0] = w[0]
  BY <1>1, <1>6
<1>8. ASSUME NEW i \in 0 .. n - 1, f[i] = w[i] PROVE f[i + 1] = w[i + 1]
  <2>1. PICK h : h = i + 1
    OBVIOUS
  <2>2. h \in 0 .. n /\ h # 0 /\ h - 1 = i
    BY <1>1, <2>1
  <2>3. f[h] = f[h - 1] + pay(h) /\ w[h] = w[h - 1] + pay(h)
    BY <1>5, <1>6, <2>2
  <2> QED BY <1>8, <2>1, <2>2, <2>3
<1>9. \A k \in 0 .. n : f[k] = w[k]
  <2> HIDE DEF w, Eq
  <2> QED BY <1>1, <1>7, <1>8, StepwiseEqual
<1>10. ASSUME NEW h \in 1 .. n PROVE rewardChain[h].amount = InitialAmount + R!Paid[h]
  <2>1. h \in 0 .. n /\ h # 0
    BY <1>1
  <2>2. R!Paid[h] = rewardChain[h].amount - InitialAmount
    BY <1>6, <1>9, <2>1
  <2> QED BY <1>1, <1>2, <2>2
<1> QED BY <1>10 DEF n

\* The stored total of Waves is the initial amount plus the rewards of the
\* blocks of the chain, through rollbacks and blocks replaced before they harden.
THEOREM AmountsAccumulate == VotingSpec => []AmountAccumulates
<1>1. RewardInv => AmountAccumulates
  BY AmountIsReference DEF AmountAccumulates, R!AmountAccumulates
<1> QED BY <1>1, RewardInvariance, PTL

-----------------------------------------------------------------------------
(* The features.  The approvals of the liquid block are those of its votes,  *)
(* so persisting it changes no activation.                                   *)

FeatureType ==
  /\ votes \in Seq(SUBSET FeatureIds)
  /\ liquid = NoLiquid \/ liquid \in [votes : SUBSET FeatureIds, approved : SUBSET FeatureIds]
LiquidInv ==
  FeatureType /\ (liquid # NoLiquid => liquid.approved = FeaturesApprovedWithBlock(votes, liquid.votes))

\* Only features that somebody voted for are approved.
LEMMA ApprovedType ==
  ASSUME NEW c \in Seq(SUBSET FeatureIds), NEW v
  PROVE  FeaturesApprovedWithBlock(c, v) \subseteq FeatureIds
<1> DEFINE h == Len(c) + 1
           window == ActivationWindow(h) \cap 1 .. Len(c)
           named == UNION {c[i] : i \in window}
<1>1. \A i \in 1 .. Len(c) : c[i] \in SUBSET FeatureIds
  BY ElementOfSeq
<1>2. named \subseteq FeatureIds
  BY <1>1
<1>3. DOMAIN FeatureVotes(c, h) = named
  BY DEF FeatureVotes
<1> HIDE DEF named, window, h
<1>4. FeaturesApprovedWithBlock(c, v) \subseteq DOMAIN FeatureVotes(c, h)
  BY DEF FeaturesApprovedWithBlock, h
<1> QED BY <1>2, <1>3, <1>4

\* A new liquid block.
LEMMA NewLiquidKept ==
  ASSUME votes' \in Seq(SUBSET FeatureIds), NEW v \in SUBSET FeatureIds, NewLiquid(v)
  PROVE  LiquidInv' /\ liquid' # NoLiquid
<1>1. FeaturesApprovedWithBlock(votes', v) \subseteq FeatureIds
  BY ApprovedType
<1>2. liquid' = [votes |-> v, approved |-> FeaturesApprovedWithBlock(votes', v)]
  BY DEF NewLiquid
<1>3. PICK a : a = FeaturesApprovedWithBlock(votes', v)
  OBVIOUS
<1>4. liquid' \in [votes : SUBSET FeatureIds, approved : SUBSET FeatureIds]
      /\ liquid'.votes = v /\ liquid'.approved = a
  BY <1>1, <1>2, <1>3
<1>5. liquid' # NoLiquid
  BY <1>4, FeaturesAssumption
<1>6. FeatureType'
  BY <1>4 DEF FeatureType
<1> QED BY <1>3, <1>4, <1>5, <1>6 DEF LiquidInv

\* The votes of the chain after a step.
LEMMA VotesAppended ==
  ASSUME LiquidInv, liquid # NoLiquid, votes' = Append(votes, liquid.votes)
  PROVE  /\ votes' \in Seq(SUBSET FeatureIds) /\ Len(votes) \in Nat /\ Len(votes') = Len(votes) + 1
         /\ \A i \in 1 .. Len(votes) : votes'[i] = votes[i]
         /\ votes'[Len(votes) + 1] = liquid.votes
<1>1. votes \in Seq(SUBSET FeatureIds) /\ liquid.votes \in SUBSET FeatureIds
  BY DEF LiquidInv, FeatureType
<1>2. PICK v : v = liquid.votes
  OBVIOUS
<1> QED BY <1>1, <1>2, AppendProperties, LenProperties

LEMMA VotesCut ==
  ASSUME LiquidInv, NEW h, RemoveAfter(h)
  PROVE  /\ votes' \in Seq(SUBSET FeatureIds) /\ Len(votes) \in Nat /\ Len(votes') = h
         /\ h \in 1 .. Len(votes) /\ \A i \in 1 .. h : votes'[i] = votes[i]
<1>1. votes \in Seq(SUBSET FeatureIds) /\ Len(votes) \in Nat /\ h \in 1 .. Len(votes)
      /\ votes' = SubSeq(votes, 1, h)
  BY LenProperties DEF LiquidInv, FeatureType, RemoveAfter
<1>2. h \in Nat \ {0} /\ \A i \in 1 .. h : i \in 1 .. Len(votes)
  BY <1>1
<1>3. \A i \in 1 .. h : votes[i] \in SUBSET FeatureIds
  BY <1>1, <1>2, ElementOfSeq
<1> QED BY <1>1, <1>2, <1>3, SubSeqProperties

\* The approvals in NgState are those that the votes of the liquid block give.
THEOREM LiquidInvariance == VotingSpec => []LiquidInv
<1>1. VotingInit => LiquidInv
  <2> SUFFICES ASSUME VotingInit PROVE LiquidInv
    OBVIOUS
  <2>1. votes = <<>> /\ liquid = [votes |-> {}, approved |-> {}]
    BY DEF VotingInit, Init
  <2>2. FeaturesApprovedWithBlock(<<>>, {}) = {}
    <3>1. Len(<<>>) = 0 /\ 1 .. 0 = {}
      BY EmptySeq
    <3>2. DOMAIN FeatureVotes(<<>>, 1) = {}
      BY <3>1 DEF FeatureVotes
    <3>3. FeaturesApprovedWithBlock(<<>>, {}) \subseteq DOMAIN FeatureVotes(<<>>, 1)
      BY <3>1 DEF FeaturesApprovedWithBlock
    <3> QED BY <3>2, <3>3
  <2>3. FeatureType
    BY <2>1, EmptySeq DEF FeatureType
  <2> QED BY <2>1, <2>2, <2>3 DEF LiquidInv
<1>2. LiquidInv /\ [VotingNext]_votingVars => LiquidInv'
  <2> SUFFICES ASSUME LiquidInv, [VotingNext]_votingVars PROVE LiquidInv'
    OBVIOUS
  <2>1. ASSUME NEW v \in SUBSET FeatureIds, BlockOnPersisted(v) \/ BlockInstead(v) PROVE LiquidInv'
    <3>1. votes' = votes /\ NewLiquid(v)
      BY <2>1 DEF BlockOnPersisted, BlockInstead, AppendToPersisted, ReplaceLiquid
    <3>2. votes' \in Seq(SUBSET FeatureIds)
      BY <3>1 DEF LiquidInv, FeatureType
    <3> QED BY <3>1, <3>2, NewLiquidKept
  <2>2. ASSUME NEW v \in SUBSET FeatureIds, BlockOnLiquid(v) PROVE LiquidInv'
    <3>1. liquid # NoLiquid /\ votes' = Append(votes, liquid.votes) /\ NewLiquid(v)
      BY <2>2 DEF BlockOnLiquid, Harden, DoAppend
    <3>2. votes' \in Seq(SUBSET FeatureIds)
      BY <3>1, VotesAppended
    <3> QED BY <3>1, <3>2, NewLiquidKept
  <2>3. ASSUME NEW h \in 1 .. MaxHeight, Rollback(h) PROVE LiquidInv'
    <3>1. RemoveAfter(h) /\ liquid' = NoLiquid
      BY <2>3 DEF Rollback, RemoveAfter
    <3>2. votes' \in Seq(SUBSET FeatureIds)
      BY <3>1, VotesCut
    <3> QED BY <3>1, <3>2 DEF LiquidInv, FeatureType
  <2>4. CASE UNCHANGED votingVars
    BY <2>4 DEF votingVars, vars, LiquidInv, FeatureType
  <2> QED BY <2>1, <2>2, <2>3, <2>4 DEF VotingNext
<1> QED BY <1>1, <1>2, PTL DEF VotingSpec

\* Persisting the liquid block keeps every activation.
LEMMA HardenStable ==
  ASSUME LiquidInv, liquid # NoLiquid, DoAppend(liquid.votes), NEW f \in DOMAIN ActivatedFeatures
  PROVE  f \in DOMAIN ActivatedFeatures' /\ ActivatedFeatures'[f] = ActivatedFeatures[f]
<1> DEFINE h == Len(votes) + 1
           newly == liquid.approved \ PreActivated
           a == h + ActivationWindowSize(h)
<1>1. Height = h
  BY DEF Height
<1>2. activated' = Plus([x \in newly |-> a], activated)
  BY DEF DoAppend, LiquidInv
<1>3. ActivatedFeatures = Plus(Plus([x \in liquid.approved |-> a], activated), [x \in PreActivated |-> 0])
  BY <1>1 DEF ActivatedFeatures, NewlyApproved
<1>4. PICK g : ActivatedFeatures' = Plus(Plus(g, activated'), [x \in PreActivated |-> 0])
  BY DEF ActivatedFeatures
<1> HIDE DEF h, a
<1>5. /\ DOMAIN activated' = newly \union DOMAIN activated
      /\ \A x \in DOMAIN activated' : activated'[x] = IF x \in DOMAIN activated THEN activated[x] ELSE a
  BY <1>2 DEF Plus
<1>6. /\ DOMAIN ActivatedFeatures = liquid.approved \union DOMAIN activated \union PreActivated
      /\ \A x \in DOMAIN ActivatedFeatures :
           ActivatedFeatures[x] = IF x \in PreActivated THEN 0 ELSE IF x \in DOMAIN activated THEN activated[x] ELSE a
  BY <1>3 DEF Plus
<1>7. PICK k : k = activated'
  OBVIOUS
<1>8. PICK m : m = ActivatedFeatures'
  OBVIOUS
<1>9. /\ DOMAIN k \union PreActivated \subseteq DOMAIN m
      /\ \A x \in DOMAIN k \union PreActivated : m[x] = IF x \in PreActivated THEN 0 ELSE k[x]
  BY <1>4, <1>7, <1>8 DEF Plus
<1>10. f \in DOMAIN k \union PreActivated
  BY <1>5, <1>6, <1>7
<1>11. m[f] = ActivatedFeatures[f]
  BY <1>5, <1>6, <1>7, <1>9, <1>10
<1> QED BY <1>8, <1>9, <1>10, <1>11

\* Persisting the liquid block moves no activation that a reader has seen: the
\* approvals held in NgState and those that doAppend stores are the same.
THEOREM StableActivation == VotingSpec => ActivationIsStable
<1>1. LiquidInv /\ [VotingNext]_votingVars =>
        [Len(votes') > Len(votes) =>
           \A f \in DOMAIN ActivatedFeatures :
             f \in DOMAIN ActivatedFeatures' /\ ActivatedFeatures'[f] = ActivatedFeatures[f]]_vars
  <2> SUFFICES ASSUME LiquidInv, [VotingNext]_votingVars, Len(votes') > Len(votes),
                      NEW f \in DOMAIN ActivatedFeatures
               PROVE  f \in DOMAIN ActivatedFeatures' /\ ActivatedFeatures'[f] = ActivatedFeatures[f]
    OBVIOUS
  <2>1. Len(votes) \in Nat
    BY LenProperties DEF LiquidInv, FeatureType
  <2>2. votes' # votes
    BY <2>1
  <2>3. ASSUME NEW v \in SUBSET FeatureIds, BlockOnLiquid(v)
        PROVE  f \in DOMAIN ActivatedFeatures' /\ ActivatedFeatures'[f] = ActivatedFeatures[f]
    BY <2>3, HardenStable DEF BlockOnLiquid, Harden
  <2>4. ASSUME NEW v \in SUBSET FeatureIds, BlockOnPersisted(v) \/ BlockInstead(v) PROVE FALSE
    BY <2>2, <2>4 DEF BlockOnPersisted, BlockInstead, AppendToPersisted, ReplaceLiquid
  <2>5. ASSUME NEW h \in 1 .. MaxHeight, Rollback(h) PROVE FALSE
    <3>1. Len(votes') = h /\ h \in 1 .. Len(votes)
      BY <2>5, VotesCut DEF Rollback
    <3> QED BY <2>1, <3>1
  <2>6. ~UNCHANGED votingVars
    BY <2>2 DEF votingVars, vars
  <2> QED BY <2>3, <2>4, <2>5, <2>6 DEF VotingNext
<1> QED BY <1>1, LiquidInvariance, PTL DEF VotingSpec, ActivationIsStable

-----------------------------------------------------------------------------
(* The status of a feature.  What is stored of a feature is the first window *)
(* that it won on the persisted chain; the liquid block adds at most one.    *)
(* Two hypotheses: no rollback removes the end of a window, and a window     *)
(* needs two votes, since featureVotes knows only the features that a        *)
(* persisted block of the window voted for.                                  *)

Tally(c, f, h) == Cardinality({i \in ActivationWindow(h) : f \in c[i]})
Won(c, f) == {h \in 1 .. Len(c) : EndsWindow(h) /\ Tally(c, f, h) >= BlocksForFeatureActivation(h)}

StoredInv ==
  /\ DOMAIN approved = {f \in FeatureIds \ PreActivated : Won(votes, f) # {}}
  /\ DOMAIN activated = DOMAIN approved
  /\ \A f \in DOMAIN approved :
       /\ approved[f] \in Won(votes, f) /\ \A x \in Won(votes, f) : approved[f] <= x
       /\ activated[f] = approved[f] + ActivationWindowSize(approved[f])

\* A window that ends at h is the last ActivationWindowSize(h) heights up to h.
LEMMA WindowFacts ==
  ASSUME NEW h \in Nat \ {0}, EndsWindow(h)
  PROVE  ActivationWindow(h) \subseteq 1 .. h /\ h \in ActivationWindow(h)
<1> DEFINE w == ActivationWindowSize(h)
<1>1. w \in Nat \ {0}
  BY FeaturesAssumption DEF ActivationWindowSize
<1>2. h % w = 0
  BY DEF EndsWindow
<1>3. PICK k : k = h \div w
  OBVIOUS
<1> HIDE DEF w
<1>4. h = w * k /\ k \in Nat /\ h >= w /\ (h - 1) \div w = k - 1
  <2>1. h \in Nat /\ h > 0
    OBVIOUS
  <2>2. /\ h = w * (h \div w) /\ h \div w \in Nat
        /\ h > 0 => h >= w /\ (h - 1) \div w = h \div w - 1
    BY <1>1, <1>2, <2>1, Multiple
  <2> QED BY <1>3, <2>1, <2>2
<1>5. ActivationWindow(h) = ((h - 1) \div w) * w + 1 .. ((h - 1) \div w + 1) * w
  BY DEF ActivationWindow, w
<1>6. ActivationWindow(h) = (k - 1) * w + 1 .. (k - 1 + 1) * w
  BY <1>4, <1>5
<1>7. (k - 1 + 1) * w = h /\ (k - 1) * w = h - w
  BY <1>1, <1>4
<1> QED BY <1>1, <1>4, <1>6, <1>7

LEMMA QuorumFacts ==
  ASSUME NEW h \in Nat, MinVotes >= 2
  PROVE  BlocksForFeatureActivation(h) \in Nat /\ BlocksForFeatureActivation(h) >= 2
         /\ ActivationWindowSize(h) \in Nat
BY FeaturesAssumption DEF BlocksForFeatureActivation, ActivationWindowSize

\* A window is decided by the blocks up to its end.
LEMMA TallyKept ==
  ASSUME NEW c, NEW d, NEW f, NEW h \in Nat \ {0}, EndsWindow(h), \A i \in 1 .. h : d[i] = c[i]
  PROVE  Tally(d, f, h) = Tally(c, f, h)
<1>1. ActivationWindow(h) \subseteq 1 .. h
  BY WindowFacts
<1>2. {i \in ActivationWindow(h) : f \in d[i]} = {i \in ActivationWindow(h) : f \in c[i]}
  BY <1>1
<1> QED BY <1>2 DEF Tally

\* featuresApprovedWithBlock finds the winners of the window that the block ends.
LEMMA ApprovedIsWon ==
  ASSUME MinVotes >= 2, NEW c \in Seq(SUBSET FeatureIds), NEW v \in SUBSET FeatureIds,
         NEW d, NEW h, h = Len(c) + 1, \A i \in 1 .. Len(c) : d[i] = c[i], d[h] = v, NEW f
  PROVE  f \in FeaturesApprovedWithBlock(c, v)
           <=> EndsWindow(h) /\ Tally(d, f, h) >= BlocksForFeatureActivation(h)
<1>1. Len(c) \in Nat /\ h \in Nat \ {0} /\ BlocksForFeatureActivation(h) \in Nat
      /\ BlocksForFeatureActivation(h) >= 2
  <2>1. Len(c) \in Nat /\ h \in Nat \ {0}
    BY LenProperties
  <2> QED BY <2>1, QuorumFacts
<1>2. CASE ~EndsWindow(h)
  BY <1>2 DEF FeaturesApprovedWithBlock
<1>3. CASE EndsWindow(h)
  <2> DEFINE window == ActivationWindow(h) \cap 1 .. Len(c)
             A == {i \in window : f \in c[i]}
             B == {i \in ActivationWindow(h) : f \in d[i]}
             named == UNION {c[i] : i \in window}
             count == FeatureVotes(c, h)
  <2>1. ActivationWindow(h) \subseteq 1 .. h /\ h \in ActivationWindow(h)
    BY <1>1, <1>3, WindowFacts
  <2>2. IsFiniteSet(A) /\ Cardinality(A) \in Nat
    <3>1. IsFiniteSet(1 .. Len(c))
      BY <1>1, FS_Interval
    <3> QED BY <3>1, FS_Subset, FS_CardinalityType
  <2>3. B = A \union (IF f \in v THEN {h} ELSE {}) /\ h \notin A
    <3>1. \A i \in 1 .. h : i \in 1 .. Len(c) \/ i = h
      BY <1>1
    <3>2. h \notin 1 .. Len(c)
      BY <1>1
    <3> QED BY <2>1, <3>1, <3>2
  <2>4. Cardinality(B) = Cardinality(A) + (IF f \in v THEN 1 ELSE 0)
    <3> HIDE DEF A, B
    <3>1. CASE f \in v
      BY <2>2, <2>3, <3>1, FS_AddElement
    <3>2. CASE f \notin v
      <4>1. B = A
        BY <2>3, <3>2
      <4> QED BY <2>2, <3>2, <4>1
    <3> QED BY <3>1, <3>2
  <2>5. f \in named <=> A # {}
    OBVIOUS
  <2>6. A = {} => Cardinality(A) = 0
    BY FS_EmptySet
  <2>7. DOMAIN count = named /\ (f \in named => count[f] = Cardinality(A))
    BY DEF FeatureVotes
  <2>8. FeaturesApprovedWithBlock(c, v) =
          {x \in DOMAIN count : count[x] + (IF x \in v THEN 1 ELSE 0) >= BlocksForFeatureActivation(h)}
    BY <1>3 DEF FeaturesApprovedWithBlock
  <2> HIDE DEF A, B, named, window, count
  <2>9. f \in FeaturesApprovedWithBlock(c, v)
          <=> f \in named /\ count[f] + (IF f \in v THEN 1 ELSE 0) >= BlocksForFeatureActivation(h)
    BY <2>7, <2>8
  <2>10. f \in FeaturesApprovedWithBlock(c, v)
           <=> A # {} /\ Cardinality(B) >= BlocksForFeatureActivation(h)
    BY <2>4, <2>5, <2>7, <2>9
  <2>11. Cardinality(B) >= BlocksForFeatureActivation(h) => A # {}
    BY <1>1, <2>2, <2>4, <2>6
  <2> QED BY <1>3, <2>10, <2>11 DEF Tally, B
<1> QED BY <1>2, <1>3

\* One more block adds at most its own height to the windows a feature won.
LEMMA WonExtended ==
  ASSUME MinVotes >= 2, NEW c \in Seq(SUBSET FeatureIds), NEW v \in SUBSET FeatureIds,
         NEW d, NEW h, h = Len(c) + 1, Len(d) = h, \A i \in 1 .. Len(c) : d[i] = c[i], d[h] = v, NEW f
  PROVE  Won(d, f) = Won(c, f) \union (IF f \in FeaturesApprovedWithBlock(c, v) THEN {h} ELSE {})
         /\ \A x \in Won(c, f) : x \in Nat \ {0} /\ x < h
<1>1. Len(c) \in Nat /\ h \in Nat \ {0}
  BY LenProperties
<1>2. \A x \in 1 .. h : x \in 1 .. Len(c) \/ x = h
  BY <1>1
<1>3. ASSUME NEW x \in 1 .. Len(c) PROVE x \in Won(d, f) <=> x \in Won(c, f)
  <2>1. x \in Nat \ {0} /\ x \in 1 .. h /\ \A i \in 1 .. x : d[i] = c[i]
    BY <1>1
  <2>2. EndsWindow(x) => Tally(d, f, x) = Tally(c, f, x)
    BY <2>1, TallyKept
  <2> QED BY <2>1, <2>2 DEF Won
<1>4. h \in Won(d, f) <=> f \in FeaturesApprovedWithBlock(c, v)
  <2>1. h \in 1 .. h
    BY <1>1
  <2>2. f \in FeaturesApprovedWithBlock(c, v)
          <=> EndsWindow(h) /\ Tally(d, f, h) >= BlocksForFeatureActivation(h)
    BY ApprovedIsWon
  <2> QED BY <2>1, <2>2 DEF Won
<1>5. Won(d, f) \subseteq 1 .. h /\ Won(c, f) \subseteq 1 .. Len(c)
  BY DEF Won
<1>6. \A x \in 1 .. Len(c) : x \in Nat \ {0} /\ x < h
  BY <1>1
<1> QED BY <1>2, <1>3, <1>4, <1>5, <1>6

\* Persisting the liquid block stores the windows it won.
LEMMA HardenStores ==
  ASSUME MinVotes >= 2, LiquidInv, StoredInv, liquid # NoLiquid, DoAppend(liquid.votes)
  PROVE  StoredInv'
<1> DEFINE h == Len(votes) + 1
           newly == FeaturesApprovedWithBlock(votes, liquid.votes) \ PreActivated
<1>1. /\ votes' = Append(votes, liquid.votes)
      /\ approved' = Plus([x \in newly |-> h], approved)
      /\ activated' = Plus([x \in newly |-> h + ActivationWindowSize(h)], activated)
  BY DEF DoAppend
<1>2. /\ votes' \in Seq(SUBSET FeatureIds) /\ Len(votes) \in Nat /\ Len(votes') = h
      /\ \A i \in 1 .. Len(votes) : votes'[i] = votes[i]
      /\ votes'[h] = liquid.votes
  BY <1>1, VotesAppended
<1>3. votes \in Seq(SUBSET FeatureIds) /\ liquid.votes \in SUBSET FeatureIds
  BY DEF LiquidInv, FeatureType
<1>4. newly \subseteq FeatureIds \ PreActivated
  BY <1>3, ApprovedType
<1>5. PICK c, d, v, n : c = votes /\ d = votes' /\ v = liquid.votes /\ n = h
  OBVIOUS
<1>6. ASSUME NEW f
      PROVE  Won(d, f) = Won(c, f) \union (IF f \in FeaturesApprovedWithBlock(c, v) THEN {n} ELSE {})
             /\ \A x \in Won(c, f) : x \in Nat \ {0} /\ x < n
  <2>1. /\ c \in Seq(SUBSET FeatureIds) /\ v \in SUBSET FeatureIds /\ n = Len(c) + 1 /\ Len(d) = n
        /\ \A i \in 1 .. Len(c) : d[i] = c[i]
        /\ d[n] = v
    BY <1>2, <1>3, <1>5
  <2> QED BY <2>1, WonExtended
<1>7. PICK N : N = newly
  OBVIOUS
<1>8. n \in Nat \ {0} /\ N = FeaturesApprovedWithBlock(c, v) \ PreActivated /\ N \subseteq FeatureIds \ PreActivated
  BY <1>2, <1>4, <1>5, <1>7
<1>9. PICK a, b : a = approved' /\ b = activated'
  OBVIOUS
<1>10. /\ DOMAIN a = N \union DOMAIN approved /\ DOMAIN b = N \union DOMAIN activated
       /\ \A x \in DOMAIN a : a[x] = IF x \in DOMAIN approved THEN approved[x] ELSE n
       /\ \A x \in DOMAIN b : b[x] = IF x \in DOMAIN activated THEN activated[x]
                                     ELSE n + ActivationWindowSize(n)
  BY <1>1, <1>5, <1>7, <1>9 DEF Plus
<1> HIDE DEF h, newly
<1>11. /\ DOMAIN approved = {f \in FeatureIds \ PreActivated : Won(c, f) # {}}
       /\ DOMAIN activated = DOMAIN approved
       /\ \A f \in DOMAIN approved :
            /\ approved[f] \in Won(c, f) /\ \A x \in Won(c, f) : approved[f] <= x
            /\ activated[f] = approved[f] + ActivationWindowSize(approved[f])
  BY <1>5 DEF StoredInv
<1>12. DOMAIN a = {f \in FeatureIds \ PreActivated : Won(d, f) # {}}
  <2>1. ASSUME NEW f \in FeatureIds \ PreActivated PROVE f \in DOMAIN a <=> Won(d, f) # {}
    BY <1>6, <1>8, <1>10, <1>11
  <2>2. DOMAIN a \subseteq FeatureIds \ PreActivated
    BY <1>8, <1>10, <1>11
  <2> QED BY <2>1, <2>2
<1>13. DOMAIN b = DOMAIN a
  BY <1>10, <1>11
<1>14. ASSUME NEW f \in DOMAIN a
       PROVE  /\ a[f] \in Won(d, f) /\ \A x \in Won(d, f) : a[f] <= x
              /\ b[f] = a[f] + ActivationWindowSize(a[f])
  <2>1. CASE f \in DOMAIN approved
    <3>1. a[f] = approved[f] /\ b[f] = activated[f]
      BY <1>10, <1>11, <1>13, <2>1
    <3>2. approved[f] \in Nat /\ approved[f] < n /\ approved[f] <= n
      BY <1>6, <1>8, <1>11, <2>1
    <3> QED BY <1>6, <1>11, <2>1, <3>1, <3>2
  <2>2. CASE f \notin DOMAIN approved
    <3>1. f \in N /\ a[f] = n /\ b[f] = n + ActivationWindowSize(n)
      BY <1>10, <1>11, <1>13, <2>2
    <3>2. Won(c, f) = {}
      BY <1>8, <1>11, <2>2, <3>1
    <3>3. Won(d, f) = {n} /\ n <= n
      BY <1>6, <1>8, <3>1, <3>2
    <3> QED BY <3>1, <3>3
  <2> QED BY <2>1, <2>2
<1>15. /\ DOMAIN approved' = {f \in FeatureIds \ PreActivated : Won(votes', f) # {}}
       /\ DOMAIN activated' = DOMAIN approved'
       /\ \A f \in DOMAIN approved' :
            /\ approved'[f] \in Won(votes', f) /\ \A x \in Won(votes', f) : approved'[f] <= x
            /\ activated'[f] = approved'[f] + ActivationWindowSize(approved'[f])
  BY <1>5, <1>9, <1>12, <1>13, <1>14
<1> QED BY <1>15 DEF StoredInv, Won, Tally

\* A rollback that removes no end of a window loses no window.
LEMMA RollbackStores ==
  ASSUME ~BoundaryRollbacks, LiquidInv, StoredInv, NEW h, RemoveAfter(h)
  PROVE  StoredInv'
<1>1. /\ Len(votes) \in Nat /\ Len(votes') = h /\ h \in 1 .. Len(votes)
      /\ \A i \in 1 .. h : votes'[i] = votes[i]
  BY VotesCut
<1>2. (\A i \in h + 1 .. Len(votes) : ~EndsWindow(i)) /\ UNCHANGED <<approved, activated>>
  BY DEF RemoveAfter
<1>3. PICK c, d : c = votes /\ d = votes'
  OBVIOUS
<1>4. ASSUME NEW f PROVE Won(d, f) = Won(c, f)
  <2>1. Won(d, f) \subseteq 1 .. h /\ Won(c, f) \subseteq 1 .. Len(c)
    BY <1>1, <1>3 DEF Won
  <2>2. \A x \in 1 .. Len(c) : x \in 1 .. h \/ x \in h + 1 .. Len(c)
    BY <1>1, <1>3
  <2>3. \A x \in Won(c, f) : EndsWindow(x)
    BY DEF Won
  <2>4. Won(c, f) \subseteq 1 .. h
    BY <1>2, <1>3, <2>1, <2>2, <2>3
  <2>5. ASSUME NEW x \in 1 .. h PROVE x \in Won(d, f) <=> x \in Won(c, f)
    <3>1. x \in Nat \ {0} /\ x \in 1 .. Len(c) /\ x \in 1 .. Len(d) /\ \A i \in 1 .. x : d[i] = c[i]
      BY <1>1, <1>3
    <3>2. EndsWindow(x) => Tally(d, f, x) = Tally(c, f, x)
      BY <3>1, TallyKept
    <3> QED BY <3>1, <3>2 DEF Won
  <2> QED BY <2>1, <2>4, <2>5
<1>5. /\ DOMAIN approved' = {f \in FeatureIds \ PreActivated : Won(votes', f) # {}}
      /\ DOMAIN activated' = DOMAIN approved'
      /\ \A f \in DOMAIN approved' :
           /\ approved'[f] \in Won(votes', f) /\ \A x \in Won(votes', f) : approved'[f] <= x
           /\ activated'[f] = approved'[f] + ActivationWindowSize(approved'[f])
  BY <1>2, <1>3, <1>4 DEF StoredInv
<1> QED BY <1>5 DEF StoredInv, Won, Tally

\* What the readers know of a feature is the first window that it won.
LEMMA ReadersAgree ==
  ASSUME MinVotes >= 2, LiquidInv, StoredInv, NEW f \in FeatureIds \ PreActivated
  PROVE  \/ /\ Elected(f) = {}
            /\ f \notin DOMAIN ActivatedFeatures /\ f \notin DOMAIN ApprovedFeatures
         \/ \E e \in Elected(f) :
              /\ e \in Nat /\ \A x \in Elected(f) : x \in Nat /\ e <= x
              /\ f \in DOMAIN ActivatedFeatures /\ ActivatedFeatures[f] = e + ActivationWindowSize(e)
              /\ f \in DOMAIN ApprovedFeatures /\ ApprovedFeatures[f] = e
<1> DEFINE n == Len(votes)
<1>1. n \in Nat /\ votes \in Seq(SUBSET FeatureIds)
  BY LenProperties DEF LiquidInv, FeatureType
<1>2. /\ f \in DOMAIN approved <=> Won(votes, f) # {}
      /\ DOMAIN activated = DOMAIN approved
      /\ f \in DOMAIN approved =>
           /\ approved[f] \in Won(votes, f) /\ \A x \in Won(votes, f) : approved[f] <= x
           /\ activated[f] = approved[f] + ActivationWindowSize(approved[f])
  BY DEF StoredInv
<1>3. \A x \in Won(votes, f) : x \in Nat
  BY <1>1 DEF Won
<1>4. CASE liquid = NoLiquid
  <2>1. Elected(f) = Won(votes, f)
    <3>1. Height = n /\ Chain = votes
      BY <1>1, <1>4 DEF Height, Chain
    <3> QED BY <3>1 DEF Elected, Won, Tally
  <2>2. NewlyApproved = <<>> /\ DOMAIN NewlyApproved = {}
    BY <1>4, EmptySeq DEF NewlyApproved
  <2>3. /\ f \in DOMAIN ApprovedFeatures <=> f \in DOMAIN approved
        /\ f \in DOMAIN approved => ApprovedFeatures[f] = approved[f]
    BY <2>2 DEF ApprovedFeatures, Plus
  <2>4. /\ f \in DOMAIN ActivatedFeatures <=> f \in DOMAIN activated
        /\ f \in DOMAIN activated => ActivatedFeatures[f] = activated[f]
    BY <2>2 DEF ActivatedFeatures, Plus
  <2> QED BY <1>2, <1>3, <2>1, <2>3, <2>4
<1>5. CASE liquid # NoLiquid
  <2>1. liquid.votes \in SUBSET FeatureIds /\ liquid.approved = FeaturesApprovedWithBlock(votes, liquid.votes)
    BY <1>5 DEF LiquidInv, FeatureType
  <2>2. PICK d, h : d = Append(votes, liquid.votes) /\ h = n + 1
    OBVIOUS
  <2>3. Chain = d /\ Height = h
    BY <1>5, <2>2 DEF Chain, Height
  <2>4. Len(d) = h /\ (\A i \in 1 .. n : d[i] = votes[i]) /\ d[h] = liquid.votes
    BY <1>1, <2>1, <2>2, AppendProperties
  <2>5. Elected(f) = Won(d, f)
    BY <2>3, <2>4 DEF Elected, Won, Tally
  <2>6. Won(d, f) = Won(votes, f) \union (IF f \in liquid.approved THEN {h} ELSE {})
        /\ \A x \in Won(votes, f) : x \in Nat \ {0} /\ x < h
    <3>1. PICK c, v : c = votes /\ v = liquid.votes
      OBVIOUS
    <3>2. /\ c \in Seq(SUBSET FeatureIds) /\ v \in SUBSET FeatureIds /\ h = Len(c) + 1 /\ Len(d) = h
          /\ \A i \in 1 .. Len(c) : d[i] = c[i]
          /\ d[h] = v
      BY <1>1, <2>1, <2>2, <2>4, <3>1
    <3>3. Won(d, f) = Won(c, f) \union (IF f \in FeaturesApprovedWithBlock(c, v) THEN {h} ELSE {})
          /\ \A x \in Won(c, f) : x \in Nat \ {0} /\ x < h
      BY <3>2, WonExtended
    <3> QED BY <2>1, <3>1, <3>3
  <2>7. NewlyApproved = [x \in liquid.approved |-> h]
    BY <1>5, <2>3 DEF NewlyApproved
  <2>8. /\ f \in DOMAIN ApprovedFeatures <=> f \in DOMAIN approved \/ f \in liquid.approved
        /\ f \in DOMAIN ApprovedFeatures =>
             ApprovedFeatures[f] = IF f \in DOMAIN approved THEN approved[f] ELSE h
    BY <2>7 DEF ApprovedFeatures, Plus
  <2>9. /\ f \in DOMAIN ActivatedFeatures <=> f \in DOMAIN activated \/ f \in liquid.approved
        /\ f \in DOMAIN ActivatedFeatures =>
             ActivatedFeatures[f] = IF f \in DOMAIN activated THEN activated[f]
                                    ELSE h + ActivationWindowSize(h)
    BY <2>3, <2>7 DEF ActivatedFeatures, Plus
  <2>10. h \in Nat
    BY <1>1, <2>2
  <2>11. CASE f \in DOMAIN approved
    <3>1. approved[f] \in Won(d, f) /\ approved[f] \in Nat /\ \A x \in Won(d, f) : x \in Nat /\ approved[f] <= x
      BY <1>2, <2>6, <2>10, <2>11
    <3> QED BY <1>2, <2>5, <2>8, <2>9, <2>11, <3>1
  <2>12. CASE f \notin DOMAIN approved /\ f \in liquid.approved
    <3>1. Won(d, f) = {h} /\ h <= h
      BY <1>2, <2>6, <2>10, <2>12
    <3> QED BY <1>2, <2>5, <2>8, <2>9, <2>10, <2>12, <3>1
  <2>13. CASE f \notin DOMAIN approved /\ f \notin liquid.approved
    BY <1>2, <2>5, <2>6, <2>8, <2>9, <2>13
  <2> QED BY <2>11, <2>12, <2>13
<1> QED BY <1>4, <1>5

\* The status of a feature is a function of the blocks of the current chain,
\* wherever the end of a window is held, through replacements of the liquid
\* block, doubled windows and rollbacks that stay inside a window.
THEOREM StatusOfChain ==
  ASSUME ~BoundaryRollbacks, MinVotes >= 2
  PROVE  VotingSpec => []StatusFollowsChain
<1>1. VotingInit => StoredInv
  <2> SUFFICES ASSUME VotingInit PROVE StoredInv
    OBVIOUS
  <2>1. votes = <<>> /\ DOMAIN approved = {} /\ DOMAIN activated = {}
    BY EmptySeq DEF VotingInit, Init
  <2>2. \A f : Won(<<>>, f) = {}
    <3>1. 1 .. Len(<<>>) = {}
      BY EmptySeq
    <3> QED BY <3>1 DEF Won
  <2> QED BY <2>1, <2>2 DEF StoredInv
<1>2. LiquidInv /\ StoredInv /\ [VotingNext]_votingVars => StoredInv'
  <2> SUFFICES ASSUME LiquidInv, StoredInv, [VotingNext]_votingVars PROVE StoredInv'
    OBVIOUS
  <2>1. ASSUME UNCHANGED <<votes, approved, activated>> PROVE StoredInv'
    BY <2>1 DEF StoredInv
  <2>2. ASSUME NEW v \in SUBSET FeatureIds, BlockOnPersisted(v) \/ BlockInstead(v) PROVE StoredInv'
    BY <2>1, <2>2 DEF BlockOnPersisted, BlockInstead, AppendToPersisted, ReplaceLiquid
  <2>3. ASSUME NEW v \in SUBSET FeatureIds, BlockOnLiquid(v) PROVE StoredInv'
    BY <2>3, HardenStores DEF BlockOnLiquid, Harden
  <2>4. ASSUME NEW h \in 1 .. MaxHeight, Rollback(h) PROVE StoredInv'
    BY <2>4, RollbackStores DEF Rollback
  <2>5. CASE UNCHANGED votingVars
    BY <2>1, <2>5 DEF votingVars, vars
  <2> QED BY <2>2, <2>3, <2>4, <2>5 DEF VotingNext
<1>3. LiquidInv /\ StoredInv => StatusFollowsChain
  <2> SUFFICES ASSUME LiquidInv, StoredInv, NEW f \in FeatureIds, NEW h \in 1 .. Height
               PROVE  FeatureStatus(f, h) = StatusByChain(f, h)
    BY DEF StatusFollowsChain
  <2>1. Height \in Nat /\ h \in Nat
    BY LenProperties DEF LiquidInv, FeatureType, Height
  <2>2. CASE f \in PreActivated
    <3>1. f \in DOMAIN ActivatedFeatures /\ ActivatedFeatures[f] = 0
      BY <2>2 DEF ActivatedFeatures, Plus
    <3> QED BY <2>1, <2>2, <3>1 DEF FeatureStatus, StatusByChain
  <2>3. CASE f \notin PreActivated
    <3>1. CASE /\ Elected(f) = {}
               /\ f \notin DOMAIN ActivatedFeatures /\ f \notin DOMAIN ApprovedFeatures
      BY <2>3, <3>1 DEF FeatureStatus, StatusByChain
    <3>2. ASSUME NEW e \in Elected(f), e \in Nat, \A x \in Elected(f) : x \in Nat /\ e <= x,
                 f \in DOMAIN ActivatedFeatures, ActivatedFeatures[f] = e + ActivationWindowSize(e),
                 f \in DOMAIN ApprovedFeatures, ApprovedFeatures[f] = e
          PROVE  FeatureStatus(f, h) = StatusByChain(f, h)
      <4>1. {y \in Elected(f) : \A x \in Elected(f) : y <= x} = {e}
        <5>1. ASSUME NEW y \in Elected(f), y <= e PROVE y = e
          BY <3>2, <5>1
        <5>2. \A x \in Elected(f) : e <= x
          BY <3>2
        <5> QED BY <5>1, <5>2
      <4>2. StatusByChain(f, h) = IF e + ActivationWindowSize(e) <= h THEN "Activated"
                                  ELSE IF e <= h THEN "Approved" ELSE "Undefined"
        BY <2>3, <4>1 DEF StatusByChain
      <4> QED BY <3>2, <4>2 DEF FeatureStatus
    <3> QED BY <2>3, <3>1, <3>2, ReadersAgree
  <2> QED BY <2>2, <2>3
<1> QED BY <1>1, <1>2, <1>3, LiquidInvariance, PTL DEF VotingSpec
=============================================================================

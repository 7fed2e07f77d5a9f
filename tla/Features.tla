------------------------------ MODULE Features ------------------------------
(***************************************************************************)
(* Voting for features: each block votes for some; at the end of a voting  *)
(* window the features with enough votes are approved, and active one      *)
(* window later.  While the last block of a window is liquid its approvals *)
(* live in NgState, once it is persisted they are in the database.         *)
(* state/BlockchainUpdaterImpl.scala, database/LevelDBWriter.scala,        *)
(* settings/BlockchainSettings.scala, features/FeatureProvider.scala.      *)
(*                                                                         *)
(* Only the vote of a block matters here; rollbacks may reach any height   *)
(* above 1 (the rollback depth is at least MaxHeight).                     *)
(***************************************************************************)
EXTENDS Integers, Sequences, FiniteSets

CONSTANTS
  FeatureIds,
  PreActivated,        \* preActivatedFeatures: the features active from height 0
  Period,              \* featureCheckBlocksPeriod
  MinVotes,            \* blocksForFeatureActivation
  DoubleAfter,         \* doubleFeaturesPeriodsAfterHeight
  BoundaryRollbacks,   \* may a rollback remove the persisted end of a window
  MaxHeight,           \* bound: heights explored
  NoLiquid

ASSUME FeaturesAssumption ==
  /\ Period \in Nat \ {0} /\ MinVotes \in 1 .. Period
  /\ DoubleAfter \in Nat /\ MaxHeight \in Nat
  /\ PreActivated \subseteq FeatureIds
  /\ BoundaryRollbacks \in BOOLEAN
  /\ NoLiquid \notin [votes : SUBSET FeatureIds, approved : SUBSET FeatureIds]

VARIABLES
  votes,       \* persisted: the votes of the block at each height
  approved,    \* Keys.approvedFeatures: feature -> height
  activated,   \* Keys.activatedFeatures: feature -> height
  liquid       \* NoLiquid, or [votes, approved]: the base and NgState.approvedFeatures

vars == <<votes, approved, activated, liquid>>

-----------------------------------------------------------------------------
ActivationWindowSize(h) == Period * (IF h <= DoubleAfter THEN 1 ELSE 2)
BlocksForFeatureActivation(h) == MinVotes * (IF h <= DoubleAfter THEN 1 ELSE 2)
ActivationWindow(h) ==
  LET ws == ActivationWindowSize(h)
  IN IF h < 1 THEN {} ELSE ((h - 1) \div ws) * ws + 1 .. ((h - 1) \div ws + 1) * ws

\* Map ++ Map: the right one wins.
Plus(f, g) == [x \in DOMAIN f \cup DOMAIN g |-> IF x \in DOMAIN g THEN g[x] ELSE f[x]]

\* featureVotes of the database: the features somebody voted for in the window.
FeatureVotes(chain, h) ==
  LET window == ActivationWindow(h) \cap 1 .. Len(chain)
      named == UNION {chain[i] : i \in window}
  IN [f \in named |-> Cardinality({i \in window : f \in chain[i]})]

EndsWindow(h) == h % ActivationWindowSize(h) = 0

\* Mutant: the vote of the block that ends the window is not counted.
ApprovedByEarlier(chain, v) ==
  LET h == Len(chain) + 1
      count == FeatureVotes(chain, h)
  IN IF ~EndsWindow(h) THEN {}
     ELSE {f \in DOMAIN count : count[f] >= BlocksForFeatureActivation(h)}

\* featuresApprovedWithBlock, and the same count in doAppend.
FeaturesApprovedWithBlock(chain, v) ==
  LET h == Len(chain) + 1
      count == FeatureVotes(chain, h)
  IN IF ~EndsWindow(h) THEN {}
     ELSE {f \in DOMAIN count :
             count[f] + (IF f \in v THEN 1 ELSE 0) >= BlocksForFeatureActivation(h)}

\* Mutant: a later approval overrides an earlier one.
DoAppendOverriding(v) ==
  LET h == Len(votes) + 1
      newly == FeaturesApprovedWithBlock(votes, v) \ PreActivated
  IN /\ votes' = Append(votes, v)
     /\ approved' = Plus(approved, [f \in newly |-> h])
     /\ activated' = Plus(activated, [f \in newly |-> h + ActivationWindowSize(h)])

\* doAppend: what is stored already wins over the new approvals.
DoAppend(v) ==
  LET h == Len(votes) + 1
      newly == FeaturesApprovedWithBlock(votes, v) \ PreActivated
  IN /\ votes' = Append(votes, v)
     /\ approved' = Plus([f \in newly |-> h], approved)
     /\ activated' = Plus([f \in newly |-> h + ActivationWindowSize(h)], activated)

NewLiquid(v) == liquid' = [votes |-> v, approved |-> FeaturesApprovedWithBlock(votes', v)]

\* processBlock: on the persisted chain, on the liquid block, instead of it.
AppendToPersisted(v) ==
  /\ liquid = NoLiquid /\ Len(votes) < MaxHeight
  /\ UNCHANGED <<votes, approved, activated>>
  /\ NewLiquid(v)
Harden(v) ==
  /\ liquid # NoLiquid /\ Len(votes) + 1 < MaxHeight
  /\ DoAppend(liquid.votes)
  /\ NewLiquid(v)
ReplaceLiquid(v) ==
  /\ liquid # NoLiquid /\ votes # <<>>
  /\ UNCHANGED <<votes, approved, activated>>
  /\ NewLiquid(v)

\* removeAfter: the liquid block goes, then persisted blocks; doRollback leaves
\* approvedFeatures and activatedFeatures as they are and rollbackTo rereads them.
RemoveAfter(h) ==
  /\ h \in 1 .. Len(votes)
  /\ BoundaryRollbacks \/ \A i \in h + 1 .. Len(votes) : ~EndsWindow(i)
  /\ liquid' = NoLiquid
  /\ votes' = SubSeq(votes, 1, h)
  /\ UNCHANGED <<approved, activated>>

Init ==
  /\ votes = <<>>
  /\ approved = <<>>
  /\ activated = <<>>
  /\ liquid = [votes |-> {}, approved |-> {}]

Next ==
  \/ \E v \in SUBSET FeatureIds : AppendToPersisted(v) \/ Harden(v) \/ ReplaceLiquid(v)
  \/ \E h \in 1 .. MaxHeight : RemoveAfter(h)

Spec == Init /\ [][Next]_vars

-----------------------------------------------------------------------------
Height == Len(votes) + (IF liquid = NoLiquid THEN 0 ELSE 1)

\* The readers: newlyApprovedFeatures, approvedFeatures, activatedFeatures.
NewlyApproved == IF liquid = NoLiquid THEN <<>> ELSE [f \in liquid.approved |-> Height]
ApprovedFeatures == Plus(NewlyApproved, approved)
ActivatedFeatures ==
  Plus(Plus([f \in DOMAIN NewlyApproved |-> NewlyApproved[f] + ActivationWindowSize(Height)],
            activated),
       [f \in PreActivated |-> 0])

FeatureStatus(f, h) ==
  IF f \in DOMAIN ActivatedFeatures /\ ActivatedFeatures[f] <= h THEN "Activated"
  ELSE IF f \in DOMAIN ApprovedFeatures /\ ApprovedFeatures[f] <= h THEN "Approved"
  ELSE "Undefined"

\* The reference: the windows of the current chain in which f got its votes.
Chain == IF liquid = NoLiquid THEN votes ELSE Append(votes, liquid.votes)
Elected(f) ==
  {h \in 1 .. Height : /\ EndsWindow(h)
                       /\ Cardinality({i \in ActivationWindow(h) : f \in Chain[i]})
                            >= BlocksForFeatureActivation(h)}
StatusByChain(f, h) ==
  LET won == {e \in Elected(f) : \A x \in Elected(f) : e <= x}
  IN IF f \in PreActivated \/ \E e \in won : e + ActivationWindowSize(e) <= h THEN "Activated"
     ELSE IF \E e \in won : e <= h THEN "Approved" ELSE "Undefined"

\* The status of a feature is a function of the blocks of the current chain,
\* whether the end of the window is liquid or persisted, through replacements
\* of the liquid block, doubled windows and rollbacks.
StatusFollowsChain ==
  \A f \in FeatureIds, h \in 1 .. Height : FeatureStatus(f, h) = StatusByChain(f, h)

\* Persisting the liquid block changes no status at a height already reached,
\* and no later window moves the activation of a feature that has one.
ActivationIsStable ==
  [][Len(votes') > Len(votes) =>
       \A f \in DOMAIN ActivatedFeatures :
         f \in DOMAIN ActivatedFeatures' /\ ActivatedFeatures'[f] = ActivatedFeatures[f]]_vars
=============================================================================

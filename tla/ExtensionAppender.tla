------------------------- MODULE ExtensionAppender -------------------------
(***************************************************************************)
(* Switching to a fork: state/appender/ExtensionAppender.scala, with the   *)
(* other callers of the updater (BlockAppender.scala,                      *)
(* MicroblockAppender.scala, appender/package.scala).                      *)
(*                                                                         *)
(* An extension is applied on the appender thread: the blocks after the    *)
(* common one are dropped, the new ones appended one by one, and if one is *)
(* refused the new ones are dropped again and the old ones restored.  Each *)
(* call takes the lock separately, so each is one action; the node may die *)
(* between any two.  No other block is appended meanwhile: the appenders   *)
(* share one single-threaded scheduler.                                    *)
(***************************************************************************)
EXTENDS BlockchainUpdater

CONSTANTS Extensions,   \* sequences of blocks a peer may send
          NoExt         \* no extension is being applied

\* Signed.validateOrdered has checked every block of an extension, and the
\* settings keep extensions (max-rollback, 100) shorter than the rollback window
\* (max-rollback-depth, 2000).  Whoever signs a block may send it.
ASSUME ExtensionAssumption ==
  /\ \A e \in Extensions : e \in Seq(Signed) /\ Len(e) <= MaxRollbackDepth + 1
  /\ Signed \subseteq Blocks

VARIABLE
  ext       \* NoExt, or the local state of ExtensionAppender.apply

extVars == <<vars, ext>>

-----------------------------------------------------------------------------
\* blockchainUpdater.contains, heightOf, isLastBlockId
Contains(id) == Persisted(id) \/ (ng # NoNg /\ NgContains(ng, id))
KnownHeight(id) == IF Persisted(id) THEN HeightOfPersisted(id)
                   ELSE IF Contains(id) THEN Len(chain) + 1 ELSE 0
IsLastBlockId(id) == IF ng # NoNg THEN NgContains(ng, id) ELSE chain # <<>> /\ id = LastPersistedId

\* ng.bestLiquidBlock, and the whole chain with it.
BestLiquidBlock(n) == Create(n.base, Transactions(n), BestLiquidBlockId(n))
LiquidBlocks == IF ng = NoNg THEN <<>> ELSE <<BestLiquidBlock(ng)>>
PersistedBlocks == [h \in 1 .. Len(chain) |-> chain[h].block]
FullChain == PersistedBlocks \o LiquidBlocks

\* What processBlock answers: the block is appended, ignored, or refused.
Accept(b) == AppendToPersisted(b) \/ ReplaceLiquid(b) \/ Harden(b)
Ignores(b) ==
  /\ Competes(b) /\ ~BetterLiquid(b)
  /\ AreVersionsOfSameBlock(b, ng.base) /\ ~LongerVersion(b)
Refuses(b) ==
  /\ ~Ignores(b)
  /\ ExtendsPersisted(b) => MayFail(LedgerExact, Ledger, b)
  /\ (BetterLiquid(b) \/ LongerVersion(b)) /\ Persisted(b.ref) => MayFail(LedgerExact, Ledger, b)
  /\ ExtendsLiquid(b) => MayFail(LiquidExact, Ledger \o ForgeBlock(ng, b.ref).txs, b)

\* newBlocks.dropWhile(contains)
NewBlocks(blocks) ==
  LET k == CHOOSE i \in 0 .. Len(blocks) :
             /\ \A j \in 1 .. i : Contains(blocks[j].id)
             /\ i < Len(blocks) => ~Contains(blocks[i + 1].id)
  IN SubSeq(blocks, k + 1, Len(blocks))

-----------------------------------------------------------------------------
\* BlockAppender: only a child of the last block.
BlockAppender(b) ==
  /\ ext = NoExt
  /\ IsLastBlockId(b.ref)
  /\ ProcessBlock(b)
  /\ UNCHANGED ext

MicroblockAppender(m) ==
  /\ ext = NoExt
  /\ ProcessMicroBlock(m)
  /\ UNCHANGED ext

\* Mutant: the liquid block is not among the dropped blocks.
DroppedPersistedOnly(h) == SubSeq(PersistedBlocks, h + 1, Len(chain))

\* The dropped blocks are what removeAfter returns: rolled back ones, liquid last.
DroppedAfter(h) == SubSeq(PersistedBlocks, h + 1, Len(chain)) \o LiquidBlocks

NewExt(stage, blocks, dropped) ==
  [stage |-> stage, common |-> blocks[1].ref, blocks |-> blocks, next |-> 1,
   dropped |-> dropped, before |-> FullChain,
   inLiquid |-> ng # NoNg /\ NgContains(ng, blocks[1].ref)]

\* The fork starts below the last block: removeAfter(lastCommonBlockId).
StartWithRollback(blocks) ==
  /\ ext = NoExt /\ blocks # <<>>
  /\ KnownHeight(blocks[1].ref) \in 1 .. HeightOf(chain, ng) - 1
  /\ RemoveAfterStart(blocks[1].ref)
  /\ ext' = NewExt("dropping", blocks, DroppedAfter(HeightOfPersisted(blocks[1].ref)))

\* ... which may be refused; the extension is given up, the liquid block is gone.
StartRefused(blocks) ==
  /\ ext = NoExt /\ blocks # <<>>
  /\ KnownHeight(blocks[1].ref) \in 1 .. HeightOf(chain, ng) - 1
  /\ RemoveAfterRefused(blocks[1].ref)
  /\ UNCHANGED ext

\* The fork starts at the last block or inside it: nothing is dropped, even if
\* a total id of the liquid block repeats that of a block below.
StartOnTop(blocks) ==
  /\ ext = NoExt /\ rolling = 0 /\ blocks # <<>>
  /\ IsLastBlockId(blocks[1].ref)
  /\ IF KnownHeight(blocks[1].ref) = HeightOf(chain, ng) THEN UNCHANGED vars
     ELSE RemoveAfterInLiquid(blocks[1].ref)
  /\ ext' = NewExt("applying", blocks, <<>>)

Dropping ==
  /\ ext # NoExt
  /\ RollbackStep
  /\ UNCHANGED ext
\* Mutant: the extension is applied again after the undo.
DroppedAgain ==
  /\ ext # NoExt
  /\ RemoveAfterDone
  /\ ext' = [ext EXCEPT !.stage = "applying", !.next = 1]

\* removeAfter has returned; fork application or restoration goes on.
Dropped ==
  /\ ext # NoExt
  /\ RemoveAfterDone
  /\ ext' = [ext EXCEPT !.stage = IF @ = "dropping" THEN "applying" ELSE "restoring", !.next = 1]

\* validateAndAppendBlock on the next block, whose parent must be known.
ApplyNext ==
  /\ ext # NoExt /\ rolling = 0
  /\ ext.stage = "applying" /\ ext.next <= Len(ext.blocks)
  /\ LET b == ext.blocks[ext.next]
     IN /\ Contains(b.ref)
        /\ \/ Accept(b)
           \/ Ignores(b) /\ UNCHANGED vars
  /\ ext' = [ext EXCEPT !.next = @ + 1]

\* The next block is refused, by the consensus checks (its time, delay, base
\* target and generating balance are not modelled, so any block may be) or by
\* processBlock, which may have announced a microblock rollback already.
Refused(b) == RefuseCompetitor(b) \/ RefuseChild(b) \/ UNCHANGED vars

\* Mutant: a refused block is passed over.
SkipRefused ==
  /\ ext # NoExt /\ rolling = 0
  /\ ext.stage = "applying" /\ ext.next <= Len(ext.blocks)
  /\ ext' = [ext EXCEPT !.next = @ + 1]
  /\ UNCHANGED vars

ApplyRefused ==
  /\ ext # NoExt /\ rolling = 0
  /\ ext.stage = "applying" /\ ext.next <= Len(ext.blocks)
  /\ Refused(ext.blocks[ext.next])
  /\ ext' = [ext EXCEPT !.stage = "undoing"]

\* Mutant: the recovery goes on with the blocks of the fork still in place.
UndoNothing ==
  /\ ext # NoExt /\ rolling = 0 /\ ext.stage = "undoing"
  /\ ext' = [ext EXCEPT !.stage = "restoring", !.next = 1]
  /\ UNCHANGED vars

\* removeAfter(lastCommonBlockId).explicitGet()
Undo ==
  /\ ext # NoExt /\ rolling = 0 /\ ext.stage = "undoing"
  /\ \/ /\ RemoveAfterInLiquid(ext.common)
        /\ ext' = [ext EXCEPT !.stage = "restoring", !.next = 1]
     \/ /\ RemoveAfterStart(ext.common)
        /\ ext' = [ext EXCEPT !.stage = "undropping"]
     \/ /\ RemoveAfterRefused(ext.common)
        /\ ext' = [ext EXCEPT !.stage = "failed"]

\* droppedBlocks.foreach(processBlock(...).explicitGet()): the old blocks are not
\* checked against the consensus rules again, but a refusal throws.  The
\* exception fails the task, and nothing is restored any more.
RestoreNext ==
  /\ ext # NoExt /\ rolling = 0
  /\ ext.stage = "restoring" /\ ext.next <= Len(ext.dropped)
  /\ LET b == ext.dropped[ext.next]
     IN \/ /\ \/ Accept(b)
              \/ Ignores(b) /\ UNCHANGED vars
           /\ ext' = [ext EXCEPT !.next = @ + 1]
        \/ /\ Refuses(b) /\ Refused(b)
           /\ ext' = [ext EXCEPT !.stage = "failed"]

Finished ==
  \/ ext.stage = "applying" /\ ext.next > Len(ext.blocks)
  \/ ext.stage = "restoring" /\ ext.next > Len(ext.dropped)
  \/ ext.stage = "failed"
Finish ==
  /\ ext # NoExt /\ rolling = 0
  /\ Finished
  /\ ext' = NoExt
  /\ UNCHANGED vars

NodeDies == Restart /\ ext' = NoExt

ExtInit == Init /\ ext = NoExt

ExtNext ==
  \/ \E b \in Blocks : BlockAppender(b)
  \/ \E m \in Micros : MicroblockAppender(m)
  \/ \E blocks \in Extensions : LET new == NewBlocks(blocks)
                                IN StartWithRollback(new) \/ StartRefused(new) \/ StartOnTop(new)
  \/ Dropping \/ Dropped \/ ApplyNext \/ ApplyRefused \/ Undo \/ RestoreNext \/ Finish
  \/ NodeDies

ExtSpec == ExtInit /\ [][ExtNext]_extVars

-----------------------------------------------------------------------------
\* The total ids of the liquid block are new, also to the blocks below it.
TotalsNew ==
  /\ TotalsDistinct
  /\ ng # NoNg => \A id \in MicroBlockIds(ng) : ~Persisted(id) /\ id # ng.base.ref

\* A recovery that throws loses the liquid block and nothing below it, and only
\* one that its generator never signed: the sum of its microblocks is not what
\* the last total id is the signature of.
RecoveryLosesUnsignedOnly ==
  ext # NoExt /\ ext.stage = "failed" =>
    /\ FullChain = SubSeq(ext.before, 1, Len(ext.before) - 1)
    /\ ext.before[Len(ext.before)] \notin Signed

\* A refused extension leaves the chain as it was, block by block, although the
\* microblocks come back as one block; a fork that left the liquid block at one
\* of its microblocks leaves it cut there, with the same score.
RefusedExtensionRestores ==
  ext # NoExt /\ ext.stage = "restoring" /\ Finished =>
    IF ext.inLiquid
    THEN /\ IdOf(chain, ng) = ext.common \/ FullChain = ext.before
         /\ Len(FullChain) = Len(ext.before)
         /\ \A h \in 1 .. Len(ext.before) - 1 : FullChain[h] = ext.before[h]
    ELSE FullChain = ext.before

\* An accepted extension is the end of the chain, on the old chain up to the
\* common block.
AcceptedExtensionIsChain ==
  ext # NoExt /\ ext.stage = "applying" /\ Finished =>
    LET n == Len(FullChain) - Len(ext.blocks)
    IN /\ SubSeq(FullChain, n + 1, Len(FullChain)) = ext.blocks
       /\ FullChain[n].id = ext.common
       /\ \A h \in 1 .. n - 1 : FullChain[h] = ext.before[h]

\* An extension being applied is always finished, accepted or undone.
ExtFairSpec == ExtSpec /\ WF_extVars(Dropping \/ Dropped \/ ApplyNext \/ ApplyRefused
                                       \/ Undo \/ RestoreNext \/ Finish)
ExtensionEnds == (ext # NoExt) ~> (ext = NoExt)
=============================================================================

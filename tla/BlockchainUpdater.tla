------------------------- MODULE BlockchainUpdater -------------------------
(***************************************************************************)
(* The NG chain of one node: state/BlockchainUpdaterImpl.scala on top of   *)
(* the persisted chain (database/Caches.scala, LevelDBWriter.scala).       *)
(*                                                                         *)
(* Blocks at heights 1..Len(chain) are persisted.  At most one more block, *)
(* the liquid one, lives only in memory (NgState): a base block and the    *)
(* microblocks its generator has appended to it.  A block that references  *)
(* a state of the liquid block persists ("hardens") the liquid block up to *)
(* that state and becomes the new liquid base.                             *)
(*                                                                         *)
(* Every public operation holds the write lock, so it is one action, with  *)
(* one exception: removeAfter rolls the database back one height per       *)
(* LevelDB batch and the process may die between two batches.              *)
(*                                                                         *)
(* Nothing checks that the total id of a microblock is new.  Once one is   *)
(* not, the diff of the liquid block leaves microblocks out, repeats them, *)
(* or cannot be computed (module NgState): what is then validated on it,   *)
(* or persisted with it, may be accepted or refused whatever the           *)
(* transactions are.                                                       *)
(***************************************************************************)
EXTENDS Integers, Sequences

CONSTANTS
  Ids,                \* block ids (signatures)
  Generators,         \* accounts that forge
  Txs,                \* transactions
  Blocks,             \* every block this node may be handed
  Signed,             \* the blocks whose signature matches their content
  Micros,             \* every microblock with a valid signature
  Genesis,            \* the block of the node's genesis settings
  Applicable(_, _),   \* ledger, txs: can the transactions follow that ledger
  ScoreBound,         \* dividend of the block score, 2^64 in the code
  MaxTotal,           \* capacity of MiningConstraints.total, in transactions
  MaxRollbackDepth,   \* dbSettings.maxRollbackDepth
  NoNg                \* ngState = None

VARIABLES
  chain,              \* persisted: <<[block, score, exact]>>, the index is the
                      \* height; exact: the diff is that of the block's transactions
  safe,               \* persisted: Keys.safeRollbackHeight
  ng,                 \* ngState: NoNg or [base, micros], micros oldest first
  rest,               \* restTotalConstraint
  info,               \* last element of internalLastBlockInfo
  announced,          \* height carried by the last BlockchainUpdated event
  rolling             \* target height of a rollback in progress, or 0

vars == <<chain, safe, ng, rest, info, announced, rolling>>

-----------------------------------------------------------------------------
BlockType == [id : Ids, ref : Ids, gen : Generators, target : Nat \ {0},
              ts : Nat, txs : Seq(Txs)]
MicroType == [sender : Generators, prev : Ids, total : Ids, txs : Seq(Txs)]
LiquidType == [base : Signed, micros : Seq(Micros)]
EntryType == [block : Signed, score : Nat, exact : BOOLEAN]
InfoType == [id : Ids, height : Nat \ {0}, score : Nat]

ASSUME BlocksAssumption ==
  /\ Blocks \subseteq BlockType
  /\ Signed \subseteq BlockType
  /\ Micros \subseteq MicroType
  /\ Genesis \in Signed

\* A signature authenticates one content: two signed blocks with one id are equal.
ASSUME SignatureAssumption ==
  \A a, b \in Signed : a.id = b.id => a = b

ASSUME ParameterAssumption ==
  /\ ScoreBound \in Nat
  /\ \A b \in Signed : ScoreBound \div b.target \in Nat
  /\ MaxTotal \in Nat
  /\ Len(Genesis.txs) <= MaxTotal /\ Applicable(<<>>, Genesis.txs)
  /\ MaxRollbackDepth \in Nat \ {0}
  /\ NoNg \notin LiquidType

-----------------------------------------------------------------------------
\* Block.blockScore
BlockScore(b) == ScoreBound \div b.target

\* Block.create(base, transactionData, signature): the header of base is kept.
Create(base, txs, id) == [base EXCEPT !.txs = txs, !.id = id]

\* The transactions of microblocks in the order they were appended.
MicroTxs(ms) ==
  LET upTo[i \in 0 .. Len(ms)] == IF i = 0 THEN <<>> ELSE upTo[i - 1] \o ms[i].txs
  IN upTo[Len(ms)]

\* NgState.transactions, bestLiquidBlockId, contains
Transactions(n) == n.base.txs \o MicroTxs(n.micros)
BestLiquidBlockId(n) ==
  IF n.micros = <<>> THEN n.base.id ELSE n.micros[Len(n.micros)].total
MicroBlockIds(n) == {n.micros[i].total : i \in 1 .. Len(n.micros)}
NgContains(n, id) == id = n.base.id \/ id \in MicroBlockIds(n)

\* Every total id of the liquid block is new in it, as a signature would be.
TotalsDistinct ==
  ng # NoNg =>
    /\ ng.base.id \notin MicroBlockIds(ng)
    /\ \A i, j \in 1 .. Len(ng.micros) : ng.micros[i].total = ng.micros[j].total => i = j

\* NgState.forgeBlock: the base, or the base with the transactions of the
\* microblocks up to the first one whose total id is the requested one.
ForgeIndex(n, id) ==
  IF n.base.id = id THEN 0
  ELSE CHOOSE k \in 1 .. Len(n.micros) :
         n.micros[k].total = id /\ \A j \in 1 .. k - 1 : n.micros[j].total # id
ForgeBlock(n, id) ==
  IF n.base.id = id THEN n.base
  ELSE Create(n.base,
              n.base.txs \o MicroTxs(SubSeq(n.micros, 1, ForgeIndex(n, id))), id)
\* Which microblocks are left out (NgState has their order).
DiscardedMicros(n, id) ==
  SubSeq(n.micros, ForgeIndex(n, id) + 1, Len(n.micros))

-----------------------------------------------------------------------------
\* The persisted part: LevelDBWriter.height, lastBlockId, heightOf, score, state.
PersistedHeight == Len(chain)
LastPersistedId == chain[Len(chain)].block.id
Persisted(id) == \E h \in 1 .. Len(chain) : chain[h].block.id = id
HeightOfPersisted(id) == CHOOSE h \in 1 .. Len(chain) : chain[h].block.id = id
Ledger ==
  LET upTo[h \in 0 .. Len(chain)] ==
        IF h = 0 THEN <<>> ELSE upTo[h - 1] \o chain[h].block.txs
  IN upTo[Len(chain)]

\* The persisted state, and the one that the liquid block adds to it, are those
\* of the transactions in the blocks.
LedgerExact == \A h \in 1 .. Len(chain) : chain[h].exact
LiquidExact == LedgerExact /\ TotalsDistinct

\* The readers of BlockchainUpdaterImpl: height, lastBlockId, score.
HeightOf(c, n) == IF n = NoNg THEN Len(c) ELSE Len(c) + 1
IdOf(c, n) == IF n = NoNg THEN c[Len(c)].block.id ELSE BestLiquidBlockId(n)
PersistedScore(c) == IF c = <<>> THEN 0 ELSE c[Len(c)].score
ScoreOf(c, n) == PersistedScore(c) + (IF n = NoNg THEN 0 ELSE BlockScore(n.base))

\* publishLastBlockInfo: nothing is published while there is no block at all.
Publish ==
  info' = IF chain' = <<>> /\ ng' = NoNg THEN info
          ELSE [id |-> IdOf(chain', ng'), height |-> HeightOf(chain', ng'),
                score |-> ScoreOf(chain', ng')]

\* BlockDiffer.fromBlock: the signature, every transaction against the ledger
\* it would extend, and the total constraint.
BlockDiffOk(ledger, b) ==
  /\ b \in Signed
  /\ Applicable(ledger, b.txs)
  /\ Len(b.txs) <= MaxTotal

\* The answers on a state that is the ledger's (exact), or may not be.
MayPass(exact, ledger, b) ==
  /\ b \in Signed
  /\ Len(b.txs) <= MaxTotal
  /\ exact => Applicable(ledger, b.txs)
MayFail(exact, ledger, b) == exact => ~BlockDiffOk(ledger, b)

\* areVersionsOfSameBlock
AreVersionsOfSameBlock(a, b) ==
  a.gen = b.gen /\ a.target = b.target /\ a.ref = b.ref /\ a.ts = b.ts

-----------------------------------------------------------------------------
\* The cases of processBlock, in the order the code tries them.
\* Mutant: any persisted parent will do.
ExtendsAnyPersisted(b) == ng = NoNg /\ Persisted(b.ref)

(* On an empty database the only caller of processBlock is checkGenesis:   *)
(* the appenders refuse a block whose parent is unknown, see Restart.      *)
ExtendsPersisted(b) ==
  /\ ng = NoNg
  /\ chain # <<>>
  /\ b.ref = LastPersistedId

Competes(b) == ng # NoNg /\ b.ref = ng.base.ref

\* Mutant: the larger base target wins, not the larger score.
BetterLiquidByTarget(b) == Competes(b) /\ b.target > ng.base.target

BetterLiquid(b) == Competes(b) /\ BlockScore(b) > BlockScore(ng.base)

LongerVersion(b) ==
  /\ Competes(b)
  /\ ~BetterLiquid(b)
  /\ AreVersionsOfSameBlock(b, ng.base)
  /\ Len(b.txs) > Len(Transactions(ng))

\* Mutant: the forged block's signature is not checked.
ExtendsLiquidUnsigned(b) ==
  /\ ng # NoNg
  /\ ~Competes(b)
  /\ NgContains(ng, b.ref)

ExtendsLiquid(b) ==
  /\ ng # NoNg
  /\ ~Competes(b)
  /\ NgContains(ng, b.ref)
  /\ ForgeBlock(ng, b.ref) \in Signed

\* The end of a successful processBlock: b is the new liquid block.
NewLiquid(b) ==
  /\ ng' = [base |-> b, micros |-> <<>>]
  /\ rest' = MaxTotal - Len(b.txs)
  /\ announced' = Len(chain') + 1
  /\ Publish
  /\ UNCHANGED rolling

\* Caches.append and LevelDBWriter.doAppend, as far as the chain is concerned.
SafeFloor == Len(chain) + 1 - MaxRollbackDepth
\* Mutant: the running score, which counts the liquid block already, is stored.
AppendWithLiquidScore(b) ==
  /\ chain' = Append(chain, [block |-> b, score |-> ScoreOf(chain, ng) + BlockScore(b),
                           exact |-> TotalsDistinct])
  /\ safe' = IF safe < SafeFloor THEN SafeFloor ELSE safe

\* Mutant: the safe height follows the new height down as well as up.
AppendResettingSafe(b) ==
  /\ chain' = Append(chain, [block |-> b, score |-> PersistedScore(chain) + BlockScore(b),
                           exact |-> TotalsDistinct])
  /\ safe' = IF SafeFloor < 0 THEN 0 ELSE SafeFloor

AppendPersisted(b) ==
  /\ chain' = Append(chain, [block |-> b, score |-> PersistedScore(chain) + BlockScore(b),
                           exact |-> TotalsDistinct])
  /\ safe' = IF safe < SafeFloor THEN SafeFloor ELSE safe

AppendToPersisted(b) ==
  /\ rolling = 0
  /\ ExtendsPersisted(b)
  /\ MayPass(LedgerExact, Ledger, b)
  /\ UNCHANGED <<chain, safe>>
  /\ NewLiquid(b)

\* A better competitor of the liquid block, or a longer version of it.
\* unsafeHeightOf(reference) throws while genesis itself is the liquid block.
ReplaceLiquid(b) ==
  /\ rolling = 0
  /\ BetterLiquid(b) \/ LongerVersion(b)
  /\ Persisted(b.ref)
  /\ MayPass(LedgerExact, Ledger, b)
  /\ UNCHANGED <<chain, safe>>
  /\ NewLiquid(b)

\* The competitor is refused after MicroBlockRollbackCompleted has been sent.
RefuseCompetitor(b) ==
  /\ rolling = 0
  /\ BetterLiquid(b) \/ LongerVersion(b)
  /\ Persisted(b.ref)
  /\ MayFail(LedgerExact, Ledger, b)
  /\ announced' = Len(chain) + 1
  /\ UNCHANGED <<chain, safe, ng, rest, info, rolling>>

\* b references a state of the liquid block: that state is persisted.
\* Mutant: b is validated against the persisted state without the forged block.
HardenOnPersistedState(b) ==
  /\ rolling = 0
  /\ ExtendsLiquid(b)
  /\ MayPass(LedgerExact, Ledger, b)
  /\ AppendPersisted(ForgeBlock(ng, b.ref))
  /\ NewLiquid(b)

Harden(b) ==
  /\ rolling = 0
  /\ ExtendsLiquid(b)
  /\ LET forged == ForgeBlock(ng, b.ref)
     IN /\ MayPass(LiquidExact, Ledger \o forged.txs, b)
        /\ AppendPersisted(forged)
  /\ NewLiquid(b)

\* Here too a fork inside the liquid block is announced before b is refused.
RefuseChild(b) ==
  /\ rolling = 0
  /\ ExtendsLiquid(b)
  /\ MayFail(LiquidExact, Ledger \o ForgeBlock(ng, b.ref).txs, b)
  /\ DiscardedMicros(ng, b.ref) # <<>>
  /\ announced' = Len(chain) + 1
  /\ UNCHANGED <<chain, safe, ng, rest, info, rolling>>

\* processBlock; in the remaining cases it returns an error or None and
\* changes nothing.
ProcessBlock(b) ==
  \/ AppendToPersisted(b)
  \/ ReplaceLiquid(b)
  \/ RefuseCompetitor(b)
  \/ Harden(b)
  \/ RefuseChild(b)

-----------------------------------------------------------------------------
\* processMicroBlock: the guards in the code's order, then NgState.append.
\* Mutant: every microblock is measured against the whole capacity.
ProcessMicroBlockFreshLimit(m) ==
  /\ rolling = 0
  /\ ng # NoNg
  /\ m.sender = ng.base.gen
  /\ m.prev = BestLiquidBlockId(ng)
  /\ LiquidExact => Applicable(Ledger \o Transactions(ng), m.txs)
  /\ Len(m.txs) <= MaxTotal
  /\ ng' = [ng EXCEPT !.micros = Append(@, m)]
  /\ rest' = MaxTotal - Len(m.txs)
  /\ announced' = Len(chain) + 1
  /\ info' = [id |-> m.total, height |-> HeightOf(chain, ng), score |-> ScoreOf(chain, ng)]
  /\ UNCHANGED <<chain, safe, rolling>>

ProcessMicroBlock(m) ==
  /\ rolling = 0
  /\ ng # NoNg
  /\ m.sender = ng.base.gen
  /\ m.prev = BestLiquidBlockId(ng)
  /\ LiquidExact => Applicable(Ledger \o Transactions(ng), m.txs)
  /\ Len(m.txs) <= rest
  /\ ng' = [ng EXCEPT !.micros = Append(@, m)]
  /\ rest' = rest - Len(m.txs)
  /\ announced' = Len(chain) + 1
  /\ info' = [id |-> m.total, height |-> HeightOf(chain, ng), score |-> ScoreOf(chain, ng)]
  /\ UNCHANGED <<chain, safe, rolling>>

-----------------------------------------------------------------------------
\* removeAfter(id) with id in the liquid block: an event and nothing else.
RemoveAfterInLiquid(id) ==
  /\ rolling = 0
  /\ ng # NoNg
  /\ NgContains(ng, id)
  /\ announced' = Len(chain) + 1
  /\ UNCHANGED <<chain, safe, ng, rest, rolling>>
  /\ Publish

\* Mutant: off by one at the safe rollback height.
RollbackAllowedAtSafe(id) == Persisted(id) /\ HeightOfPersisted(id) >= safe
RollbackAllowed(id) == Persisted(id) /\ HeightOfPersisted(id) > safe

\* The liquid block is dropped before rollbackTo finds that it must refuse.
\* Mutant: nothing is published when the rollback is refused.
RemoveAfterRefusedSilently(id) ==
  /\ rolling = 0
  /\ ng # NoNg => ~NgContains(ng, id)
  /\ ~RollbackAllowed(id)
  /\ ng' = NoNg
  /\ UNCHANGED <<chain, safe, rest, announced, rolling, info>>

RemoveAfterRefused(id) ==
  /\ rolling = 0
  /\ ng # NoNg => ~NgContains(ng, id)
  /\ ~RollbackAllowed(id)
  /\ ng' = NoNg
  /\ UNCHANGED <<chain, safe, rest, announced, rolling>>
  /\ Publish

RemoveAfterStart(id) ==
  /\ rolling = 0
  /\ ng # NoNg => ~NgContains(ng, id)
  /\ RollbackAllowed(id)
  /\ ng' = NoNg
  /\ rolling' = HeightOfPersisted(id)
  /\ UNCHANGED <<chain, safe, rest, info, announced>>

\* One iteration of doRollback, one batch of the database.
RollbackStep ==
  /\ rolling # 0
  /\ Len(chain) > rolling
  /\ chain' = SubSeq(chain, 1, Len(chain) - 1)
  /\ UNCHANGED <<safe, ng, rest, info, announced, rolling>>

\* Mutant: the event carries the height of a liquid block that is gone.
RemoveAfterDoneLiquidHeight ==
  /\ rolling # 0
  /\ Len(chain) = rolling
  /\ rolling' = 0
  /\ announced' = Len(chain) + 2
  /\ UNCHANGED <<chain, safe, ng, rest>>
  /\ Publish

\* rollbackTo returns: RollbackCompleted is sent and the last block published.
RemoveAfterDone ==
  /\ rolling # 0
  /\ Len(chain) = rolling
  /\ rolling' = 0
  /\ announced' = Len(chain)
  /\ UNCHANGED <<chain, safe, ng, rest>>
  /\ Publish

-----------------------------------------------------------------------------
\* The node stops at any point and is started again; on an empty database
\* checkGenesis then processes the genesis block.
Restart ==
  /\ UNCHANGED <<chain, safe>>
  /\ rolling' = 0
  /\ IF chain = <<>>
     THEN /\ ng' = [base |-> Genesis, micros |-> <<>>]
          /\ rest' = MaxTotal - Len(Genesis.txs)
          /\ announced' = 1
     ELSE /\ ng' = NoNg
          /\ rest' = MaxTotal
          /\ UNCHANGED announced
  /\ Publish

\* An empty database on which checkGenesis has just run.
Init ==
  /\ chain = <<>>
  /\ safe = 0
  /\ ng = [base |-> Genesis, micros |-> <<>>]
  /\ rest = MaxTotal - Len(Genesis.txs)
  /\ info = [id |-> Genesis.id, height |-> 1, score |-> BlockScore(Genesis)]
  /\ announced = 1
  /\ rolling = 0

Next ==
  \/ \E b \in Blocks : ProcessBlock(b)
  \/ \E m \in Micros : ProcessMicroBlock(m)
  \/ \E id \in Ids : \/ RemoveAfterInLiquid(id)
                     \/ RemoveAfterRefused(id)
                     \/ RemoveAfterStart(id)
  \/ RollbackStep
  \/ RemoveAfterDone
  \/ Restart

Spec == Init /\ [][Next]_vars

-----------------------------------------------------------------------------
\* Every variable has its type; the persisted blocks, and the base of the
\* liquid one, carry a signature that matches their content.
TypeOK ==
  /\ chain \in Seq(EntryType)
  /\ safe \in Nat
  /\ ng \in LiquidType \cup {NoNg}
  /\ rest \in 0 .. MaxTotal
  /\ info \in InfoType
  /\ announced \in Nat
  /\ rolling \in Nat

\* The parts of Linked, below.
ChainLinked ==
  \A h \in 1 .. Len(chain) - 1 : chain[h + 1].block.ref = chain[h].block.id
LiquidLinked ==
  ng # NoNg => IF chain = <<>> THEN ng.base = Genesis ELSE ng.base.ref = LastPersistedId
MicrosLinked ==
  ng # NoNg =>
    \A i \in 1 .. Len(ng.micros) :
      /\ ng.micros[i].sender = ng.base.gen
      /\ ng.micros[i].prev = IF i = 1 THEN ng.base.id ELSE ng.micros[i - 1].total

\* Each persisted block references the one below it, the liquid base references
\* the last persisted block (or is genesis), and the microblocks form one chain
\* on the base, all by its generator.  Harden persists a block that carries the
\* reference of the liquid base, so each part needs the others through every
\* replacement, rollback and restart.
Linked == ChainLinked /\ LiquidLinked /\ MicrosLinked

\* Keys.score holds the sum of the block scores up to each height.
ScoreAccumulates ==
  \A h \in 1 .. Len(chain) :
    chain[h].score = BlockScore(chain[h].block)
                     + (IF h = 1 THEN 0 ELSE chain[h - 1].score)

\* No transaction is applied twice on the current chain, whatever versions,
\* forks inside the liquid block and rollbacks led to it, as long as the total
\* ids of microblocks were new.
NoTxTwice ==
  LET ledger == Ledger \o (IF ng = NoNg THEN <<>> ELSE Transactions(ng))
  IN \A i, j \in 1 .. Len(ledger) : ledger[i] = ledger[j] => i = j

\* restTotalConstraint is what the liquid block leaves of the capacity, so
\* that base and microblocks together never exceed it.
CapacityAccounted ==
  ng # NoNg => rest + Len(Transactions(ng)) = MaxTotal

\* What lastBlockInfo last published is the current last block: the score
\* observer, the synchronizers and the miner act on it.
InfoInSync ==
  rolling = 0 /\ HeightOf(chain, ng) > 0 =>
    info = [id |-> IdOf(chain, ng), height |-> HeightOf(chain, ng),
            score |-> ScoreOf(chain, ng)]

\* The last persisted block always remains a legal rollback target and at most
\* MaxRollbackDepth blocks can ever be undone.
RollbackWindow ==
  /\ Len(chain) - safe <= MaxRollbackDepth
  /\ IF chain = <<>> THEN safe = 0 ELSE safe < Len(chain)
  /\ rolling # 0 => safe < rolling /\ rolling <= Len(chain)

\* A block at or below safe + 1 is final: no step replaces or removes it, and
\* none lowers safe.
Finality ==
  [][/\ safe <= safe'
     /\ \A h \in 1 .. Len(chain) :
          h <= safe + 1 => h <= Len(chain') /\ chain'[h] = chain[h]]_vars

\* Appending blocks and microblocks never lowers the score of the chain; a step
\* that lowers it drops the liquid block (a rollback or a restart).
OnlyRollbackLowersScore ==
  [][ScoreOf(chain', ng') < ScoreOf(chain, ng) => ng' = NoNg]_vars
=============================================================================

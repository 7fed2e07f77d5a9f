------------------------------ MODULE NgState ------------------------------
(***************************************************************************)
(* The liquid block in memory and its caches: state/NgState.scala.         *)
(*                                                                         *)
(* BlockchainUpdater treats the liquid block as a base and a sequence of   *)
(* microblocks.  The code answers from three caches: the accumulated diff  *)
(* per total id, the forged block per total id, and the best block.  They  *)
(* are filled by readers, emptied at any time by Guava (size and age) and  *)
(* invalidated by append, each to a different extent.  Readers share the   *)
(* read lock and append holds the write lock, so each call is one action.  *)
(*                                                                         *)
(* A diff is the sequence of transactions whose effects it combines, a     *)
(* forged block is its transactions.  A microblock's total id should be    *)
(* the signature of the whole block, hence new, but nothing checks it: the *)
(* model lets it be any id, one already in use included (TotalsDistinct    *)
(* says that none is).                                                     *)
(***************************************************************************)
EXTENDS Integers, Sequences, SequencesExt

CONSTANTS Ids,         \* ids a caller may ask for
          BaseId,      \* base.uniqueId
          Txs,         \* transactions that microblocks carry
          BaseTxs,     \* base.transactionData
          MaxMicros,   \* bound: microblocks of a liquid block
          MaxDiff      \* bound: transactions of a diff, which grows with every
                       \* eviction and load once total ids repeat

ASSUME NgAssumption == BaseId \in Ids /\ BaseTxs \in Seq(Txs)

VARIABLES micros,      \* microBlocks, oldest first: [prev, total, txs]
          microDiffs,  \* total id -> diff of that microblock alone
          diffCache,   \* blockDiffCache
          forgedCache, \* forgedBlockCache: id -> [found, txs, discarded]
          bestCache    \* bestBlockCache: a set with at most one block

vars == <<micros, microDiffs, diffCache, forgedCache, bestCache>>

Put(f, k, v) == [x \in DOMAIN f \cup {k} |-> IF x = k THEN v ELSE f[x]]
Without(f, k) == Restrict(f, DOMAIN f \ {k})

-----------------------------------------------------------------------------
MicroBlockIds == {micros[i].total : i \in 1 .. Len(micros)}
BestId == IF micros = <<>> THEN BaseId ELSE micros[Len(micros)].total
\* microBlocks.find looks from the newest microblock, microBlocksAsc from the
\* oldest; PrevOf is prevResBlockSig of the one that find returns.
Newest(id) == CHOOSE i \in 1 .. Len(micros) :
                /\ micros[i].total = id
                /\ \A j \in i + 1 .. Len(micros) : micros[j].total # id
Oldest(id) == CHOOSE i \in 1 .. Len(micros) :
                /\ micros[i].total = id
                /\ \A j \in 1 .. i - 1 : micros[j].total # id
PrevOf(id) == micros[Newest(id)].prev

TxsUpTo(n) ==
  LET upTo[i \in 0 .. Len(micros)] ==
        IF i = 0 THEN <<>> ELSE upTo[i - 1] \o micros[i].txs
  IN upTo[n]

\* diffFor: the base, a cached value, or the previous diff combined with the
\* microblock's own; an id that is no microblock gets the empty diff.  There is
\* no answer ({}) when the walk comes back to an id it is loading: Guava refuses
\* a recursive load.  A walk without repetition ends within Len(micros) steps.
Answers ==
  LET within[k \in 0 .. Len(micros) + 1] ==
        [id \in Ids |->
           IF k = 0 THEN {}
           ELSE IF id = BaseId THEN {BaseTxs}
           ELSE IF id \in DOMAIN diffCache THEN {diffCache[id]}
           ELSE IF id \notin MicroBlockIds THEN {<<>>}
           ELSE {d \o microDiffs[id] : d \in within[k - 1][PrevOf(id)]}]
  IN within[Len(micros) + 1]
DiffFor(id) == CHOOSE d \in Answers[id] : TRUE
HasDiff(id) == Answers[id] # {} /\ Len(DiffFor(id)) <= MaxDiff

\* The ids diffFor loads: it walks down until the base or a cached id.
LoadedBy(id) ==
  LET at[k \in 0 .. Len(micros)] ==
        (IF k = 0 THEN {id} ELSE {PrevOf(x) : x \in at[k - 1] \cap MicroBlockIds})
          \ ({BaseId} \cup DOMAIN diffCache)
  IN {x \in Ids : \E k \in 0 .. Len(micros) : x \in at[k]}

\* forgeBlock: None, or the block and the microblocks it leaves out, which are
\* the oldest first above the base and the newest first above a microblock.
Forge(id) ==
  IF id = BaseId
  THEN [found |-> TRUE, txs |-> BaseTxs, discarded |-> micros]
  ELSE IF id \in MicroBlockIds
  THEN [found |-> TRUE, txs |-> BaseTxs \o TxsUpTo(Oldest(id)),
        discarded |-> Reverse(SubSeq(micros, Oldest(id) + 1, Len(micros)))]
  ELSE [found |-> FALSE, txs |-> <<>>, discarded |-> <<>>]
ForgeBlock(id) == IF id \in DOMAIN forgedCache THEN forgedCache[id] ELSE Forge(id)

Transactions == BaseTxs \o TxsUpTo(Len(micros))

\* bestLiquidBlock
BestBlock == [id |-> BestId, txs |-> Transactions]
BestLiquidBlock ==
  IF micros = <<>> THEN [id |-> BaseId, txs |-> BaseTxs]
  ELSE IF bestCache # {} THEN CHOOSE b \in bestCache : TRUE
  ELSE BestBlock

-----------------------------------------------------------------------------
Init ==
  /\ micros = <<>>
  /\ microDiffs = <<>>
  /\ diffCache = <<>>
  /\ forgedCache = <<>>
  /\ bestCache = {}

\* blockDiffCache after diffFor(id)
Loaded(id) == [x \in DOMAIN diffCache \cup LoadedBy(id) |-> DiffFor(x)]

ReadDiff(id) ==
  /\ HasDiff(id)
  /\ diffCache' = Loaded(id)
  /\ UNCHANGED <<micros, microDiffs, forgedCache, bestCache>>

ReadForged(id) ==
  /\ forgedCache' = Put(forgedCache, id, ForgeBlock(id))
  /\ UNCHANGED <<micros, microDiffs, diffCache, bestCache>>

ReadBest ==
  /\ micros # <<>>
  /\ bestCache' = {BestLiquidBlock}
  /\ UNCHANGED <<micros, microDiffs, diffCache, forgedCache>>

\* Mutant: only the new id is dropped from the cache of forged blocks.
InvalidateNewIdOnly(id) ==
  /\ forgedCache' = Without(forgedCache, id)
  /\ diffCache' = Without(Loaded(BestId), id)
  /\ bestCache' = {}

\* Mutant: the empty diff cached for an id asked for too early survives.
InvalidateForgedOnly(id) ==
  /\ forgedCache' = <<>>
  /\ bestCache' = {}
  /\ diffCache' = Loaded(BestId)

\* internalCaches.invalidate(newBlockId), after the diff of the best liquid
\* block was read to validate the microblock.
Invalidate(id) ==
  /\ forgedCache' = <<>>
  /\ diffCache' = Without(Loaded(BestId), id)
  /\ bestCache' = {}

\* append, as processMicroBlock calls it: the microblock refers to the best
\* liquid block and repeats no transaction of its diff; its total id is any.
AppendMicro(id, txs) ==
  /\ Len(micros) < MaxMicros
  /\ HasDiff(BestId)
  /\ Range(txs) \cap Range(DiffFor(BestId)) = {}
  /\ micros' = Append(micros, [prev |-> BestId, total |-> id, txs |-> txs])
  /\ microDiffs' = Put(microDiffs, id, txs)
  /\ Invalidate(id)

\* Guava drops an entry: maximumSize or expireAfterWrite.
EvictDiff(id) ==
  /\ id \in DOMAIN diffCache
  /\ diffCache' = Without(diffCache, id)
  /\ UNCHANGED <<micros, microDiffs, forgedCache, bestCache>>
EvictForged(id) ==
  /\ id \in DOMAIN forgedCache
  /\ forgedCache' = Without(forgedCache, id)
  /\ UNCHANGED <<micros, microDiffs, diffCache, bestCache>>

Next ==
  \/ \E id \in Ids : ReadDiff(id)
  \/ \E id \in Ids : ReadForged(id)
  \/ ReadBest
  \/ \E id \in Ids, tx \in Txs : AppendMicro(id, <<tx>>)
  \/ \E id \in Ids : EvictDiff(id) \/ EvictForged(id)

Spec == Init /\ [][Next]_vars

-----------------------------------------------------------------------------
\* Every total id is new when its microblock arrives, as a signature would be.
TotalsDistinct ==
  /\ BaseId \notin MicroBlockIds
  /\ \A i, j \in 1 .. Len(micros) : micros[i].total = micros[j].total => i = j

\* The diff that the cache of diffs stands for.
TrueDiff(id) ==
  IF id = BaseId THEN BaseTxs
  ELSE IF id \in MicroBlockIds THEN BaseTxs \o TxsUpTo(Oldest(id)) ELSE <<>>

\* Every cached entry equals what would be computed now, although entries are
\* written before later microblocks arrive, for ids not known yet, and from
\* other cached entries: blockDiffCache only ever loses the new id.  Of the
\* diffs this is true while total ids are new, of the blocks always.
CachesCoherent ==
  /\ TotalsDistinct => \A id \in DOMAIN diffCache : diffCache[id] = TrueDiff(id)
  /\ \A id \in DOMAIN forgedCache : forgedCache[id] = Forge(id)
  /\ \A b \in bestCache : b = BestBlock

TxsIn(ms) ==
  LET upTo[i \in 0 .. Len(ms)] == IF i = 0 THEN <<>> ELSE upTo[i - 1] \o ms[i].txs
  IN upTo[Len(ms)]

\* The discarded microblocks, the oldest first.
DiscardedAsc(id) ==
  IF id = BaseId THEN ForgeBlock(id).discarded ELSE Reverse(ForgeBlock(id).discarded)

\* totalDiffOf returns a block, the diff that is persisted with it, and the
\* microblocks whose transactions go back to the pool: put in order, block and
\* discarded microblocks make up the whole liquid block, and while total ids
\* are new the diff has an answer and holds the transactions of the block.
HardenedPairAgrees ==
  \A id \in Ids :
    ForgeBlock(id).found =>
      /\ ForgeBlock(id).txs \o TxsIn(DiscardedAsc(id)) = Transactions
      /\ TotalsDistinct => Answers[id] = {ForgeBlock(id).txs}
=============================================================================

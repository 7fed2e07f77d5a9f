# Waves node: TLA+ models, checks and proofs

This directory holds TLA+ models of the Waves node (Scala sources under
`node/src/main/scala/com/wavesplatform`, below abbreviated to paths relative to
it, and the `blockchain-updates` extension). They cover how the node keeps its
chain: the liquid block of Waves-NG, the database that can be rolled back, the
votes stored in blocks, the switch to a fork, and the event stream; and how it
gets what the chain is made of: the synchronisation with peers, the microblock
synchroniser and the pool of unconfirmed transactions.

Run a model with `tlc -config X.cfg M`, check the proofs with `tlapm M.tla`.
`PROJECT.json` lists the runs, the source lines behind every definition, the
mutants that show each property can fail, the hazards and the theorems.

## 1. The system and its parts

| Part | State | Operations | Talks to |
|---|---|---|---|
| Blockchain updater (`state/BlockchainUpdaterImpl`) | liquid block `ngState`, `restTotalConstraint`, last block info, event subject | `processBlock`, `processMicroBlock`, `removeAfter`, readers | database below; appenders, miner, API above; observers of last block info and events |
| Liquid block (`state/NgState`) | base, microblocks, diffs, three caches | `append`, `forgeBlock`, `totalDiffOf`, `bestLiquidDiff` | owned by the updater, readers under the read lock |
| State database (`database/LevelDBWriter`, `Caches`) | versioned entries in LevelDB, loading caches, current height and last block | `append`/`doAppend`, `rollbackTo`/`doRollback`, readers | called by the updater only |
| Feature voting | votes in headers, approved and activated features | counted in `featuresApprovedWithBlock` and `doAppend` | changes the rules of everything else by height |
| Block rewards | reward votes, reward per block, total amount | `nextReward`, `doAppend` | block diff, database |
| Appenders (`state/appender`) | local variables of the calls | block, microblock, extension | all on one single-threaded scheduler |
| Events and Kafka (`state/BlockchainUpdated`, `blockchain-updates`) | asynchronous subject, producer, topic | notifications, start-up check | last consumer of the updater |
| Peer synchronisation (`network/Rx*`, `HistoryReplier`) | scores per channel, loader and applier state | score, signatures, block, timeout, close | feeds the extension appender |
| Microblock synchroniser | inventories, owners, awaiting, received | inventory, request with retries, response | feeds the microblock appender |
| UTX pool | transactions, pessimistic portfolios, cleanup queue | `putIfNew`, `removeAll`, `packUnconfirmed`, `addAndCleanup` | appenders, miner, API, all concurrently |
| Miner, microblock miner | scheduled attempts | forge, append, next microblock | UTX pool, block appender |
| Peer database, connections | candidates, verified, suspended, blacklisted | add, touch, blacklist, random peer | network |
| Consensus, diffs, RIDE, codecs, API, wallet, settings, metrics | see `PROJECT.json` components | | |

What is hard in this code: blocks, microblocks, versions of a block and
competitors arrive in any order while the last block is not yet persisted; a
rollback is a sequence of database batches and a node may die between two; what
a rollback undoes is reconstructed from indexes and not logged; caches are
invalidated piece by piece; votes are counted partly in the liquid block and
partly in the database; a fork is applied block by block and undone block by
block when one is refused; events leave the node asynchronously. Around the
single appender thread, the loader, the two synchronisers, the miner, the
cleanup of the pool and the API run on threads of their own, and their peers
answer late, twice, wrongly or not at all.

Correct means: the chain is linked, signed, within capacity and free of
repeated transactions; scores add up; blocks below the rollback window are
final; after a rollback every reader sees what it saw at that height; caches
never change an answer; votes decide by the chain they are on; a refused fork
leaves no trace; consumers of events can follow; the node follows the best
chain a reliable peer offers, microblock by microblock, whoever else fails, and
blames nobody wrongly; and the pool neither loses a transaction nor keeps one
that is confirmed.

## 2. The modules

### BlockchainUpdater

The chain as the updater sees it. `chain` is the persisted part (block and
stored score per height), `ng` the liquid block (base and microblocks) or
`NoNg`, `safe` the stored safe rollback height, `rest` the capacity left,
`info` the last published block info, `announced` the height of the last event,
`rolling` the target of a rollback in progress.

Blocks carry id, reference, generator, base target, timestamp and transactions.
`Signed` is the set of blocks whose signature matches their content, so a block
forged from a base and microblocks is acceptable only if it is in `Signed`.
`Applicable(ledger, txs)` stands for all transaction validation: it is any
operator that looks at the transactions already applied.

Nothing in the code compares the total id of a microblock with the ids in use.
Once one repeats, the diff that the node reads for the liquid block is not that
of its transactions any more (module `NgState`), so what is validated on it may
pass or fail whatever it contains. `LiquidExact` says whether the state of the
moment is the ledger's, each persisted entry remembers in `exact` whether it was
persisted with the right diff, and `MayPass` and `MayFail` leave both answers open
where it was not.

`processBlock` is split along its cases: `AppendToPersisted` (no liquid block),
`ReplaceLiquid` (better score, or a longer version of the same block), `Harden`
(the block references a state of the liquid block, which is persisted), and
`RefuseCompetitor` and `RefuseChild`, refusals that have already sent an event.
The other refusals change nothing. `removeAfter` is `RemoveAfterInLiquid`,
`RemoveAfterRefused` (the liquid block is dropped all the same) or
`RemoveAfterStart`, followed by one `RollbackStep` per batch of `doRollback` and
`RemoveAfterDone`. The updater holds its write lock during a rollback, so only
`Restart` can come between these steps: `Restart` is enabled in every state,
loses the liquid block and runs `checkGenesis` on an empty database.

### NgState

The same liquid block with its caches: accumulated diff per id, forged block per
id, best block. Readers fill them, Guava evicts at any time, `append`
invalidates. A diff is the sequence of transactions it combines. A microblock may
carry any total id, that of the base or of an earlier microblock included:
`diffFor` may then answer with a diff that misses or repeats microblocks, or walk
into an id it is loading, which has no answer (`Answers`). A forged block lists the
microblocks it leaves out oldest first above the base and newest first above a
microblock, as the fold of `forgeBlock` builds them.

### StateWindow, VersionedValue

`VersionedValue` is one entry of the database: the heights at which it changed
and its values, trimmed by `updateHistory` on append and shortened by
`doRollback`. `StateWindow` is what such an entry promises: a stack of the
values at the heights a rollback can return to. `VersionedValue` implements
`StateWindow`; `SnapshotDepth` is the additional depth kept for Waves and lease
balances.

### LevelDBWriter

All families of entries at once, for fifteen kinds of transactions: what
`doAppend` writes from the diff of a block against what `doRollback` finds again
through `changedAddresses`, `changedDataKeys`, `assetList`, the address
transactions and the types of the transactions, and which caches it discards.
An Issue writes a script entry, an InvokeScript may change an asset
(`InvokeBurn`), leases expire, fees may be paid in an asset or come back in full:
`Overlooked` lists what a rollback then leaves behind, and the history variable
`lost` collects it. The cached description of an asset is one entry of the caches,
loaded from three entries of the database (`Load`), its script among them; neither
`append` nor a rollback discards it when the script changes. `TxAddresses` are the
addresses of a transaction's diff, of which a Reissue or a Burn has none.
`Keep` is the filter that `updateHistory` and the rollback apply to a list of
heights, written as a recursive function so that it can be proved about.
`truth` is a history variable: the state when each height was appended.

### Features, Rewards

The votes of a chain with a liquid last block, competitors of it, hardening and
rollback. The properties compare the stored decisions with a definition over the
votes of the whole chain.

### Voting (extends Features, instance of Rewards)

A header carries both votes, so the two are checked on one chain: each action of
`Voting` is the same action of `Features` and of `Rewards`. The feature windows
and the reward terms end at different heights, so a rollback inside a window
crosses a term.

### ExtensionAppender (extends BlockchainUpdater)

The appenders. An extension in progress is the record `ext` (stage, common
block, blocks, position, dropped blocks, and as history the chain before it).
Each call on the updater is one action, since each takes the lock separately.
Consensus checks depend on clocks and balances that are not modelled, so any
block of an extension may be refused; on restoring, the code does not run them.
A block that `processBlock` refuses while the old chain is restored, or a refused
`removeAfter`, throws (`explicitGet`): stage `failed`, after which nothing more is
restored.

### BlockchainUpdates (extends BlockchainUpdater)

The events and the start-up check of the Kafka extension: `pending` are the
heights of events on their way, `kafka` the height of the last event in the
topic. A crash loses `pending`. Kafka is external; it keeps what it got, in
order. Every step of the updater is a step of this module, so its run checks the
updater's properties too, with a restart split into the crash, the constructor
and the start-up check.

### ScoreObserver, ExtensionLoader (extends ScoreObserver)

`ScoreObserver` is `RxScoreObserver`: local scores, remote scores and closed
channels as three streams over shared state (`scores`, `localScore`,
`currentBestChannel`), each handler one action, and the items it publishes
(`events`) after `distinctUntilChanged`. `ExtensionLoader` is `RxExtensionLoader`
with `LoaderState` and `ApplierState`: a new best peer, signatures, blocks,
timeouts and the outcome of an extension, each one action on the loader's
thread. `net` holds the requests and answers under way in no order; `work` and
`results` are the queues to and from the appender, which takes one step per
extension (its inner steps are `ExtensionAppender`). Scores are heights. A flaky
peer may close its channel, answer after its timeout, fall silent, or have its
score expire; a block in `Bad` does not validate. `late` is a history variable, which
no handler reads: the channels whose answer to an earlier request was taken for the
answer to the present one, which `onNewSignatures` cannot tell apart.

### MicroBlockSynchronizer

Announcements, the four caches and the download tasks. The handler of an
announcement takes two steps (remember, then compare with the last block) and so
does the publication of a new last block on the appender's thread (observe, then
look up, then send), which is where they race. A task is what
`requestMicroBlock` keeps between two rounds. Any entry of a cache may expire
once nothing of its microblock is under way except a silent peer's answer.

### UtxPool

The pool without a lock: `transactions`, the keys of `transactionPortfolios`, and
where each thread is. Every operation on a concurrent map is one step, so putting
a transaction is three steps (validate, add the portfolio, put), removing one is
two, and an eviction by `packUnconfirmed` is the check that fails (`RefuseTx`)
and, some time later, the removal (`EvictTx`). The cleanup thread drains the
queue, returns what it got and packs; the appender appends, replaces, drops,
switches to a fork or has one refused, then removes what was confirmed one by one
and offers what was discarded. A transaction is valid on a chain that has what it
`Requires` and not itself. `owed` is a history variable: accepted, and not yet
found invalid or given up; a transaction put between the check and the removal of
an eviction goes with it and is not owed (`PutTx`). Packing sees the chain of each
moment under the diff packed so far, so that a packed transaction that is
confirmed meanwhile counts twice and any later one may be evicted (`MayEvict`).

### PessimisticPortfolios

The second map of the portfolios in detail, from an account to its transactions,
which `add` reads and puts back in two steps.

## 3. The runs

| Run | Instance | Result |
|---|---|---|
| `events` | four heights above genesis, two competing key blocks per height, up to two transactions in the first block and one in the others, one tampered block, honest microblocks and microblocks whose (new) total signs another content, capacity 2, rollback window 3, two events in flight, crashes, refused and passed starts | holds |
| `ng_caches` | base and three microblocks with any total ids, repeated ones too, all cache contents, diffs of up to four transactions | holds |
| `versioned_value` | two values, window 2 and 1 more, heights up to 7 | holds |
| `writer_rollback` | fourteen transaction types, two addresses, leases that expire, fees in Waves and in the asset, four appended blocks with rollbacks in a window of 2 | holds |
| `writer_lease_expiry` | leases that expire | violated, see 5 |
| `voting` | two features, windows of 2 then 4, reward term 3 and voting interval 2, votes up, down and none, nine heights | holds |
| `features_rollback` | features alone, rollbacks past a persisted end of a window too | violated, see 5 |
| `extension` | every extension of one to three blocks at every height, rollback window 2, honest microblocks and microblocks whose (new) total signs another content, crashes | holds |
| `sync` | a flaky peer with an invalid block that grows, a reliable peer three blocks ahead, two extensions long | holds |
| `utx` | two transactions of which one needs the other, a putting thread, the cleanup thread and the appender, two changes of the chain | holds |
| `utx_portfolios` | two transactions, two putting threads, one remover | violated, see 5 |
| `microblocks` | two microblocks in a row, a flaky and a reliable peer, one change of the key block | holds |

Why the bounds are enough for the cases of interest. The code of the updater looks
at the persisted tip, its parent and the liquid block; four heights with a window
of three let a rollback go one, two and three blocks deep, be refused, be followed
by other blocks of the same heights, and let `safe` be raised, kept and hit. Two
key blocks per height give better, equal and worse competitors; the second
generator repeats transactions its ancestors may hold. Two transactions in a block
give versions of three lengths and two microblocks in a row. In the database
models the window (2) is smaller than the number of blocks, so trimming, rollback
and append after rollback all meet. Feature windows of 2 with nine heights contain
the doubling of the window and one whole window after it. Two reward terms let a
reward go up and down. An extension of three blocks can be refused at the first, a
middle and the last block. Two peers are enough for the loader, which keeps one at
a time: the second one is the other best peer, the sender of late answers and the
cause of a changed score. The reliable peer's chain takes two extensions, so that
one is loaded while the other is applied. For the microblocks two peers are as
many as a task has attempts; with two silent owners and a reliable one a task may
spend both attempts on the silent ones, which the code accepts. In the pool two
changes of the chain contain a refused fork, a replacement that confirms again
what it dropped, and a rollback, each racing the cleanup; a put that overtakes a
pending eviction occurs (without its exception `NothingLost` is violated in this
instance). `utx` was also run with the miner's thread (7.4 million states) and
with three changes of the chain, both for safety only.

`CHECK_DEADLOCK FALSE` is used where the number of appended blocks is bounded
and everything may have been rolled back (LevelDBWriter runs), and in `sync` and
`microblocks`, where the node rests when it has all its peers have announced.

### What the properties say

- `events`: `Linked`, `NoTxTwice`, `CapacityAccounted`, `InfoInSync` (what was
  published is the last block), `ScoreAccumulates`, `RollbackWindow`, the action
  properties `Finality` (what is at or below `safe + 1` stays) and
  `OnlyRollbackLowersScore`, and `TypeOK`, which contains that everything
  persisted is in `Signed`; and of the event stream `EventsFollowChain` and
  `RollbackTargetExists`.
- `ng_caches`: `CachesCoherent` (a cached block is the one forged now, whatever the
  total ids; a cached diff is the one of the microblocks while total ids are new),
  `HardenedPairAgrees` (a forged block and what it discards are the whole liquid
  block, whatever the total ids; while these are new, the diff persisted with the
  block is its own).
- `versioned_value`: `ReadsCurrent`, and `RefinesWindow`, the refinement of
  `StateWindow`.
- `writer_rollback`: `RollbackRestores` (an entry reads as it did at that height,
  unless it was overlooked by a rollback: nothing is lost in another way than the
  listed ones), `CachesCurrent` (excepts the script in an asset description),
  `AddressIndexExact` (the index holds what the diffs name), `CarryFeeKept`.
- `writer_lease_expiry`: `LeasesRestored`, what the tests say a rollback resets.
- `voting`: `StatusFollowsChain`, `ActivationIsStable`, `RewardFollowsVotes`,
  `AmountAccumulates`.
- `extension`: `RecoveryLosesUnsignedOnly` (the recovery of a refused fork may
  throw, but only at the dropped liquid block and only if that does not have the
  content its id signs; all below is back by then), `RefusedExtensionRestores`,
  `AcceptedExtensionIsChain`, all three while total ids are new, and the liveness property `ExtensionEnds`.
- `sync`: `WaitIsRescued` (the loader never waits for a closed channel that
  nobody will report to it), `ExtensionsAreSegments` (what is handed to the
  appender is a piece of the chain of the peer it is attributed to),
  `OneExtensionAtATime`, `BlameHasCause` (no peer with a valid chain is blacklisted
  for an extension, unless another was rightly blacklisted before or a late answer
  was taken for the present one), and the liveness property
  `AskedPeerIsFollowed` (a reliable peer the idle loader learns of is followed to
  its score).
- `utx`: `NoGhostPortfolio`, `NothingLost`, and the liveness property
  `ConfirmedLeave`.
- `microblocks`: the liveness property `NextIsFetched`: a wanted microblock is
  fetched and applied, or the last block has changed.

### Fairness

`ExtensionEnds` is checked under weak fairness of the steps of the extension in
progress (`ExtFairSpec`). The code runs them in one task on the appender thread
without waiting for anything else, so the next call is made as long as the node
runs; a crash ends the extension too. No fairness is assumed of peers or of the
other appenders.

In `sync`, `microblocks` and `utx` weak fairness is per thread: a thread that has
something to do does it, as its scheduler is never shut down while the node runs
and no handler waits for another one; within a thread nothing is assumed of the
order. Timers fire. Peers that are not flaky answer; nothing is assumed of
flaky ones. In `utx` empty key blocks keep coming, since generators need no
transactions, and each one triggers a cleanup: without one a transaction that is
confirmed while it is being put does stay in the pool.

Liveness is checked by TLC only.

## 4. What is proved

Proofs hold for every value of the constants that satisfies the modules'
assumptions; TLC evaluates those assumptions in the runs. Where a theorem has a
hypothesis of its own it is named here with the reason.

| Module | Theorems | Properties of the runs they state |
|---|---|---|
| `BlockchainUpdaterProofs` | `TypeCorrect`, `ChainAndLiquidLinked`, `ScoresAddUp`, `RollbackWindowKept`, `InfoFollowsChain`, `FinalityHolds`, `ScoreKept`, `CapacityKept`, `NothingAppliedTwice`; with restarts and events `NodeStaysSound`, `NodeAppliesOnce`, `NodeFinality`, `StreamFollowsChain`, `RewindTargetExists`; with the appenders `AppendersUseUpdater`, `RecoveryFailsOnUnsignedOnly`, `RefusedRestores`, `AcceptedIsChain` | all of run `events`, `extension` without liveness |
| `NgStateProofs` | `CachesStayCoherent`, `HardenedPair` | all of `ng_caches` |
| `VersionedValueProofs` | `ImplementsWindow`, `ReadersSeeCurrent` | all of `versioned_value` |
| `LevelDBWriterProofs` | `StateRestored`, `CachesStayCurrent`, `IndexStaysExact`, `CarryKept` | all of `writer_rollback` |
| `VotingProofs` | `StatusOfChain`, `StableActivation`, `RewardsFollowVotes`, `AmountsAccumulate` | all of `voting` |
| `ExtensionLoaderProofs` | `OneAtATime`, `WaitRescued`, `ExtensionsSegments`, `BlameJustified` | `sync` without liveness |
| `UtxPoolProofs` | `TypeCorrect`, `NoGhosts`, `NoneLost` | `utx` without liveness |
| `Induction` | lemmas only | |

### Induction

The models compute the ledger of a chain, the transactions of microblocks, a
trimmed history and a reward with recursive functions. `Induction` states
induction over the natural numbers as a fact about sets (`Inductive`: a set that
holds 0 and the successor of each of its members holds every number), from the
library's theorem that `<` is well founded; an induction hypothesis is then
membership in a set, which the provers can use. From it, a recursive function is
unique and defined (`ConcatenationExists`, `ConcatenationUnique`), and one
operator, `Flat`, the concatenation of a family of sequences, is unfolded, split
and typed once. Each model's recursion is shown to be a `Flat`
(`MicroTxsIsFlat`, `LedgerIsFlat`, `TxsUpToIsFlat`, `KeepIsFlat`).

### The chain

The inductive invariant `IInv` joins `TypeOK`, `Linked`, `ScoreAccumulates` and
`RollbackWindow`, because none is inductive alone: hardening persists a block
that has the *reference of the liquid base*, so the chain stays linked only if
the base references the tip; that in turn survives a rollback only because a
rollback in progress has no liquid block; and a rollback step keeps the window
only because its target is above `safe`. There is one lemma per action.
`InfoInSync` is inductive relative to `IInv`: every action that changes the chain
or the liquid block ends with `Publish`, what `processMicroBlock` publishes
itself agrees with it, and a rollback in progress is exempt. `CapacityAccounted`
needs that the length of a liquid block is that of the base and of its
microblocks, wherever the latter were split.

`NothingAppliedTwice` has the hypothesis `RefusesRepeats`: validation refuses
transactions of which one is already in the ledger or one occurs twice
(`TransactionDiffer` calls `containsTransaction`). It is a property of
`Applicable`, not of the updater; `MCBlockchainUpdater` has TLC evaluate it on
short ledgers (`RepeatsRefused`). Its second hypothesis, `[]TotalsDistinct`, is
that the total ids of a liquid block differ; nothing in the code enforces it, and
without it blocks are validated on a diff that is not the ledger's. What the
theorem then says is about the updater: every block and microblock is validated on
exactly the ledger that precedes it, so the whole ledger, persisted and liquid,
stays free of repetitions; the one subtle step is `Harden`, where what is
persisted is a prefix of the liquid transactions (`ForgedPrefix`) and the rest is
given up.

`EventSpec` adds crashes, starts and the Kafka extension. Each of its steps is
one of the updater, changes nothing of it, or is a death that drops the liquid
block (`EventSteps`), so the invariants and both action properties carry over,
and `EventIInv` shows that the last event a consumer has been or will be given is
at the height of the node, or one above it once the liquid block is gone.

`ParameterAssumption` and `BlocksAssumption` say that the genesis block is
signed, fits and applies to the empty ledger, that targets give natural scores,
that the depth is positive and that `NoNg` is not a liquid block. They are
what the node's settings guarantee at the first start (`checkGenesis`).

### Switching forks

`SwitchInv` joins the invariants of the updater with two more.

`AppliesInv`: every persisted block, and the liquid block at each of its
microblocks, would be accepted again where it is, which is what `droppedBlocks.foreach(processBlock(...).explicitGet())`
relies on. It is about blocks as they come back: a liquid block that was applied
as a base and microblocks comes back as one block, under the id of its last
microblock.

`ExtInv`: where `apply` stands. Until an extension is accepted or undone, the
common block is persisted, or still a state of the liquid block; what was
dropped is the upper part of the chain as it was, and `restoring` has rebuilt
that chain up to the next block. If that block is refused it is the last one, the
former liquid block, and not in `Signed`: every other dropped block was persisted,
hence signed, and applies where it was. Two facts are not local. The undo could be
refused if hardening had moved `safe` up to the common block: an extension has
at most `MaxRollbackDepth + 1` blocks, of which the last is liquid and each of
the others moves `safe` by at most one, so `safe` is still below when the undo
starts (`SafeBelowCommon`). And `heightOf`, which looks at the persisted blocks
before the liquid one, is ambiguous if an id can occur twice; by `Acyclic` it
cannot (`ReferencesDistinct`, `LiquidIsNew`).

`AppendersUseUpdater` says that a step of the appenders is a step of the updater
or leaves it alone, while total ids are new. So what is proved above holds while
forks are switched.

The hypotheses are about code that the updater calls or receives from, and TLC
evaluates each of them on the instance of the run (`MCExtensionAppender`):

- `SplitIndependent`: transactions that pass validation in two pieces pass in
  one (the differ validates them one by one, each on the result of the others).
- `[]TotalsNew`: total ids in the liquid block are new. The node checks neither
  this nor that a total id signs the block it completes, only the signature of the
  microblock. The second is not assumed: a liquid block with such a total is
  refused when it comes back, and the recovery throws; `RecoveryFailsOnUnsignedOnly`
  says that this is the only way and what is lost by it. With a repeated total
  nothing is claimed: the diff of the liquid block is then not that of its
  transactions, and whatever is validated on it may pass or fail.
- `Acyclic`: a signature covers the reference, so references form no cycle.
- `LinkedExtensions`, for `AcceptedIsChain` only: the blocks of an extension
  reference each other, which the loader ensures by asking for a list of consecutive
  ids (`ExtensionsSegments`) and the appender does not check again.

`ExtensionAssumption` says that the blocks of an extension are signed and that it is
no longer than the rollback window and the liquid block (`max-rollback` 100
against `max-rollback-depth` 2000).

### The liquid block

`NgInv` adds to `CachesCoherent` that each microblock refers to the one before it
and, while total ids are new (`TotalsDistinct`), that `microDiffs` holds the diff of
each. The accumulated diff of an id is then the concatenation up to its position,
whether it is read from the cache or computed by the recursion from the nearest
cached one, and the discarded rest is the other half of it. The facts about forged
blocks need no hypothesis on the ids: `forgeBlock` walks the list of microblocks
and not the ids.

### Database entries

`VersionedValueProofs`: `WindowInv` says that every height of the window has a
newest version at or below it in the history whenever it ever had one. With it,
the refinement of `StateWindow` is a case for each action.

`LevelDBWriterProofs` is about all families at once and has no hypothesis beyond
the module's assumption. `StateRestored` rests on `RestoreInv`: but for the entries
in `lost`, histories are strictly descending and hold only heights with data
(`HistoriesSound`); an entry that has a version of some height would be found
through the indexes by the rollback of that height, or is overlooked by it
(`RollbackCovers`); and every entry, cut at any height of the window, shows what was
recorded in `truth` at that height (`WindowShown`). `RollbackCovers` holds because
`TxWritesFound` matches, type by type, what `doAppend` writes with the way
`doRollback` finds it again; where there is none, `Overlooked` names the entry. So
the theorem says that the list of section 5 is complete for what the module has.
In `CarryInv` the stronger fact
is that a carry fee is kept for every height a rollback may return to;
`CacheInv` is `CachesCurrent` with types; `IndexInv` adds to `AddressIndexExact`
that the addresses of a transaction are among the changed ones of its height.

### Votes

`RewardsFollowVotes`: the reference of the property is a recursive function of
the votes. The proof takes the chain itself as that function: `RewardInv` says
that each block carries the reward which `Rule` computes from the rewards and
votes *before* it (`Follows`), and `ChainIsReference` shows by induction that
the rewards of such a chain are the reference. The code counts the votes of a
window partly in the database and partly in the liquid block; `NextRewardIsRule`
shows that the sum is the rule. `AmountsAccumulate` is the same argument for the
total amount.

`StableActivation` needs `LiquidInv`: what `NgState` remembers as approved is what
the persisted votes and the votes of the liquid block decide. `StatusOfChain`
needs `StoredInv`: a feature is stored as approved exactly if it has won a window
of the persisted chain, with the height of the first one. It has two hypotheses.
`~BoundaryRollbacks`: no rollback removes the persisted end of a window; section 5
shows that the property fails otherwise. `MinVotes >= 2`: the attempt to prove it
without failed, since the code considers only the features that a block *before*
the last of a window voted for; see section 5.

### Synchronisation

`OneAtATime`: the invariant `UnderWay` says which of the two queues holds the
item, and that nothing is buffered while the applier is idle: only so can
`onExtensionApplied` hand over the buffered extension without a second one being
under way.

`WaitRescued`: the invariant `WaitInv` follows a closed channel through three
places. If the observer still knows it (a score, the best channel) its notice is
under way; if an item in the queue names it, a notice is under way or a later
item takes it back; and `distinctUntilChanged` swallows an item only while its
twin is still to be handled, or when the loader does not wait for the channel it
names. No ordering between the three streams is used.

`ExtensionsSegments`: `SegmentInv` says that signatures in flight, the list being
loaded, the buffer and the work of the appender are each a segment of the chain
of the peer they are attributed to. Chains grow and peers change; a segment
stays one.

`BlameJustified`: `BlameHasCause` speaks of the moment an extension is refused, but
what decides it happened when its signatures were asked for, perhaps while another
extension was being applied. `BlameInv` connects the two. `Ground` is the set of
blocks the node will have when the appender is done: those of its chain, or of the
extension it is busy with. What is asked with is in `Ground` (`SyncGrounded`), so
the list being loaded, the buffer and the work of the appender each have the parent
of their first block there (`Grounded`), and a segment that does so attaches
(`RestGrounded`). When an extension is applied its blocks are the node's
(`SwitchedChain`), also if part of them were there and the node had a fork of its
own above, because the node's chain is the lower part of one of the chains
(`LocalSound`); a block nobody asked for only extends it (`StrayExtends`). All this is
claimed while nobody is blamed and no late answer was taken (`SureInv`): a
refused extension takes its blocks out of `Ground` under a load that goes on, and a
late answer starts outside it.

`LoaderAssumption` says that a block has one chain of ancestors, that all chains
start with the same genesis block, and that more signatures are answered than the
node sends (`max-chain-length`, `max-rollback`).

### The pool

`NoGhosts`: a portfolio loses its transaction only by a `Remove`, which leaves its
thread with the removal of the portfolio still to do. `NoneLost` needs two
invariants. `PoolInv`: an owed transaction that some thread is about to evict is
also away from the pool (on the chain or on its way back), since the check that
failed took it out of `owed` unless it was confirmed, and a put that comes in
between does not put it there. `AppenderInv`: what the appender has left to remove
is on the chain, it holds nothing dropped when it is idle or has appended a
microblock, and a chain that is being switched has a last block; so
`RemoveConfirmed` takes only what is confirmed, and a refused fork puts back what
was dropped.

### Only model-checked

Liveness (`ExtensionEnds`, `AskedPeerIsFollowed`, `ConfirmedLeave`,
`NextIsFetched`), which is out of this prover's reach, and the violations of
section 5. Every invariant and every action property of the passing runs is proved.

## 5. Where the code and its documentation disagree

- `features_rollback`: approvals and activations are stored once and never
  removed. A rollback of the persisted last block of a window leaves the feature
  approved on a fork that did not vote for it.
- `writer_lease_expiry`: an expired lease is cancelled by a block, not by a
  transaction, and `doRollback` does not restore it.
- `utx_portfolios`: `PessimisticPortfolios.add` reads the ids of an account and
  puts them back with one more; of two transactions of one account that are
  added at a time one is missing from the account's portfolio until it leaves
  the pool.

Met while modelling or proving, without a run of their own:

- With `blocks-for-feature-activation = 1`, which the `require` of
  `BlockchainSettings.scala:85` admits ("must be in range 1 to ..."), a feature
  that only the last block of a window votes for is not approved: `doAppend` and
  `featuresApprovedWithBlock` add the block's vote to the entries of
  `featureVotes`, which has none for it (`LevelDBWriter.scala:422`,
  `BlockchainUpdaterImpl.scala:96`). `MinVotes = 1` in `MCVoting.cfg` shows it.
- Expired leases are not all that `doRollback` overlooks. Of an InvokeScript it
  deletes the result only (`LevelDBWriter.scala:586`): the quantity of an asset that
  the dApp burned or reissued stays. The script entry of a rolled back Issue stays
  (`:557`; harmless while nobody can name the asset). The diff of a Reissue or a
  Burn has no addresses, so when the issuer generates the block and gets the whole
  fee back no address is recorded as changed and its asset balance stays; so does an
  asset fee paid to a generator that has no other change in the block. In the
  instance of `writer_rollback` each part of `Overlooked` occurs, and
  `RollbackRestores` is violated when one is taken out (for the issuer who generates
  the block set `Miner = Sender`). What the
  one-time patches of `BlockDiffer` change is not undone either (not modelled).
- For the same reason a Reissue or a Burn is in nobody's list of transactions
  (`AssetTransactionsDiff.scala:60`), although the API promises those "where
  specified address has been involved" (`TransactionsApiRoute.scala:48`).
- A cached asset description keeps the script it was loaded with: `Caches.append`
  invalidates the descriptions of issued and sponsored assets (`Caches.scala:315`),
  a rollback of SetAssetScript none (`LevelDBWriter.scala:578`). `CachesCurrent`
  excepts the script. Over a liquid block `CompositeBlockchain.assetDescription`
  takes it from the asset script instead, so the old one shows only while there is
  no liquid block.
- A microblock is accepted without comparing its total id with the block it
  completes. If the liquid block is then dropped for an extension that is
  refused, `explicitGet` throws while restoring it (`ExtensionAppender.scala:84`),
  and the liquid block is lost (`RecoveryLosesUnsignedOnly`).
- Nor is a total id compared with the ids in use. With that of the base,
  `bestLiquidDiff` answers with the base's diff alone and the microblock's is neither
  validated against nor persisted; with that of an earlier microblock `diffFor`
  answers wrongly or comes back to the id it is loading, and the reader throws
  (`NgState.scala:50`), `removeAfter` included. The properties of `NgState` except
  the diffs from then on, those of the chain have `TotalsDistinct` or `TotalsNew` as
  a hypothesis.
- A crash between the batches of a rollback and the delivery of its event leaves
  the node more than one block behind the topic, which the start-up check calls
  impossible (`BlockchainUpdates.scala:74`); the node then refuses to start
  (`StartupRefused`). A node stopped before its second block meets the second
  half of the same check: the genesis event is in the topic and the database is
  empty.
- `onExtensionApplied` discards what was loaded on top of a failed extension only
  if it is complete (`RxExtensionLoader.scala:188`). A load under way goes on,
  its blocks do not attach, and its sender is blacklisted. With the chains
  `<<1, 2, 13>>` (13 invalid) and `<<1, 2, 3>>` in `MCExtensionLoader`,
  `blamed \intersect Honest = {}` fails, while `BlameHasCause` holds.
- Nothing in `onNewSignatures` (`RxExtensionLoader.scala:110`) matches an answer to
  its request. If the loader is freed before a peer answers (a broadcast block
  brings the node to the best score), a fork is loaded from another peer and the
  first one is then asked again, its late first answer is taken for the second; its blocks
  do not attach to the fork, and the peer is blacklisted although its chain is
  valid. In `ExtensionLoader` this takes 28 steps, with the chains
  `<<1, 2, 3, 4, 5>>` (two blocks at first) and `<<1, 12, 13, 14>>`, the node's
  `<<1, 2>>`, `MaxRollback = 3`, `MaxChainLength = 4` and no bad block: `blamed = {}`
  fails after 4 million states, too many for a run of its own. `BlameHasCause` excepts
  the case by `late`.
- A better peer that is announced while the loader waits for an answer that turns
  out empty is not asked until the next announcement; a score that does not
  change expires after `score-ttl` and is not put again.
- An answer that comes after its entry in `awaiting` expired is recorded as
  received and thrown away (`MicroBlockSynchronizer.scala:99`), and an owner that
  announces while a request nobody will answer is awaited is not asked (`:87`).
  Until the next key block, or for three minutes, that microblock and all after
  it are not fetched. `NextIsFetched` names the first exception and does not
  promise the second case.
- The transactions that a refused fork took from the pool are not given back
  (`ExtensionAppender.scala:83`), and a packed transaction that is confirmed
  during packing counts twice, which may evict valid ones (`UtxPoolImpl.scala:224`).
  The eviction of a transaction (`:240`) follows its check (`:225`): one that was
  confirmed, then returned to the pool from a dropped block between the two is
  removed without having been found invalid again. `NothingLost` excepts both.

## 6. Not modelled

Amounts, fees and portfolios; timestamps; proof of stake; the RIDE language; byte
formats; REST and gRPC; the wallet; the miner beyond its calls on the pool; the
peer database, handshakes and connections beyond a channel that is open or closed.
Readers of the liquid block that throw on a repeated total id (only that their
answer may be wrong is). Readers of the database that take no lock. The forced
stop on an unimplemented activated feature. `verify = false` (import). The limits
of the pool in bytes and of scripted transactions, its order by fee and the expiry
of its transactions. The broadcasts and caches of the UTX synchroniser.

The node is written in Scala. The JavaScript in the repository
(`node/src/main/resources/swagger-ui`) is a vendored copy of Swagger UI, served
as static files to a browser; it has no part in the node's behaviour and is not
modelled.

## 7. Plan

Done, in this order: BlockchainUpdater and its proofs, NgState, VersionedValue
with StateWindow and its proofs, LevelDBWriter, Features, Rewards,
ExtensionAppender, BlockchainUpdates; then ScoreObserver, ExtensionLoader and its proofs,
UtxPool and its proofs, PessimisticPortfolios, MicroBlockSynchronizer, Voting;
then Induction and the proofs about repeated transactions, capacity, the event
stream, NgState, LevelDBWriter, Voting and the rest of the loader; then those about
switching forks (`ExtensionAppender`) and about blame (`BlameHasCause`).

Next, in order:

1. Miner: what is forged on a state that has moved on is refused and retried.
2. Peer database: candidates, blacklisting, starvation of the queue
   (`PeerDatabaseImpl.scala:83` compares an address with its bytes).
3. Algorithms as operators against a reference: balance snapshots and their
   windows, mining constraints, base target bounds, block fees and carry, and
   the transaction diffs with conservation of Waves and assets.
4. `containsTransaction` and its memory of recent blocks.

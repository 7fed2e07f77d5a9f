------------------------------ MODULE UtxPool ------------------------------
(***************************************************************************)
(* The pool of unconfirmed transactions: utx/UtxPoolImpl.scala with its    *)
(* PessimisticPortfolios, and the calls of the appenders on it             *)
(* (state/appender/).                                                      *)
(*                                                                         *)
(* Nothing locks the pool.  Its three concurrent maps are updated one      *)
(* after the other by the threads that put transactions, by the cleanup    *)
(* thread, which returns the transactions of dropped blocks and evicts     *)
(* what is no longer valid, by the miner, which evicts too, and by the     *)
(* appender, which removes what was confirmed.  An operation on one map is *)
(* one step.                                                               *)
(*                                                                         *)
(* All transactions touch one account, so the map from accounts to         *)
(* transaction ids is one set.  A transaction is valid on a chain that     *)
(* holds what it requires and not the transaction itself.                  *)
(***************************************************************************)
EXTENDS Integers, Sequences, FiniteSets

CONSTANTS Txs,        \* transactions
          Requires,   \* Requires[t]: transactions t is valid only after
          Putters,    \* threads of the UTX synchroniser
          Cleaner,    \* the cleanup thread
          Miners,     \* the miner's thread, or none
          Appender,   \* the appender's thread
          NoTx,
          InitialChain,   \* the chain when the node starts, its pool empty
          MaxSize,    \* utx.max-size
          MaxBlocks,  \* bound: blocks with transactions on the chain
          MaxChanges  \* bound: changes of the chain

Adders == Putters \union {Cleaner}
Packers == Miners \union {Cleaner}
Removers == Packers \union {Appender}

ASSUME UtxAssumption ==
  /\ IsFiniteSet(Txs) /\ NoTx \notin Txs
  /\ Requires \in [Txs -> SUBSET Txs]
  /\ InitialChain \in Seq(SUBSET Txs)
  /\ Cleaner \notin Putters \union Miners \union {Appender}
  /\ Appender \notin Miners
  /\ MaxSize \in Nat /\ MaxBlocks \in Nat /\ MaxChanges \in Nat

VARIABLES
  chain,         \* the blocks with transactions, each the set of its transactions
  changes,       \* how often it changed, see MaxChanges
  transactions,  \* ids of the transactions in the pool
  portfolios,    \* keys of transactionPortfolios
  adding,        \* adding[p]: where thread p is in addTransaction
  removing,      \* removing[r]: where thread r is in remove
  queue,         \* TxQueue: was anything offered, and which transactions
  packing,       \* packing[c]: where thread c is in packUnconfirmed
  appender,      \* where the appender is
  owed           \* ghost: put or returned, neither found invalid nor forgotten since

vars == <<chain, changes, transactions, portfolios, adding, removing, queue, packing, appender, owed>>

\* The transactions of a chain, and of the chain the node is on.
In(s) == UNION {s[i] : i \in 1 .. Len(s)}
Confirmed == In(chain)

\* TransactionDiffer, on top of the given confirmed transactions.
Valid(t, confirmed) == t \notin confirmed /\ Requires[t] \subseteq confirmed

NotAdding == [pc |-> "idle", tx |-> NoTx]
NotPacking == [pc |-> "idle", todo |-> {}, packed |-> {}, tx |-> NoTx]
EmptyQueue == [any |-> FALSE, txs |-> {}]
IdleAppender == [pc |-> "idle", todo |-> {}, old |-> {}]

-----------------------------------------------------------------------------
\* putIfNew and the checks of putNewTx: the transaction is unknown, the pool is
\* not full and there is a diff on the chain as it is now.  Nothing is written
\* yet, so the checks are one step.
PutIfNew(p, t) ==
  /\ adding[p].pc = "idle"
  /\ t \notin transactions
  /\ Cardinality(transactions) < MaxSize
  /\ Valid(t, Confirmed)
  /\ adding' = [adding EXCEPT ![p] = [pc |-> "portfolio", tx |-> t]]
  /\ UNCHANGED <<chain, changes, transactions, portfolios, removing, queue, packing, appender, owed>>

\* PessimisticPortfolios.add
AddPortfolio(p) ==
  /\ adding[p].pc = "portfolio"
  /\ portfolios' = portfolios \union {adding[p].tx}
  /\ adding' = [adding EXCEPT ![p] = [pc |-> "put", tx |-> adding[p].tx]]
  /\ UNCHANGED <<chain, changes, transactions, removing, queue, packing, appender, owed>>

\* A thread has found the transaction invalid and is about to remove it.
BeingEvicted(t) == \E c \in Packers : packing[c].pc = "evict" /\ packing[c].tx = t

\* transactions.put(tx.id(), tx); what a thread is about to evict goes at once.
PutTx(p) ==
  /\ adding[p].pc = "put"
  /\ transactions' = transactions \union {adding[p].tx}
  /\ owed' = IF BeingEvicted(adding[p].tx) THEN owed \ {adding[p].tx} ELSE owed \union {adding[p].tx}
  /\ adding' = [adding EXCEPT ![p] = NotAdding]
  /\ UNCHANGED <<chain, changes, portfolios, removing, queue, packing, appender>>

-----------------------------------------------------------------------------
\* remove: transactions.remove(txId); nothing more if it was not there.
Remove(r, t) ==
  /\ removing[r] = NoTx
  /\ transactions' = transactions \ {t}
  /\ removing' = IF t \in transactions THEN [removing EXCEPT ![r] = t] ELSE removing

\* Mutant: the portfolio of a removed transaction is kept.
RemovePortfolioNever(r) ==
  /\ removing[r] # NoTx
  /\ removing' = [removing EXCEPT ![r] = NoTx]
  /\ UNCHANGED <<chain, changes, transactions, portfolios, adding, queue, packing, appender, owed>>

\* PessimisticPortfolios.remove
RemovePortfolio(r) ==
  /\ removing[r] # NoTx
  /\ portfolios' = portfolios \ {removing[r]}
  /\ removing' = [removing EXCEPT ![r] = NoTx]
  /\ UNCHANGED <<chain, changes, transactions, adding, queue, packing, appender, owed>>

-----------------------------------------------------------------------------
\* TxQueue.consume: all that was offered is drained at once.
Drain ==
  /\ packing[Cleaner].pc = "idle" /\ queue.any
  /\ packing' = [packing EXCEPT ![Cleaner] =
       [pc |-> "return", todo |-> queue.txs, packed |-> {}, tx |-> NoTx]]
  /\ queue' = EmptyQueue
  /\ UNCHANGED <<chain, changes, transactions, portfolios, adding, removing, appender, owed>>

\* addTransaction(transaction, verify = false), one of them: a duplicate is no
\* error, and a transaction without a diff is put all the same.
ReturnTx(t) ==
  /\ packing[Cleaner].pc = "return" /\ adding[Cleaner].pc = "idle" /\ t \in packing[Cleaner].todo
  /\ packing' = [packing EXCEPT ![Cleaner] =
       [pc |-> "return", todo |-> packing[Cleaner].todo \ {t}, packed |-> {}, tx |-> NoTx]]
  /\ adding' = [adding EXCEPT ![Cleaner] =
       [pc |-> IF Requires[t] \subseteq Confirmed THEN "portfolio" ELSE "put", tx |-> t]]
  /\ UNCHANGED <<chain, changes, transactions, portfolios, removing, queue, appender, owed>>

\* packUnconfirmed takes the transactions the pool has now; the cleanup thread
\* calls it when all are returned, the miner at any time.
PackUnconfirmed(c) ==
  /\ IF c = Cleaner THEN packing[c].pc = "return" /\ packing[c].todo = {} /\ adding[c].pc = "idle"
     ELSE packing[c].pc = "idle"
  /\ packing' = [packing EXCEPT ![c] =
       [pc |-> "pack", todo |-> transactions, packed |-> {}, tx |-> NoTx]]
  /\ UNCHANGED <<chain, changes, transactions, portfolios, adding, removing, queue, appender, owed>>

\* Mutant: a transaction whose confirmation came in between is packed again.
MayPackDuplicate(c, t) == Requires[t] \subseteq Confirmed \union packing[c].packed

\* One transaction of the fold is checked on the chain as it is now with the diff
\* of the packed ones ...
MayPack(c, t) == Valid(t, Confirmed \union packing[c].packed)

\* ... which counts a packed one twice if it was confirmed meanwhile.
MayEvict(c, t) == ~MayPack(c, t) \/ packing[c].packed \intersect Confirmed # {}

MayLook(c, t) == packing[c].pc = "pack" /\ t \in packing[c].todo /\ removing[c] = NoTx

PackTx(c, t) ==
  /\ MayLook(c, t) /\ MayPack(c, t)
  /\ packing' = [packing EXCEPT ![c] = [pc |-> "pack", todo |-> packing[c].todo \ {t},
                                       packed |-> packing[c].packed \union {t}, tx |-> NoTx]]
  /\ UNCHANGED <<chain, changes, transactions, portfolios, adding, removing, queue, appender, owed>>

\* It is found invalid, or a duplicate of a confirmed one ...
RefuseTx(c, t) ==
  /\ MayLook(c, t) /\ MayEvict(c, t)
  /\ packing' = [packing EXCEPT ![c] = [pc |-> "evict", todo |-> packing[c].todo \ {t},
                                       packed |-> packing[c].packed, tx |-> t]]
  /\ owed' = IF t \in Confirmed THEN owed ELSE owed \ {t}
  /\ UNCHANGED <<chain, changes, transactions, portfolios, adding, removing, queue, appender>>

\* ... and removed, whatever has happened to it in between.
EvictTx(c) ==
  /\ packing[c].pc = "evict"
  /\ Remove(c, packing[c].tx)
  /\ packing' = [packing EXCEPT ![c] = [pc |-> "pack", todo |-> packing[c].todo,
                                       packed |-> packing[c].packed, tx |-> NoTx]]
  /\ UNCHANGED <<chain, changes, portfolios, adding, queue, appender, owed>>

\* The fold is over; the miner's may stop early, full or out of time.
EndPack(c) ==
  /\ packing[c].pc = "pack" /\ removing[c] = NoTx
  /\ c = Cleaner => packing[c].todo = {}
  /\ packing' = [packing EXCEPT ![c] = NotPacking]
  /\ UNCHANGED <<chain, changes, transactions, portfolios, adding, removing, queue, appender, owed>>

-----------------------------------------------------------------------------
\* A block or microblock can be appended: each transaction valid in its turn.
ValidBlock(ts, confirmed) ==
  /\ ts \intersect confirmed = {}
  /\ \A t \in ts : Requires[t] \subseteq confirmed \union (ts \ {t})

Front(s) == SubSeq(s, 1, Len(s) - 1)
Attach(s, ts) == IF ts = {} THEN s ELSE Append(s, ts)
Becomes(s) ==
  /\ chain' = s
  /\ changes' = IF s = chain THEN changes ELSE changes + 1
  /\ Len(s) <= MaxBlocks /\ changes' <= MaxChanges

\* processBlock on the last block and processMicroBlock: the appender has no
\* discarded transactions; only a block ends with addAndCleanup.
AppendBlock(ts, pc) ==
  /\ appender.pc = "idle" /\ ValidBlock(ts, Confirmed)
  /\ pc = "micro" => ts # {}
  /\ Becomes(Attach(chain, ts))
  /\ appender' = [pc |-> pc, todo |-> ts, old |-> {}]
  /\ UNCHANGED <<transactions, portfolios, adding, removing, queue, packing, owed>>

\* processBlock of an older version of the liquid block: it is ignored, but its
\* transactions, a part of what the liquid block holds, are removed all the same.
IgnoreBlock(ts) ==
  /\ appender.pc = "idle" /\ chain # <<>> /\ ts \subseteq chain[Len(chain)]
  /\ changes < MaxChanges /\ changes' = changes + 1
  /\ appender' = [pc |-> "micro", todo |-> ts, old |-> {}]
  /\ UNCHANGED <<chain, transactions, portfolios, adding, removing, queue, packing, owed>>

\* processBlock instead of the liquid block or of its last microblocks: what
\* they held is discarded, also what the new block holds again.
ReplaceBlock(ts) ==
  /\ appender.pc = "idle" /\ chain # <<>>
  /\ ValidBlock(ts, In(Front(chain)))
  /\ Becomes(Attach(Front(chain), ts))
  /\ appender' = [pc |-> "block", todo |-> ts, old |-> chain[Len(chain)]]
  /\ UNCHANGED <<transactions, portfolios, adding, removing, queue, packing, owed>>

\* ExtensionAppender and rollbackTask: removeAfter drops a block ...
RemoveAfter ==
  /\ appender.pc = "idle" /\ chain # <<>>
  /\ Becomes(Front(chain))
  /\ appender' = [pc |-> "dropped", todo |-> {}, old |-> chain[Len(chain)]]
  /\ UNCHANGED <<transactions, portfolios, adding, removing, queue, packing, owed>>

\* ... a block of the fork is appended, with its removeAll ...
AppendFork(ts) ==
  /\ appender.pc = "dropped" /\ ts # {} /\ ValidBlock(ts, Confirmed)
  /\ Becomes(Append(chain, ts))
  /\ appender' = [pc |-> "fork", todo |-> ts, old |-> appender.old]
  /\ UNCHANGED <<transactions, portfolios, adding, removing, queue, packing, owed>>

\* removeAll, one transaction of it
RemoveConfirmed(t) ==
  /\ t \in appender.todo
  /\ Remove(Appender, t)
  /\ appender' = [pc |-> appender.pc, todo |-> appender.todo \ {t}, old |-> appender.old]
  /\ UNCHANGED <<chain, changes, portfolios, adding, queue, packing, owed>>

AllRemoved == appender.todo = {} /\ removing[Appender] = NoTx

\* Mutant: the transactions of the dropped blocks are not offered.
DoneOfferingNothing ==
  /\ appender.pc # "idle" /\ AllRemoved
  /\ queue' = IF appender.pc = "micro" THEN queue ELSE [any |-> TRUE, txs |-> queue.txs]
  /\ appender' = IdleAppender
  /\ UNCHANGED <<chain, changes, transactions, portfolios, adding, removing, packing, owed>>

\* ... and all is applied: addAndCleanup of the discarded transactions.
Done ==
  /\ appender.pc # "idle" /\ AllRemoved
  /\ queue' = IF appender.pc = "micro" THEN queue ELSE [any |-> TRUE, txs |-> queue.txs \union appender.old]
  /\ appender' = IdleAppender
  /\ UNCHANGED <<chain, changes, transactions, portfolios, adding, removing, packing, owed>>

\* Or a block of the fork is refused: removeAfter again, and the dropped block
\* comes back by processBlock alone.  What the fork took from the pool is not
\* given back.
RefuseFork ==
  /\ appender.pc \in {"dropped", "fork"} /\ AllRemoved
  /\ LET fork == IF appender.pc = "fork" THEN chain[Len(chain)] ELSE {}
     IN /\ chain' = Append(IF appender.pc = "fork" THEN Front(chain) ELSE chain, appender.old)
        /\ owed' = owed \ fork
        /\ queue' = [any |-> queue.any \/ appender.pc = "fork", txs |-> queue.txs]
  /\ appender' = IdleAppender
  /\ UNCHANGED <<changes, transactions, portfolios, adding, removing, packing>>

\* rollbackTask with returnTxsToUtx = false
DiscardDropped ==
  /\ appender.pc = "dropped"
  /\ owed' = owed \ appender.old
  /\ appender' = IdleAppender
  /\ UNCHANGED <<chain, changes, transactions, portfolios, adding, removing, queue, packing>>

-----------------------------------------------------------------------------
Init ==
  /\ chain = InitialChain /\ changes = 0 /\ transactions = {} /\ portfolios = {}
  /\ adding = [p \in Adders |-> NotAdding]
  /\ removing = [r \in Removers |-> NoTx]
  /\ queue = EmptyQueue
  /\ packing = [c \in Packers |-> NotPacking]
  /\ appender = IdleAppender
  /\ owed = {}

AddStep(p) == AddPortfolio(p) \/ PutTx(p)
PackStep(c) == \/ PackUnconfirmed(c) \/ EvictTx(c) \/ EndPack(c)
               \/ \E t \in Txs : PackTx(c, t) \/ RefuseTx(c, t)
CleanerStep == Drain \/ PackStep(Cleaner) \/ \E t \in Txs : ReturnTx(t)
AppenderStep == Done \/ RefuseFork \/ DiscardDropped \/ \E t \in Txs : RemoveConfirmed(t)
NewBlock(ts) == \/ \E pc \in {"block", "micro"} : AppendBlock(ts, pc)
                \/ IgnoreBlock(ts) \/ ReplaceBlock(ts) \/ AppendFork(ts)

Next ==
  \/ \E p \in Putters, t \in Txs : PutIfNew(p, t)
  \/ \E p \in Adders : AddStep(p)
  \/ \E r \in Removers : RemovePortfolio(r)
  \/ Drain \/ (\E t \in Txs : ReturnTx(t)) \/ \E c \in Packers : PackStep(c)
  \/ AppenderStep \/ RemoveAfter \/ \E ts \in SUBSET Txs : NewBlock(ts)

Spec == Init /\ [][Next]_vars

\* Each thread goes on with what it has begun, and empty key blocks keep coming.
FairSpec ==
  /\ Spec
  /\ \A p \in Adders : WF_vars(AddStep(p))
  /\ \A r \in Removers : WF_vars(RemovePortfolio(r))
  /\ WF_vars(CleanerStep) /\ WF_vars(AppenderStep)
  /\ WF_vars(AppendBlock({}, "block"))

-----------------------------------------------------------------------------
TypeOK ==
  /\ chain \in Seq(SUBSET Txs)
  /\ transactions \subseteq Txs /\ portfolios \subseteq Txs /\ owed \subseteq Txs
  /\ adding \in [Adders -> {NotAdding} \union [pc : {"portfolio", "put"}, tx : Txs]]
  /\ removing \in [Removers -> Txs \union {NoTx}]
  /\ queue \in [any : BOOLEAN, txs : SUBSET Txs]
  /\ packing \in [Packers ->
       [pc : {"idle", "return", "pack"}, todo : SUBSET Txs, packed : SUBSET Txs, tx : {NoTx}]
         \union [pc : {"evict"}, todo : SUBSET Txs, packed : SUBSET Txs, tx : Txs]]
  /\ appender \in [pc : {"idle", "block", "micro", "dropped", "fork"}, todo : SUBSET Txs, old : SUBSET Txs]

\* A portfolio never outlives its transaction: it belongs to a transaction of
\* the pool, or to one that is just being put or removed.
NoGhostPortfolio ==
  \A t \in portfolios :
    \/ t \in transactions
    \/ \E p \in Adders : adding[p].tx = t /\ adding[p].pc = "put"
    \/ \E r \in Removers : removing[r] = t

\* A transaction the pool accepted is in the pool, on the chain, or on its way
\* back from a dropped block, until it is found invalid, a refused fork takes it
\* or a rollback discards it on demand, in whatever order the threads run.  The
\* one other loss is a put between the check that finds the transaction invalid
\* and the removal that follows it, which takes the new one: see PutTx.
NothingLost ==
  owed \subseteq
    transactions \union Confirmed \union appender.old \union queue.txs \union {adding[Cleaner].tx}
      \union (IF packing[Cleaner].pc = "return" THEN packing[Cleaner].todo ELSE {})

\* A transaction that is confirmed while a thread is putting it does not stay in
\* the pool: a later cleanup finds the duplicate.
ConfirmedLeave ==
  \A t \in Txs : (t \in transactions \intersect Confirmed) ~> (t \notin transactions \intersect Confirmed)
=============================================================================

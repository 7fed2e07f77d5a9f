----------------------- MODULE PessimisticPortfolios -----------------------
(***************************************************************************)
(* The portfolios of the UTX pool in detail: the object of that name in    *)
(* utx/UtxPoolImpl.scala, as putNewTx and remove call it.  UtxPool keeps   *)
(* of it which transactions have a portfolio; here the second map is there *)
(* too, from an account to the ids of its transactions, which add reads in *)
(* one step and puts in a later one.                                       *)
(*                                                                         *)
(* All transactions touch one account, whose ids are one set.              *)
(***************************************************************************)
EXTENDS Integers, FiniteSets

CONSTANTS Txs, NoTx,
          Putters,    \* threads of utx-pool-synchronizer, max-threads of them
          Removers    \* the appender, the miner and the cleanup thread

VARIABLES
  pool,                    \* UtxPoolImpl.transactions
  transactionPortfolios,   \* its keys
  transactions,            \* the ids of the account
  adding,                  \* adding[p]: where thread p is in addTransaction
  removing                 \* removing[r]: where thread r is in remove

vars == <<pool, transactionPortfolios, transactions, adding, removing>>

NotAdding == [pc |-> "idle", tx |-> NoTx, seen |-> {}]
NotRemoving == [pc |-> "idle", tx |-> NoTx]

\* putIfNew of a valid transaction, up to transactionPortfolios.put: the ids
\* follow only if there was no entry.
Add(p, t) ==
  /\ adding[p].pc = "idle" /\ t \notin pool
  /\ transactionPortfolios' = transactionPortfolios \union {t}
  /\ adding' = [adding EXCEPT ![p] =
       [pc |-> IF t \in transactionPortfolios THEN "put" ELSE "read", tx |-> t, seen |-> {}]]
  /\ UNCHANGED <<pool, transactions, removing>>

\* transactions.getOrDefault(address, Set.empty)
ReadIds(p) ==
  /\ adding[p].pc = "read"
  /\ adding' = [adding EXCEPT ![p].pc = "write", ![p].seen = transactions]
  /\ UNCHANGED <<pool, transactionPortfolios, transactions, removing>>

\* transactions.put(address, ... + txId)
WriteIds(p) ==
  /\ adding[p].pc = "write"
  /\ transactions' = adding[p].seen \union {adding[p].tx}
  /\ adding' = [adding EXCEPT ![p].pc = "put", ![p].seen = {}]
  /\ UNCHANGED <<pool, transactionPortfolios, removing>>

\* addTransaction: transactions.put(tx.id(), tx) of the pool
PutTx(p) ==
  /\ adding[p].pc = "put"
  /\ pool' = pool \union {adding[p].tx}
  /\ adding' = [adding EXCEPT ![p] = NotAdding]
  /\ UNCHANGED <<transactionPortfolios, transactions, removing>>

\* remove of a transaction of the pool
RemoveTx(r, t) ==
  /\ removing[r].pc = "idle" /\ t \in pool
  /\ pool' = pool \ {t}
  /\ removing' = [removing EXCEPT ![r] = [pc |-> "portfolio", tx |-> t]]
  /\ UNCHANGED <<transactionPortfolios, transactions, adding>>

RemovePortfolio(r) ==
  /\ removing[r].pc = "portfolio"
  /\ transactionPortfolios' = transactionPortfolios \ {removing[r].tx}
  /\ removing' = [removing EXCEPT ![r] =
       IF @.tx \in transactionPortfolios THEN [@ EXCEPT !.pc = "ids"] ELSE NotRemoving]
  /\ UNCHANGED <<pool, transactions, adding>>

\* transactions.computeIfPresent(addr, ... - txId)
RemoveIds(r) ==
  /\ removing[r].pc = "ids"
  /\ transactions' = transactions \ {removing[r].tx}
  /\ removing' = [removing EXCEPT ![r] = NotRemoving]
  /\ UNCHANGED <<pool, transactionPortfolios, adding>>

Init ==
  /\ pool = {} /\ transactionPortfolios = {} /\ transactions = {}
  /\ adding = [p \in Putters |-> NotAdding]
  /\ removing = [r \in Removers |-> NotRemoving]

Next ==
  \/ \E p \in Putters : ReadIds(p) \/ WriteIds(p) \/ PutTx(p) \/ \E t \in Txs : Add(p, t)
  \/ \E r \in Removers : RemovePortfolio(r) \/ RemoveIds(r) \/ \E t \in Txs : RemoveTx(r, t)

Spec == Init /\ [][Next]_vars

-----------------------------------------------------------------------------
\* getAggregated: the transactions whose portfolios are combined.
GetAggregated == transactions \intersect transactionPortfolios

\* "spendableBalance takes into account added txs": when no thread is in the
\* pool, the portfolio of the account has all of its transactions.
PortfoliosComplete ==
  /\ \A p \in Putters : adding[p].pc = "idle"
  /\ \A r \in Removers : removing[r].pc = "idle"
  => pool \subseteq GetAggregated
=============================================================================

--------------------------- MODULE UtxPoolProofs ---------------------------
(***************************************************************************)
(* Proofs about UtxPool, for any number of transactions, putting threads,  *)
(* miners and blocks.                                                      *)
(***************************************************************************)
EXTENDS UtxPool, SequenceTheorems, TLAPS

\* What a chain holds after a block is appended.
LEMMA InAppend ==
  ASSUME NEW s \in Seq(SUBSET Txs), NEW ts \in SUBSET Txs
  PROVE  /\ In(Append(s, ts)) = In(s) \union ts
         /\ Append(s, ts) \in Seq(SUBSET Txs)
<1>1. Append(s, ts) \in Seq(SUBSET Txs) /\ Len(Append(s, ts)) = Len(s) + 1
  OBVIOUS
<1>2. /\ \A i \in 1 .. Len(s) : Append(s, ts)[i] = s[i]
      /\ Append(s, ts)[Len(s) + 1] = ts
  OBVIOUS
<1>3. 1 .. Len(s) + 1 = (1 .. Len(s)) \union {Len(s) + 1} /\ Len(s) \in Nat
  OBVIOUS
<1>4. In(Append(s, ts)) \subseteq In(s) \union ts
  BY <1>1, <1>2, <1>3 DEF In
<1>5. In(s) \union ts \subseteq In(Append(s, ts))
  BY <1>1, <1>2, <1>3 DEF In
<1> QED BY <1>1, <1>4, <1>5

\* ... and after its last block is dropped.
LEMMA InFront ==
  ASSUME NEW s \in Seq(SUBSET Txs), s # <<>>
  PROVE  /\ In(s) = In(Front(s)) \union s[Len(s)]
         /\ Front(s) \in Seq(SUBSET Txs)
         /\ s[Len(s)] \in SUBSET Txs
<1>1. Len(s) \in Nat /\ Len(s) > 0
  OBVIOUS
<1>2. /\ Front(s) \in Seq(SUBSET Txs) /\ Len(Front(s)) = Len(s) - 1
      /\ \A i \in 1 .. Len(s) - 1 : Front(s)[i] = s[i]
  <2>1. \A i \in 1 .. Len(s) - 1 : s[i] \in SUBSET Txs
    BY <1>1
  <2>2. ASSUME NEW n \in Int, n = Len(s) - 1
        PROVE  /\ SubSeq(s, 1, n) \in Seq(SUBSET Txs)
               /\ Len(SubSeq(s, 1, n)) = IF 1 <= n THEN n - 1 + 1 ELSE 0
               /\ \A i \in 1 .. n - 1 + 1 : SubSeq(s, 1, n)[i] = s[1 + i - 1]
    <3>1. \A i \in 1 .. n : s[i] \in SUBSET Txs
      BY <2>1, <2>2
    <3> QED BY <3>1, SubSeqProperties, 1 \in Int
  <2>3. /\ Front(s) \in Seq(SUBSET Txs)
        /\ Len(Front(s)) = IF 1 <= Len(s) - 1 THEN Len(s) - 1 - 1 + 1 ELSE 0
        /\ \A i \in 1 .. Len(s) - 1 - 1 + 1 : Front(s)[i] = s[1 + i - 1]
    <3>1. Len(s) - 1 \in Int
      BY <1>1
    <3> QED BY <3>1, <2>2, Zenon DEF Front
  <2>4. \A i \in 1 .. Len(s) - 1 : i \in 1 .. Len(s) - 1 - 1 + 1 /\ 1 + i - 1 = i
    BY <1>1
  <2>5. Len(Front(s)) = Len(s) - 1
    <3>1. Len(Front(s)) = IF 1 <= Len(s) - 1 THEN Len(s) - 1 - 1 + 1 ELSE 0
      BY <2>3
    <3>2. \A n \in Nat : n > 0 => (IF 1 <= n - 1 THEN n - 1 - 1 + 1 ELSE 0) = n - 1
      OBVIOUS
    <3> QED BY <1>1, <3>1, <3>2
  <2>6. \A i \in 1 .. Len(s) - 1 : Front(s)[i] = s[i]
    BY <2>3, <2>4, Zenon
  <2> QED BY <2>3, <2>5, <2>6
<1>3. 1 .. Len(s) = (1 .. Len(s) - 1) \union {Len(s)}
  BY <1>1
<1>4. s[Len(s)] \in SUBSET Txs
  BY <1>1
<1>5. In(s) \subseteq In(Front(s)) \union s[Len(s)]
  BY <1>1, <1>2, <1>3 DEF In
<1>6. In(Front(s)) \union s[Len(s)] \subseteq In(s)
  BY <1>1, <1>2, <1>3 DEF In
<1> QED BY <1>2, <1>4, <1>5, <1>6

LEMMA InAttach ==
  ASSUME NEW s \in Seq(SUBSET Txs), NEW ts \in SUBSET Txs
  PROVE  In(Attach(s, ts)) = In(s) \union ts /\ Attach(s, ts) \in Seq(SUBSET Txs)
BY InAppend DEF Attach

-----------------------------------------------------------------------------
\* The types of the variables of the pool.
THEOREM TypeCorrect == Spec => []TypeOK
<1>1. Init => TypeOK
  BY UtxAssumption DEF Init, TypeOK, NotAdding, NotPacking, EmptyQueue, IdleAppender
<1>2. TypeOK /\ [Next]_vars => TypeOK'
  <2> SUFFICES ASSUME TypeOK, [Next]_vars PROVE TypeOK'
    OBVIOUS
  <2> USE UtxAssumption DEF TypeOK
  <2>1. ASSUME NEW p \in Putters, NEW t \in Txs, PutIfNew(p, t) PROVE TypeOK'
    BY <2>1 DEF PutIfNew, Adders
  <2>2. ASSUME NEW p \in Adders, AddPortfolio(p) PROVE TypeOK'
    <3>1. adding[p] \in [pc : {"portfolio", "put"}, tx : Txs]
      BY <2>2 DEF AddPortfolio, NotAdding
    <3> QED BY <2>2, <3>1 DEF AddPortfolio
  <2>3. ASSUME NEW p \in Adders, PutTx(p) PROVE TypeOK'
    <3>1. adding[p] \in [pc : {"portfolio", "put"}, tx : Txs]
      BY <2>3 DEF PutTx, NotAdding
    <3> QED BY <2>3, <3>1 DEF PutTx
  <2>4. ASSUME NEW r \in Removers, RemovePortfolio(r) PROVE TypeOK'
    BY <2>4 DEF RemovePortfolio
  <2>5. CASE Drain
    BY <2>5 DEF Drain, EmptyQueue, Packers
  <2>6. ASSUME NEW t \in Txs, ReturnTx(t) PROVE TypeOK'
    BY <2>6 DEF ReturnTx, Packers, Adders
  <2>7. ASSUME NEW c \in Packers, PackUnconfirmed(c) PROVE TypeOK'
    BY <2>7 DEF PackUnconfirmed
  <2>8. ASSUME NEW c \in Packers, EndPack(c) PROVE TypeOK'
    BY <2>8 DEF EndPack, NotPacking
  <2>9. ASSUME NEW c \in Packers, NEW t \in Txs, PackTx(c, t) PROVE TypeOK'
    BY <2>9 DEF PackTx
  <2>17. ASSUME NEW c \in Packers, NEW t \in Txs, RefuseTx(c, t) PROVE TypeOK'
    BY <2>17 DEF RefuseTx
  <2>18. ASSUME NEW c \in Packers, EvictTx(c) PROVE TypeOK'
    <3>1. packing[c].tx \in Txs /\ packing[c].todo \in SUBSET Txs /\ packing[c].packed \in SUBSET Txs
      BY <2>18 DEF EvictTx
    <3>2. packing' \in [Packers ->
            [pc : {"idle", "return", "pack"}, todo : SUBSET Txs, packed : SUBSET Txs, tx : {NoTx}]
              \union [pc : {"evict"}, todo : SUBSET Txs, packed : SUBSET Txs, tx : Txs]]
      BY <2>18, <3>1 DEF EvictTx
    <3>3. transactions' \subseteq Txs /\ removing' \in [Removers -> Txs \union {NoTx}]
      BY <2>18, <3>1 DEF EvictTx, Remove, Removers
    <3> QED BY <2>18, <3>2, <3>3 DEF EvictTx
  <2>10. CASE Done
    BY <2>10 DEF Done, IdleAppender
  <2>11. CASE RefuseFork
    <3>1. Front(chain) \in Seq(SUBSET Txs)
      <4>1. CASE chain # <<>>
        BY <4>1, InFront
      <4>2. CASE chain = <<>>
        BY <4>2, SubSeqEmpty DEF Front
      <4> QED BY <4>1, <4>2
    <3>2. chain' \in Seq(SUBSET Txs)
      BY <2>11, <3>1, InAppend DEF RefuseFork
    <3>3. owed' \subseteq Txs
      BY <2>11 DEF RefuseFork
    <3>4. queue' \in [any : BOOLEAN, txs : SUBSET Txs]
      BY <2>11 DEF RefuseFork
    <3>5. appender' = IdleAppender
      BY <2>11 DEF RefuseFork
    <3> QED BY <2>11, <3>2, <3>3, <3>4, <3>5 DEF RefuseFork, IdleAppender
  <2>12. CASE DiscardDropped
    BY <2>12 DEF DiscardDropped, IdleAppender
  <2>13. ASSUME NEW t \in Txs, RemoveConfirmed(t) PROVE TypeOK'
    BY <2>13 DEF RemoveConfirmed, Remove, Removers
  <2>14. CASE RemoveAfter
    BY <2>14, InFront DEF RemoveAfter, Becomes
  <2>15. ASSUME NEW ts \in SUBSET Txs, NewBlock(ts) PROVE TypeOK'
    <3>1. ASSUME NEW pc \in {"block", "micro"}, AppendBlock(ts, pc) PROVE TypeOK'
      BY <3>1, InAttach DEF AppendBlock, Becomes
    <3>2. CASE IgnoreBlock(ts)
      BY <3>2 DEF IgnoreBlock
    <3>3. CASE ReplaceBlock(ts)
      BY <3>3, InAttach, InFront DEF ReplaceBlock, Becomes
    <3>4. CASE AppendFork(ts)
      BY <3>4, InAppend DEF AppendFork, Becomes
    <3> QED BY <2>15, <3>1, <3>2, <3>3, <3>4 DEF NewBlock
  <2>16. CASE UNCHANGED vars
    BY <2>16 DEF vars
  <2> QED
    BY <2>1, <2>2, <2>3, <2>4, <2>5, <2>6, <2>7, <2>8, <2>9, <2>10, <2>11, <2>12, <2>13, <2>14, <2>15, <2>16,
       <2>17, <2>18
    DEF Next, AddStep, PackStep, AppenderStep
<1> QED BY <1>1, <1>2, PTL DEF Spec

-----------------------------------------------------------------------------
\* A portfolio never outlives its transaction, whatever the interleaving of the
\* threads that put and remove: the portfolio is added before the transaction
\* and removed after it.
THEOREM NoGhosts == Spec => []NoGhostPortfolio
<1>1. Init => NoGhostPortfolio
  BY DEF Init, NoGhostPortfolio
<1>2. TypeOK /\ NoGhostPortfolio /\ [Next]_vars => NoGhostPortfolio'
  <2> SUFFICES ASSUME TypeOK, NoGhostPortfolio, [Next]_vars, NEW t \in portfolios'
               PROVE  \/ t \in transactions'
                      \/ \E p \in Adders : adding'[p].tx = t /\ adding'[p].pc = "put"
                      \/ \E r \in Removers : removing'[r] = t
    BY DEF NoGhostPortfolio
  <2> DEFINE Goal == \/ t \in transactions'
                     \/ \E p \in Adders : adding'[p].tx = t /\ adding'[p].pc = "put"
                     \/ \E r \in Removers : removing'[r] = t
  <2>0. t \in portfolios => \/ t \in transactions
                            \/ \E p \in Adders : adding[p].tx = t /\ adding[p].pc = "put"
                            \/ \E r \in Removers : removing[r] = t
    BY DEF NoGhostPortfolio
  <2>a. /\ adding \in [Adders -> {NotAdding} \union [pc : {"portfolio", "put"}, tx : Txs]]
        /\ removing \in [Removers -> Txs \union {NoTx}]
        /\ portfolios \subseteq Txs /\ NoTx \notin Txs
    BY UtxAssumption DEF TypeOK
  <2>1. ASSUME NEW p \in Putters, NEW x \in Txs, PutIfNew(p, x) PROVE Goal
    BY <2>0, <2>a, <2>1 DEF PutIfNew, Adders
  <2>2. ASSUME NEW p \in Adders, AddPortfolio(p) PROVE Goal
    BY <2>0, <2>a, <2>2 DEF AddPortfolio
  <2>3. ASSUME NEW p \in Adders, PutTx(p) PROVE Goal
    BY <2>0, <2>a, <2>3 DEF PutTx
  <2>4. ASSUME NEW r \in Removers, RemovePortfolio(r) PROVE Goal
    BY <2>0, <2>a, <2>4 DEF RemovePortfolio
  <2>5. CASE Drain
    BY <2>0, <2>5 DEF Drain
  <2>6. ASSUME NEW x \in Txs, ReturnTx(x) PROVE Goal
    BY <2>0, <2>a, <2>6 DEF ReturnTx, Adders
  <2>7. ASSUME NEW c \in Packers, PackUnconfirmed(c) PROVE Goal
    BY <2>0, <2>7 DEF PackUnconfirmed
  <2>8. ASSUME NEW c \in Packers, EndPack(c) PROVE Goal
    BY <2>0, <2>8 DEF EndPack
  <2>9. ASSUME NEW r \in Removers, NEW x \in Txs, Remove(r, x), UNCHANGED <<portfolios, adding>> PROVE Goal
    BY <2>0, <2>a, <2>9 DEF Remove
  <2>10. ASSUME NEW c \in Packers, NEW x \in Txs, PackTx(c, x) \/ RefuseTx(c, x) PROVE Goal
    BY <2>0, <2>10 DEF PackTx, RefuseTx
  <2>15. ASSUME NEW c \in Packers, EvictTx(c) PROVE Goal
    <3>1. packing[c].tx \in Txs
      BY <2>15 DEF EvictTx, TypeOK
    <3> QED BY <2>9, <2>15, <3>1 DEF EvictTx, Removers
  <2>11. ASSUME NEW x \in Txs, RemoveConfirmed(x) PROVE Goal
    BY <2>9, <2>11 DEF RemoveConfirmed, Removers
  <2>12. CASE UNCHANGED <<transactions, portfolios, adding, removing>>
    BY <2>0, <2>12
  <2>13. ASSUME NEW ts \in SUBSET Txs, NewBlock(ts) PROVE UNCHANGED <<transactions, portfolios, adding, removing>>
    BY <2>13 DEF NewBlock, AppendBlock, IgnoreBlock, ReplaceBlock, AppendFork
  <2>14. Done \/ RefuseFork \/ DiscardDropped \/ RemoveAfter \/ UNCHANGED vars
         => UNCHANGED <<transactions, portfolios, adding, removing>>
    BY DEF Done, RefuseFork, DiscardDropped, RemoveAfter, vars
  <2> QED
    BY <2>1, <2>2, <2>3, <2>4, <2>5, <2>6, <2>7, <2>8, <2>10, <2>11, <2>12, <2>13, <2>14, <2>15
    DEF Next, AddStep, PackStep, AppenderStep
<1> QED BY <1>1, <1>2, TypeCorrect, PTL DEF Spec

-----------------------------------------------------------------------------
\* What the appender is removing from the pool is on the chain, and it holds on
\* to dropped transactions only while it replaces a block.
AppenderInv ==
  /\ appender.todo \subseteq Confirmed
  /\ appender.pc \in {"idle", "micro"} => appender.old = {}
  /\ appender.pc = "fork" => chain # <<>>

\* The chain changes in the hands of the appender alone.
LEMMA AppenderHolds == Spec => []AppenderInv
<1>1. Init => AppenderInv
  BY DEF Init, AppenderInv, IdleAppender
<1>2. TypeOK /\ AppenderInv /\ [Next]_vars => AppenderInv'
  <2> SUFFICES ASSUME TypeOK, AppenderInv, [Next]_vars PROVE AppenderInv'
    OBVIOUS
  <2>1. CASE UNCHANGED <<chain, appender>>
    BY <2>1 DEF AppenderInv, Confirmed, In
  <2>2. CASE Done \/ DiscardDropped \/ RefuseFork
    BY <2>2 DEF Done, DiscardDropped, RefuseFork, AppenderInv, IdleAppender
  <2>3. ASSUME NEW t \in Txs, RemoveConfirmed(t) PROVE AppenderInv'
    BY <2>3 DEF RemoveConfirmed, AppenderInv, Confirmed, In, TypeOK
  <2>4. CASE RemoveAfter
    BY <2>4 DEF RemoveAfter, AppenderInv
  <2>5. ASSUME NEW ts \in SUBSET Txs, NewBlock(ts) PROVE AppenderInv'
    <3>1. ASSUME NEW pc \in {"block", "micro"}, AppendBlock(ts, pc) PROVE AppenderInv'
      BY <3>1, InAttach DEF AppendBlock, Becomes, AppenderInv, Confirmed, TypeOK
    <3>2. CASE IgnoreBlock(ts)
      BY <3>2, InFront DEF IgnoreBlock, AppenderInv, Confirmed, TypeOK
    <3>3. CASE ReplaceBlock(ts)
      <4>1. Front(chain) \in Seq(SUBSET Txs)
        BY <3>3, InFront DEF ReplaceBlock, TypeOK
      <4>2. In(Attach(Front(chain), ts)) = In(Front(chain)) \union ts
        BY <4>1, InAttach
      <4>3. chain' = Attach(Front(chain), ts) /\ appender'.pc = "block" /\ appender'.todo = ts
        BY <3>3 DEF ReplaceBlock, Becomes
      <4> QED BY <4>2, <4>3 DEF AppenderInv, Confirmed
    <3>4. CASE AppendFork(ts)
      <4> chain \in Seq(SUBSET Txs)
        BY DEF TypeOK
      <4>1. Append(chain, ts) # <<>>
        OBVIOUS
      <4>2. In(Append(chain, ts)) = In(chain) \union ts
        BY <2>5, InAppend
      <4>3. chain' = Append(chain, ts) /\ appender'.pc = "fork" /\ appender'.todo = ts
        BY <3>4 DEF AppendFork, Becomes
      <4> QED BY <4>1, <4>2, <4>3 DEF AppenderInv, Confirmed
    <3> QED BY <2>5, <3>1, <3>2, <3>3, <3>4 DEF NewBlock
  <2>6. ASSUME NEW p \in Putters, NEW t \in Txs, PutIfNew(p, t) PROVE UNCHANGED <<chain, appender>>
    BY <2>6 DEF PutIfNew
  <2>7. ASSUME NEW p \in Adders, AddStep(p) PROVE UNCHANGED <<chain, appender>>
    BY <2>7 DEF AddStep, AddPortfolio, PutTx
  <2>8. ASSUME NEW r \in Removers, RemovePortfolio(r) PROVE UNCHANGED <<chain, appender>>
    BY <2>8 DEF RemovePortfolio
  <2>9. ASSUME NEW t \in Txs, ReturnTx(t) PROVE UNCHANGED <<chain, appender>>
    BY <2>9 DEF ReturnTx
  <2>10. ASSUME NEW c \in Packers, PackStep(c) PROVE UNCHANGED <<chain, appender>>
    BY <2>10 DEF PackStep, PackUnconfirmed, EndPack, PackTx, RefuseTx, EvictTx
  <2>11. Drain \/ UNCHANGED vars => UNCHANGED <<chain, appender>>
    BY DEF Drain, vars
  <2> QED
    BY <2>1, <2>2, <2>3, <2>4, <2>5, <2>6, <2>7, <2>8, <2>9, <2>10, <2>11 DEF Next, AppenderStep
<1> QED BY <1>1, <1>2, TypeCorrect, PTL DEF Spec

\* Where a transaction is that is not in the pool and comes back to it, or need
\* not; and the transactions that a thread has found invalid and not yet removed.
Returning == IF packing[Cleaner].pc = "return" THEN packing[Cleaner].todo ELSE {}
Away == Confirmed \union appender.old \union queue.txs \union {adding[Cleaner].tx} \union Returning
Evicting == {packing[c].tx : c \in {x \in Packers : packing[x].pc = "evict"}}

\* An accepted transaction is in the pool or away, and away if the next removal
\* of a thread takes it out of the pool.
PoolInv == owed \subseteq transactions \union Away /\ owed \intersect Evicting \subseteq Away

\* A step that takes nothing from the pool and starts no eviction.
LEMMA PoolKept ==
  ASSUME PoolInv, owed' \subseteq owed, transactions \subseteq transactions',
         \A x \in owed' : x \in Away => x \in Away', Evicting' \subseteq Evicting
  PROVE  PoolInv'
BY DEF PoolInv

LEMMA EvictingKept ==
  ASSUME \A x \in Packers : packing'[x].pc = "evict" =>
                              packing[x].pc = "evict" /\ packing'[x].tx = packing[x].tx
  PROVE  Evicting' \subseteq Evicting
BY DEF Evicting

\* The threads that put, the cleanup thread and the miners.
LEMMA PoolThreads ==
  ASSUME TypeOK, AppenderInv, PoolInv
  PROVE  /\ \A p \in Putters, t \in Txs : PutIfNew(p, t) => PoolInv'
         /\ \A p \in Adders : AddStep(p) => PoolInv'
         /\ \A r \in Removers : RemovePortfolio(r) => PoolInv'
         /\ Drain => PoolInv'
         /\ \A t \in Txs : ReturnTx(t) => PoolInv'
         /\ \A c \in Packers : PackStep(c) => PoolInv'
<1>a. /\ Cleaner \in Adders /\ Cleaner \in Packers
      /\ \A p \in Putters : p # Cleaner
      /\ NoTx \notin Txs
  BY UtxAssumption DEF Adders, Packers
<1>b. /\ adding \in [Adders -> {NotAdding} \union [pc : {"portfolio", "put"}, tx : Txs]]
      /\ packing \in [Packers ->
           [pc : {"idle", "return", "pack"}, todo : SUBSET Txs, packed : SUBSET Txs, tx : {NoTx}]
             \union [pc : {"evict"}, todo : SUBSET Txs, packed : SUBSET Txs, tx : Txs]]
      /\ owed \subseteq Txs
  BY DEF TypeOK
<1>c. UNCHANGED chain => Confirmed' = Confirmed
  BY DEF Confirmed, In
<1>d. UNCHANGED packing => Evicting' = Evicting /\ Returning' = Returning
  BY DEF Evicting, Returning
<1>e. \A t : BeingEvicted(t) <=> t \in Evicting
  BY DEF BeingEvicted, Evicting
<1>1. ASSUME NEW p \in Putters, NEW t \in Txs, PutIfNew(p, t) PROVE PoolInv'
  <2>1. adding'[Cleaner] = adding[Cleaner]
    BY <1>a, <1>b, <1>1 DEF PutIfNew
  <2> QED BY <1>c, <1>d, <1>1, <2>1, PoolKept DEF PutIfNew, Away
<1>2. ASSUME NEW p \in Adders, AddPortfolio(p) PROVE PoolInv'
  <2>1. adding'[Cleaner].tx = adding[Cleaner].tx
    BY <1>a, <1>b, <1>2 DEF AddPortfolio
  <2> QED BY <1>c, <1>d, <1>2, <2>1, PoolKept DEF AddPortfolio, Away
<1>3. ASSUME NEW p \in Adders, PutTx(p) PROVE PoolInv'
  <2>1. PICK t : t = adding[p].tx
    OBVIOUS
  <2>2. /\ transactions' = transactions \union {t}
        /\ owed' = IF t \in Evicting THEN owed \ {t} ELSE owed \union {t}
        /\ Evicting' = Evicting
    BY <1>d, <1>e, <1>3, <2>1 DEF PutTx
  <2>3. \A x \in Away : x # t => x \in Away'
    <3>1. adding'[Cleaner].tx = adding[Cleaner].tx \/ adding[Cleaner].tx = t
      BY <1>a, <1>b, <1>3, <2>1 DEF PutTx
    <3> QED BY <1>c, <1>d, <1>3, <3>1 DEF PutTx, Away
  <2>4. owed' \subseteq transactions' \union Away'
    BY <2>2, <2>3 DEF PoolInv
  <2>5. owed' \intersect Evicting' \subseteq Away'
    BY <2>2, <2>3 DEF PoolInv
  <2> QED BY <2>4, <2>5 DEF PoolInv
<1>4. ASSUME NEW r \in Removers, RemovePortfolio(r) PROVE PoolInv'
  BY <1>c, <1>d, <1>4, PoolKept DEF RemovePortfolio, Away
<1>5. ASSUME Drain PROVE PoolInv'
  <2>1. Evicting' \subseteq Evicting
    BY <1>a, <1>b, <1>5, EvictingKept DEF Drain
  <2>2. queue.txs \subseteq Returning' /\ Returning = {}
    BY <1>a, <1>b, <1>5 DEF Drain, Returning
  <2> QED BY <1>c, <1>5, <2>1, <2>2, PoolKept DEF Drain, Away
<1>6. ASSUME NEW t \in Txs, ReturnTx(t) PROVE PoolInv'
  <2>1. Evicting' \subseteq Evicting
    BY <1>a, <1>b, <1>6, EvictingKept DEF ReturnTx
  <2>2. adding[Cleaner].tx = NoTx /\ adding'[Cleaner].tx = t
    BY <1>a, <1>b, <1>6 DEF ReturnTx, NotAdding
  <2>3. Returning \subseteq Returning' \union {t}
    BY <1>a, <1>b, <1>6 DEF ReturnTx, Returning
  <2>4. \A x \in owed' : x \in Away => x \in Away'
    BY <1>a, <1>b, <1>c, <1>6, <2>2, <2>3 DEF ReturnTx, Away
  <2> QED BY <1>6, <2>1, <2>4, PoolKept DEF ReturnTx
<1>7. ASSUME NEW c \in Packers, PackUnconfirmed(c) \/ EndPack(c) PROVE PoolInv'
  <2>1. Evicting' \subseteq Evicting
    BY <1>b, <1>7, EvictingKept DEF PackUnconfirmed, EndPack, NotPacking
  <2>2. Returning \subseteq Returning'
    BY <1>a, <1>b, <1>7 DEF PackUnconfirmed, EndPack, NotPacking, Returning
  <2> QED BY <1>c, <1>7, <2>1, <2>2, PoolKept DEF PackUnconfirmed, EndPack, Away
<1>8. ASSUME NEW c \in Packers, NEW t \in Txs, PackTx(c, t) PROVE PoolInv'
  <2>1. Evicting' \subseteq Evicting
    BY <1>b, <1>8, EvictingKept DEF PackTx, MayLook
  <2>2. Returning \subseteq Returning'
    BY <1>a, <1>b, <1>8 DEF PackTx, MayLook, Returning
  <2> QED BY <1>c, <1>8, <2>1, <2>2, PoolKept DEF PackTx, Away
<1>9. ASSUME NEW c \in Packers, NEW t \in Txs, RefuseTx(c, t) PROVE PoolInv'
  <2>1. Evicting' \subseteq Evicting \union {t}
    <3>1. \A x \in Packers : packing'[x].pc = "evict" =>
                               \/ packing[x].pc = "evict" /\ packing'[x].tx = packing[x].tx
                               \/ packing'[x].tx = t
      BY <1>b, <1>9 DEF RefuseTx
    <3> QED BY <3>1 DEF Evicting
  <2>2. Returning \subseteq Returning'
    BY <1>a, <1>b, <1>9 DEF RefuseTx, MayLook, Returning
  <2>3. Away \subseteq Away'
    BY <1>c, <1>9, <2>2 DEF RefuseTx, Away
  <2>4. transactions' = transactions /\ owed' = IF t \in Confirmed THEN owed ELSE owed \ {t}
    BY <1>9 DEF RefuseTx
  <2>5. t \in Confirmed => t \in Away
    BY DEF Away
  <2> QED BY <2>1, <2>3, <2>4, <2>5 DEF PoolInv
<1>10. ASSUME NEW c \in Packers, EvictTx(c) PROVE PoolInv'
  <2>1. Evicting' \subseteq Evicting
    BY <1>b, <1>10, EvictingKept DEF EvictTx
  <2>2. Returning \subseteq Returning'
    BY <1>a, <1>b, <1>10 DEF EvictTx, Returning
  <2>3. Away \subseteq Away'
    BY <1>c, <1>10, <2>2 DEF EvictTx, Away
  <2>4. packing[c].tx \in Evicting /\ transactions' = transactions \ {packing[c].tx} /\ owed' = owed
    BY <1>10 DEF EvictTx, Remove, Evicting
  <2> QED BY <2>1, <2>3, <2>4 DEF PoolInv
<1> QED BY <1>1, <1>2, <1>3, <1>4, <1>5, <1>6, <1>7, <1>8, <1>9, <1>10 DEF AddStep, PackStep

\* The appender.
LEMMA PoolAppender ==
  ASSUME TypeOK, AppenderInv, PoolInv
  PROVE  /\ AppenderStep \/ RemoveAfter => PoolInv'
         /\ \A ts \in SUBSET Txs : NewBlock(ts) => PoolInv'
<1>b. chain \in Seq(SUBSET Txs)
  BY DEF TypeOK
<1>c. UNCHANGED chain => Confirmed' = Confirmed
  BY DEF Confirmed, In
<1>d. UNCHANGED packing => Evicting' = Evicting /\ Returning' = Returning
  BY DEF Evicting, Returning
<1>1. ASSUME NEW t \in Txs, RemoveConfirmed(t) PROVE PoolInv'
  <2>1. Evicting' = Evicting /\ Away' = Away
    BY <1>c, <1>d, <1>1 DEF RemoveConfirmed, Away
  <2>2. t \in Away /\ transactions' = transactions \ {t} /\ owed' = owed
    BY <1>1 DEF RemoveConfirmed, Remove, AppenderInv, Away
  <2> QED BY <2>1, <2>2 DEF PoolInv
<1>2. CASE Done
  BY <1>c, <1>d, <1>2, PoolKept DEF Done, AppenderInv, IdleAppender, Away
<1>3. CASE DiscardDropped
  BY <1>c, <1>d, <1>3, PoolKept DEF DiscardDropped, IdleAppender, Away
<1>4. CASE RefuseFork
  <2>1. \A x \in owed' : x \in Confirmed \union appender.old => x \in Confirmed'
    <3>1. CASE appender.pc = "fork"
      <4>1. Confirmed = In(Front(chain)) \union chain[Len(chain)] /\ Front(chain) \in Seq(SUBSET Txs)
        BY <1>b, <3>1, InFront DEF AppenderInv, Confirmed
      <4>2. Confirmed' = In(Front(chain)) \union appender.old
        BY <1>4, <3>1, <4>1, InAppend DEF RefuseFork, Confirmed, TypeOK
      <4> QED BY <1>4, <3>1, <4>1, <4>2 DEF RefuseFork
    <3>2. CASE appender.pc # "fork"
      <4>1. Confirmed' = Confirmed \union appender.old
        BY <1>b, <1>4, <3>2, InAppend DEF RefuseFork, Confirmed, TypeOK
      <4> QED BY <4>1
    <3> QED BY <3>1, <3>2
  <2> QED BY <1>d, <1>4, <2>1, PoolKept DEF RefuseFork, Away
<1>5. CASE RemoveAfter
  <2>1. Confirmed = Confirmed' \union appender'.old
    BY <1>b, <1>5, InFront DEF RemoveAfter, Becomes, Confirmed
  <2> QED BY <1>d, <1>5, <2>1, PoolKept DEF RemoveAfter, AppenderInv, Away
<1>6. ASSUME NEW ts \in SUBSET Txs, NewBlock(ts) PROVE PoolInv'
  <2>1. ASSUME NEW pc \in {"block", "micro"}, AppendBlock(ts, pc) PROVE PoolInv'
    <3>1. Confirmed' = Confirmed \union ts
      BY <1>b, <2>1, InAttach DEF AppendBlock, Becomes, Confirmed
    <3> QED BY <1>d, <2>1, <3>1, PoolKept DEF AppendBlock, AppenderInv, Away
  <2>2. CASE IgnoreBlock(ts)
    BY <1>c, <1>d, <2>2, PoolKept DEF IgnoreBlock, AppenderInv, Away
  <2>3. CASE ReplaceBlock(ts)
    <3>1. Confirmed = In(Front(chain)) \union appender'.old /\ Front(chain) \in Seq(SUBSET Txs)
      BY <1>b, <2>3, InFront DEF ReplaceBlock, Confirmed
    <3>2. Confirmed' = In(Front(chain)) \union ts
      BY <2>3, <3>1, InAttach DEF ReplaceBlock, Becomes, Confirmed
    <3> QED BY <1>d, <2>3, <3>1, <3>2, PoolKept DEF ReplaceBlock, AppenderInv, Away
  <2>4. CASE AppendFork(ts)
    <3>1. Confirmed' = Confirmed \union ts
      BY <1>b, <2>4, InAppend DEF AppendFork, Becomes, Confirmed
    <3> QED BY <1>d, <2>4, <3>1, PoolKept DEF AppendFork, Away
  <2> QED BY <1>6, <2>1, <2>2, <2>3, <2>4 DEF NewBlock
<1> QED BY <1>1, <1>2, <1>3, <1>4, <1>5, <1>6 DEF AppenderStep

\* A transaction the pool accepted is lost by none of the races between the
\* appender, the cleanup thread, the miners and the threads that put, but for
\* the put that a pending eviction takes back: it is in the pool, on the chain or
\* on its way back.
THEOREM NoneLost == Spec => []NothingLost
<1>1. Init => PoolInv
  BY DEF Init, PoolInv
<1>2. TypeOK /\ AppenderInv /\ PoolInv /\ [Next]_vars => PoolInv'
  <2> SUFFICES ASSUME TypeOK, AppenderInv, PoolInv, [Next]_vars PROVE PoolInv'
    OBVIOUS
  <2>1. CASE UNCHANGED vars
    <3>1. Evicting' = Evicting /\ Away' = Away /\ owed' = owed /\ transactions' = transactions
      BY <2>1 DEF vars, Evicting, Away, Returning, Confirmed, In
    <3> QED BY <3>1 DEF PoolInv
  <2>2. CASE Next
    BY <2>2, PoolThreads, PoolAppender, Zenon DEF Next
  <2> QED BY <2>1, <2>2
<1>3. PoolInv => NothingLost
  BY DEF PoolInv, NothingLost, Away, Returning
<1> QED BY <1>1, <1>2, <1>3, TypeCorrect, AppenderHolds, PTL DEF Spec
=============================================================================

----------------------- MODULE BlockchainUpdaterProofs -----------------------
(***************************************************************************)
(* Machine-checked proofs about BlockchainUpdater, and about the two       *)
(* modules that drive it, BlockchainUpdates and ExtensionAppender, for     *)
(* every universe of blocks, every capacity and every rollback depth.      *)
(***************************************************************************)
EXTENDS BlockchainUpdates, ExtensionAppender, Induction, TLAPS

-----------------------------------------------------------------------------
(* The last element of a non-empty sequence. *)
LEMMA LastElement ==
  ASSUME NEW S, NEW s \in Seq(S), s # <<>>
  PROVE  Len(s) \in Nat \ {0} /\ s[Len(s)] \in S
<1>1. Len(s) \in Nat \ {0}
  BY EmptySeq
<1> QED BY <1>1, ElementOfSeq

(* A sequence without its last element. *)
LEMMA WithoutLast ==
  ASSUME NEW S, NEW s \in Seq(S), Len(s) > 0
  PROVE  /\ SubSeq(s, 1, Len(s) - 1) \in Seq(S)
         /\ Len(SubSeq(s, 1, Len(s) - 1)) = Len(s) - 1
         /\ \A i \in 1 .. Len(s) - 1 : SubSeq(s, 1, Len(s) - 1)[i] = s[i]
<1> DEFINE k == Len(s) - 1
<1>1. k \in Nat
  BY LenProperties
<1>2. \A i \in 1 .. k : s[i] \in S
  BY <1>1, ElementOfSeq
<1> HIDE DEF k
<1>3. 1 \in Int /\ k \in Int
  BY <1>1
<1>4. /\ SubSeq(s, 1, k) \in Seq(S)
      /\ Len(SubSeq(s, 1, k)) = IF 1 <= k THEN k - 1 + 1 ELSE 0
      /\ \A i \in 1 .. k - 1 + 1 : SubSeq(s, 1, k)[i] = s[1 + i - 1]
  BY <1>2, <1>3, SubSeqProperties
<1>5. Len(SubSeq(s, 1, k)) = k /\ \A i \in 1 .. k : SubSeq(s, 1, k)[i] = s[i]
  BY <1>1, <1>4
<1> QED BY <1>4, <1>5 DEF k

(* Block.blockScore is a natural number for every signed block. *)
LEMMA ScoreNat == ASSUME NEW b \in Signed PROVE BlockScore(b) \in Nat
BY ParameterAssumption DEF BlockScore

(* The persisted score is a natural number on typed chains. *)
LEMMA PersistedScoreNat ==
  ASSUME NEW c \in Seq(EntryType) PROVE PersistedScore(c) \in Nat
<1>1. c # <<>> => c[Len(c)] \in EntryType
  BY LastElement
<1> QED BY <1>1 DEF PersistedScore, EntryType

(* So is the score readers see, liquid block included. *)
LEMMA ScoreOfNat ==
  ASSUME NEW c \in Seq(EntryType), NEW n \in LiquidType \cup {NoNg}
  PROVE  ScoreOf(c, n) \in Nat
<1>1. PersistedScore(c) \in Nat
  BY PersistedScoreNat
<1>2. n # NoNg => BlockScore(n.base) \in Nat
  BY ScoreNat DEF LiquidType
<1> QED BY <1>1, <1>2 DEF ScoreOf

(* NgState.forgeBlock keeps the header of the base, hence its reference, and
   carries the id it was asked for. *)
LEMMA ForgeHeader ==
  ASSUME NEW n \in LiquidType, NEW id \in Ids
  PROVE  /\ ForgeBlock(n, id).ref = n.base.ref
         /\ ForgeBlock(n, id).id = id
<1>1. n.base \in BlockType
  BY BlocksAssumption DEF LiquidType
<1> QED BY <1>1 DEF ForgeBlock, Create, BlockType

(* The last block id the readers report is an id. *)
LEMMA IdOfIds ==
  ASSUME NEW c \in Seq(EntryType),
         NEW n \in LiquidType \cup {NoNg},
         c # <<>> \/ n # NoNg
  PROVE  IdOf(c, n) \in Ids
<1>1. CASE n = NoNg
  <2>1. c[Len(c)] \in EntryType
    BY <1>1, LastElement
  <2> QED BY <1>1, <2>1, BlocksAssumption DEF IdOf, BlockType, EntryType
<1>2. CASE n # NoNg
  <2>1. n.base.id \in Ids
    BY <1>2, BlocksAssumption DEF LiquidType, BlockType
  <2>2. ASSUME n.micros # <<>> PROVE n.micros[Len(n.micros)].total \in Ids
    <3>1. n.micros[Len(n.micros)] \in Micros
      BY <1>2, <2>2, LastElement DEF LiquidType
    <3> QED BY <3>1, BlocksAssumption DEF MicroType
  <2> QED BY <1>2, <2>1, <2>2 DEF IdOf, BestLiquidBlockId
<1> QED BY <1>1, <1>2

(* publishLastBlockInfo leaves a well-formed LastBlockInfo. *)
LEMMA PublishTyped ==
  ASSUME chain' \in Seq(EntryType),
         ng' \in LiquidType \cup {NoNg},
         info \in InfoType,
         Publish
  PROVE  info' \in InfoType
<1>1. CASE chain' = <<>> /\ ng' = NoNg
  BY <1>1 DEF Publish
<1>2. CASE ~(chain' = <<>> /\ ng' = NoNg)
  <2>1. IdOf(chain', ng') \in Ids
    BY <1>2, IdOfIds
  <2>2. HeightOf(chain', ng') \in Nat \ {0}
    BY <1>2, LastElement, LenProperties DEF HeightOf
  <2>3. ScoreOf(chain', ng') \in Nat
    BY ScoreOfNat
  <2> QED BY <1>2, <2>1, <2>2, <2>3 DEF Publish, InfoType
<1> QED BY <1>1, <1>2

(* Caches.append adds one block above the others and never lowers the safe
   rollback height. *)
LEMMA AppendPersistedEffect ==
  ASSUME TypeOK, NEW f \in Signed, AppendPersisted(f)
  PROVE  /\ chain' \in Seq(EntryType)
         /\ Len(chain') = Len(chain) + 1
         /\ \A h \in 1 .. Len(chain) : chain'[h] = chain[h]
         /\ chain'[Len(chain) + 1].block = f
         /\ chain'[Len(chain) + 1].score = PersistedScore(chain) + BlockScore(f)
         /\ chain'[Len(chain) + 1].exact = TotalsDistinct
         /\ safe' \in Nat
         /\ safe <= safe' /\ Len(chain') - safe' <= MaxRollbackDepth
         /\ safe < Len(chain') => safe' < Len(chain')
<1> DEFINE e == [block |-> f, score |-> PersistedScore(chain) + BlockScore(f),
                 exact |-> TotalsDistinct]
<1>0. PersistedScore(chain) + BlockScore(f) \in Nat
  <2>1. PersistedScore(chain) \in Nat
    BY PersistedScoreNat DEF TypeOK
  <2>2. BlockScore(f) \in Nat
    BY ScoreNat
  <2> QED BY <2>1, <2>2
<1>1. e \in EntryType
  <2>1. TotalsDistinct \in BOOLEAN
    BY DEF TotalsDistinct
  <2> QED BY <1>0, <2>1 DEF EntryType
<1>2. chain' = Append(chain, e)
  BY DEF AppendPersisted
<1>3. /\ e.block = f /\ e.score = PersistedScore(chain) + BlockScore(f)
      /\ e.exact = TotalsDistinct
  OBVIOUS
<1> HIDE DEF e
<1>4. /\ chain' \in Seq(EntryType)
      /\ Len(chain') = Len(chain) + 1
      /\ \A h \in 1 .. Len(chain) : chain'[h] = chain[h]
      /\ chain'[Len(chain) + 1] = e
  BY <1>1, <1>2, AppendProperties DEF TypeOK
<1>5. Len(chain) \in Nat /\ safe \in Nat /\ MaxRollbackDepth \in Nat \ {0}
  BY LenProperties, ParameterAssumption DEF TypeOK
<1>6. safe' = IF safe < SafeFloor THEN SafeFloor ELSE safe
  BY DEF AppendPersisted
<1> QED BY <1>3, <1>4, <1>5, <1>6 DEF SafeFloor

(* An accepted block becomes a well-typed liquid block. *)
LEMMA NewLiquidTyped ==
  ASSUME NEW b, NEW exact, NEW ledger, MayPass(exact, ledger, b),
         TypeOK, NewLiquid(b),
         chain' \in Seq(EntryType), safe' \in Nat
  PROVE  TypeOK'
<1>1. b \in Signed /\ Len(b.txs) \in 0 .. MaxTotal
  BY BlocksAssumption, ParameterAssumption DEF MayPass, BlockType
<1>2. ng' \in LiquidType
  BY <1>1 DEF NewLiquid, LiquidType
<1>3. rest' \in 0 .. MaxTotal
  BY <1>1, ParameterAssumption DEF NewLiquid
<1>4. info' \in InfoType
  BY <1>2, PublishTyped DEF NewLiquid, TypeOK
<1>5. announced' \in Nat /\ rolling' \in Nat
  BY DEF NewLiquid, TypeOK
<1> QED BY <1>2, <1>3, <1>4, <1>5 DEF TypeOK

-----------------------------------------------------------------------------
(* The initial state is well typed. *)
LEMMA InitTyped == Init => TypeOK
<1> SUFFICES ASSUME Init PROVE TypeOK
  OBVIOUS
<1>1. Genesis \in Signed /\ Genesis \in BlockType /\ BlockScore(Genesis) \in Nat
  BY BlocksAssumption, ScoreNat
<1>2. ng \in LiquidType
  BY <1>1 DEF Init, LiquidType
<1>3. rest \in 0 .. MaxTotal
  BY <1>1, ParameterAssumption DEF Init, BlockType
<1>4. info \in InfoType
  BY <1>1 DEF Init, BlockType, InfoType
<1> QED BY <1>2, <1>3, <1>4 DEF Init, TypeOK

(* Every operation keeps the state well typed; for Harden this is where the
   signature check of the forged block is needed. *)
LEMMA NextTyped == TypeOK /\ [Next]_vars => TypeOK'
<1> SUFFICES ASSUME TypeOK, [Next]_vars PROVE TypeOK'
  OBVIOUS
<1>1. ASSUME NEW b \in Blocks, AppendToPersisted(b) PROVE TypeOK'
  BY <1>1, NewLiquidTyped DEF AppendToPersisted, TypeOK
<1>2. ASSUME NEW b \in Blocks, ReplaceLiquid(b) PROVE TypeOK'
  BY <1>2, NewLiquidTyped DEF ReplaceLiquid, TypeOK
<1>3. ASSUME NEW b \in Blocks, RefuseCompetitor(b) \/ RefuseChild(b) PROVE TypeOK'
  BY <1>3 DEF RefuseCompetitor, RefuseChild, TypeOK
<1>4. ASSUME NEW b \in Blocks, Harden(b) PROVE TypeOK'
  <2>1. PICK forged \in Signed :
            AppendPersisted(forged) /\ MayPass(LiquidExact, Ledger \o forged.txs, b)
    BY <1>4 DEF Harden, ExtendsLiquid
  <2>2. chain' \in Seq(EntryType) /\ safe' \in Nat
    BY <2>1, AppendPersistedEffect
  <2> QED BY <1>4, <2>1, <2>2, NewLiquidTyped DEF Harden
<1>5. ASSUME NEW m \in Micros, ProcessMicroBlock(m) PROVE TypeOK'
  <2>1. m \in MicroType /\ Len(m.txs) \in Nat
    BY BlocksAssumption DEF MicroType
  <2>2. ng \in LiquidType
    BY <1>5 DEF ProcessMicroBlock, TypeOK
  <2>3. ng' \in LiquidType
    <3>1. ng' = [ng EXCEPT !.micros = Append(ng.micros, m)]
      BY <1>5 DEF ProcessMicroBlock
    <3>2. Append(ng.micros, m) \in Seq(Micros)
      BY <2>2, AppendProperties DEF LiquidType
    <3> QED BY <2>2, <3>1, <3>2 DEF LiquidType
  <2>4. rest' \in 0 .. MaxTotal
    BY <1>5, <2>1, ParameterAssumption DEF ProcessMicroBlock, TypeOK
  <2>5. info' \in InfoType
    <3>1. HeightOf(chain, ng) \in Nat \ {0}
      BY <1>5 DEF ProcessMicroBlock, HeightOf, TypeOK
    <3>2. ScoreOf(chain, ng) \in Nat
      BY ScoreOfNat DEF TypeOK
    <3> QED BY <1>5, <2>1, <3>1, <3>2 DEF ProcessMicroBlock, MicroType, InfoType
  <2> QED BY <1>5, <2>3, <2>4, <2>5 DEF ProcessMicroBlock, TypeOK
<1>6. ASSUME NEW id \in Ids, RemoveAfterInLiquid(id) \/ RemoveAfterRefused(id)
      PROVE TypeOK'
  <2>1. /\ chain' = chain /\ ng' \in LiquidType \cup {NoNg}
        /\ Publish
    BY <1>6 DEF RemoveAfterInLiquid, RemoveAfterRefused, TypeOK
  <2>2. info' \in InfoType
    BY <2>1, PublishTyped DEF TypeOK
  <2> QED BY <1>6, <2>1, <2>2 DEF RemoveAfterInLiquid, RemoveAfterRefused, TypeOK
<1>7. ASSUME NEW id \in Ids, RemoveAfterStart(id) PROVE TypeOK'
  <2>1. HeightOfPersisted(id) \in 1 .. Len(chain)
    BY <1>7 DEF RemoveAfterStart, RollbackAllowed, Persisted, HeightOfPersisted
  <2> QED BY <1>7, <2>1 DEF RemoveAfterStart, TypeOK
<1>8. CASE RollbackStep
  BY <1>8, WithoutLast DEF RollbackStep, TypeOK
<1>9. CASE RemoveAfterDone
  BY <1>9, PublishTyped DEF RemoveAfterDone, TypeOK
<1>10. CASE Restart
  <2>1. ng' \in LiquidType \cup {NoNg}
    <3>1. <<>> \in Seq(Micros)
      BY EmptySeq
    <3>2. [base |-> Genesis, micros |-> <<>>] \in LiquidType
      BY <3>1, BlocksAssumption DEF LiquidType
    <3> QED BY <1>10, <3>2 DEF Restart
  <2>2. rest' \in 0 .. MaxTotal
    BY <1>10, BlocksAssumption, ParameterAssumption DEF Restart, BlockType
  <2>3. chain' = chain /\ Publish
    BY <1>10 DEF Restart
  <2>4. info' \in InfoType
    BY <2>1, <2>3, PublishTyped DEF TypeOK
  <2> QED BY <1>10, <2>1, <2>2, <2>4 DEF Restart, TypeOK
<1>11. CASE UNCHANGED vars
  BY <1>11 DEF vars, TypeOK
<1> QED BY <1>1, <1>2, <1>3, <1>4, <1>5, <1>6, <1>7, <1>8, <1>9, <1>10, <1>11
        DEF Next, ProcessBlock

(* Type correctness: in particular only blocks whose signature matches their
   content are ever persisted, although microblocks are accepted without a
   check of the total id they announce (processBlock checks the forged block). *)
THEOREM TypeCorrect == Spec => []TypeOK
BY InitTyped, NextTyped, PTL DEF Spec

-----------------------------------------------------------------------------
(* The inductive invariant.  LiquidLinked is what makes ChainLinked inductive
   (Harden persists a block with the reference of the liquid base), and it
   survives a rollback because no liquid block exists while one is in progress. *)
NoLiquidWhileRolling == rolling # 0 => ng = NoNg

IInv ==
  /\ TypeOK
  /\ ChainLinked
  /\ LiquidLinked
  /\ MicrosLinked
  /\ ScoreAccumulates
  /\ RollbackWindow
  /\ NoLiquidWhileRolling

(* The empty chain with a liquid genesis block satisfies the invariant. *)
LEMMA InitIInv == Init => IInv
<1> SUFFICES ASSUME Init PROVE IInv
  OBVIOUS
<1>1. TypeOK
  BY InitTyped
<1>2. Len(chain) = 0 /\ chain = <<>> /\ safe = 0 /\ rolling = 0
  BY DEF Init
<1>3. ng.base = Genesis /\ Len(ng.micros) = 0
  BY DEF Init
<1>4. ChainLinked /\ ScoreAccumulates
  BY <1>2 DEF ChainLinked, ScoreAccumulates
<1>5. LiquidLinked /\ MicrosLinked
  BY <1>2, <1>3 DEF LiquidLinked, MicrosLinked
<1>6. RollbackWindow /\ NoLiquidWhileRolling
  BY <1>2, ParameterAssumption DEF RollbackWindow, NoLiquidWhileRolling
<1> QED BY <1>1, <1>4, <1>5, <1>6 DEF IInv

(* A fresh liquid block has no microblocks, so its microblocks are linked. *)
LEMMA FreshLiquid ==
  ASSUME NEW b, NewLiquid(b)
  PROVE  ng'.base = b /\ MicrosLinked' /\ rolling' = rolling
<1>1. ng' = [base |-> b, micros |-> <<>>] /\ rolling' = rolling
  BY DEF NewLiquid
<1>2. ng'.base = b /\ Len(ng'.micros) = 0
  BY <1>1
<1> QED BY <1>1, <1>2 DEF MicrosLinked

(* A liquid block on an unchanged persisted chain. *)
LEMMA ReplacedLiquid ==
  ASSUME IInv, TypeOK', NEW b, NewLiquid(b), rolling = 0,
         UNCHANGED <<chain, safe>>,
         chain # <<>>, b.ref = LastPersistedId
  PROVE  IInv'
<1>1. ng'.base = b /\ MicrosLinked' /\ rolling' = 0
  BY FreshLiquid
<1>2. ChainLinked' /\ ScoreAccumulates'
  BY DEF IInv, ChainLinked, ScoreAccumulates
<1>3. LiquidLinked'
  BY <1>1 DEF LiquidLinked, LastPersistedId
<1>4. RollbackWindow' /\ NoLiquidWhileRolling'
  BY <1>1 DEF IInv, RollbackWindow, NoLiquidWhileRolling
<1> QED BY <1>1, <1>2, <1>3, <1>4 DEF IInv

(* Hardening: the liquid block, forged at the state b references, is persisted
   on top of the block its base references. *)
LEMMA HardenIInv ==
  ASSUME IInv, TypeOK', NEW b \in Blocks, Harden(b)
  PROVE  IInv'
<1> DEFINE forged == ForgeBlock(ng, b.ref)
<1>1. ng \in LiquidType /\ ng # NoNg /\ b.ref \in Ids /\ rolling = 0
  BY BlocksAssumption DEF Harden, ExtendsLiquid, IInv, TypeOK, BlockType
<1>2. forged \in Signed /\ AppendPersisted(forged) /\ NewLiquid(b)
  BY DEF Harden, ExtendsLiquid
<1>3. forged.ref = ng.base.ref /\ forged.id = b.ref
  BY <1>1, ForgeHeader
<1> HIDE DEF forged
<1>4. TypeOK /\ Len(chain) \in Nat
  BY LenProperties DEF IInv, TypeOK
<1>5. /\ Len(chain') = Len(chain) + 1
      /\ \A h \in 1 .. Len(chain) : chain'[h] = chain[h]
      /\ chain'[Len(chain) + 1].block = forged
      /\ chain'[Len(chain) + 1].score = PersistedScore(chain) + BlockScore(forged)
      /\ safe <= safe' /\ Len(chain') - safe' <= MaxRollbackDepth
      /\ safe < Len(chain') => safe' < Len(chain')
  BY <1>2, <1>4, AppendPersistedEffect
<1>6. ng'.base = b /\ MicrosLinked' /\ rolling' = 0
  BY <1>1, <1>2, FreshLiquid
<1>7. ChainLinked'
  <2> SUFFICES ASSUME NEW h \in 1 .. Len(chain') - 1
               PROVE  chain'[h + 1].block.ref = chain'[h].block.id
    BY DEF ChainLinked
  <2>1. CASE h < Len(chain)
    BY <1>4, <1>5, <2>1 DEF IInv, ChainLinked
  <2>2. CASE h = Len(chain)
    <3>1. chain # <<>>
      BY <2>2, <1>4
    <3>2. ng.base.ref = chain[Len(chain)].block.id
      BY <1>1, <3>1 DEF IInv, LiquidLinked, LastPersistedId
    <3> QED BY <1>3, <1>4, <1>5, <2>2, <3>2
  <2> QED BY <1>4, <1>5, <2>1, <2>2
<1>8. LiquidLinked'
  BY <1>3, <1>4, <1>5, <1>6 DEF LiquidLinked, LastPersistedId
<1>9. ScoreAccumulates'
  <2> SUFFICES ASSUME NEW h \in 1 .. Len(chain')
               PROVE  chain'[h].score = BlockScore(chain'[h].block)
                                        + (IF h = 1 THEN 0 ELSE chain'[h - 1].score)
    BY DEF ScoreAccumulates
  <2>1. CASE h <= Len(chain)
    BY <1>4, <1>5, <2>1 DEF IInv, ScoreAccumulates
  <2>2. CASE h = Len(chain) + 1
    <3>1. chain = <<>> <=> Len(chain) = 0
      BY EmptySeq DEF IInv, TypeOK
    <3>2. PersistedScore(chain) = IF h = 1 THEN 0 ELSE chain'[h - 1].score
      BY <1>4, <1>5, <2>2, <3>1 DEF PersistedScore
    <3>3. BlockScore(forged) \in Nat /\ PersistedScore(chain) \in Nat
      BY <1>2, <1>4, ScoreNat, PersistedScoreNat DEF TypeOK
    <3> QED BY <1>5, <2>2, <3>2, <3>3
  <2> QED BY <1>4, <1>5, <2>1, <2>2
<1>10. RollbackWindow'
  <2>1. safe < Len(chain')
    BY <1>4, <1>5 DEF IInv, RollbackWindow, TypeOK
  <2>2. chain' # <<>>
    BY <1>4, <1>5
  <2> QED BY <1>5, <1>6, <2>1, <2>2 DEF RollbackWindow
<1> QED BY <1>6, <1>7, <1>8, <1>9, <1>10 DEF IInv, NoLiquidWhileRolling

(* Appending a microblock extends the chain of microblocks by one. *)
LEMMA MicroIInv ==
  ASSUME IInv, TypeOK', NEW m \in Micros, ProcessMicroBlock(m)
  PROVE  IInv'
<1>1. /\ ng \in LiquidType /\ ng # NoNg /\ rolling = 0
      /\ m.sender = ng.base.gen /\ m.prev = BestLiquidBlockId(ng)
      /\ ng' = [ng EXCEPT !.micros = Append(ng.micros, m)]
      /\ UNCHANGED <<chain, safe, rolling>>
  BY DEF ProcessMicroBlock, IInv, TypeOK
<1>2. ng'.base = ng.base /\ ng'.micros = Append(ng.micros, m)
  BY <1>1 DEF LiquidType
<1>3. /\ ng.micros \in Seq(Micros) /\ Len(ng.micros) \in Nat
      /\ ng.micros = <<>> <=> Len(ng.micros) = 0
  BY <1>1, LenProperties, EmptySeq DEF LiquidType
<1>4. /\ Len(ng'.micros) = Len(ng.micros) + 1
      /\ \A i \in 1 .. Len(ng.micros) : ng'.micros[i] = ng.micros[i]
      /\ ng'.micros[Len(ng.micros) + 1] = m
  BY <1>2, <1>3, AppendProperties
<1>5. MicrosLinked'
  <2> SUFFICES ASSUME NEW i \in 1 .. Len(ng'.micros)
               PROVE  /\ ng'.micros[i].sender = ng'.base.gen
                      /\ ng'.micros[i].prev = IF i = 1 THEN ng'.base.id
                                              ELSE ng'.micros[i - 1].total
    BY DEF MicrosLinked
  <2>1. CASE i <= Len(ng.micros)
    BY <1>1, <1>2, <1>3, <1>4, <2>1 DEF IInv, MicrosLinked
  <2>2. CASE i = Len(ng.micros) + 1
    BY <1>1, <1>2, <1>3, <1>4, <2>2 DEF BestLiquidBlockId
  <2> QED BY <1>3, <1>4, <2>1, <2>2
<1>6. ChainLinked' /\ ScoreAccumulates'
  BY <1>1 DEF IInv, ChainLinked, ScoreAccumulates
<1>7. LiquidLinked'
  BY <1>1, <1>2 DEF IInv, LiquidLinked, LastPersistedId
<1>8. RollbackWindow' /\ NoLiquidWhileRolling'
  BY <1>1 DEF IInv, RollbackWindow, NoLiquidWhileRolling
<1> QED BY <1>5, <1>6, <1>7, <1>8 DEF IInv

(* Dropping the liquid block, or keeping it, on an unchanged persisted chain. *)
LEMMA SameChain ==
  ASSUME IInv, TypeOK', UNCHANGED <<chain, safe>>,
         ng' = ng \/ ng' = NoNg,
         rolling' = 0 \/ (ng' = NoNg /\ safe < rolling' /\ rolling' <= Len(chain))
  PROVE  IInv'
<1>1. ChainLinked' /\ ScoreAccumulates'
  BY DEF IInv, ChainLinked, ScoreAccumulates
<1>2. LiquidLinked' /\ MicrosLinked'
  BY DEF IInv, LiquidLinked, MicrosLinked, LastPersistedId
<1>3. RollbackWindow' /\ NoLiquidWhileRolling'
  BY DEF IInv, RollbackWindow, NoLiquidWhileRolling
<1> QED BY <1>1, <1>2, <1>3 DEF IInv

(* One batch of doRollback removes the top block only. *)
LEMMA RollbackStepIInv ==
  ASSUME IInv, TypeOK', RollbackStep
  PROVE  IInv'
<1>1. /\ chain \in Seq(EntryType) /\ Len(chain) \in Nat
      /\ rolling \in Nat /\ safe \in Nat /\ MaxRollbackDepth \in Nat
  BY LenProperties, ParameterAssumption DEF IInv, TypeOK
<1>2. /\ rolling # 0 /\ rolling < Len(chain)
      /\ chain' = SubSeq(chain, 1, Len(chain) - 1)
      /\ UNCHANGED <<safe, ng, rolling>>
  BY <1>1 DEF RollbackStep
<1>3. /\ Len(chain') = Len(chain) - 1
      /\ \A h \in 1 .. Len(chain) - 1 : chain'[h] = chain[h]
  BY <1>1, <1>2, WithoutLast
<1>4. ng' = NoNg /\ safe < rolling /\ rolling <= Len(chain')
  BY <1>1, <1>2, <1>3 DEF IInv, RollbackWindow, NoLiquidWhileRolling
<1>5. ChainLinked'
  BY <1>1, <1>3 DEF IInv, ChainLinked
<1>6. ScoreAccumulates'
  <2> SUFFICES ASSUME NEW h \in 1 .. Len(chain')
               PROVE  chain'[h].score = BlockScore(chain'[h].block)
                                        + (IF h = 1 THEN 0 ELSE chain'[h - 1].score)
    BY DEF ScoreAccumulates
  <2>1. h \in 1 .. Len(chain) /\ chain'[h] = chain[h]
    BY <1>1, <1>3
  <2>2. h # 1 => chain'[h - 1] = chain[h - 1]
    BY <1>1, <1>3
  <2> QED BY <2>1, <2>2 DEF IInv, ScoreAccumulates
<1>7. RollbackWindow'
  <2>1. Len(chain') > 0
    BY <1>1, <1>2, <1>3
  <2>2. chain' # <<>>
    BY <2>1
  <2> QED BY <1>1, <1>2, <1>3, <1>4, <2>2 DEF IInv, RollbackWindow
<1> QED BY <1>4, <1>5, <1>6, <1>7
        DEF IInv, LiquidLinked, MicrosLinked, NoLiquidWhileRolling

(* Restarting keeps the database; on an empty one genesis is processed again. *)
LEMMA RestartIInv ==
  ASSUME IInv, TypeOK', Restart
  PROVE  IInv'
<1>1. UNCHANGED <<chain, safe>> /\ rolling' = 0
  BY DEF Restart
<1>2. CASE chain = <<>>
  <2>1. ng'.base = Genesis /\ Len(ng'.micros) = 0
    BY <1>2 DEF Restart
  <2>2. LiquidLinked' /\ MicrosLinked'
    BY <1>1, <1>2, <2>1 DEF LiquidLinked, MicrosLinked
  <2>3. ChainLinked' /\ ScoreAccumulates'
    BY <1>1 DEF IInv, ChainLinked, ScoreAccumulates
  <2>4. RollbackWindow' /\ NoLiquidWhileRolling'
    BY <1>1 DEF IInv, RollbackWindow, NoLiquidWhileRolling
  <2> QED BY <2>2, <2>3, <2>4 DEF IInv
<1>3. CASE chain # <<>>
  BY <1>1, <1>3, SameChain DEF Restart
<1> QED BY <1>2, <1>3

(* One step of Next preserves the invariant. *)
LEMMA NextIInv == IInv /\ [Next]_vars => IInv'
<1> SUFFICES ASSUME IInv, [Next]_vars PROVE IInv'
  OBVIOUS
<1>1. TypeOK /\ TypeOK'
  BY NextTyped DEF IInv
<1>2. ASSUME NEW b \in Blocks, AppendToPersisted(b) PROVE IInv'
  BY <1>1, <1>2, ReplacedLiquid DEF AppendToPersisted, ExtendsPersisted
<1>3. ASSUME NEW b \in Blocks, ReplaceLiquid(b) PROVE IInv'
  <2>1. Competes(b)
    BY <1>3 DEF ReplaceLiquid, BetterLiquid, LongerVersion
  <2>2. chain # <<>>
    <3>1. \E h \in 1 .. Len(chain) : chain[h].block.id = b.ref
      BY <1>3 DEF ReplaceLiquid, Persisted
    <3> QED BY <3>1
  <2>3. b.ref = LastPersistedId
    BY <2>1, <2>2 DEF Competes, IInv, LiquidLinked
  <2> QED BY <1>1, <1>3, <2>2, <2>3, ReplacedLiquid DEF ReplaceLiquid
<1>4. ASSUME NEW b \in Blocks, RefuseCompetitor(b) \/ RefuseChild(b) PROVE IInv'
  BY <1>1, <1>4, SameChain DEF RefuseCompetitor, RefuseChild
<1>5. ASSUME NEW b \in Blocks, Harden(b) PROVE IInv'
  BY <1>1, <1>5, HardenIInv
<1>6. ASSUME NEW m \in Micros, ProcessMicroBlock(m) PROVE IInv'
  BY <1>1, <1>6, MicroIInv
<1>7. ASSUME NEW id \in Ids, RemoveAfterInLiquid(id) \/ RemoveAfterRefused(id)
      PROVE IInv'
  BY <1>1, <1>7, SameChain DEF RemoveAfterInLiquid, RemoveAfterRefused
<1>8. ASSUME NEW id \in Ids, RemoveAfterStart(id) PROVE IInv'
  <2>1. HeightOfPersisted(id) \in 1 .. Len(chain) /\ safe < HeightOfPersisted(id)
    <3>1. HeightOfPersisted(id) \in 1 .. Len(chain) /\ HeightOfPersisted(id) > safe
      BY <1>8 DEF RemoveAfterStart, RollbackAllowed, Persisted, HeightOfPersisted
    <3> QED BY <1>1, <3>1 DEF TypeOK
  <2> QED BY <1>1, <1>8, <2>1, SameChain DEF RemoveAfterStart, TypeOK
<1>9. CASE RollbackStep
  BY <1>1, <1>9, RollbackStepIInv
<1>10. CASE RemoveAfterDone
  BY <1>1, <1>10, SameChain DEF RemoveAfterDone
<1>11. CASE Restart
  BY <1>1, <1>11, RestartIInv
<1>12. CASE UNCHANGED vars
  BY <1>12 DEF vars, IInv, TypeOK, ChainLinked, LiquidLinked, LastPersistedId,
               MicrosLinked, ScoreAccumulates, RollbackWindow, NoLiquidWhileRolling
<1> QED BY <1>2, <1>3, <1>4, <1>5, <1>6, <1>7, <1>8, <1>9, <1>10, <1>11, <1>12
        DEF Next, ProcessBlock

(* The inductive invariant holds in every reachable state. *)
THEOREM Invariance == Spec => []IInv
BY InitIInv, NextIInv, PTL DEF Spec

(* Persisted blocks are linked, the liquid base sits on the last one and the
   microblocks form one chain on the base, whatever blocks, microblocks,
   rollbacks and restarts the node goes through. *)
THEOREM ChainAndLiquidLinked == Spec => []Linked
<1>1. IInv => Linked
  BY DEF IInv, Linked
<1> QED BY <1>1, Invariance, PTL

(* The stored scores add up, so the score a node advertises is the sum of the
   scores of its blocks. *)
THEOREM ScoresAddUp == Spec => []ScoreAccumulates
<1>1. IInv => ScoreAccumulates
  BY DEF IInv
<1> QED BY <1>1, Invariance, PTL

(* At most MaxRollbackDepth blocks can be undone and the tip always can be
   rolled back to. *)
THEOREM RollbackWindowKept == Spec => []RollbackWindow
<1>1. IInv => RollbackWindow
  BY DEF IInv
<1> QED BY <1>1, Invariance, PTL

-----------------------------------------------------------------------------
(* What a step does to the persisted chain: it keeps it, adds one block on
   top, or removes the top block in the course of a rollback. *)
LEMMA ChainStep ==
  ASSUME IInv, [Next]_vars
  PROVE  \/ UNCHANGED chain
         \/ \E b \in Blocks : Harden(b)
         \/ RollbackStep
BY DEF Next, ProcessBlock, AppendToPersisted, ReplaceLiquid, RefuseCompetitor,
       RefuseChild, ProcessMicroBlock, RemoveAfterInLiquid, RemoveAfterRefused,
       RemoveAfterStart, RemoveAfterDone, Restart, vars

(* No step replaces or removes a final block or lowers the safe height. *)
LEMMA NextFinal ==
  ASSUME IInv, [Next]_vars
  PROVE  /\ safe <= safe'
         /\ \A h \in 1 .. Len(chain) :
              h <= safe + 1 => h <= Len(chain') /\ chain'[h] = chain[h]
<1>1. ASSUME IInv, [Next]_vars,
             NEW h \in 1 .. Len(chain), h <= safe + 1
      PROVE  h <= Len(chain') /\ chain'[h] = chain[h]
  <2>1. TypeOK /\ Len(chain) \in Nat /\ chain \in Seq(EntryType)
    BY <1>1, LenProperties DEF IInv, TypeOK
  <2>2. CASE UNCHANGED chain
    BY <2>1, <2>2
  <2>3. ASSUME NEW b \in Blocks, Harden(b)
        PROVE  h <= Len(chain') /\ chain'[h] = chain[h]
    <3>1. PICK forged \in Signed : AppendPersisted(forged)
      BY <2>3 DEF Harden, ExtendsLiquid
    <3> QED BY <2>1, <3>1, AppendPersistedEffect
  <2>4. CASE RollbackStep
    <3>1. /\ rolling < Len(chain) /\ safe < rolling
          /\ rolling \in Nat /\ safe \in Nat
          /\ chain' = SubSeq(chain, 1, Len(chain) - 1)
      BY <1>1, <2>1, <2>4 DEF RollbackStep, IInv, RollbackWindow, TypeOK
    <3>2. /\ Len(chain') = Len(chain) - 1
          /\ \A i \in 1 .. Len(chain) - 1 : chain'[i] = chain[i]
      BY <2>1, <3>1, WithoutLast
    <3> QED BY <1>1, <2>1, <3>1, <3>2
  <2> QED BY <1>1, <2>2, <2>3, <2>4, ChainStep
<1>2. ASSUME IInv, [Next]_vars PROVE safe <= safe'
  <2>1. safe \in Nat /\ TypeOK
    BY <1>2 DEF IInv, TypeOK
  <2>2. ASSUME NEW b \in Blocks, Harden(b) PROVE safe <= safe'
    BY <2>1, <2>2, AppendPersistedEffect DEF Harden, ExtendsLiquid
  <2> QED BY <1>2, <2>1, <2>2
     DEF Next, ProcessBlock, AppendToPersisted, ReplaceLiquid, RefuseCompetitor,
         RefuseChild, ProcessMicroBlock, RemoveAfterInLiquid, RemoveAfterRefused,
         RemoveAfterStart, RollbackStep, RemoveAfterDone, Restart, vars
<1> QED BY <1>1, <1>2

(* Finality: no step of the node replaces or removes a block at or below the
   safe rollback height plus one. *)
THEOREM FinalityHolds == Spec => Finality
<1>1. IInv /\ [Next]_vars =>
        [/\ safe <= safe'
         /\ \A h \in 1 .. Len(chain) :
              h <= safe + 1 => h <= Len(chain') /\ chain'[h] = chain[h]]_vars
  BY NextFinal
<1> QED BY <1>1, Invariance, PTL DEF Spec, Finality

(* A step that keeps or sets a liquid block does not lower the score. *)
LEMMA NextScore ==
  ASSUME IInv, [Next]_vars
  PROVE  ScoreOf(chain', ng') < ScoreOf(chain, ng) => ng' = NoNg
<1>1. ASSUME IInv, [Next]_vars, ng' # NoNg
      PROVE  ScoreOf(chain', ng') >= ScoreOf(chain, ng)
  <2>1. /\ TypeOK /\ TypeOK'
        /\ ScoreOf(chain, ng) \in Nat /\ ScoreOf(chain', ng') \in Nat
        /\ PersistedScore(chain) \in Nat
    <3>1. TypeOK /\ TypeOK'
      BY <1>1, NextTyped DEF IInv
    <3>2. ScoreOf(chain, ng) \in Nat /\ PersistedScore(chain) \in Nat
      BY <3>1, ScoreOfNat, PersistedScoreNat DEF TypeOK
    <3>3. ScoreOf(chain', ng') \in Nat
      BY <3>1, ScoreOfNat DEF TypeOK
    <3> QED BY <3>1, <3>2, <3>3
  <2>2. CASE UNCHANGED <<chain, ng>>
    BY <2>1, <2>2
  <2>3. ASSUME NEW b \in Blocks, AppendToPersisted(b)
        PROVE  ScoreOf(chain', ng') >= ScoreOf(chain, ng)
    <3>1. ng = NoNg /\ chain' = chain /\ ng'.base = b /\ BlockScore(b) \in Nat
      BY <2>3, FreshLiquid, ScoreNat DEF AppendToPersisted, ExtendsPersisted, MayPass
    <3> QED BY <1>1, <2>1, <3>1 DEF ScoreOf
  <2>4. ASSUME NEW b \in Blocks, ReplaceLiquid(b)
        PROVE  ScoreOf(chain', ng') >= ScoreOf(chain, ng)
    <3>1. /\ ng # NoNg /\ chain' = chain /\ ng'.base = b
          /\ BlockScore(b) \in Nat /\ b \in Signed
      BY <2>4, FreshLiquid, ScoreNat
         DEF ReplaceLiquid, BetterLiquid, LongerVersion, Competes, MayPass
    <3>2. BlockScore(ng.base) \in Nat
      BY <2>1, <3>1, ScoreNat DEF TypeOK, LiquidType
    <3>3. BlockScore(b) >= BlockScore(ng.base)
      <4>1. CASE BetterLiquid(b)
        BY <3>1, <3>2, <4>1 DEF BetterLiquid
      <4>2. CASE LongerVersion(b)
        BY <3>2, <4>2 DEF LongerVersion, AreVersionsOfSameBlock, BlockScore
      <4> QED BY <2>4, <4>1, <4>2 DEF ReplaceLiquid
    <3> QED BY <1>1, <2>1, <3>1, <3>2, <3>3 DEF ScoreOf
  <2>5. ASSUME NEW b \in Blocks, Harden(b)
        PROVE  ScoreOf(chain', ng') >= ScoreOf(chain, ng)
    <3>1. /\ ng # NoNg /\ ng \in LiquidType /\ ng'.base = b /\ b \in Signed
          /\ ng.base \in BlockType /\ b.ref \in Ids
      BY <2>1, <2>5, FreshLiquid, BlocksAssumption
         DEF Harden, ExtendsLiquid, MayPass, TypeOK, LiquidType, BlockType
    <3>2. ForgeBlock(ng, b.ref) \in Signed /\ AppendPersisted(ForgeBlock(ng, b.ref))
      BY <2>5 DEF Harden, ExtendsLiquid
    <3>3. BlockScore(ForgeBlock(ng, b.ref)) = BlockScore(ng.base)
      BY <3>1 DEF ForgeBlock, Create, BlockScore, BlockType
    <3>4. /\ Len(chain') = Len(chain) + 1
          /\ chain'[Len(chain) + 1].score = PersistedScore(chain) + BlockScore(ng.base)
      BY <2>1, <3>2, <3>3, AppendPersistedEffect
    <3>5. Len(chain) \in Nat /\ BlockScore(b) \in Nat /\ BlockScore(ng.base) \in Nat
      BY <2>1, <3>1, ScoreNat, LenProperties DEF TypeOK, LiquidType
    <3>6. PersistedScore(chain') = PersistedScore(chain) + BlockScore(ng.base)
      <4>1. chain' # <<>>
        BY <3>4, <3>5
      <4> QED BY <3>4, <4>1 DEF PersistedScore
    <3> QED BY <1>1, <2>1, <3>1, <3>5, <3>6 DEF ScoreOf
  <2>6. ASSUME NEW m \in Micros, ProcessMicroBlock(m)
        PROVE  ScoreOf(chain', ng') >= ScoreOf(chain, ng)
    <3>1. chain' = chain /\ ng # NoNg /\ ng'.base = ng.base
      BY <2>1, <2>6 DEF ProcessMicroBlock, TypeOK, LiquidType
    <3> QED BY <1>1, <2>1, <3>1 DEF ScoreOf
  <2>7. CASE Restart
    <3>1. chain' = chain /\ chain = <<>> /\ ng'.base = Genesis
      BY <1>1, <2>7 DEF Restart
    <3>2. ng # NoNg => ng.base = Genesis
      BY <1>1, <3>1 DEF IInv, LiquidLinked
    <3>3. BlockScore(Genesis) \in Nat
      BY BlocksAssumption, ScoreNat
    <3> QED BY <1>1, <2>1, <3>1, <3>2, <3>3 DEF ScoreOf
  <2>8. CASE ng' = NoNg
    BY <1>1, <2>8
  <2> QED BY <1>1, <2>2, <2>3, <2>4, <2>5, <2>6, <2>7, <2>8
          DEF Next, ProcessBlock, RefuseCompetitor, RefuseChild, RemoveAfterInLiquid,
              RemoveAfterRefused, RemoveAfterStart, RollbackStep, RemoveAfterDone, vars,
              IInv, NoLiquidWhileRolling
<1>2. ASSUME ng' # NoNg
      PROVE  ~(ScoreOf(chain', ng') < ScoreOf(chain, ng))
  <2>1. ScoreOf(chain, ng) \in Nat /\ ScoreOf(chain', ng') \in Nat
    <3>1. TypeOK /\ TypeOK'
      BY NextTyped DEF IInv
    <3>2. ScoreOf(chain, ng) \in Nat
      BY <3>1, ScoreOfNat DEF TypeOK
    <3>3. ScoreOf(chain', ng') \in Nat
      BY <3>1, ScoreOfNat DEF TypeOK
    <3> QED BY <3>2, <3>3
  <2> QED BY <1>1, <1>2, <2>1
<1> QED BY <1>2

(* Score monotonicity: only a step that drops the liquid block, a rollback or a
   restart, can lower the score the node reports. *)
THEOREM ScoreKept == Spec => OnlyRollbackLowersScore
<1>1. IInv /\ [Next]_vars =>
        [ScoreOf(chain', ng') < ScoreOf(chain, ng) => ng' = NoNg]_vars
  BY NextScore
<1> QED BY <1>1, Invariance, PTL DEF Spec, OnlyRollbackLowersScore

-----------------------------------------------------------------------------
(* publishLastBlockInfo publishes the chain and the liquid block it sees. *)
LEMMA PublishSyncs == Publish => InfoInSync'
<1> SUFFICES ASSUME Publish, HeightOf(chain', ng') > 0
             PROVE  info' = [id |-> IdOf(chain', ng'), height |-> HeightOf(chain', ng'),
                             score |-> ScoreOf(chain', ng')]
  BY DEF InfoInSync
<1>1. ~(chain' = <<>> /\ ng' = NoNg)
  BY DEF HeightOf
<1> QED BY <1>1 DEF Publish

(* processMicroBlock publishes by itself, from the values before the append. *)
LEMMA MicroSyncs ==
  ASSUME TypeOK, NEW m \in Micros, ProcessMicroBlock(m)
  PROVE  InfoInSync'
<1>1. /\ ng \in LiquidType /\ ng # NoNg
      /\ ng' = [ng EXCEPT !.micros = Append(ng.micros, m)]
  BY DEF TypeOK, ProcessMicroBlock
<1>2. /\ ng.micros \in Seq(Micros) /\ ng'.base = ng.base
      /\ ng'.micros = Append(ng.micros, m) /\ ng' # NoNg
  <2>1. ng.micros \in Seq(Micros) /\ ng.base \in Signed
    BY <1>1 DEF LiquidType
  <2>2. Append(ng.micros, m) \in Seq(Micros)
    BY <2>1, AppendProperties
  <2>3. ng' \in LiquidType
    BY <1>1, <2>2 DEF LiquidType
  <2> QED BY <1>1, <2>1, <2>3, ParameterAssumption DEF LiquidType
<1>3. BestLiquidBlockId(ng') = m.total
  <2>1. Len(ng'.micros) = Len(ng.micros) + 1 /\ Len(ng.micros) \in Nat
    BY <1>2, AppendProperties, LenProperties
  <2>2. ng'.micros[Len(ng'.micros)] = m
    BY <1>2, <2>1, AppendProperties
  <2>3. ng'.micros # <<>>
    BY <1>2, AppendProperties
  <2> QED BY <2>2, <2>3 DEF BestLiquidBlockId
<1>4. chain' = chain
  BY DEF ProcessMicroBlock
<1> QED BY <1>1, <1>2, <1>3, <1>4 DEF ProcessMicroBlock, InfoInSync, IdOf, HeightOf, ScoreOf

(* The first block is published. *)
LEMMA InitInfo == Init => InfoInSync
<1> SUFFICES ASSUME Init PROVE InfoInSync
  OBVIOUS
<1>1. ng # NoNg /\ ng.base = Genesis /\ ng.micros = <<>> /\ Len(chain) = 0
  <2>1. <<>> \in Seq(Micros) /\ Genesis \in Signed
    BY BlocksAssumption
  <2>2. [base |-> Genesis, micros |-> <<>>] \in LiquidType
    BY <2>1 DEF LiquidType
  <2> QED BY <2>2, ParameterAssumption DEF Init
<1>2. BlockScore(Genesis) \in Nat
  BY ScoreNat, BlocksAssumption
<1>3. PersistedScore(chain) = 0
  BY DEF Init, PersistedScore
<1> QED BY <1>1, <1>2, <1>3 DEF Init, InfoInSync, IdOf, HeightOf, ScoreOf, BestLiquidBlockId

(* Every step publishes what it leaves, or leaves what was published. *)
LEMMA NextInfo == IInv /\ InfoInSync /\ [Next]_vars => InfoInSync'
<1> SUFFICES ASSUME IInv, InfoInSync, [Next]_vars PROVE InfoInSync'
  OBVIOUS
<1>1. CASE UNCHANGED <<chain, ng, info, rolling>>
  BY <1>1 DEF InfoInSync, HeightOf, IdOf, ScoreOf, PersistedScore, BestLiquidBlockId
<1>2. CASE Publish
  BY <1>2, PublishSyncs
<1>3. ASSUME NEW m \in Micros, ProcessMicroBlock(m) PROVE InfoInSync'
  BY <1>3, MicroSyncs DEF IInv
<1>4. CASE rolling' # 0
  BY <1>4 DEF InfoInSync
<1>5. ASSUME NEW id \in Ids, RemoveAfterStart(id) PROVE rolling' # 0
  <2>1. safe \in Nat /\ HeightOfPersisted(id) > safe /\ HeightOfPersisted(id) \in 1 .. Len(chain)
    BY <1>5 DEF RemoveAfterStart, RollbackAllowed, Persisted, HeightOfPersisted, IInv, TypeOK
  <2> QED BY <1>5, <2>1 DEF RemoveAfterStart
<1>6. ASSUME RollbackStep PROVE rolling' # 0
  BY <1>6 DEF RollbackStep
<1> QED BY <1>1, <1>2, <1>3, <1>4, <1>5, <1>6
   DEF Next, ProcessBlock, AppendToPersisted, ReplaceLiquid, RefuseCompetitor, Harden, NewLiquid,
       RefuseChild, RemoveAfterInLiquid, RemoveAfterRefused, RemoveAfterDone, Restart, vars

(* What lastBlockInfo last published is the current last block in every
   reachable state, so the observers of it never act on a block the node has
   left, except during a rollback. *)
THEOREM InfoFollowsChain == Spec => []InfoInSync
BY InitInfo, NextInfo, Invariance, PTL DEF Spec

-----------------------------------------------------------------------------
(* The transactions of microblocks and of blocks are concatenations. *)
TxsOfMicros(ms) == [i \in 1 .. Len(ms) |-> ms[i].txs]
TxsOfBlocks(c) == [h \in 1 .. Len(c) |-> c[h].block.txs]
LedgerOf(c) == Flat(TxsOfBlocks(c), Len(c))

LEMMA MicroTxsIsFlat ==
  ASSUME NEW ms, Len(ms) \in Nat
  PROVE  MicroTxs(ms) = Flat(TxsOfMicros(ms), Len(ms))
<1> DEFINE n == Len(ms)
           p == TxsOfMicros(ms)
           Rec(f) == f = [i \in 0 .. n |-> IF i = 0 THEN <<>> ELSE f[i - 1] \o ms[i].txs]
<1>1. ASSUME NEW f PROVE Rec(f) <=> Concatenates(f, p, n)
  <2>1. \A i \in 0 .. n : i # 0 => p[i] = ms[i].txs
    BY DEF TxsOfMicros
  <2> QED BY <2>1 DEF Concatenates
<1>2. \E f : Rec(f)
  BY <1>1, ConcatenationExists
<1>3. MicroTxs(ms) = (CHOOSE f : Rec(f))[n]
  BY DEF MicroTxs
<1> DEFINE g == CHOOSE f : Rec(f)
<1>4. Rec(g)
  BY <1>2
<1>5. Concatenates(g, p, n)
  BY <1>1, <1>4
<1>6. n \in 0 .. n /\ n \in Nat
  OBVIOUS
<1> HIDE DEF g, p, n
<1>7. g[n] = Flat(p, n)
  BY <1>5, <1>6, FlatIs
<1> QED BY <1>3, <1>7 DEF g, p, n

LEMMA LedgerIsFlat ==
  ASSUME NEW c, Len(c) \in Nat
  PROVE  (CHOOSE f : f = [h \in 0 .. Len(c) |-> IF h = 0 THEN <<>> ELSE f[h - 1] \o c[h].block.txs])[Len(c)]
           = LedgerOf(c)
<1> DEFINE n == Len(c)
           p == TxsOfBlocks(c)
           Rec(f) == f = [i \in 0 .. n |-> IF i = 0 THEN <<>> ELSE f[i - 1] \o c[i].block.txs]
<1>1. ASSUME NEW f PROVE Rec(f) <=> Concatenates(f, p, n)
  <2>1. \A i \in 0 .. n : i # 0 => p[i] = c[i].block.txs
    BY DEF TxsOfBlocks
  <2> QED BY <2>1 DEF Concatenates
<1>2. \E f : Rec(f)
  BY <1>1, ConcatenationExists
<1> DEFINE g == CHOOSE f : Rec(f)
<1>3. Rec(g)
  BY <1>2
<1>4. Concatenates(g, p, n)
  BY <1>1, <1>3
<1>5. n \in 0 .. n /\ n \in Nat
  OBVIOUS
<1>6. g[n] = Flat(p, n)
  <2> HIDE DEF g, p, n
  <2> QED BY <1>4, <1>5, FlatIs
<1> QED BY <1>6 DEF LedgerOf

(* What microblocks carry. *)
LEMMA MicroTxsFacts ==
  ASSUME NEW ms \in Seq(Micros)
  PROVE  /\ MicroTxs(ms) \in Seq(Txs)
         /\ ms = <<>> => MicroTxs(ms) = <<>>
         /\ \A m \in Micros : MicroTxs(Append(ms, m)) = MicroTxs(ms) \o m.txs
         /\ \A k \in 0 .. Len(ms) : \E t \in Seq(Txs) :
              /\ MicroTxs(SubSeq(ms, 1, k)) \in Seq(Txs)
              /\ MicroTxs(ms) = MicroTxs(SubSeq(ms, 1, k)) \o t
<1> DEFINE p == TxsOfMicros(ms)
           n == Len(ms)
<1>1. n \in Nat /\ \A i \in 1 .. n : ms[i] \in Micros /\ p[i] = ms[i].txs /\ p[i] \in Seq(Txs)
  <2>1. n \in Nat /\ \A i \in 1 .. n : ms[i] \in Micros
    BY LenProperties, ElementOfSeq
  <2>2. \A m \in Micros : m.txs \in Seq(Txs)
    BY BlocksAssumption DEF MicroType
  <2> QED BY <2>1, <2>2 DEF TxsOfMicros
<1>2. MicroTxs(ms) = Flat(p, n)
  BY <1>1, MicroTxsIsFlat
<1>3. \A k \in 0 .. n : Flat(p, k) \in Seq(Txs)
  BY <1>1, FlatSeq
<1>4. ms = <<>> => MicroTxs(ms) = <<>>
  <2>1. ms = <<>> => n = 0
    OBVIOUS
  <2> QED BY <1>2, <2>1, FlatStep
<1>5. ASSUME NEW m \in Micros PROVE MicroTxs(Append(ms, m)) = MicroTxs(ms) \o m.txs
  <2> DEFINE a == Append(ms, m)
             q == TxsOfMicros(a)
  <2>1. /\ Len(Append(ms, m)) = n + 1
        /\ \A i \in 1 .. n : Append(ms, m)[i] = ms[i]
        /\ Append(ms, m)[n + 1] = m
    BY AppendProperties
  <2>2. (\A i \in 1 .. n : q[i] = p[i]) /\ q[n + 1] = m.txs
    BY <1>1, <2>1 DEF TxsOfMicros
  <2>3. MicroTxs(a) = Flat(q, n + 1)
    <3>1. Len(a) = n + 1 /\ n + 1 \in Nat
      BY <1>1, <2>1
    <3> HIDE DEF a, n
    <3>2. Len(a) \in Nat
      BY <3>1
    <3> QED BY <3>1, <3>2, MicroTxsIsFlat
  <2> HIDE DEF p, q, n
  <2>4. Flat(q, n + 1) = Flat(q, n) \o q[n + 1]
    BY <1>1, FlatStep
  <2>5. Flat(q, n) = Flat(p, n)
    BY <1>1, <2>2, FlatSame
  <2> QED BY <1>2, <2>2, <2>3, <2>4, <2>5
<1>6. ASSUME NEW k \in 0 .. n
      PROVE  \E t \in Seq(Txs) : /\ MicroTxs(SubSeq(ms, 1, k)) \in Seq(Txs)
                                 /\ MicroTxs(ms) = MicroTxs(SubSeq(ms, 1, k)) \o t
  <2> DEFINE s == SubSeq(ms, 1, k)
             q == TxsOfMicros(s)
             r == [i \in 1 .. n - k |-> p[k + i]]
  <2>1. k \in Nat /\ k \in Int /\ 1 \in Int /\ \A i \in 1 .. k : ms[i] \in Micros
    BY <1>1
  <2>2. /\ Len(s) = IF 1 <= k THEN k - 1 + 1 ELSE 0
        /\ \A i \in 1 .. k - 1 + 1 : s[i] = ms[1 + i - 1]
    BY <2>1, SubSeqProperties
  <2>3. Len(s) = k /\ \A i \in 1 .. k : s[i] = ms[i]
    BY <2>1, <2>2
  <2>4. \A i \in 1 .. k : q[i] = p[i]
    BY <1>1, <2>1, <2>3 DEF TxsOfMicros
  <2>5. MicroTxs(s) = Flat(q, k)
    BY <2>1, <2>3, MicroTxsIsFlat
  <2>6. \A i \in 1 .. n - k : r[i] = p[k + i]
    OBVIOUS
  <2> HIDE DEF p, q, n, r
  <2>7. Flat(q, k) = Flat(p, k)
    BY <2>1, <2>4, FlatSame
  <2>8. Flat(p, n) = Flat(p, k) \o Flat(r, n - k) /\ Flat(r, n - k) \in Seq(Txs)
    BY <1>1, <2>6, FlatSplit
  <2> QED BY <1>2, <1>3, <2>5, <2>7, <2>8
<1>7. n \in 0 .. n
  BY <1>1
<1> QED BY <1>2, <1>3, <1>4, <1>5, <1>6, <1>7, Zenon

(* The ledger of a chain, and of the chain with one more block on top. *)
LEMMA LedgerFacts ==
  ASSUME NEW c \in Seq(EntryType)
  PROVE  /\ LedgerOf(c) \in Seq(Txs)
         /\ c = <<>> => LedgerOf(c) = <<>>
         /\ \A d \in Seq(EntryType) :
              Len(d) = Len(c) + 1 /\ (\A h \in 1 .. Len(c) : d[h] = c[h])
                => LedgerOf(d) = LedgerOf(c) \o d[Len(c) + 1].block.txs
<1> DEFINE n == Len(c)
           p == TxsOfBlocks(c)
<1>1. n \in Nat /\ n \in 0 .. n /\ \A i \in 1 .. n : p[i] = c[i].block.txs /\ p[i] \in Seq(Txs)
  <2>1. n \in Nat /\ \A i \in 1 .. n : c[i] \in EntryType
    BY LenProperties, ElementOfSeq
  <2>2. \A b \in Signed : b.txs \in Seq(Txs)
    BY BlocksAssumption DEF BlockType
  <2> QED BY <2>1, <2>2 DEF TxsOfBlocks, EntryType
<1>2. LedgerOf(c) = Flat(p, n)
  BY DEF LedgerOf
<1>3. Flat(p, n) \in Seq(Txs)
  BY <1>1, FlatSeq
<1>4. c = <<>> => Flat(p, n) = <<>>
  <2>1. c = <<>> => n = 0
    OBVIOUS
  <2> QED BY <2>1, FlatStep
<1>5. ASSUME NEW d \in Seq(EntryType), Len(d) = n + 1, \A h \in 1 .. n : d[h] = c[h]
      PROVE  LedgerOf(d) = LedgerOf(c) \o d[n + 1].block.txs
  <2> DEFINE q == TxsOfBlocks(d)
  <2>1. (\A i \in 1 .. n : q[i] = p[i]) /\ q[n + 1] = d[n + 1].block.txs
    BY <1>1, <1>5 DEF TxsOfBlocks
  <2>2. LedgerOf(d) = Flat(q, n + 1)
    BY <1>5 DEF LedgerOf
  <2> HIDE DEF p, q, n
  <2>3. Flat(q, n + 1) = Flat(q, n) \o q[n + 1]
    BY <1>1, FlatStep
  <2>4. Flat(q, n) = Flat(p, n)
    BY <1>1, <2>1, FlatSame
  <2> QED BY <1>2, <2>1, <2>2, <2>3, <2>4
<1> QED BY <1>2, <1>3, <1>4, <1>5

(* Ledger, before and after a step. *)
LEMMA LedgerIs ==
  /\ chain \in Seq(EntryType) => Ledger = LedgerOf(chain)
  /\ chain' \in Seq(EntryType) => Ledger' = LedgerOf(chain')
<1>1. ASSUME chain \in Seq(EntryType) PROVE Ledger = LedgerOf(chain)
  <2>1. Len(chain) \in Nat
    BY <1>1, LenProperties
  <2> QED BY <2>1, LedgerIsFlat DEF Ledger
<1>2. ASSUME chain' \in Seq(EntryType) PROVE Ledger' = LedgerOf(chain')
  <2>1. Len(chain') \in Nat
    BY <1>2, LenProperties
  <2> QED BY <2>1, LedgerIsFlat DEF Ledger
<1> QED BY <1>1, <1>2

(* The transactions of a liquid block. *)
LEMMA TransactionsFacts ==
  ASSUME NEW n \in LiquidType
  PROVE  /\ n.base.txs \in Seq(Txs) /\ n.micros \in Seq(Micros)
         /\ MicroTxs(n.micros) \in Seq(Txs)
         /\ Transactions(n) \in Seq(Txs)
         /\ n.micros = <<>> => Transactions(n) = n.base.txs
<1>1. n.base.txs \in Seq(Txs) /\ n.micros \in Seq(Micros)
  BY BlocksAssumption DEF LiquidType, BlockType
<1>2. MicroTxs(n.micros) \in Seq(Txs) /\ (n.micros = <<>> => MicroTxs(n.micros) = <<>>)
  BY <1>1, MicroTxsFacts
<1>3. n.base.txs \o MicroTxs(n.micros) \in Seq(Txs)
  BY <1>1, <1>2, ConcatProperties
<1>4. n.base.txs \o <<>> = n.base.txs
  BY <1>1, ConcatEmptySeq
<1> QED BY <1>1, <1>2, <1>3, <1>4 DEF Transactions

(* A liquid block with one more microblock. *)
LEMMA MoreTransactions ==
  ASSUME NEW n \in LiquidType, NEW m \in Micros, NEW n2, n2 = [n EXCEPT !.micros = Append(n.micros, m)]
  PROVE  /\ Transactions(n2) = Transactions(n) \o m.txs
         /\ m.txs \in Seq(Txs)
         /\ n2 # NoNg
<1>1. /\ n.base.txs \in Seq(Txs) /\ n.micros \in Seq(Micros) /\ MicroTxs(n.micros) \in Seq(Txs)
      /\ m.txs \in Seq(Txs)
  BY TransactionsFacts, BlocksAssumption DEF MicroType
<1>2. n2.base = n.base /\ n2.micros = Append(n.micros, m)
  BY DEF LiquidType
<1>3. MicroTxs(Append(n.micros, m)) = MicroTxs(n.micros) \o m.txs
  BY <1>1, MicroTxsFacts
<1>4. (n.base.txs \o MicroTxs(n.micros)) \o m.txs = n.base.txs \o (MicroTxs(n.micros) \o m.txs)
  <2>1. \A a, b, c \in Seq(Txs) : (a \o b) \o c = a \o (b \o c)
    BY ConcatAssociative
  <2> QED BY <1>1, <2>1, Zenon
<1>5. n2 # NoNg
  <2>1. Append(n.micros, m) \in Seq(Micros)
    BY <1>1, AppendProperties
  <2>2. n2 \in LiquidType
    BY <2>1 DEF LiquidType
  <2> QED BY <2>2, ParameterAssumption
<1> QED BY <1>1, <1>2, <1>3, <1>4, <1>5 DEF Transactions

(* The liquid block of a successful processBlock. *)
LEMMA FreshTransactions ==
  ASSUME NEW b \in Signed, NEW n, n = [base |-> b, micros |-> <<>>]
  PROVE  n \in LiquidType /\ n # NoNg /\ Transactions(n) = b.txs /\ b.txs \in Seq(Txs)
<1>1. n \in LiquidType /\ n.micros = <<>> /\ n.base = b
  <2>1. <<>> \in Seq(Micros)
    BY EmptySeq
  <2> QED BY <2>1 DEF LiquidType
<1> QED BY <1>1, TransactionsFacts, ParameterAssumption

-----------------------------------------------------------------------------
(* What a step does to the liquid block, for the invariants about what it
   holds: a new one, one more microblock, the same one, or none. *)
LEMMA LiquidStep ==
  ASSUME IInv, [Next]_vars
  PROVE  \/ \E b \in Signed : /\ ng' = [base |-> b, micros |-> <<>>]
                              /\ rest' = MaxTotal - Len(b.txs)
                              /\ \/ chain' = chain /\ (LedgerExact => Applicable(Ledger, b.txs))
                                 \/ chain' = chain /\ chain = <<>> /\ b = Genesis
                                 \/ b \in Blocks /\ Harden(b)
         \/ \E m \in Micros : ProcessMicroBlock(m)
         \/ UNCHANGED <<chain, ng, rest>>
         \/ UNCHANGED chain /\ ng' = NoNg
         \/ RollbackStep /\ ng = NoNg /\ ng' = NoNg
<1>1. ASSUME NEW b \in Blocks, AppendToPersisted(b) \/ ReplaceLiquid(b)
      PROVE  /\ b \in Signed /\ ng' = [base |-> b, micros |-> <<>>] /\ rest' = MaxTotal - Len(b.txs)
             /\ chain' = chain /\ (LedgerExact => Applicable(Ledger, b.txs))
  BY <1>1 DEF AppendToPersisted, ReplaceLiquid, NewLiquid, MayPass
<1>2. ASSUME NEW b \in Blocks, Harden(b)
      PROVE  b \in Signed /\ ng' = [base |-> b, micros |-> <<>>] /\ rest' = MaxTotal - Len(b.txs)
  BY <1>2 DEF Harden, NewLiquid, MayPass
<1>3. ASSUME Restart
      PROVE  \/ /\ ng' = [base |-> Genesis, micros |-> <<>>] /\ rest' = MaxTotal - Len(Genesis.txs)
                /\ chain' = chain /\ chain = <<>> /\ Genesis \in Signed
             \/ UNCHANGED chain /\ ng' = NoNg
  BY <1>3, BlocksAssumption DEF Restart
<1>4. ASSUME RollbackStep PROVE ng = NoNg /\ ng' = NoNg
  BY <1>4 DEF RollbackStep, IInv, NoLiquidWhileRolling
<1>5. ASSUME NEW b \in Blocks, RefuseCompetitor(b) \/ RefuseChild(b)
      PROVE  UNCHANGED <<chain, ng, rest>>
  BY <1>5 DEF RefuseCompetitor, RefuseChild
<1>6. ASSUME NEW id \in Ids, RemoveAfterInLiquid(id) \/ RemoveAfterRefused(id) \/ RemoveAfterStart(id)
      PROVE  UNCHANGED <<chain, ng, rest>> \/ (UNCHANGED chain /\ ng' = NoNg)
  BY <1>6 DEF RemoveAfterInLiquid, RemoveAfterRefused, RemoveAfterStart
<1>7. ASSUME RemoveAfterDone \/ UNCHANGED vars PROVE UNCHANGED <<chain, ng, rest>>
  BY <1>7 DEF RemoveAfterDone, vars
<1> QED BY <1>1, <1>2, <1>3, <1>4, <1>5, <1>6, <1>7 DEF Next, ProcessBlock

(* The capacity that is left is accounted for by every step. *)
LEMMA NextCapacity ==
  ASSUME IInv, CapacityAccounted, [Next]_vars
  PROVE  CapacityAccounted'
<1>1. /\ ng \in LiquidType \cup {NoNg} /\ MaxTotal \in Nat /\ rest \in Nat
  BY ParameterAssumption DEF IInv, TypeOK
<1>2. ASSUME NEW b \in Signed, ng' = [base |-> b, micros |-> <<>>], rest' = MaxTotal - Len(b.txs)
      PROVE  CapacityAccounted'
  <2>1. Transactions(ng') = b.txs /\ b.txs \in Seq(Txs)
    BY <1>2, FreshTransactions
  <2>2. Len(b.txs) \in Nat
    BY <2>1, LenProperties
  <2>3. rest' + Len(Transactions(ng')) = MaxTotal
    BY <1>1, <1>2, <2>1, <2>2
  <2> QED BY <2>3 DEF CapacityAccounted
<1>3. ASSUME NEW m \in Micros, ProcessMicroBlock(m) PROVE CapacityAccounted'
  <2>1. /\ ng # NoNg /\ ng \in LiquidType /\ rest' = rest - Len(m.txs)
        /\ ng' = [ng EXCEPT !.micros = Append(ng.micros, m)]
    BY <1>1, <1>3 DEF ProcessMicroBlock
  <2>2. Transactions(ng') = Transactions(ng) \o m.txs /\ m.txs \in Seq(Txs)
    BY <2>1, MoreTransactions
  <2>3. Transactions(ng) \in Seq(Txs)
    BY <2>1, TransactionsFacts
  <2>4. /\ Len(Transactions(ng')) = Len(Transactions(ng)) + Len(m.txs)
        /\ Len(Transactions(ng)) \in Nat /\ Len(m.txs) \in Nat
    BY <2>2, <2>3, ConcatProperties, LenProperties
  <2>5. rest + Len(Transactions(ng)) = MaxTotal
    BY <2>1 DEF CapacityAccounted
  <2>6. rest' + Len(Transactions(ng')) = MaxTotal
    BY <1>1, <2>1, <2>4, <2>5
  <2> QED BY <2>6 DEF CapacityAccounted
<1>4. ASSUME UNCHANGED <<ng, rest>> \/ ng' = NoNg PROVE CapacityAccounted'
  BY <1>4 DEF CapacityAccounted
<1> QED BY <1>2, <1>3, <1>4, LiquidStep

(* A fresh node has the capacity genesis leaves. *)
LEMMA InitCapacity == Init => CapacityAccounted
<1> SUFFICES ASSUME Init PROVE CapacityAccounted
  OBVIOUS
<1>1. Transactions(ng) = Genesis.txs /\ Genesis.txs \in Seq(Txs)
  BY FreshTransactions, BlocksAssumption DEF Init
<1>2. Len(Genesis.txs) \in Nat /\ MaxTotal \in Nat
  BY <1>1, LenProperties, ParameterAssumption
<1> QED BY <1>1, <1>2 DEF Init, CapacityAccounted

(* restTotalConstraint always is what base and microblocks leave of the
   capacity: processMicroBlock never lets a block outgrow it. *)
THEOREM CapacityKept == Spec => []CapacityAccounted
<1>1. IInv /\ CapacityAccounted /\ [Next]_vars => CapacityAccounted'
  BY NextCapacity
<1> QED BY <1>1, InitCapacity, Invariance, PTL DEF Spec

-----------------------------------------------------------------------------
(* Without repetitions. *)
Distinct(s) == \A i, j \in 1 .. Len(s) : s[i] = s[j] => i = j

(* What the state the differs validate against contributes: a transaction that
   is in the ledger, or twice in what is appended, is not applicable
   (TransactionDiffer asks containsTransaction of the composite state). *)
RefusesRepeats ==
  \A ledger, txs \in Seq(Txs) : Distinct(ledger) /\ Applicable(ledger, txs) => Distinct(ledger \o txs)

(* The whole ledger of a chain and a liquid block. *)
Whole(c, n) == LedgerOf(c) \o (IF n = NoNg THEN <<>> ELSE Transactions(n))

LEMMA DistinctPrefix ==
  ASSUME NEW s \in Seq(Txs), NEW t \in Seq(Txs), Distinct(s \o t)
  PROVE  Distinct(s)
<1>1. /\ Len(s \o t) = Len(s) + Len(t) /\ Len(s) \in Nat /\ Len(t) \in Nat
      /\ \A i \in 1 .. Len(s) + Len(t) : (s \o t)[i] = IF i <= Len(s) THEN s[i] ELSE t[i - Len(s)]
  BY ConcatProperties, LenProperties
<1>2. \A i \in 1 .. Len(s) : i \in 1 .. Len(s \o t) /\ (s \o t)[i] = s[i]
  BY <1>1
<1> QED BY <1>2 DEF Distinct

LEMMA WholeFacts ==
  ASSUME NEW c \in Seq(EntryType), NEW n \in LiquidType \cup {NoNg}
  PROVE  /\ LedgerOf(c) \in Seq(Txs)
         /\ n = NoNg => Whole(c, n) = LedgerOf(c)
         /\ n # NoNg => Whole(c, n) = LedgerOf(c) \o Transactions(n) /\ Transactions(n) \in Seq(Txs)
         /\ Distinct(Whole(c, n)) => Distinct(LedgerOf(c))
<1>1. LedgerOf(c) \in Seq(Txs) /\ LedgerOf(c) \o <<>> = LedgerOf(c)
  BY LedgerFacts, ConcatEmptySeq
<1>2. n # NoNg => Transactions(n) \in Seq(Txs)
  BY TransactionsFacts
<1>3. CASE n = NoNg
  BY <1>1, <1>3 DEF Whole
<1>4. CASE n # NoNg
  <2>1. Whole(c, n) = LedgerOf(c) \o Transactions(n)
    BY <1>4 DEF Whole
  <2>2. Distinct(LedgerOf(c) \o Transactions(n)) => Distinct(LedgerOf(c))
    BY <1>1, <1>2, <1>4, DistinctPrefix
  <2> QED BY <1>1, <1>2, <1>4, <2>1, <2>2
<1> QED BY <1>3, <1>4

(* The microblock NgState.forgeBlock stops at. *)
LEMMA ForgeIndexFacts ==
  ASSUME NEW n \in LiquidType, NEW id, NgContains(n, id)
  PROVE  /\ ForgeIndex(n, id) \in 0 .. Len(n.micros)
         /\ n.base.id = id => ForgeIndex(n, id) = 0
         /\ n.base.id # id => ForgeIndex(n, id) > 0 /\ n.micros[ForgeIndex(n, id)].total = id
<1>1. n.micros \in Seq(Micros) /\ Len(n.micros) \in Nat
  BY LenProperties DEF LiquidType
<1>2. CASE n.base.id = id
  BY <1>1, <1>2 DEF ForgeIndex
<1>3. CASE n.base.id # id
  <2> DEFINE Is(k) == n.micros[k].total = id /\ \A j \in 1 .. k - 1 : n.micros[j].total # id
             T == {k \in 1 .. Len(n.micros) : n.micros[k].total = id}
  <2>1. T # {} /\ T \in SUBSET Nat
    <3>1. id \in {n.micros[i].total : i \in 1 .. Len(n.micros)}
      BY <1>3 DEF NgContains, MicroBlockIds
    <3> QED BY <1>1, <3>1
  <2>2. PICK k \in T : \A y \in T : k <= y
    BY <2>1, Least
  <2>3. k \in 1 .. Len(n.micros) /\ Is(k)
    <3>1. ASSUME NEW j \in 1 .. k - 1, n.micros[j].total = id PROVE FALSE
      <4>1. j \in T /\ ~(k <= j)
        BY <1>1, <3>1
      <4> QED BY <2>2, <4>1
    <3> QED BY <3>1
  <2>4. ForgeIndex(n, id) = CHOOSE i \in 1 .. Len(n.micros) : Is(i)
    BY <1>3 DEF ForgeIndex
  <2>5. ForgeIndex(n, id) \in 1 .. Len(n.micros) /\ Is(ForgeIndex(n, id))
    BY <2>3, <2>4
  <2> QED BY <1>1, <1>3, <2>5
<1> QED BY <1>2, <1>3

(* The block that Harden persists holds a prefix of the liquid transactions. *)
LEMMA ForgedPrefix ==
  ASSUME NEW n \in LiquidType, NEW id, NgContains(n, id)
  PROVE  \E t \in Seq(Txs) : /\ ForgeBlock(n, id).txs \in Seq(Txs)
                             /\ Transactions(n) = ForgeBlock(n, id).txs \o t
<1>0. \A a, b, c \in Seq(Txs) : (a \o b) \o c = a \o (b \o c)
  BY ConcatAssociative
<1>1. /\ n.base.txs \in Seq(Txs) /\ n.micros \in Seq(Micros) /\ MicroTxs(n.micros) \in Seq(Txs)
      /\ n.base \in BlockType
  BY TransactionsFacts, BlocksAssumption DEF LiquidType
<1>2. CASE n.base.id = id
  <2>1. ForgeBlock(n, id).txs = n.base.txs
    BY <1>2 DEF ForgeBlock
  <2> QED BY <1>1, <2>1 DEF Transactions
<1>3. CASE n.base.id # id
  <2> DEFINE k0 == ForgeIndex(n, id)
  <2>6. ForgeBlock(n, id).txs = n.base.txs \o MicroTxs(SubSeq(n.micros, 1, k0))
    BY <1>1, <1>3 DEF ForgeBlock, Create, BlockType
  <2>7. k0 \in 0 .. Len(n.micros)
    BY ForgeIndexFacts
  <2> HIDE DEF k0
  <2>8. PICK t \in Seq(Txs) : /\ MicroTxs(SubSeq(n.micros, 1, k0)) \in Seq(Txs)
                              /\ MicroTxs(n.micros) = MicroTxs(SubSeq(n.micros, 1, k0)) \o t
    BY <1>1, <2>7, MicroTxsFacts
  <2> DEFINE u == MicroTxs(SubSeq(n.micros, 1, k0))
  <2>9. n.base.txs \o u \in Seq(Txs)
    BY <1>1, <2>8, ConcatProperties
  <2>11. n.base.txs \o (u \o t) = (n.base.txs \o u) \o t
    BY <1>1, <2>8, <1>0, Zenon
  <2>12. Transactions(n) = n.base.txs \o (u \o t) /\ u \in Seq(Txs)
    BY <2>8 DEF Transactions
  <2>13. ForgeBlock(n, id).txs = n.base.txs \o u
    BY <2>6
  <2> HIDE DEF u
  <2> QED BY <2>9, <2>11, <2>12, <2>13
<1> QED BY <1>2, <1>3

(* While total ids are new, what is persisted is the state of its blocks. *)
LEMMA NextExact ==
  ASSUME IInv, TotalsDistinct, LedgerExact, [Next]_vars
  PROVE  LedgerExact'
<1>1. TypeOK /\ chain \in Seq(EntryType) /\ Len(chain) \in Nat
  BY LenProperties DEF IInv, TypeOK
<1>2. CASE chain' = chain
  BY <1>2 DEF LedgerExact
<1>3. ASSUME NEW b \in Blocks, Harden(b) PROVE LedgerExact'
  <2>1. PICK f \in Signed : AppendPersisted(f)
    BY <1>3 DEF Harden, ExtendsLiquid
  <2>2. /\ Len(chain') = Len(chain) + 1
        /\ \A h \in 1 .. Len(chain) : chain'[h] = chain[h]
        /\ chain'[Len(chain) + 1].exact = TotalsDistinct
    BY <1>1, <2>1, AppendPersistedEffect
  <2>3. \A h \in 1 .. Len(chain) + 1 : h \in 1 .. Len(chain) \/ h = Len(chain) + 1
    BY <1>1
  <2> QED BY <2>2, <2>3 DEF LedgerExact
<1>4. CASE RollbackStep
  <2>1. Len(chain) > 0 /\ chain' = SubSeq(chain, 1, Len(chain) - 1)
    BY <1>1, <1>4 DEF RollbackStep, TypeOK
  <2>2. /\ Len(chain) = Len(chain') + 1
        /\ \A h \in 1 .. Len(chain') : chain[h] = chain'[h]
    BY <1>1, <2>1, WithoutLast
  <2>3. \A h \in 1 .. Len(chain') : h \in 1 .. Len(chain)
    <3>1. Len(chain') = Len(chain) - 1
      BY <1>1, <2>1, WithoutLast
    <3> QED BY <1>1, <3>1
  <2> QED BY <2>2, <2>3 DEF LedgerExact
<1> QED BY <1>2, <1>3, <1>4, LiquidStep DEF ProcessMicroBlock

(* No step makes a transaction appear twice. *)
LEMMA NextDistinct ==
  ASSUME RefusesRepeats, IInv, TotalsDistinct, LedgerExact, Distinct(Whole(chain, ng)),
         [Next]_vars
  PROVE  Distinct(Whole(chain', ng'))
<1>1. /\ TypeOK /\ TypeOK'
      /\ chain \in Seq(EntryType) /\ chain' \in Seq(EntryType)
      /\ ng \in LiquidType \cup {NoNg} /\ ng' \in LiquidType \cup {NoNg}
  BY NextTyped DEF IInv, TypeOK
<1>2. Ledger = LedgerOf(chain) /\ LedgerOf(chain) \in Seq(Txs) /\ Distinct(LedgerOf(chain))
  BY <1>1, LedgerIs, WholeFacts
<1>3. ASSUME NEW b \in Signed, ng' = [base |-> b, micros |-> <<>>],
             NEW l \in Seq(Txs), LedgerOf(chain') = l, Distinct(l), Applicable(l, b.txs)
      PROVE  Distinct(Whole(chain', ng'))
  <2>1. ng' # NoNg /\ Transactions(ng') = b.txs /\ b.txs \in Seq(Txs)
    BY <1>3, FreshTransactions
  <2>2. Whole(chain', ng') = l \o b.txs
    BY <1>3, <2>1 DEF Whole
  <2>3. Distinct(l \o b.txs)
    BY <1>3, <2>1 DEF RefusesRepeats
  <2> QED BY <2>2, <2>3
<1>4. ASSUME NEW b \in Signed, ng' = [base |-> b, micros |-> <<>>], chain' = chain,
             Applicable(Ledger, b.txs)
      PROVE  Distinct(Whole(chain', ng'))
  BY <1>2, <1>3, <1>4
<1>5. ASSUME ng' = [base |-> Genesis, micros |-> <<>>], chain' = chain, chain = <<>>
      PROVE  Distinct(Whole(chain', ng'))
  <2>1. LedgerOf(chain) = <<>>
    BY <1>1, <1>5, LedgerFacts
  <2> QED BY <1>2, <1>3, <1>5, <2>1, BlocksAssumption, ParameterAssumption
<1>6. ASSUME NEW b \in Blocks, Harden(b), b \in Signed, ng' = [base |-> b, micros |-> <<>>]
      PROVE  Distinct(Whole(chain', ng'))
  <2> DEFINE f == ForgeBlock(ng, b.ref)
  <2>1. /\ ng # NoNg /\ ng \in LiquidType /\ NgContains(ng, b.ref) /\ f \in Signed
        /\ Applicable(Ledger \o f.txs, b.txs) /\ AppendPersisted(f)
    BY <1>1, <1>6 DEF Harden, ExtendsLiquid, MayPass, LiquidExact
  <2> HIDE DEF f
  <2>2. PICK t \in Seq(Txs) : f.txs \in Seq(Txs) /\ Transactions(ng) = f.txs \o t
    BY <2>1, ForgedPrefix DEF f
  <2>3. /\ Len(chain') = Len(chain) + 1
        /\ \A h \in 1 .. Len(chain) : chain'[h] = chain[h]
        /\ chain'[Len(chain) + 1].block = f
    BY <1>1, <2>1, AppendPersistedEffect
  <2>4. LedgerOf(chain') = LedgerOf(chain) \o f.txs
    BY <1>1, <2>3, LedgerFacts
  <2>5. /\ LedgerOf(chain) \o f.txs \in Seq(Txs)
        /\ Whole(chain, ng) = (LedgerOf(chain) \o f.txs) \o t
    <3>1. \A a, u, c \in Seq(Txs) : (a \o u) \o c = a \o (u \o c)
      BY ConcatAssociative
    <3>2. Whole(chain, ng) = LedgerOf(chain) \o (f.txs \o t)
      BY <1>1, <2>1, <2>2, WholeFacts
    <3>3. LedgerOf(chain) \o (f.txs \o t) = (LedgerOf(chain) \o f.txs) \o t
      BY <1>2, <2>2, <3>1, Zenon
    <3> QED BY <1>2, <2>2, <3>2, <3>3, ConcatProperties
  <2>6. Distinct(LedgerOf(chain) \o f.txs)
    BY <2>5, DistinctPrefix
  <2> QED BY <1>2, <1>3, <1>6, <2>1, <2>4, <2>5, <2>6
<1>7. ASSUME NEW m \in Micros, ProcessMicroBlock(m) PROVE Distinct(Whole(chain', ng'))
  <2>1. /\ ng # NoNg /\ ng \in LiquidType /\ chain' = chain
        /\ ng' = [ng EXCEPT !.micros = Append(ng.micros, m)]
        /\ Applicable(Ledger \o Transactions(ng), m.txs)
    BY <1>1, <1>7 DEF ProcessMicroBlock, LiquidExact
  <2>2. Transactions(ng') = Transactions(ng) \o m.txs /\ m.txs \in Seq(Txs)
    BY <2>1, MoreTransactions
  <2>3. Transactions(ng) \in Seq(Txs) /\ Whole(chain, ng) = LedgerOf(chain) \o Transactions(ng)
    BY <1>1, <2>1, WholeFacts
  <2>4. ng' # NoNg
    <3>1. Append(ng.micros, m) \in Seq(Micros)
      BY <2>1, TransactionsFacts, AppendProperties
    <3>2. ng' \in LiquidType
      BY <2>1, <3>1 DEF LiquidType
    <3> QED BY <3>2, ParameterAssumption
  <2>5. Whole(chain', ng') = (LedgerOf(chain) \o Transactions(ng)) \o m.txs
    <3>1. \A a, u, c \in Seq(Txs) : (a \o u) \o c = a \o (u \o c)
      BY ConcatAssociative
    <3>2. LedgerOf(chain) \o (Transactions(ng) \o m.txs) = (LedgerOf(chain) \o Transactions(ng)) \o m.txs
      BY <1>2, <2>2, <2>3, <3>1, Zenon
    <3> QED BY <2>1, <2>2, <2>4, <3>2 DEF Whole
  <2>6. LedgerOf(chain) \o Transactions(ng) \in Seq(Txs)
    BY <1>2, <2>3, ConcatProperties
  <2> QED BY <1>2, <2>1, <2>2, <2>3, <2>5, <2>6 DEF RefusesRepeats
<1>8. ASSUME UNCHANGED chain, ng' = ng \/ ng' = NoNg PROVE Distinct(Whole(chain', ng'))
  BY <1>1, <1>2, <1>8, WholeFacts
<1>9. ASSUME RollbackStep, ng = NoNg, ng' = NoNg PROVE Distinct(Whole(chain', ng'))
  <2>1. Len(chain) \in Nat /\ Len(chain) > 0 /\ chain' = SubSeq(chain, 1, Len(chain) - 1)
    BY <1>1, <1>9, LenProperties DEF RollbackStep, TypeOK
  <2>2. /\ Len(chain) = Len(chain') + 1
        /\ \A h \in 1 .. Len(chain') : chain[h] = chain'[h]
    BY <1>1, <2>1, WithoutLast
  <2>3. LedgerOf(chain) = LedgerOf(chain') \o chain[Len(chain') + 1].block.txs
    BY <1>1, <2>2, LedgerFacts
  <2>4. LedgerOf(chain') \in Seq(Txs)
    BY <1>1, LedgerFacts
  <2>5. chain[Len(chain') + 1].block.txs \in Seq(Txs)
    <3>1. chain[Len(chain)] \in EntryType
      BY <1>1, <2>1, ElementOfSeq
    <3> QED BY <2>2, <3>1, BlocksAssumption DEF EntryType, BlockType
  <2>6. Distinct(LedgerOf(chain'))
    BY <1>2, <2>3, <2>4, <2>5, DistinctPrefix
  <2> QED BY <1>1, <1>9, <2>6, WholeFacts
<1> QED BY <1>4, <1>5, <1>6, <1>7, <1>8, <1>9, LiquidStep

LEMMA InitDistinct == RefusesRepeats /\ Init => Distinct(Whole(chain, ng))
<1> SUFFICES ASSUME RefusesRepeats, Init PROVE Distinct(Whole(chain, ng))
  OBVIOUS
<1>1. Transactions(ng) = Genesis.txs /\ Genesis.txs \in Seq(Txs) /\ ng # NoNg
  BY FreshTransactions, BlocksAssumption DEF Init
<1>2. LedgerOf(chain) = <<>>
  <2>1. chain \in Seq(EntryType) /\ chain = <<>>
    BY EmptySeq DEF Init
  <2> QED BY <2>1, LedgerFacts
<1>3. <<>> \in Seq(Txs) /\ Distinct(<<>>)
  BY EmptySeq DEF Distinct
<1> QED BY <1>1, <1>2, <1>3, ParameterAssumption DEF Whole, RefusesRepeats

LEMMA InitExact == Init => LedgerExact
BY DEF Init, LedgerExact

LEMMA DistinctIsNoTxTwice ==
  ASSUME chain \in Seq(EntryType), Distinct(Whole(chain, ng))
  PROVE  NoTxTwice
BY LedgerIs DEF NoTxTwice, Distinct, Whole

(* If the state refuses a transaction it holds, and total ids are new, no
   transaction is applied twice on the current chain, through hardening, forks
   inside the liquid block, microblocks, rollbacks and restarts. *)
THEOREM NothingAppliedTwice ==
  ASSUME RefusesRepeats
  PROVE  Spec /\ []TotalsDistinct => []NoTxTwice
<1>1. Init => LedgerExact /\ Distinct(Whole(chain, ng))
  BY InitDistinct, InitExact
<1>2. IInv /\ TotalsDistinct /\ (LedgerExact /\ Distinct(Whole(chain, ng))) /\ [Next]_vars
        => (LedgerExact /\ Distinct(Whole(chain, ng)))'
  BY NextDistinct, NextExact
<1>3. IInv /\ Distinct(Whole(chain, ng)) => NoTxTwice
  BY DistinctIsNoTxTwice DEF IInv, TypeOK
<1> QED BY <1>1, <1>2, <1>3, Invariance, PTL DEF Spec

-----------------------------------------------------------------------------
(* The node with its event stream (module BlockchainUpdates).  The updater
   takes its own steps, except that a crash is separated from the start that
   follows it. *)
Died ==
  /\ ng' = NoNg
  /\ rest' = MaxTotal
  /\ rolling' = 0
  /\ UNCHANGED <<chain, safe, announced>>
  /\ Publish

LEMMA EventSteps ==
  ASSUME IInv, [EventNext]_eventVars
  PROVE  [Next]_vars \/ Died
<1>1. CASE Loud \/ Quiet \/ StartupEmpty
  BY <1>1 DEF Loud, Quiet, StartupEmpty, Next
<1>2. CASE Crash
  BY <1>2 DEF Crash, Died
<1>3. CASE Deliver \/ StartupRefused \/ UNCHANGED eventVars
  BY <1>3 DEF Deliver, StartupRefused, eventVars
<1>4. CASE StartupRewind
  <2>1. PICK h \in 1 .. Len(chain) : \/ RemoveAfterStart(chain[h].block.id)
                                     \/ RemoveAfterRefused(chain[h].block.id)
    BY <1>4 DEF StartupRewind
  <2>2. chain[h].block.id \in Ids
    <3>1. chain \in Seq(EntryType)
      BY DEF IInv, TypeOK
    <3>2. chain[h] \in EntryType
      BY <3>1, ElementOfSeq
    <3> QED BY <3>2, BlocksAssumption DEF EntryType, BlockType
  <2> QED BY <2>1, <2>2 DEF Next
<1>5. CASE Rewinding
  BY <1>5 DEF Rewinding, Next
<1> QED BY <1>1, <1>2, <1>3, <1>4, <1>5 DEF EventNext

(* What a crash leaves is a persisted chain without a liquid block. *)
LEMMA DiedKeeps ==
  ASSUME IInv, Died
  PROVE  /\ IInv' /\ InfoInSync' /\ CapacityAccounted'
         /\ Distinct(Whole(chain, ng)) => Distinct(Whole(chain', ng'))
         /\ LedgerExact => LedgerExact'
<1>1. TypeOK /\ chain \in Seq(EntryType) /\ ng \in LiquidType \cup {NoNg}
  BY DEF IInv, TypeOK
<1>2. info' \in InfoType
  BY <1>1, PublishTyped DEF Died, TypeOK
<1>3. TypeOK'
  BY <1>1, <1>2, ParameterAssumption DEF TypeOK, Died
<1>4. IInv'
  BY <1>3, SameChain DEF Died
<1>5. InfoInSync'
  BY PublishSyncs DEF Died
<1>6. CapacityAccounted'
  BY DEF CapacityAccounted, Died
<1>7. ASSUME Distinct(Whole(chain, ng)) PROVE Distinct(Whole(chain', ng'))
  <2>1. Distinct(LedgerOf(chain))
    BY <1>1, <1>7, WholeFacts
  <2>2. Whole(chain, NoNg) = LedgerOf(chain)
    BY <1>1, WholeFacts
  <2>3. chain' = chain /\ ng' = NoNg
    BY DEF Died
  <2> QED BY <2>1, <2>2, <2>3
<1>8. LedgerExact => LedgerExact'
  BY DEF Died, LedgerExact
<1> QED BY <1>4, <1>5, <1>6, <1>7, <1>8

(* One step of the node with its event stream. *)
LEMMA EventNextKeeps ==
  ASSUME IInv, [EventNext]_eventVars
  PROVE  /\ IInv'
         /\ InfoInSync => InfoInSync'
         /\ CapacityAccounted => CapacityAccounted'
         /\ TotalsDistinct /\ LedgerExact => LedgerExact'
         /\ RefusesRepeats /\ TotalsDistinct /\ LedgerExact /\ Distinct(Whole(chain, ng))
              => Distinct(Whole(chain', ng'))
<1>1. CASE [Next]_vars
  BY <1>1, NextIInv, NextInfo, NextCapacity, NextDistinct, NextExact
<1>2. CASE Died
  BY <1>2, DiedKeeps
<1> QED BY <1>1, <1>2, EventSteps

(* The inductive invariant of the updater survives crashes, the comparison with
   the topic and the rollback it orders at the start. *)
THEOREM EventInvariance == EventSpec => []IInv
<1>1. EventInit => IInv
  BY InitIInv DEF EventInit
<1>2. IInv /\ [EventNext]_eventVars => IInv'
  BY EventNextKeeps
<1> QED BY <1>1, <1>2, PTL DEF EventSpec

(* Linked chain, accumulated scores, rollback window, published block and
   capacity, for a node that crashes at any point and is rewound at its start. *)
THEOREM NodeStaysSound ==
  EventSpec => [](TypeOK /\ Linked /\ ScoreAccumulates /\ RollbackWindow /\ InfoInSync
                  /\ CapacityAccounted)
<1>1. EventInit => InfoInSync /\ CapacityAccounted
  BY InitInfo, InitCapacity DEF EventInit
<1>2. IInv /\ (InfoInSync /\ CapacityAccounted) /\ [EventNext]_eventVars
        => (InfoInSync /\ CapacityAccounted)'
  BY EventNextKeeps
<1>3. IInv => TypeOK /\ Linked /\ ScoreAccumulates /\ RollbackWindow
  BY DEF IInv, Linked
<1> QED BY <1>1, <1>2, <1>3, EventInvariance, PTL DEF EventSpec

(* Nothing is applied twice by such a node either, while total ids are new. *)
THEOREM NodeAppliesOnce ==
  ASSUME RefusesRepeats
  PROVE  EventSpec /\ []TotalsDistinct => []NoTxTwice
<1>1. EventInit => LedgerExact /\ Distinct(Whole(chain, ng))
  BY InitDistinct, InitExact DEF EventInit
<1>2. IInv /\ TotalsDistinct /\ (LedgerExact /\ Distinct(Whole(chain, ng)))
        /\ [EventNext]_eventVars => (LedgerExact /\ Distinct(Whole(chain, ng)))'
  BY EventNextKeeps
<1>3. IInv /\ Distinct(Whole(chain, ng)) => NoTxTwice
  BY DistinctIsNoTxTwice DEF IInv, TypeOK
<1> QED BY <1>1, <1>2, <1>3, EventInvariance, PTL DEF EventSpec

(* Finality and score monotonicity hold across crashes and startup rewinds: the
   start never rolls a node back below its safe height, whatever Kafka holds. *)
THEOREM NodeFinality == EventSpec => Finality /\ OnlyRollbackLowersScore
<1>1. IInv /\ [EventNext]_eventVars =>
        /\ [/\ safe <= safe'
            /\ \A h \in 1 .. Len(chain) :
                 h <= safe + 1 => h <= Len(chain') /\ chain'[h] = chain[h]]_vars
        /\ [ScoreOf(chain', ng') < ScoreOf(chain, ng) => ng' = NoNg]_vars
  <2> SUFFICES ASSUME IInv, [EventNext]_eventVars
               PROVE  /\ safe <= safe'
                      /\ \A h \in 1 .. Len(chain) :
                           h <= safe + 1 => h <= Len(chain') /\ chain'[h] = chain[h]
                      /\ ScoreOf(chain', ng') < ScoreOf(chain, ng) => ng' = NoNg
    OBVIOUS
  <2>1. CASE [Next]_vars
    BY <2>1, NextFinal, NextScore
  <2>2. CASE Died
    BY <2>2 DEF Died, IInv, TypeOK
  <2> QED BY <2>1, <2>2, EventSteps
<1> QED BY <1>1, EventInvariance, PTL DEF EventSpec, Finality, OnlyRollbackLowersScore

-----------------------------------------------------------------------------
(* The stream: what is in flight and in the topic are heights, and a process
   that starts has nothing in flight. *)
StreamTyped ==
  /\ pending \in Seq(Nat)
  /\ kafka \in Nat
  /\ node = "starting" => pending = <<>>

EventIInv == StreamTyped /\ EventsFollowChain

(* An event that is announced is the last one of the stream. *)
LEMMA AnnouncedIsLast ==
  ASSUME StreamTyped, announced' \in Nat, Announce, kafka' = kafka
  PROVE  LastEvent' = announced' /\ pending' \in Seq(Nat)
<1>1. pending \in Seq(Nat)
  BY DEF StreamTyped
<1>2. CASE announced' = LastEvent
  BY <1>1, <1>2 DEF Announce, LastEvent
<1>3. CASE announced' # LastEvent
  <2>1. pending' = Append(pending, announced')
    BY <1>3 DEF Announce
  <2>2. /\ pending' \in Seq(Nat) /\ pending' # <<>>
        /\ Len(pending') = Len(pending) + 1 /\ Len(pending) \in Nat
        /\ pending'[Len(pending) + 1] = announced'
    BY <1>1, <2>1, AppendProperties, LenProperties
  <2> QED BY <2>2 DEF LastEvent
<1> QED BY <1>2, <1>3

(* Delivery moves the oldest event to the topic; the last event stays. *)
LEMMA DeliverKeepsLast ==
  ASSUME StreamTyped, Deliver
  PROVE  LastEvent' = LastEvent /\ pending' \in Seq(Nat) /\ kafka' \in Nat
<1>1. /\ pending \in Seq(Nat) /\ pending # <<>> /\ kafka' = pending[1]
      /\ pending' = SubSeq(pending, 2, Len(pending))
  BY DEF StreamTyped, Deliver
<1>2. Len(pending) \in Nat \ {0} /\ pending[1] \in Nat
  BY <1>1, LenProperties, EmptySeq, ElementOfSeq
<1>3. /\ pending' \in Seq(Nat)
      /\ Len(pending') = Len(pending) - 1
      /\ \A i \in 1 .. Len(pending) - 1 : pending'[i] = pending[i + 1]
  <2>1. \A i \in 2 .. Len(pending) : pending[i] \in Nat
    BY <1>1, <1>2, ElementOfSeq
  <2> DEFINE l == Len(pending)
  <2>2. 2 \in Int /\ l \in Int /\ l \in Nat \ {0}
    BY <1>2
  <2>3. /\ SubSeq(pending, 2, l) \in Seq(Nat)
        /\ Len(SubSeq(pending, 2, l)) = IF 2 <= l THEN l - 2 + 1 ELSE 0
        /\ \A i \in 1 .. l - 2 + 1 : SubSeq(pending, 2, l)[i] = pending[2 + i - 1]
    BY <2>1, <2>2, SubSeqProperties
  <2>4. pending' = SubSeq(pending, 2, l)
    BY <1>1
  <2> HIDE DEF l
  <2>5. l - 2 + 1 = l - 1 /\ \A i \in 1 .. l - 1 : 2 + i - 1 = i + 1
    BY <2>2
  <2>6. pending' \in Seq(Nat) /\ Len(pending') = l - 1
    BY <2>2, <2>3, <2>4
  <2>7. \A i \in 1 .. l - 1 : pending'[i] = pending[i + 1]
    BY <2>3, <2>4, <2>5
  <2> QED BY <2>6, <2>7 DEF l
<1>4. CASE Len(pending) = 1
  <2>1. pending' = <<>>
    BY <1>3, <1>4, EmptySeq
  <2> QED BY <1>1, <1>2, <1>3, <1>4, <2>1 DEF LastEvent
<1>5. CASE Len(pending) # 1
  <2>1. Len(pending) - 1 \in 1 .. Len(pending) - 1 /\ (Len(pending) - 1) + 1 = Len(pending)
    <3>1. \A l \in Nat \ {0} : l # 1 => l - 1 \in 1 .. l - 1 /\ (l - 1) + 1 = l
      OBVIOUS
    <3> QED BY <1>2, <1>5, <3>1
  <2>2. pending'[Len(pending')] = pending[Len(pending)]
    BY <1>3, <2>1
  <2>3. pending' # <<>>
    BY <1>3, <2>1
  <2> QED BY <1>1, <1>2, <1>3, <2>2, <2>3 DEF LastEvent
<1> QED BY <1>4, <1>5

(* The steps of the updater that send an event leave the height it carries. *)
LEMMA LoudHeight ==
  ASSUME IInv,
         \/ \E b \in Blocks : ProcessBlock(b)
         \/ \E m \in Micros : ProcessMicroBlock(m)
         \/ \E id \in Ids : RemoveAfterInLiquid(id)
         \/ RemoveAfterDone
  PROVE  announced' = HeightOf(chain', ng') /\ announced' \in Nat
<1>1. TypeOK /\ TypeOK' /\ [Next]_vars
  BY NextTyped DEF Next, IInv
<1>2. announced' \in Nat
  BY <1>1 DEF TypeOK
<1>3. ASSUME NEW b \in Blocks, b \in Signed, NewLiquid(b) PROVE announced' = HeightOf(chain', ng')
  <2>1. ng' # NoNg
    BY <1>3, FreshTransactions DEF NewLiquid
  <2> QED BY <1>3, <2>1 DEF NewLiquid, HeightOf
<1>4. ASSUME NEW b \in Blocks, AppendToPersisted(b) \/ ReplaceLiquid(b) \/ Harden(b)
      PROVE  announced' = HeightOf(chain', ng')
  BY <1>3, <1>4 DEF AppendToPersisted, ReplaceLiquid, Harden, MayPass
<1>5. ASSUME NEW b \in Blocks, RefuseCompetitor(b) \/ RefuseChild(b)
      PROVE  announced' = HeightOf(chain', ng')
  BY <1>5 DEF RefuseCompetitor, RefuseChild, BetterLiquid, LongerVersion, Competes, ExtendsLiquid,
              HeightOf
<1>6. ASSUME NEW m \in Micros, ProcessMicroBlock(m) PROVE announced' = HeightOf(chain', ng')
  <2>1. ng' # NoNg
    <3>1. ng \in LiquidType /\ ng' = [ng EXCEPT !.micros = Append(ng.micros, m)]
      BY <1>1, <1>6 DEF ProcessMicroBlock, TypeOK
    <3> QED BY <3>1, MoreTransactions
  <2> QED BY <1>6, <2>1 DEF ProcessMicroBlock, HeightOf
<1>7. ASSUME NEW id \in Ids, RemoveAfterInLiquid(id) PROVE announced' = HeightOf(chain', ng')
  BY <1>7 DEF RemoveAfterInLiquid, HeightOf
<1>8. CASE RemoveAfterDone
  BY <1>8 DEF RemoveAfterDone, HeightOf, IInv, NoLiquidWhileRolling
<1> QED BY <1>2, <1>4, <1>5, <1>6, <1>7, <1>8 DEF ProcessBlock

(* A rollback that begins or continues has a target. *)
LEMMA StillRolling ==
  ASSUME IInv, NEW id, RemoveAfterStart(id) \/ RollbackStep
  PROVE  rolling' # 0
<1>1. CASE RemoveAfterStart(id)
  <2>1. safe \in Nat /\ HeightOfPersisted(id) > safe /\ HeightOfPersisted(id) \in 1 .. Len(chain)
    BY <1>1 DEF RemoveAfterStart, RollbackAllowed, Persisted, HeightOfPersisted, IInv, TypeOK
  <2> QED BY <1>1, <2>1 DEF RemoveAfterStart
<1>2. CASE RollbackStep
  BY <1>2 DEF RollbackStep
<1> QED BY <1>1, <1>2

(* One step of the node and its stream. *)
LEMMA EventNextIInv ==
  ASSUME IInv, EventIInv, [EventNext]_eventVars
  PROVE  EventIInv'
<1>1. StreamTyped /\ EventsFollowChain
  BY DEF EventIInv
<1>2. ASSUME announced' = HeightOf(chain', ng'), announced' \in Nat, Announce,
             kafka' = kafka, node' = "up"
      PROVE  EventIInv'
  <2>1. LastEvent' = HeightOf(chain', ng') /\ pending' \in Seq(Nat)
    BY <1>1, <1>2, AnnouncedIsLast
  <2> QED BY <1>1, <1>2, <2>1 DEF EventIInv, StreamTyped, EventsFollowChain
<1>3. CASE Loud
  BY <1>2, <1>3, LoudHeight DEF Loud
<1>4. CASE Quiet
  <2>1. UNCHANGED <<pending, kafka, node>> /\ StreamTyped' /\ LastEvent' = LastEvent
    BY <1>1, <1>4 DEF Quiet, StreamTyped, LastEvent
  <2>2. ASSUME NEW id \in Ids, RemoveAfterRefused(id) PROVE EventsFollowChain'
    <3>1. rolling = 0 /\ ng' = NoNg /\ chain' = chain
      BY <2>2 DEF RemoveAfterRefused
    <3> QED BY <1>1, <1>4, <2>1, <3>1 DEF EventsFollowChain, HeightOf, Quiet
  <2>3. ASSUME rolling' # 0 PROVE EventsFollowChain'
    BY <2>3 DEF EventsFollowChain
  <2> QED BY <1>4, <2>1, <2>2, <2>3, StillRolling DEF Quiet, EventIInv
<1>5. CASE Deliver
  <2>1. LastEvent' = LastEvent /\ pending' \in Seq(Nat) /\ kafka' \in Nat
    BY <1>1, <1>5, DeliverKeepsLast
  <2>2. UNCHANGED <<chain, ng, rolling, node>> /\ node # "starting"
    BY <1>1, <1>5 DEF Deliver, vars, StreamTyped
  <2>3. EventsFollowChain'
    BY <1>1, <2>1, <2>2 DEF EventsFollowChain, HeightOf
  <2> QED BY <2>1, <2>2, <2>3 DEF EventIInv, StreamTyped
<1>6. CASE Crash
  BY <1>1, <1>6 DEF Crash, EventIInv, StreamTyped, EventsFollowChain
<1>7. CASE StartupRefused
  BY <1>1, <1>7 DEF StartupRefused, EventIInv, StreamTyped, EventsFollowChain
<1>8. CASE StartupEmpty
  <2>1. /\ pending = <<>> /\ kafka = 0 /\ kafka' = 0 /\ node' = "up" /\ Restart
        /\ chain \in Seq(EntryType)
    BY <1>1, <1>8 DEF StartupEmpty, StreamTyped, IInv, TypeOK
  <2>2. CASE chain = <<>>
    <3>1. /\ ng' = [base |-> Genesis, micros |-> <<>>] /\ announced' = 1 /\ Announce
          /\ chain' = <<>>
      BY <1>8, <2>1, <2>2 DEF Restart, StartupEmpty
    <3>2. ng' # NoNg
      BY <3>1, BlocksAssumption, FreshTransactions
    <3>3. announced' = HeightOf(chain', ng') /\ announced' \in Nat
      BY <3>1, <3>2 DEF HeightOf
    <3> QED BY <1>2, <2>1, <3>1, <3>3
  <2>3. CASE chain # <<>>
    <3>1. pending' = <<>> /\ ng' = NoNg /\ chain' = chain
      BY <1>8, <2>1, <2>3 DEF Restart, StartupEmpty
    <3>2. Len(chain) = 1
      <4>1. ~(Len(chain) > 1) /\ Len(chain) \in Nat /\ Len(chain) # 0
        BY <1>8, <2>1, <2>3, LenProperties, EmptySeq DEF StartupEmpty, NoEvents
      <4> QED BY <4>1
    <3>3. LastEvent' = 0
      BY <2>1, <3>1 DEF LastEvent
    <3> QED BY <2>1, <3>1, <3>2, <3>3 DEF EventIInv, StreamTyped, EventsFollowChain
  <2> QED BY <2>2, <2>3
<1>9. CASE StartupRewind
  BY <1>1, <1>9 DEF StartupRewind, EventIInv, StreamTyped, EventsFollowChain
<1>10. CASE Rewinding
  <2>1. CASE RollbackStep /\ UNCHANGED <<pending, node>>
    BY <1>1, <1>10, <2>1 DEF Rewinding, RollbackStep, EventIInv, StreamTyped, EventsFollowChain
  <2>2. CASE RemoveAfterDone /\ Announce /\ node' = "up"
    BY <1>2, <1>10, <2>2, LoudHeight DEF Rewinding
  <2> QED BY <1>10, <2>1, <2>2 DEF Rewinding
<1>11. CASE UNCHANGED eventVars
  BY <1>1, <1>11 DEF eventVars, vars, EventIInv, StreamTyped, EventsFollowChain, LastEvent, HeightOf
<1> QED BY <1>3, <1>4, <1>5, <1>6, <1>7, <1>8, <1>9, <1>10, <1>11 DEF EventNext

(* The invariant of the stream. *)
THEOREM StreamInvariance == EventSpec => []EventIInv
<1>1. EventInit => EventIInv
  <2> SUFFICES ASSUME EventInit PROVE EventIInv
    OBVIOUS
  <2>1. /\ pending = <<1>> /\ kafka = 0 /\ node = "up" /\ chain = <<>>
        /\ ng = [base |-> Genesis, micros |-> <<>>]
    BY DEF EventInit, Init
  <2>2. [base |-> Genesis, micros |-> <<>>] \in LiquidType
    BY BlocksAssumption DEF LiquidType
  <2>3. LastEvent = 1 /\ HeightOf(chain, ng) = 1
    BY <2>1, <2>2, ParameterAssumption DEF LastEvent, HeightOf
  <2>4. pending \in Seq(Nat)
    BY <2>1
  <2> QED BY <2>1, <2>3, <2>4 DEF EventIInv, StreamTyped, EventsFollowChain
<1>2. IInv /\ EventIInv /\ [EventNext]_eventVars => EventIInv'
  BY EventNextIInv
<1> QED BY <1>1, <1>2, EventInvariance, PTL DEF EventSpec

(* While the node runs, the last event sent carries its height, up to the two
   gaps the property names: a consumer that has read everything is where the
   node is, whatever was lost in a crash and repaired by the rewind. *)
THEOREM StreamFollowsChain == EventSpec => []EventsFollowChain
<1>1. EventIInv => EventsFollowChain
  BY DEF EventIInv
<1> QED BY <1>1, StreamInvariance, PTL

(* The block that startupCheck rolls back to exists, as its comment claims. *)
THEOREM RewindTargetExists == EventSpec => []RollbackTargetExists
<1>1. IInv /\ EventIInv => RollbackTargetExists
  <2> SUFFICES ASSUME IInv, EventIInv, ~BehindKafka, kafka # 0
               PROVE  RollbackTarget \in 1 .. Len(chain)
    BY DEF RollbackTargetExists
  <2>1. kafka \in Nat \ {0} /\ Len(chain) \in Nat
    BY LenProperties DEF IInv, TypeOK, EventIInv, StreamTyped
  <2>2. Len(chain) # 0 /\ kafka <= Len(chain) + 1
    BY <2>1 DEF BehindKafka
  <2> QED BY <2>1, <2>2 DEF RollbackTarget
<1> QED BY <1>1, EventInvariance, StreamInvariance, PTL

-----------------------------------------------------------------------------
(* The appenders (module ExtensionAppender).  What they need of validation and of
   signatures:
   - transactions that pass in two pieces pass in one (a block that comes back
     holds what came as a base and microblocks);
   - a signature covers the reference, so that references do not form a cycle.
   Nothing is assumed of what a generator puts into its microblocks, except, as
   []TotalsNew, that their total ids are new; whether they are the signatures
   they should be is left open. *)
SplitIndependent ==
  \A ledger, a, b \in Seq(Txs) :
    Applicable(ledger, a) /\ Applicable(ledger \o a, b) => Applicable(ledger, a \o b)
Acyclic ==
  \E depth : \A b \in Signed :
    depth[b.ref] \in Nat /\ depth[b.id] \in Nat /\ depth[b.ref] < depth[b.id]

(* The state of the liquid block after k microblocks, as a block. *)
Version(n, k) ==
  Create(n.base, n.base.txs \o MicroTxs(SubSeq(n.micros, 1, k)),
         IF k = 0 THEN n.base.id ELSE n.micros[k].total)

(* Blocks that are linked, each accepted on top of the ones below it; or all but
   the last, whose transactions pass although nobody may have signed them. *)
TxsIn(s) == [h \in 1 .. Len(s) |-> s[h].txs]
Below(s, h) == Flat(TxsIn(s), h - 1)
References(s) == \A h \in 1 .. Len(s) - 1 : s[h + 1].ref = s[h].id
Passes(ledger, b) == Applicable(ledger, b.txs) /\ Len(b.txs) <= MaxTotal
CompleteBlocks(s) ==
  /\ s \in Seq(BlockType)
  /\ References(s)
  /\ \A h \in 1 .. Len(s) : Passes(Below(s, h), s[h])
  /\ \A h \in 1 .. Len(s) - 1 : s[h] \in Signed
SoundBlocks(s) == CompleteBlocks(s) /\ s \in Seq(Signed)

(* Every persisted block, and the transactions of the liquid block at each of its
   microblocks, would pass again where they are. *)
AppliesInv ==
  /\ LedgerExact
  /\ SoundBlocks(PersistedBlocks)
  /\ ng # NoNg => \A k \in 0 .. Len(ng.micros) : Passes(Ledger, Version(ng, k))

-----------------------------------------------------------------------------
(* What a version is made of. *)
LEMMA VersionFacts ==
  ASSUME NEW n \in LiquidType, NEW k \in 0 .. Len(n.micros)
  PROVE  /\ Version(n, k).ref = n.base.ref /\ Version(n, k).gen = n.base.gen
         /\ Version(n, k).txs = n.base.txs \o MicroTxs(SubSeq(n.micros, 1, k))
         /\ Version(n, k).txs \in Seq(Txs) /\ Version(n, k) \in BlockType
         /\ Version(n, k).id = IF k = 0 THEN n.base.id ELSE n.micros[k].total
         /\ k = 0 => Version(n, k) = n.base
         /\ k = Len(n.micros) => /\ Version(n, k) = BestLiquidBlock(n)
                                 /\ Version(n, k).txs = Transactions(n)
                                 /\ Version(n, k).id = BestLiquidBlockId(n)
<1>1. /\ n.base.txs \in Seq(Txs) /\ n.micros \in Seq(Micros) /\ Len(n.micros) \in Nat
      /\ n.base \in BlockType
  BY TransactionsFacts, BlocksAssumption, LenProperties DEF LiquidType
<1> DEFINE t == MicroTxs(SubSeq(n.micros, 1, k))
           id == IF k = 0 THEN n.base.id ELSE n.micros[k].total
<1>2. t \in Seq(Txs)
  BY <1>1, MicroTxsFacts
<1>3. Version(n, k) = [n.base EXCEPT !.txs = n.base.txs \o t, !.id = id]
  BY DEF Version, Create
<1> HIDE DEF t, id
<1>4. /\ Version(n, k).ref = n.base.ref /\ Version(n, k).gen = n.base.gen
      /\ Version(n, k).txs = n.base.txs \o t /\ Version(n, k).id = id
  BY <1>1, <1>3 DEF BlockType
<1>5. n.base.txs \o t \in Seq(Txs)
  BY <1>1, <1>2, ConcatProperties
<1>6. ASSUME k = 0 PROVE Version(n, k) = n.base
  <2>1. SubSeq(n.micros, 1, k) = <<>>
    BY <1>1, <1>6
  <2>2. t = <<>>
    BY <2>1, MicroTxsFacts, EmptySeq DEF t
  <2>3. n.base.txs \o t = n.base.txs /\ id = n.base.id
    BY <1>1, <1>6, <2>2, ConcatEmptySeq DEF id
  <2> QED BY <1>1, <1>3, <2>3 DEF BlockType
<1>7. ASSUME k = Len(n.micros)
      PROVE  n.base.txs \o t = Transactions(n) /\ id = BestLiquidBlockId(n)
  <2>1. SubSeq(n.micros, 1, k) = n.micros
    BY <1>1, <1>7
  <2>2. k = 0 <=> n.micros = <<>>
    BY <1>1, <1>7, EmptySeq
  <2> QED BY <1>7, <2>1, <2>2 DEF Transactions, BestLiquidBlockId, t, id
<1>8. k = Len(n.micros) => Version(n, k) = BestLiquidBlock(n)
  BY <1>3, <1>7 DEF BestLiquidBlock, Create
<1>9. id \in Ids
  <2>1. CASE k = 0
    BY <1>1, <2>1 DEF id, BlockType
  <2>2. CASE k # 0
    <3>1. k \in 1 .. Len(n.micros)
      BY <1>1, <2>2
    <3>2. n.micros[k] \in MicroType
      BY <1>1, <3>1, ElementOfSeq, BlocksAssumption
    <3> QED BY <2>2, <3>2 DEF id, MicroType
  <2> QED BY <2>1, <2>2
<1>10. Version(n, k) \in BlockType
  BY <1>1, <1>3, <1>5, <1>9 DEF BlockType
<1> QED BY <1>4, <1>5, <1>6, <1>7, <1>8, <1>10 DEF t, id

(* Signed blocks are blocks, and a sequence of them one of blocks. *)
LEMMA SignedBlocks ==
  /\ \A s \in Seq(Signed) : s \in Seq(BlockType)
  /\ \A ledger, b : BlockDiffOk(ledger, b) <=> b \in Signed /\ Passes(ledger, b)
<1>1. ASSUME NEW s \in Seq(Signed) PROVE s \in Seq(BlockType)
  <2>1. Len(s) \in Nat /\ s = [i \in 1 .. Len(s) |-> s[i]]
    BY LenProperties
  <2>2. \A i \in 1 .. Len(s) : s[i] \in BlockType
    BY ElementOfSeq, BlocksAssumption
  <2> QED BY <2>1, <2>2
<1> QED BY <1>1 DEF BlockDiffOk, Passes

(* The states of the liquid block are its versions. *)
LEMMA ContainsVersion ==
  ASSUME NEW n \in LiquidType, NEW id, NgContains(n, id)
  PROVE  \E k \in 0 .. Len(n.micros) : Version(n, k).id = id /\ Version(n, k) = ForgeBlock(n, id)
<1> DEFINE k == ForgeIndex(n, id)
<1>1. /\ k \in 0 .. Len(n.micros)
      /\ n.base.id = id => k = 0
      /\ n.base.id # id => k > 0 /\ n.micros[k].total = id
  BY ForgeIndexFacts
<1>2. n.base.id # id => ForgeBlock(n, id) = Create(n.base, n.base.txs \o MicroTxs(SubSeq(n.micros, 1, k)), id)
  BY DEF ForgeBlock
<1> HIDE DEF k
<1>3. CASE n.base.id = id
  BY <1>1, <1>3, VersionFacts DEF ForgeBlock
<1>4. CASE n.base.id # id
  <2>1. k # 0
    BY <1>1, <1>4
  <2>2. Version(n, k) = ForgeBlock(n, id)
    BY <1>1, <1>2, <1>4, <2>1 DEF Version
  <2> QED BY <1>1, <1>4, <2>1, <2>2, VersionFacts
<1> QED BY <1>3, <1>4

(* Pieces and extensions of sound blocks. *)
LEMMA BelowSame ==
  ASSUME NEW s \in Seq(BlockType), NEW t \in Seq(BlockType),
         NEW n \in Nat, n <= Len(s), n <= Len(t),
         \A h \in 1 .. n : s[h] = t[h]
  PROVE  Flat(TxsIn(s), n) = Flat(TxsIn(t), n)
<1>1. \A h \in 1 .. n : TxsIn(s)[h] = TxsIn(t)[h]
  BY LenProperties DEF TxsIn
<1> QED BY <1>1, FlatSame

(* The lower part of sound blocks is sound. *)
LEMMA SoundPrefix ==
  ASSUME NEW s, SoundBlocks(s), NEW t \in Seq(Signed), Len(t) <= Len(s),
         \A h \in 1 .. Len(t) : t[h] = s[h]
  PROVE  SoundBlocks(t)
<1>1. /\ s \in Seq(BlockType) /\ t \in Seq(BlockType) /\ Len(s) \in Nat /\ Len(t) \in Nat
      /\ \A h \in 1 .. Len(t) : t[h] \in Signed
  BY LenProperties, SignedBlocks, ElementOfSeq DEF SoundBlocks, CompleteBlocks
<1>2. References(t)
  BY <1>1 DEF SoundBlocks, CompleteBlocks, References
<1>3. ASSUME NEW h \in 1 .. Len(t) PROVE Passes(Below(t, h), t[h])
  <2>1. Below(t, h) = Below(s, h)
    <3>1. h - 1 \in Nat /\ h - 1 <= Len(s) /\ h - 1 <= Len(t) /\ \A i \in 1 .. h - 1 : t[i] = s[i]
      BY <1>1
    <3> QED BY <1>1, <3>1, BelowSame DEF Below
  <2> QED BY <1>1, <2>1 DEF SoundBlocks, CompleteBlocks
<1>4. \A h \in 1 .. Len(t) - 1 : t[h] \in Signed
  BY <1>1
<1> QED BY <1>1, <1>2, <1>3, <1>4 DEF SoundBlocks, CompleteBlocks

(* One more block, whose transactions pass, on sound blocks. *)
LEMMA CompleteAppend ==
  ASSUME NEW s, SoundBlocks(s), NEW b, Passes(Flat(TxsIn(s), Len(s)), b),
         s # <<>> => b.ref = s[Len(s)].id,
         NEW t \in Seq(BlockType), Len(t) = Len(s) + 1, t[Len(s) + 1] = b,
         \A h \in 1 .. Len(s) : t[h] = s[h]
  PROVE  CompleteBlocks(t)
<1>1. /\ s \in Seq(BlockType) /\ s \in Seq(Signed) /\ Len(s) \in Nat
      /\ (Len(s) > 0 => s # <<>>)
      /\ \A h \in 1 .. Len(s) : s[h] \in Signed
  BY LenProperties, EmptySeq, ElementOfSeq DEF SoundBlocks, CompleteBlocks
<1>2. References(t)
  BY <1>1 DEF SoundBlocks, CompleteBlocks, References
<1>3. ASSUME NEW h \in 1 .. Len(t) PROVE Passes(Below(t, h), t[h])
  <2>1. Below(t, h) = Flat(TxsIn(s), h - 1)
    <3>1. h - 1 \in Nat /\ h - 1 <= Len(s) /\ h - 1 <= Len(t) /\ \A i \in 1 .. h - 1 : t[i] = s[i]
      BY <1>1
    <3> QED BY <1>1, <3>1, BelowSame DEF Below
  <2>2. CASE h <= Len(s)
    BY <1>1, <2>1, <2>2 DEF SoundBlocks, CompleteBlocks, Below
  <2>3. CASE h = Len(s) + 1
    BY <1>1, <2>1, <2>3
  <2> QED BY <1>1, <2>2, <2>3
<1>4. \A h \in 1 .. Len(t) - 1 : t[h] \in Signed
  BY <1>1
<1> QED BY <1>2, <1>3, <1>4 DEF CompleteBlocks

(* The persisted blocks and their transactions, before and after a step. *)
LEMMA PersistedFacts ==
  ASSUME NEW c \in Seq(EntryType)
  PROVE  LET s == [h \in 1 .. Len(c) |-> c[h].block]
         IN  s \in Seq(Signed) /\ Len(s) = Len(c) /\ LedgerOf(c) = Flat(TxsIn(s), Len(s))
<1> DEFINE s == [h \in 1 .. Len(c) |-> c[h].block]
<1>1. Len(c) \in Nat /\ \A h \in 1 .. Len(c) : c[h].block \in Signed
  <2>1. Len(c) \in Nat /\ \A h \in 1 .. Len(c) : c[h] \in EntryType
    BY LenProperties, ElementOfSeq
  <2> QED BY <2>1 DEF EntryType
<1>2. s \in Seq(Signed) /\ Len(s) = Len(c)
  BY <1>1
<1>3. \A h \in 1 .. Len(c) : TxsIn(s)[h] = TxsOfBlocks(c)[h]
  BY <1>1, <1>2 DEF TxsIn, TxsOfBlocks
<1>4. Flat(TxsIn(s), Len(c)) = Flat(TxsOfBlocks(c), Len(c))
  <2> HIDE DEF s
  <2> QED BY <1>1, <1>3, FlatSame
<1> QED BY <1>2, <1>4 DEF LedgerOf

(* The same, unprimed and primed. *)
LEMMA PersistedIs ==
  /\ chain \in Seq(EntryType) =>
       /\ PersistedBlocks \in Seq(Signed) /\ Len(PersistedBlocks) = Len(chain) /\ Len(chain) \in Nat
       /\ \A h \in 1 .. Len(chain) : PersistedBlocks[h] = chain[h].block
       /\ Ledger = Flat(TxsIn(PersistedBlocks), Len(chain)) /\ Ledger \in Seq(Txs)
  /\ chain' \in Seq(EntryType) =>
       /\ PersistedBlocks' \in Seq(Signed) /\ Len(PersistedBlocks') = Len(chain') /\ Len(chain') \in Nat
       /\ \A h \in 1 .. Len(chain') : PersistedBlocks'[h] = chain'[h].block
       /\ Ledger' = Flat(TxsIn(PersistedBlocks'), Len(chain')) /\ Ledger' \in Seq(Txs)
<1>1. ASSUME NEW c \in Seq(EntryType), NEW s, s = [h \in 1 .. Len(c) |-> c[h].block]
      PROVE  /\ s \in Seq(Signed) /\ Len(s) = Len(c) /\ Len(c) \in Nat
             /\ \A h \in 1 .. Len(c) : s[h] = c[h].block
             /\ LedgerOf(c) = Flat(TxsIn(s), Len(c)) /\ LedgerOf(c) \in Seq(Txs)
  BY <1>1, PersistedFacts, LedgerFacts, LenProperties
<1>2. ASSUME chain \in Seq(EntryType) PROVE PersistedIs!1!2
  BY <1>1, <1>2, LedgerIs DEF PersistedBlocks
<1>3. ASSUME chain' \in Seq(EntryType) PROVE PersistedIs!2!2
  BY <1>1, <1>3, LedgerIs DEF PersistedBlocks
<1> QED BY <1>2, <1>3

-----------------------------------------------------------------------------
(* Blocks and states that have been accepted stay acceptable: the chain below
   them does not change. *)
LEMMA FreshApplies ==
  ASSUME NEW b \in Signed, ng' = [base |-> b, micros |-> <<>>], Passes(Ledger', b)
  PROVE  \A k \in 0 .. Len(ng'.micros) : Passes(Ledger', Version(ng', k))
<1>1. ng' \in LiquidType /\ ng'.base = b
  BY FreshTransactions
<1>2. \A k \in 0 .. Len(ng'.micros) : k = 0
  BY EmptySeq
<1>3. Version(ng', 0) = b
  <2>1. 0 \in 0 .. Len(ng'.micros)
    BY EmptySeq
  <2> QED BY <1>1, <2>1, VersionFacts
<1> QED BY <1>2, <1>3

(* A microblock: base and microblocks together pass as one block, by
   SplitIndependent. *)
LEMMA MicroApplies ==
  ASSUME SplitIndependent, IInv, CapacityAccounted, TotalsDistinct, AppliesInv,
         NEW m \in Micros, ProcessMicroBlock(m)
  PROVE  \A k \in 0 .. Len(ng'.micros) : Passes(Ledger, Version(ng', k))
<1> DEFINE n == Len(ng.micros)
           v == Version(ng, n)
<1>1. /\ ng # NoNg /\ ng \in LiquidType /\ ng' = [ng EXCEPT !.micros = Append(ng.micros, m)]
      /\ m.sender = ng.base.gen /\ m.prev = BestLiquidBlockId(ng)
      /\ Applicable(Ledger \o Transactions(ng), m.txs) /\ Len(m.txs) <= rest /\ rest \in Nat
  BY ParameterAssumption DEF ProcessMicroBlock, IInv, TypeOK, AppliesInv, LiquidExact
<1>2. /\ ng.micros \in Seq(Micros) /\ n \in Nat /\ ng.base \in Signed
  BY <1>1, LenProperties DEF LiquidType
<1>3. /\ Append(ng.micros, m) \in Seq(Micros) /\ Len(Append(ng.micros, m)) = n + 1
      /\ \A i \in 1 .. n : Append(ng.micros, m)[i] = ng.micros[i]
      /\ Append(ng.micros, m)[n + 1] = m
  BY <1>2, AppendProperties
<1>4. /\ ng'.micros = Append(ng.micros, m) /\ ng'.base = ng.base /\ ng' \in LiquidType
  BY <1>1, <1>2, <1>3 DEF LiquidType
<1>5. ASSUME NEW k \in 0 .. n PROVE Passes(Ledger, Version(ng', k))
  <2>1. SubSeq(ng'.micros, 1, k) = SubSeq(ng.micros, 1, k)
    BY <1>2, <1>3, <1>4
  <2>2. k # 0 => ng'.micros[k] = ng.micros[k]
    BY <1>2, <1>3, <1>4
  <2>3. Version(ng', k) = Version(ng, k)
    BY <1>4, <2>1, <2>2 DEF Version
  <2> QED BY <1>1, <2>3 DEF AppliesInv
<1>6. Passes(Ledger, Version(ng', n + 1))
  <2>1. /\ Passes(Ledger, v) /\ v \in BlockType
        /\ v.txs = Transactions(ng) /\ v.txs \in Seq(Txs)
    <3>1. n \in 0 .. n
      BY <1>2
    <3> QED BY <1>1, <3>1, VersionFacts DEF AppliesInv
  <2>2. Applicable(Ledger, v.txs) /\ Len(v.txs) <= MaxTotal
    BY <2>1 DEF Passes
  <2> HIDE DEF v
  <2>4. m.txs \in Seq(Txs) /\ Transactions(ng') = v.txs \o m.txs
    BY <1>1, <2>1, MoreTransactions
  <2>5. Applicable(Ledger, v.txs \o m.txs)
    <3>1. Ledger \in Seq(Txs)
      BY PersistedIs DEF IInv, TypeOK
    <3> QED BY <1>1, <2>1, <2>2, <2>4, <3>1 DEF SplitIndependent
  <2>6. Len(v.txs \o m.txs) <= MaxTotal
    <3>1. rest + Len(v.txs) = MaxTotal
      BY <1>1, <2>1 DEF CapacityAccounted
    <3>2. Len(v.txs \o m.txs) = Len(v.txs) + Len(m.txs) /\ Len(v.txs) \in Nat /\ Len(m.txs) \in Nat
      BY <2>1, <2>4, ConcatProperties, LenProperties
    <3>3. Len(m.txs) <= rest /\ rest \in Nat
      BY <1>1
    <3>4. \A x, y, z \in Nat : x <= y /\ y + z = MaxTotal => z + x <= MaxTotal
      BY ParameterAssumption
    <3> QED BY <3>1, <3>2, <3>3, <3>4, Zenon
  <2>7. Version(ng', n + 1) = Create(v, v.txs \o m.txs, m.total)
    <3>1. Version(ng', n + 1) = BestLiquidBlock(ng')
      <4>1. n + 1 \in 0 .. Len(ng'.micros) /\ n + 1 = Len(ng'.micros)
        BY <1>2, <1>3, <1>4
      <4> QED BY <1>4, <4>1, VersionFacts
    <3>2. BestLiquidBlockId(ng') = m.total
      BY <1>2, <1>3, <1>4, EmptySeq DEF BestLiquidBlockId
    <3>3. BestLiquidBlock(ng') = Create(ng.base, v.txs \o m.txs, m.total)
      BY <1>4, <2>4, <3>2 DEF BestLiquidBlock
    <3>4. v = BestLiquidBlock(ng) /\ ng.base \in BlockType
      <4>1. n \in 0 .. n
        BY <1>2
      <4> QED BY <1>1, <1>2, <4>1, VersionFacts, BlocksAssumption DEF v
    <3>5. \A t, i, u, j : Create(Create(ng.base, t, i), u, j) = Create(ng.base, u, j)
      BY <3>4 DEF Create, BlockType
    <3> QED BY <3>1, <3>3, <3>4, <3>5 DEF BestLiquidBlock
  <2>8. Create(v, v.txs \o m.txs, m.total).txs = v.txs \o m.txs
    BY <2>1 DEF Create, BlockType
  <2> QED BY <2>5, <2>6, <2>7, <2>8 DEF Passes
<1>7. \A k \in 0 .. Len(ng'.micros) : k \in 0 .. n \/ k = n + 1
  BY <1>2, <1>3, <1>4
<1> QED BY <1>5, <1>6, <1>7

(* Hardening: the forged block is one of the versions. *)
LEMMA HardenApplies ==
  ASSUME IInv, TypeOK', TotalsDistinct, AppliesInv, NEW b \in Blocks, Harden(b)
  PROVE  /\ SoundBlocks(PersistedBlocks)'
         /\ Passes(Ledger', b)
<1> DEFINE f == ForgeBlock(ng, b.ref)
<1>1. /\ ng # NoNg /\ ng \in LiquidType /\ NgContains(ng, b.ref) /\ f \in Signed
      /\ Passes(Ledger \o f.txs, b) /\ AppendPersisted(f)
  BY DEF Harden, ExtendsLiquid, IInv, TypeOK, MayPass, Passes, LiquidExact, AppliesInv
<1>2. PICK k \in 0 .. Len(ng.micros) : Version(ng, k) = f
  BY <1>1, ContainsVersion
<1>3. Passes(Ledger, f) /\ f.ref = ng.base.ref /\ f.txs \in Seq(Txs)
  BY <1>1, <1>2, VersionFacts DEF AppliesInv
<1> HIDE DEF f
<1>4. /\ chain' \in Seq(EntryType) /\ Len(chain') = Len(chain) + 1
      /\ \A h \in 1 .. Len(chain) : chain'[h] = chain[h]
      /\ chain'[Len(chain) + 1].block = f
  BY <1>1, AppendPersistedEffect DEF IInv
<1> DEFINE s == PersistedBlocks
           t == PersistedBlocks'
<1>5. /\ s \in Seq(Signed) /\ Len(s) = Len(chain) /\ Len(chain) \in Nat /\ SoundBlocks(s)
      /\ \A h \in 1 .. Len(chain) : s[h] = chain[h].block
      /\ Ledger = Flat(TxsIn(s), Len(s)) /\ Ledger \in Seq(Txs)
  BY PersistedIs DEF IInv, TypeOK, AppliesInv
<1>6. /\ t \in Seq(Signed) /\ Len(t) = Len(chain')
      /\ \A h \in 1 .. Len(chain') : t[h] = chain'[h].block
      /\ Ledger' = Flat(TxsIn(t), Len(t))
  BY <1>4, PersistedIs
<1>7. s # <<>> => f.ref = s[Len(s)].id
  <2>1. s # <<>> => chain # <<>> /\ Len(chain) \in 1 .. Len(chain)
    BY <1>5, EmptySeq
  <2> QED BY <1>1, <1>3, <1>5, <2>1 DEF IInv, LiquidLinked, LastPersistedId
<1> HIDE DEF s, t
<1>8. Len(t) = Len(s) + 1 /\ t[Len(s) + 1] = f /\ \A h \in 1 .. Len(s) : t[h] = s[h]
  <2>1. Len(t) = Len(s) + 1 /\ Len(s) = Len(chain) /\ Len(chain) + 1 \in 1 .. Len(chain')
    BY <1>4, <1>5, <1>6
  <2>2. t[Len(chain) + 1] = f
    BY <1>4, <1>6, <2>1
  <2>3. ASSUME NEW h \in 1 .. Len(chain) PROVE t[h] = s[h]
    <3>1. h \in 1 .. Len(chain')
      BY <1>4, <1>5
    <3> QED BY <1>4, <1>5, <1>6, <3>1
  <2> QED BY <2>1, <2>2, <2>3
<1>9. SoundBlocks(t)
  <2>1. t \in Seq(BlockType)
    BY <1>6, SignedBlocks
  <2>2. CompleteBlocks(t)
    BY <1>3, <1>5, <1>7, <1>8, <2>1, CompleteAppend
  <2> QED BY <1>6, <2>2 DEF SoundBlocks
<1>10. Ledger' = Ledger \o f.txs
  <2>1. Flat(TxsIn(t), Len(s) + 1) = Flat(TxsIn(t), Len(s)) \o TxsIn(t)[Len(s) + 1]
    BY <1>5, FlatStep
  <2>2. Flat(TxsIn(t), Len(s)) = Flat(TxsIn(s), Len(s))
    <3>1. s \in Seq(BlockType) /\ t \in Seq(BlockType)
      BY <1>5, <1>6, SignedBlocks
    <3>2. Len(s) \in Nat /\ Len(s) <= Len(s) /\ Len(s) <= Len(t)
      BY <1>5, <1>8
    <3> QED BY <1>8, <3>1, <3>2, BelowSame
  <2>3. TxsIn(t)[Len(s) + 1] = f.txs
    BY <1>5, <1>8 DEF TxsIn
  <2> QED BY <1>5, <1>6, <1>8, <2>1, <2>2, <2>3
<1>11. SoundBlocks(PersistedBlocks)'
  BY <1>9 DEF t
<1> QED BY <1>1, <1>10, <1>11

(* One step. *)
LEMMA AppliesKept ==
  ASSUME SplitIndependent, IInv, CapacityAccounted, TotalsDistinct, AppliesInv, [Next]_vars
  PROVE  AppliesInv'
<1>1. /\ TypeOK /\ TypeOK' /\ chain \in Seq(EntryType) /\ chain' \in Seq(EntryType)
      /\ SoundBlocks(PersistedBlocks) /\ LedgerExact /\ LedgerExact'
  BY NextTyped, NextExact DEF IInv, TypeOK, AppliesInv
<1>2. ASSUME UNCHANGED chain PROVE SoundBlocks(PersistedBlocks)' /\ Ledger' = Ledger
  BY <1>1, <1>2 DEF PersistedBlocks, Ledger
<1>3. ASSUME NEW b \in Signed, ng' = [base |-> b, micros |-> <<>>], rest' = MaxTotal - Len(b.txs)
      PROVE  Len(b.txs) <= MaxTotal
  <2>1. b.txs \in Seq(Txs)
    BY BlocksAssumption DEF BlockType
  <2>2. Len(b.txs) \in Nat /\ rest' \in 0 .. MaxTotal /\ MaxTotal \in Nat
    BY <1>1, <2>1, LenProperties, ParameterAssumption DEF TypeOK
  <2> QED BY <1>3, <2>2
<1>4. ASSUME NEW b \in Signed, ng' = [base |-> b, micros |-> <<>>], rest' = MaxTotal - Len(b.txs),
             chain' = chain, Applicable(Ledger, b.txs)
      PROVE  AppliesInv'
  <2>1. Passes(Ledger', b)
    BY <1>2, <1>3, <1>4 DEF Passes
  <2> QED BY <1>1, <1>2, <1>4, <2>1, FreshApplies DEF AppliesInv
<1>5. ASSUME ng' = [base |-> Genesis, micros |-> <<>>], chain' = chain, chain = <<>>
      PROVE  AppliesInv'
  <2>1. Ledger = <<>> /\ Ledger' = Ledger
    BY <1>1, <1>2, <1>5, LedgerIs, LedgerFacts
  <2>2. Passes(Ledger', Genesis) /\ Genesis \in Signed
    BY <2>1, ParameterAssumption, BlocksAssumption DEF Passes
  <2> QED BY <1>1, <1>2, <1>5, <2>2, FreshApplies DEF AppliesInv
<1>6. ASSUME NEW b \in Blocks, b \in Signed, Harden(b), ng' = [base |-> b, micros |-> <<>>]
      PROVE  AppliesInv'
  <2>1. SoundBlocks(PersistedBlocks)' /\ Passes(Ledger', b)
    BY <1>1, <1>6, HardenApplies
  <2> QED BY <1>1, <1>6, <2>1, FreshApplies DEF AppliesInv
<1>7. ASSUME NEW m \in Micros, ProcessMicroBlock(m) PROVE AppliesInv'
  <2>1. UNCHANGED chain
    BY <1>7 DEF ProcessMicroBlock
  <2> QED BY <1>1, <1>2, <1>7, <2>1, MicroApplies DEF AppliesInv
<1>8. ASSUME UNCHANGED chain, ng' = ng \/ ng' = NoNg PROVE AppliesInv'
  BY <1>1, <1>2, <1>8 DEF AppliesInv
<1>9. ASSUME RollbackStep, ng' = NoNg PROVE AppliesInv'
  <2>1. Len(chain) \in Nat /\ Len(chain) > 0 /\ chain' = SubSeq(chain, 1, Len(chain) - 1)
    BY <1>1, <1>9, LenProperties DEF RollbackStep, TypeOK
  <2>2. Len(chain) = Len(chain') + 1 /\ \A h \in 1 .. Len(chain') : chain[h] = chain'[h]
    BY <1>1, <2>1, WithoutLast
  <2>3. /\ PersistedBlocks' \in Seq(Signed) /\ Len(PersistedBlocks') <= Len(PersistedBlocks)
        /\ \A h \in 1 .. Len(PersistedBlocks') : PersistedBlocks'[h] = PersistedBlocks[h]
    <3>1. /\ Len(PersistedBlocks) = Len(chain)
          /\ \A h \in 1 .. Len(chain) : PersistedBlocks[h] = chain[h].block
      BY <1>1, PersistedIs
    <3>2. /\ PersistedBlocks' \in Seq(Signed) /\ Len(PersistedBlocks') = Len(chain')
          /\ Len(chain') \in Nat
          /\ \A h \in 1 .. Len(chain') : PersistedBlocks'[h] = chain'[h].block
      BY <1>1, PersistedIs
    <3>3. Len(chain') <= Len(chain) /\ \A h \in 1 .. Len(chain') : h \in 1 .. Len(chain)
      BY <2>1, <2>2, <3>2
    <3> QED BY <2>2, <3>1, <3>2, <3>3
  <2>4. SoundBlocks(PersistedBlocks')
    BY <1>1, <2>3, SoundPrefix
  <2> QED BY <1>1, <1>9, <2>4 DEF AppliesInv
<1> QED BY <1>1, <1>4, <1>5, <1>6, <1>7, <1>8, <1>9, LiquidStep

-----------------------------------------------------------------------------
(* A chain does not meet itself. *)
LEMMA ReferencesDistinct ==
  ASSUME Acyclic, NEW s \in Seq(Signed), References(s)
  PROVE  \A i, j \in 1 .. Len(s) : s[i].id = s[j].id => i = j
<1>1. PICK depth : \A b \in Signed :
         depth[b.ref] \in Nat /\ depth[b.id] \in Nat /\ depth[b.ref] < depth[b.id]
  BY DEF Acyclic
<1>2. Len(s) \in Nat /\ \A i \in 1 .. Len(s) : s[i] \in Signed
  BY LenProperties, ElementOfSeq
<1> DEFINE D(i) == depth[s[i].id]
           S == {n \in Nat : \A j \in 1 .. Len(s) : j <= n => \A i \in 1 .. j - 1 : D(i) < D(j)}
<1>3. \A i \in 1 .. Len(s) : D(i) \in Nat
  BY <1>1, <1>2
<1>4. \A i \in 1 .. Len(s) - 1 : D(i) < D(i + 1)
  <2> TAKE i \in 1 .. Len(s) - 1
  <2>1. i + 1 \in 1 .. Len(s) /\ s[i + 1].ref = s[i].id
    BY <1>2 DEF References
  <2> QED BY <1>1, <1>2, <2>1
<1> HIDE DEF D
<1>5. 0 \in S
  BY <1>2
<1>6. ASSUME NEW n \in Nat, n \in S PROVE n + 1 \in S
  <2> SUFFICES ASSUME NEW j \in 1 .. Len(s), j <= n + 1, NEW i \in 1 .. j - 1 PROVE D(i) < D(j)
    OBVIOUS
  <2>1. CASE j <= n
    BY <1>6, <2>1
  <2>2. CASE j = n + 1
    <3>1. CASE i = n
      BY <1>2, <1>4, <2>2, <3>1
    <3>2. CASE i < n
      <4>1. n \in 1 .. Len(s) /\ n \in 1 .. Len(s) - 1 /\ i \in 1 .. n - 1 /\ i \in 1 .. Len(s)
        BY <1>2, <2>2, <3>2
      <4>2. D(i) < D(n) /\ D(n) < D(n + 1)
        BY <1>4, <1>6, <4>1
      <4> QED BY <1>3, <2>2, <4>1, <4>2
    <3> QED BY <1>2, <2>2, <3>1, <3>2
  <2> QED BY <1>2, <2>1, <2>2
<1>7. Nat \subseteq S
  <2> HIDE DEF S
  <2> QED BY <1>5, <1>6, Inductive
<1>8. \A j \in 1 .. Len(s) : \A i \in 1 .. j - 1 : D(i) < D(j)
  BY <1>2, <1>7
<1> SUFFICES ASSUME NEW i \in 1 .. Len(s), NEW j \in 1 .. Len(s), s[i].id = s[j].id PROVE i = j
  OBVIOUS
<1>9. D(i) = D(j)
  BY DEF D
<1>10. ~(i < j) /\ ~(j < i)
  BY <1>2, <1>3, <1>8, <1>9
<1> QED BY <1>2, <1>10

(* The height of a persisted block is its own, and the states of the liquid
   block are not persisted: blockchainUpdater.heightOf is well defined. *)
LEMMA HeightIsUnique ==
  ASSUME Acyclic, IInv, AppliesInv, NEW h \in 1 .. Len(chain)
  PROVE  Persisted(chain[h].block.id) /\ HeightOfPersisted(chain[h].block.id) = h
<1>1. /\ PersistedBlocks \in Seq(Signed) /\ References(PersistedBlocks)
      /\ Len(PersistedBlocks) = Len(chain)
      /\ \A i \in 1 .. Len(chain) : PersistedBlocks[i] = chain[i].block
  BY PersistedIs DEF AppliesInv, SoundBlocks, CompleteBlocks, IInv, TypeOK
<1>2. \A i \in 1 .. Len(chain) : chain[i].block.id = chain[h].block.id => i = h
  BY <1>1, ReferencesDistinct
<1> QED BY <1>2 DEF Persisted, HeightOfPersisted

(* The whole chain, liquid block last, is complete. *)
LEMMA FullChainIs ==
  ASSUME IInv, AppliesInv
  PROVE  /\ CompleteBlocks(FullChain) /\ FullChain \in Seq(BlockType)
         /\ Len(FullChain) = HeightOf(chain, ng) /\ Len(chain) \in Nat
         /\ \A h \in 1 .. Len(chain) : /\ FullChain[h] = chain[h].block
                                        /\ FullChain[h] \in Signed
         /\ ng # NoNg => FullChain[Len(chain) + 1] = BestLiquidBlock(ng)
<1> DEFINE s == PersistedBlocks
<1>1. /\ s \in Seq(Signed) /\ SoundBlocks(s) /\ Len(s) = Len(chain) /\ Len(chain) \in Nat
      /\ \A i \in 1 .. Len(chain) : s[i] = chain[i].block
      /\ Ledger = Flat(TxsIn(s), Len(s))
  BY PersistedIs DEF AppliesInv, IInv, TypeOK
<1> HIDE DEF s
<1>2. s \in Seq(BlockType) /\ \A i \in 1 .. Len(chain) : s[i] \in Signed
  BY <1>1, SignedBlocks, ElementOfSeq
<1>3. CASE ng = NoNg
  <2>1. FullChain = s
    BY <1>1, <1>3, ConcatEmptySeq DEF FullChain, LiquidBlocks, s
  <2> QED BY <1>1, <1>2, <1>3, <2>1 DEF HeightOf, SoundBlocks
<1>4. CASE ng # NoNg
  <2> DEFINE b == BestLiquidBlock(ng)
             t == FullChain
  <2>1. /\ ng \in LiquidType /\ Len(ng.micros) \in 0 .. Len(ng.micros)
    <3>1. ng \in LiquidType
      BY <1>4 DEF IInv, TypeOK
    <3>2. Len(ng.micros) \in Nat
      BY <3>1, LenProperties DEF LiquidType
    <3> QED BY <3>1, <3>2
  <2>2. Passes(Ledger, b) /\ b.ref = ng.base.ref /\ b \in BlockType
    BY <1>4, <2>1, VersionFacts DEF AppliesInv
  <2>3. t = s \o <<b>>
    BY <1>4 DEF FullChain, LiquidBlocks, s
  <2> HIDE DEF b, t
  <2>4. /\ t \in Seq(BlockType) /\ Len(t) = Len(s) + 1 /\ t[Len(s) + 1] = b
        /\ \A h \in 1 .. Len(s) : t[h] = s[h]
    BY <1>2, <2>2, <2>3
  <2>5. s # <<>> => b.ref = s[Len(s)].id
    <3>1. s # <<>> => chain # <<>> /\ Len(chain) \in 1 .. Len(chain)
      BY <1>1, EmptySeq
    <3> QED BY <1>1, <1>4, <2>2, <3>1 DEF IInv, LiquidLinked, LastPersistedId
  <2>6. CompleteBlocks(t)
    BY <1>1, <2>2, <2>4, <2>5, CompleteAppend
  <2> QED BY <1>1, <1>2, <1>4, <2>4, <2>6 DEF HeightOf, b, t
<1> QED BY <1>3, <1>4

(* No state of the liquid block is persisted, nor the parent of its base: of the
   base by Acyclic, of the microblocks as long as their total ids are new. *)
LEMMA LiquidIsNew ==
  ASSUME Acyclic, IInv, AppliesInv, TotalsNew, ng # NoNg, NEW id, NgContains(ng, id)
  PROVE  ~Persisted(id) /\ id # ng.base.ref
<1>1. CASE id # ng.base.id
  <2>1. id \in MicroBlockIds(ng)
    BY <1>1 DEF NgContains
  <2> QED BY <2>1 DEF TotalsNew
<1>2. CASE id = ng.base.id
  <2> DEFINE v == ng.base
  <2>1. v \in Signed
    BY DEF IInv, TypeOK, LiquidType
  <2> HIDE DEF v
  <2>2. id = v.id
    BY <1>2 DEF v
  <2>3. id # v.ref
    <3>1. PICK depth : \A b \in Signed :
             depth[b.ref] \in Nat /\ depth[b.id] \in Nat /\ depth[b.ref] < depth[b.id]
      BY DEF Acyclic
    <3>2. depth[v.ref] \in Nat /\ depth[v.ref] < depth[v.id]
      BY <2>1, <3>1
    <3> QED BY <2>2, <3>2
  <2>4. ASSUME NEW h \in 1 .. Len(chain), chain[h].block.id = id PROVE FALSE
    <3> DEFINE s == PersistedBlocks
               t == Append(s, v)
    <3>1. /\ s \in Seq(Signed) /\ References(s) /\ Len(s) = Len(chain) /\ Len(chain) \in Nat
          /\ \A i \in 1 .. Len(chain) : s[i] = chain[i].block
      BY PersistedIs DEF AppliesInv, SoundBlocks, CompleteBlocks, IInv, TypeOK
    <3> HIDE DEF s
    <3>2. /\ t \in Seq(Signed) /\ Len(t) = Len(s) + 1 /\ t[Len(s) + 1] = v
          /\ \A i \in 1 .. Len(s) : t[i] = s[i]
      BY <2>1, <3>1, AppendProperties
    <3> HIDE DEF t
    <3>3. v.ref = s[Len(s)].id
      <4>1. chain # <<>> /\ Len(chain) \in 1 .. Len(chain)
        BY <3>1, EmptySeq
      <4> QED BY <3>1, <4>1 DEF IInv, LiquidLinked, LastPersistedId, v
    <3>4. References(t)
      <4> SUFFICES ASSUME NEW i \in 1 .. Len(t) - 1 PROVE t[i + 1].ref = t[i].id
        BY DEF References
      <4>1. CASE i = Len(s)
        BY <3>1, <3>2, <3>3, <4>1
      <4>2. CASE i \in 1 .. Len(s) - 1
        BY <3>1, <3>2, <4>2 DEF References
      <4> QED BY <3>1, <3>2, <4>1, <4>2
    <3>5. h \in 1 .. Len(t) /\ Len(s) + 1 \in 1 .. Len(t) /\ h # Len(s) + 1
      BY <3>1, <3>2
    <3>6. t[h].id = id /\ t[Len(s) + 1].id = id
      BY <2>2, <2>4, <3>1, <3>2
    <3> QED BY <3>2, <3>4, <3>5, <3>6, ReferencesDistinct
  <2> QED BY <2>3, <2>4 DEF Persisted, v
<1> QED BY <1>1, <1>2

(* What is left of an extension when the blocks the node has are dropped. *)
LEMMA NewBlocksFacts ==
  ASSUME NEW e \in Seq(Signed)
  PROVE  /\ NewBlocks(e) \in Seq(Signed) /\ Len(NewBlocks(e)) \in Nat
         /\ Len(NewBlocks(e)) <= Len(e)
         /\ References(e) => References(NewBlocks(e))
<1> DEFINE Is(i) == /\ \A j \in 1 .. i : Contains(e[j].id)
                    /\ i < Len(e) => ~Contains(e[i + 1].id)
           T == {i \in 0 .. Len(e) : i < Len(e) => ~Contains(e[i + 1].id)}
           k == CHOOSE i \in 0 .. Len(e) : Is(i)
<1>1. Len(e) \in Nat
  BY LenProperties
<1>2. T # {} /\ T \in SUBSET Nat
  <2>1. Len(e) \in T
    BY <1>1
  <2> QED BY <1>1, <2>1
<1>3. PICK i \in T : \A y \in T : i <= y
  BY <1>2, Least
<1>4. i \in 0 .. Len(e) /\ Is(i)
  <2>1. ASSUME NEW j \in 1 .. i, ~Contains(e[j].id) PROVE FALSE
    <3>1. j - 1 \in T /\ ~(i <= j - 1)
      BY <1>1, <2>1
    <3> QED BY <1>3, <3>1
  <2> QED BY <1>3, <2>1
<1>5. k \in 0 .. Len(e)
  BY <1>4
<1>6. NewBlocks(e) = SubSeq(e, k + 1, Len(e))
  BY DEF NewBlocks
<1> HIDE DEF k
<1>7. /\ SubSeq(e, k + 1, Len(e)) \in Seq(Signed) /\ Len(SubSeq(e, k + 1, Len(e))) = Len(e) - k
      /\ \A j \in 1 .. Len(e) - k : SubSeq(e, k + 1, Len(e))[j] = e[k + j]
  BY <1>1, <1>5
<1>8. ASSUME References(e) PROVE References(NewBlocks(e))
  <2> SUFFICES ASSUME NEW j \in 1 .. Len(e) - k - 1
               PROVE  SubSeq(e, k + 1, Len(e))[j + 1].ref = SubSeq(e, k + 1, Len(e))[j].id
    BY <1>6, <1>7 DEF References
  <2>1. k + j \in 1 .. Len(e) - 1 /\ j \in 1 .. Len(e) - k /\ j + 1 \in 1 .. Len(e) - k
    BY <1>1, <1>5
  <2>2. e[(k + j) + 1].ref = e[k + j].id
    BY <1>8, <2>1 DEF References
  <2>3. (k + j) + 1 = k + (j + 1)
    BY <1>5
  <2> QED BY <1>7, <2>1, <2>2, <2>3
<1> QED BY <1>1, <1>5, <1>6, <1>7, <1>8

-----------------------------------------------------------------------------
(* The local state of ExtensionAppender.apply, and the height of the last
   common block: what was dropped is the end of what there was. *)
Stages == {"dropping", "applying", "undoing", "undropping", "restoring", "failed"}
ExtType ==
  [stage : Stages, common : Ids, blocks : Seq(Signed), next : Nat \ {0},
   dropped : Seq(BlockType), before : Seq(BlockType), inLiquid : BOOLEAN]
CommonHeight(x) == Len(x.before) - Len(x.dropped)
Started(x) ==
  /\ x \in ExtType
  /\ Len(x.blocks) \in 1 .. MaxRollbackDepth + 1
  /\ x.common = x.blocks[1].ref
  /\ CompleteBlocks(x.before)
  /\ CommonHeight(x) > 0
  /\ \A i \in 1 .. Len(x.dropped) : x.dropped[i] = x.before[CommonHeight(x) + i]
  /\ IF x.inLiquid THEN x.dropped = <<>>
     ELSE x.before[CommonHeight(x)].id = x.common /\ x.before[CommonHeight(x)] \in Signed

(* The common block is persisted, above the blocks that were below it before;
   or it is still a state of the liquid block and nothing has changed. *)
OnCommon(c, x) ==
  /\ Len(c) >= CommonHeight(x)
  /\ \A h \in 1 .. CommonHeight(x) - 1 : c[h].block = x.before[h]
  /\ c[CommonHeight(x)].block.id = x.common
AtCommon(c, n, x) == OnCommon(c, x) /\ n = NoNg /\ Len(c) = CommonHeight(x)
InLiquid(c, n, x) ==
  /\ x.inLiquid
  /\ n # NoNg /\ NgContains(n, x.common)
  /\ Len(x.before) = Len(c) + 1
  /\ \A h \in 1 .. Len(c) : c[h].block = x.before[h]
  /\ x.before[Len(c) + 1] = BestLiquidBlock(n)

(* The blocks of a linked extension appended so far are the end of the chain. *)
Applied(c, n, x) ==
  /\ Len(c) = CommonHeight(x) + x.next - 2
  /\ n.base = x.blocks[x.next - 1]
  /\ \A i \in 1 .. x.next - 2 : c[CommonHeight(x) + i].block = x.blocks[i]

(* While blocks are applied the common block stays above the safe height. *)
Applying(c, n, s, x) ==
  /\ x.next <= Len(x.blocks) + 1
  /\ x.next <= Len(x.blocks) => s < CommonHeight(x)
  /\ \/ x.next = 1 /\ InLiquid(c, n, x)
     \/ x.next = 1 /\ AtCommon(c, n, x)
     \/ /\ x.next > 1 /\ OnCommon(c, x)
        /\ n # NoNg /\ n.micros = <<>> /\ Len(c) <= CommonHeight(x) + x.next - 2
        /\ References(x.blocks) => Applied(c, n, x)

(* While blocks are restored the chain is what it was up to the next one; the
   recovery fails at the last one only, if that one is not signed. *)
Restored(c, n, x) ==
  /\ n # NoNg /\ n = [base |-> x.dropped[x.next - 1], micros |-> <<>>]
  /\ Len(c) = CommonHeight(x) + x.next - 2
  /\ \A h \in 1 .. Len(c) : c[h].block = x.before[h]
Restoring(c, n, x) ==
  /\ x.next <= Len(x.dropped) + 1
  /\ \/ InLiquid(c, n, x)
     \/ x.next = 1 /\ AtCommon(c, n, x)
     \/ x.next > 1 /\ Restored(c, n, x)

StageInv(c, n, s, r, x) ==
  \/ x.stage \in {"dropping", "undropping"} /\ r = CommonHeight(x) /\ OnCommon(c, x)
  \/ x.stage = "applying" /\ r = 0 /\ Applying(c, n, s, x)
  \/ /\ x.stage = "undoing" /\ r = 0
     /\ s < CommonHeight(x) /\ (InLiquid(c, n, x) \/ OnCommon(c, x))
  \/ x.stage = "restoring" /\ r = 0 /\ Restoring(c, n, x)
  \/ /\ x.stage = "failed" /\ r = 0 /\ Restoring(c, n, x)
     /\ x.next = Len(x.dropped) /\ x.dropped[x.next] \notin Signed

ExtInv ==
  /\ chain # <<>> \/ ng # NoNg
  /\ ext # NoExt => Started(ext) /\ StageInv(chain, ng, safe, rolling, ext)

(* The inductive invariant of the node with its appenders. *)
SwitchInv == IInv /\ CapacityAccounted /\ AppliesInv /\ ExtInv

-----------------------------------------------------------------------------
(* A step of the apply method changes only its stage and the next block. *)
MoveTo(x, st, k) == [x EXCEPT !.stage = st, !.next = k]
LEMMA Moved ==
  ASSUME NEW x, Started(x), NEW st \in Stages, NEW k \in Nat \ {0}, NEW y, y = MoveTo(x, st, k)
  PROVE  /\ Started(y) /\ y.stage = st /\ y.next = k
         /\ y.common = x.common /\ y.blocks = x.blocks /\ y.dropped = x.dropped
         /\ y.before = x.before /\ y.inLiquid = x.inLiquid
         /\ CommonHeight(y) = CommonHeight(x)
<1>1. x \in ExtType /\ y = [x EXCEPT !.stage = st, !.next = k]
  BY DEF Started, MoveTo
<1>2. /\ y.stage = st /\ y.next = k
      /\ y.common = x.common /\ y.blocks = x.blocks /\ y.dropped = x.dropped
      /\ y.before = x.before
  BY <1>1 DEF ExtType
<1>3. y.inLiquid = x.inLiquid
  BY <1>1 DEF ExtType
<1>4. y \in ExtType
  BY <1>1 DEF ExtType
<1> QED BY <1>2, <1>3, <1>4 DEF Started, CommonHeight

(* The steps that change only one of the two. *)
LEMMA MovedParts ==
  ASSUME NEW x, Started(x)
  PROVE  /\ \A k : [x EXCEPT !.next = k] = MoveTo(x, x.stage, k)
         /\ \A st : [x EXCEPT !.stage = st] = MoveTo(x, st, x.next)
<1>1. x \in ExtType
  BY DEF Started
<1> QED BY <1>1 DEF MoveTo, ExtType

(* The types of the parts. *)
LEMMA StartedFacts ==
  ASSUME NEW x, Started(x)
  PROVE  /\ x.stage \in Stages /\ x.common \in Ids /\ x.next \in Nat \ {0}
         /\ x.blocks \in Seq(Signed) /\ x.dropped \in Seq(BlockType) /\ x.before \in Seq(BlockType)
         /\ Len(x.blocks) \in Nat /\ Len(x.dropped) \in Nat /\ Len(x.before) \in Nat
         /\ CommonHeight(x) \in Nat \ {0}
         /\ CommonHeight(x) + Len(x.dropped) = Len(x.before)
         /\ \A i \in 1 .. Len(x.blocks) : x.blocks[i] \in Signed /\ x.blocks[i] \in Blocks
         /\ \A i \in 1 .. Len(x.dropped) - 1 : x.dropped[i] \in Signed
<1>1. /\ x.stage \in Stages /\ x.common \in Ids /\ x.next \in Nat \ {0}
      /\ x.blocks \in Seq(Signed) /\ x.dropped \in Seq(BlockType) /\ x.before \in Seq(BlockType)
  BY DEF Started, ExtType
<1>2. Len(x.blocks) \in Nat /\ Len(x.dropped) \in Nat /\ Len(x.before) \in Nat
  BY <1>1, LenProperties
<1>3. CommonHeight(x) \in Nat \ {0} /\ CommonHeight(x) + Len(x.dropped) = Len(x.before)
  <2>1. CommonHeight(x) > 0 /\ CommonHeight(x) = Len(x.before) - Len(x.dropped)
    BY DEF Started, CommonHeight
  <2>2. \A a, b \in Nat : \A c : c = a - b /\ c > 0 => c \in Nat \ {0} /\ c + b = a
    OBVIOUS
  <2> QED BY <1>2, <2>1, <2>2, Zenon
<1>4. \A s \in Seq(Signed) : \A i \in 1 .. Len(s) : s[i] \in Signed /\ s[i] \in Blocks
  <2>1. \A s \in Seq(Signed) : \A i \in 1 .. Len(s) : s[i] \in Signed
    BY ElementOfSeq
  <2>2. \A b \in Signed : b \in Blocks
    BY ExtensionAssumption
  <2> QED BY <2>1, <2>2, Zenon
<1>5. ASSUME NEW i \in 1 .. Len(x.dropped) - 1 PROVE x.dropped[i] \in Signed
  <2> DEFINE h == CommonHeight(x)
  <2>1. x.dropped[i] = x.before[h + i]
    <3>1. i \in 1 .. Len(x.dropped)
      BY <1>2
    <3> QED BY <3>1 DEF Started
  <2>2. \A j \in 1 .. Len(x.before) - 1 : x.before[j] \in Signed
    BY DEF Started, CompleteBlocks
  <2> HIDE DEF h
  <2>3. h + i \in 1 .. Len(x.before) - 1
    BY <1>2, <1>3 DEF h
  <2> QED BY <2>1, <2>2, <2>3
<1> QED BY <1>1, <1>2, <1>3, <1>4, <1>5, Zenon

(* A block that processBlock accepts becomes the liquid block, on the last block
   or in place of the liquid one, whose height stays; *)
LEMMA FreshStep ==
  ASSUME NEW b, AppendToPersisted(b) \/ ReplaceLiquid(b)
  PROVE  /\ b \in Signed /\ chain' = chain /\ safe' = safe /\ rolling = 0 /\ rolling' = 0
         /\ ng' = [base |-> b, micros |-> <<>>] /\ ng' # NoNg
<1>1. /\ b \in Signed /\ chain' = chain /\ safe' = safe /\ rolling = 0 /\ rolling' = 0
      /\ ng' = [base |-> b, micros |-> <<>>]
  BY DEF AppendToPersisted, ReplaceLiquid, NewLiquid, MayPass
<1> QED BY <1>1, FreshTransactions

(* ... or above it, when the liquid block is persisted. *)
LEMMA HardenStep ==
  ASSUME IInv, NEW b, Harden(b)
  PROVE  /\ b \in Signed /\ rolling = 0 /\ rolling' = 0
         /\ ng' = [base |-> b, micros |-> <<>>] /\ ng' # NoNg
         /\ ng # NoNg /\ NgContains(ng, b.ref) /\ ~Competes(b)
         /\ Len(chain) \in Nat /\ Len(chain') = Len(chain) + 1
         /\ \A h \in 1 .. Len(chain) : chain'[h] = chain[h]
         /\ chain'[Len(chain) + 1].block = ForgeBlock(ng, b.ref)
         /\ ForgeBlock(ng, b.ref).id = b.ref
         /\ safe \in Nat /\ safe' = IF safe < SafeFloor THEN SafeFloor ELSE safe
<1>1. /\ b \in Signed /\ rolling = 0 /\ rolling' = 0
      /\ ng' = [base |-> b, micros |-> <<>>]
      /\ ng # NoNg /\ NgContains(ng, b.ref) /\ ~Competes(b)
      /\ ForgeBlock(ng, b.ref) \in Signed /\ AppendPersisted(ForgeBlock(ng, b.ref))
  BY DEF Harden, ExtendsLiquid, NewLiquid, MayPass
<1>2. /\ TypeOK /\ ng \in LiquidType /\ Len(chain) \in Nat /\ safe \in Nat
  BY <1>1, LenProperties DEF IInv, TypeOK
<1>3. ForgeBlock(ng, b.ref).id = b.ref
  BY <1>1, <1>2, ContainsVersion
<1>4. ng' # NoNg
  BY <1>1, FreshTransactions
<1>5. safe' = IF safe < SafeFloor THEN SafeFloor ELSE safe
  BY <1>1 DEF AppendPersisted
<1> QED BY <1>1, <1>2, <1>3, <1>4, <1>5, AppendPersistedEffect

(* heightOf of a persisted id is a height at which it is. *)
LEMMA HeightIs ==
  ASSUME NEW id, Persisted(id)
  PROVE  HeightOfPersisted(id) \in 1 .. Len(chain) /\ chain[HeightOfPersisted(id)].block.id = id
BY DEF Persisted, HeightOfPersisted

-----------------------------------------------------------------------------
(* Between extensions: one block or one microblock. *)
LEMMA AppendersKeep ==
  ASSUME SwitchInv,
         \/ \E b \in Blocks : BlockAppender(b)
         \/ \E m \in Micros : MicroblockAppender(m)
  PROVE  ExtInv'
<1>1. ext' = ext /\ ext = NoExt /\ (chain # <<>> \/ ng # NoNg)
  BY DEF BlockAppender, MicroblockAppender, SwitchInv, ExtInv
<1>2. ASSUME NEW b \in Blocks, ProcessBlock(b) PROVE chain' # <<>> \/ ng' # NoNg
  <2>1. CASE AppendToPersisted(b) \/ ReplaceLiquid(b)
    BY <2>1, FreshStep
  <2>2. CASE Harden(b)
    BY <2>2, HardenStep DEF SwitchInv
  <2>3. CASE RefuseCompetitor(b) \/ RefuseChild(b)
    BY <1>1, <2>3 DEF RefuseCompetitor, RefuseChild
  <2> QED BY <1>2, <2>1, <2>2, <2>3 DEF ProcessBlock
<1>3. ASSUME NEW m \in Micros, ProcessMicroBlock(m) PROVE ng' # NoNg
  <2>1. ng \in LiquidType /\ ng' = [ng EXCEPT !.micros = Append(ng.micros, m)]
    BY <1>3 DEF ProcessMicroBlock, SwitchInv, IInv, TypeOK
  <2>2. Append(ng.micros, m) \in Seq(Micros)
    BY <2>1, AppendProperties DEF LiquidType
  <2>3. ng' \in LiquidType
    BY <2>1, <2>2 DEF LiquidType
  <2> QED BY <2>3, ParameterAssumption
<1>4. chain' # <<>> \/ ng' # NoNg
  BY <1>2, <1>3 DEF BlockAppender, MicroblockAppender
<1> QED BY <1>1, <1>4 DEF ExtInv

(* removeAfter drops the common block's successors one by one. *)
LEMMA DroppingKeeps ==
  ASSUME SwitchInv, Dropping
  PROVE  ExtInv'
<1>1. /\ ext # NoExt /\ Started(ext) /\ StageInv(chain, ng, safe, rolling, ext)
      /\ rolling # 0 /\ Len(chain) > rolling /\ chain' = SubSeq(chain, 1, Len(chain) - 1)
      /\ UNCHANGED <<safe, ng, rolling, ext>>
  BY DEF Dropping, RollbackStep, SwitchInv, ExtInv
<1>2. ext.stage \in {"dropping", "undropping"} /\ rolling = CommonHeight(ext) /\ OnCommon(chain, ext)
  BY <1>1 DEF StageInv
<1>3. CommonHeight(ext) \in Nat \ {0} /\ chain \in Seq(EntryType) /\ Len(chain) \in Nat
  BY <1>1, StartedFacts, LenProperties DEF SwitchInv, IInv, TypeOK
<1>4. Len(chain') = Len(chain) - 1 /\ \A h \in 1 .. Len(chain) - 1 : chain'[h] = chain[h]
  <2>1. Len(chain) > 0
    BY <1>1, <1>2, <1>3
  <2> QED BY <1>1, <1>3, <2>1, WithoutLast
<1>5. OnCommon(chain', ext)
  <2>1. Len(chain') >= CommonHeight(ext)
    BY <1>1, <1>2, <1>3, <1>4
  <2>2. \A h \in 1 .. CommonHeight(ext) : h \in 1 .. Len(chain) - 1
    BY <1>1, <1>2, <1>3
  <2>3. CommonHeight(ext) \in 1 .. CommonHeight(ext)
        /\ \A h \in 1 .. CommonHeight(ext) - 1 : h \in 1 .. CommonHeight(ext)
    BY <1>3
  <2> QED BY <1>2, <1>4, <2>1, <2>2, <2>3 DEF OnCommon
<1>6. chain' # <<>>
  BY <1>1, <1>2, <1>3, <1>4, EmptySeq
<1> QED BY <1>1, <1>2, <1>5, <1>6 DEF ExtInv, StageInv

(* removeAfter returns: the common block is the last one. *)
LEMMA DroppedKeeps ==
  ASSUME SwitchInv, Dropped
  PROVE  ExtInv'
<1>1. /\ ext # NoExt /\ Started(ext) /\ StageInv(chain, ng, safe, rolling, ext)
      /\ rolling # 0 /\ Len(chain) = rolling /\ rolling' = 0
      /\ UNCHANGED <<chain, safe, ng>>
      /\ (chain # <<>> \/ ng # NoNg)
  BY DEF Dropped, RemoveAfterDone, SwitchInv, ExtInv
<1>2. ext.stage \in {"dropping", "undropping"} /\ rolling = CommonHeight(ext) /\ OnCommon(chain, ext)
  BY <1>1 DEF StageInv
<1>3. ng = NoNg /\ safe < CommonHeight(ext)
  BY <1>1, <1>2 DEF SwitchInv, IInv, NoLiquidWhileRolling, RollbackWindow
<1> DEFINE st == IF ext.stage = "dropping" THEN "applying" ELSE "restoring"
<1>4. ext' = MoveTo(ext, st, 1)
  BY DEF Dropped, MoveTo
<1>5. st \in Stages /\ st \in {"applying", "restoring"}
  BY DEF Stages
<1> HIDE DEF st
<1>6. /\ Started(ext') /\ ext'.stage = st /\ ext'.next = 1 /\ ext'.common = ext.common
      /\ ext'.blocks = ext.blocks /\ ext'.dropped = ext.dropped /\ ext'.before = ext.before
      /\ CommonHeight(ext') = CommonHeight(ext)
  <2>1. 1 \in Nat \ {0}
    OBVIOUS
  <2> QED BY <1>1, <1>4, <1>5, <2>1, Moved
<1>7. AtCommon(chain, ng, ext')
  BY <1>1, <1>2, <1>3, <1>6 DEF AtCommon, OnCommon
<1>8. 1 <= Len(ext'.blocks) + 1 /\ 1 <= Len(ext'.dropped) + 1
  BY <1>6, StartedFacts
<1>9. Applying(chain, ng, safe, ext') /\ Restoring(chain, ng, ext')
  BY <1>3, <1>6, <1>7, <1>8 DEF Applying, Restoring
<1>10. StageInv(chain, ng, safe, 0, ext')
  BY <1>5, <1>6, <1>9 DEF StageInv
<1> QED BY <1>1, <1>6, <1>10 DEF ExtInv

-----------------------------------------------------------------------------
(* The start of an extension: the blocks that are new to the node. *)
LEMMA NewExtTyped ==
  ASSUME SwitchInv, NEW e \in Extensions, NewBlocks(e) # <<>>,
         NEW st \in Stages, NEW d \in Seq(BlockType), NEW x, x = NewExt(st, NewBlocks(e), d)
  PROVE  /\ x \in ExtType /\ Len(x.blocks) \in 1 .. MaxRollbackDepth + 1
         /\ x.common = x.blocks[1].ref /\ x.common = NewBlocks(e)[1].ref
         /\ CompleteBlocks(x.before)
         /\ x.stage = st /\ x.next = 1 /\ x.dropped = d /\ x.before = FullChain
         /\ x.inLiquid <=> (ng # NoNg /\ NgContains(ng, x.common))
         /\ (\A f \in Extensions : References(f)) => References(x.blocks)
<1> DEFINE new == NewBlocks(e)
           q == ng # NoNg /\ NgContains(ng, new[1].ref)
<1>1. /\ new \in Seq(Signed) /\ Len(new) \in 1 .. MaxRollbackDepth + 1
      /\ References(e) => References(new)
  <2>1. e \in Seq(Signed) /\ Len(e) <= MaxRollbackDepth + 1 /\ Len(e) \in Nat
    BY ExtensionAssumption, LenProperties
  <2>2. /\ new \in Seq(Signed) /\ Len(new) \in Nat /\ Len(new) <= Len(e)
        /\ References(e) => References(new)
    BY <2>1, NewBlocksFacts
  <2>3. Len(new) # 0
    BY <2>2, EmptySeq
  <2> HIDE DEF new
  <2> QED BY <2>1, <2>2, <2>3, ParameterAssumption
<1>2. new[1].ref \in Ids
  <2>1. 1 \in 1 .. Len(new)
    BY <1>1
  <2>2. new[1] \in Signed
    BY <1>1, <2>1, ElementOfSeq
  <2> QED BY <2>2, BlocksAssumption DEF BlockType
<1>3. CompleteBlocks(FullChain) /\ FullChain \in Seq(BlockType)
  BY FullChainIs DEF SwitchInv
<1>4. q \in BOOLEAN
  OBVIOUS
<1>5. x = [stage |-> st, common |-> new[1].ref, blocks |-> new, next |-> 1,
           dropped |-> d, before |-> FullChain, inLiquid |-> q]
  BY DEF NewExt
<1> HIDE DEF new, q
<1>6. x \in ExtType
  BY <1>1, <1>2, <1>3, <1>4, <1>5 DEF ExtType
<1>7. /\ x.stage = st /\ x.common = new[1].ref /\ x.blocks = new /\ x.next = 1
      /\ x.dropped = d /\ x.before = FullChain
  BY <1>5
<1>8. x.inLiquid = q
  BY <1>4, <1>5
<1>9. x.inLiquid <=> (ng # NoNg /\ NgContains(ng, x.common))
  BY <1>7, <1>8, Zenon DEF q
<1> QED BY <1>1, <1>3, <1>6, <1>7, <1>9 DEF new

(* Nothing has to be dropped. *)
LEMMA StartOnTopKeeps ==
  ASSUME SwitchInv, NEW e \in Extensions, StartOnTop(NewBlocks(e))
  PROVE  ExtInv'
<1> DEFINE id == NewBlocks(e)[1].ref
<1>1. /\ NewBlocks(e) # <<>> /\ rolling = 0 /\ IsLastBlockId(id)
      /\ ext' = NewExt("applying", NewBlocks(e), <<>>)
      /\ UNCHANGED <<chain, safe, ng, rolling>>
      /\ (chain # <<>> \/ ng # NoNg)
  BY DEF StartOnTop, RemoveAfterInLiquid, vars, SwitchInv, ExtInv
<1>2. /\ ext' \in ExtType /\ Len(ext'.blocks) \in 1 .. MaxRollbackDepth + 1
      /\ ext'.common = ext'.blocks[1].ref /\ ext'.common = id
      /\ CompleteBlocks(ext'.before)
      /\ ext'.stage = "applying" /\ ext'.next = 1 /\ ext'.dropped = <<>> /\ ext'.before = FullChain
      /\ ext'.inLiquid <=> (ng # NoNg /\ NgContains(ng, ext'.common))
  <2>1. "applying" \in Stages /\ <<>> \in Seq(BlockType)
    BY EmptySeq DEF Stages
  <2>2. ASSUME NEW d \in Seq(BlockType), NEW x, x = NewExt("applying", NewBlocks(e), d)
        PROVE  /\ x \in ExtType /\ Len(x.blocks) \in 1 .. MaxRollbackDepth + 1
               /\ x.common = x.blocks[1].ref /\ x.common = id
               /\ CompleteBlocks(x.before)
               /\ x.stage = "applying" /\ x.next = 1 /\ x.dropped = d /\ x.before = FullChain
               /\ x.inLiquid <=> (ng # NoNg /\ NgContains(ng, x.common))
    BY <1>1, <2>1, <2>2, NewExtTyped
  <2> QED BY ZenonT(60), <1>1, <2>1, <2>2
<1>3. /\ Len(FullChain) = HeightOf(chain, ng) /\ Len(chain) \in Nat
      /\ \A h \in 1 .. Len(chain) : FullChain[h] = chain[h].block /\ FullChain[h] \in Signed
      /\ ng # NoNg => FullChain[Len(chain) + 1] = BestLiquidBlock(ng)
  BY FullChainIs DEF SwitchInv
<1>4. /\ Len(ext'.before) = HeightOf(chain, ng) /\ Len(ext'.dropped) = 0
      /\ CommonHeight(ext') = HeightOf(chain, ng)
  <2>1. Len(ext'.before) = HeightOf(chain, ng) /\ Len(ext'.dropped) = 0
    BY <1>2, <1>3, EmptySeq
  <2>2. HeightOf(chain, ng) \in Nat
    BY <1>3 DEF HeightOf
  <2>3. \A x \in Nat : x - 0 = x
    OBVIOUS
  <2> QED BY <2>1, <2>2, <2>3 DEF CommonHeight
<1> HIDE DEF id
<1>5. /\ chain = <<>> => safe = 0
      /\ chain # <<>> => safe < Len(chain) /\ Len(chain) > 0
      /\ safe \in Nat
  BY <1>3, EmptySeq DEF SwitchInv, IInv, RollbackWindow, TypeOK
<1>6. CASE ng = NoNg
  <2>1. HeightOf(chain, ng) = Len(chain) /\ Len(chain) > 0 /\ Len(chain) \in 1 .. Len(chain)
    BY <1>1, <1>3, <1>5, <1>6 DEF HeightOf
  <2>3. chain[Len(chain)].block.id = id
    BY <1>1, <1>6 DEF IsLastBlockId, LastPersistedId
  <2>4. ~ext'.inLiquid
    BY <1>2, <1>6
  <2>5. Started(ext')
    <3>1. /\ ext'.before[CommonHeight(ext')].id = ext'.common
          /\ ext'.before[CommonHeight(ext')] \in Signed
      BY <1>2, <1>3, <1>4, <2>1, <2>3
    <3>2. CommonHeight(ext') > 0 /\ \A i \in 1 .. Len(ext'.dropped) : FALSE
      BY <1>4, <2>1
    <3> QED BY <1>2, <2>4, <3>1, <3>2 DEF Started
  <2>6. AtCommon(chain, ng, ext')
    <3>1. Len(chain) = CommonHeight(ext') /\ chain[CommonHeight(ext')].block.id = ext'.common
      BY <1>2, <1>4, <2>1, <2>3
    <3>2. \A h \in 1 .. CommonHeight(ext') - 1 : chain[h].block = ext'.before[h]
      BY <1>2, <1>3, <3>1
    <3>3. Len(chain) >= CommonHeight(ext')
      BY <1>3, <3>1
    <3> QED BY <1>6, <3>1, <3>2, <3>3 DEF AtCommon, OnCommon
  <2>7. safe < CommonHeight(ext') /\ 1 <= Len(ext'.blocks) + 1
    BY <1>2, <1>4, <1>5, <2>1, EmptySeq
  <2>8. Applying(chain, ng, safe, ext')
    BY <1>2, <2>6, <2>7 DEF Applying
  <2> QED BY <1>1, <1>2, <2>5, <2>8 DEF ExtInv, StageInv
<1>7. CASE ng # NoNg
  <2>1. HeightOf(chain, ng) = Len(chain) + 1
    BY <1>7 DEF HeightOf
  <2>2. NgContains(ng, id)
    BY <1>1, <1>7 DEF IsLastBlockId
  <2>3. ext'.inLiquid
    BY <1>2, <1>7, <2>2
  <2>4. Started(ext')
    <3>1. CommonHeight(ext') > 0 /\ \A i \in 1 .. Len(ext'.dropped) : FALSE
      BY <1>3, <1>4, <2>1
    <3> QED BY <1>2, <2>3, <3>1 DEF Started
  <2>5. InLiquid(chain, ng, ext')
    BY <1>2, <1>3, <1>4, <1>7, <2>1, <2>2, <2>3 DEF InLiquid
  <2>6. safe < CommonHeight(ext') /\ 1 <= Len(ext'.blocks) + 1
    BY <1>2, <1>3, <1>4, <1>5, <2>1
  <2>7. Applying(chain, ng, safe, ext')
    BY <1>2, <2>5, <2>6 DEF Applying
  <2> QED BY <1>1, <1>2, <2>4, <2>7 DEF ExtInv, StageInv
<1> QED BY <1>6, <1>7

(* What removeAfter returns is the end of the chain. *)
LEMMA DroppedIs ==
  ASSUME IInv, AppliesInv, NEW h \in 1 .. Len(chain)
  PROVE  /\ DroppedAfter(h) \in Seq(BlockType)
         /\ Len(DroppedAfter(h)) = HeightOf(chain, ng) - h
         /\ \A i \in 1 .. Len(DroppedAfter(h)) : DroppedAfter(h)[i] = FullChain[h + i]
<1> DEFINE s == PersistedBlocks
           u == SubSeq(s, h + 1, Len(chain))
           b == BestLiquidBlock(ng)
<1>1. /\ s \in Seq(BlockType) /\ Len(s) = Len(chain) /\ Len(chain) \in Nat
      /\ \A i \in 1 .. Len(chain) : s[i] = chain[i].block
  BY PersistedIs, SignedBlocks DEF IInv, TypeOK
<1>2. /\ FullChain \in Seq(BlockType) /\ Len(FullChain) = HeightOf(chain, ng)
      /\ \A i \in 1 .. Len(chain) : FullChain[i] = chain[i].block
      /\ ng # NoNg => FullChain[Len(chain) + 1] = b
  BY FullChainIs
<1>3. DroppedAfter(h) = u \o LiquidBlocks
  BY DEF DroppedAfter
<1> HIDE DEF s, b
<1>4. /\ u \in Seq(BlockType) /\ Len(u) = Len(chain) - h
      /\ \A i \in 1 .. Len(chain) - h : u[i] = s[h + i]
  BY <1>1
<1> HIDE DEF u
<1>5. \A i \in 1 .. Len(chain) - h : u[i] = FullChain[h + i]
  <2> TAKE i \in 1 .. Len(chain) - h
  <2>1. h + i \in 1 .. Len(chain)
    BY <1>1
  <2> QED BY <1>1, <1>2, <1>4, <2>1
<1>6. CASE ng = NoNg
  <2>1. DroppedAfter(h) = u
    BY <1>3, <1>4, <1>6, ConcatEmptySeq DEF LiquidBlocks
  <2>2. HeightOf(chain, ng) = Len(chain)
    BY <1>6 DEF HeightOf
  <2> QED BY <1>4, <1>5, <2>1, <2>2
<1>7. CASE ng # NoNg
  <2>1. DroppedAfter(h) = u \o <<b>> /\ HeightOf(chain, ng) = Len(chain) + 1
    BY <1>3, <1>7 DEF LiquidBlocks, HeightOf, b
  <2>2. b \in BlockType
    <3>1. Len(chain) + 1 \in 1 .. Len(FullChain)
      BY <1>1, <1>2, <2>1
    <3>2. FullChain[Len(chain) + 1] \in BlockType
      BY <1>2, <3>1, ElementOfSeq
    <3> QED BY <1>2, <1>7, <3>2
  <2>3. /\ u \o <<b>> \in Seq(BlockType) /\ Len(u \o <<b>>) = Len(u) + 1
        /\ \A i \in 1 .. Len(u) : (u \o <<b>>)[i] = u[i]
        /\ (u \o <<b>>)[Len(u) + 1] = b
    BY <1>4, <2>2
  <2> DEFINE d == DroppedAfter(h)
  <2>4. /\ d \in Seq(BlockType) /\ Len(d) = Len(u) + 1
        /\ \A i \in 1 .. Len(u) : d[i] = u[i]
        /\ d[Len(u) + 1] = b
    BY <2>1, <2>3
  <2> HIDE DEF d
  <2>5. Len(d) = HeightOf(chain, ng) - h
    BY <1>1, <1>4, <2>1, <2>4
  <2>6. ASSUME NEW i \in 1 .. Len(d) PROVE d[i] = FullChain[h + i]
    <3>1. CASE i \in 1 .. Len(u)
      BY <1>4, <1>5, <2>4, <3>1
    <3>2. CASE i = Len(u) + 1
      <4>1. h + i = Len(chain) + 1
        BY <1>1, <1>4, <3>2
      <4> QED BY <1>2, <1>7, <2>4, <3>2, <4>1
    <3>3. Len(u) \in Nat /\ i \in 1 .. Len(u) + 1
      BY <1>4, <2>4, LenProperties
    <3>4. i \in 1 .. Len(u) \/ i = Len(u) + 1
      BY <3>3
    <3> QED BY <3>1, <3>2, <3>4
  <2> QED BY <2>4, <2>5, <2>6 DEF d
<1> QED BY <1>6, <1>7

(* The blocks above the common one are going to be dropped. *)
LEMMA StartWithRollbackKeeps ==
  ASSUME SwitchInv, NEW e \in Extensions, StartWithRollback(NewBlocks(e))
  PROVE  ExtInv'
<1> DEFINE id == NewBlocks(e)[1].ref
           H == HeightOfPersisted(id)
           D == DroppedAfter(H)
<1>1. /\ NewBlocks(e) # <<>> /\ Persisted(id) /\ (ng # NoNg => ~NgContains(ng, id))
      /\ ext' = NewExt("dropping", NewBlocks(e), D)
      /\ rolling' = H /\ ng' = NoNg /\ UNCHANGED <<chain, safe>>
  BY DEF StartWithRollback, RemoveAfterStart, RollbackAllowed, SwitchInv, ExtInv
<1>2. H \in 1 .. Len(chain) /\ chain[H].block.id = id
  BY <1>1, HeightIs
<1> HIDE DEF id, H
<1>3. /\ D \in Seq(BlockType) /\ Len(D) = HeightOf(chain, ng) - H
      /\ \A i \in 1 .. Len(D) : D[i] = FullChain[H + i]
  BY <1>2, DroppedIs DEF SwitchInv
<1> HIDE DEF D
<1>4. /\ ext' \in ExtType /\ Len(ext'.blocks) \in 1 .. MaxRollbackDepth + 1
      /\ ext'.common = ext'.blocks[1].ref /\ ext'.common = id
      /\ CompleteBlocks(ext'.before)
      /\ ext'.stage = "dropping" /\ ext'.dropped = D /\ ext'.before = FullChain
      /\ ext'.inLiquid <=> (ng # NoNg /\ NgContains(ng, ext'.common))
  <2>1. "dropping" \in Stages
    BY DEF Stages
  <2>2. ASSUME NEW d \in Seq(BlockType), NEW x, x = NewExt("dropping", NewBlocks(e), d)
        PROVE  /\ x \in ExtType /\ Len(x.blocks) \in 1 .. MaxRollbackDepth + 1
               /\ x.common = x.blocks[1].ref /\ x.common = id
               /\ CompleteBlocks(x.before)
               /\ x.stage = "dropping" /\ x.dropped = d /\ x.before = FullChain
               /\ x.inLiquid <=> (ng # NoNg /\ NgContains(ng, x.common))
    BY <1>1, <2>1, <2>2, NewExtTyped DEF id
  <2> QED BY <1>1, <1>3, <2>2
<1>5. /\ Len(FullChain) = HeightOf(chain, ng) /\ Len(chain) \in Nat
      /\ \A h \in 1 .. Len(chain) : FullChain[h] = chain[h].block /\ FullChain[h] \in Signed
  BY FullChainIs DEF SwitchInv
<1>6. CommonHeight(ext') = H
  <2>1. HeightOf(chain, ng) \in Nat /\ H \in Nat
    BY <1>2, <1>5 DEF HeightOf
  <2>2. \A x, y \in Nat : x - (x - y) = y
    OBVIOUS
  <2> QED BY <1>3, <1>4, <1>5, <2>1, <2>2 DEF CommonHeight
<1>7. ~ext'.inLiquid
  BY <1>1, <1>4
<1>8. Started(ext')
  <2>1. /\ ext'.before[CommonHeight(ext')].id = ext'.common /\ CommonHeight(ext') > 0
        /\ ext'.before[CommonHeight(ext')] \in Signed
    BY <1>2, <1>4, <1>5, <1>6
  <2>2. \A i \in 1 .. Len(ext'.dropped) : ext'.dropped[i] = ext'.before[CommonHeight(ext') + i]
    BY <1>3, <1>4, <1>6
  <2> QED BY <1>4, <1>7, <2>1, <2>2 DEF Started
<1>9. OnCommon(chain, ext')
  <2>1. H <= Len(chain) /\ \A h \in 1 .. H - 1 : h \in 1 .. Len(chain)
    BY <1>2, <1>5
  <2>2. chain[H].block.id = ext'.common
    BY <1>2, <1>4
  <2>3. \A h \in 1 .. H - 1 : chain[h].block = ext'.before[h]
    BY <1>4, <1>5, <2>1
  <2> QED BY <1>5, <1>6, <2>1, <2>2, <2>3 DEF OnCommon
<1>10. chain # <<>>
  BY <1>2, EmptySeq
<1> QED BY <1>1, <1>4, <1>6, <1>8, <1>9, <1>10 DEF ExtInv, StageInv

(* The rollback is refused. *)
LEMMA StartRefusedKeeps ==
  ASSUME SwitchInv, NEW e \in Extensions, StartRefused(NewBlocks(e))
  PROVE  ExtInv'
<1>1. /\ UNCHANGED <<chain, ext>> /\ ext = NoExt
      /\ \E k \in 1 .. HeightOf(chain, ng) - 1 : TRUE
  BY DEF StartRefused, RemoveAfterRefused, SwitchInv, ExtInv
<1>2. Len(chain) \in Nat
  BY LenProperties DEF SwitchInv, IInv, TypeOK
<1>3. Len(chain) > 0
  BY <1>1, <1>2 DEF HeightOf
<1> QED BY <1>1, <1>3, EmptySeq DEF ExtInv

-----------------------------------------------------------------------------
(* The next block of the extension is appended, or ignored. *)
LEMMA ApplyRefusedKeeps ==
  ASSUME SwitchInv, ApplyRefused
  PROVE  ExtInv'
<1>1. /\ ext # NoExt /\ Started(ext) /\ StageInv(chain, ng, safe, rolling, ext)
      /\ ext.stage = "applying" /\ ext.next <= Len(ext.blocks)
      /\ ext' = [ext EXCEPT !.stage = "undoing"]
      /\ UNCHANGED <<chain, ng, safe, rolling>> /\ (chain # <<>> \/ ng # NoNg)
  BY DEF ApplyRefused, Refused, RefuseCompetitor, RefuseChild, vars, SwitchInv, ExtInv
<1>2. rolling = 0 /\ Applying(chain, ng, safe, ext)
  BY <1>1 DEF StageInv
<1>3. safe < CommonHeight(ext) /\ (InLiquid(chain, ng, ext) \/ OnCommon(chain, ext))
  BY <1>1, <1>2 DEF Applying, AtCommon
<1>4. ext' = MoveTo(ext, "undoing", ext.next) /\ "undoing" \in Stages /\ ext.next \in Nat \ {0}
  BY <1>1, MovedParts, StartedFacts DEF Stages
<1>5. /\ Started(ext') /\ ext'.stage = "undoing" /\ ext'.common = ext.common
      /\ ext'.before = ext.before /\ ext'.inLiquid = ext.inLiquid
      /\ CommonHeight(ext') = CommonHeight(ext)
  BY <1>1, <1>4, Moved
<1>6. safe < CommonHeight(ext') /\ (InLiquid(chain, ng, ext') \/ OnCommon(chain, ext'))
  BY <1>3, <1>5 DEF InLiquid, OnCommon
<1> QED BY <1>1, <1>2, <1>5, <1>6 DEF ExtInv, StageInv

(* An extension is shorter than the rollback window: persisting one more of its
   blocks, not the last, keeps the common block above the safe height. *)
LEMMA SafeBelowCommon ==
  ASSUME IInv, NEW b, Harden(b), NEW ch \in Nat, safe < ch,
         NEW k \in Nat, Len(chain) <= ch + k - 2, k <= MaxRollbackDepth
  PROVE  safe' < ch
<1>1. safe \in Nat /\ Len(chain) \in Nat /\ safe' = IF safe < SafeFloor THEN SafeFloor ELSE safe
  BY HardenStep
<1>2. SafeFloor = Len(chain) + 1 - MaxRollbackDepth
  BY DEF SafeFloor
<1> QED BY <1>1, <1>2, ParameterAssumption

(* A block on the liquid block, or on a state of it, does not compete with it. *)
LEMMA ChildHardens ==
  ASSUME Acyclic, IInv, AppliesInv, TotalsNew, ng # NoNg, NEW b, NgContains(ng, b.ref)
  PROVE  /\ ~Competes(b) /\ ~Ignores(b)
         /\ Accept(b) => Harden(b)
<1>1. ~Competes(b)
  BY LiquidIsNew DEF Competes
<1>2. ~Ignores(b) /\ ~AppendToPersisted(b) /\ ~ReplaceLiquid(b)
  BY <1>1 DEF Ignores, AppendToPersisted, ExtendsPersisted, ReplaceLiquid, BetterLiquid, LongerVersion
<1> QED BY <1>1, <1>2 DEF Accept

(* The three places the next block of the extension can meet: the common block
   is still liquid, it is the last block, or blocks have been applied above it. *)
ApplyBlock(b) == Accept(b) \/ (Ignores(b) /\ UNCHANGED vars)

(* The common block is a state of the liquid one, which is persisted. *)
LEMMA ApplyInLiquid ==
  ASSUME Acyclic, IInv, AppliesInv, TotalsNew, Started(ext), InLiquid(chain, ng, ext), safe < CommonHeight(ext),
         ext.next = 1, ApplyBlock(ext.blocks[1]), ext' = MoveTo(ext, "applying", 2)
  PROVE  Applying(chain', ng', safe', ext') /\ rolling' = 0 /\ Started(ext') /\ ng' # NoNg
<1> DEFINE b == ext.blocks[1]
           H == CommonHeight(ext)
<1>1. b.ref = ext.common /\ NgContains(ng, b.ref) /\ ng # NoNg
  BY DEF Started, InLiquid
<1>2. Harden(b)
  BY <1>1, ChildHardens DEF ApplyBlock
<1>3. /\ rolling' = 0 /\ ng' = [base |-> b, micros |-> <<>>] /\ ng' # NoNg
      /\ Len(chain) \in Nat /\ Len(chain') = Len(chain) + 1
      /\ \A h \in 1 .. Len(chain) : chain'[h] = chain[h]
      /\ chain'[Len(chain) + 1].block.id = ext.common
  BY <1>1, <1>2, HardenStep
<1>4. H \in Nat \ {0} /\ H = Len(chain) + 1
  <2>1. Len(ext.before) = Len(chain) + 1 /\ ext.dropped = <<>>
    BY DEF InLiquid, Started
  <2>2. H + Len(ext.dropped) = Len(ext.before) /\ H \in Nat \ {0}
    BY StartedFacts
  <2>3. Len(ext.dropped) = 0 /\ \A x \in Nat : x + 0 = x
    BY <2>1, EmptySeq
  <2> QED BY <2>1, <2>2, <2>3
<1>5. /\ Started(ext') /\ ext'.next = 2 /\ ext'.common = ext.common /\ ext'.blocks = ext.blocks
      /\ ext'.before = ext.before /\ CommonHeight(ext') = H
  <2>1. "applying" \in Stages /\ 2 \in Nat \ {0}
    BY DEF Stages
  <2> QED BY <2>1, Moved
<1> HIDE DEF b, H
<1>6. OnCommon(chain', ext')
  <2>1. \A h \in 1 .. H - 1 : chain'[h].block = ext.before[h]
    <3>1. \A h \in 1 .. Len(chain) : chain[h].block = ext.before[h]
      BY DEF InLiquid
    <3> QED BY <1>3, <1>4, <3>1
  <2>2. Len(chain') >= H /\ chain'[H].block.id = ext.common
    BY <1>3, <1>4
  <2> QED BY <1>5, <2>1, <2>2 DEF OnCommon
<1>7. Len(ext.blocks) \in 1 .. MaxRollbackDepth + 1 /\ MaxRollbackDepth \in Nat \ {0}
  BY ParameterAssumption DEF Started
<1>8. ASSUME 2 <= Len(ext.blocks) PROVE safe' < H
  <2>1. 1 <= MaxRollbackDepth /\ Len(chain) <= H + 1 - 2 /\ 1 \in Nat /\ H \in Nat
    BY <1>3, <1>4, <1>7
  <2> QED BY <1>2, <2>1, SafeBelowCommon DEF H
<1>9. 2 <= Len(ext'.blocks) + 1 /\ Len(chain') <= H + 2 - 2 /\ Len(chain') = H + 2 - 2
  BY <1>3, <1>4, <1>5, <1>7
<1>10. Applied(chain', ng', ext')
  <2>1. \A i \in 1 .. 2 - 2 : FALSE
    OBVIOUS
  <2>2. ng'.base = ext'.blocks[2 - 1]
    BY <1>3, <1>5 DEF b
  <2> QED BY <1>5, <1>9, <2>1, <2>2 DEF Applied
<1> QED BY <1>3, <1>5, <1>6, <1>8, <1>9, <1>10 DEF Applying

(* The common block is the last one. *)
LEMMA ApplyAtCommon ==
  ASSUME IInv, Started(ext), AtCommon(chain, ng, ext), safe < CommonHeight(ext),
         ext.next = 1, ApplyBlock(ext.blocks[1]), ext' = MoveTo(ext, "applying", 2)
  PROVE  Applying(chain', ng', safe', ext') /\ rolling' = 0 /\ Started(ext') /\ ng' # NoNg
<1> DEFINE b == ext.blocks[1]
           H == CommonHeight(ext)
<1>1. ng = NoNg /\ OnCommon(chain, ext) /\ Len(chain) = H
  BY DEF AtCommon
<1>2. AppendToPersisted(b)
  <2>1. ~Ignores(b) /\ ~ReplaceLiquid(b) /\ ~Harden(b)
    BY <1>1 DEF Ignores, Competes, ReplaceLiquid, BetterLiquid, LongerVersion, Harden, ExtendsLiquid
  <2> QED BY <2>1 DEF Accept, ApplyBlock
<1>3. /\ rolling' = 0 /\ chain' = chain /\ safe' = safe
      /\ ng' = [base |-> b, micros |-> <<>>] /\ ng' # NoNg
  BY <1>2, FreshStep
<1>4. /\ Started(ext') /\ ext'.next = 2 /\ ext'.common = ext.common /\ ext'.blocks = ext.blocks
      /\ ext'.before = ext.before /\ CommonHeight(ext') = H
  <2>1. "applying" \in Stages /\ 2 \in Nat \ {0}
    BY DEF Stages
  <2> QED BY <2>1, Moved
<1>5. H \in Nat \ {0} /\ Len(ext.blocks) \in 1 .. MaxRollbackDepth + 1 /\ MaxRollbackDepth \in Nat
  BY StartedFacts, ParameterAssumption DEF Started
<1> HIDE DEF b, H
<1>6. OnCommon(chain', ext')
  BY <1>1, <1>3, <1>4 DEF OnCommon, H
<1>7. safe' < H
  BY <1>3 DEF H
<1>8. 2 <= Len(ext'.blocks) + 1 /\ Len(chain') <= H + 2 - 2 /\ Len(chain') = H + 2 - 2
  BY <1>1, <1>3, <1>4, <1>5
<1>9. Applied(chain', ng', ext')
  <2>1. \A i \in 1 .. 2 - 2 : FALSE
    OBVIOUS
  <2>2. ng'.base = ext'.blocks[2 - 1]
    BY <1>3, <1>4 DEF b
  <2> QED BY <1>4, <1>8, <2>1, <2>2 DEF Applied
<1> QED BY <1>3, <1>4, <1>6, <1>7, <1>8, <1>9 DEF Applying

(* Blocks of the extension are above the common one. *)
LEMMA ApplyAbove ==
  ASSUME Acyclic, IInv, AppliesInv, TotalsNew, Started(ext), rolling = 0,
         ext.next > 1, ext.next <= Len(ext.blocks),
         safe < CommonHeight(ext), OnCommon(chain, ext),
         ng # NoNg, ng.micros = <<>>, Len(chain) <= CommonHeight(ext) + ext.next - 2,
         References(ext.blocks) => Applied(chain, ng, ext),
         ApplyBlock(ext.blocks[ext.next]), ext' = MoveTo(ext, "applying", ext.next + 1)
  PROVE  Applying(chain', ng', safe', ext') /\ rolling' = 0 /\ Started(ext') /\ ng' # NoNg
<1> DEFINE k == ext.next
           b == ext.blocks[k]
           H == CommonHeight(ext)
<1>1. /\ H \in Nat \ {0} /\ k \in Nat \ {0} /\ Len(ext.blocks) \in Nat
      /\ Len(ext.blocks) <= MaxRollbackDepth + 1 /\ MaxRollbackDepth \in Nat
      /\ Len(chain) \in Nat /\ safe \in Nat /\ ng \in LiquidType
  <2>1. Len(ext.blocks) \in 1 .. MaxRollbackDepth + 1
    BY DEF Started
  <2> QED BY <2>1, StartedFacts, LenProperties, ParameterAssumption DEF IInv, TypeOK
<1>0. /\ k \in Nat /\ k - 1 \in 1 .. Len(ext.blocks) - 1 /\ (k - 1) + 1 = k
      /\ k + 1 > 1 /\ k + 1 <= Len(ext.blocks) + 1
      /\ Len(chain) <= H + (k + 1) - 2 /\ Len(chain) + 1 <= H + (k + 1) - 2
      /\ k - 1 \in Nat /\ (k + 1) - 1 = k /\ (k + 1) - 2 = k - 1
      /\ Len(chain) = H + k - 2 => /\ Len(chain) + 1 = H + (k + 1) - 2
                                   /\ Len(chain) + 1 = H + (k - 1)
  <2>1. ASSUME NEW h \in Nat, NEW i \in Nat, NEW n \in Nat, NEW l \in Nat, i > 1, i <= l, n <= h + i - 2
        PROVE  /\ i - 1 \in 1 .. l - 1 /\ (i - 1) + 1 = i
               /\ i + 1 > 1 /\ i + 1 <= l + 1
               /\ n <= h + (i + 1) - 2 /\ n + 1 <= h + (i + 1) - 2
               /\ i - 1 \in Nat /\ (i + 1) - 1 = i /\ (i + 1) - 2 = i - 1
               /\ n = h + i - 2 => n + 1 = h + (i + 1) - 2 /\ n + 1 = h + (i - 1)
    BY <2>1
  <2>2. k \in Nat /\ H \in Nat
    BY <1>1
  <2>3. /\ k > 1 /\ k <= Len(ext.blocks) /\ Len(chain) <= H + k - 2
        /\ Len(chain) \in Nat /\ Len(ext.blocks) \in Nat
    BY <1>1
  <2> HIDE DEF k, H
  <2> QED BY <2>1, <2>2, <2>3
<1>2. /\ Started(ext') /\ ext'.next = k + 1 /\ ext'.common = ext.common /\ ext'.blocks = ext.blocks
      /\ ext'.before = ext.before /\ CommonHeight(ext') = H
  <2>1. "applying" \in Stages /\ k + 1 \in Nat \ {0}
    BY SMTT(30), <1>1 DEF Stages
  <2> QED BY SMTT(30), <2>1, Moved
(* A linked extension hardens the block it appended before. *)
<1>3. ASSUME References(ext.blocks)
      PROVE  Harden(b) /\ ng.base = ext.blocks[k - 1] /\ b.ref = ng.base.id /\ ~Ignores(b)
             /\ ~AppendToPersisted(b) /\ ~ReplaceLiquid(b)
  <2>1. ng.base = ext.blocks[k - 1]
    BY <1>3 DEF Applied
  <2>3. b.ref = ng.base.id
    BY <1>0, <1>3, <2>1 DEF References
  <2>4. NgContains(ng, b.ref)
    BY <2>3 DEF NgContains
  <2>5. Harden(b) /\ ~Ignores(b) /\ ~Competes(b)
    BY <2>4, ChildHardens DEF ApplyBlock
  <2> QED BY <2>1, <2>3, <2>5 DEF AppendToPersisted, ExtendsPersisted, ReplaceLiquid, BetterLiquid, LongerVersion
<1>4. CASE Ignores(b) /\ UNCHANGED vars
  <2>1. UNCHANGED <<chain, ng, safe, rolling>> /\ ~References(ext.blocks)
    BY <1>3, <1>4 DEF vars
  <2>2. OnCommon(chain', ext')
    BY <1>2, <2>1 DEF OnCommon, H
  <2> HIDE DEF k, b, H
  <2>3. /\ k + 1 > 1 /\ k + 1 <= Len(ext.blocks) + 1 /\ Len(chain) <= H + (k + 1) - 2
    BY <1>0
  <2>4. safe < H
    BY DEF H
  <2> QED BY <1>2, <2>1, <2>2, <2>3, <2>4 DEF Applying
<1>5. CASE AppendToPersisted(b) \/ ReplaceLiquid(b)
  <2>1. /\ chain' = chain /\ safe' = safe /\ rolling' = 0
        /\ ng' = [base |-> b, micros |-> <<>>] /\ ng' # NoNg /\ ~References(ext.blocks)
    BY <1>3, <1>5, FreshStep
  <2>2. OnCommon(chain', ext')
    BY <1>2, <2>1 DEF OnCommon, H
  <2> HIDE DEF k, b, H
  <2>3. /\ k + 1 > 1 /\ k + 1 <= Len(ext.blocks) + 1 /\ Len(chain) <= H + (k + 1) - 2
    BY <1>0
  <2>4. safe < H
    BY DEF H
  <2>5. ng'.micros = <<>>
    BY <2>1
  <2> QED BY <1>2, <2>1, <2>2, <2>3, <2>4, <2>5 DEF Applying
<1>6. CASE Harden(b)
  <2>1. /\ rolling' = 0 /\ ng' = [base |-> b, micros |-> <<>>] /\ ng' # NoNg
        /\ Len(chain') = Len(chain) + 1
        /\ \A h \in 1 .. Len(chain) : chain'[h] = chain[h]
        /\ chain'[Len(chain) + 1].block = ForgeBlock(ng, b.ref)
    BY <1>6, HardenStep
  <2>2. ng'.micros = <<>> /\ ng'.base = b
    BY <2>1
  <2>3. OnCommon(chain', ext')
    <3>1. /\ Len(chain) >= H /\ chain[H].block.id = ext.common
          /\ \A h \in 1 .. H - 1 : chain[h].block = ext.before[h]
      BY DEF OnCommon
    <3>2. H \in 1 .. Len(chain) /\ \A h \in 1 .. H - 1 : h \in 1 .. Len(chain)
      BY <1>1, <3>1
    <3>3. Len(chain') >= H
      BY <1>1, <2>1, <3>1
    <3> QED BY <1>2, <2>1, <3>1, <3>2, <3>3 DEF OnCommon
  <2>4. ASSUME k + 1 <= Len(ext.blocks) PROVE safe' < H
    <3>1. k \in Nat /\ k <= MaxRollbackDepth /\ H \in Nat
      BY <1>1, <2>4
    <3> QED BY <1>6, <3>1, SafeBelowCommon
  <2>5. ASSUME References(ext.blocks) PROVE Applied(chain', ng', ext')
    <3>1. /\ ng.base = ext.blocks[k - 1] /\ b.ref = ng.base.id
          /\ Len(chain) = H + k - 2
          /\ \A i \in 1 .. k - 2 : chain[H + i].block = ext.blocks[i]
      BY <1>3, <2>5 DEF Applied
    <3>2. ForgeBlock(ng, b.ref) = ext.blocks[k - 1]
      BY <3>1 DEF ForgeBlock
    <3>3. Len(chain') = H + (k + 1) - 2 /\ (k + 1) - 1 = k /\ (k + 1) - 2 = k - 1
          /\ Len(chain) + 1 = H + (k - 1) /\ k - 1 \in Nat
      BY <1>0, <2>1, <3>1
    <3> HIDE DEF k, b, H
    <3>4. ASSUME NEW i \in 1 .. k - 1 PROVE chain'[H + i].block = ext.blocks[i]
      <4>1. CASE i = k - 1
        BY <2>1, <3>2, <3>3, <4>1
      <4>2. CASE i \in 1 .. k - 2
        <5>1. H + i \in 1 .. Len(chain)
          BY SMTT(30), <1>1, <3>1, <4>2
        <5> QED BY <2>1, <3>1, <4>2, <5>1
      <4>3. i = k - 1 \/ i \in 1 .. k - 2
        BY <1>1
      <4> QED BY <4>1, <4>2, <4>3
    <3>5. ng'.base = ext'.blocks[k]
      BY <1>2, <2>2 DEF b
    <3> QED BY <1>2, <3>3, <3>4, <3>5 DEF Applied
  <2> HIDE DEF k, b, H
  <2>6. /\ k + 1 > 1 /\ k + 1 <= Len(ext.blocks) + 1 /\ Len(chain') <= H + (k + 1) - 2
    BY <1>0, <2>1
  <2> QED BY <1>2, <2>1, <2>2, <2>3, <2>4, <2>5, <2>6 DEF Applying
<1>7. (Ignores(b) /\ UNCHANGED vars) \/ AppendToPersisted(b) \/ ReplaceLiquid(b) \/ Harden(b)
  BY DEF Accept, ApplyBlock
<1> QED BY <1>4, <1>5, <1>6, <1>7

(* One block of the extension. *)
LEMMA ApplyNextKeeps ==
  ASSUME Acyclic, SwitchInv, TotalsNew, ApplyNext
  PROVE  ExtInv'
<1>1. /\ ext # NoExt /\ Started(ext) /\ StageInv(chain, ng, safe, rolling, ext)
      /\ rolling = 0 /\ ext.stage = "applying" /\ ext.next <= Len(ext.blocks)
      /\ ApplyBlock(ext.blocks[ext.next]) /\ ext' = [ext EXCEPT !.next = ext.next + 1]
      /\ IInv /\ AppliesInv
  BY DEF ApplyNext, ApplyBlock, SwitchInv, ExtInv
<1>2. Applying(chain, ng, safe, ext)
  BY <1>1 DEF StageInv
<1>3. safe < CommonHeight(ext)
  BY <1>1, <1>2 DEF Applying
<1>4. ext' = MoveTo(ext, "applying", ext.next + 1) /\ "applying" \in Stages
  BY <1>1, MovedParts DEF Stages
<1>5. ext.next \in Nat \ {0} /\ ext.next + 1 \in Nat \ {0}
  BY <1>1, StartedFacts
<1>6. Applying(chain', ng', safe', ext') /\ rolling' = 0 /\ Started(ext') /\ ng' # NoNg
  <2>1. CASE ext.next = 1 /\ InLiquid(chain, ng, ext)
    <3>1. ext' = MoveTo(ext, "applying", 2)
      BY <1>4, <2>1
    <3> QED BY <1>1, <1>3, <2>1, <3>1, ApplyInLiquid
  <2>2. CASE ext.next = 1 /\ AtCommon(chain, ng, ext)
    <3>1. ext' = MoveTo(ext, "applying", 2)
      BY <1>4, <2>2
    <3> QED BY <1>1, <1>3, <2>2, <3>1, ApplyAtCommon
  <2>3. CASE /\ ext.next > 1 /\ OnCommon(chain, ext)
             /\ ng # NoNg /\ ng.micros = <<>> /\ Len(chain) <= CommonHeight(ext) + ext.next - 2
             /\ References(ext.blocks) => Applied(chain, ng, ext)
    BY <1>1, <1>3, <1>4, <2>3, ApplyAbove
  <2> QED BY <1>2, <2>1, <2>2, <2>3 DEF Applying
<1>7. ext'.stage = "applying"
  BY <1>1, <1>4, <1>5, Moved
<1> QED BY <1>1, <1>6, <1>7 DEF ExtInv, StageInv

-----------------------------------------------------------------------------
(* The recovery finds the common block: the first explicitGet does not throw. *)
LEMMA UndoKeeps ==
  ASSUME Acyclic, SwitchInv, TotalsNew, Undo
  PROVE  ExtInv'
<1>1. /\ ext # NoExt /\ Started(ext) /\ StageInv(chain, ng, safe, rolling, ext)
      /\ rolling = 0 /\ ext.stage = "undoing" /\ IInv /\ AppliesInv
      /\ (chain # <<>> \/ ng # NoNg)
  BY DEF Undo, SwitchInv, ExtInv
<1>2. safe < CommonHeight(ext) /\ (InLiquid(chain, ng, ext) \/ OnCommon(chain, ext))
  BY <1>1 DEF StageInv
<1> DEFINE H == CommonHeight(ext)
<1>3. H \in Nat \ {0} /\ ext.next \in Nat \ {0} /\ Len(ext.dropped) \in Nat /\ Len(chain) \in Nat
      /\ safe \in Nat /\ 1 \in Nat \ {0} /\ {"restoring", "undropping"} \subseteq Stages
  <2>1. safe \in Nat /\ Len(chain) \in Nat
    BY <1>1, LenProperties DEF IInv, TypeOK
  <2>2. H \in Nat \ {0} /\ ext.next \in Nat \ {0} /\ Len(ext.dropped) \in Nat
    BY <1>1, StartedFacts
  <2> QED BY <2>1, <2>2 DEF Stages
<1>4. ASSUME OnCommon(chain, ext)
      PROVE  /\ H \in 1 .. Len(chain) /\ Persisted(ext.common) /\ HeightOfPersisted(ext.common) = H
             /\ RollbackAllowed(ext.common) /\ (ng # NoNg => ~NgContains(ng, ext.common))
  <2>1. Len(chain) >= H /\ chain[H].block.id = ext.common
    BY <1>4 DEF OnCommon
  <2>2. H \in 1 .. Len(chain)
    BY <1>3, <2>1
  <2>3. Persisted(ext.common) /\ HeightOfPersisted(ext.common) = H
    BY <1>1, <2>1, <2>2, HeightIsUnique
  <2>4. H > safe
    BY <1>2, <1>3
  <2>5. RollbackAllowed(ext.common)
    BY <2>3, <2>4 DEF RollbackAllowed
  <2> QED BY <1>1, <2>2, <2>3, <2>5, LiquidIsNew
<1>5. CASE /\ RemoveAfterInLiquid(ext.common)
           /\ ext' = [ext EXCEPT !.stage = "restoring", !.next = 1]
  <2>1. ng # NoNg /\ NgContains(ng, ext.common) /\ UNCHANGED <<chain, safe, ng, rolling>>
    BY <1>5 DEF RemoveAfterInLiquid
  <2>2. InLiquid(chain, ng, ext)
    BY <1>2, <1>4, <2>1
  <2>3. ext' = MoveTo(ext, "restoring", 1) /\ "restoring" \in Stages
    BY <1>3, <1>5 DEF MoveTo
  <2>4. /\ Started(ext') /\ ext'.stage = "restoring" /\ ext'.next = 1 /\ ext'.common = ext.common
        /\ ext'.before = ext.before /\ ext'.inLiquid = ext.inLiquid /\ ext'.dropped = ext.dropped
    BY <1>1, <1>3, <2>3, Moved
  <2>5. InLiquid(chain, ng, ext')
    BY <2>2, <2>4 DEF InLiquid
  <2>6. 1 <= Len(ext'.dropped) + 1
    BY <1>3, <2>4
  <2>7. Restoring(chain, ng, ext')
    BY <2>4, <2>5, <2>6 DEF Restoring
  <2> QED BY <1>1, <1>5, <2>1, <2>4, <2>7 DEF ExtInv, StageInv
<1>6. CASE /\ RemoveAfterStart(ext.common)
           /\ ext' = [ext EXCEPT !.stage = "undropping"]
  <2>1. /\ ng # NoNg => ~NgContains(ng, ext.common)
        /\ UNCHANGED <<chain, safe>> /\ rolling' = HeightOfPersisted(ext.common)
    BY <1>6 DEF RemoveAfterStart
  <2>2. OnCommon(chain, ext)
    BY <1>2, <2>1 DEF InLiquid
  <2>3. rolling' = H /\ chain # <<>>
    BY <1>3, <1>4, <2>1, <2>2, EmptySeq
  <2>4. ext' = MoveTo(ext, "undropping", ext.next) /\ "undropping" \in Stages
    BY <1>1, <1>3, <1>6, MovedParts
  <2>5. /\ Started(ext') /\ ext'.stage = "undropping" /\ ext'.common = ext.common
        /\ ext'.before = ext.before /\ CommonHeight(ext') = H
    BY <1>1, <1>3, <2>4, Moved
  <2>6. OnCommon(chain, ext')
    BY <2>2, <2>5 DEF OnCommon
  <2> QED BY <1>1, <1>6, <2>1, <2>3, <2>5, <2>6 DEF ExtInv, StageInv
<1>7. ~RemoveAfterRefused(ext.common)
  BY <1>2, <1>4 DEF RemoveAfterRefused, InLiquid
<1> QED BY <1>5, <1>6, <1>7 DEF Undo

(* A signed block is accepted where it was, and an unsigned one refused at once:
   the first dropped block on the common one, *)
LEMMA RestoreAtCommon ==
  ASSUME IInv, AppliesInv, Started(ext), AtCommon(chain, ng, ext),
         ext.next = 1, 1 <= Len(ext.dropped)
  PROVE  /\ ~Ignores(ext.dropped[1])
         /\ Accept(ext.dropped[1]) => AppendToPersisted(ext.dropped[1])
         /\ ext.dropped[1] \in Signed => ~Refuses(ext.dropped[1])
         /\ Refused(ext.dropped[1]) => UNCHANGED vars
         /\ \A h \in 1 .. Len(chain) : chain[h].block = ext.before[h]
<1> DEFINE b == ext.dropped[1]
           H == CommonHeight(ext)
           s == ext.before
<1>1. /\ ng = NoNg /\ Len(chain) = H /\ H \in Nat \ {0} /\ s \in Seq(BlockType) /\ Len(s) \in Nat
      /\ H + Len(ext.dropped) = Len(s) /\ Len(ext.dropped) \in Nat /\ chain \in Seq(EntryType)
  BY StartedFacts DEF AtCommon, IInv, TypeOK
<1>2. H \in 1 .. Len(s) /\ H + 1 \in 1 .. Len(s) /\ H \in 1 .. Len(s) - 1 /\ 1 \in 1 .. Len(ext.dropped)
  BY <1>1
<1>3. ~ext.inLiquid
  BY <1>2, EmptySeq DEF Started
<1>4. s[H].id = ext.common /\ s[H] \in Signed /\ b = s[H + 1] /\ CompleteBlocks(s)
  BY <1>2, <1>3 DEF Started
<1>5. /\ chain[H].block.id = ext.common /\ \A h \in 1 .. H - 1 : chain[h].block = s[h]
  BY DEF AtCommon, OnCommon
<1> HIDE DEF b, H, s
<1>6. chain[H].block = s[H]
  <2>1. H \in 1 .. Len(chain)
    BY <1>1
  <2>2. chain[H].block \in Signed
    <3>1. chain[H] \in EntryType
      BY <1>1, <2>1, ElementOfSeq
    <3> QED BY <3>1 DEF EntryType
  <2> QED BY <1>4, <1>5, <2>2, SignatureAssumption
<1>7. \A h \in 1 .. Len(chain) : chain[h].block = s[h]
  <2>1. \A h \in 1 .. H : h \in 1 .. H - 1 \/ h = H
    BY <1>1
  <2> QED BY <1>1, <1>5, <1>6, <2>1
<1>8. Ledger = Below(s, H + 1)
  <2>1. /\ PersistedBlocks \in Seq(BlockType) /\ Len(PersistedBlocks) = Len(chain)
        /\ \A h \in 1 .. Len(chain) : PersistedBlocks[h] = chain[h].block
        /\ Ledger = Flat(TxsIn(PersistedBlocks), Len(chain))
    BY <1>1, PersistedIs, SignedBlocks
  <2>2. H \in Nat /\ H <= Len(s) /\ H <= Len(PersistedBlocks)
        /\ \A h \in 1 .. H : PersistedBlocks[h] = s[h]
    BY SMTT(30), <1>1, <1>2, <1>7, <2>1
  <2>3. Flat(TxsIn(PersistedBlocks), H) = Flat(TxsIn(s), H)
    BY <1>1, <2>1, <2>2, BelowSame
  <2>4. (H + 1) - 1 = H
    BY <1>1
  <2> QED BY <1>1, <2>1, <2>3, <2>4 DEF Below
<1>9. Passes(Ledger, b) /\ b.ref = s[H].id
  BY <1>2, <1>4, <1>8 DEF CompleteBlocks, References
<1>10. ExtendsPersisted(b)
  <2>1. chain # <<>>
    BY <1>1, EmptySeq
  <2>2. LastPersistedId = s[H].id
    BY <1>1, <1>6 DEF LastPersistedId
  <2> QED BY <1>1, <1>9, <2>1, <2>2 DEF ExtendsPersisted
<1>11. ASSUME b \in Signed PROVE ~Refuses(b)
  <2>1. BlockDiffOk(Ledger, b)
    BY <1>9, <1>11, SignedBlocks
  <2> QED BY <1>10, <2>1 DEF Refuses, MayFail, AppliesInv
<1>12. ~Ignores(b) /\ (Accept(b) => AppendToPersisted(b))
  BY <1>1 DEF Ignores, Competes, Accept, ReplaceLiquid, BetterLiquid, LongerVersion, Harden, ExtendsLiquid
<1>13. Refused(b) => UNCHANGED vars
  BY <1>1 DEF Refused, RefuseCompetitor, RefuseChild, Competes, BetterLiquid, LongerVersion, ExtendsLiquid
<1> QED BY <1>7, <1>11, <1>12, <1>13 DEF b, s

(* ... the others on the dropped block before them. *)
LEMMA RestoreAbove ==
  ASSUME Acyclic, IInv, AppliesInv, TotalsNew, Started(ext), Restored(chain, ng, ext),
         ext.next > 1, ext.next <= Len(ext.dropped)
  PROVE  LET b == ext.dropped[ext.next]
         IN  /\ ~Ignores(b) /\ (Accept(b) => Harden(b))
             /\ b \in Signed => ~Refuses(b)
             /\ Refused(b) => UNCHANGED vars
             /\ ForgeBlock(ng, b.ref) = ext.before[Len(chain) + 1]
<1> DEFINE k == ext.next
           b == ext.dropped[k]
           n == Len(chain)
           s == ext.before
<1>1. /\ k \in Nat \ {0} /\ s \in Seq(BlockType) /\ Len(s) \in Nat /\ Len(ext.dropped) \in Nat
      /\ CommonHeight(ext) \in Nat \ {0} /\ CommonHeight(ext) + Len(ext.dropped) = Len(s)
      /\ n = CommonHeight(ext) + k - 2 /\ n \in Nat /\ chain \in Seq(EntryType)
      /\ ng \in LiquidType
  BY StartedFacts, LenProperties DEF Restored, IInv, TypeOK
<1>2. /\ k - 1 \in 1 .. Len(ext.dropped) /\ k \in 1 .. Len(ext.dropped)
      /\ CommonHeight(ext) + (k - 1) = n + 1 /\ CommonHeight(ext) + k = n + 2
      /\ n + 1 \in 1 .. Len(s) - 1 /\ n + 2 \in 1 .. Len(s) /\ n + 1 \in 1 .. Len(s)
      /\ (n + 1) + 1 = n + 2 /\ (n + 2) - 1 = n + 1 /\ n <= Len(s)
  <2> DEFINE h == CommonHeight(ext)
             d == Len(ext.dropped)
             l == Len(s)
  <2>1. k > 1 /\ k <= d /\ k \in Nat /\ n \in Nat /\ n = h + k - 2 /\ h > 0 /\ h \in Nat
        /\ h + d = l /\ l \in Nat /\ d \in Nat
    BY <1>1
  <2> HIDE DEF k, n, s, h, d, l
  <2>2. /\ k - 1 \in 1 .. d /\ k \in 1 .. d
        /\ h + (k - 1) = n + 1 /\ h + k = n + 2
        /\ n + 1 \in 1 .. l - 1 /\ n + 2 \in 1 .. l /\ n + 1 \in 1 .. l
        /\ (n + 1) + 1 = n + 2 /\ (n + 2) - 1 = n + 1 /\ n <= l
    BY <2>1
  <2> QED BY <2>2 DEF h, d, l
<1>3. /\ ng # NoNg /\ ng = [base |-> ext.dropped[k - 1], micros |-> <<>>]
      /\ \A h \in 1 .. n : chain[h].block = s[h]
  BY DEF Restored
<1>4. ext.dropped[k - 1] = s[n + 1] /\ b = s[n + 2] /\ CompleteBlocks(s)
  <2>1. \A i \in 1 .. Len(ext.dropped) : ext.dropped[i] = s[CommonHeight(ext) + i]
    BY DEF Started
  <2>2. ext.dropped[k - 1] = s[CommonHeight(ext) + (k - 1)] /\ b = s[CommonHeight(ext) + k]
    BY <1>2, <2>1
  <2> QED BY <1>2, <2>2 DEF Started
<1> HIDE DEF k, b, n, s
<1>5. ng.base = s[n + 1] /\ ng.micros = <<>>
  BY <1>3, <1>4
<1>6. b.ref = ng.base.id
  BY <1>2, <1>4, <1>5 DEF CompleteBlocks, References
<1>7. NgContains(ng, b.ref) /\ ForgeBlock(ng, b.ref) = s[n + 1]
  BY <1>5, <1>6 DEF NgContains, ForgeBlock
<1>8. ForgeBlock(ng, b.ref) \in Signed
  BY <1>2, <1>4, <1>7 DEF CompleteBlocks
<1>9. Ledger = Flat(TxsIn(s), n)
  <2>1. /\ PersistedBlocks \in Seq(BlockType) /\ Len(PersistedBlocks) = n
        /\ \A h \in 1 .. n : PersistedBlocks[h] = chain[h].block
        /\ Ledger = Flat(TxsIn(PersistedBlocks), n)
    BY <1>1, PersistedIs, SignedBlocks DEF n
  <2>2. n <= Len(PersistedBlocks) /\ \A h \in 1 .. n : PersistedBlocks[h] = s[h]
    <3>1. \A h \in 1 .. n : PersistedBlocks[h] = s[h]
      BY <1>3, <2>1, Zenon
    <3>2. n <= n
      BY <1>1
    <3> QED BY <2>1, <3>1, <3>2
  <2> QED BY <1>1, <1>2, <2>1, <2>2, BelowSame
<1>10. Below(s, n + 2) = Ledger \o s[n + 1].txs
  <2>1. Flat(TxsIn(s), n + 1) = Flat(TxsIn(s), n) \o TxsIn(s)[n + 1]
    BY <1>1, FlatStep
  <2>2. TxsIn(s)[n + 1] = s[n + 1].txs
    BY <1>2 DEF TxsIn
  <2> QED BY <1>2, <1>9, <2>1, <2>2 DEF Below
<1>11. Passes(Ledger \o ForgeBlock(ng, b.ref).txs, b)
  BY <1>2, <1>4, <1>7, <1>10 DEF CompleteBlocks
<1>12. ~Competes(b) /\ ~Ignores(b) /\ (Accept(b) => Harden(b))
  BY <1>3, <1>7, ChildHardens
<1>13. ASSUME b \in Signed PROVE ~Refuses(b)
  <2>1. BlockDiffOk(Ledger \o ForgeBlock(ng, b.ref).txs, b)
    BY <1>11, <1>13, SignedBlocks
  <2>2. ExtendsLiquid(b) /\ LiquidExact
    BY <1>3, <1>7, <1>8, <1>12 DEF ExtendsLiquid, LiquidExact, AppliesInv, TotalsNew
  <2> QED BY <2>1, <2>2 DEF Refuses, MayFail
<1>14. Refused(b) => UNCHANGED vars
  <2>1. ~RefuseCompetitor(b)
    BY <1>12 DEF RefuseCompetitor, BetterLiquid, LongerVersion
  <2>2. ForgeIndex(ng, b.ref) = 0
    BY <1>6 DEF ForgeIndex
  <2>3. SubSeq(ng.micros, 0 + 1, Len(ng.micros)) = <<>>
    <3>1. Len(<<>>) = 0 /\ <<>> \in Seq(Micros)
      BY EmptySeq
    <3>2. SubSeq(<<>>, 0 + 1, 0) = <<>>
      BY <3>1
    <3> QED BY <1>5, <3>1, <3>2
  <2>4. DiscardedMicros(ng, b.ref) = <<>>
    BY <2>2, <2>3 DEF DiscardedMicros
  <2> QED BY <2>1, <2>4 DEF Refused, RefuseChild
<1> QED BY <1>7, <1>12, <1>13, <1>14 DEF b, k, n, s

(* Which dropped block is next, and where. *)
LEMMA RestoreNextFacts ==
  ASSUME Acyclic, SwitchInv, TotalsNew, RestoreNext
  PROVE  LET b == ext.dropped[ext.next]
         IN  /\ Started(ext) /\ ext.next <= Len(ext.dropped)
             /\ \/ ext.next = 1 /\ AtCommon(chain, ng, ext)
                \/ ext.next > 1 /\ Restored(chain, ng, ext)
             /\ \/ b \in Signed /\ Accept(b) /\ ext' = [ext EXCEPT !.next = ext.next + 1]
                \/ /\ b \notin Signed /\ UNCHANGED vars
                   /\ ext' = [ext EXCEPT !.stage = "failed"]
                   /\ ext.next = Len(ext.dropped)
<1> DEFINE k == ext.next
           b == ext.dropped[k]
<1>1. /\ ext # NoExt /\ Started(ext) /\ StageInv(chain, ng, safe, rolling, ext)
      /\ rolling = 0 /\ ext.stage = "restoring" /\ k <= Len(ext.dropped)
      /\ IInv /\ AppliesInv
  BY DEF RestoreNext, SwitchInv, ExtInv
<1>2. Restoring(chain, ng, ext)
  BY <1>1 DEF StageInv
<1>3. k \in Nat \ {0} /\ Len(ext.dropped) \in Nat
  BY <1>1, StartedFacts
<1>4. ~InLiquid(chain, ng, ext)
  <2>1. ext.dropped # <<>>
    BY <1>1, <1>3, EmptySeq
  <2> QED BY <1>1, <2>1 DEF InLiquid, Started
<1>5. \/ k = 1 /\ AtCommon(chain, ng, ext)
      \/ k > 1 /\ Restored(chain, ng, ext)
  BY <1>2, <1>4 DEF Restoring
<1>6. /\ ~Ignores(b) /\ (b \in Signed => ~Refuses(b)) /\ (Refused(b) => UNCHANGED vars)
  <2>1. CASE k = 1 /\ AtCommon(chain, ng, ext)
    BY <1>1, <2>1, RestoreAtCommon
  <2>2. CASE k > 1 /\ Restored(chain, ng, ext)
    BY <1>1, <2>2, RestoreAbove
  <2> QED BY <1>5, <2>1, <2>2
<1>7. CASE Accept(b) /\ ext' = [ext EXCEPT !.next = k + 1]
  <2>1. b \in Signed
    BY <1>7 DEF Accept, AppendToPersisted, ReplaceLiquid, Harden, MayPass
  <2> QED BY <1>1, <1>5, <1>7, <2>1
<1>8. CASE Refuses(b) /\ Refused(b) /\ ext' = [ext EXCEPT !.stage = "failed"]
  <2>1. b \notin Signed /\ UNCHANGED vars
    BY <1>6, <1>8
  <2>2. k \notin 1 .. Len(ext.dropped) - 1
    BY <1>1, <2>1, StartedFacts
  <2>3. k = Len(ext.dropped)
    <3> HIDE DEF k
    <3> QED BY <1>1, <1>3, <2>2
  <2> QED BY <1>1, <1>5, <1>8, <2>1, <2>3
<1> QED BY <1>6, <1>7, <1>8 DEF RestoreNext

(* One dropped block comes back, or the recovery fails. *)
LEMMA RestoreNextKeeps ==
  ASSUME Acyclic, SwitchInv, TotalsNew, RestoreNext
  PROVE  ExtInv'
<1> DEFINE k == ext.next
           b == ext.dropped[k]
           H == CommonHeight(ext)
<1>1. /\ ext # NoExt /\ Started(ext) /\ rolling = 0 /\ ext.stage = "restoring"
      /\ k <= Len(ext.dropped) /\ IInv /\ AppliesInv /\ (chain # <<>> \/ ng # NoNg)
      /\ Restoring(chain, ng, ext)
  BY DEF RestoreNext, SwitchInv, ExtInv, StageInv
<1>2. \/ k = 1 /\ AtCommon(chain, ng, ext)
      \/ k > 1 /\ Restored(chain, ng, ext)
  BY RestoreNextFacts
<1>3. /\ k \in Nat \ {0} /\ Len(ext.dropped) \in Nat /\ H \in Nat \ {0}
      /\ H + Len(ext.dropped) = Len(ext.before) /\ k + 1 \in Nat \ {0}
      /\ {"restoring", "failed"} \subseteq Stages
  BY <1>1, StartedFacts DEF Stages
<1>4. CASE b \notin Signed /\ UNCHANGED vars /\ ext' = [ext EXCEPT !.stage = "failed"]
           /\ k = Len(ext.dropped)
  <2>1. ext' = MoveTo(ext, "failed", k)
    BY <1>1, <1>4, MovedParts
  <2>2. /\ Started(ext') /\ ext'.stage = "failed" /\ ext'.next = k /\ ext'.common = ext.common
        /\ ext'.dropped = ext.dropped /\ ext'.before = ext.before /\ ext'.inLiquid = ext.inLiquid
        /\ CommonHeight(ext') = H
    <3>1. "failed" \in Stages /\ k \in Nat \ {0}
      BY <1>3
    <3> QED BY <1>1, <2>1, <3>1, Moved
  <2>3. UNCHANGED <<chain, ng, rolling>>
    BY <1>4 DEF vars
  <2>4. Restoring(chain, ng, ext')
    BY <1>1, <2>2 DEF Restoring, InLiquid, AtCommon, OnCommon, Restored
  <2> QED BY <1>1, <1>4, <2>2, <2>3, <2>4 DEF ExtInv, StageInv
<1>5. CASE b \in Signed /\ Accept(b) /\ ext' = [ext EXCEPT !.next = k + 1]
  <2>1. ext' = MoveTo(ext, "restoring", k + 1)
    BY <1>1, <1>5, MovedParts
  <2>2. /\ Started(ext') /\ ext'.stage = "restoring" /\ ext'.next = k + 1
        /\ ext'.dropped = ext.dropped /\ ext'.before = ext.before /\ CommonHeight(ext') = H
    BY <1>1, <1>3, <2>1, Moved
  <2>3. k + 1 > 1 /\ k + 1 <= Len(ext.dropped) + 1 /\ (k + 1) - 1 = k /\ (k + 1) - 2 = k - 1
    <3>1. \A i, l \in Nat : i > 0 /\ i <= l =>
             i + 1 > 1 /\ i + 1 <= l + 1 /\ (i + 1) - 1 = i /\ (i + 1) - 2 = i - 1
      OBVIOUS
    <3>2. k \in Nat /\ k > 0
      BY <1>3
    <3> HIDE DEF k
    <3> QED BY <1>1, <1>3, <3>1, <3>2
  <2>4. /\ ng' = [base |-> b, micros |-> <<>>] /\ ng' # NoNg /\ rolling' = 0
        /\ Len(chain') = H + (k + 1) - 2
        /\ \A h \in 1 .. Len(chain') : chain'[h].block = ext.before[h]
    <3>1. CASE k = 1 /\ AtCommon(chain, ng, ext)
      <4>1. AppendToPersisted(b) /\ \A h \in 1 .. Len(chain) : chain[h].block = ext.before[h]
        BY <1>1, <1>5, <3>1, RestoreAtCommon
      <4>2. Len(chain) = H /\ H = H + (1 + 1) - 2
        BY <1>3, <3>1 DEF AtCommon
      <4> QED BY <3>1, <4>1, <4>2, FreshStep
    <3>2. CASE k > 1 /\ Restored(chain, ng, ext)
      <4>1. Harden(b) /\ ForgeBlock(ng, b.ref) = ext.before[Len(chain) + 1]
        BY <1>1, <1>5, <3>2, RestoreAbove
      <4>2. /\ ng' = [base |-> b, micros |-> <<>>] /\ ng' # NoNg /\ rolling' = 0
            /\ Len(chain) \in Nat /\ Len(chain') = Len(chain) + 1
            /\ \A h \in 1 .. Len(chain) : chain'[h] = chain[h]
            /\ chain'[Len(chain) + 1].block = ext.before[Len(chain) + 1]
        BY <1>1, <4>1, HardenStep
      <4>3. Len(chain) = H + k - 2 /\ \A h \in 1 .. Len(chain) : chain[h].block = ext.before[h]
        BY <3>2 DEF Restored
      <4> HIDE DEF k, b, H
      <4>4. Len(chain') = H + (k + 1) - 2
        BY <1>3, <4>2, <4>3
      <4>5. \A h \in 1 .. Len(chain') : h \in 1 .. Len(chain) \/ h = Len(chain) + 1
        BY <4>2
      <4> QED BY <4>2, <4>3, <4>4, <4>5
    <3> QED BY <1>2, <3>1, <3>2
  <2> HIDE DEF k, b, H
  <2>5. Restored(chain', ng', ext')
    BY <2>2, <2>3, <2>4 DEF Restored, b
  <2>6. Restoring(chain', ng', ext')
    BY <2>2, <2>3, <2>5 DEF Restoring
  <2> QED BY <1>1, <2>2, <2>4, <2>6 DEF ExtInv, StageInv
<1> QED BY <1>4, <1>5, RestoreNextFacts

(* The appenders call the updater and nothing else changes its state. *)
LEMMA SwitchStep ==
  ASSUME Acyclic, SwitchInv, TotalsNew, [ExtNext]_extVars
  PROVE  [Next]_vars
<1>1. ASSUME NEW b \in Blocks, BlockAppender(b) PROVE Next
  BY <1>1 DEF BlockAppender, Next
<1>2. ASSUME NEW m \in Micros, MicroblockAppender(m) PROVE Next
  BY <1>2 DEF MicroblockAppender, Next
<1>3. ASSUME NEW e \in Extensions,
             LET new == NewBlocks(e)
             IN StartWithRollback(new) \/ StartRefused(new) \/ StartOnTop(new)
      PROVE  [Next]_vars
  <2> DEFINE new == NewBlocks(e)
  <2>1. e \in Seq(Signed)
    BY ExtensionAssumption
  <2>2. new \in Seq(Signed)
    BY <2>1, NewBlocksFacts
  <2> HIDE DEF new
  <2>3. ASSUME new # <<>> PROVE new[1].ref \in Ids
    <3>1. 1 \in 1 .. Len(new)
      BY <2>2, <2>3, EmptySeq, LenProperties
    <3>2. new[1] \in Signed
      BY <2>2, <3>1, ElementOfSeq
    <3> QED BY <3>2, BlocksAssumption DEF BlockType
  <2>4. StartWithRollback(new) \/ StartRefused(new) \/ StartOnTop(new)
    BY <1>3 DEF new
  <2>5. CASE StartOnTop(new)
    <3>1. new[1].ref \in Ids /\ (RemoveAfterInLiquid(new[1].ref) \/ UNCHANGED vars)
      BY <2>3, <2>5 DEF StartOnTop
    <3> QED BY <3>1 DEF Next
  <2> QED BY <2>3, <2>4, <2>5 DEF StartWithRollback, StartRefused, Next
<1>4. ASSUME Dropping \/ Dropped PROVE Next
  BY <1>4 DEF Dropping, Dropped, Next
<1>5. ASSUME NEW b \in Blocks, Accept(b) \/ Refused(b) PROVE [Next]_vars
  BY <1>5 DEF Accept, Refused, ProcessBlock, Next
<1>6. ASSUME ApplyNext \/ ApplyRefused PROVE [Next]_vars
  <2>1. ext # NoExt /\ Started(ext) /\ ext.next <= Len(ext.blocks)
    BY <1>6 DEF ApplyNext, ApplyRefused, SwitchInv, ExtInv
  <2>2. ext.next \in 1 .. Len(ext.blocks)
    BY <2>1, StartedFacts
  <2>3. ext.blocks[ext.next] \in Blocks
    BY <2>1, <2>2, StartedFacts
  <2> QED BY <1>5, <1>6, <2>3 DEF ApplyNext, ApplyRefused
<1>7. ASSUME Undo PROVE Next
  <2>1. ext.common \in Ids
    BY <1>7, StartedFacts DEF Undo, SwitchInv, ExtInv
  <2> QED BY <1>7, <2>1 DEF Undo, Next
<1>8. ASSUME RestoreNext PROVE [Next]_vars
  <2> DEFINE b == ext.dropped[ext.next]
  <2>1. CASE UNCHANGED vars
    BY <2>1
  <2>2. CASE b \in Signed /\ Accept(b)
    <3>1. b \in Blocks
      BY <2>2, ExtensionAssumption
    <3> QED BY <1>5, <2>2, <3>1
  <2> QED BY <1>8, <2>1, <2>2, RestoreNextFacts
<1>9. ASSUME Finish \/ NodeDies \/ UNCHANGED extVars PROVE [Next]_vars
  BY <1>9 DEF Finish, NodeDies, extVars, Next
<1> QED BY <1>1, <1>2, <1>3, <1>4, <1>6, <1>7, <1>8, <1>9 DEF ExtNext

(* The method returns, or the node dies in the middle of it. *)
LEMMA EndsKeep ==
  ASSUME SwitchInv, Finish \/ NodeDies
  PROVE  ExtInv'
<1>1. ext' = NoExt
  BY DEF Finish, NodeDies
<1>2. chain' # <<>> \/ ng' # NoNg
  <2>1. CASE Finish
    BY <2>1 DEF Finish, vars, SwitchInv, ExtInv
  <2>2. CASE NodeDies
    <3>1. chain' = chain /\ (chain = <<>> => ng' = [base |-> Genesis, micros |-> <<>>])
      BY <2>2 DEF NodeDies, Restart
    <3> QED BY <3>1, FreshTransactions, BlocksAssumption
  <2> QED BY <2>1, <2>2
<1> QED BY <1>1, <1>2 DEF ExtInv

(* One step of the node with its appenders. *)
LEMMA SwitchNext ==
  ASSUME SplitIndependent, Acyclic, SwitchInv, TotalsNew, [ExtNext]_extVars
  PROVE  SwitchInv'
<1>1. IInv' /\ CapacityAccounted' /\ AppliesInv'
  <2>1. [Next]_vars
    BY SwitchStep
  <2> QED BY <2>1, NextIInv, NextCapacity, AppliesKept DEF SwitchInv, TotalsNew
<1>2. ASSUME UNCHANGED extVars PROVE ExtInv'
  BY <1>2 DEF extVars, vars, SwitchInv, ExtInv
<1>3. ASSUME \E e \in Extensions : LET new == NewBlocks(e)
                                   IN StartWithRollback(new) \/ StartRefused(new) \/ StartOnTop(new)
      PROVE  ExtInv'
  BY <1>3, StartWithRollbackKeeps, StartRefusedKeeps, StartOnTopKeeps
<1>4. ExtInv'
  BY <1>2, <1>3, AppendersKeep, DroppingKeeps, DroppedKeeps, ApplyNextKeeps, ApplyRefusedKeeps,
     UndoKeeps, RestoreNextKeeps, EndsKeep DEF ExtNext
<1> QED BY <1>1, <1>4 DEF SwitchInv

(* The empty database, on which checkGenesis has run. *)
LEMMA SwitchInit == ExtInit => SwitchInv
<1> SUFFICES ASSUME ExtInit PROVE SwitchInv
  OBVIOUS
<1>1. Init /\ ext = NoExt
  BY DEF ExtInit
<1>2. IInv /\ CapacityAccounted
  BY <1>1, InitIInv, InitCapacity
<1>3. chain = <<>> /\ ng = [base |-> Genesis, micros |-> <<>>] /\ Genesis \in Signed
  BY <1>1, BlocksAssumption DEF Init
<1>4. ng \in LiquidType /\ ng # NoNg /\ ng.base = Genesis /\ ng.micros = <<>>
  BY <1>3, FreshTransactions
<1>5. AppliesInv
  <2>1. chain \in Seq(EntryType) /\ Len(chain) = 0
    BY <1>3, EmptySeq
  <2>2. PersistedBlocks \in Seq(Signed) /\ Len(PersistedBlocks) = 0
    BY <2>1, PersistedIs
  <2>3. SoundBlocks(PersistedBlocks) /\ LedgerExact
    BY <1>1, <2>2, SignedBlocks, InitExact DEF SoundBlocks, CompleteBlocks, References
  <2>4. Ledger = <<>>
    BY <1>3, <2>1, LedgerIs, LedgerFacts
  <2>5. \A k \in 0 .. Len(ng.micros) : Version(ng, k) = Genesis
    <3>1. Len(ng.micros) = 0 /\ 0 \in 0 .. Len(ng.micros) /\ \A k \in 0 .. 0 : k = 0
      BY <1>4, EmptySeq
    <3>2. Version(ng, 0) = ng.base
      BY <1>4, <3>1, VersionFacts
    <3> QED BY <1>4, <3>1, <3>2
  <2>6. Passes(Ledger, Genesis)
    BY <1>3, <2>4, ParameterAssumption DEF Passes
  <2> QED BY <2>3, <2>5, <2>6 DEF AppliesInv
<1> QED BY <1>1, <1>2, <1>4, <1>5 DEF SwitchInv, ExtInv

-----------------------------------------------------------------------------
(* A liquid block without microblocks is its base. *)
LEMMA FreshBest ==
  ASSUME NEW n \in LiquidType, n.micros = <<>>
  PROVE  BestLiquidBlock(n) = n.base
<1>1. Len(n.micros) = 0 /\ 0 \in 0 .. Len(n.micros)
  BY EmptySeq
<1> QED BY <1>1, VersionFacts

(* While dropped blocks come back the chain is what it was below the next one. *)
LEMMA ComesBack ==
  ASSUME SwitchInv, Started(ext), ~ext.inLiquid, ext.next <= Len(ext.dropped) + 1,
         \/ ext.next = 1 /\ AtCommon(chain, ng, ext)
         \/ ext.next > 1 /\ Restored(chain, ng, ext)
  PROVE  LET l == CommonHeight(ext) + ext.next - 1
         IN  Len(FullChain) = l /\ \A h \in 1 .. l : FullChain[h] = ext.before[h]
<1> DEFINE H == CommonHeight(ext)
           k == ext.next
           d == Len(ext.dropped)
           n == Len(chain)
<1>1. /\ FullChain \in Seq(BlockType) /\ Len(FullChain) = HeightOf(chain, ng) /\ n \in Nat
      /\ \A h \in 1 .. n : FullChain[h] = chain[h].block /\ FullChain[h] \in Signed
      /\ ng # NoNg => FullChain[n + 1] = BestLiquidBlock(ng)
  BY FullChainIs DEF SwitchInv
<1>2. H \in Nat \ {0} /\ d \in Nat /\ k \in Nat \ {0}
  BY StartedFacts
<1>3. CASE k = 1 /\ AtCommon(chain, ng, ext)
  <2>1. /\ ng = NoNg /\ n = H /\ chain[H].block.id = ext.common
        /\ \A h \in 1 .. H - 1 : chain[h].block = ext.before[h]
    BY <1>3 DEF AtCommon, OnCommon
  <2>2. Len(FullChain) = H /\ H + k - 1 = H
    BY <1>1, <1>2, <1>3, <2>1 DEF HeightOf
  <2>3. ext.before[H].id = ext.common /\ ext.before[H] \in Signed
    BY DEF Started
  <2>4. FullChain[H] = ext.before[H]
    <3>1. H \in 1 .. n
      BY <1>2, <2>1
    <3> QED BY <1>1, <2>1, <2>3, <3>1, SignatureAssumption
  <2>5. \A h \in 1 .. H : FullChain[h] = ext.before[h]
    <3>1. \A h \in 1 .. H : h \in 1 .. n /\ (h \in 1 .. H - 1 \/ h = H)
      BY <1>2, <2>1
    <3> QED BY <1>1, <2>1, <2>4, <3>1
  <2> QED BY <2>2, <2>5
<1>4. CASE k > 1 /\ Restored(chain, ng, ext)
  <2>1. /\ ng = [base |-> ext.dropped[k - 1], micros |-> <<>>] /\ n = H + k - 2 /\ ng # NoNg
        /\ \A h \in 1 .. n : chain[h].block = ext.before[h]
    BY <1>4 DEF Restored
  <2>2. k - 1 \in 1 .. d /\ n + 1 = H + k - 1 /\ H + (k - 1) = n + 1
    <3>1. k > 1 /\ k <= d + 1
      BY <1>4
    <3> HIDE DEF k, d, n, H
    <3> QED BY <1>1, <1>2, <2>1, <3>1
  <2>3. ng.base = ext.before[n + 1] /\ ng.micros = <<>> /\ ng \in LiquidType
    <3>1. ext.dropped[k - 1] = ext.before[H + (k - 1)]
      BY <2>2 DEF Started
    <3> QED BY <2>1, <2>2, <3>1 DEF SwitchInv, IInv, TypeOK
  <2>4. FullChain[n + 1] = ext.before[n + 1] /\ Len(FullChain) = n + 1
    BY <1>1, <2>1, <2>3, FreshBest DEF HeightOf
  <2>5. \A h \in 1 .. n + 1 : FullChain[h] = ext.before[h]
    <3>1. \A h \in 1 .. n + 1 : h \in 1 .. n \/ h = n + 1
      BY <1>1
    <3> QED BY <1>1, <2>1, <2>4, <3>1
  <2> QED BY <2>2, <2>4, <2>5
<1> QED BY <1>3, <1>4

(* All dropped blocks are back: the chain is the old one. *)
LEMMA RestoredIs ==
  ASSUME SwitchInv, ext # NoExt, ext.stage = "restoring", Finished
  PROVE  /\ Len(FullChain) = Len(ext.before)
         /\ \A h \in 1 .. Len(ext.before) - 1 : FullChain[h] = ext.before[h]
         /\ \/ FullChain = ext.before
            \/ ext.inLiquid /\ IdOf(chain, ng) = ext.common
<1> DEFINE H == CommonHeight(ext)
           k == ext.next
           d == Len(ext.dropped)
           l == Len(ext.before)
           n == Len(chain)
<1>1. /\ Started(ext) /\ Restoring(chain, ng, ext) /\ ext.next > Len(ext.dropped) /\ IInv /\ AppliesInv
  BY DEF SwitchInv, ExtInv, StageInv, Finished
<1>2. /\ FullChain \in Seq(BlockType) /\ Len(FullChain) = HeightOf(chain, ng) /\ n \in Nat
      /\ \A h \in 1 .. n : FullChain[h] = chain[h].block
      /\ ng # NoNg => FullChain[n + 1] = BestLiquidBlock(ng)
  BY <1>1, FullChainIs
<1>3. /\ H \in Nat \ {0} /\ d \in Nat /\ l \in Nat /\ H + d = l /\ k \in Nat \ {0}
      /\ ext.before \in Seq(BlockType)
  BY <1>1, StartedFacts
<1>4. k = d + 1 /\ H + k - 1 = l
  <2>1. k <= d + 1 /\ k > d
    BY <1>1 DEF Restoring
  <2> HIDE DEF k, d, H, l
  <2> QED BY <1>3, <2>1
<1>5. ASSUME Len(FullChain) = l, \A h \in 1 .. l : FullChain[h] = ext.before[h]
      PROVE  FullChain = ext.before
  BY <1>2, <1>3, <1>5, SeqEqual
<1>6. CASE InLiquid(chain, ng, ext)
  <2>1. /\ ng # NoNg /\ l = n + 1 /\ \A h \in 1 .. n : chain[h].block = ext.before[h]
        /\ ext.before[n + 1] = BestLiquidBlock(ng)
    BY <1>6 DEF InLiquid
  <2>2. Len(FullChain) = l
    BY <1>2, <2>1 DEF HeightOf
  <2>3. \A h \in 1 .. l : FullChain[h] = ext.before[h]
    <3>1. \A h \in 1 .. n + 1 : h \in 1 .. n \/ h = n + 1
      BY <1>2
    <3> QED BY <1>2, <2>1, <3>1
  <2>4. FullChain = ext.before
    BY <1>5, <2>2, <2>3
  <2> QED BY <2>4
<1>7. CASE ext.inLiquid /\ k = 1 /\ AtCommon(chain, ng, ext)
  <2>1. /\ ng = NoNg /\ n = H /\ chain[H].block.id = ext.common
        /\ \A h \in 1 .. H - 1 : chain[h].block = ext.before[h]
    BY <1>7 DEF AtCommon, OnCommon
  <2>2. d = 0 /\ l = H
    <3> HIDE DEF k, d, l, H
    <3> QED BY <1>3, <1>4, <1>7
  <2>3. Len(FullChain) = l /\ IdOf(chain, ng) = ext.common
    BY <1>2, <2>1, <2>2 DEF HeightOf, IdOf
  <2>4. \A h \in 1 .. l - 1 : FullChain[h] = ext.before[h]
    <3>1. \A h \in 1 .. H - 1 : h \in 1 .. n
      BY <1>2, <2>1
    <3> QED BY <1>2, <2>1, <2>2, <3>1
  <2> QED BY <1>7, <2>3, <2>4
<1>8. CASE /\ ~ext.inLiquid
           /\ \/ k = 1 /\ AtCommon(chain, ng, ext)
              \/ k > 1 /\ Restored(chain, ng, ext)
  <2>1. Len(FullChain) = H + k - 1 /\ \A h \in 1 .. H + k - 1 : FullChain[h] = ext.before[h]
    BY <1>1, <1>8, ComesBack DEF Restoring
  <2>2. FullChain = ext.before
    BY <1>4, <1>5, <2>1
  <2> QED BY <2>2
<1>9. CASE k > 1 /\ ext.inLiquid
  <2>1. ext.dropped = <<>>
    BY <1>1, <1>9 DEF Started
  <2>2. d = 0
    BY <2>1, EmptySeq
  <2> QED BY <1>4, <1>9, <2>2
<1>10. \/ InLiquid(chain, ng, ext)
       \/ k = 1 /\ AtCommon(chain, ng, ext)
       \/ k > 1 /\ Restored(chain, ng, ext)
  BY <1>1 DEF Restoring
<1>11. CASE ext.inLiquid
  BY <1>6, <1>7, <1>9, <1>10, <1>11
<1>12. CASE ~ext.inLiquid
  BY <1>6, <1>8, <1>10, <1>12
<1> QED BY <1>11, <1>12

(* The recovery has failed: all but the last dropped block are back. *)
LEMMA LostIs ==
  ASSUME SwitchInv, ext # NoExt, ext.stage = "failed"
  PROVE  /\ FullChain = SubSeq(ext.before, 1, Len(ext.before) - 1)
         /\ ext.before[Len(ext.before)] \notin Signed
<1> DEFINE H == CommonHeight(ext)
           k == ext.next
           d == Len(ext.dropped)
           l == Len(ext.before)
<1>1. /\ Started(ext) /\ Restoring(chain, ng, ext) /\ k = d /\ ext.dropped[k] \notin Signed
  BY DEF SwitchInv, ExtInv, StageInv
<1>2. /\ H \in Nat \ {0} /\ d \in Nat /\ l \in Nat /\ H + d = l /\ k \in Nat \ {0}
      /\ ext.before \in Seq(BlockType)
  BY <1>1, StartedFacts
<1>3. ~ext.inLiquid
  <2>1. ext.dropped # <<>>
    BY <1>1, <1>2, EmptySeq
  <2> QED BY <1>1, <2>1 DEF Started
<1>4. ext.before[l] \notin Signed
  <2>1. d \in 1 .. d
    BY <1>1, <1>2
  <2>2. ext.dropped[d] = ext.before[H + d]
    BY <1>1, <2>1 DEF Started
  <2> QED BY <1>1, <1>2, <2>2
<1>5. Len(FullChain) = H + k - 1 /\ \A h \in 1 .. H + k - 1 : FullChain[h] = ext.before[h]
  <2>1. ~InLiquid(chain, ng, ext)
    BY <1>3 DEF InLiquid
  <2> QED BY <1>1, <1>3, <2>1, ComesBack DEF Restoring
<1>6. H + k - 1 = l - 1 /\ l > 0 /\ Len(FullChain) = l - 1
  <2> HIDE DEF H, k, d, l
  <2> QED BY <1>1, <1>2, <1>5
<1> DEFINE u == SubSeq(ext.before, 1, l - 1)
<1>7. u \in Seq(BlockType) /\ Len(u) = l - 1 /\ \A h \in 1 .. l - 1 : u[h] = ext.before[h]
  BY <1>2, <1>6, WithoutLast
<1>8. FullChain \in Seq(BlockType)
  BY FullChainIs DEF SwitchInv
<1>9. FullChain = u
  <2> HIDE DEF u
  <2> QED BY <1>5, <1>6, <1>7, <1>8, SeqEqual
<1> QED BY <1>4, <1>9

(* The chain when a linked extension has been appended. *)
LEMMA AcceptedIs ==
  ASSUME SwitchInv, ext # NoExt, References(ext.blocks), ext.stage = "applying", Finished
  PROVE  LET n == Len(FullChain) - Len(ext.blocks)
         IN /\ SubSeq(FullChain, n + 1, Len(FullChain)) = ext.blocks
            /\ FullChain[n].id = ext.common
            /\ \A h \in 1 .. n - 1 : FullChain[h] = ext.before[h]
<1> DEFINE H == CommonHeight(ext)
           k == ext.next
           L == Len(ext.blocks)
           n == Len(chain)
<1>1. /\ Started(ext) /\ Applying(chain, ng, safe, ext) /\ ext.next > Len(ext.blocks) /\ IInv /\ AppliesInv
  BY DEF SwitchInv, ExtInv, StageInv, Finished
<1>2. /\ FullChain \in Seq(BlockType) /\ Len(FullChain) = HeightOf(chain, ng) /\ n \in Nat
      /\ \A h \in 1 .. n : FullChain[h] = chain[h].block
      /\ ng # NoNg => FullChain[n + 1] = BestLiquidBlock(ng)
  BY <1>1, FullChainIs
<1>3. H \in Nat \ {0} /\ L \in Nat \ {0} /\ k \in Nat \ {0} /\ ext.blocks \in Seq(BlockType)
  <2>1. L \in 1 .. MaxRollbackDepth + 1 /\ MaxRollbackDepth \in Nat
    BY <1>1, ParameterAssumption DEF Started
  <2> QED BY <1>1, <2>1, StartedFacts, SignedBlocks
<1>4. k = L + 1 /\ k > 1
  <2>1. k <= L + 1 /\ k > L
    BY <1>1 DEF Applying
  <2> HIDE DEF k, L
  <2> QED BY <1>3, <2>1
<1>5. /\ OnCommon(chain, ext) /\ ng # NoNg /\ ng.micros = <<>> /\ Applied(chain, ng, ext)
  BY <1>1, <1>3, <1>4 DEF Applying
<1>6. /\ n = H + k - 2 /\ ng.base = ext.blocks[k - 1]
      /\ \A i \in 1 .. k - 2 : chain[H + i].block = ext.blocks[i]
      /\ chain[H].block.id = ext.common /\ \A h \in 1 .. H - 1 : chain[h].block = ext.before[h]
  BY <1>5 DEF Applied, OnCommon
<1>7. /\ k - 1 = L /\ k - 2 = L - 1 /\ n + 1 = H + L /\ n = H + (L - 1)
      /\ H \in 1 .. n /\ \A h \in 1 .. H - 1 : h \in 1 .. n
  <2> HIDE DEF k, L, n, H
  <2> QED BY <1>2, <1>3, <1>4, <1>6
<1>8. FullChain[n + 1] = ext.blocks[L] /\ Len(FullChain) = H + L
  <2>1. ng \in LiquidType
    BY <1>1, <1>5 DEF IInv, TypeOK
  <2>2. BestLiquidBlock(ng) = ext.blocks[L]
    BY <1>5, <1>6, <1>7, <2>1, FreshBest
  <2> QED BY <1>2, <1>5, <1>7, <2>2 DEF HeightOf
<1>9. \A i \in 1 .. L : FullChain[H + i] = ext.blocks[i]
  <2> TAKE i \in 1 .. L
  <2>1. CASE i = L
    BY <1>7, <1>8, <2>1
  <2>2. CASE i \in 1 .. L - 1
    <3>1. H + i \in 1 .. n
      <4> HIDE DEF L, n, H
      <4> QED BY <1>2, <1>3, <1>7, <2>2
    <3> QED BY <1>2, <1>6, <1>7, <2>2, <3>1
  <2>3. i = L \/ i \in 1 .. L - 1
    <3> HIDE DEF L
    <3> QED BY <1>3
  <2> QED BY <2>1, <2>2, <2>3
<1> DEFINE u == SubSeq(FullChain, H + 1, H + L)
<1>10. u = ext.blocks
  <2>1. u \in Seq(BlockType) /\ Len(u) = L /\ \A i \in 1 .. L : u[i] = FullChain[H + i]
    <3> DEFINE s == FullChain
    <3>1. s \in Seq(BlockType) /\ Len(s) = H + L /\ H \in Nat /\ L \in Nat
      BY <1>2, <1>3, <1>8
    <3> HIDE DEF s, H, L
    <3>2. /\ SubSeq(s, H + 1, H + L) \in Seq(BlockType) /\ Len(SubSeq(s, H + 1, H + L)) = L
          /\ \A i \in 1 .. L : SubSeq(s, H + 1, H + L)[i] = s[H + i]
      BY SMTT(30), <3>1
    <3> QED BY <3>2 DEF s
  <2> HIDE DEF u, H
  <2> QED BY <1>3, <1>9, <2>1, SeqEqual
<1>11. Len(FullChain) - L = H /\ Len(FullChain) = H + L
  <2> HIDE DEF L, H
  <2> QED BY <1>3, <1>8
<1>12. FullChain[H].id = ext.common /\ \A h \in 1 .. H - 1 : FullChain[h] = ext.before[h]
  BY <1>2, <1>6, <1>7
<1> QED BY <1>10, <1>11, <1>12

-----------------------------------------------------------------------------
(* The invariant of the node with its appenders. *)
THEOREM SwitchInvariance ==
  ASSUME SplitIndependent, Acyclic
  PROVE  ExtSpec /\ []TotalsNew => []SwitchInv
<1>1. ExtInit => SwitchInv
  BY SwitchInit
<1>2. SwitchInv /\ TotalsNew /\ [ExtNext]_extVars => SwitchInv'
  BY SwitchNext
<1> QED BY <1>1, <1>2, PTL DEF ExtSpec

(* The appenders use the updater through its operations only, so every theorem
   about Spec holds while extensions are applied, refused and undone. *)
THEOREM AppendersUseUpdater ==
  ASSUME SplitIndependent, Acyclic
  PROVE  ExtSpec /\ []TotalsNew => Spec
<1>1. ExtInit => Init
  BY DEF ExtInit
<1>2. SwitchInv /\ TotalsNew /\ [ExtNext]_extVars => [Next]_vars
  BY SwitchStep
<1> QED BY <1>1, <1>2, SwitchInvariance, PTL DEF ExtSpec, Spec

(* The recovery throws only while it restores a liquid block that its generator
   never signed, the last dropped one; everything below it is back by then.  The
   common block can still be rolled back to, and every block whose signature
   matches its content is accepted again. *)
THEOREM RecoveryFailsOnUnsignedOnly ==
  ASSUME SplitIndependent, Acyclic
  PROVE  ExtSpec /\ []TotalsNew => []RecoveryLosesUnsignedOnly
<1>1. SwitchInv => RecoveryLosesUnsignedOnly
  BY LostIs DEF RecoveryLosesUnsignedOnly
<1> QED BY <1>1, SwitchInvariance, PTL

(* A refused extension leaves the chain it found, block by block, or the liquid
   block cut at the microblock where the fork left it. *)
THEOREM RefusedRestores ==
  ASSUME SplitIndependent, Acyclic
  PROVE  ExtSpec /\ []TotalsNew => []RefusedExtensionRestores
<1>1. SwitchInv => RefusedExtensionRestores
  BY RestoredIs DEF RefusedExtensionRestores
<1> QED BY <1>1, SwitchInvariance, PTL

(* A peer answers GetSignatures with consecutive ids of its chain (HistoryReplier)
   and the loader hands over a segment of them (theorem ExtensionsSegments): the
   blocks of an extension are linked.  The appender does not check it, and nothing
   above needs it. *)
LinkedExtensions == \A e \in Extensions : References(e)
BlocksLinked == ext # NoExt => References(ext.blocks)

(* The blocks that are left of an extension are linked. *)
LEMMA NextBlocksLinked ==
  ASSUME LinkedExtensions, SwitchInv, BlocksLinked, [ExtNext]_extVars
  PROVE  BlocksLinked'
<1>1. ASSUME ext' = ext \/ ext' = NoExt PROVE BlocksLinked'
  BY <1>1 DEF BlocksLinked
<1>2. ASSUME NEW e \in Extensions,
             LET new == NewBlocks(e)
             IN StartWithRollback(new) \/ StartRefused(new) \/ StartOnTop(new)
      PROVE  BlocksLinked'
  <2>1. CASE StartRefused(NewBlocks(e))
    BY <1>1, <2>1 DEF StartRefused
  <2>2. CASE StartWithRollback(NewBlocks(e)) \/ StartOnTop(NewBlocks(e))
    <3>1. ext'.blocks = NewBlocks(e)
      BY <2>2 DEF StartWithRollback, StartOnTop, NewExt
    <3>2. e \in Seq(Signed) /\ References(e)
      BY ExtensionAssumption DEF LinkedExtensions
    <3>3. References(NewBlocks(e))
      BY <3>2, NewBlocksFacts
    <3> QED BY <3>1, <3>3 DEF BlocksLinked
  <2> QED BY <1>2, <2>1, <2>2
<1>3. ASSUME NEW st, NEW k, ext # NoExt,
             \/ ext' = [ext EXCEPT !.stage = st, !.next = k]
             \/ ext' = [ext EXCEPT !.next = k]
             \/ ext' = [ext EXCEPT !.stage = st]
      PROVE  BlocksLinked'
  <2>1. ext \in ExtType
    BY <1>3 DEF SwitchInv, ExtInv, Started
  <2>2. ext'.blocks = ext.blocks
    BY <1>3, <2>1 DEF ExtType
  <2> QED BY <1>3, <2>2 DEF BlocksLinked
<1>4. ASSUME Dropped PROVE BlocksLinked'
  <2>1. PICK st : ext # NoExt /\ ext' = [ext EXCEPT !.stage = st, !.next = 1]
    BY <1>4 DEF Dropped
  <2> QED BY <1>3, <2>1
<1>5. ASSUME ApplyNext PROVE BlocksLinked'
  BY <1>3, <1>5 DEF ApplyNext
<1>6. ASSUME ApplyRefused PROVE BlocksLinked'
  BY <1>3, <1>6 DEF ApplyRefused
<1>7. ASSUME Undo PROVE BlocksLinked'
  BY <1>1, <1>3, <1>7 DEF Undo
<1>8. ASSUME RestoreNext PROVE BlocksLinked'
  BY <1>1, <1>3, <1>8 DEF RestoreNext
<1>9. ASSUME \/ \E b \in Blocks : BlockAppender(b)
             \/ \E m \in Micros : MicroblockAppender(m)
             \/ Dropping \/ Finish \/ NodeDies \/ UNCHANGED extVars
      PROVE  BlocksLinked'
  BY <1>1, <1>9 DEF BlockAppender, MicroblockAppender, Dropping, Finish, NodeDies, extVars
<1> QED BY <1>2, <1>4, <1>5, <1>6, <1>7, <1>8, <1>9 DEF ExtNext

(* An accepted extension of linked blocks is the end of the chain, on the old
   chain up to the common block: no block of it was ignored, replaced or lost. *)
THEOREM AcceptedIsChain ==
  ASSUME SplitIndependent, Acyclic, LinkedExtensions
  PROVE  ExtSpec /\ []TotalsNew => []AcceptedExtensionIsChain
<1>1. ExtInit => BlocksLinked
  BY DEF ExtInit, BlocksLinked
<1>2. SwitchInv /\ BlocksLinked /\ [ExtNext]_extVars => BlocksLinked'
  BY NextBlocksLinked
<1>3. SwitchInv /\ BlocksLinked => AcceptedExtensionIsChain
  BY AcceptedIs DEF AcceptedExtensionIsChain, BlocksLinked
<1> QED BY <1>1, <1>2, <1>3, SwitchInvariance, PTL DEF ExtSpec
=============================================================================

--------------------------- MODULE NgStateProofs ---------------------------
(***************************************************************************)
(* Proofs about the liquid block and its caches (module NgState): every    *)
(* cached entry is what would be computed now, and the block and the diff  *)
(* that are persisted together hold the same transactions.                 *)
(***************************************************************************)
EXTENDS NgState, Induction, TLAPS

MicroType == [prev : Ids, total : Ids, txs : Seq(Txs)]

(* Every microblock refers to the one before it; while total ids are new,
   microDiffs holds the diff of each microblock. *)
Typed == micros \in Seq(MicroType)
Linked ==
  \A i \in 1 .. Len(micros) :
    micros[i].prev = IF i = 1 THEN BaseId ELSE micros[i - 1].total
DiffsKept ==
  \A i \in 1 .. Len(micros) : /\ micros[i].total \in DOMAIN microDiffs
                              /\ microDiffs[micros[i].total] = micros[i].txs

NgInv == Typed /\ Linked /\ (TotalsDistinct => DiffsKept) /\ CachesCoherent

-----------------------------------------------------------------------------
(* The transactions of the microblocks are a concatenation. *)
TxsOf(ms) == [i \in 1 .. Len(ms) |-> ms[i].txs]

LEMMA TxsOfSeq ==
  ASSUME NEW ms \in Seq(MicroType)
  PROVE  /\ Len(ms) \in Nat
         /\ \A i \in 1 .. Len(ms) : TxsOf(ms)[i] = ms[i].txs /\ TxsOf(ms)[i] \in Seq(Txs)
         /\ \A k \in 0 .. Len(ms) : Flat(TxsOf(ms), k) \in Seq(Txs)
<1>1. Len(ms) \in Nat /\ \A i \in 1 .. Len(ms) : ms[i] \in MicroType
  BY LenProperties, ElementOfSeq
<1>2. \A i \in 1 .. Len(ms) : TxsOf(ms)[i] = ms[i].txs /\ TxsOf(ms)[i] \in Seq(Txs)
  BY <1>1 DEF TxsOf, MicroType
<1> QED BY <1>1, <1>2, FlatSeq

(* The recursive definitions of the model compute that concatenation. *)
LEMMA RecursionIsFlat ==
  ASSUME NEW ms, Len(ms) \in Nat, NEW g,
         g = CHOOSE f : f = [i \in 0 .. Len(ms) |-> IF i = 0 THEN <<>> ELSE f[i - 1] \o ms[i].txs]
  PROVE  \A k \in 0 .. Len(ms) : g[k] = Flat(TxsOf(ms), k)
<1> DEFINE n == Len(ms)
           p == TxsOf(ms)
           Rec(f) == f = [i \in 0 .. n |-> IF i = 0 THEN <<>> ELSE f[i - 1] \o ms[i].txs]
<1>1. ASSUME NEW f PROVE Rec(f) <=> Concatenates(f, p, n)
  <2>1. \A i \in 0 .. n : i # 0 => p[i] = ms[i].txs
    BY DEF TxsOf
  <2> QED BY <2>1 DEF Concatenates
<1>2. \E f : Rec(f)
  BY <1>1, ConcatenationExists
<1>3. g = CHOOSE f : Rec(f)
  OBVIOUS
<1>4. Rec(g)
  BY <1>2, <1>3
<1>5. Concatenates(g, p, n)
  BY <1>1, <1>4
<1>6. n \in Nat
  OBVIOUS
<1> HIDE DEF p, n
<1>7. \A k \in 0 .. n : g[k] = Flat(p, k)
  BY <1>5, <1>6, FlatIs
<1> QED BY <1>7 DEF p, n

LEMMA TxsUpToIsFlat ==
  ASSUME Typed
  PROVE  \A k \in 0 .. Len(micros) : TxsUpTo(k) = Flat(TxsOf(micros), k)
<1>1. Len(micros) \in Nat
  BY LenProperties DEF Typed
<1> DEFINE g == CHOOSE f : f = [i \in 0 .. Len(micros) |->
                                  IF i = 0 THEN <<>> ELSE f[i - 1] \o micros[i].txs]
<1>2. \A k : TxsUpTo(k) = g[k]
  BY DEF TxsUpTo
<1>3. \A k \in 0 .. Len(micros) : g[k] = Flat(TxsOf(micros), k)
  BY <1>1, RecursionIsFlat
<1> QED BY <1>2, <1>3

LEMMA TxsInIsFlat ==
  ASSUME NEW ms, Len(ms) \in Nat
  PROVE  TxsIn(ms) = Flat(TxsOf(ms), Len(ms))
<1> DEFINE g == CHOOSE f : f = [i \in 0 .. Len(ms) |->
                                  IF i = 0 THEN <<>> ELSE f[i - 1] \o ms[i].txs]
<1>1. TxsIn(ms) = g[Len(ms)]
  BY DEF TxsIn
<1>2. \A k \in 0 .. Len(ms) : g[k] = Flat(TxsOf(ms), k)
  BY RecursionIsFlat
<1>3. Len(ms) \in 0 .. Len(ms)
  OBVIOUS
<1> QED BY <1>1, <1>2, <1>3

(* The ends of the microblocks that carry an id. *)
LEMMA OldestIs ==
  ASSUME Typed, NEW id \in MicroBlockIds
  PROVE  /\ Oldest(id) \in 1 .. Len(micros)
         /\ micros[Oldest(id)].total = id
<1> DEFINE T == {i \in 1 .. Len(micros) : micros[i].total = id}
<1>1. Len(micros) \in Nat
  BY LenProperties DEF Typed
<1>2. T \in SUBSET Nat /\ T # {}
  BY <1>1 DEF MicroBlockIds
<1>3. PICK i \in T : \A j \in T : i <= j
  <2> HIDE DEF T
  <2> QED BY <1>2, Least
<1>4. \A j \in 1 .. i - 1 : micros[j].total # id
  <2>1. ASSUME NEW j \in 1 .. i - 1 PROVE j \in 1 .. Len(micros) /\ ~(i <= j)
    BY <1>1, <1>3
  <2> QED BY <1>3, <2>1
<1> QED BY <1>3, <1>4 DEF Oldest

(* While total ids are new, an id determines the microblock. *)
LEMMA IndexFacts ==
  ASSUME Typed, TotalsDistinct
  PROVE  /\ \A i \in 1 .. Len(micros) : /\ Oldest(micros[i].total) = i
                                        /\ Newest(micros[i].total) = i
                                        /\ micros[i].total # BaseId
                                        /\ micros[i].total \in MicroBlockIds
         /\ \A id \in MicroBlockIds : \E i \in 1 .. Len(micros) : micros[i].total = id
<1>1. Len(micros) \in Nat
  BY LenProperties DEF Typed
<1>2. ASSUME NEW i \in 1 .. Len(micros)
      PROVE  Oldest(micros[i].total) = i /\ Newest(micros[i].total) = i
  <2>1. \A j \in 1 .. Len(micros) : micros[j].total = micros[i].total => j = i
    BY DEF TotalsDistinct
  <2>2. \A j \in i + 1 .. Len(micros) : micros[j].total # micros[i].total
    <3>1. \A j \in i + 1 .. Len(micros) : j \in 1 .. Len(micros) /\ j # i
      BY <1>1
    <3> QED BY <2>1, <3>1
  <2>3. \A j \in 1 .. i - 1 : micros[j].total # micros[i].total
    <3>1. \A j \in 1 .. i - 1 : j \in 1 .. Len(micros) /\ j # i
      BY <1>1
    <3> QED BY <2>1, <3>1
  <2> QED BY <2>1, <2>2, <2>3, Zenon DEF Oldest, Newest
<1> QED BY <1>2 DEF TotalsDistinct, MicroBlockIds

LEMMA TrueDiffIs ==
  ASSUME Typed, TotalsDistinct, NEW i \in 1 .. Len(micros)
  PROVE  TrueDiff(micros[i].total) = BaseTxs \o Flat(TxsOf(micros), i)
<1>1. TxsUpTo(i) = Flat(TxsOf(micros), i)
  <2>1. i \in 0 .. Len(micros)
    OBVIOUS
  <2> QED BY <2>1, TxsUpToIsFlat
<1> QED BY <1>1, IndexFacts DEF TrueDiff

(* The recursion of diffFor defines its answers. *)
StepOf(w, id) ==
  IF id = BaseId THEN {BaseTxs}
  ELSE IF id \in DOMAIN diffCache THEN {diffCache[id]}
  ELSE IF id \notin MicroBlockIds THEN {<<>>}
  ELSE {d \o microDiffs[id] : d \in w[PrevOf(id)]}
AnswersWithin(f, n) ==
  f = [k \in 0 .. n |-> [id \in Ids |-> IF k = 0 THEN {} ELSE StepOf(f[k - 1], id)]]

LEMMA AnswersExist == \A n \in Nat : \E f : AnswersWithin(f, n)
<1> DEFINE S == {n \in Nat : \E f : AnswersWithin(f, n)}
<1>1. 0 \in S
  <2>1. AnswersWithin([k \in 0 .. 0 |-> [id \in Ids |-> {}]], 0)
    BY DEF AnswersWithin
  <2> QED BY <2>1
<1>2. ASSUME NEW n \in Nat, n \in S PROVE n + 1 \in S
  <2>1. PICK f : AnswersWithin(f, n)
    BY <1>2
  <2>2. PICK last : last = [id \in Ids |-> StepOf(f[n], id)]
    OBVIOUS
  <2> DEFINE g == [k \in 0 .. n + 1 |-> IF k = n + 1 THEN last ELSE f[k]]
             Is(h, k) == h[k] = [id \in Ids |-> IF k = 0 THEN {} ELSE StepOf(h[k - 1], id)]
  <2>3. \A k \in 0 .. n : Is(f, k)
    BY <2>1 DEF AnswersWithin
  <2>4. ASSUME NEW k \in 0 .. n + 1 PROVE Is(g, k)
    <3>1. CASE k = n + 1
      <4>1. k # 0 /\ k - 1 = n /\ n \in 0 .. n + 1 /\ n # n + 1
        BY <3>1
      <4>2. g[k] = last /\ g[k - 1] = f[n]
        BY <3>1, <4>1
      <4> QED BY <2>2, <4>1, <4>2
    <3>2. CASE k # n + 1
      <4>1. k \in 0 .. n /\ g[k] = f[k]
        BY <3>2
      <4>2. k # 0 => g[k - 1] = f[k - 1]
        BY <4>1
      <4>3. Is(f, k)
        BY <2>3, <4>1
      <4> HIDE DEF g
      <4> QED BY <4>1, <4>2, <4>3
    <3> QED BY <3>1, <3>2
  <2>5. AnswersWithin(g, n + 1)
    <3>1. g = [k \in 0 .. n + 1 |-> g[k]]
      OBVIOUS
    <3> HIDE DEF g
    <3> QED BY <2>4, <3>1 DEF AnswersWithin
  <2> QED BY <2>5
<1> HIDE DEF S
<1>3. Nat \subseteq S
  BY <1>1, <1>2, Inductive
<1> QED BY <1>3 DEF S

(* diffFor, which reads the cache on its way down, has one answer for every id:
   the diff that combines the base and the microblocks up to that id. *)
LEMMA AnswersAre ==
  ASSUME NgInv, TotalsDistinct
  PROVE  \A id \in Ids : Answers[id] = {TrueDiff(id)} /\ DiffFor(id) = TrueDiff(id)
<1> DEFINE n == Len(micros)
           w == CHOOSE f : AnswersWithin(f, n + 1)
           p == TxsOf(micros)
           Known(k) == \A id \in Ids : (id \in MicroBlockIds => Newest(id) < k)
                                       => w[k][id] = {TrueDiff(id)}
<1>1. /\ Typed /\ Linked /\ DiffsKept /\ n \in Nat /\ BaseTxs \in Seq(Txs)
      /\ \A id \in DOMAIN diffCache : diffCache[id] = TrueDiff(id)
      /\ \A i \in 1 .. n : micros[i] \in MicroType
  BY LenProperties, ElementOfSeq, NgAssumption DEF NgInv, Typed, CachesCoherent
<1>2. Answers = w[n + 1]
  BY DEF Answers, AnswersWithin, StepOf
<1>3. AnswersWithin(w, n + 1)
  BY <1>1, AnswersExist
<1> HIDE DEF w
<1>4. \A k \in 1 .. n + 1, id \in Ids : w[k][id] = StepOf(w[k - 1], id)
  <2>1. \A k \in 1 .. n + 1 : k \in 0 .. n + 1 /\ k # 0
    OBVIOUS
  <2>2. \A k \in 0 .. n + 1 : w[k] = [id \in Ids |-> IF k = 0 THEN {} ELSE StepOf(w[k - 1], id)]
    BY <1>3 DEF AnswersWithin
  <2> QED BY <2>1, <2>2
<1>5. ASSUME NEW i \in 1 .. n
      PROVE  TrueDiff(micros[i].total) = TrueDiff(micros[i].prev) \o microDiffs[micros[i].total]
  <2>1. /\ i - 1 \in Nat /\ (i - 1) + 1 = i /\ i - 1 \in 0 .. n
        /\ \A j \in 1 .. n : p[j] = micros[j].txs /\ p[j] \in Seq(Txs)
        /\ \A k \in 0 .. n : Flat(p, k) \in Seq(Txs)
    BY <1>1, TxsOfSeq DEF Typed
  <2>2. microDiffs[micros[i].total] = p[i]
    BY <1>1, <2>1 DEF DiffsKept
  <2>3. Flat(p, i) = Flat(p, i - 1) \o p[i] /\ Flat(p, 0) = <<>>
    BY <2>1, FlatStep
  <2>4. \A a, b, c \in Seq(Txs) : (a \o b) \o c = a \o (b \o c)
    BY ConcatAssociative
  <2>5. (BaseTxs \o Flat(p, i - 1)) \o p[i] = BaseTxs \o (Flat(p, i - 1) \o p[i])
    BY <1>1, <2>1, <2>4, Zenon
  <2>6. TrueDiff(micros[i].prev) = BaseTxs \o Flat(p, i - 1)
    <3>1. CASE i = 1
      <4>1. micros[i].prev = BaseId
        BY <1>1, <3>1 DEF Linked
      <4>2. BaseTxs \o <<>> = BaseTxs
        BY <1>1, ConcatEmptySeq
      <4>3. TrueDiff(micros[i].prev) = BaseTxs
        BY <4>1 DEF TrueDiff
      <4>4. i - 1 = 0
        BY <3>1
      <4> HIDE DEF p
      <4>5. Flat(p, i - 1) = <<>>
        BY <2>3, <4>4
      <4> QED BY <4>2, <4>3, <4>5
    <3>2. CASE i # 1
      <4>1. i - 1 \in 1 .. n /\ micros[i].prev = micros[i - 1].total
        BY <1>1, <3>2 DEF Linked
      <4> QED BY <1>1, <4>1, TrueDiffIs
    <3> QED BY <3>1, <3>2
  <2>7. TrueDiff(micros[i].total) = BaseTxs \o Flat(p, i)
    BY <1>1, TrueDiffIs
  <2> QED BY <2>2, <2>3, <2>5, <2>6, <2>7
<1> DEFINE S == {k \in Nat : k < n + 1 => Known(k + 1)}
<1>6. ASSUME NEW k \in 1 .. n + 1, k # 1 => Known(k - 1) PROVE Known(k)
  <2> SUFFICES ASSUME NEW id \in Ids, id \in MicroBlockIds => Newest(id) < k
               PROVE  w[k][id] = {TrueDiff(id)}
    OBVIOUS
  <2>1. w[k][id] = StepOf(w[k - 1], id)
    BY <1>4
  <2>2. CASE id = BaseId
    BY <2>1, <2>2 DEF StepOf, TrueDiff
  <2>3. CASE id # BaseId /\ id \in DOMAIN diffCache
    BY <1>1, <2>1, <2>3 DEF StepOf
  <2>4. CASE id # BaseId /\ id \notin DOMAIN diffCache /\ id \notin MicroBlockIds
    BY <2>1, <2>4 DEF StepOf, TrueDiff
  <2>5. CASE id # BaseId /\ id \notin DOMAIN diffCache /\ id \in MicroBlockIds
    <3>1. PICK i \in 1 .. n : micros[i].total = id /\ Newest(id) = i
      BY <1>1, <2>5, IndexFacts
    <3>2. i < k /\ k # 1 /\ Known(k - 1)
      BY <1>6, <2>5, <3>1
    <3>3. PrevOf(id) = micros[i].prev /\ micros[i].prev \in Ids
      BY <1>1, <3>1 DEF PrevOf, MicroType
    <3>4. micros[i].prev \in MicroBlockIds => Newest(micros[i].prev) < k - 1
      <4>1. CASE i = 1
        <5>1. micros[i].prev = BaseId
          BY <1>1, <4>1 DEF Linked
        <5> QED BY <5>1 DEF TotalsDistinct
      <4>2. CASE i # 1
        <5>1. i - 1 \in 1 .. n /\ micros[i].prev = micros[i - 1].total
          BY <1>1, <4>2 DEF Linked
        <5>2. Newest(micros[i].prev) = i - 1
          BY <1>1, <5>1, IndexFacts
        <5> QED BY <3>2, <5>2
      <4> QED BY <4>1, <4>2
    <3>5. w[k - 1][micros[i].prev] = {TrueDiff(micros[i].prev)}
      BY <3>2, <3>3, <3>4
    <3>6. w[k][id] = {d \o microDiffs[id] : d \in {TrueDiff(micros[i].prev)}}
      BY <2>1, <2>5, <3>3, <3>5 DEF StepOf
    <3>7. TrueDiff(id) = TrueDiff(micros[i].prev) \o microDiffs[id]
      BY <1>5, <3>1
    <3> QED BY <3>6, <3>7
  <2> QED BY <2>2, <2>3, <2>4, <2>5
<1> HIDE DEF Known, p
<1>7. 0 \in S
  BY <1>1, <1>6
<1>8. ASSUME NEW k \in Nat, k \in S PROVE k + 1 \in S
  <2> SUFFICES ASSUME k + 1 < n + 1 PROVE Known((k + 1) + 1)
    OBVIOUS
  <2>1. (k + 1) + 1 \in 1 .. n + 1 /\ ((k + 1) + 1) - 1 = k + 1 /\ k < n + 1
    BY <1>1
  <2>2. Known(k + 1)
    BY <1>8, <2>1
  <2> QED BY <1>6, <2>1, <2>2
<1> HIDE DEF S
<1>9. Nat \subseteq S
  BY <1>7, <1>8, Inductive
<1>10. Known(n + 1)
  <2>1. n \in S /\ n < n + 1
    BY <1>1, <1>9
  <2> QED BY <2>1 DEF S
<1>11. \A id \in MicroBlockIds : Newest(id) < n + 1
  <2>1. \A i \in 1 .. n : i < n + 1
    BY <1>1
  <2> QED BY <1>1, <2>1, IndexFacts
<1>12. \A id \in Ids : Answers[id] = {TrueDiff(id)}
  BY <1>2, <1>10, <1>11 DEF Known
<1> QED BY <1>12 DEF DiffFor

(* What the readers answer is what would be computed without the caches. *)
LEMMA AnswersAreTrue ==
  ASSUME NgInv
  PROVE  /\ \A id : ForgeBlock(id) = Forge(id)
         /\ micros # <<>> => BestLiquidBlock = BestBlock
         /\ TotalsDistinct =>
              \A id, x \in Ids : x \in DOMAIN Loaded(id) => Loaded(id)[x] = TrueDiff(x)
<1>1. CachesCoherent
  BY DEF NgInv
<1>2. ASSUME NEW id PROVE ForgeBlock(id) = Forge(id)
  BY <1>1 DEF ForgeBlock, CachesCoherent
<1>3. ASSUME micros # <<>> PROVE BestLiquidBlock = BestBlock
  <2>1. CASE bestCache = {}
    BY <1>3, <2>1 DEF BestLiquidBlock
  <2>2. CASE bestCache # {}
    <3>1. (CHOOSE b \in bestCache : TRUE) \in bestCache
      BY <2>2
    <3> QED BY <1>1, <1>3, <2>2, <3>1 DEF BestLiquidBlock, CachesCoherent
  <2> QED BY <2>1, <2>2
<1>4. ASSUME TotalsDistinct, NEW id \in Ids, NEW x \in Ids, x \in DOMAIN Loaded(id)
      PROVE  Loaded(id)[x] = TrueDiff(x)
  <2>1. DiffFor(x) = TrueDiff(x)
    BY <1>4, AnswersAre
  <2> QED BY <1>4, <2>1 DEF Loaded
<1> QED BY <1>2, <1>3, <1>4

(* Diffs are cached for ids only. *)
CachedIds == DOMAIN diffCache \subseteq Ids

LEMMA LoadedIds ==
  ASSUME CachedIds, NEW id PROVE DOMAIN Loaded(id) \subseteq Ids
BY DEF CachedIds, Loaded, LoadedBy

(* Readers and evictions leave the microblocks alone. *)
LEMMA SameMicros ==
  ASSUME NgInv, UNCHANGED <<micros, microDiffs>>, CachesCoherent'
  PROVE  NgInv'
BY DEF NgInv, Typed, Linked, TotalsDistinct, MicroBlockIds, DiffsKept

LEMMA SameAnswers ==
  ASSUME UNCHANGED micros
  PROVE  /\ \A id : TrueDiff(id)' = TrueDiff(id) /\ Forge(id)' = Forge(id)
         /\ BestBlock' = BestBlock
         /\ TotalsDistinct' = TotalsDistinct
BY DEF TrueDiff, Forge, BestBlock, BestId, Transactions, TxsUpTo, Oldest, MicroBlockIds,
       TotalsDistinct

LEMMA ReadersKeep ==
  ASSUME NgInv, CachedIds, NEW id \in Ids,
         ReadDiff(id) \/ ReadForged(id) \/ ReadBest \/ EvictDiff(id) \/ EvictForged(id)
  PROVE  NgInv' /\ CachedIds'
<1>1. UNCHANGED <<micros, microDiffs>>
  BY DEF ReadDiff, ReadForged, ReadBest, EvictDiff, EvictForged
<1>2. /\ \A x : TrueDiff(x)' = TrueDiff(x) /\ Forge(x)' = Forge(x)
      /\ BestBlock' = BestBlock
      /\ TotalsDistinct' = TotalsDistinct
  BY <1>1, SameAnswers
<1>3. CachesCoherent
  BY DEF NgInv
<1>4. CASE ReadDiff(id)
  <2>1. DOMAIN diffCache' \subseteq Ids
    BY <1>4, LoadedIds DEF ReadDiff
  <2>2. TotalsDistinct => \A x \in DOMAIN diffCache' : diffCache'[x] = TrueDiff(x)
    BY <1>4, <2>1, AnswersAreTrue DEF ReadDiff
  <2> QED BY <1>1, <1>2, <1>3, <1>4, <2>1, <2>2, SameMicros DEF ReadDiff, CachesCoherent, CachedIds
<1>5. CASE ReadForged(id)
  <2>1. \A x \in DOMAIN forgedCache' : forgedCache'[x] = Forge(x)
    BY <1>3, <1>5, AnswersAreTrue DEF ReadForged, Put, CachesCoherent
  <2> QED BY <1>1, <1>2, <1>3, <1>5, <2>1, SameMicros DEF ReadForged, CachesCoherent, CachedIds
<1>6. CASE ReadBest
  <2>1. \A b \in bestCache' : b = BestBlock
    BY <1>6, AnswersAreTrue DEF ReadBest
  <2> QED BY <1>1, <1>2, <1>3, <1>6, <2>1, SameMicros DEF ReadBest, CachesCoherent, CachedIds
<1>7. CASE EvictDiff(id)
  <2>1. \A x \in DOMAIN diffCache' : x \in DOMAIN diffCache /\ diffCache'[x] = diffCache[x]
    BY <1>7 DEF EvictDiff, Without, Restrict
  <2> QED BY <1>1, <1>2, <1>3, <1>7, <2>1, SameMicros DEF EvictDiff, CachesCoherent, CachedIds
<1>8. CASE EvictForged(id)
  <2>1. \A x \in DOMAIN forgedCache' : forgedCache'[x] = Forge(x)
    BY <1>3, <1>8 DEF EvictForged, Without, Restrict, CachesCoherent
  <2> QED BY <1>1, <1>2, <1>3, <1>8, <2>1, SameMicros DEF EvictForged, CachesCoherent, CachedIds
<1> QED BY <1>4, <1>5, <1>6, <1>7, <1>8

(* A microblock on top changes no diff but that of its own id, the only one
   that Invalidate drops from blockDiffCache. *)
LEMMA AppendKeeps ==
  ASSUME NgInv, CachedIds, NEW id \in Ids, NEW txs \in Seq(Txs), AppendMicro(id, txs)
  PROVE  NgInv' /\ CachedIds'
<1> DEFINE m == [prev |-> BestId, total |-> id, txs |-> txs]
           n == Len(micros)
<1>1. Typed /\ Linked /\ CachesCoherent /\ micros \in Seq(MicroType) /\ n \in Nat
  BY LenProperties DEF NgInv, Typed
<1>2. BestId \in Ids /\ BestId = IF n = 0 THEN BaseId ELSE micros[n].total
  <2>1. CASE micros = <<>>
    BY <2>1, NgAssumption DEF BestId
  <2>2. CASE micros # <<>>
    <3>1. n \in 1 .. n
      BY <1>1, <2>2, EmptySeq
    <3>2. micros[n] \in MicroType
      BY <1>1, <3>1, ElementOfSeq
    <3> QED BY <2>2, <3>1, <3>2 DEF BestId, MicroType
  <2> QED BY <2>1, <2>2
<1>3. m \in MicroType /\ m.total = id /\ m.txs = txs /\ m.prev = BestId
  BY <1>2 DEF MicroType
<1>4. micros' = Append(micros, m)
  BY DEF AppendMicro
<1> HIDE DEF m
<1>5. /\ micros' \in Seq(MicroType) /\ Len(micros') = n + 1
      /\ \A i \in 1 .. n : micros'[i] = micros[i]
      /\ micros'[n + 1] = m
  BY <1>1, <1>3, <1>4, AppendProperties
<1> HIDE DEF n
<1>6. \A i \in 1 .. n + 1 : i \in 1 .. n \/ i = n + 1
  BY <1>1
<1>7. Typed'
  BY <1>5 DEF Typed
<1>8. Linked'
  <2>1. ASSUME NEW i \in 1 .. n + 1
        PROVE  micros'[i].prev = IF i = 1 THEN BaseId ELSE micros'[i - 1].total
    <3>1. CASE i \in 1 .. n
      <4>1. micros[i].prev = IF i = 1 THEN BaseId ELSE micros[i - 1].total
        BY <1>1, <3>1 DEF Linked, n
      <4>2. i # 1 => i - 1 \in 1 .. n
        BY <1>1, <3>1
      <4> QED BY <1>5, <3>1, <4>1, <4>2
    <3>2. CASE i = n + 1
      <4>1. i - 1 = n /\ (i = 1 <=> n = 0) /\ (n # 0 => n \in 1 .. n)
        BY <1>1, <3>2
      <4> QED BY <1>2, <1>3, <1>5, <3>2, <4>1
    <3> QED BY <1>6, <3>1, <3>2
  <2> QED BY <1>5, <2>1 DEF Linked
<1>9. MicroBlockIds' = MicroBlockIds \cup {id}
  <2>1. MicroBlockIds' = {micros'[i].total : i \in 1 .. n + 1}
    BY <1>5 DEF MicroBlockIds
  <2>2. MicroBlockIds = {micros[i].total : i \in 1 .. n}
    BY DEF MicroBlockIds, n
  <2>3. \A i \in 1 .. n : i \in 1 .. n + 1
    BY <1>1
  <2>4. n + 1 \in 1 .. n + 1
    BY <1>1
  <2> QED BY <1>3, <1>5, <1>6, <2>1, <2>2, <2>3, <2>4
<1>10. ASSUME TotalsDistinct' PROVE TotalsDistinct /\ id # BaseId /\ id \notin MicroBlockIds
  <2>1. n + 1 \in 1 .. n + 1 /\ \A i \in 1 .. n : i \in 1 .. n + 1 /\ i # n + 1
    BY <1>1
  <2>2. \A i, j \in 1 .. n + 1 : micros'[i].total = micros'[j].total => i = j
    BY <1>5, <1>10 DEF TotalsDistinct
  <2>3. \A i, j \in 1 .. n : micros[i].total = micros[j].total => i = j
    <3>1. ASSUME NEW i \in 1 .. n, NEW j \in 1 .. n, micros[i].total = micros[j].total
          PROVE  i = j
      BY <1>5, <2>1, <2>2, <3>1
    <3> QED BY <3>1
  <2>4. \A i \in 1 .. n : micros[i].total # id
    BY <1>3, <1>5, <2>1, <2>2
  <2>5. BaseId \notin MicroBlockIds'
    BY <1>10 DEF TotalsDistinct
  <2>6. id \notin MicroBlockIds
    BY <2>4 DEF MicroBlockIds, n
  <2> QED BY <1>9, <2>3, <2>5, <2>6 DEF TotalsDistinct, n
<1>11. \A i \in 1 .. n : micros[i].total \in MicroBlockIds
  BY DEF MicroBlockIds, n
<1>12. TotalsDistinct' => DiffsKept'
  <2> SUFFICES ASSUME TotalsDistinct' PROVE DiffsKept'
    OBVIOUS
  <2>1. /\ \A x \in DOMAIN microDiffs : x # id => microDiffs'[x] = microDiffs[x]
        /\ microDiffs'[id] = txs
        /\ DOMAIN microDiffs' = DOMAIN microDiffs \cup {id}
    BY DEF AppendMicro, Put
  <2>2. ASSUME NEW i \in 1 .. n + 1
        PROVE  micros'[i].total \in DOMAIN microDiffs' /\ microDiffs'[micros'[i].total] = micros'[i].txs
    <3>1. CASE i \in 1 .. n
      <4>1. micros[i].total \in DOMAIN microDiffs /\ microDiffs[micros[i].total] = micros[i].txs
        BY <1>10, <3>1 DEF NgInv, DiffsKept, n
      <4>2. micros[i].total # id
        BY <1>10, <1>11, <3>1
      <4> QED BY <1>5, <2>1, <3>1, <4>1, <4>2
    <3>2. CASE i = n + 1
      BY <1>3, <1>5, <2>1, <3>2
    <3> QED BY <1>6, <3>1, <3>2
  <2> QED BY <1>5, <2>2 DEF DiffsKept
<1>13. ASSUME TotalsDistinct', NEW x, x # id PROVE TrueDiff(x)' = TrueDiff(x)
  <2>1. CASE x = BaseId
    BY <2>1 DEF TrueDiff
  <2>2. CASE x # BaseId /\ x \in MicroBlockIds
    <3>1. PICK k \in 1 .. n : micros[k].total = x
      BY <2>2 DEF MicroBlockIds, n
    <3>2. k \in 1 .. Len(micros') /\ micros'[k].total = x
      BY <1>1, <1>5, <3>1
    <3>3. TrueDiff(x) = BaseTxs \o Flat(TxsOf(micros), k)
      BY <1>1, <1>10, <1>13, <3>1, TrueDiffIs DEF n
    <3>4. TrueDiff(x)' = BaseTxs \o Flat(TxsOf(micros'), k)
      <4>1. Oldest(x)' = k
        <5>1. \A i \in 1 .. Len(micros') : micros'[i].total = x => i = k
          BY <1>13, <3>2 DEF TotalsDistinct
        <5>2. \A j \in 1 .. k - 1 : micros'[j].total # x
          <6>1. \A j \in 1 .. k - 1 : j \in 1 .. Len(micros') /\ j # k
            BY <1>1, <1>5, <3>1
          <6> QED BY <5>1, <6>1
        <5> QED BY <3>2, <5>1, <5>2, Zenon DEF Oldest
      <4>2. TxsUpTo(k)' = Flat(TxsOf(micros'), k)
        <5> DEFINE g == CHOOSE f : f = [i \in 0 .. Len(micros') |->
                                          IF i = 0 THEN <<>> ELSE f[i - 1] \o micros'[i].txs]
        <5>1. TxsUpTo(k)' = g[k]
          BY DEF TxsUpTo
        <5>2. Len(micros') \in Nat /\ k \in 0 .. Len(micros')
          BY <1>1, <1>5, <3>2
        <5>3. \A j \in 0 .. Len(micros') : g[j] = Flat(TxsOf(micros'), j)
          BY <5>2, RecursionIsFlat
        <5> QED BY <5>1, <5>2, <5>3
      <4> QED BY <1>9, <2>2, <4>1, <4>2 DEF TrueDiff
    <3>5. Flat(TxsOf(micros'), k) = Flat(TxsOf(micros), k)
      <4>1. \A i \in 1 .. k : TxsOf(micros')[i] = TxsOf(micros)[i]
        <5>1. \A i \in 1 .. k : i \in 1 .. n /\ i \in 1 .. n + 1
          BY <1>1, <3>1
        <5> QED BY <1>5, <5>1 DEF TxsOf, n
      <4>2. k \in Nat
        BY <3>1
      <4> QED BY <4>1, <4>2, FlatSame
    <3> QED BY <3>3, <3>4, <3>5
  <2>3. CASE x # BaseId /\ x \notin MicroBlockIds
    BY <1>9, <1>13, <2>3 DEF TrueDiff
  <2> QED BY <2>1, <2>2, <2>3
<1>14. /\ DOMAIN diffCache' \subseteq Ids
       /\ \A x \in DOMAIN diffCache' : /\ x # id /\ x \in DOMAIN Loaded(BestId)
                                       /\ diffCache'[x] = Loaded(BestId)[x]
  BY LoadedIds DEF AppendMicro, Invalidate, Without, Restrict
<1>15. CachesCoherent'
  <2>1. ASSUME TotalsDistinct', NEW x \in DOMAIN diffCache' PROVE diffCache'[x] = TrueDiff(x)'
    <3>1. x \in Ids /\ x # id /\ diffCache'[x] = Loaded(BestId)[x] /\ x \in DOMAIN Loaded(BestId)
      BY <1>14
    <3>2. Loaded(BestId)[x] = TrueDiff(x)
      BY <1>2, <1>10, <2>1, <3>1, AnswersAreTrue
    <3> QED BY <1>13, <2>1, <3>1, <3>2
  <2>2. DOMAIN forgedCache' = {} /\ bestCache' = {}
    BY DEF AppendMicro, Invalidate
  <2> QED BY <2>1, <2>2 DEF CachesCoherent
<1> QED BY <1>7, <1>8, <1>12, <1>14, <1>15 DEF NgInv, CachedIds

-----------------------------------------------------------------------------
(* The inductive invariant of the liquid block. *)
THEOREM NgInvariance == Spec => [](NgInv /\ CachedIds)
<1>1. Init => NgInv /\ CachedIds
  BY DEF Init, NgInv, Typed, Linked, DiffsKept, CachesCoherent, CachedIds
<1>2. NgInv /\ CachedIds /\ [Next]_vars => NgInv' /\ CachedIds'
  <2> SUFFICES ASSUME NgInv, CachedIds, [Next]_vars PROVE NgInv' /\ CachedIds'
    OBVIOUS
  <2>1. ASSUME NEW id \in Ids, NEW tx \in Txs, AppendMicro(id, <<tx>>)
        PROVE  NgInv' /\ CachedIds'
    <3>1. <<tx>> \in Seq(Txs)
      OBVIOUS
    <3> QED BY <2>1, <3>1, AppendKeeps
  <2>2. ASSUME NEW id \in Ids,
               ReadDiff(id) \/ ReadForged(id) \/ ReadBest \/ EvictDiff(id) \/ EvictForged(id)
        PROVE  NgInv' /\ CachedIds'
    BY <2>2, ReadersKeep
  <2>3. CASE UNCHANGED vars
    <3>1. CachesCoherent'
      BY <2>3, SameAnswers DEF vars, NgInv, CachesCoherent
    <3> QED BY <2>3, <3>1, SameMicros DEF vars, CachedIds
  <2>4. BaseId \in Ids
    BY NgAssumption
  <2> QED BY <2>1, <2>2, <2>3, <2>4 DEF Next
<1> QED BY <1>1, <1>2, PTL DEF Spec

(* Whatever total ids microblocks carry, an entry of forgedBlockCache or
   bestBlockCache is what would be computed now, in whatever order readers,
   appends and evictions come; and so is an entry of blockDiffCache as long as
   every total id was new. *)
THEOREM CachesStayCoherent == Spec => []CachesCoherent
<1>1. NgInv => CachesCoherent
  BY DEF NgInv
<1> QED BY <1>1, NgInvariance, PTL

(* Reverse undoes itself. *)
LEMMA ReverseTwice ==
  ASSUME NEW s, NEW n \in Nat, Len(s) = n
  PROVE  /\ Len(Reverse(Reverse(s))) = n
         /\ \A i \in 1 .. n : Reverse(Reverse(s))[i] = s[i]
<1>1. Len(Reverse(s)) = n /\ \A i \in 1 .. n : Reverse(s)[i] = s[(n - i) + 1]
  BY DEF Reverse
<1>2. PICK r : r = Reverse(s)
  OBVIOUS
<1>3. Len(Reverse(r)) = n /\ \A i \in 1 .. n : Reverse(r)[i] = r[(n - i) + 1]
  BY <1>1, <1>2 DEF Reverse
<1>4. \A i \in 1 .. n : (n - i) + 1 \in 1 .. n /\ (n - ((n - i) + 1)) + 1 = i
  OBVIOUS
<1> QED BY <1>1, <1>2, <1>3, <1>4

(* The block that totalDiffOf returns and the discarded microblocks, put in
   order, are the liquid block, whatever total ids microblocks carry; while
   these were new, the diff persisted with the block has its transactions. *)
THEOREM HardenedPair == Spec => []HardenedPairAgrees
<1>1. ASSUME NgInv, NEW id \in Ids, ForgeBlock(id).found
      PROVE  /\ ForgeBlock(id).txs \o TxsIn(DiscardedAsc(id)) = Transactions
             /\ TotalsDistinct => Answers[id] = {ForgeBlock(id).txs}
  <2> DEFINE n == Len(micros)
             p == TxsOf(micros)
  <2>1. /\ Typed /\ micros \in Seq(MicroType) /\ n \in Nat
        /\ BaseTxs \in Seq(Txs) /\ n \in 0 .. n
        /\ ForgeBlock(id) = Forge(id)
    BY <1>1, AnswersAreTrue, NgAssumption, LenProperties DEF NgInv, Typed
  <2>2. /\ \A k \in 0 .. n : TxsUpTo(k) = Flat(p, k) /\ Flat(p, k) \in Seq(Txs)
        /\ \A i \in 1 .. n : p[i] = micros[i].txs /\ p[i] \in Seq(Txs)
    BY <2>1, TxsUpToIsFlat, TxsOfSeq
  <2>3. Transactions = BaseTxs \o Flat(p, n)
    BY <2>1, <2>2 DEF Transactions
  <2>4. TotalsDistinct => Answers[id] = {TrueDiff(id)}
    BY <1>1, AnswersAre
  <2>5. CASE id = BaseId
    <3>1. Forge(id).txs = BaseTxs /\ Forge(id).discarded = micros /\ TrueDiff(id) = BaseTxs
      BY <2>5 DEF Forge, TrueDiff
    <3>2. TxsIn(micros) = Flat(p, n)
      BY <2>1, TxsInIsFlat
    <3> QED BY <2>1, <2>3, <2>4, <2>5, <3>1, <3>2 DEF DiscardedAsc
  <2>6. CASE id # BaseId
    <3> DEFINE k == Oldest(id)
               d == SubSeq(micros, k + 1, n)
               e == Reverse(Reverse(d))
    <3>1. id \in MicroBlockIds
      BY <1>1, <2>1, <2>6 DEF Forge
    <3>2. k \in 1 .. n /\ k \in 0 .. n
      BY <2>1, <3>1, OldestIs
    <3>3. /\ Forge(id).txs = BaseTxs \o TxsUpTo(k) /\ DiscardedAsc(id) = e
          /\ TrueDiff(id) = BaseTxs \o TxsUpTo(k)
      BY <2>1, <2>6, <3>1 DEF Forge, TrueDiff, DiscardedAsc
    <3>4. TxsUpTo(k) = Flat(p, k) /\ Flat(p, k) \in Seq(Txs)
      BY <2>2, <3>2
    <3> HIDE DEF k, n, p
    <3>5. Len(d) = n - k /\ \A i \in 1 .. n - k : d[i] = micros[k + i]
      <4>1. k + 1 \in Int /\ n \in Int /\ k \in Int
        BY <2>1, <3>2
      <4>2. \A i \in k + 1 .. n : micros[i] \in MicroType
        <5>1. \A i \in k + 1 .. n : i \in 1 .. n
          BY <2>1, <3>2
        <5> QED BY <2>1, <5>1, ElementOfSeq DEF n
      <4>3. /\ Len(d) = IF k + 1 <= n THEN n - (k + 1) + 1 ELSE 0
            /\ \A i \in 1 .. n - (k + 1) + 1 : d[i] = micros[(k + 1) + i - 1]
        BY <4>1, <4>2, SubSeqProperties
      <4>4. n - (k + 1) + 1 = n - k /\ \A i \in 1 .. n - k : (k + 1) + i - 1 = k + i
        BY <4>1
      <4>5. Len(d) = n - k
        BY <3>2, <4>1, <4>3
      <4> QED BY <4>3, <4>4, <4>5
    <3> HIDE DEF d
    <3>6. n - k \in Nat
      BY <2>1, <3>2
    <3>7. Len(e) = n - k /\ \A i \in 1 .. n - k : e[i] = micros[k + i]
      BY <3>5, <3>6, ReverseTwice
    <3> HIDE DEF e
    <3>8. TxsIn(e) = Flat(TxsOf(e), n - k)
      BY <3>6, <3>7, TxsInIsFlat
    <3>9. \A i \in 1 .. n - k : TxsOf(e)[i] = p[k + i]
      <4>1. \A i \in 1 .. n - k : k + i \in 1 .. n
        BY <2>1, <3>2
      <4> QED BY <2>2, <3>7, <4>1 DEF TxsOf
    <3>10. /\ Flat(p, n) = Flat(p, k) \o Flat(TxsOf(e), n - k)
           /\ Flat(TxsOf(e), n - k) \in Seq(Txs)
      BY <2>1, <2>2, <3>2, <3>9, FlatSplit
    <3>11. \A a, b, c \in Seq(Txs) : (a \o b) \o c = a \o (b \o c)
      BY ConcatAssociative
    <3>12. (BaseTxs \o Flat(p, k)) \o Flat(TxsOf(e), n - k)
             = BaseTxs \o (Flat(p, k) \o Flat(TxsOf(e), n - k))
      BY <2>1, <3>4, <3>10, <3>11, Zenon
    <3> QED BY <2>1, <2>3, <2>4, <3>3, <3>4, <3>8, <3>10, <3>12
  <2> QED BY <2>5, <2>6
<1>2. NgInv => HardenedPairAgrees
  BY <1>1 DEF HardenedPairAgrees
<1> QED BY <1>2, NgInvariance, PTL
=============================================================================

------------------------ MODULE LevelDBWriterProofs ------------------------
(***************************************************************************)
(* The database of blocks and rollbacks, for every rollback depth, every   *)
(* number of blocks and every assignment of the addresses.                 *)
(***************************************************************************)
EXTENDS LevelDBWriter, Induction, TLAPS

\* Histories are newest first.
Descending(s) == \A i, j \in 1 .. Len(s) : i < j => s[i] > s[j]

-----------------------------------------------------------------------------
\* What Keep returns, by induction over the list.
Kept(list, S) == [i \in 1 .. Len(list) |-> IF list[i] \in S THEN <<list[i]>> ELSE <<>>]

LEMMA KeepIsFlat ==
  ASSUME NEW list, Len(list) \in Nat, NEW S
  PROVE  Keep(list, S) = Flat(Kept(list, S), Len(list))
<1> DEFINE n == Len(list)
           p == Kept(list, S)
           Rec(f) == f = [i \in 0 .. n |-> IF i = 0 THEN <<>> ELSE f[i - 1] \o
                                            (IF list[i] \in S THEN <<list[i]>> ELSE <<>>)]
<1>1. ASSUME NEW f PROVE Rec(f) <=> Concatenates(f, p, n)
  <2>1. \A i \in 0 .. n : i # 0 => p[i] = IF list[i] \in S THEN <<list[i]>> ELSE <<>>
    BY DEF Kept
  <2> QED BY <2>1 DEF Concatenates
<1>2. \E f : Rec(f)
  BY <1>1, ConcatenationExists
<1>3. Keep(list, S) = (CHOOSE f : Rec(f))[n]
  BY DEF Keep
<1> DEFINE g == CHOOSE f : Rec(f)
<1>4. Rec(g)
  BY <1>2
<1>5. Concatenates(g, p, n)
  BY <1>1, <1>4
<1>6. n \in 0 .. n /\ n \in Nat
  OBVIOUS
<1> HIDE DEF g, p, n
<1>7. g[n] = Flat(p, n)
  BY <1>5, <1>6, FlatIs
<1> QED BY <1>3, <1>7 DEF g, p, n

\* Appending one member to a list, which stays descending if all are greater.
LEMMA DescendingAppend ==
  ASSUME NEW s \in Seq(Nat), NEW x \in Nat
  PROVE  /\ s \o <<x>> \in Seq(Nat)
         /\ Descending(s) /\ (\A y \in ToSet(s) : y > x) => Descending(s \o <<x>>)
         /\ ToSet(s \o <<x>>) = ToSet(s) \cup {x}
<1> DEFINE r == s \o <<x>>
<1>1. /\ r \in Seq(Nat) /\ Len(r) = Len(s) + 1 /\ Len(s) \in Nat
      /\ \A i \in 1 .. Len(s) : r[i] = s[i]
      /\ r[Len(s) + 1] = x
  OBVIOUS
<1>2. DOMAIN r = 1 .. Len(s) + 1 /\ DOMAIN s = 1 .. Len(s)
  BY <1>1
<1> HIDE DEF r
<1>3. ToSet(r) = ToSet(s) \cup {x}
  <2>1. \A i \in 1 .. Len(s) + 1 : i \in 1 .. Len(s) \/ i = Len(s) + 1
    BY <1>1
  <2>2. \A i \in 1 .. Len(s) : i \in 1 .. Len(s) + 1
    BY <1>1
  <2>3. Len(s) + 1 \in 1 .. Len(s) + 1
    BY <1>1
  <2> QED BY <1>1, <1>2, <2>1, <2>2, <2>3 DEF ToSet
<1>4. ASSUME Descending(s), \A y \in ToSet(s) : y > x,
             NEW i \in 1 .. Len(r), NEW j \in 1 .. Len(r), i < j
      PROVE  r[i] > r[j]
  <2>1. i \in 1 .. Len(s)
    BY <1>1, <1>4
  <2>2. r[i] = s[i] /\ s[i] \in ToSet(s) /\ s[i] \in Nat
    <3>1. s[i] \in ToSet(s)
      BY <1>2, <2>1, Zenon DEF ToSet
    <3>2. s[i] \in Nat
      BY <2>1
    <3> QED BY <1>1, <2>1, <3>1, <3>2
  <2>3. CASE j = Len(s) + 1
    BY <1>1, <1>4, <2>2, <2>3
  <2>4. CASE j # Len(s) + 1
    <3>1. j \in 1 .. Len(s) /\ r[j] = s[j]
      BY <1>1, <2>4
    <3> QED BY <1>4, <2>1, <2>2, <3>1 DEF Descending
  <2> QED BY <2>3, <2>4
<1> QED BY <1>1, <1>3, <1>4 DEF Descending, r

LEMMA KeepProperties ==
  ASSUME NEW list \in Seq(Nat), NEW S
  PROVE  /\ Keep(list, S) \in Seq(Nat)
         /\ Descending(list) => Descending(Keep(list, S))
         /\ ToSet(Keep(list, S)) = ToSet(list) \cap S
<1> DEFINE n == Len(list)
           p == Kept(list, S)
           First(k) == {list[j] : j \in 1 .. k}
           Good(k) == /\ Flat(p, k) \in Seq(Nat)
                      /\ Descending(list) => Descending(Flat(p, k))
                      /\ ToSet(Flat(p, k)) = First(k) \cap S
           G == {k \in Nat : k <= n => Good(k)}
<1>1. n \in Nat /\ DOMAIN list = 1 .. n /\ \A i \in 1 .. n : list[i] \in Nat
  OBVIOUS
<1>2. 0 \in G
  <2>1. Flat(p, 0) = <<>>
    BY FlatStep
  <2>2. First(0) = {}
    OBVIOUS
  <2>3. ToSet(<<>>) = {} /\ Descending(<<>>)
    BY DEF ToSet, Descending
  <2>4. <<>> \in Seq(Nat) /\ {} = {} \cap S
    BY EmptySeq
  <2> HIDE DEF p, First
  <2>5. Good(0)
    BY <2>1, <2>2, <2>3, <2>4, Zenon
  <2> HIDE DEF Good
  <2> QED BY <2>5
<1>3. ASSUME NEW k \in Nat, k \in G PROVE k + 1 \in G
  <2> SUFFICES ASSUME k + 1 <= n PROVE Good(k + 1)
    OBVIOUS
  <2>1. Good(k)
    <3>1. k <= n
      BY <1>1
    <3> HIDE DEF Good
    <3> QED BY <1>3, <3>1
  <2>2. k + 1 \in 1 .. n /\ list[k + 1] \in Nat
    BY <1>1
  <2>3. Flat(p, k + 1) = Flat(p, k) \o p[k + 1]
    BY FlatStep
  <2>4. First(k + 1) = First(k) \cup {list[k + 1]}
    OBVIOUS
  <2>5. CASE list[k + 1] \in S
    <3>1. p[k + 1] = <<list[k + 1]>>
      BY <2>2, <2>5 DEF Kept
    <3>2. Descending(list) => \A y \in First(k) : y > list[k + 1]
      BY <1>1, <2>2 DEF Descending
    <3>3. Descending(list) => \A y \in ToSet(Flat(p, k)) : y > list[k + 1]
      BY <2>1, <3>2
    <3> HIDE DEF p, First, G
    <3>4. Flat(p, k) \in Seq(Nat) /\ (Descending(list) => Descending(Flat(p, k)))
      BY <2>1
    <3>5. PICK s \in Seq(Nat) : s = Flat(p, k)
      BY <3>4
    <3>6. PICK x \in Nat : x = list[k + 1]
      BY <2>2
    <3>7. /\ Descending(list) => Descending(s) /\ \A y \in ToSet(s) : y > x
          /\ Flat(p, k + 1) = s \o <<x>>
      BY <2>3, <3>1, <3>3, <3>4, <3>5, <3>6
    <3>8. /\ s \o <<x>> \in Seq(Nat)
          /\ Descending(list) => Descending(s \o <<x>>)
          /\ ToSet(s \o <<x>>) = ToSet(s) \cup {x}
      BY <3>7, DescendingAppend
    <3>9. /\ Flat(p, k + 1) \in Seq(Nat)
          /\ Descending(list) => Descending(Flat(p, k + 1))
          /\ ToSet(Flat(p, k + 1)) = ToSet(Flat(p, k)) \cup {list[k + 1]}
      BY <3>5, <3>6, <3>7, <3>8
    <3> QED BY <2>1, <2>4, <2>5, <3>9
  <2>6. CASE list[k + 1] \notin S
    <3>1. p[k + 1] = <<>>
      BY <2>2, <2>6 DEF Kept
    <3> HIDE DEF p, First, G
    <3>2. Flat(p, k + 1) = Flat(p, k)
      BY <2>1, <2>3, <3>1
    <3> QED BY <2>1, <2>4, <2>6, <3>2
  <2> QED BY <2>5, <2>6
<1> HIDE DEF G, Good, p
<1>4. Nat \subseteq G
  BY <1>2, <1>3, Inductive
<1>5. Good(n)
  BY <1>1, <1>4 DEF G
<1>6. First(n) = ToSet(list)
  BY <1>1 DEF ToSet
<1> QED BY <1>1, <1>5, <1>6, KeepIsFlat DEF Good, p

-----------------------------------------------------------------------------
\* A rollback never passes the safe height, and the carry fee of every height
\* it can return to is there.
HeightInv == height \in Nat \ {0} /\ safe \in Nat /\ blocks \in Nat /\ safe < height
CarryInv == HeightInv /\ \A h \in Nat : safe <= h /\ 1 <= h /\ h <= height => h \in DOMAIN carry

LEMMA SafeStep ==
  ASSUME HeightInv, NEW t, NEW fee, DoAppend(t, fee)
  PROVE  /\ HeightInv' /\ height' = height + 1
         /\ Threshold \in Int /\ Threshold <= height /\ Threshold <= safe' /\ safe <= safe'
BY WriterAssumption DEF DoAppend, HeightInv, Threshold

\* Keys.carryFee of the current height is in the database after any blocks and
\* rollbacks: doAppend deletes it for heights no rollback can reach.
THEOREM CarryKept == Spec => []CarryFeeKept
<1>1. Init => CarryInv
  BY DEF Init, CarryInv, HeightInv
<1>2. ASSUME CarryInv, [Next]_vars PROVE CarryInv'
  <2>0. HeightInv /\ \A h \in Nat : safe <= h /\ 1 <= h /\ h <= height => h \in DOMAIN carry
    BY <1>2 DEF CarryInv
  <2>1. ASSUME NEW t \in TxTypes \cup {NoTx}, NEW fee \in Fees(t), DoAppend(t, fee) PROVE CarryInv'
    <3>1. /\ HeightInv' /\ height' = height + 1
          /\ Threshold \in Int /\ Threshold <= height /\ Threshold <= safe' /\ safe <= safe'
      BY <2>0, <2>1, SafeStep
    <3>2. DOMAIN carry' = (DOMAIN carry \cup {height + 1}) \ {Threshold - 1}
      BY <2>1 DEF DoAppend, Without, CarryExpired
    <3>3. ASSUME NEW h \in Nat, safe' <= h, 1 <= h, h <= height' PROVE h \in DOMAIN carry'
      BY <2>0, <3>1, <3>2, <3>3 DEF HeightInv
    <3> QED BY <3>1, <3>3 DEF CarryInv
  <2>2. CASE DoRollback
    <3>1. HeightInv' /\ height' = height - 1 /\ safe' = safe
      BY <2>0, <2>2 DEF DoRollback, HeightInv
    <3>2. DOMAIN carry' = DOMAIN carry \ {height}
      BY <2>2 DEF DoRollback, Without
    <3> QED BY <2>0, <3>1, <3>2 DEF CarryInv, HeightInv
  <2>3. CASE FillCaches
    BY <2>0, <2>3 DEF FillCaches, CarryInv, HeightInv
  <2>4. CASE UNCHANGED vars
    BY <2>0, <2>4 DEF vars, CarryInv, HeightInv
  <2> QED BY <1>2, <2>1, <2>2, <2>3, <2>4 DEF Next
<1>3. CarryInv => CarryFeeKept
  BY DEF CarryInv, HeightInv, CarryFeeKept
<1> QED BY <1>1, <1>2, <1>3, PTL DEF Spec

-----------------------------------------------------------------------------
\* The caches.  A block replaces what it writes, a rollback discards what it
\* takes back, and nothing else changes an entry.
CacheInv ==
  /\ HeightInv
  /\ hist \in [Keys -> Seq(Nat)]
  /\ DOMAIN data = Keys
  /\ DOMAIN cache \subseteq CachedKeys
  /\ CachesCurrent

LEMMA WritesAreKeys == \A t, fee : BlockWrites(t, fee) \subseteq Keys
<1> SUFFICES ASSUME NEW t, NEW fee PROVE BlockWrites(t, fee) \subseteq Keys OBVIOUS
<1>1. \A f \in PerAddress : \A as \in SUBSET Addresses : Of(f, as) \subseteq Keys
  <2>1. \A f \in PerAddress : \A a \in Addresses : <<f, a>> \in Keys
    BY DEF Keys
  <2> QED BY <2>1 DEF Of
<1>2. \A f \in Single : K(f) \in Keys
  BY DEF K, Keys
<1>3. /\ "waves" \in PerAddress /\ "asset" \in PerAddress /\ "lease" \in PerAddress
      /\ "data" \in PerAddress /\ "script" \in PerAddress
      /\ "leaseStatus" \in Single /\ "assetInfo" \in Single /\ "assetScript" \in Single
      /\ "sponsorship" \in Single /\ "fill" \in Single /\ "alias" \in Single
  BY DEF PerAddress, Single
<1>4. /\ {Sender} \in SUBSET Addresses /\ {Recipient} \in SUBSET Addresses
      /\ {Miner} \in SUBSET Addresses /\ {Sender, Recipient} \in SUBSET Addresses
  BY DEF Addresses
<1>5. TxWrites(t) \subseteq Keys
  <2>1. /\ Of("waves", {Recipient}) \subseteq Keys
        /\ Of("asset", {Sender, Recipient}) \subseteq Keys /\ Of("asset", {Sender}) \subseteq Keys
        /\ Of("lease", {Sender, Recipient}) \subseteq Keys /\ Of("script", {Sender}) \subseteq Keys
        /\ Of("data", {Sender}) \subseteq Keys /\ Of("data", {Recipient}) \subseteq Keys
    BY <1>1, <1>3, <1>4
  <2>2. /\ {K("leaseStatus")} \subseteq Keys /\ {K("assetInfo")} \subseteq Keys
        /\ {K("assetScript")} \subseteq Keys /\ {K("sponsorship")} \subseteq Keys
        /\ {K("fill")} \subseteq Keys /\ {K("alias")} \subseteq Keys
    BY <1>2, <1>3
  <2> QED BY <2>1, <2>2 DEF TxWrites
<1>6. FeeWrites(t, fee) \subseteq Keys
  <2>1. /\ {Sender, Miner} \in SUBSET Addresses
    BY DEF Addresses
  <2> QED BY <1>1, <1>3, <1>4, <2>1 DEF FeeWrites
<1>7. ExpiryWrites(t) \subseteq Keys
  BY <1>1, <1>2, <1>3, <1>4 DEF ExpiryWrites
<1> QED BY <1>5, <1>6, <1>7 DEF BlockWrites

\* The entry a block writes reads as the new value: its height heads the history
\* and is never among the expired keys.
LEMMA WrittenIsRead ==
  ASSUME HeightInv, NEW list \in Seq(Nat)
  PROVE  /\ UpdateHistory(list) \in Seq(Nat) /\ UpdateHistory(list) # <<>>
         /\ Head(UpdateHistory(list)) = height + 1
         /\ height + 1 \notin ExpiredKeys(list)
<1>1. PICK new \in Seq(Nat) : new = New(list)
  BY KeepProperties DEF New
<1>2. PICK old \in Seq(Nat) : old = Old(list)
  BY KeepProperties DEF Old
<1>3. ToSet(old) \subseteq {h \in Nat : h <= Threshold}
  BY <1>2, KeepProperties DEF Old
<1>4. height + 1 > Threshold /\ height + 1 \in Nat
  BY WriterAssumption DEF Threshold, HeightInv
<1>5. (IF old = <<>> THEN <<>> ELSE <<Head(old)>>) \in Seq(Nat)
  OBVIOUS
<1>6. PICK rest \in Seq(Nat) : rest = new \o (IF old = <<>> THEN <<>> ELSE <<Head(old)>>)
  BY <1>5, ConcatProperties
<1>7. UpdateHistory(list) = <<height + 1>> \o rest
  BY <1>1, <1>2, <1>6 DEF UpdateHistory
<1>8. /\ <<height + 1>> \o rest \in Seq(Nat) /\ <<height + 1>> \o rest # <<>>
      /\ Head(<<height + 1>> \o rest) = height + 1
  BY <1>4
<1>9. old # <<>> => ToSet(Tail(old)) \subseteq ToSet(old)
  <2>1. old # <<>> => /\ Tail(old) \in Seq(Nat) /\ Len(Tail(old)) = Len(old) - 1
                      /\ \A i \in 1 .. Len(old) - 1 : Tail(old)[i] = old[i + 1]
    OBVIOUS
  <2>2. old # <<>> => \A i \in DOMAIN Tail(old) : i + 1 \in DOMAIN old /\ Tail(old)[i] = old[i + 1]
    BY <2>1
  <2> QED BY <2>2 DEF ToSet
<1>10. height + 1 \notin ExpiredKeys(list)
  <2>1. ExpiredKeys(list) \subseteq {h \in Nat : h <= Threshold}
    BY <1>2, <1>3, <1>9 DEF ExpiredKeys
  <2>2. Threshold \in Int
    BY WriterAssumption DEF Threshold, HeightInv
  <2> QED BY <1>4, <2>1, <2>2
<1> QED BY <1>7, <1>8, <1>10

LEMMA ReadWritten ==
  ASSUME HeightInv, hist \in [Keys -> Seq(Nat)], DOMAIN data = Keys, NEW t, NEW fee, DoAppend(t, fee)
  PROVE  /\ hist' \in [Keys -> Seq(Nat)] /\ DOMAIN data' = Keys
         /\ \A k \in Keys : ReadKey(k)' = IF k \in BlockWrites(t, fee) THEN NewValue(k, t) ELSE ReadKey(k)
<1> DEFINE writes == BlockWrites(t, fee)
<1>1. /\ hist' = [k \in Keys |-> IF k \in writes THEN UpdateHistory(hist[k]) ELSE hist[k]]
      /\ data' = [k \in Keys |->
             IF k \in writes
             THEN Without([h \in DOMAIN data[k] \cup {height + 1} |->
                             IF h = height + 1 THEN NewValue(k, t) ELSE data[k][h]],
                          ExpiredKeys(hist[k]))
             ELSE data[k]]
  BY DEF DoAppend
<1> HIDE DEF writes
<1>2. ASSUME NEW k \in Keys
      PROVE  /\ hist[k] \in Seq(Nat) /\ UpdateHistory(hist[k]) \in Seq(Nat)
             /\ UpdateHistory(hist[k]) # <<>> /\ Head(UpdateHistory(hist[k])) = height + 1
             /\ height + 1 \notin ExpiredKeys(hist[k])
  <2>1. hist[k] \in Seq(Nat)
    OBVIOUS
  <2> QED BY <2>1, WrittenIsRead
<1>3. hist' \in [Keys -> Seq(Nat)] /\ DOMAIN data' = Keys
  BY <1>1, <1>2
<1>4. ASSUME NEW k \in Keys, k \in writes PROVE ReadKey(k)' = NewValue(k, t)
  <2> DEFINE d == [h \in DOMAIN data[k] \cup {height + 1} |->
                     IF h = height + 1 THEN NewValue(k, t) ELSE data[k][h]]
  <2>1. hist'[k] = UpdateHistory(hist[k]) /\ data'[k] = Without(d, ExpiredKeys(hist[k]))
    BY <1>1, <1>4
  <2>2. height + 1 \in DOMAIN d \ ExpiredKeys(hist[k]) /\ d[height + 1] = NewValue(k, t)
    BY <1>2
  <2> HIDE DEF d
  <2>3. height + 1 \in DOMAIN data'[k] /\ data'[k][height + 1] = NewValue(k, t)
    BY <2>1, <2>2 DEF Without
  <2>4. hist'[k] # <<>> /\ Head(hist'[k]) = height + 1
    BY <1>2, <2>1
  <2> QED BY <2>3, <2>4 DEF ReadKey
<1>5. ASSUME NEW k \in Keys, k \notin writes PROVE ReadKey(k)' = ReadKey(k)
  BY <1>1, <1>5 DEF ReadKey
<1> QED BY <1>3, <1>4, <1>5 DEF writes

LEMMA CachedEntries ==
  /\ Description \notin Keys
  /\ \A k \in CachedKeys : k # Description => k \in Keys
  /\ K("assetInfo") \in Keys /\ K("sponsorship") \in Keys
<1>1. Description \notin Keys
  BY DEF Description, K, Keys, PerAddress, Single
<1>2. \A k \in CachedKeys : k # Description => k \in Keys
  BY DEF CachedKeys
<1>3. K("assetInfo") \in Keys /\ K("sponsorship") \in Keys
  BY DEF K, Keys, Single
<1> QED BY <1>1, <1>2, <1>3

\* A description is the same as long as the asset's Issue transaction stays where
\* it is and nothing writes or takes back its two entries.
LEMMA SameDescription ==
  ASSUME Issued' <=> Issued, ReadKey(K("assetInfo"))' = ReadKey(K("assetInfo")),
         ReadKey(K("sponsorship"))' = ReadKey(K("sponsorship")),
         NEW part \in {"issued", "info", "sponsorship"}
  PROVE  Load(Description)'[part] = Load(Description)[part]
<1>1. CASE part = "issued"
  BY <1>1 DEF Load
<1>2. CASE part = "info"
  BY <1>2 DEF Load
<1>3. CASE part = "sponsorship"
  BY <1>3 DEF Load
<1> QED BY <1>1, <1>2, <1>3

LEMMA IssuedAppend ==
  ASSUME HeightInv, NEW t, NEW fee, DoAppend(t, fee), t # "Issue"
  PROVE  Issued' <=> Issued
<1>1. PICK n \in Nat : n = height
  BY DEF HeightInv
<1>2. height' = n + 1 /\ txAt' = [h \in 1 .. n + 1 |-> IF h = n + 1 THEN t ELSE txAt[h]]
  BY <1>1 DEF DoAppend
<1>3. \A h \in 1 .. n + 1 : h = n + 1 \/ h \in 1 .. n
  OBVIOUS
<1>4. \A h \in 1 .. n : h \in 1 .. n + 1 /\ h # n + 1
  OBVIOUS
<1> QED BY <1>1, <1>2, <1>3, <1>4 DEF Issued, OnChain

LEMMA IssuedRollback ==
  ASSUME HeightInv, DoRollback, txAt[height] # "Issue"
  PROVE  Issued' <=> Issued
<1>1. PICK n \in Nat : n + 1 = height
  <2>1. height - 1 \in Nat /\ height - 1 + 1 = height
    BY DEF HeightInv
  <2> QED BY <2>1
<1>2. height' = n /\ txAt' = [h \in 1 .. n |-> txAt[h]]
  BY <1>1 DEF DoRollback
<1>3. \A h \in 1 .. n + 1 : h = n + 1 \/ h \in 1 .. n
  OBVIOUS
<1>4. \A h \in 1 .. n : h \in 1 .. n + 1
  OBVIOUS
<1> QED BY <1>1, <1>2, <1>3, <1>4 DEF Issued, OnChain

\* The loading caches of Caches.scala never answer differently from the
\* database, whatever is appended, rolled back and read in between, but for the
\* script in an asset's description.
THEOREM CachesStayCurrent == Spec => []CachesCurrent
<1> DEFINE parts == {"issued", "info", "sponsorship"}
<1>1. Init => CacheInv
  <2> SUFFICES ASSUME Init PROVE CacheInv OBVIOUS
  <2>1. HeightInv /\ DOMAIN data = Keys
    BY DEF Init, HeightInv
  <2>2. hist \in [Keys -> Seq(Nat)]
    BY EmptySeq DEF Init
  <2>3. DOMAIN cache = {}
    BY DEF Init
  <2> QED BY <2>1, <2>2, <2>3 DEF CacheInv, CachesCurrent
<1>2. ASSUME CacheInv, [Next]_vars PROVE CacheInv'
  <2>0. /\ HeightInv /\ hist \in [Keys -> Seq(Nat)] /\ DOMAIN data = Keys
        /\ DOMAIN cache \subseteq CachedKeys
        /\ \A k \in DOMAIN cache : k # Description => cache[k] = ReadKey(k)
        /\ Description \in DOMAIN cache =>
             \A part \in parts : cache[Description][part] = Load(Description)[part]
    BY <1>2 DEF CacheInv, CachesCurrent, Load
  <2>q. ASSUME HeightInv', hist' \in [Keys -> Seq(Nat)], DOMAIN data' = Keys,
               DOMAIN cache' \subseteq CachedKeys,
               \A k \in DOMAIN cache' : k # Description => cache'[k] = ReadKey(k)',
               Description \in DOMAIN cache' =>
                 \A part \in parts : cache'[Description][part] = Load(Description)'[part]
        PROVE  CacheInv'
    <3>1. \A k : k # Description => Load(k)' = ReadKey(k)'
      BY DEF Load
    <3>2. CachesCurrent'
      BY <2>q, <3>1 DEF CachesCurrent
    <3> QED BY <2>q, <3>2 DEF CacheInv
  <2> HIDE DEF parts
  <2>p. ASSUME Issued' <=> Issued, ReadKey(K("assetInfo"))' = ReadKey(K("assetInfo")),
               ReadKey(K("sponsorship"))' = ReadKey(K("sponsorship"))
        PROVE  \A part \in parts : Load(Description)'[part] = Load(Description)[part]
    BY <2>p, SameDescription DEF parts
  <2>1. ASSUME NEW t \in TxTypes \cup {NoTx}, NEW fee \in Fees(t), DoAppend(t, fee) PROVE CacheInv'
    <3>1. HeightInv'
      BY <2>0, <2>1, SafeStep
    <3> DEFINE writes == BlockWrites(t, fee)
    <3>2. /\ hist' \in [Keys -> Seq(Nat)] /\ DOMAIN data' = Keys
          /\ \A k \in Keys : ReadKey(k)' = IF k \in writes THEN NewValue(k, t) ELSE ReadKey(k)
      BY <2>0, <2>1, ReadWritten
    <3>3. writes \subseteq Keys
      BY WritesAreKeys
    <3>4. cache' = [k \in (DOMAIN cache \cup (writes \cap CachedKeys)) \
                            (IF {K("assetInfo"), K("sponsorship")} \cap writes # {} THEN {Description} ELSE {}) |->
                      IF k \in writes THEN NewValue(k, t) ELSE cache[k]]
      BY <2>1 DEF DoAppend, AppendedCache
    <3>5. t = "Issue" => K("assetInfo") \in writes
      BY DEF BlockWrites, TxWrites
    <3> HIDE DEF writes
    <3>6. DOMAIN cache' \subseteq CachedKeys
      BY <2>0, <3>4
    <3>7. \A k \in DOMAIN cache' : k # Description => cache'[k] = ReadKey(k)'
      BY <2>0, <3>2, <3>3, <3>4, CachedEntries
    <3>8. ASSUME Description \in DOMAIN cache'
          PROVE  \A part \in parts : cache'[Description][part] = Load(Description)'[part]
      <4>1. /\ Description \in DOMAIN cache /\ cache'[Description] = cache[Description]
            /\ K("assetInfo") \notin writes /\ K("sponsorship") \notin writes
        BY <3>3, <3>4, <3>8, CachedEntries
      <4>2. /\ ReadKey(K("assetInfo"))' = ReadKey(K("assetInfo"))
            /\ ReadKey(K("sponsorship"))' = ReadKey(K("sponsorship"))
        BY <3>2, <4>1, CachedEntries
      <4>3. Issued' <=> Issued
        BY <2>0, <2>1, <3>5, <4>1, IssuedAppend
      <4> QED BY <2>0, <2>p, <4>1, <4>2, <4>3
    <3> QED BY <2>q, <3>1, <3>2, <3>6, <3>7, <3>8
  <2>2. CASE DoRollback
    <3>1. HeightInv'
      BY <2>0, <2>2 DEF DoRollback, HeightInv
    <3> DEFINE dropped == Undone \cup (IF txAt[height] \in {"Issue", "Reissue", "Burn", "SponsorFee"}
                                       THEN {Description} ELSE {})
    <3>2. /\ hist' = [k \in Keys |-> IF k \in Undone THEN Keep(hist[k], Nat \ {height}) ELSE hist[k]]
          /\ data' = [k \in Keys |-> IF k \in Undone THEN Without(data[k], {height}) ELSE data[k]]
          /\ cache' = [k \in DOMAIN cache \ dropped |-> cache[k]]
      BY <2>2 DEF DoRollback, Discard, Without
    <3>3. \A k \in Keys : hist[k] \in Seq(Nat) /\ Keep(hist[k], Nat \ {height}) \in Seq(Nat)
      BY <2>0, KeepProperties
    <3>4. hist' \in [Keys -> Seq(Nat)] /\ DOMAIN data' = Keys
      BY <3>2, <3>3
    <3>5. \A k \in Keys \ Undone : ReadKey(k)' = ReadKey(k)
      BY <3>2 DEF ReadKey
    <3>6. DOMAIN cache' \subseteq CachedKeys
      BY <2>0, <3>2
    <3>7. \A k \in DOMAIN cache' : k # Description => cache'[k] = ReadKey(k)'
      BY <2>0, <3>2, <3>5, CachedEntries
    <3>8. ASSUME Description \in DOMAIN cache'
          PROVE  \A part \in parts : cache'[Description][part] = Load(Description)'[part]
      <4>1. /\ Description \in DOMAIN cache /\ cache'[Description] = cache[Description]
            /\ txAt[height] \notin {"Issue", "Reissue", "Burn", "SponsorFee"}
        BY <3>2, <3>8
      <4>2. K("assetInfo") \notin Undone /\ K("sponsorship") \notin Undone
        <5>1. \A f \in {"assetInfo", "sponsorship"} : K(f) \notin UndoneForTx(txAt[height])
          BY <4>1 DEF UndoneForTx, K, Of
        <5>2. \A f \in {"assetInfo", "sponsorship"} : \A a : K(f) \notin UndoneForAddress(a)
          BY DEF UndoneForAddress, K, Of
        <5> QED BY <5>1, <5>2 DEF Undone
      <4>3. /\ ReadKey(K("assetInfo"))' = ReadKey(K("assetInfo"))
            /\ ReadKey(K("sponsorship"))' = ReadKey(K("sponsorship"))
        BY <3>5, <4>2, CachedEntries
      <4>4. Issued' <=> Issued
        BY <2>0, <2>2, <4>1, IssuedRollback
      <4> QED BY <2>0, <2>p, <4>1, <4>3, <4>4
    <3> QED BY <2>q, <3>1, <3>4, <3>6, <3>7, <3>8
  <2>3. CASE FillCaches
    <3>1. /\ HeightInv' /\ hist' = hist /\ data' = data /\ txAt' = txAt /\ height' = height
          /\ cache' = [k \in CachedKeys |-> IF k \in DOMAIN cache THEN cache[k] ELSE Load(k)]
      BY <2>0, <2>3 DEF FillCaches, HeightInv
    <3>2. (\A k : ReadKey(k)' = ReadKey(k)) /\ (Issued' <=> Issued)
      BY <3>1 DEF ReadKey, Issued, OnChain
    <3>3. \A part \in parts : Load(Description)'[part] = Load(Description)[part]
      BY <2>p, <3>2
    <3>4. \A k \in CachedKeys : k # Description => cache'[k] = ReadKey(k)'
      <4>1. \A k : k # Description => Load(k) = ReadKey(k)
        BY DEF Load
      <4> QED BY <2>0, <3>1, <3>2, <4>1
    <3>5. ASSUME Description \in DOMAIN cache'
          PROVE  \A part \in parts : cache'[Description][part] = Load(Description)'[part]
      BY <2>0, <3>1, <3>3, <3>5
    <3> QED BY <2>0, <2>q, <3>1, <3>4, <3>5
  <2>4. CASE UNCHANGED vars
    <3>1. /\ HeightInv' /\ hist' = hist /\ data' = data /\ txAt' = txAt /\ height' = height
          /\ cache' = cache
      BY <2>0, <2>4 DEF vars, HeightInv
    <3>2. (\A k : ReadKey(k)' = ReadKey(k)) /\ (Issued' <=> Issued)
      BY <3>1 DEF ReadKey, Issued, OnChain
    <3>3. \A part \in parts : Load(Description)'[part] = Load(Description)[part]
      BY <2>p, <3>2
    <3> QED BY <2>0, <2>q, <3>1, <3>2, <3>3
  <2> QED BY <1>2, <2>1, <2>2, <2>3, <2>4 DEF Next
<1> QED BY <1>1, <1>2, PTL DEF Spec, CacheInv

-----------------------------------------------------------------------------
\* The heights up to n that are in S, in order: one more height at a time.
Heights(n) == [h \in 1 .. n |-> h]

LEMMA IndexExtended ==
  ASSUME NEW n \in Nat, NEW S, NEW T, \A h \in 1 .. n : h \in S <=> h \in T
  PROVE  /\ Keep(Heights(n), T) \in Seq(Nat)
         /\ ToSet(Keep(Heights(n), T)) \subseteq 1 .. n
         /\ Keep(Heights(n + 1), S) = Keep(Heights(n), T)
                                        \o (IF n + 1 \in S THEN <<n + 1>> ELSE <<>>)
<1>1. \A m \in Nat : Heights(m) \in Seq(Nat) /\ Len(Heights(m)) = m /\ \A h \in 1 .. m : Heights(m)[h] = h
  <2>1. ASSUME NEW m \in Nat PROVE Heights(m) \in Seq(Nat)
    <3>1. \A h \in 1 .. m : h \in Nat
      OBVIOUS
    <3> QED BY <3>1, IsASeq DEF Heights
  <2>2. ASSUME NEW m \in Nat PROVE Len(Heights(m)) = m
    <3>1. DOMAIN Heights(m) = 1 .. m
      BY DEF Heights
    <3> QED BY <2>1, <3>1, LenProperties
  <2> QED BY <2>1, <2>2 DEF Heights
<1>2. ToSet(Heights(n)) \subseteq 1 .. n
  BY DEF ToSet, Heights
<1>3. Keep(Heights(n), T) \in Seq(Nat) /\ ToSet(Keep(Heights(n), T)) \subseteq 1 .. n
  <2>1. Heights(n) \in Seq(Nat)
    BY <1>1
  <2> QED BY <1>2, <2>1, KeepProperties
<1> DEFINE p == Kept(Heights(n + 1), S)
           q == Kept(Heights(n), T)
<1>4. /\ \A i \in 1 .. n : p[i] = IF i \in S THEN <<i>> ELSE <<>>
      /\ p[n + 1] = IF n + 1 \in S THEN <<n + 1>> ELSE <<>>
      /\ \A i \in 1 .. n : q[i] = IF i \in T THEN <<i>> ELSE <<>>
  <2>1. \A i \in 1 .. n + 1 : p[i] = IF i \in S THEN <<i>> ELSE <<>>
    <3>1. PICK m \in Nat : m = n + 1
      OBVIOUS
    <3>2. Len(Heights(m)) = m /\ \A h \in 1 .. m : Heights(m)[h] = h
      BY <1>1
    <3>3. p = Kept(Heights(m), S)
      BY <3>1
    <3> HIDE DEF p
    <3> QED BY <3>1, <3>2, <3>3 DEF Kept
  <2>2. \A i \in 1 .. n : q[i] = IF i \in T THEN <<i>> ELSE <<>>
    BY <1>1 DEF Kept
  <2>3. n + 1 \in 1 .. n + 1 /\ \A i \in 1 .. n : i \in 1 .. n + 1
    OBVIOUS
  <2> HIDE DEF p, q
  <2> QED BY <2>1, <2>2, <2>3
<1> HIDE DEF p, q
<1>5. \A i \in 1 .. n : p[i] = q[i]
  BY <1>4
<1>6. Flat(p, n) = Flat(q, n)
  BY <1>5, FlatSame
<1>7. Flat(p, n + 1) = Flat(p, n) \o p[n + 1]
  BY FlatStep
<1>8. Keep(Heights(n), T) = Flat(q, n) /\ Keep(Heights(n + 1), S) = Flat(p, n + 1)
  <2>1. Len(Heights(n)) = n /\ Len(Heights(n + 1)) = n + 1 /\ n + 1 \in Nat
    BY <1>1
  <2> QED BY <2>1, KeepIsFlat DEF p, q
<1> QED BY <1>3, <1>4, <1>6, <1>7, <1>8

IndexInv ==
  /\ HeightInv
  /\ \A h \in 1 .. height : h \in DOMAIN changed /\ TxAddresses(txAt[h]) \subseteq changed[h]
  /\ AddressIndexExact

\* The heights whose transaction is one of a.
Involving(a, n, txs) == {h \in 1 .. n : a \in TxAddresses(txs[h])}

LEMMA IndexOfAddress ==
  AddressIndexExact <=>
    \A a \in Addresses : addressTxs[a] = Keep(Heights(height), Involving(a, height, txAt))
BY DEF AddressIndexExact, Heights, Involving

LEMMA IndexOfAddressNext ==
  (\A a \in Addresses : addressTxs[a] = Keep(Heights(height), Involving(a, height, txAt)))'
    => AddressIndexExact'
BY IndexOfAddress, PTL

\* A block extends the index of its addresses by its height.
LEMMA IndexAppend ==
  ASSUME IndexInv, NEW t, NEW fee, DoAppend(t, fee)
  PROVE  IndexInv'
<1>1. HeightInv' /\ height' = height + 1 /\ height \in Nat
  <2>1. HeightInv
    BY DEF IndexInv
  <2> QED BY <2>1, SafeStep DEF HeightInv
<1>2. PICK n \in Nat : n = height
  BY <1>1
<1>3. /\ txAt' = [h \in 1 .. n + 1 |-> IF h = n + 1 THEN t ELSE txAt[h]]
      /\ changed' = [h \in DOMAIN changed \cup {n + 1} |->
                       IF h = n + 1 THEN ChangedAddresses(t, BlockWrites(t, fee)) ELSE changed[h]]
      /\ addressTxs' = [a \in Addresses |-> IF a \in TxAddresses(t)
                                            THEN Append(addressTxs[a], n + 1) ELSE addressTxs[a]]
  BY <1>2 DEF DoAppend
<1>4. n + 1 \notin 1 .. n /\ \A h \in 1 .. n + 1 : h = n + 1 \/ h \in 1 .. n
  OBVIOUS
<1>5. \A h \in 1 .. n : h \in DOMAIN changed /\ TxAddresses(txAt[h]) \subseteq changed[h]
  BY <1>2 DEF IndexInv
<1>6. TxAddresses(t) \subseteq ChangedAddresses(t, BlockWrites(t, fee))
  BY DEF ChangedAddresses
<1>7. /\ txAt'[n + 1] = t /\ \A h \in 1 .. n : txAt'[h] = txAt[h]
      /\ n + 1 \in DOMAIN changed' /\ changed'[n + 1] = ChangedAddresses(t, BlockWrites(t, fee))
      /\ \A h \in 1 .. n : h \in DOMAIN changed' /\ changed'[h] = changed[h]
  <2>1. n + 1 \in 1 .. n + 1 /\ \A h \in 1 .. n : h \in 1 .. n + 1 /\ h # n + 1
    OBVIOUS
  <2> QED BY <1>3, <1>5, <2>1
<1>8. \A h \in 1 .. n + 1 : h \in DOMAIN changed' /\ TxAddresses(txAt'[h]) \subseteq changed'[h]
  BY <1>4, <1>5, <1>6, <1>7
<1>9. ASSUME NEW a \in Addresses
      PROVE  addressTxs'[a] = Keep(Heights(n + 1), Involving(a, n + 1, txAt'))
  <2> DEFINE S == Involving(a, n + 1, txAt')
             T == Involving(a, n, txAt)
  <2>1. addressTxs[a] = Keep(Heights(n), T)
    BY <1>2, IndexOfAddress DEF IndexInv
  <2>2. (\A h \in 1 .. n : h \in S <=> h \in T) /\ (n + 1 \in S <=> a \in TxAddresses(t))
    <3>1. n + 1 \in 1 .. n + 1 /\ \A h \in 1 .. n : h \in 1 .. n + 1
      OBVIOUS
    <3> QED BY <1>7, <3>1 DEF Involving
  <2> HIDE DEF S, T
  <2>3. /\ Keep(Heights(n), T) \in Seq(Nat)
        /\ Keep(Heights(n + 1), S) = Keep(Heights(n), T) \o (IF n + 1 \in S THEN <<n + 1>> ELSE <<>>)
    BY <2>2, IndexExtended
  <2>4. PICK s \in Seq(Nat) : s = addressTxs[a]
    BY <2>1, <2>3
  <2>5. addressTxs'[a] = IF a \in TxAddresses(t) THEN Append(s, n + 1) ELSE s
    BY <1>3, <2>4
  <2>6. Append(s, n + 1) = s \o <<n + 1>> /\ s = s \o <<>>
    BY AppendIsConcat, ConcatEmptySeq
  <2>7. Keep(Heights(n + 1), S) = s \o (IF a \in TxAddresses(t) THEN <<n + 1>> ELSE <<>>)
    BY <2>1, <2>2, <2>3, <2>4
  <2> QED BY <2>5, <2>6, <2>7 DEF S
<1>10. IndexInv'
  <2>1. height' = n + 1
    BY <1>1, <1>2
  <2>2. \A a \in Addresses : addressTxs'[a] = Keep(Heights(height'), Involving(a, height', txAt'))
    BY <1>9, <2>1
  <2>3. AddressIndexExact'
    BY <2>2, IndexOfAddressNext
  <2>4. \A h \in 1 .. height' : h \in DOMAIN changed' /\ TxAddresses(txAt'[h]) \subseteq changed'[h]
    BY <1>8, <2>1
  <2> QED BY <1>1, <2>3, <2>4 DEF IndexInv
<1> QED BY <1>10

\* A rollback shortens it again, for the addresses whose last height it is.
LEMMA IndexRollback ==
  ASSUME IndexInv, DoRollback
  PROVE  IndexInv'
<1>1. HeightInv' /\ height' = height - 1 /\ height - 1 \in Nat
  BY DEF IndexInv, HeightInv, DoRollback
<1>2. PICK n \in Nat : n = height - 1
  BY <1>1
<1>3. height = n + 1 /\ height' = n
  BY <1>1, <1>2 DEF IndexInv, HeightInv
<1>4. txAt' = [h \in 1 .. n |-> txAt[h]] /\ changed' = changed
  BY <1>2 DEF DoRollback
<1>5. addressTxs' = [a \in Addresses |-> DropAddressTxs(a)]
  BY DEF DoRollback
<1>6. \A h \in 1 .. n + 1 : h \in DOMAIN changed /\ TxAddresses(txAt[h]) \subseteq changed[h]
  BY <1>3 DEF IndexInv
<1>7. ASSUME NEW a \in Addresses
      PROVE  addressTxs'[a] = Keep(Heights(n), Involving(a, n, txAt'))
  <2> DEFINE S == Involving(a, n + 1, txAt)
             T == Involving(a, n, txAt')
  <2>1. addressTxs[a] = Keep(Heights(n + 1), S)
    BY <1>3, IndexOfAddress DEF IndexInv
  <2>2. (\A h \in 1 .. n : h \in S <=> h \in T) /\ (n + 1 \in S <=> a \in TxAddresses(txAt[n + 1]))
    <3>1. n + 1 \in 1 .. n + 1 /\ \A h \in 1 .. n : h \in 1 .. n + 1
      OBVIOUS
    <3> QED BY <1>4, <3>1 DEF Involving
  <2> HIDE DEF S, T
  <2>3. /\ Keep(Heights(n), T) \in Seq(Nat)
        /\ ToSet(Keep(Heights(n), T)) \subseteq 1 .. n
        /\ Keep(Heights(n + 1), S) = Keep(Heights(n), T) \o (IF n + 1 \in S THEN <<n + 1>> ELSE <<>>)
    BY <2>2, IndexExtended
  <2>4. PICK s \in Seq(Nat) : s = Keep(Heights(n), T)
    BY <2>3
  <2>5. addressTxs'[a] = DropAddressTxs(a)
    BY <1>5
  <2>6. CASE a \in TxAddresses(txAt[n + 1])
    <3>1. addressTxs[a] = s \o <<n + 1>>
      BY <2>1, <2>2, <2>3, <2>4, <2>6
    <3>2. /\ s \o <<n + 1>> # <<>> /\ Len(s \o <<n + 1>>) = Len(s) + 1
          /\ (s \o <<n + 1>>)[Len(s) + 1] = n + 1
          /\ SubSeq(s \o <<n + 1>>, 1, Len(s)) = s
      OBVIOUS
    <3>3. Last(addressTxs[a]) = height /\ Front(addressTxs[a]) = s /\ addressTxs[a] # <<>>
      <4>1. Len(s) + 1 - 1 = Len(s)
        OBVIOUS
      <4> QED BY <1>3, <3>1, <3>2, <4>1 DEF Last, Front
    <3>4. a \in changed[height]
      <4>1. n + 1 \in 1 .. n + 1
        OBVIOUS
      <4> QED BY <1>3, <1>6, <2>6, <4>1
    <3> QED BY <2>4, <2>5, <3>3, <3>4 DEF DropAddressTxs, T
  <2>7. CASE a \notin TxAddresses(txAt[n + 1])
    <3>1. s \o <<>> = s
      BY ConcatEmptySeq
    <3>2. addressTxs[a] = s
      BY <2>1, <2>2, <2>3, <2>4, <2>7, <3>1
    <3>3. s # <<>> => Last(s) \in ToSet(s)
      <4>1. s # <<>> => Len(s) \in DOMAIN s
        OBVIOUS
      <4> QED BY <4>1 DEF Last, ToSet
    <3>4. s # <<>> => Last(s) # height
      BY <1>3, <2>3, <2>4, <3>3
    <3> QED BY <2>4, <2>5, <3>2, <3>4 DEF DropAddressTxs, T
  <2> QED BY <2>6, <2>7
<1>8. AddressIndexExact'
  <2>1. \A a \in Addresses : addressTxs'[a] = Keep(Heights(height'), Involving(a, height', txAt'))
    BY <1>3, <1>7
  <2> QED BY <2>1, IndexOfAddressNext
<1>9. \A h \in 1 .. n : txAt'[h] = txAt[h]
  BY <1>4
<1>10. \A h \in 1 .. height' : h \in DOMAIN changed' /\ TxAddresses(txAt'[h]) \subseteq changed'[h]
  BY <1>3, <1>4, <1>6, <1>9
<1> QED BY <1>1, <1>8, <1>10 DEF IndexInv

\* addressTransactions: the transactions indexed under an address are those of
\* the current chain, although doRollback only looks at the addresses recorded
\* as changed and at the last entry of each.
THEOREM IndexStaysExact == Spec => []AddressIndexExact
<1>1. Init => IndexInv
  <2> SUFFICES ASSUME Init PROVE IndexInv OBVIOUS
  <2>1. HeightInv /\ height = 1
    BY DEF Init, HeightInv
  <2>2. TxAddresses(txAt[1]) = {} /\ 1 \in DOMAIN changed
    BY DEF Init, TxAddresses
  <2>3. \A h \in 1 .. height : h \in DOMAIN changed /\ TxAddresses(txAt[h]) \subseteq changed[h]
    BY <2>1, <2>2
  <2>4. ASSUME NEW a \in Addresses PROVE addressTxs[a] = Keep(Heights(height), Involving(a, height, txAt))
    <3>1. addressTxs[a] = <<>>
      BY DEF Init
    <3>2. 1 \notin Involving(a, 1, txAt)
      BY <2>2 DEF Involving
    <3>3. /\ Keep(Heights(1), Involving(a, 1, txAt)) = Keep(Heights(0), {}) \o <<>>
          /\ Keep(Heights(0), {}) \in Seq(Nat) /\ ToSet(Keep(Heights(0), {})) \subseteq 1 .. 0
      <4>1. PICK n \in Nat : n = 0
        OBVIOUS
      <4>2. PICK S : S = Involving(a, 1, txAt)
        OBVIOUS
      <4>3. \A h \in 1 .. n : h \in S <=> h \in {}
        BY <4>1
      <4>4. /\ Keep(Heights(n), {}) \in Seq(Nat)
            /\ ToSet(Keep(Heights(n), {})) \subseteq 1 .. n
            /\ Keep(Heights(n + 1), S) = Keep(Heights(n), {}) \o (IF n + 1 \in S THEN <<n + 1>> ELSE <<>>)
        BY <4>3, IndexExtended
      <4>5. n + 1 = 1 /\ n + 1 \notin S
        BY <3>2, <4>1, <4>2
      <4> QED BY <4>1, <4>2, <4>4, <4>5
    <3>4. PICK s \in Seq(Nat) : s = Keep(Heights(0), {})
      BY <3>3
    <3>5. s = <<>>
      <4>1. s # <<>> => 1 \in DOMAIN s
        OBVIOUS
      <4>2. s # <<>> => s[1] \in 1 .. 0
        BY <3>3, <3>4, <4>1 DEF ToSet
      <4> QED BY <4>2
    <3> QED BY <2>1, <3>1, <3>3, <3>4, <3>5
  <2> QED BY <2>1, <2>3, <2>4, IndexOfAddress DEF IndexInv
<1>2. ASSUME IndexInv, [Next]_vars PROVE IndexInv'
  <2>1. ASSUME NEW t \in TxTypes \cup {NoTx}, NEW fee \in Fees(t), DoAppend(t, fee) PROVE IndexInv'
    BY <1>2, <2>1, IndexAppend
  <2>2. CASE DoRollback
    BY <1>2, <2>2, IndexRollback
  <2>3. CASE FillCaches
    BY <1>2, <2>3 DEF FillCaches, IndexInv, HeightInv, AddressIndexExact
  <2>4. CASE UNCHANGED vars
    BY <1>2, <2>4 DEF vars, IndexInv, HeightInv, AddressIndexExact
  <2> QED BY <1>2, <2>1, <2>2, <2>3, <2>4 DEF Next
<1> QED BY <1>1, <1>2, PTL DEF Spec, IndexInv

-----------------------------------------------------------------------------
\* Histories stay newest first, and the trimming of updateHistory keeps every
\* height above the threshold and the newest one at or below it.
LEMMA DescendingConcat ==
  ASSUME NEW a \in Seq(Nat), NEW b \in Seq(Nat), Descending(a), Descending(b),
         \A x \in ToSet(a) : \A y \in ToSet(b) : x > y
  PROVE  /\ a \o b \in Seq(Nat) /\ Descending(a \o b)
         /\ ToSet(a \o b) = ToSet(a) \cup ToSet(b)
<1> DEFINE r == a \o b
<1>1. PICK m \in Nat : m = Len(a)
  OBVIOUS
<1>2. PICK n \in Nat : n = Len(b)
  OBVIOUS
<1>3. /\ r \in Seq(Nat) /\ Len(r) = m + n
      /\ \A i \in 1 .. m : r[i] = a[i]
      /\ \A i \in 1 .. n : r[m + i] = b[i]
  BY <1>1, <1>2
<1>4. DOMAIN r = 1 .. m + n /\ DOMAIN a = 1 .. m /\ DOMAIN b = 1 .. n
  BY <1>1, <1>2, <1>3
<1> HIDE DEF r
<1>5. \A i \in 1 .. m + n : i \in 1 .. m \/ \E l \in 1 .. n : i = m + l
  <2> SUFFICES ASSUME NEW i \in 1 .. m + n, i \notin 1 .. m PROVE \E l \in 1 .. n : i = m + l
    OBVIOUS
  <2>1. i - m \in 1 .. n /\ i = m + (i - m)
    OBVIOUS
  <2> QED BY <2>1
<1>6. ToSet(r) = ToSet(a) \cup ToSet(b)
  <2>1. \A i \in 1 .. m : i \in 1 .. m + n
    OBVIOUS
  <2>2. \A i \in 1 .. n : m + i \in 1 .. m + n
    OBVIOUS
  <2>3. ASSUME NEW x \in ToSet(r) PROVE x \in ToSet(a) \cup ToSet(b)
    <3>1. PICK i \in 1 .. m + n : x = r[i]
      BY <1>4 DEF ToSet
    <3> QED BY <1>3, <1>4, <1>5, <3>1 DEF ToSet
  <2>4. ASSUME NEW x \in ToSet(a) PROVE x \in ToSet(r)
    BY <1>3, <1>4, <2>1 DEF ToSet
  <2>5. ASSUME NEW x \in ToSet(b) PROVE x \in ToSet(r)
    <3>1. PICK i \in 1 .. n : x = b[i]
      BY <1>4 DEF ToSet
    <3>2. m + i \in DOMAIN r /\ x = r[m + i]
      BY <1>3, <1>4, <2>2, <3>1
    <3> QED BY <3>2, Zenon DEF ToSet
  <2> QED BY <2>3, <2>4, <2>5
<1>7. ASSUME NEW i \in 1 .. Len(r), NEW j \in 1 .. Len(r), i < j PROVE r[i] > r[j]
  <2>1. i \in 1 .. m + n /\ j \in 1 .. m + n
    BY <1>3
  <2>2. CASE j \in 1 .. m
    <3>1. i \in 1 .. m
      BY <1>7, <2>1, <2>2
    <3> QED BY <1>1, <1>3, <1>7, <2>2, <3>1 DEF Descending
  <2>3. CASE i \in 1 .. m /\ j \notin 1 .. m
    <3>1. PICK l \in 1 .. n : j = m + l
      BY <1>5, <2>1, <2>3
    <3>2. a[i] \in ToSet(a) /\ b[l] \in ToSet(b)
      BY <1>4, <2>3, Zenon DEF ToSet
    <3> QED BY <1>3, <2>3, <3>1, <3>2
  <2>4. CASE i \notin 1 .. m /\ j \notin 1 .. m
    <3>1. PICK l \in 1 .. n : j = m + l
      BY <1>5, <2>1, <2>4
    <3>2. PICK e \in 1 .. n : i = m + e
      BY <1>5, <2>1, <2>4
    <3>3. e < l
      BY <1>7, <3>1, <3>2
    <3> QED BY <1>2, <1>3, <3>1, <3>2, <3>3 DEF Descending
  <2> QED BY <1>7, <2>1, <2>2, <2>3, <2>4
<1> QED BY <1>3, <1>6, <1>7 DEF r, Descending

LEMMA Singleton ==
  ASSUME NEW x \in Nat
  PROVE  <<x>> \in Seq(Nat) /\ Descending(<<x>>) /\ ToSet(<<x>>) = {x}
BY DEF Descending, ToSet

LEMMA Empty == <<>> \in Seq(Nat) /\ Descending(<<>>) /\ ToSet(<<>>) = {}
BY EmptySeq DEF Descending, ToSet

\* The first of a descending list is the greatest.
LEMMA HeadGreatest ==
  ASSUME NEW s \in Seq(Nat), Descending(s), s # <<>>
  PROVE  /\ Head(s) \in ToSet(s) /\ Head(s) \in Nat
         /\ \A x \in ToSet(s) : x <= Head(s)
         /\ \A x \in ToSet(Tail(s)) : x \in ToSet(s) /\ x < Head(s)
<1>1. PICK n \in Nat : n = Len(s)
  OBVIOUS
<1>2. n >= 1 /\ DOMAIN s = 1 .. n /\ Head(s) = s[1] /\ \A i \in 1 .. n : s[i] \in Nat
  BY <1>1
<1>3. /\ Tail(s) \in Seq(Nat) /\ Len(Tail(s)) = n - 1
      /\ \A i \in 1 .. n - 1 : Tail(s)[i] = s[i + 1]
  BY <1>1, <1>2
<1>4. \A i \in 1 .. n : i = 1 \/ s[i] < s[1]
  <2> SUFFICES ASSUME NEW i \in 1 .. n, i # 1 PROVE s[i] < s[1]
    OBVIOUS
  <2>1. 1 \in 1 .. Len(s) /\ i \in 1 .. Len(s) /\ 1 < i
    BY <1>1, <1>2
  <2> QED BY <1>2, <2>1 DEF Descending
<1>5. Head(s) \in ToSet(s) /\ Head(s) \in Nat /\ \A x \in ToSet(s) : x <= Head(s)
  BY <1>2, <1>4 DEF ToSet
<1>6. ASSUME NEW x \in ToSet(Tail(s)) PROVE x \in ToSet(s) /\ x < Head(s)
  <2>1. DOMAIN Tail(s) = 1 .. n - 1
    BY <1>3
  <2>2. PICK i \in 1 .. n - 1 : x = Tail(s)[i]
    BY <2>1 DEF ToSet
  <2>3. PICK j \in 1 .. n : j = i + 1
    BY <1>2
  <2>4. x = s[j] /\ j # 1
    BY <1>3, <2>2, <2>3
  <2> QED BY <1>2, <1>4, <2>4 DEF ToSet
<1> QED BY <1>5, <1>6

LEMMA HistoryTrimmed ==
  ASSUME HeightInv, NEW list \in Seq(Nat), Descending(list), ToSet(list) \subseteq 1 .. height,
         NEW u, u = UpdateHistory(list)
  PROVE  /\ u \in Seq(Nat) /\ Descending(u)
         /\ ToSet(u) \subseteq ToSet(list) \cup {height + 1} /\ height + 1 \in ToSet(u)
         /\ \A x \in ToSet(list) : x > Threshold => x \in ToSet(u)
         /\ \A x \in ToSet(list) :
              x <= Threshold /\ (\A y \in ToSet(list) : y <= Threshold => y <= x) => x \in ToSet(u)
         /\ ToSet(u) \cap ExpiredKeys(list) = {}
<1>1. PICK n \in Nat : n = height
  BY DEF HeightInv
<1>2. PICK th \in Int : th = Threshold
  BY WriterAssumption DEF Threshold, HeightInv
<1>3. th <= n
  BY <1>1, <1>2, WriterAssumption DEF Threshold
<1>4. PICK new \in Seq(Nat) : /\ new = New(list) /\ Descending(new)
                              /\ ToSet(new) = ToSet(list) \cap {h \in Nat : h > Threshold}
  BY KeepProperties DEF New
<1>5. PICK old \in Seq(Nat) : /\ old = Old(list) /\ Descending(old)
                              /\ ToSet(old) = ToSet(list) \cap {h \in Nat : h <= Threshold}
  BY KeepProperties DEF Old
<1>6. \A x \in ToSet(list) : x \in Nat /\ x <= n
  BY <1>1
<1>7. /\ \A x \in ToSet(new) : x \in ToSet(list) /\ x > th
      /\ \A x \in ToSet(list) : x > th => x \in ToSet(new)
      /\ \A x \in ToSet(old) : x \in ToSet(list) /\ x <= th
      /\ \A x \in ToSet(list) : x <= th => x \in ToSet(old)
  BY <1>2, <1>4, <1>5, <1>6
<1> DEFINE hd == IF old = <<>> THEN <<>> ELSE <<Head(old)>>
<1>8. /\ old # <<>> => /\ Head(old) \in ToSet(old) /\ Head(old) \in Nat
                       /\ \A x \in ToSet(old) : x <= Head(old)
                       /\ \A x \in ToSet(Tail(old)) : x \in ToSet(old) /\ x < Head(old)
      /\ old = <<>> => ToSet(old) = {}
  BY <1>5, HeadGreatest, Empty
<1>9. /\ hd \in Seq(Nat) /\ Descending(hd)
      /\ ToSet(hd) = IF old = <<>> THEN {} ELSE {Head(old)}
  BY <1>8, Empty, Singleton
<1>10. u = <<n + 1>> \o (new \o hd)
  BY <1>1, <1>4, <1>5 DEF UpdateHistory
<1> HIDE DEF hd
<1>11. \A y \in ToSet(hd) : y \in ToSet(list) /\ y <= th /\ y \in Nat
  BY <1>6, <1>7, <1>8, <1>9
<1>12. PICK rest \in Seq(Nat) : rest = new \o hd /\ Descending(rest) /\ ToSet(rest) = ToSet(new) \cup ToSet(hd)
  <2>1. \A x \in ToSet(new) : \A y \in ToSet(hd) : x > y
    BY <1>6, <1>7, <1>11
  <2> QED BY <1>4, <1>9, <2>1, DescendingConcat
<1>13. u \in Seq(Nat) /\ Descending(u) /\ ToSet(u) = {n + 1} \cup ToSet(rest)
  <2>0. PICK m \in Nat : m = n + 1
    OBVIOUS
  <2>1. PICK f \in Seq(Nat) : f = <<n + 1>> /\ Descending(f) /\ ToSet(f) = {n + 1}
    BY <2>0, Singleton
  <2>2. \A x \in ToSet(f) : \A y \in ToSet(rest) : x > y
    <3>1. ASSUME NEW y \in ToSet(rest) PROVE y \in Nat /\ y <= n
      BY <1>6, <1>7, <1>11, <1>12
    <3>2. \A y \in ToSet(rest) : n + 1 > y
      BY <3>1
    <3> QED BY <2>1, <3>2
  <2>3. f \o rest \in Seq(Nat) /\ Descending(f \o rest) /\ ToSet(f \o rest) = ToSet(f) \cup ToSet(rest)
    BY <1>12, <2>1, <2>2, DescendingConcat
  <2> QED BY <1>10, <1>12, <2>1, <2>3
<1>14. \A x \in ToSet(list) : x <= th /\ (\A y \in ToSet(list) : y <= th => y <= x) => x \in ToSet(u)
  <2> SUFFICES ASSUME NEW x \in ToSet(list), x <= th, \A y \in ToSet(list) : y <= th => y <= x
               PROVE  x \in ToSet(hd)
    BY <1>12, <1>13
  <2>1. x \in ToSet(old) /\ old # <<>>
    BY <1>7, <1>8
  <2>2. x = Head(old)
    BY <1>6, <1>7, <1>8, <2>1
  <2> QED BY <1>9, <2>1, <2>2
<1>15. ToSet(u) \cap ExpiredKeys(list) = {}
  <2>1. CASE old = <<>>
    BY <1>5, <2>1 DEF ExpiredKeys
  <2>2. CASE old # <<>>
    <3>1. ExpiredKeys(list) = ToSet(Tail(old))
      BY <1>5, <2>2 DEF ExpiredKeys
    <3>2. ASSUME NEW x \in ToSet(Tail(old)) PROVE x \notin ToSet(u)
      <4>1. x \in Nat /\ x <= th /\ x < Head(old)
        BY <1>6, <1>7, <1>8, <2>2, <3>2
      <4>2. x # n + 1
        <5>1. x <= n
          BY <1>3, <4>1
        <5> QED BY <5>1
      <4>3. x \notin ToSet(new)
        <5>1. ~(x > th)
          BY <4>1
        <5> QED BY <1>7, <5>1
      <4>4. x \notin ToSet(hd)
        BY <1>8, <1>9, <2>2, <4>1
      <4> QED BY <1>12, <1>13, <4>2, <4>3, <4>4
    <3> QED BY <3>1, <3>2
  <2> QED BY <2>1, <2>2
<1> QED BY <1>1, <1>2, <1>7, <1>11, <1>12, <1>13, <1>14, <1>15

-----------------------------------------------------------------------------
\* What the entry with the heights E and the values d shows at height t is v.
ShowsIn(E, d, t, v) ==
  \/ \E h \in E : h <= t /\ (\A x \in E : x <= t => x <= h) /\ v = d[h]
  \/ (\A x \in E : x > t) /\ v = NoValue

\* The entries doRollback would take back at height h.
UndoneAt(h) ==
  UndoneForTx(txAt[h])
  \cup UNION {Of("waves", {a}) \cup Of("lease", {a})
              \cup (IF a \in holders THEN Of("asset", {a}) ELSE {})
              \cup (IF <<h, a>> \in dataKeys THEN Of("data", {a}) ELSE {}) : a \in changed[h]}

\* The entries it would miss there.
OverlookedAt(h) ==
  LET t == txAt[h]
  IN written[h] \cap
       ( (IF t = "Issue" THEN {K("assetScript")} ELSE {})
         \cup (IF t = "InvokeBurn" THEN {K("assetInfo")} ELSE {})
         \cup (IF t \in {"Lease", "LeaseCancel"} THEN {} ELSE {K("leaseStatus")})
         \cup ({"asset", "lease"} \X (Addresses \ changed[h])) )

\* Unless an entry is lost, its history is newest first and names values that
\* are there ...
HistoriesSound ==
  /\ hist \in [Keys -> Seq(Nat)] /\ DOMAIN data = Keys
  /\ \A k \in Keys \ lost : /\ Descending(hist[k])
                            /\ ToSet(hist[k]) \subseteq 1 .. height
                            /\ ToSet(hist[k]) \subseteq DOMAIN data[k]
\* ... every height in one would be found again by doRollback, or is one where
\* the entry gets lost ...
RollbackCovers ==
  /\ \A h \in 1 .. height : h \in DOMAIN changed
  /\ \A k \in Keys \ lost : \A h \in ToSet(hist[k]) : k \in UndoneAt(h) \cup OverlookedAt(h)
\* ... and from the safe height on they hold the state of every height.
WindowShown ==
  \A k \in Keys \ lost : \A t \in Nat :
    safe <= t /\ 1 <= t /\ t <= height => ShowsIn(ToSet(hist[k]), data[k], t, truth[t][k])
RestoreInv == HeightInv /\ HistoriesSound /\ RollbackCovers /\ WindowShown

\* E2 and d2 are E and d with one more height, trimmed at th.
Trims(E, d, E2, d2, th, n) ==
  /\ E \subseteq 1 .. n
  /\ E2 \subseteq E \cup {n + 1}
  /\ \A x \in E : x > th => x \in E2
  /\ \A x \in E : x <= th /\ (\A y \in E : y <= th => y <= x) => x \in E2
  /\ \A x \in E2 : x \in E => d2[x] = d[x]

LEMMA ShowsTrimmed ==
  ASSUME NEW n \in Nat, NEW th \in Int, NEW t \in Nat, th <= t, t <= n, NEW v,
         NEW E, NEW d, NEW E2, NEW d2, Trims(E, d, E2, d2, th, n), ShowsIn(E, d, t, v)
  PROVE  ShowsIn(E2, d2, t, v)
<1> USE DEF Trims
<1>1. \A x \in E : x \in Nat /\ x <= n
  OBVIOUS
<1>2. \A x \in E2 : x <= t => x \in E
  BY <1>1
<1>3. CASE (\A x \in E : x > t) /\ v = NoValue
  <2>1. \A x \in E2 : x \in Nat
    <3>1. n + 1 \in Nat /\ E2 \subseteq E \cup {n + 1}
      OBVIOUS
    <3> QED BY <1>1, <3>1
  <2>2. ASSUME NEW x \in E2 PROVE ~(x <= t)
    <3> SUFFICES ASSUME x <= t PROVE FALSE OBVIOUS
    <3>1. x \in E
      BY <1>2
    <3>2. x \in Nat /\ x > t
      BY <1>1, <1>3, <3>1
    <3> QED BY <3>2
  <2>3. \A x \in E2 : x > t
    BY <2>1, <2>2
  <2> QED BY <1>3, <2>3 DEF ShowsIn
<1>4. CASE ~((\A x \in E : x > t) /\ v = NoValue)
  <2>1. PICK h \in E : h <= t /\ (\A x \in E : x <= t => x <= h) /\ v = d[h]
    BY <1>4 DEF ShowsIn
  <2>2. h \in E2
    <3>1. CASE h > th
      BY <3>1
    <3>2. CASE ~(h > th)
      <4>1. h <= th
        BY <1>1, <3>2
      <4>2. \A y \in E : y <= th => y <= h
        BY <1>1, <2>1
      <4> QED BY <4>1, <4>2
    <3> QED BY <3>1, <3>2
  <2>3. \A x \in E2 : x <= t => x <= h
    BY <1>2, <2>1
  <2>4. v = d2[h]
    BY <2>1, <2>2
  <2> QED BY <2>1, <2>2, <2>3, <2>4 DEF ShowsIn
<1> QED BY <1>3, <1>4

\* The entries a transaction writes are found from its type or belong to its
\* addresses, but for the script of an Issue and the asset of an InvokeScript.
LEMMA TxWritesFound ==
  ASSUME NEW t, NEW k \in TxWrites(t)
  PROVE  \/ k \in UndoneForTx(t)
         \/ t = "Issue" /\ k = K("assetScript")
         \/ t = "InvokeBurn" /\ k = K("assetInfo")
         \/ /\ t # NoTx
            /\ \E f \in {"waves", "asset", "lease", "data"} : \E a \in Addresses : k = <<f, a>>
<1> DEFINE Held == \E f \in {"waves", "asset", "lease", "data"} : \E a \in Addresses : k = <<f, a>>
           Found == \/ k \in UndoneForTx(t) \/ Held
                    \/ t = "Issue" /\ k = K("assetScript")
                    \/ t = "InvokeBurn" /\ k = K("assetInfo")
<1>a. \A f \in {"waves", "asset", "lease", "data"} : \A as \in SUBSET Addresses : k \in Of(f, as) => Held
  BY DEF Of
<1>b. /\ {Sender} \in SUBSET Addresses /\ {Recipient} \in SUBSET Addresses
      /\ {Sender, Recipient} \in SUBSET Addresses
  BY DEF Addresses
<1> HIDE DEF Held
<1>c. /\ k \in Of("waves", {Recipient}) => Held
      /\ k \in Of("asset", {Sender, Recipient}) => Held
      /\ k \in Of("asset", {Sender}) => Held
      /\ k \in Of("lease", {Sender, Recipient}) => Held
      /\ k \in Of("data", {Sender}) => Held
      /\ k \in Of("data", {Recipient}) => Held
  BY <1>a, <1>b
<1>d. t \in TypeNames
  BY DEF TxWrites, TypeNames
<1>e. t # NoTx
  BY <1>d, WriterAssumption
<1> SUFFICES Found
  BY <1>e DEF Held
<1>1. CASE t = "Transfer"
  BY <1>c, <1>1 DEF TxWrites, UndoneForTx
<1>2. CASE t = "AssetTransfer"
  BY <1>c, <1>2 DEF TxWrites, UndoneForTx
<1>3. CASE t \in {"Reissue", "Burn"}
  BY <1>c, <1>3 DEF TxWrites, UndoneForTx
<1>i. CASE t = "Issue"
  <2>1. k \in {K("assetInfo"), K("assetScript")} \cup Of("asset", {Sender})
    BY <1>i DEF TxWrites
  <2>2. UndoneForTx(t) = {K("assetInfo")}
    BY <1>i DEF UndoneForTx
  <2> QED BY <1>c, <1>i, <2>1, <2>2
<1>v. CASE t = "InvokeBurn"
  <2>1. k \in {K("assetInfo")} \cup Of("asset", {Sender, Recipient})
    BY <1>v DEF TxWrites
  <2> QED BY <1>c, <1>v, <2>1
<1>4. CASE t = "SponsorFee"
  BY <1>c, <1>4 DEF TxWrites, UndoneForTx
<1>5. CASE t \in {"Lease", "LeaseCancel"}
  BY <1>c, <1>5 DEF TxWrites, UndoneForTx
<1>6. CASE t = "SetScript"
  BY <1>c, <1>6 DEF TxWrites, UndoneForTx
<1>7. CASE t = "SetAssetScript"
  BY <1>c, <1>7 DEF TxWrites, UndoneForTx
<1>8. CASE t = "Data"
  BY <1>c, <1>8 DEF TxWrites, UndoneForTx
<1>9. CASE t = "InvokeScript"
  BY <1>c, <1>9 DEF TxWrites, UndoneForTx
<1>10. CASE t = "Exchange"
  BY <1>c, <1>10 DEF TxWrites, UndoneForTx
<1>11. CASE t = "CreateAlias"
  BY <1>c, <1>11 DEF TxWrites, UndoneForTx
<1> QED BY <1>1, <1>2, <1>3, <1>i, <1>v, <1>4, <1>5, <1>6, <1>7, <1>8, <1>9, <1>10, <1>11, <1>d DEF TypeNames

\* What a block writes belongs to a changed address or to the type of its
\* transaction; asset and lease balances, and the entries of a transaction that
\* its type does not show, are the exceptions.
LEMMA WritesFound ==
  ASSUME NEW t, NEW fee \in Fees(t), NEW k \in BlockWrites(t, fee)
  PROVE  \/ k \in UndoneForTx(t)
         \/ t = "Issue" /\ k = K("assetScript")
         \/ t = "InvokeBurn" /\ k = K("assetInfo")
         \/ t \notin {"Lease", "LeaseCancel"} /\ k = K("leaseStatus")
         \/ \E a \in Addresses : \E f \in {"waves", "asset", "lease", "data"} :
              /\ k = <<f, a>>
              /\ a \in ChangedAddresses(t, BlockWrites(t, fee)) \/ f \in {"asset", "lease"}
<1> DEFINE writes == BlockWrites(t, fee)
           four == {"waves", "asset", "lease", "data"}
           Held == \E a \in Addresses : \E f \in four :
                     k = <<f, a>> /\ (a \in ChangedAddresses(t, writes) \/ f \in {"asset", "lease"})
<1>1. ASSUME NEW f \in {"waves", "asset", "lease"}, NEW a \in Addresses, k = <<f, a>> PROVE Held
  <2>1. f = "waves" => a \in ChangedAddresses(t, writes)
    BY <1>1 DEF ChangedAddresses
  <2> HIDE DEF writes
  <2> QED BY <1>1, <2>1
<1>2. ASSUME k \in TxWrites(t), t # NoTx, NEW f \in four, NEW a \in Addresses, k = <<f, a>> PROVE Held
  <2>1. f = "data" => a \in ChangedAddresses(t, writes)
    <3> SUFFICES ASSUME f = "data" PROVE a \in TxAddresses(t)
      BY DEF ChangedAddresses
    <3>1. t \notin {"Reissue", "Burn"}
      <4>1. K("assetInfo") # k /\ k \notin Of("asset", {Sender})
        BY <1>2 DEF K, Of
      <4> QED BY <1>2, <4>1 DEF TxWrites
    <3> QED BY <1>2, <3>1 DEF TxAddresses
  <2>2. f # "data" => f \in {"waves", "asset", "lease"}
    OBVIOUS
  <2> HIDE DEF writes, Held
  <2>3. CASE f # "data"
    BY <1>1, <1>2, <2>2, <2>3
  <2>4. CASE f = "data"
    BY <1>2, <2>1, <2>4 DEF Held
  <2> QED BY <2>3, <2>4
<1>3. CASE k \in TxWrites(t)
  <2> HIDE DEF Held
  <2>1. \/ k \in UndoneForTx(t)
        \/ t = "Issue" /\ k = K("assetScript")
        \/ t = "InvokeBurn" /\ k = K("assetInfo")
        \/ t # NoTx /\ \E f \in four : \E a \in Addresses : k = <<f, a>>
    BY <1>3, TxWritesFound
  <2>2. (t # NoTx /\ \E f \in four : \E a \in Addresses : k = <<f, a>>) => Held
    BY <1>2, <1>3
  <2>3. \/ k \in UndoneForTx(t)
        \/ t = "Issue" /\ k = K("assetScript")
        \/ t = "InvokeBurn" /\ k = K("assetInfo")
        \/ Held
    BY <2>1, <2>2
  <2> QED BY <2>3 DEF Held
<1>4. CASE k \in FeeWrites(t, fee)
  <2>1. \E f \in {"waves", "asset"} : \E a \in Addresses : k = <<f, a>>
    BY <1>4 DEF FeeWrites, Of, Addresses
  <2>2. Held
    BY <1>1, <2>1
  <2> QED BY <2>2
<1>5. CASE k \in ExpiryWrites(t)
  <2>1. k = K("leaseStatus") \/ \E a \in Addresses : k = <<"lease", a>>
    BY <1>5 DEF ExpiryWrites, Of, Addresses
  <2>2. k # K("leaseStatus") => Held
    BY <1>1, <2>1
  <2>3. t \in {"Lease", "LeaseCancel"} => UndoneForTx(t) = {K("leaseStatus")}
    BY DEF UndoneForTx
  <2>4. CASE k # K("leaseStatus")
    BY <2>2, <2>4
  <2>5. CASE k = K("leaseStatus") /\ t \in {"Lease", "LeaseCancel"}
    BY <2>3, <2>5
  <2>6. CASE k = K("leaseStatus") /\ t \notin {"Lease", "LeaseCancel"}
    BY <2>6
  <2> QED BY <2>4, <2>5, <2>6
<1> QED BY <1>3, <1>4, <1>5 DEF BlockWrites

\* So doRollback would find it again, or miss it as Overlooked says.
LEMMA NewCovered ==
  ASSUME HeightInv, NEW t, NEW fee \in Fees(t), DoAppend(t, fee),
         NEW k \in BlockWrites(t, fee), NEW n \in Nat, n = height + 1
  PROVE  k \in UndoneAt(n)' \cup OverlookedAt(n)'
<1> DEFINE writes == BlockWrites(t, fee)
<1>1. /\ changed' = [h \in DOMAIN changed \cup {n} |->
                       IF h = n THEN ChangedAddresses(t, writes) ELSE changed[h]]
      /\ dataKeys' = dataKeys \cup {<<n, a>> : a \in {x \in Addresses : <<"data", x>> \in writes}}
      /\ holders' = holders \cup {a \in Addresses : <<"asset", a>> \in writes}
      /\ txAt' = [h \in 1 .. n |-> IF h = n THEN t ELSE txAt[h]]
      /\ written' = [h \in 1 .. n |-> IF h = n THEN writes ELSE written[h]]
  BY DEF DoAppend
<1>2. n \in 1 .. n
  BY DEF HeightInv
<1>3. changed'[n] = ChangedAddresses(t, writes) /\ txAt'[n] = t /\ written'[n] = writes
  BY <1>1, <1>2
<1>4. \/ k \in UndoneForTx(t)
      \/ t = "Issue" /\ k = K("assetScript")
      \/ t = "InvokeBurn" /\ k = K("assetInfo")
      \/ t \notin {"Lease", "LeaseCancel"} /\ k = K("leaseStatus")
      \/ \E a \in Addresses : \E f \in {"waves", "asset", "lease", "data"} :
           k = <<f, a>> /\ (a \in ChangedAddresses(t, writes) \/ f \in {"asset", "lease"})
  BY WritesFound
<1>5. CASE k \in UndoneForTx(t)
  BY <1>3, <1>5 DEF UndoneAt
<1>6. CASE \/ t = "Issue" /\ k = K("assetScript")
           \/ t = "InvokeBurn" /\ k = K("assetInfo")
           \/ t \notin {"Lease", "LeaseCancel"} /\ k = K("leaseStatus")
  <2>1. k \in writes
    OBVIOUS
  <2> HIDE DEF writes
  <2> QED BY <1>3, <1>6, <2>1 DEF OverlookedAt
<1>7. ASSUME NEW a \in Addresses, NEW f \in {"waves", "asset", "lease", "data"}, k = <<f, a>>,
             a \in ChangedAddresses(t, writes)
      PROVE  k \in UndoneAt(n)'
  <2>2. \/ k \in Of("waves", {a}) \/ k \in Of("lease", {a})
        \/ k \in Of("asset", {a}) /\ <<"asset", a>> \in writes
        \/ k \in Of("data", {a}) /\ <<"data", a>> \in writes
    BY <1>7 DEF Of
  <2>3. <<"asset", a>> \in writes => a \in holders'
    BY <1>1
  <2>4. <<"data", a>> \in writes => <<n, a>> \in dataKeys'
    BY <1>1
  <2>5. k \in Of("waves", {a}) \cup Of("lease", {a})
             \cup (IF a \in holders' THEN Of("asset", {a}) ELSE {})
             \cup (IF <<n, a>> \in dataKeys' THEN Of("data", {a}) ELSE {})
    BY <2>2, <2>3, <2>4
  <2>6. a \in changed'[n]
    BY <1>3, <1>7
  <2> HIDE DEF writes
  <2> QED BY <2>5, <2>6 DEF UndoneAt
<1>8. ASSUME NEW a \in Addresses, NEW f \in {"asset", "lease"}, k = <<f, a>>,
             a \notin ChangedAddresses(t, writes)
      PROVE  k \in OverlookedAt(n)'
  <2>1. k \in written'[n] /\ k \in {"asset", "lease"} \X (Addresses \ changed'[n])
    BY <1>3, <1>8
  <2> HIDE DEF writes
  <2> QED BY <2>1 DEF OverlookedAt
<1> HIDE DEF writes
<1> QED BY <1>4, <1>5, <1>6, <1>7, <1>8

\* What was found before is found still.
LEMMA OldCovered ==
  ASSUME HeightInv, NEW t, NEW fee, DoAppend(t, fee), RollbackCovers,
         NEW h \in 1 .. height
  PROVE  /\ UndoneAt(h) \subseteq UndoneAt(h)' /\ OverlookedAt(h)' = OverlookedAt(h)
         /\ h \in DOMAIN changed'
<1>1. PICK n \in Nat : n = height
  BY DEF HeightInv
<1>2. /\ changed' = [x \in DOMAIN changed \cup {n + 1} |->
                       IF x = n + 1 THEN ChangedAddresses(t, BlockWrites(t, fee)) ELSE changed[x]]
      /\ dataKeys \subseteq dataKeys' /\ holders \subseteq holders'
      /\ txAt' = [x \in 1 .. n + 1 |-> IF x = n + 1 THEN t ELSE txAt[x]]
      /\ written' = [x \in 1 .. n + 1 |-> IF x = n + 1 THEN BlockWrites(t, fee) ELSE written[x]]
  BY <1>1 DEF DoAppend
<1>3. h \in 1 .. n + 1 /\ h # n + 1 /\ h \in DOMAIN changed
  BY <1>1 DEF RollbackCovers
<1>4. /\ h \in DOMAIN changed' /\ changed'[h] = changed[h] /\ txAt'[h] = txAt[h]
      /\ written'[h] = written[h]
  BY <1>2, <1>3
<1>6. OverlookedAt(h)' = OverlookedAt(h)
  BY <1>4 DEF OverlookedAt
<1>5. ASSUME NEW k \in UndoneAt(h) PROVE k \in UndoneAt(h)'
  <2>1. CASE k \in UndoneForTx(txAt[h])
    <3>1. k \in UndoneForTx(txAt'[h])
      BY <1>4, <2>1
    <3> QED BY <3>1 DEF UndoneAt
  <2>2. CASE k \notin UndoneForTx(txAt[h])
    <3>1. PICK a \in changed[h] : k \in Of("waves", {a}) \cup Of("lease", {a})
                                   \cup (IF a \in holders THEN Of("asset", {a}) ELSE {})
                                   \cup (IF <<h, a>> \in dataKeys THEN Of("data", {a}) ELSE {})
      BY <1>5, <2>2 DEF UndoneAt
    <3>2. k \in Of("waves", {a}) \cup Of("lease", {a})
               \cup (IF a \in holders' THEN Of("asset", {a}) ELSE {})
               \cup (IF <<h, a>> \in dataKeys' THEN Of("data", {a}) ELSE {})
      BY <1>2, <3>1
    <3>3. a \in changed'[h]
      BY <1>4
    <3> QED BY <3>2, <3>3 DEF UndoneAt
  <2> QED BY <2>1, <2>2
<1> QED BY <1>4, <1>5, <1>6

-----------------------------------------------------------------------------
\* A block.
LEMMA RestoreAppend ==
  ASSUME RestoreInv, NEW t, NEW fee \in Fees(t), DoAppend(t, fee)
  PROVE  RestoreInv'
<1> DEFINE writes == BlockWrites(t, fee)
<1>1. HeightInv /\ HistoriesSound /\ RollbackCovers /\ WindowShown
  BY DEF RestoreInv
<1>2. /\ HeightInv' /\ height' = height + 1
      /\ Threshold \in Int /\ Threshold <= height /\ Threshold <= safe' /\ safe <= safe'
  BY <1>1, SafeStep
<1>3. PICK n \in Nat : n = height
  BY <1>1 DEF HeightInv
<1>4. n >= 1 /\ height' = n + 1 /\ safe \in Nat /\ safe <= n /\ safe' \in Nat
  BY <1>1, <1>2, <1>3 DEF HeightInv
<1>5. /\ hist' = [k \in Keys |-> IF k \in writes THEN UpdateHistory(hist[k]) ELSE hist[k]]
      /\ data' = [k \in Keys |->
             IF k \in writes
             THEN Without([h \in DOMAIN data[k] \cup {n + 1} |->
                             IF h = n + 1 THEN NewValue(k, t) ELSE data[k][h]],
                          ExpiredKeys(hist[k]))
             ELSE data[k]]
      /\ truth' = [h \in 1 .. n + 1 |->
             IF h = n + 1 THEN [k \in Keys |-> IF k \in writes THEN NewValue(k, t) ELSE truth[n][k]]
             ELSE truth[h]]
      /\ lost' = lost
  BY <1>3 DEF DoAppend
<1> HIDE DEF writes
<1>6. /\ hist' \in [Keys -> Seq(Nat)] /\ DOMAIN data' = Keys
  BY <1>1, ReadWritten DEF HistoriesSound
<1>7. /\ \A k \in Keys : truth'[n + 1][k] = IF k \in writes THEN NewValue(k, t) ELSE truth[n][k]
      /\ \A x \in 1 .. n : truth'[x] = truth[x]
  <2>1. n + 1 \in 1 .. n + 1 /\ \A x \in 1 .. n : x \in 1 .. n + 1 /\ x # n + 1
    BY <1>4
  <2> QED BY <1>5, <2>1
<1>8. \A k \in Keys \ lost :
                      /\ hist[k] \in Seq(Nat) /\ Descending(hist[k])
                      /\ ToSet(hist[k]) \subseteq 1 .. n /\ ToSet(hist[k]) \subseteq DOMAIN data[k]
  BY <1>1, <1>3 DEF HistoriesSound
<1>9. ASSUME NEW k \in Keys \ lost, k \in writes
      PROVE  /\ Descending(hist'[k])
             /\ ToSet(hist'[k]) \subseteq ToSet(hist[k]) \cup {n + 1} /\ n + 1 \in ToSet(hist'[k])
             /\ \A x \in ToSet(hist[k]) : x > Threshold => x \in ToSet(hist'[k])
             /\ \A x \in ToSet(hist[k]) :
                  x <= Threshold /\ (\A y \in ToSet(hist[k]) : y <= Threshold => y <= x)
                    => x \in ToSet(hist'[k])
             /\ ToSet(hist'[k]) \subseteq DOMAIN data'[k]
             /\ data'[k][n + 1] = NewValue(k, t)
             /\ \A x \in ToSet(hist'[k]) : x \in ToSet(hist[k]) => data'[k][x] = data[k][x]
  <2>1. PICK list \in Seq(Nat) : list = hist[k]
    BY <1>8
  <2>2. Descending(list) /\ ToSet(list) \subseteq 1 .. height /\ ToSet(list) \subseteq DOMAIN data[k]
    BY <1>3, <1>8, <2>1
  <2>3. PICK u : u = UpdateHistory(list)
    OBVIOUS
  <2>4. /\ u \in Seq(Nat) /\ Descending(u)
        /\ ToSet(u) \subseteq ToSet(list) \cup {height + 1} /\ height + 1 \in ToSet(u)
        /\ \A x \in ToSet(list) : x > Threshold => x \in ToSet(u)
        /\ \A x \in ToSet(list) :
             x <= Threshold /\ (\A y \in ToSet(list) : y <= Threshold => y <= x) => x \in ToSet(u)
        /\ ToSet(u) \cap ExpiredKeys(list) = {}
    BY <1>1, <2>2, <2>3, HistoryTrimmed
  <2>5. hist'[k] = u
    BY <1>5, <1>9, <2>1, <2>3
  <2> DEFINE d == [h \in DOMAIN data[k] \cup {n + 1} |-> IF h = n + 1 THEN NewValue(k, t) ELSE data[k][h]]
  <2>6. data'[k] = Without(d, ExpiredKeys(list))
    BY <1>5, <1>9, <2>1
  <2>7. DOMAIN d = DOMAIN data[k] \cup {n + 1} /\ d[n + 1] = NewValue(k, t)
        /\ \A x \in DOMAIN data[k] : x # n + 1 => d[x] = data[k][x]
    OBVIOUS
  <2> HIDE DEF d
  <2>8. DOMAIN data'[k] = DOMAIN d \ ExpiredKeys(list) /\ \A x \in DOMAIN data'[k] : data'[k][x] = d[x]
    BY <2>6 DEF Without
  <2>9. ToSet(u) \subseteq DOMAIN d
    BY <1>3, <2>2, <2>4, <2>7
  <2>10. ToSet(u) \subseteq DOMAIN data'[k]
    BY <2>4, <2>8, <2>9
  <2>11. \A x \in ToSet(list) : x # n + 1
    BY <1>3, <2>2
  <2>12. data'[k][n + 1] = NewValue(k, t)
    BY <1>3, <2>4, <2>7, <2>8, <2>10
  <2>13. \A x \in ToSet(u) : x \in ToSet(list) => data'[k][x] = data[k][x]
    BY <2>2, <2>7, <2>8, <2>10, <2>11
  <2>14. height + 1 = n + 1
    BY <1>3
  <2> QED BY <2>1, <2>4, <2>5, <2>10, <2>12, <2>13, <2>14
<1>10. ASSUME NEW k \in Keys, k \notin writes PROVE hist'[k] = hist[k] /\ data'[k] = data[k]
  BY <1>5, <1>10
<1>11. HistoriesSound'
  <2>1. ASSUME NEW k \in Keys \ lost
        PROVE  /\ Descending(hist'[k]) /\ ToSet(hist'[k]) \subseteq 1 .. n + 1
               /\ ToSet(hist'[k]) \subseteq DOMAIN data'[k]
    <3>1. \A x \in 1 .. n : x \in 1 .. n + 1
      OBVIOUS
    <3>2. n + 1 \in 1 .. n + 1
      BY <1>4
    <3>3. CASE k \in writes
      BY <1>8, <1>9, <3>1, <3>2, <3>3
    <3>4. CASE k \notin writes
      BY <1>8, <1>10, <3>1, <3>4
    <3> QED BY <3>3, <3>4
  <2> QED BY <1>4, <1>5, <1>6, <2>1 DEF HistoriesSound
<1>12. RollbackCovers'
  <2>1. \A h \in 1 .. n : /\ UndoneAt(h) \subseteq UndoneAt(h)' /\ OverlookedAt(h)' = OverlookedAt(h)
                          /\ h \in DOMAIN changed'
    BY <1>1, <1>3, OldCovered
  <2>2. n + 1 \in DOMAIN changed'
    BY <1>3 DEF DoAppend
  <2>3. \A h \in 1 .. n + 1 : h \in 1 .. n \/ h = n + 1
    BY <1>4
  <2>4. \A h \in 1 .. n + 1 : h \in DOMAIN changed'
    BY <2>1, <2>2, <2>3
  <2>5. ASSUME NEW k \in Keys \ lost, NEW h \in ToSet(hist[k])
        PROVE  k \in UndoneAt(h)' \cup OverlookedAt(h)'
    <3>1. k \in UndoneAt(h) \cup OverlookedAt(h) /\ h \in 1 .. n
      BY <1>1, <1>8 DEF RollbackCovers
    <3> QED BY <2>1, <3>1
  <2>6. ASSUME NEW k \in Keys, k \in writes PROVE k \in UndoneAt(n + 1)' \cup OverlookedAt(n + 1)'
    <3>1. PICK m \in Nat : m = n + 1
      OBVIOUS
    <3>2. m = height + 1 /\ k \in BlockWrites(t, fee)
      BY <1>3, <2>6, <3>1 DEF writes
    <3>3. k \in UndoneAt(m)' \cup OverlookedAt(m)'
      BY <1>1, <3>2, NewCovered
    <3> QED BY <3>1, <3>3
  <2>7. ASSUME NEW k \in Keys \ lost, NEW h \in ToSet(hist'[k])
        PROVE  k \in UndoneAt(h)' \cup OverlookedAt(h)'
    <3>1. CASE k \in writes
      <4>1. h \in ToSet(hist[k]) \/ h = n + 1
        BY <1>9, <2>7, <3>1
      <4> QED BY <2>5, <2>6, <3>1, <4>1
    <3>2. CASE k \notin writes
      BY <1>10, <2>5, <3>2
    <3> QED BY <3>1, <3>2
  <2>8. \A h \in 1 .. height' : h \in DOMAIN changed'
    BY <1>4, <2>4
  <2> QED BY <1>5, <2>7, <2>8 DEF RollbackCovers
<1>13. WindowShown'
  <2>1. ASSUME NEW k \in Keys \ lost, NEW x \in Nat, safe' <= x, 1 <= x, x <= n + 1
        PROVE  ShowsIn(ToSet(hist'[k]), data'[k], x, truth'[x][k])
    <3>1. CASE x <= n
      <4>1. ShowsIn(ToSet(hist[k]), data[k], x, truth[x][k])
        <5>1. safe <= x /\ x <= height
          BY <1>2, <1>3, <1>4, <2>1, <3>1
        <5> QED BY <1>1, <2>1, <5>1 DEF WindowShown
      <4>2. truth'[x] = truth[x]
        BY <1>7, <2>1, <3>1
      <4>3. CASE k \in writes
        <5>1. PICK th \in Int : th = Threshold
          BY <1>2
        <5>2. PICK E : E = ToSet(hist[k])
          OBVIOUS
        <5>3. PICK E2 : E2 = ToSet(hist'[k])
          OBVIOUS
        <5>4. PICK d2 : d2 = data'[k]
          OBVIOUS
        <5>5. th <= x
          BY <1>2, <1>4, <2>1, <5>1
        <5>6. /\ E \subseteq 1 .. n
              /\ E2 \subseteq E \cup {n + 1}
              /\ \A z \in E : z > th => z \in E2
              /\ \A z \in E : z <= th /\ (\A y \in E : y <= th => y <= z) => z \in E2
              /\ \A z \in E2 : z \in E => d2[z] = data[k][z]
          BY <1>8, <1>9, <4>3, <5>1, <5>2, <5>3, <5>4
        <5>7. PICK d : d = data[k]
          OBVIOUS
        <5>8. PICK v : v = truth[x][k]
          OBVIOUS
        <5>9. ShowsIn(E, d, x, v) /\ Trims(E, d, E2, d2, th, n)
          BY <4>1, <5>2, <5>6, <5>7, <5>8 DEF Trims
        <5>10. ShowsIn(E2, d2, x, v)
          BY <3>1, <5>5, <5>9, ShowsTrimmed
        <5> QED BY <4>2, <5>3, <5>4, <5>8, <5>10
      <4>4. CASE k \notin writes
        BY <1>10, <4>1, <4>2, <4>4
      <4> QED BY <4>3, <4>4
    <3>2. CASE x = n + 1
      <4>1. CASE k \in writes
        <5>1. /\ n + 1 \in ToSet(hist'[k]) /\ ToSet(hist'[k]) \subseteq ToSet(hist[k]) \cup {n + 1}
              /\ data'[k][n + 1] = NewValue(k, t)
          BY <1>9, <4>1
        <5>2. \A y \in ToSet(hist'[k]) : y <= n + 1
          <6>1. PICK E : E = ToSet(hist[k])
            OBVIOUS
          <6>2. E \subseteq 1 .. n /\ ToSet(hist'[k]) \subseteq E \cup {n + 1}
            BY <1>8, <5>1, <6>1
          <6>3. \A y \in E \cup {n + 1} : y <= n + 1
            BY <6>2
          <6> QED BY <6>2, <6>3
        <5>3. truth'[n + 1][k] = NewValue(k, t)
          BY <1>7, <4>1
        <5> QED BY <3>2, <5>1, <5>2, <5>3 DEF ShowsIn
      <4>2. CASE k \notin writes
        <5>1. ShowsIn(ToSet(hist[k]), data[k], n, truth[n][k])
          BY <1>1, <1>3, <1>4 DEF WindowShown
        <5>2. PICK E : E = ToSet(hist[k])
          OBVIOUS
        <5>3. E \subseteq 1 .. n
          BY <1>8, <5>2
        <5>4. ShowsIn(E, data[k], n + 1, truth[n][k])
          <6>1. \A y \in E : y \in Nat /\ y <= n
            BY <5>3
          <6>2. ShowsIn(E, data[k], n, truth[n][k])
            BY <5>1, <5>2
          <6> QED BY <6>1, <6>2 DEF ShowsIn
        <5>5. truth'[n + 1][k] = truth[n][k] /\ hist'[k] = hist[k] /\ data'[k] = data[k]
          BY <1>7, <1>10, <4>2
        <5> QED BY <3>2, <5>2, <5>4, <5>5
      <4> QED BY <4>1, <4>2
    <3> QED BY <1>4, <2>1, <3>1, <3>2
  <2> QED BY <1>4, <1>5, <2>1 DEF WindowShown
<1> QED BY <1>2, <1>11, <1>12, <1>13 DEF RestoreInv

\* A rollback takes the last height out of every history that has it.
LEMMA RestoreRollback ==
  ASSUME RestoreInv, DoRollback
  PROVE  RestoreInv'
<1>1. HeightInv /\ HistoriesSound /\ RollbackCovers /\ WindowShown
  BY DEF RestoreInv
<1>2. PICK n \in Nat : n = height - 1
  BY <1>1 DEF HeightInv
<1>3. height = n + 1 /\ height' = n /\ safe' = safe /\ n > safe /\ safe \in Nat /\ HeightInv'
  BY <1>1, <1>2 DEF DoRollback, HeightInv
<1>4. /\ hist' = [k \in Keys |-> IF k \in Undone THEN Keep(hist[k], Nat \ {n + 1}) ELSE hist[k]]
      /\ data' = [k \in Keys |-> IF k \in Undone THEN Without(data[k], {n + 1}) ELSE data[k]]
      /\ truth' = [h \in 1 .. n |-> truth[h]]
      /\ txAt' = [h \in 1 .. n |-> txAt[h]]
      /\ changed' = changed /\ dataKeys' = dataKeys /\ holders' = holders
      /\ written' = [h \in 1 .. n |-> written[h]]
      /\ lost' = lost \cup Overlooked
  BY <1>2, <1>3 DEF DoRollback
<1>5. \A k \in Keys \ lost :
                      /\ hist[k] \in Seq(Nat) /\ Descending(hist[k])
                      /\ ToSet(hist[k]) \subseteq 1 .. n + 1 /\ ToSet(hist[k]) \subseteq DOMAIN data[k]
  BY <1>1, <1>3 DEF HistoriesSound
<1>6. ASSUME NEW k \in Keys \ lost'
      PROVE  /\ hist'[k] \in Seq(Nat) /\ Descending(hist'[k])
             /\ ToSet(hist'[k]) = ToSet(hist[k]) \ {n + 1}
             /\ \A x \in ToSet(hist'[k]) : x \in DOMAIN data'[k] /\ data'[k][x] = data[k][x]
  <2>1. PICK list \in Seq(Nat) : list = hist[k]
    BY <1>4, <1>5
  <2>2. Descending(list) /\ ToSet(list) \subseteq 1 .. n + 1 /\ ToSet(list) \subseteq DOMAIN data[k]
    BY <1>4, <1>5, <2>1
  <2>3. CASE k \in Undone
    <3>1. hist'[k] = Keep(list, Nat \ {n + 1}) /\ data'[k] = Without(data[k], {n + 1})
      BY <1>4, <2>1, <2>3
    <3>2. PICK S : S = Nat \ {n + 1}
      OBVIOUS
    <3>3. Keep(list, S) \in Seq(Nat) /\ Descending(Keep(list, S)) /\ ToSet(Keep(list, S)) = ToSet(list) \cap S
      BY <2>2, KeepProperties
    <3>4. \A x \in ToSet(list) : x \in Nat
      BY <2>2
    <3>5. ToSet(list) \cap S = ToSet(list) \ {n + 1}
      BY <3>2, <3>4
    <3>6. DOMAIN data'[k] = DOMAIN data[k] \ {n + 1} /\ \A x \in DOMAIN data'[k] : data'[k][x] = data[k][x]
      BY <3>1 DEF Without
    <3> QED BY <2>1, <2>2, <3>1, <3>2, <3>3, <3>5, <3>6
  <2>4. CASE k \notin Undone
    <3>1. Undone = UndoneAt(height) /\ Overlooked = OverlookedAt(height)
      BY DEF Undone, UndoneAt, UndoneForAddress, Overlooked, OverlookedAt
    <3>5. k \notin UndoneAt(n + 1) \cup OverlookedAt(n + 1)
      BY <1>3, <1>4, <2>4, <3>1
    <3>2. n + 1 \notin ToSet(list)
      BY <1>1, <1>4, <2>1, <3>5 DEF RollbackCovers
    <3>3. hist'[k] = list /\ data'[k] = data[k]
      BY <1>4, <2>1, <2>4
    <3>4. ToSet(list) = ToSet(list) \ {n + 1}
      BY <3>2
    <3> QED BY <2>1, <2>2, <3>3, <3>4
  <2> QED BY <2>3, <2>4
<1>7. HistoriesSound'
  <2>1. hist' \in [Keys -> Seq(Nat)] /\ DOMAIN data' = Keys
    <3>1. DOMAIN hist' = Keys /\ DOMAIN data' = Keys /\ hist' = [k \in Keys |-> hist'[k]]
      BY <1>4
    <3>2. \A k \in Keys : hist[k] \in Seq(Nat)
      BY <1>1 DEF HistoriesSound
    <3>3. \A k \in Keys : Keep(hist[k], Nat \ {n + 1}) \in Seq(Nat)
      BY <3>2, KeepProperties
    <3>4. \A k \in Keys : hist'[k] \in Seq(Nat)
      BY <1>4, <3>2, <3>3
    <3> QED BY <3>1, <3>4
  <2>2. ASSUME NEW k \in Keys \ lost'
        PROVE  Descending(hist'[k]) /\ ToSet(hist'[k]) \subseteq 1 .. n /\ ToSet(hist'[k]) \subseteq DOMAIN data'[k]
    <3>1. PICK E : E = ToSet(hist[k])
      OBVIOUS
    <3>2. E \subseteq 1 .. n + 1 /\ ToSet(hist'[k]) = E \ {n + 1}
      BY <1>4, <1>5, <1>6, <3>1
    <3>3. E \ {n + 1} \subseteq 1 .. n
      BY <3>2
    <3> QED BY <1>6, <3>2, <3>3
  <2> QED BY <1>3, <2>1, <2>2 DEF HistoriesSound
<1>8. RollbackCovers'
  <2>1. \A h \in 1 .. n : h \in 1 .. n + 1
    OBVIOUS
  <2>2. \A h \in 1 .. height' : h \in DOMAIN changed'
    BY <1>1, <1>3, <1>4, <2>1 DEF RollbackCovers
  <2>3. ASSUME NEW h \in 1 .. n PROVE UndoneAt(h)' = UndoneAt(h) /\ OverlookedAt(h)' = OverlookedAt(h)
    <3>1. txAt'[h] = txAt[h] /\ written'[h] = written[h]
      BY <1>4
    <3> QED BY <1>4, <3>1 DEF UndoneAt, OverlookedAt
  <2>4. ASSUME NEW k \in Keys \ lost', NEW h \in ToSet(hist'[k])
        PROVE  k \in UndoneAt(h)' \cup OverlookedAt(h)'
    <3>1. h \in 1 .. n
      BY <1>3, <1>7 DEF HistoriesSound
    <3>2. k \in UndoneAt(h) \cup OverlookedAt(h)
      BY <1>1, <1>4, <1>6 DEF RollbackCovers
    <3> QED BY <2>3, <3>1, <3>2
  <2> QED BY <2>2, <2>4 DEF RollbackCovers
<1>9. WindowShown'
  <2>1. ASSUME NEW k \in Keys \ lost', NEW x \in Nat, safe' <= x, 1 <= x, x <= n
        PROVE  ShowsIn(ToSet(hist'[k]), data'[k], x, truth'[x][k])
    <3>1. PICK E : E = ToSet(hist[k])
      OBVIOUS
    <3>2. ShowsIn(E, data[k], x, truth[x][k])
      <4>1. safe <= x /\ x <= height
        BY <1>3, <2>1
      <4>2. k \in Keys \ lost
        BY <1>4
      <4> QED BY <1>1, <2>1, <3>1, <4>1, <4>2 DEF WindowShown
    <3>3. truth'[x] = truth[x]
      BY <1>4, <2>1
    <3>4. PICK E2 : E2 = ToSet(hist'[k])
      OBVIOUS
    <3>5. E2 = E \ {n + 1} /\ \A z \in E2 : data'[k][z] = data[k][z]
      BY <1>6, <3>1, <3>4
    <3>6. ~(n + 1 <= x)
      BY <2>1
    <3>7. ShowsIn(E2, data'[k], x, truth[x][k])
      <4>1. CASE \A z \in E : z > x
        <5>1. truth[x][k] = NoValue
          <6>0. E \subseteq 1 .. n + 1
            BY <1>4, <1>5, <3>1
          <6>1. \A z \in E : z \in Nat
            BY <6>0
          <6>2. \A z \in E : ~(z <= x)
            BY <4>1, <6>1
          <6> QED BY <3>2, <6>2 DEF ShowsIn
        <5> QED BY <3>5, <4>1, <5>1 DEF ShowsIn
      <4>2. CASE ~(\A z \in E : z > x)
        <5>1. PICK h \in E : h <= x /\ (\A z \in E : z <= x => z <= h) /\ truth[x][k] = data[k][h]
          BY <3>2, <4>2 DEF ShowsIn
        <5>2. h \in E2
          BY <3>5, <3>6, <5>1
        <5> QED BY <3>5, <5>1, <5>2 DEF ShowsIn
      <4> QED BY <4>1, <4>2
    <3> QED BY <3>3, <3>4, <3>7
  <2> QED BY <1>3, <2>1 DEF WindowShown
<1> QED BY <1>3, <1>7, <1>8, <1>9 DEF RestoreInv

LEMMA RestoreInit == Init => RestoreInv
<1> SUFFICES ASSUME Init PROVE RestoreInv OBVIOUS
<1> DEFINE g == <<"waves", Sender>>
<1>1. HeightInv /\ height = 1 /\ safe = 0
  BY DEF Init, HeightInv
<1>2. /\ \A k \in Keys : hist[k] = IF k = g THEN <<1>> ELSE <<>>
      /\ hist = [k \in Keys |-> hist[k]] /\ DOMAIN data = Keys
      /\ \A k \in Keys : k = g => DOMAIN data[k] = {1} /\ data[k][1] = 0
      /\ \A k \in Keys : truth[1][k] = IF k = g THEN 0 ELSE NoValue
      /\ 1 \in DOMAIN changed /\ changed[1] = {Sender}
  BY DEF Init
<1>3. /\ <<1>> \in Seq(Nat) /\ Descending(<<1>>) /\ ToSet(<<1>>) = {1}
      /\ <<>> \in Seq(Nat) /\ Descending(<<>>) /\ ToSet(<<>>) = {}
  BY Singleton, Empty
<1>4. \A k \in Keys : hist[k] \in Seq(Nat) /\ Descending(hist[k])
                      /\ ToSet(hist[k]) = IF k = g THEN {1} ELSE {}
  BY <1>2, <1>3
<1>5. HistoriesSound
  <2>1. hist \in [Keys -> Seq(Nat)]
    BY <1>2, <1>4
  <2> QED BY <1>1, <1>2, <1>4, <2>1 DEF HistoriesSound
<1>6. RollbackCovers
  <2>1. g \in UndoneAt(1)
    <3>1. g \in Of("waves", {Sender})
      BY DEF Of
    <3> HIDE DEF g
    <3> QED BY <1>2, <3>1 DEF UndoneAt
  <2> HIDE DEF g
  <2> QED BY <1>1, <1>2, <1>4, <2>1 DEF RollbackCovers
<1>7. WindowShown
  <2>1. ASSUME NEW k \in Keys PROVE ShowsIn(ToSet(hist[k]), data[k], 1, truth[1][k])
    BY <1>2, <1>4 DEF ShowsIn
  <2>2. \A t \in Nat : 1 <= t /\ t <= height => t = 1
    BY <1>1
  <2> QED BY <2>1, <2>2 DEF WindowShown
<1> QED BY <1>1, <1>5, <1>6, <1>7 DEF RestoreInv

\* Readers change nothing of it.
LEMMA RestoreSame ==
  ASSUME RestoreInv, UNCHANGED <<height, safe, blocks, hist, data, changed, dataKeys, holders, txAt, truth,
                              written, lost>>
  PROVE  RestoreInv'
<1>1. \A h : UndoneAt(h)' = UndoneAt(h) /\ OverlookedAt(h)' = OverlookedAt(h)
  BY DEF UndoneAt, OverlookedAt
<1>2. HeightInv'
  BY DEF RestoreInv, HeightInv
<1>3. HistoriesSound'
  BY DEF RestoreInv, HistoriesSound
<1>4. RollbackCovers'
  BY <1>1 DEF RestoreInv, RollbackCovers
<1>5. WindowShown'
  BY DEF RestoreInv, WindowShown
<1> QED BY <1>2, <1>3, <1>4, <1>5 DEF RestoreInv

\* What RestoreInv says of the current height.
LEMMA RestoreSays == RestoreInv => RollbackRestores
<1> SUFFICES ASSUME RestoreInv, NEW k \in Keys \ lost PROVE ReadKey(k) = truth[height][k]
  BY DEF RollbackRestores
<1>1. PICK n \in Nat : n = height
  BY DEF RestoreInv, HeightInv
<1>2. PICK s \in Seq(Nat) : s = hist[k]
  BY DEF RestoreInv, HistoriesSound
<1>3. Descending(s) /\ ToSet(s) \subseteq 1 .. n /\ ToSet(s) \subseteq DOMAIN data[k]
  BY <1>1, <1>2 DEF RestoreInv, HistoriesSound
<1>4. ShowsIn(ToSet(s), data[k], n, truth[n][k])
  BY <1>1, <1>2 DEF RestoreInv, WindowShown, HeightInv
<1>5. PICK E : E = ToSet(s)
  OBVIOUS
<1>6. \A x \in E : x \in Nat /\ x <= n
  BY <1>3, <1>5
<1>7. CASE s = <<>>
  <2>1. E = {}
    BY <1>5, <1>7, Empty
  <2>2. truth[n][k] = NoValue
    BY <1>4, <1>5, <2>1 DEF ShowsIn
  <2> QED BY <1>1, <1>2, <1>7, <2>2 DEF ReadKey
<1>8. CASE s # <<>>
  <2>1. Head(s) \in E /\ Head(s) \in Nat /\ \A x \in E : x <= Head(s)
    BY <1>3, <1>5, <1>8, HeadGreatest
  <2>2. ~(\A x \in E : x > n)
    BY <1>6, <2>1
  <2>3. PICK h \in E : (\A x \in E : x <= n => x <= h) /\ truth[n][k] = data[k][h]
    BY <1>4, <1>5, <2>2 DEF ShowsIn
  <2>4. h = Head(s)
    BY <1>6, <2>1, <2>3
  <2>5. Head(s) \in DOMAIN data[k]
    BY <1>3, <1>5, <2>1
  <2> QED BY <1>1, <1>2, <1>8, <2>3, <2>4, <2>5 DEF ReadKey
<1> QED BY <1>7, <1>8

\* doRollback takes back what doAppend wrote: every entry reads, after any blocks
\* and rollbacks, as it did when the current last block was appended, unless a
\* block was rolled back that wrote it in one of the ways Overlooked lists.
THEOREM StateRestored == Spec => []RollbackRestores
<1>1. Init => RestoreInv
  BY RestoreInit
<1>2. ASSUME RestoreInv, [Next]_vars PROVE RestoreInv'
  <2>1. ASSUME NEW t \in TxTypes \cup {NoTx}, NEW fee \in Fees(t), DoAppend(t, fee) PROVE RestoreInv'
    BY <1>2, <2>1, RestoreAppend
  <2>2. CASE DoRollback
    BY <1>2, <2>2, RestoreRollback
  <2>3. CASE FillCaches
    BY <1>2, <2>3, RestoreSame DEF FillCaches
  <2>4. CASE UNCHANGED vars
    BY <1>2, <2>4, RestoreSame DEF vars
  <2> QED BY <1>2, <2>1, <2>2, <2>3, <2>4 DEF Next
<1>3. RestoreInv => RollbackRestores
  BY RestoreSays
<1> QED BY <1>1, <1>2, <1>3, PTL DEF Spec
=============================================================================

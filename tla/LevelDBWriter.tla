--------------------------- MODULE LevelDBWriter ---------------------------
(***************************************************************************)
(* What a block writes and what a rollback takes back:                     *)
(* database/LevelDBWriter.scala with the caches of database/Caches.scala.  *)
(*                                                                         *)
(* doAppend derives its writes from the diff of the block.  doRollback has *)
(* no diff: it undoes the entries of the addresses in changedAddresses and *)
(* the entries that each transaction type is known to touch.  The two must *)
(* cover each other.  VersionedValue has the trimming of one entry; here a *)
(* history is the list the code keeps, newest first.                       *)
(*                                                                         *)
(* A block holds at most one transaction, of Sender towards Recipient, and *)
(* pays Miner; there is one asset, issued by Sender.  A written value is   *)
(* the number of the block that wrote it, except the lease status, which   *)
(* is a Boolean.  The alias has no history in the code; it is written once *)
(* at most, so one makes no difference.                                    *)
(***************************************************************************)
EXTENDS Integers, Sequences, SequencesExt

CONSTANTS
  Sender, Recipient, Miner,
  TxTypes,            \* the transaction types that occur
  LeaseTerm,          \* blocks until a lease expires, 0: feature not activated
  AssetFees,          \* before sponsorship: fees may be paid in an asset
  MaxRollbackDepth,
  MaxHeight,          \* bound: heights explored
  MaxBlocks,          \* bound: blocks appended altogether
  NoTx, NoValue

TypeNames == {"Transfer", "AssetTransfer", "Issue", "Reissue", "Burn", "SponsorFee", "Lease",
              "LeaseCancel", "SetScript", "SetAssetScript", "Data", "InvokeScript", "InvokeBurn",
              "Exchange", "CreateAlias"}

ASSUME WriterAssumption ==
  /\ MaxRollbackDepth \in Nat \ {0}
  /\ LeaseTerm \in Nat /\ MaxHeight \in Nat /\ MaxBlocks \in Nat
  /\ TxTypes \subseteq TypeNames /\ NoTx \notin TypeNames

Addresses == {Sender, Recipient, Miner}
PerAddress == {"waves", "asset", "lease", "data", "script"}
Single == {"leaseStatus", "assetInfo", "assetScript", "sponsorship", "fill", "alias"}
Keys == (PerAddress \X Addresses) \cup (Single \X {NoTx})
K(f) == <<f, NoTx>>
Of(f, as) == {<<f, a>> : a \in as}

\* What has a loading cache: an asset's description is one entry, put together
\* from its Issue transaction and three entries of the database.
Description == K("description")
CachedKeys == (Keys \ {K("leaseStatus"), K("assetInfo"), K("sponsorship"), K("alias")})
              \cup {Description}

VARIABLES
  height, safe,
  hist,         \* key -> heights, newest first
  data,         \* key -> [height -> value]
  changed,      \* Keys.changedAddresses: height -> addresses
  dataKeys,     \* Keys.changedDataKeys: set of <<height, address>>
  holders,      \* addresses whose Keys.assetList has the asset
  txAt,         \* transactionsAtHeight: height -> type or NoTx
  addressTxs,   \* Keys.addressTransactionHN: address -> heights
  carry,        \* Keys.carryFee: height -> value
  cache,        \* the loading caches: a partial function from CachedKeys
  scripted,     \* whether the asset's Issue transaction has a script, never changes
  blocks,       \* blocks appended so far
  truth,        \* ghost: the state after each height of the current chain
  written,      \* ghost: the entries the block of each height wrote
  lost          \* ghost: the entries that survived a rollback of their block

vars == <<height, safe, hist, data, changed, dataKeys, holders, txAt,
          addressTxs, carry, cache, scripted, blocks, truth, written, lost>>

-----------------------------------------------------------------------------
\* fromHistory; an absent key parses to the default.
ReadKey(k) ==
  IF hist[k] = <<>> \/ Head(hist[k]) \notin DOMAIN data[k] THEN NoValue
  ELSE data[k][Head(hist[k])]

\* The members of a list that are in S, in their order: partition, filterNot.
Keep(list, S) ==
  LET upTo[i \in 0 .. Len(list)] ==
        IF i = 0 THEN <<>> ELSE upTo[i - 1] \o (IF list[i] \in S THEN <<list[i]>> ELSE <<>>)
  IN upTo[Len(list)]

Without(f, ks) == [x \in DOMAIN f \ ks |-> f[x]]

\* The diff of a transaction: what it writes besides the sender's Waves.  An Issue
\* writes a script even if it has none, and InvokeBurn is an InvokeScript with a
\* payment in the asset whose dApp burns some of it, or likewise reissues it.
TxWrites(t) ==
  CASE t = "Transfer"       -> Of("waves", {Recipient})
    [] t = "AssetTransfer"  -> Of("asset", {Sender, Recipient})
    [] t = "Issue"          -> {K("assetInfo"), K("assetScript")} \cup Of("asset", {Sender})
    [] t \in {"Reissue", "Burn"} -> {K("assetInfo")} \cup Of("asset", {Sender})
    [] t = "SponsorFee"     -> {K("sponsorship")}
    [] t \in {"Lease", "LeaseCancel"} -> {K("leaseStatus")} \cup Of("lease", {Sender, Recipient})
    [] t = "SetScript"      -> Of("script", {Sender})
    [] t = "SetAssetScript" -> {K("assetScript")}
    [] t = "Data"           -> Of("data", {Sender})
    [] t = "InvokeScript"   -> Of("data", {Recipient}) \cup Of("waves", {Recipient})
    [] t = "InvokeBurn"     -> {K("assetInfo")} \cup Of("asset", {Sender, Recipient})
    [] t = "Exchange"       -> {K("fill")} \cup Of("asset", {Sender, Recipient})
                               \cup Of("waves", {Recipient})
    [] t = "CreateAlias"    -> {K("alias")}
    [] OTHER                -> {}

\* The addresses of a transaction: the keys of the portfolios and of the
\* account data in its diff.  Reissue and Burn combine an empty diff of the
\* transaction with the portfolios of processReissue, which gives none.
TxAddresses(t) ==
  IF t \in {NoTx, "Reissue", "Burn"} THEN {}
  ELSE {Sender} \cup {a \in Addresses : \E f \in {"waves", "asset", "lease", "data"} :
                                          <<f, a>> \in TxWrites(t)}

OnChain(t) == \E h \in 1 .. height : txAt[h] = t
Issued == OnChain("Issue")
TxApplicable(t) ==
  /\ t \in {"AssetTransfer", "Reissue", "Burn", "SponsorFee", "SetAssetScript", "Exchange",
            "InvokeBurn"} => Issued
  /\ t \in {"Issue", "Lease", "CreateAlias"} => ~OnChain(t)
  /\ t = "SetAssetScript" => ReadKey(K("assetScript")) # NoValue
  /\ t = "SponsorFee" => ReadKey(K("assetScript")) = NoValue
  /\ t = "LeaseCancel" => ReadKey(K("leaseStatus")) = TRUE

\* collectLeasesToCancel and collectActiveLeases for the next height.
Expires(t) ==
  LET created == height + 1 - LeaseTerm
  IN /\ LeaseTerm > 0 /\ created > 0
     /\ OnChain("Lease")
     /\ created \in DOMAIN data[K("leaseStatus")]
     /\ data[K("leaseStatus")][created] = TRUE
     /\ ReadKey(K("leaseStatus")) = TRUE
     /\ t # "LeaseCancel"
ExpiryWrites(t) ==
  IF Expires(t) THEN {K("leaseStatus")} \cup Of("lease", {Sender, Recipient}) ELSE {}

\* The fee and the generator's share of it, see BlockDiffer.  A transfer or an
\* invocation may pay in the asset.  DiffToStateApplier writes no Waves balance
\* that does not change: a generator's own fee may come back in full, before NG
\* or with the share of an equal fee in the previous block.
PaysAssetFee == {"Transfer", "AssetTransfer", "InvokeScript", "InvokeBurn"}
MovesWaves == {"Transfer", "InvokeScript", "Exchange"}
Fees(t) ==
  {"waves"} \cup (IF t = NoTx THEN {"none"} ELSE {})
            \cup (IF AssetFees /\ Issued /\ t \in PaysAssetFee THEN {"asset"} ELSE {})
            \cup (IF Sender = Miner /\ t \in TypeNames \ MovesWaves THEN {"none"} ELSE {})
FeeWrites(t, fee) ==
  LET payers == IF t = NoTx THEN {Miner} ELSE {Sender, Miner}
  IN CASE fee = "waves" -> Of("waves", payers)
       [] fee = "asset" -> Of("asset", payers) \cup (IF t \in MovesWaves THEN Of("waves", {Sender}) ELSE {})
       [] OTHER         -> {}

BlockWrites(t, fee) == TxWrites(t) \cup FeeWrites(t, fee) \cup ExpiryWrites(t)

NewValue(k, t) ==
  CASE k = K("leaseStatus") -> t = "Lease"
    [] k = K("assetScript") /\ t = "Issue" /\ ~scripted -> NoValue
    [] OTHER -> blocks + 1

-----------------------------------------------------------------------------
\* updateHistory on the list; the keys it returns are deleted.
Threshold == height + 1 - MaxRollbackDepth
New(list) == Keep(list, {h \in Nat : h > Threshold})
Old(list) == Keep(list, {h \in Nat : h <= Threshold})
UpdateHistory(list) ==
  <<height + 1>> \o (New(list) \o (IF Old(list) = <<>> THEN <<>> ELSE <<Head(Old(list))>>))
ExpiredKeys(list) == IF Old(list) = <<>> THEN {} ELSE ToSet(Tail(Old(list)))

\* Mutant: off by two, the oldest height a rollback can return to is hit.
CarryExpiredEarly == Threshold + 1
\* The carry fee deleted with the expired keys.
CarryExpired == Threshold - 1

\* Mutant: only the addresses of transactions are recorded.
ChangedAddressesOfTxs(t, writes) == TxAddresses(t)

\* changedAddresses = addressTransactions.keys ++ updatedBalanceAddresses
ChangedAddresses(t, writes) ==
  TxAddresses(t) \cup {a \in Addresses : <<"waves", a>> \in writes}

\* What a cache loads.  loadAssetDescription reads the three entries for an asset
\* whose Issue transaction is on the chain.
Load(k) ==
  IF k # Description THEN ReadKey(k)
  ELSE LET part(f) == IF Issued THEN ReadKey(K(f)) ELSE NoValue
       IN [issued |-> Issued, info |-> part("assetInfo"), sponsorship |-> part("sponsorship"),
           script |-> part("assetScript")]

\* Mutant: a description survives a new sponsorship.
AppendedCacheButSponsorship(t, writes) ==
  [k \in (DOMAIN cache \cup (writes \cap CachedKeys)) \
           (IF K("assetInfo") \in writes THEN {Description} ELSE {}) |->
     IF k \in writes THEN NewValue(k, t) ELSE cache[k]]

\* The caches after Caches.append: new values are put, the descriptions of issued
\* and sponsored assets are invalidated, not those of assets with a new script.
AppendedCache(t, writes) ==
  [k \in (DOMAIN cache \cup (writes \cap CachedKeys)) \
           (IF {K("assetInfo"), K("sponsorship")} \cap writes # {} THEN {Description} ELSE {}) |->
     IF k \in writes THEN NewValue(k, t) ELSE cache[k]]

\* Caches.append and doAppend.
DoAppend(t, fee) ==
  /\ height < MaxHeight /\ blocks < MaxBlocks
  /\ TxApplicable(t)
  /\ LET writes == BlockWrites(t, fee)
         n == height + 1
     IN /\ hist' = [k \in Keys |-> IF k \in writes THEN UpdateHistory(hist[k]) ELSE hist[k]]
        /\ data' = [k \in Keys |->
             IF k \in writes
             THEN Without([h \in DOMAIN data[k] \cup {n} |->
                             IF h = n THEN NewValue(k, t) ELSE data[k][h]],
                          ExpiredKeys(hist[k]))
             ELSE data[k]]
        /\ changed' = [h \in DOMAIN changed \cup {n} |->
                         IF h = n THEN ChangedAddresses(t, writes) ELSE changed[h]]
        /\ dataKeys' = dataKeys \cup {<<n, a>> : a \in {x \in Addresses : <<"data", x>> \in writes}}
        /\ holders' = holders \cup {a \in Addresses : <<"asset", a>> \in writes}
        /\ addressTxs' = [a \in Addresses |-> IF a \in TxAddresses(t)
                                              THEN Append(addressTxs[a], n) ELSE addressTxs[a]]
        /\ txAt' = [h \in 1 .. n |-> IF h = n THEN t ELSE txAt[h]]
        /\ carry' = Without([h \in DOMAIN carry \cup {n} |-> IF h = n THEN blocks + 1 ELSE carry[h]],
                            {CarryExpired})
        /\ cache' = AppendedCache(t, writes)
        /\ written' = [h \in 1 .. n |-> IF h = n THEN writes ELSE written[h]]
        /\ truth' = [h \in 1 .. n |->
             IF h = n THEN [k \in Keys |-> IF k \in writes THEN NewValue(k, t) ELSE truth[height][k]]
             ELSE truth[h]]
  /\ height' = height + 1
  /\ safe' = IF safe < Threshold THEN Threshold ELSE safe
  /\ blocks' = blocks + 1
  /\ UNCHANGED <<scripted, lost>>

-----------------------------------------------------------------------------
\* The entries doRollback takes back for one changed address.
UndoneForAddress(a) ==
  Of("waves", {a}) \cup Of("lease", {a})
  \cup (IF a \in holders THEN Of("asset", {a}) ELSE {})
  \cup (IF <<height, a>> \in dataKeys THEN Of("data", {a}) ELSE {})

\* Mutant: a sponsorship is not taken back.
UndoneForTxButSponsorship(t) ==
  CASE t \in {"Issue", "Reissue", "Burn"} -> {K("assetInfo")}
    [] t \in {"Lease", "LeaseCancel"}     -> {K("leaseStatus")}
    [] t = "SetScript"                    -> Of("script", {Sender})
    [] t = "SetAssetScript"               -> {K("assetScript")}
    [] t = "CreateAlias"                  -> {K("alias")}
    [] t = "Exchange"                     -> {K("fill")}
    [] OTHER                              -> {}

\* ... and for the transaction of the block, by its type.  Of an InvokeScript only
\* its result is deleted.
UndoneForTx(t) ==
  CASE t \in {"Issue", "Reissue", "Burn"} -> {K("assetInfo")}
    [] t = "SponsorFee"                   -> {K("sponsorship")}
    [] t \in {"Lease", "LeaseCancel"}     -> {K("leaseStatus")}
    [] t = "SetScript"                    -> Of("script", {Sender})
    [] t = "SetAssetScript"               -> {K("assetScript")}
    [] t = "CreateAlias"                  -> {K("alias")}
    [] t = "Exchange"                     -> {K("fill")}
    [] OTHER                              -> {}

Undone == UndoneForTx(txAt[height]) \cup UNION {UndoneForAddress(a) : a \in changed[height]}

\* Mutant: the values of the discarded block stay in the caches.
DiscardNothing == cache

\* The entries discarded from the caches once the batch is written: what was
\* taken back, and the descriptions in assetInfoToInvalidate.
Discard ==
  Without(cache, Undone \cup (IF txAt[height] \in {"Issue", "Reissue", "Burn", "SponsorFee"}
                              THEN {Description} ELSE {}))

\* What the last block wrote in a way doRollback does not look for: the script of
\* an Issue, the asset of an InvokeScript, the status of an expired lease, and
\* asset and lease balances of an address that has neither a transaction nor a
\* change of Waves in the block.
Overlooked ==
  LET t == txAt[height]
  IN written[height] \cap
       ( (IF t = "Issue" THEN {K("assetScript")} ELSE {})
         \cup (IF t = "InvokeBurn" THEN {K("assetInfo")} ELSE {})
         \cup (IF t \in {"Lease", "LeaseCancel"} THEN {} ELSE {K("leaseStatus")})
         \cup ({"asset", "lease"} \X (Addresses \ changed[height])) )

\* Mutant: the index of an address is shortened whatever its last entry is.
DropAddressTxsBlindly(a) ==
  IF a \in changed[height] /\ addressTxs[a] # <<>> THEN Front(addressTxs[a]) ELSE addressTxs[a]

DropAddressTxs(a) ==
  IF a \in changed[height] /\ addressTxs[a] # <<>> /\ Last(addressTxs[a]) = height
  THEN Front(addressTxs[a]) ELSE addressTxs[a]

\* One step of doRollback, allowed by rollbackTo above the safe height only.
DoRollback ==
  /\ height - 1 > safe
  /\ hist' = [k \in Keys |-> IF k \in Undone THEN Keep(hist[k], Nat \ {height})
                             ELSE hist[k]]
  /\ data' = [k \in Keys |-> IF k \in Undone THEN Without(data[k], {height}) ELSE data[k]]
  /\ addressTxs' = [a \in Addresses |-> DropAddressTxs(a)]
  /\ txAt' = [h \in 1 .. height - 1 |-> txAt[h]]
  /\ carry' = Without(carry, {height})
  /\ cache' = Discard
  /\ height' = height - 1
  /\ truth' = [h \in 1 .. height - 1 |-> truth[h]]
  /\ written' = [h \in 1 .. height - 1 |-> written[h]]
  /\ lost' = lost \cup Overlooked
  /\ UNCHANGED <<safe, changed, dataKeys, holders, scripted, blocks>>

\* Readers fill the caches; reading every entry at once is the worst case.
FillCaches ==
  /\ DOMAIN cache # CachedKeys
  /\ cache' = [k \in CachedKeys |-> IF k \in DOMAIN cache THEN cache[k] ELSE Load(k)]
  /\ UNCHANGED <<height, safe, hist, data, changed, dataKeys, holders, txAt,
                 addressTxs, carry, scripted, blocks, truth, written, lost>>

\* The genesis block, which writes the first balances.
Init ==
  /\ height = 1 /\ safe = 0 /\ blocks = 0
  /\ hist = [k \in Keys |-> IF k = <<"waves", Sender>> THEN <<1>> ELSE <<>>]
  /\ data = [k \in Keys |-> IF k = <<"waves", Sender>> THEN [h \in {1} |-> 0] ELSE <<>>]
  /\ changed = [h \in {1} |-> {Sender}]
  /\ dataKeys = {} /\ holders = {}
  /\ txAt = [h \in 1 .. 1 |-> NoTx]
  /\ addressTxs = [a \in Addresses |-> <<>>]
  /\ carry = [h \in {1} |-> 0]
  /\ cache = <<>>
  /\ scripted \in BOOLEAN
  /\ written = [h \in 1 .. 1 |-> {<<"waves", Sender>>}]
  /\ lost = {}
  /\ truth = [h \in 1 .. 1 |-> [k \in Keys |-> IF k = <<"waves", Sender>> THEN 0 ELSE NoValue]]

Next ==
  \/ \E t \in TxTypes \cup {NoTx} : \E fee \in Fees(t) : DoAppend(t, fee)
  \/ DoRollback
  \/ FillCaches

Spec == Init /\ [][Next]_vars

-----------------------------------------------------------------------------
\* After any blocks and rollbacks every entry reads as it did when the current
\* last block was appended: what doAppend writes from the diff, doRollback finds
\* again from changedAddresses, changedDataKeys, assetList and the types.  It does
\* not find what Overlooked lists; nothing else is ever lost.
RollbackRestores == \A k \in Keys \ lost : ReadKey(k) = truth[height][k]

\* The caches of Caches.scala never answer differently from the database, except
\* for the script in an asset's description: neither append nor doRollback
\* discards a description when the script changes.  Over a liquid block
\* CompositeBlockchain takes the script from the asset script instead.
CachesCurrent ==
  \A k \in DOMAIN cache :
    IF k # Description THEN cache[k] = Load(k)
    ELSE \A part \in {"issued", "info", "sponsorship"} : cache[k][part] = Load(k)[part]

\* The transactions indexed under an address are those of the current chain that
\* have the address in their diff.
AddressIndexExact ==
  \A a \in Addresses :
    addressTxs[a] = Keep([h \in 1 .. height |-> h], {h \in 1 .. height : a \in TxAddresses(txAt[h])})

\* The lease balances and the lease status, after a rollback, are those of the
\* block rolled back to.
LeasesRestored ==
  \A k \in {K("leaseStatus")} \cup Of("lease", Addresses) : ReadKey(k) = truth[height][k]

\* Keys.carryFee is read at the current height only; after a rollback as deep as
\* allowed it must not have been deleted with the expired keys.
CarryFeeKept == height \in DOMAIN carry
=============================================================================

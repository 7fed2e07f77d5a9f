------------------------ MODULE MCBlockchainUpdater ------------------------
(***************************************************************************)
(* A small universe of blocks for BlockchainUpdater.  The id of a block is *)
(* its path from genesis: one pair <<k, n>> per height, k the key block    *)
(* (generator k, so two competitors per height) and n the number of        *)
(* transactions of the version.  Versions of one key block differ in n,    *)
(* which goes up to MaxN in the first block and to 1 in the later ones.    *)
(***************************************************************************)
EXTENDS BlockchainUpdater, FiniteSets

CONSTANTS Levels, MaxN

Root == <<0, 0>>
Entries == (1 .. 2) \X (0 .. MaxN)
Paths ==
  {<<Root>> \o p : p \in {q \in UNION {[1 .. l -> Entries] : l \in 1 .. Levels} :
                            \A i \in 2 .. Len(q) : q[i][2] <= 1}}

MCIds == Paths \cup {<<>>, <<Root>>}
MCGenerators == 0 .. 2
MCTxs == 1 .. Levels * MaxN

Front(p) == SubSeq(p, 1, Len(p) - 1)
Key(p) == p[Len(p)][1]
Count(p) == p[Len(p)][2]
Before(p) ==
  LET sum[i \in 0 .. Len(p) - 1] == IF i = 0 THEN 0 ELSE sum[i - 1] + p[i][2]
  IN sum[Len(p) - 1]

\* Generator 1 continues with fresh transactions, generator 2 starts again
\* with the first one, which its ancestors may already hold.
TxAt(p, i) == IF Key(p) = 1 THEN Before(p) + i ELSE i

BlockAt(p) ==
  [id |-> p, ref |-> Front(p), gen |-> Key(p), target |-> IF Key(p) = 2 THEN 1 ELSE 2,
   ts |-> Len(p), txs |-> [i \in 1 .. Count(p) |-> TxAt(p, i)]]

MCGenesis == [id |-> <<Root>>, ref |-> <<>>, gen |-> 0, target |-> 2, ts |-> 1, txs |-> <<>>]
MCSigned == {BlockAt(p) : p \in Paths} \cup {MCGenesis}

\* A block whose content was changed after it was signed.
Tampered == [BlockAt(<<Root, <<1, 1>>>>) EXCEPT !.txs = <<>>]
MCBlocks == MCSigned \cup {Tampered}

\* The microblock from version n to version n + d of the block at p, carrying c
\* of its d transactions: c < d is a generator that signs a total it does not
\* deliver.
MicroAt(p, d, c) ==
  LET n == Count(p)
      q == Front(p) \o <<<<Key(p), n + d>>>>
  IN [sender |-> Key(p), prev |-> p, total |-> q, txs |-> [i \in 1 .. c |-> TxAt(p, n + i)]]
Limit(p) == IF Len(p) = 2 THEN MaxN ELSE 1
MCMicros ==
  {MicroAt(p, 1, 1) : p \in {q \in Paths : Count(q) < Limit(q)}}
  \cup {MicroAt(p, Limit(p), Limit(p) - 1) : p \in {q \in Paths : Count(q) = 0 /\ Key(q) = 1}}

\* A total id names a longer version of the block below it, so it is new.
ASSUME TotalsGrow ==
  \A m \in MCMicros : Front(m.total) = Front(m.prev) /\ Count(m.total) > Count(m.prev)

\* A transaction is applied once, and after the one it spends.
MCApplicable(ledger, txs) ==
  LET all == ledger \o txs
  IN \A i \in Len(ledger) + 1 .. Len(all) :
       /\ \A j \in 1 .. i - 1 : all[j] # all[i]
       /\ all[i] = 1 \/ \E j \in 1 .. i - 1 : all[j] = all[i] - 1

\* A transaction that the ledger holds, or that is repeated, is not applicable.
NoRepeats(s) == \A i, j \in 1 .. Len(s) : s[i] = s[j] => i = j
Short == UNION {[1 .. n -> 1 .. 3] : n \in 0 .. 3}
ASSUME RepeatsRefused ==
  \A ledger, txs \in Short :
    NoRepeats(ledger) /\ MCApplicable(ledger, txs) => NoRepeats(ledger \o txs)
=============================================================================

------------------------ MODULE MCExtensionAppender ------------------------
(* The block universe of MCBlockchainUpdater, sent as extensions. *)
EXTENDS ExtensionAppender, FiniteSets

CONSTANTS Levels, MaxN

Root == <<0, 0>>
Entries == (1 .. 2) \X (0 .. MaxN)
Paths == {<<Root>> \o p : p \in UNION {[1 .. l -> Entries] : l \in 1 .. Levels}}
MCIds == Paths \cup {<<>>, <<Root>>}
MCGenerators == 0 .. 2
Stray == Levels * MaxN + 1  \* a transaction that no block carries
MCTxs == 1 .. Stray
MCGenesis == [id |-> <<Root>>, ref |-> <<>>, gen |-> 0, target |-> 2, ts |-> 1, txs |-> <<>>]

Key(p) == p[Len(p)][1]
Count(p) == p[Len(p)][2]
Parent(p) == SubSeq(p, 1, Len(p) - 1)

\* A block of generator 1 carries the transactions of its height, one of
\* generator 2 starts again with the first one.
TxAt(p, i) == IF Key(p) = 1 THEN (Len(p) - 2) * MaxN + i ELSE i
BlockAt(p) ==
  [id |-> p, ref |-> Parent(p), gen |-> Key(p), target |-> IF Key(p) = 2 THEN 1 ELSE 2,
   ts |-> Len(p), txs |-> [i \in 1 .. Count(p) |-> TxAt(p, i)]]
MCBlocks == {BlockAt(p) : p \in Paths} \cup {MCGenesis}

\* Each microblock carries the next transaction of its generator, or, from
\* generator 1, a transaction that the block its total id signs does not hold.
MicroAt(p) ==
  [sender |-> Key(p), prev |-> p, total |-> Parent(p) \o <<<<Key(p), Count(p) + 1>>>>,
   txs |-> <<TxAt(p, Count(p) + 1)>>]
MCMicros ==
  {MicroAt(p) : p \in {q \in Paths : Count(q) < MaxN}}
  \cup {[MicroAt(p) EXCEPT !.txs = <<Stray>>] :
           p \in {q \in Paths : Count(q) < MaxN /\ Key(q) = 1}}

\* The blocks of a path from some height on.
MCExtensions == {[i \in 1 .. Len(p) - k |-> BlockAt(SubSeq(p, 1, k + i))] :
                   <<p, k>> \in {<<q, j>> \in Paths \X (1 .. Levels) : j < Len(q)}}

MCApplicable(ledger, txs) ==
  LET all == ledger \o txs
  IN \A i \in Len(ledger) + 1 .. Len(all) : \A j \in 1 .. i - 1 : all[j] # all[i]

\* What the theorems assume of signatures, total ids, validation and peers: a
\* total id names a longer version of the block below it, so it is new.
ASSUME ReferencesDescend == \A b \in MCBlocks : Len(b.ref) < Len(b.id)
ASSUME TotalsGrow ==
  \A m \in MCMicros : Parent(m.total) = Parent(m.prev) /\ Count(m.total) > Count(m.prev)
Short == UNION {[1 .. n -> 1 .. 3] : n \in 0 .. 2}
ASSUME SplitsPass ==
  \A ledger, a, b \in Short :
    MCApplicable(ledger, a) /\ MCApplicable(ledger \o a, b) => MCApplicable(ledger, a \o b)
ASSUME ExtensionsLinked ==
  \A e \in MCExtensions : \A i \in 1 .. Len(e) - 1 : e[i + 1].ref = e[i].id
=============================================================================

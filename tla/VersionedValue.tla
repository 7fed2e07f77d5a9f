--------------------------- MODULE VersionedValue ---------------------------
(***************************************************************************)
(* One versioned entry of the database: LevelDBWriter.scala keeps, for a   *)
(* balance, a script, a data entry and so on, the list of heights at which *)
(* it changed and one value per such height.  Appending a block trims what *)
(* no rollback can need any more; a rollback removes one height at a time. *)
(*                                                                         *)
(* The list is kept newest first and heights only enter it in ascending    *)
(* order, so a set of heights represents it and its head is the largest.   *)
(***************************************************************************)
EXTENDS Integers

CONSTANTS Values, NoValue,
          MaxRollbackDepth,   \* dbSettings.maxRollbackDepth
          SnapshotDepth,      \* 1000 more for Waves and lease balances, else 0
          MaxHeight           \* bound: heights explored

ASSUME DepthAssumption ==
  /\ MaxRollbackDepth \in Nat \ {0}
  /\ SnapshotDepth \in Nat
  /\ MaxHeight \in Nat

VARIABLES height,   \* Keys.height
          safe,     \* Keys.safeRollbackHeight
          hist,     \* the heights in the history key
          data      \* the stored values, one for each height in hist

vars == <<height, safe, hist, data>>

-----------------------------------------------------------------------------
\* (c1, c2) of updateHistory; the head of c2 is its largest element.
Newer(threshold) == {h \in hist : h > threshold}
NewestOld(threshold) ==
  {h \in hist : h <= threshold /\ \A x \in hist : x <= threshold => x <= h}

\* Mutant: everything at or below the threshold is dropped.
UpdateHistoryNewerOnly(h, threshold) == {h} \cup Newer(threshold)

UpdateHistory(h, threshold) == {h} \cup Newer(threshold) \cup NewestOld(threshold)

Threshold == height + 1 - (MaxRollbackDepth + SnapshotDepth)
SafeFloor == height + 1 - MaxRollbackDepth

\* doAppend, as far as this entry is concerned: the block changes it or not.
DoAppend(changed, v) ==
  /\ height < MaxHeight
  /\ height' = height + 1
  /\ safe' = IF safe < SafeFloor THEN SafeFloor ELSE safe
  /\ IF changed
     THEN /\ hist' = UpdateHistory(height + 1, Threshold)
          /\ data' = [h \in hist' |-> IF h = height + 1 THEN v ELSE data[h]]
     ELSE UNCHANGED <<hist, data>>

\* Mutant: the height stays in the history, only its value is deleted.
DoRollbackKeepingHistory ==
  /\ height - 1 > safe
  /\ height' = height - 1
  /\ data' = [h \in hist \ {height} |-> data[h]]
  /\ UNCHANGED <<safe, hist>>

\* One step of doRollback: filterHistory and the deletion of the value.
DoRollback ==
  /\ height - 1 > safe
  /\ height' = height - 1
  /\ hist' = hist \ {height}
  /\ data' = [h \in hist \ {height} |-> data[h]]
  /\ UNCHANGED safe

Init ==
  /\ height = 0
  /\ safe = 0
  /\ hist = {}
  /\ data = [h \in {} |-> NoValue]

Next ==
  \/ \E v \in Values, changed \in BOOLEAN : DoAppend(changed, v)
  \/ DoRollback

Spec == Init /\ [][Next]_vars

-----------------------------------------------------------------------------
\* h is the version that counts at height t; 0 stands for none.
IsLast(h, t) ==
  /\ h \in hist \cup {0}
  /\ h <= t
  /\ \A x \in hist : x <= t => x <= h
LastAt(t) == CHOOSE h \in hist \cup {0} : IsLast(h, t)
\* A key that is absent parses to the entry's default.
Stored(h) == IF h \in DOMAIN data THEN data[h] ELSE NoValue
ValueAt(t) == Stored(LastAt(t))

\* fromHistory: the value at the head of the list.
Newest == {h \in hist : \A x \in hist : x <= h}
FromHistory == IF hist = {} THEN NoValue ELSE Stored(CHOOSE h \in Newest : TRUE)

Window == INSTANCE StateWindow
            WITH lo <- safe, hi <- height, val <- [t \in safe .. height |-> ValueAt(t)]

\* Trimming and rollback never lose or resurrect a version: the entry behaves
\* as the window of its last values, for whatever mixture of blocks that change
\* it, blocks that do not, and rollbacks down to the safe height.
RefinesWindow == Window!WinSpec

\* What readers get from the head of the list is the value as of the current
\* height: no version of an abandoned block is left above it.
ReadsCurrent == FromHistory = ValueAt(height)

\* The inductive invariant of the proof.
TypeOK ==
  /\ height \in Nat
  /\ safe \in Nat
  /\ hist \in SUBSET (Nat \ {0})
  /\ data \in [hist -> Values]
VersionsKnown ==
  /\ \A h \in hist : h <= height
  /\ \A t \in safe .. height : \E h \in hist \cup {0} : IsLast(h, t)
SafeInWindow == safe <= height /\ (height > 0 => safe < height)
WindowInv == TypeOK /\ VersionsKnown /\ SafeInWindow
=============================================================================

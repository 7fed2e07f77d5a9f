------------------------ MODULE VersionedValueProofs ------------------------
(***************************************************************************)
(* Every versioned entry of the database implements StateWindow, for every *)
(* rollback depth, every extra snapshot depth and every set of values.     *)
(*                                                                         *)
(* The invariant says that for each height of the window some version is   *)
(* the last one at or before it; existence is carried along instead of     *)
(* being derived from the finiteness of the history.                       *)
(***************************************************************************)
EXTENDS VersionedValue, TLAPS

\* The last version at a height is unique.
LEMMA LastUnique ==
  ASSUME TypeOK, NEW t \in Nat, NEW h \in hist \cup {0}, IsLast(h, t)
  PROVE  LastAt(t) = h
<1>1. ASSUME NEW g \in hist \cup {0}, IsLast(g, t) PROVE g = h
  <2>1. h \in Nat /\ g \in Nat
    BY DEF TypeOK
  <2>2. g \in hist => g <= h
    BY <1>1 DEF IsLast
  <2>3. h \in hist => h <= g
    BY <1>1 DEF IsLast
  <2> QED BY <2>1, <2>2, <2>3
<1> QED BY <1>1 DEF LastAt

\* No block is lost between the heights of the window.
LEMMA InitInv == Init => WindowInv
<1> SUFFICES ASSUME Init PROVE WindowInv OBVIOUS
<1>1. TypeOK /\ SafeInWindow
  BY DEF Init, TypeOK, SafeInWindow
<1>2. \A t \in safe .. height : IsLast(0, t)
  BY DEF Init, IsLast
<1>3. VersionsKnown
  BY <1>2 DEF Init, VersionsKnown
<1> QED BY <1>1, <1>3 DEF WindowInv

\* The version that counts at a height of the new window was the one that
\* counted before, and the trimming of updateHistory keeps it.
LEMMA AppendKeepsLast ==
  ASSUME WindowInv, NEW changed \in BOOLEAN, NEW v \in Values, DoAppend(changed, v),
         NEW t \in safe' .. height
  PROVE  \E h \in hist \cup {0} : /\ h \in hist' \cup {0}
                                  /\ IsLast(h, t)
                                  /\ IsLast(h, t)'
<1> USE DepthAssumption
<1>1. t \in Nat /\ t \in safe .. height /\ t <= height /\ Threshold <= t
  BY DEF DoAppend, WindowInv, TypeOK, SafeFloor, Threshold
<1>2. PICK h \in hist \cup {0} : IsLast(h, t)
  BY <1>1 DEF WindowInv, VersionsKnown
<1>3. hist' \subseteq hist \cup {height + 1}
  BY DEF DoAppend, UpdateHistory, Newer, NewestOld
<1>4. h \in Nat /\ Threshold \in Int /\ \A x \in hist : x \in Nat
  BY DEF WindowInv, TypeOK, Threshold
<1>5. h \in hist' \cup {0}
  <2>1. CASE ~changed
    BY <2>1 DEF DoAppend
  <2>2. CASE changed /\ h = 0
    BY <2>2
  <2>3. CASE changed /\ h \in hist /\ h > Threshold
    BY <2>3 DEF DoAppend, UpdateHistory, Newer
  <2>4. CASE changed /\ h \in hist /\ h <= Threshold
    <3>1. \A x \in hist : x <= Threshold => x <= h
      BY <1>1, <1>2, <1>4 DEF IsLast
    <3>2. h \in NewestOld(Threshold)
      BY <2>4, <3>1 DEF NewestOld
    <3> QED BY <2>4, <3>2 DEF DoAppend, UpdateHistory
  <2> QED BY <1>4, <2>1, <2>2, <2>3, <2>4
<1>6. IsLast(h, t)'
  <2>1. \A x \in hist' : x <= t => x <= h
    <3> SUFFICES ASSUME NEW x \in hist', x <= t PROVE x <= h OBVIOUS
    <3>1. x # height + 1
      BY <1>1 DEF WindowInv, TypeOK
    <3>2. x \in hist
      BY <1>3, <3>1
    <3> QED BY <1>2, <3>2 DEF IsLast
  <2> QED BY <1>2, <1>5, <2>1 DEF IsLast
<1> QED BY <1>2, <1>5, <1>6

LEMMA StepInv == WindowInv /\ [Next]_vars => WindowInv'
<1> SUFFICES ASSUME WindowInv, [Next]_vars PROVE WindowInv' OBVIOUS
<1> USE DepthAssumption
<1>1. ASSUME NEW changed \in BOOLEAN, NEW v \in Values, DoAppend(changed, v)
      PROVE WindowInv'
  <2> USE <1>1
  <2>1. hist' \subseteq hist \cup {height + 1}
    BY DEF DoAppend, UpdateHistory, Newer, NewestOld
  <2>2. height' \in Nat /\ safe' \in Nat /\ SafeInWindow'
    BY DEF DoAppend, WindowInv, TypeOK, SafeInWindow, SafeFloor
  <2>3. hist' \in SUBSET (Nat \ {0})
    BY <2>1 DEF WindowInv, TypeOK
  <2>4. data' \in [hist' -> Values]
    BY <2>1 DEF DoAppend, WindowInv, TypeOK
  <2>5. \A h \in hist' : h <= height'
    <3> SUFFICES ASSUME NEW h \in hist' PROVE h <= height' OBVIOUS
    <3>1. CASE h = height + 1
      BY <3>1 DEF DoAppend, WindowInv, TypeOK
    <3>2. CASE h \in hist
      <4>1. h <= height /\ h \in Nat /\ height \in Nat
        BY <3>2 DEF WindowInv, TypeOK, VersionsKnown
      <4> QED BY <4>1 DEF DoAppend
    <3> QED BY <2>1, <3>1, <3>2
  <2>6. ASSUME NEW t \in safe' .. height' PROVE \E h \in hist' \cup {0} : IsLast(h, t)'
    <3>1. height' = height + 1 /\ height \in Nat
      BY DEF DoAppend, WindowInv, TypeOK
    <3>2. CASE t <= height
      <4>1. t \in safe' .. height
        BY <2>2, <3>1, <3>2
      <4> QED BY <4>1, AppendKeepsLast
    <3>3. CASE t = height + 1 /\ changed
      <4>1. t \in hist'
        BY <3>3 DEF DoAppend, UpdateHistory
      <4>2. IsLast(t, t)'
        BY <2>5, <3>1, <3>3, <4>1 DEF IsLast
      <4> QED BY <4>1, <4>2
    <3>4. CASE t = height + 1 /\ ~changed
      <4>1. height \in safe .. height
        BY DEF WindowInv, TypeOK, SafeInWindow
      <4>2. PICK h \in hist \cup {0} : IsLast(h, height)
        BY <4>1 DEF WindowInv, VersionsKnown
      <4>3. hist' = hist
        BY <3>4 DEF DoAppend
      <4>4. h \in Nat /\ \A x \in hist : x <= h
        BY <4>2 DEF WindowInv, VersionsKnown, IsLast, TypeOK
      <4>5. h <= t
        BY <3>1, <3>4, <4>2, <4>4 DEF IsLast
      <4>6. IsLast(h, t)'
        BY <4>2, <4>3, <4>4, <4>5 DEF IsLast
      <4> QED BY <4>2, <4>3, <4>6
    <3> QED BY <2>2, <3>1, <3>2, <3>3, <3>4
  <2> QED BY <2>2, <2>3, <2>4, <2>5, <2>6 DEF WindowInv, TypeOK, VersionsKnown
<1>2. ASSUME DoRollback PROVE WindowInv'
  <2> USE <1>2
  <2>1. TypeOK' /\ SafeInWindow'
    BY DEF DoRollback, WindowInv, TypeOK, SafeInWindow
  <2>2. \A h \in hist' : h <= height'
    <3> SUFFICES ASSUME NEW h \in hist' PROVE h <= height' OBVIOUS
    <3>1. h \in Nat /\ h <= height /\ h # height /\ height \in Nat
      BY DEF DoRollback, WindowInv, TypeOK, VersionsKnown
    <3> QED BY <3>1 DEF DoRollback
  <2>3. ASSUME NEW t \in safe' .. height' PROVE \E h \in hist' \cup {0} : IsLast(h, t)'
    <3>1. t \in safe .. height /\ t < height /\ t \in Nat /\ height \in Nat
      BY DEF DoRollback, WindowInv, TypeOK
    <3>2. PICK h \in hist \cup {0} : IsLast(h, t)
      BY <3>1 DEF WindowInv, VersionsKnown
    <3>3. h # height
      BY <3>1, <3>2 DEF IsLast, WindowInv, TypeOK
    <3>4. IsLast(h, t)'
      BY <3>2, <3>3 DEF IsLast, DoRollback
    <3> QED BY <3>2, <3>3, <3>4 DEF DoRollback
  <2> QED BY <2>1, <2>2, <2>3 DEF WindowInv, VersionsKnown
<1>3. CASE UNCHANGED vars
  BY <1>3 DEF vars, WindowInv, TypeOK, VersionsKnown, SafeInWindow, IsLast
<1> QED BY <1>1, <1>2, <1>3 DEF Next

LEMMA Invariance == Spec => []WindowInv
<1> QED BY InitInv, StepInv, PTL DEF Spec

-----------------------------------------------------------------------------
\* What the window of the abstract specification is in the concrete state.
WindowOf == [t \in safe .. height |-> ValueAt(t)]

LEMMA InitMaps == Init => Window!WinInit
<1> SUFFICES ASSUME Init PROVE Window!WinInit OBVIOUS
<1>1. WindowInv
  BY InitInv
<1>2. 0 \in Nat /\ 0 \in hist \cup {0} /\ IsLast(0, 0)
  BY DEF Init, IsLast
<1>3. LastAt(0) = 0
  BY <1>1, <1>2, LastUnique DEF WindowInv
<1>4. ValueAt(0) = NoValue
  BY <1>3 DEF ValueAt, Stored, Init
<1>5. safe .. height = {0}
  BY DEF Init
<1>6. WindowOf = [t \in {0} |-> NoValue]
  BY <1>4, <1>5 DEF WindowOf
<1> QED BY <1>6 DEF Init, Window!WinInit, WindowOf

\* A block keeps the values of the window and adds one.
LEMMA AppendMaps ==
  ASSUME WindowInv, WindowInv', NEW changed \in BOOLEAN, NEW v \in Values,
         DoAppend(changed, v)
  PROVE  \E w \in Values \cup {NoValue} : Window!Push(w)
<1> USE DepthAssumption
<1>1. height \in Nat /\ safe \in Nat /\ safe' \in Nat /\ safe' <= height' /\ height' = height + 1
  BY DEF DoAppend, WindowInv, TypeOK, SafeInWindow
<1>2. ASSUME NEW t \in safe' .. height PROVE ValueAt(t)' = ValueAt(t)
  <2>1. PICK h \in hist \cup {0} : h \in hist' \cup {0} /\ IsLast(h, t) /\ IsLast(h, t)'
    BY AppendKeepsLast
  <2>2. t \in Nat
    BY <1>1
  <2>3. LastAt(t) = h
    BY <2>1, <2>2, LastUnique DEF WindowInv
  <2>4. TypeOK'
    BY DEF WindowInv
  <2>5. ASSUME NEW g \in hist' \cup {0}, IsLast(g, t)' PROVE g = h
    <3>1. h \in Nat /\ g \in Nat
      BY <2>1, <2>4 DEF TypeOK
    <3>2. g \in hist' => g <= h
      BY <2>1, <2>5 DEF IsLast
    <3>3. h \in hist' => h <= g
      BY <2>1, <2>5 DEF IsLast
    <3> QED BY <2>1, <3>1, <3>2, <3>3
  <2>6. LastAt(t)' = h
    BY <2>1, <2>5 DEF LastAt
  <2>7. h # height + 1
    BY <1>1, <2>1, <2>2 DEF IsLast
  <2>8. DOMAIN data = hist /\ DOMAIN data' = hist' /\ 0 \notin hist /\ 0 \notin hist'
    BY <2>4 DEF WindowInv, TypeOK
  <2>9. h \in hist <=> h \in hist'
    BY <2>1, <2>8
  <2>10. h \in hist' => data'[h] = data[h]
    BY <2>7 DEF DoAppend
  <2> QED BY <2>3, <2>6, <2>8, <2>9, <2>10 DEF ValueAt, Stored
<1>3. PICK n \in Nat : n = height + 1
  BY <1>1
<1>4. PICK w \in Values \cup {NoValue} : w = ValueAt(n)'
  <2>1. data' \in [hist' -> Values]
    BY DEF WindowInv, TypeOK
  <2>2. ValueAt(n)' \in Values \cup {NoValue}
    BY <2>1 DEF ValueAt, Stored
  <2> QED BY <2>2
<1>5. WindowOf' = [t \in safe' .. height + 1 |-> IF t = height + 1 THEN w ELSE WindowOf[t]]
  <2>1. safe' .. height' = safe' .. height + 1
    BY <1>1
  <2>2. ASSUME NEW t \in safe' .. height + 1, t # height + 1
        PROVE ValueAt(t)' = WindowOf[t]
    <3>1. t \in safe' .. height /\ t \in safe .. height
      BY <1>1, <2>2 DEF DoAppend, SafeFloor
    <3> QED BY <1>2, <3>1 DEF WindowOf
  <2>3. \A t \in safe' .. height + 1 :
          ValueAt(t)' = IF t = height + 1 THEN w ELSE WindowOf[t]
    BY <1>3, <1>4, <2>2
  <2>4. WindowOf' = [t \in safe' .. height + 1 |-> ValueAt(t)']
    BY <2>1 DEF WindowOf
  <2> QED BY <2>3, <2>4
<1>6. safe' = IF safe < height + 1 - MaxRollbackDepth THEN height + 1 - MaxRollbackDepth ELSE safe
  BY DEF DoAppend, SafeFloor
<1>7. Window!Push(w)
  BY <1>1, <1>5, <1>6 DEF Window!Push, Window!Floor, WindowOf
<1> QED BY <1>7

\* A rollback removes the last value and no other.
LEMMA RollbackMaps ==
  ASSUME WindowInv, WindowInv', DoRollback
  PROVE  Window!Pop
<1>1. height \in Nat /\ safe \in Nat /\ safe' = safe /\ height' = height - 1 /\ height - 1 > safe
  BY DEF DoRollback, WindowInv, TypeOK
<1>2. ASSUME NEW t \in safe .. height - 1 PROVE ValueAt(t)' = ValueAt(t)
  <2>1. t \in safe .. height /\ t \in Nat /\ t < height
    BY <1>1
  <2>2. PICK h \in hist \cup {0} : IsLast(h, t)
    BY <2>1 DEF WindowInv, VersionsKnown
  <2>3. LastAt(t) = h
    BY <2>1, <2>2, LastUnique DEF WindowInv
  <2>4. h \in Nat /\ h <= t
    BY <2>2 DEF WindowInv, TypeOK, IsLast
  <2>5. h # height
    BY <1>1, <2>1, <2>4
  <2>6. h \in hist' \cup {0} /\ IsLast(h, t)'
    BY <2>2, <2>5 DEF IsLast, DoRollback
  <2>7. ASSUME NEW g \in hist' \cup {0}, IsLast(g, t)' PROVE g = h
    <3>1. h \in Nat /\ g \in Nat
      BY <2>4 DEF WindowInv, TypeOK, DoRollback
    <3>2. g \in hist' => g <= h
      BY <2>6, <2>7 DEF IsLast
    <3>3. h \in hist' => h <= g
      BY <2>6, <2>7 DEF IsLast
    <3> QED BY <2>6, <3>1, <3>2, <3>3
  <2>8. LastAt(t)' = h
    BY <2>6, <2>7 DEF LastAt
  <2>9. DOMAIN data = hist /\ DOMAIN data' = hist'
    BY DEF WindowInv, TypeOK
  <2>10. h \in hist <=> h \in hist'
    BY <2>5 DEF DoRollback
  <2>11. h \in hist' => data'[h] = data[h]
    BY DEF DoRollback
  <2> QED BY <2>3, <2>8, <2>9, <2>10, <2>11 DEF ValueAt, Stored
<1>3. WindowOf' = [t \in safe .. height - 1 |-> WindowOf[t]]
  <2>1. WindowOf' = [t \in safe .. height - 1 |-> ValueAt(t)']
    BY <1>1 DEF WindowOf
  <2>2. \A t \in safe .. height - 1 : ValueAt(t)' = WindowOf[t]
    <3> SUFFICES ASSUME NEW t \in safe .. height - 1 PROVE ValueAt(t)' = WindowOf[t]
      OBVIOUS
    <3>1. t \in safe .. height
      BY <1>1
    <3> QED BY <1>2, <3>1 DEF WindowOf
  <2> QED BY <2>1, <2>2
<1> QED BY <1>1, <1>3 DEF Window!Pop, WindowOf

\* Every versioned entry of LevelDBWriter behaves as the window of its last
\* values: doAppend with updateHistory pushes, doRollback with filterHistory
\* pops, and trimming never loses a version a rollback can return to.
THEOREM ImplementsWindow == Spec => RefinesWindow
<1>1. Init => Window!WinInit
  BY InitMaps
<1>2. WindowInv /\ WindowInv' /\ [Next]_vars => [Window!WinNext]_(Window!winVars)
  <2> SUFFICES ASSUME WindowInv, WindowInv', [Next]_vars
               PROVE [Window!WinNext]_(Window!winVars)
    OBVIOUS
  <2>1. ASSUME NEW changed \in BOOLEAN, NEW v \in Values, DoAppend(changed, v)
        PROVE Window!WinNext
    BY <2>1, AppendMaps DEF Window!WinNext
  <2>2. CASE DoRollback
    BY <2>2, RollbackMaps DEF Window!WinNext
  <2>3. CASE UNCHANGED vars
    BY <2>3 DEF vars, Window!winVars, ValueAt, Stored, LastAt, IsLast
  <2> QED BY <2>1, <2>2, <2>3 DEF Next
<1>3. Spec => []WindowInv
  BY Invariance
<1> QED BY <1>1, <1>2, <1>3, PTL DEF Spec, RefinesWindow, Window!WinSpec

\* A reader always gets the value as of the current height: no rolled back
\* version stays at the head of a history.
THEOREM ReadersSeeCurrent == Spec => []ReadsCurrent
<1>1. WindowInv => ReadsCurrent
  <2> SUFFICES ASSUME WindowInv PROVE ReadsCurrent OBVIOUS
  <2>1. height \in safe .. height /\ height \in Nat
    BY DEF WindowInv, TypeOK, SafeInWindow
  <2>2. PICK h \in hist \cup {0} : IsLast(h, height)
    BY <2>1 DEF WindowInv, VersionsKnown
  <2>3. LastAt(height) = h
    BY <2>1, <2>2, LastUnique DEF WindowInv
  <2>4. \A x \in hist : x <= h
    BY <2>2 DEF WindowInv, VersionsKnown, IsLast
  <2>5. CASE hist = {}
    BY <2>3, <2>5 DEF ReadsCurrent, FromHistory, ValueAt, Stored, WindowInv, TypeOK
  <2>6. CASE hist # {}
    <3>1. h \in hist
      <4>1. PICK x \in hist : TRUE
        BY <2>6
      <4>2. x <= h /\ x \in Nat \ {0}
        BY <2>4 DEF WindowInv, TypeOK
      <4> QED BY <2>2, <4>2
    <3>2. ASSUME NEW g \in Newest PROVE g = h
      <4>1. g \in Nat /\ h \in Nat /\ g <= h /\ h <= g
        BY <2>4, <3>1 DEF Newest, WindowInv, TypeOK
      <4> QED BY <4>1
    <3>3. h \in Newest
      BY <2>4, <3>1 DEF Newest
    <3>4. (CHOOSE g \in Newest : TRUE) = h
      BY <3>2, <3>3
    <3> QED BY <2>3, <2>6, <3>4 DEF ReadsCurrent, FromHistory, ValueAt
  <2> QED BY <2>5, <2>6
<1> QED BY <1>1, Invariance, PTL
=============================================================================

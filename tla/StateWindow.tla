---------------------------- MODULE StateWindow ----------------------------
(***************************************************************************)
(* What the database promises for one piece of state: the values it had at *)
(* the heights a rollback can still return to.  A block pushes the value   *)
(* after it, the window is as long as the rollback depth, a rollback pops. *)
(***************************************************************************)
EXTENDS Integers

CONSTANTS Values, NoValue, MaxRollbackDepth

VARIABLES lo, hi, val     \* val[t] is the value as of height t, t in lo .. hi

winVars == <<lo, hi, val>>

Floor == hi + 1 - MaxRollbackDepth

WinInit == lo = 0 /\ hi = 0 /\ val = [t \in {0} |-> NoValue]

Push(v) ==
  /\ hi' = hi + 1
  /\ lo' = IF lo < Floor THEN Floor ELSE lo
  /\ val' = [t \in lo' .. hi + 1 |-> IF t = hi + 1 THEN v ELSE val[t]]

Pop ==
  /\ hi - 1 > lo
  /\ hi' = hi - 1
  /\ lo' = lo
  /\ val' = [t \in lo .. hi - 1 |-> val[t]]

WinNext == Pop \/ \E v \in Values \cup {NoValue} : Push(v)

WinSpec == WinInit /\ [][WinNext]_winVars
=============================================================================

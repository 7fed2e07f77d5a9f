----------------------------- MODULE MCUtxPool -----------------------------
(* Two transactions, the second spending what the first brings; the node    *)
(* starts with the first one confirmed.                                     *)
EXTENDS UtxPool, TLC

CONSTANTS t1, t2

Chained == t1 :> {} @@ t2 :> {t1}
OneBlock == <<{t1}>>
=============================================================================

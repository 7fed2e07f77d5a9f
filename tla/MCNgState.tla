----------------------------- MODULE MCNgState -----------------------------
(* Up to three microblocks over three ids and the base id, repeats included. *)
EXTENDS NgState

MCBaseTxs == <<1>>
MCTxs == 1 .. 4
MCIds == {"base", "m1", "m2", "m3"}
=============================================================================

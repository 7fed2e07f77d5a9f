---------------------- MODULE MCMicroBlockSynchronizer ----------------------
(* Two microblocks in a row, the first one announced by a flaky peer too. *)
EXTENDS MicroBlockSynchronizer, TLC
CONSTANTS b0, b1, m1, m2, a, f
MCPrev == m1 :> b0 @@ m2 :> m1
MCInvs == {<<a, m1>>, <<a, m2>>, <<f, m1>>}
=============================================================================

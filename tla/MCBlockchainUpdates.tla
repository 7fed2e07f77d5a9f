------------------------ MODULE MCBlockchainUpdates ------------------------
(* The universe of MCBlockchainUpdater with the event stream. *)
EXTENDS MCBlockchainUpdater, BlockchainUpdates
=============================================================================

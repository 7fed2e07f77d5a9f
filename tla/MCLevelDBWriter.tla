-------------------------- MODULE MCLevelDBWriter --------------------------
(* Small instances of LevelDBWriter. *)
EXTENDS LevelDBWriter

AllTypes == {"Transfer", "AssetTransfer", "Issue", "Reissue", "SponsorFee", "Lease",
             "LeaseCancel", "SetScript", "SetAssetScript", "Data", "InvokeScript",
             "InvokeBurn", "Exchange", "CreateAlias"}
LeaseTypes == {"Transfer", "Lease", "LeaseCancel"}
=============================================================================

-------------------------- MODULE MCExtensionLoader --------------------------
(* Two peers: p1 is flaky and its chain gets a block that does not validate; p2*)
(* is reliable and its chain takes two extensions to load.  The node starts at *)
(* the genesis block.                                                          *)
EXTENDS ExtensionLoader, TLC

CONSTANTS p1, p2

Chains == p1 :> <<1, 12>> @@ p2 :> <<1, 2, 3, 4>>
Heights == p1 :> 1 @@ p2 :> 4
Genesis == <<1>>
=============================================================================

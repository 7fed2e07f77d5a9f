----------------------------- MODULE MCFeatures -----------------------------
(* Two features voted for, one of them active from the start. *)
EXTENDS Features
=============================================================================

-------------------------- MODULE MCVersionedValue --------------------------
(* One entry over seven heights with a rollback depth of two. *)
EXTENDS VersionedValue
=============================================================================

-------------------------- MODULE MCRegistryCache --------------------------
(***************************************************************************)
(* An instance of RegistryCache for TLC.                                   *)
(***************************************************************************)
EXTENDS RegistryCache
=============================================================================

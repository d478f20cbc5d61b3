---------------------------- MODULE MCTokenCache ----------------------------
(***************************************************************************)
(* An instance of TokenCache for TLC: tokens expired on arrival, shorter   *)
(* than the margin allows for long, and longer than the maximum.           *)
(***************************************************************************)
EXTENDS TokenCache

MCLives == {0, 3, 7}
=============================================================================

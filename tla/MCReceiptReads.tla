-------------------------- MODULE MCReceiptReads --------------------------
(***************************************************************************)
(* An instance of ReceiptReads, and with it of ReceiptChain, for TLC:      *)
(* three calls of record() on two replicas, and one reader.                *)
(***************************************************************************)
EXTENDS ReceiptReads, TLC

CONSTANTS r1, r2, r3, p1, p2

MCHost == r1 :> p1 @@ r2 :> p1 @@ r3 :> p2

MCVerdict ==
  r1 :> [spiffe_id |-> "x", reason |-> "allowed", deny |-> FALSE, enforced |-> TRUE]
  @@ r2 :> [spiffe_id |-> "y", reason |-> "no capability", deny |-> TRUE, enforced |-> TRUE]
  @@ r3 :> [spiffe_id |-> "x", reason |-> "suspended", deny |-> TRUE, enforced |-> FALSE]

MCFilters == {Calls, {r2, r3}}
=============================================================================

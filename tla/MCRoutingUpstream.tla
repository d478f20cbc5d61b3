------------------------- MODULE MCRoutingUpstream -------------------------
(***************************************************************************)
(* An instance of RoutingUpstream for TLC: the first upstream has a crm    *)
(* tool; the second has one of the same name, and a wire tool it may       *)
(* withdraw. Both may go down; the second may also answer with JSON that   *)
(* is no object.                                                           *)
(***************************************************************************)
EXTENDS RoutingUpstream

CONSTANTS crm, wire

MCTools == {crm, wire}
MCOffers == << {{crm}}, {{crm}, {crm, wire}} >>
MCFaults == << {Down}, {Down, Odd} >>
=============================================================================

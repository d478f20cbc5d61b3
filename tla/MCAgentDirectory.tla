------------------------- MODULE MCAgentDirectory -------------------------
(***************************************************************************)
(* An instance of AgentDirectory for TLC: one agent, its registration,     *)
(* suspension, reactivation, and PATCHes of either column.                 *)
(***************************************************************************)
EXTENDS AgentDirectory, TLC

CONSTANTS agent, few, many, ann, ben

Ask(kind, status, grants, owner) ==
  [kind |-> kind, target |-> agent, status |-> status,
   granted_tools |-> grants, owner |-> owner]

MCRequests ==
  { Ask("create", "active", few, ann),
    Ask("set_status", "suspended", None, None),
    Ask("set_status", "active", None, None),
    Ask("update", None, many, None),
    Ask("update", None, few, ben) }
=============================================================================

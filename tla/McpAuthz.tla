------------------------------ MODULE McpAuthz ------------------------------
(***************************************************************************)
(* The default authorization policy, resources/policies/mcp_authz.rego, as *)
(* the gateway sees it through POST /v1/data/openagent/authz: pure         *)
(* operators over a registry record, a request and the verified subject.   *)
(*                                                                         *)
(* A request's arguments are abstracted to what the policy can tell apart: *)
(* args = "over" stands for any arguments whose credit_limit compares      *)
(* greater than 10000 in Rego, "within" for all others.                    *)
(***************************************************************************)
CONSTANTS
  Tools,        \* tool names
  LimitedTool,  \* "salesforce_update_account", the tool with a threshold rule
  Roles,        \* role names an IdP may put in a subject token
  None          \* absent value (JSON null)

Methods == {"tools/list", "tools/call", "other"}
Arguments == {"within", "over"}
RiskTiers == {"low", "medium", "high"}
AgentStatus == {"active", "suspended"}

\* domain/models.py ToolGrant: one entry of granted_tools.
ToolGrant ==
  [name: Tools, risk_tier: RiskTiers \cup {None},
   approval_required: BOOLEAN, required_roles: SUBSET Roles]

\* domain/models.py RegisteredAgent, without its descriptive fields. Nothing
\* in the code stops two entries from naming the same tool.
RegisteredAgent == [status: AgentStatus, granted_tools: SUBSET ToolGrant]

GrantsFor(reg, tool) == {g \in reg.granted_tools : g.name = tool}

Granted(reg, tool) == GrantsFor(reg, tool) # {}

RequiresDelegation(grant) ==
  grant.approval_required \/ grant.required_roles # {}

HasAnyRole(required, actual) == required \cap actual # {}

OverThreshold(tool, args) == tool = LimitedTool /\ args = "over"

\* Mutant of TermsViolated: no subject, no terms.
TermsViolatedIfSubject(grant, subject) ==
  /\ grant.required_roles # {}
  /\ subject # None
  /\ ~HasAnyRole(grant.required_roles, subject.roles)

\* What the terms of one grant forbid to a call acting for this subject.
TermsViolated(grant, subject) ==
  \/ RequiresDelegation(grant) /\ subject = None
  \/ /\ grant.required_roles # {}
     /\ subject # None
     /\ ~HasAnyRole(grant.required_roles, subject.roles)

GuardrailViolation(reg, tool, args, subject) ==
  \/ OverThreshold(tool, args)
  \/ \E g \in GrantsFor(reg, tool) : TermsViolated(g, subject)

Allow(reg, method, tool, args, subject) ==
  \/ method = "tools/list"
  \/ /\ method = "tools/call"
     /\ reg.status = "active"
     /\ Granted(reg, tool)
     /\ ~GuardrailViolation(reg, tool, args, subject)

\* grant_for(tool) is a Rego function: two different grants of one tool make
\* it produce two outputs, which aborts the evaluation (HTTP 500 from OPA).
GrantConflict(reg, method, tool) ==
  method = "tools/call" /\ \E g, h \in GrantsFor(reg, tool) : g # h

\* Everything one query may answer. With a conflict OPA may still stop early
\* at the threshold rule, before it reaches grant_for.
Evaluations(reg, method, tool, args, subject) ==
  LET conflict == GrantConflict(reg, method, tool)
      verdict  == IF Allow(reg, method, tool, args, subject)
                    THEN "ALLOW" ELSE "DENY"
  IN  (IF conflict THEN {"error"} ELSE {})
        \cup (IF conflict /\ ~OverThreshold(tool, args) THEN {} ELSE {verdict})
=============================================================================

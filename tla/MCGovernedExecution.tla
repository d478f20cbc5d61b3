------------------------ MODULE MCGovernedExecution ------------------------
(***************************************************************************)
(* Instances of GovernedExecution for TLC.                                 *)
(***************************************************************************)
EXTENDS GovernedExecution, TLC

CONSTANTS c1, c2, agent, alice, bob, client, other, crm, wire, hr, approver

MCTools == {crm, wire, hr}

Plain(t) == [name |-> t, risk_tier |-> None, approval_required |-> FALSE,
             required_roles |-> {}]
Approved(t) == [Plain(t) EXCEPT !.approval_required = TRUE]
ForRoles(t) == [Plain(t) EXCEPT !.required_roles = {approver}]

Record_(status, grants) == [status |-> status, granted_tools |-> grants]

\* An agent with a plain grant and one reserved to a role, the same agent
\* suspended, and one with an approval-only grant and a tool granted twice.
\* Nobody is granted hr.
MCRegistrations ==
  { Record_("active", {Plain(crm), ForRoles(wire)}),
    Record_("suspended", {Plain(crm), ForRoles(wire)}),
    Record_("active", {Approved(wire), Plain(crm), Approved(crm)}) }

Caller(sponsor) ==
  [spiffe_id |-> agent, human_sponsor |-> sponsor, client_id |-> client]
User(human, actor, roles) ==
  [subject_id |-> human, authorized_actor |-> actor, roles |-> roles]

Base == [entry |-> "execute", identity |-> Caller(alice), method |-> "tools/call",
         tool |-> crm, args |-> "within", subject_token |-> None, bearer |-> TRUE]

AliceAsApprover == User(alice, None, {approver})

\* Delegated calls with the sponsor's token, another user's, one whose may_act
\* names this client or another, and none; autonomous calls with and without a
\* bearer token, one with an invalid subject token, one for a tool that is not
\* granted; no identity at all.
MCRequests ==
  { [Base EXCEPT !.tool = wire, !.subject_token = AliceAsApprover],
    [Base EXCEPT !.subject_token = User(bob, None, {})],
    [Base EXCEPT !.tool = wire, !.subject_token = User(bob, client, {})],
    [Base EXCEPT !.subject_token = User(alice, other, {})],
    [Base EXCEPT !.tool = wire],
    [Base EXCEPT !.entry = "authorize"],
    [Base EXCEPT !.identity = Caller(None), !.args = "over"],
    [Base EXCEPT !.identity = Caller(None), !.tool = hr],
    [Base EXCEPT !.identity = Caller(None), !.method = "tools/list",
                 !.bearer = FALSE],
    [Base EXCEPT !.identity = Caller(None), !.method = "other",
                 !.subject_token = Invalid],
    [Base EXCEPT !.identity = None] }

\* With everything that has no timeout, with nothing of the kind, and with a
\* database alone.
Strict == [decision_mode |-> "enforce", subject_binding |-> "strict",
           mcp_upstream_mode |-> "streamable-http",
           subject_verification |-> TRUE, database |-> TRUE, redis |-> TRUE]
Lenient == [decision_mode |-> "observe", subject_binding |-> "may-act-only",
            mcp_upstream_mode |-> "raw-jsonrpc",
            subject_verification |-> TRUE, database |-> FALSE, redis |-> FALSE]
Unverified == [decision_mode |-> "observe", subject_binding |-> "off",
               mcp_upstream_mode |-> "raw-jsonrpc",
               subject_verification |-> FALSE, database |-> TRUE, redis |-> FALSE]

\* For the safety properties Redis adds no case: a lookup that is answered with
\* an older record could as well have come before the change.
TwoSettings == {[Strict EXCEPT !.redis = FALSE], Unverified}
AllSettings == {Strict, Lenient, Unverified}

CallSymmetry == Permutations(Calls)
=============================================================================

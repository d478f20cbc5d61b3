------------------------- MODULE GovernedExecution -------------------------
(***************************************************************************)
(* application/governed_execution.py: the sequence every tool call goes    *)
(* through, for any number of concurrent calls:                            *)
(*                                                                         *)
(*   identify -> lookup -> verify subject -> decide -> record -> export    *)
(*     -> (denied: answer) | broker credential -> forward -> answer        *)
(*                                                                         *)
(* A call is one coroutine; it is preempted at every await, so each step   *)
(* between two awaits is an action and the steps of different calls        *)
(* interleave with each other and with the environment: operators editing  *)
(* the registry, upstream servers that run a request late, answer late or  *)
(* never, adapters that raise, and a crash of the gateway process.         *)
(***************************************************************************)
EXTENDS McpAuthz, Naturals, Sequences

CONSTANTS
  Calls,                \* tool calls, one coroutine each
  Agents,               \* SPIFFE ids
  Humans,               \* issuer-scoped subject ids
  Clients,              \* OAuth client ids
  Invalid,              \* a token its verifier refuses
  Requests,             \* the requests that may arrive
  Registrations,        \* the records operators give agents
  Settings              \* the settings a gateway may be started with

AgentIdentity ==
  [spiffe_id: Agents, human_sponsor: Humans \cup {None},
   client_id: Clients \cup {None}]

SubjectIdentity ==
  [subject_id: Humans, authorized_actor: Clients \cup {None},
   roles: SUBSET Roles]

\* identity = None: the presented credential identifies no agent.
Request ==
  [entry: {"execute", "authorize"}, identity: AgentIdentity \cup {None},
   method: Methods, tool: Tools, args: Arguments,
   subject_token: SubjectIdentity \cup {None, Invalid}, bearer: BOOLEAN]

\* OAC_DECISION_MODE, OAC_SUBJECT_BINDING, OAC_MCP_UPSTREAM_MODE, and whether
\* there is a subject_verifier (OAC_SUBJECT_VERIFICATION_MODE), a database_url
\* and a redis_url at all.
Setting ==
  [decision_mode: {"enforce", "observe"},
   subject_binding: {"strict", "may-act-only", "off"},
   mcp_upstream_mode: {"raw-jsonrpc", "streamable-http"},
   subject_verification: BOOLEAN, database: BOOLEAN, redis: BOOLEAN]

ASSUME ConfigAssumption == Settings \subseteq Setting

\* The authorize route builds its own payload, always a tools/call.
ASSUME RequestsAssumption ==
  /\ Requests \subseteq Request
  /\ \A r \in Requests : r.entry = "authorize" => r.method = "tools/call"

ASSUME RegistrationsAssumption == Registrations \subseteq RegisteredAgent

ASSUME AbsentAssumption ==
  /\ None \notin Requests
  /\ None \notin Registrations
  /\ None \notin AgentIdentity
  /\ None \notin SubjectIdentity
  /\ Invalid \notin SubjectIdentity
  /\ Invalid # None

VARIABLES
  settings,      \* of this gateway process
  registry,      \* the record operators left, per agent
  recent,        \* the records lookup() may still answer with (RegistryPort)
  pc,            \* where the coroutine of each call stands
  req,           \* the request it serves
  registration,  \* call.registration, the record as looked up
  subject,       \* call.subject, set once verified and bound
  decision,      \* PolicyDecision, None until decided
  shadow,        \* the local of the same name
  credential,    \* what _broker_credential returned
  answer,        \* what the caller got
  listing,       \* the tools a tools/list answer named
  receipts,      \* Ledger: receipts in the order they were recorded
  exported,      \* AuditExporter: calls whose receipt was exported
  sent,          \* MCPUpstream: requests handed to the network
  effects        \* requests an upstream server has run

world == <<settings, registry, recent>>
log == <<receipts, exported>>
upstream == <<sent, effects>>
local == <<req, registration, subject, decision, shadow, credential, listing>>
vars == <<settings, registry, recent, pc, req, registration, subject, decision, shadow,
          credential, answer, listing, receipts, exported, sent, effects>>

InFlight == {"lookup", "verify", "decide", "record", "export", "broker",
             "forward", "await"}
Places == {"idle", "done", "lost"} \cup InFlight

Answers == {"identity_error", "delegation_error", "policy_violation",
            "brokering_failed", "upstream_failed", "result", "allowed",
            "refused", "internal_error"}

ASSUME AnswerAssumption == None \notin Answers

GateReasons == {"not registered", "suspended", "policy engine unavailable"}
PolicyDecision ==
  [decision: {"ALLOW", "DENY"}, reason: GateReasons \cup {"policy"}]
Receipt ==
  [call: Calls, decision: {"ALLOW", "DENY"},
   reason: GateReasons \cup {"policy"}, enforced: BOOLEAN]
Credentials == {"exchanged subject token", "exchanged agent token", "placeholder"}

Agent(c) == req[c].identity
Sponsored(c) == Agent(c).human_sponsor # None

TypeOK ==
  /\ settings \in Settings
  /\ registry \in [Agents -> Registrations \cup {None}]
  /\ recent \in [Agents -> SUBSET (Registrations \cup {None})]
  /\ pc \in [Calls -> Places]
  /\ req \in [Calls -> Requests \cup {None}]
  /\ registration \in [Calls -> Registrations \cup {None}]
  /\ subject \in [Calls -> SubjectIdentity \cup {None}]
  /\ decision \in [Calls -> PolicyDecision \cup {None}]
  /\ shadow \in [Calls -> BOOLEAN]
  /\ credential \in [Calls -> Credentials \cup {None}]
  /\ answer \in [Calls -> Answers \cup {None}]
  /\ listing \in [Calls -> SUBSET Tools]
  /\ receipts \in Seq(Receipt)
  /\ exported \subseteq Calls
  /\ effects \subseteq sent
  /\ sent \subseteq Calls

Init ==
  /\ settings \in Settings
  /\ registry \in [Agents -> Registrations \cup {None}]
  /\ recent = [a \in Agents |-> {registry[a]}]
  /\ pc = [c \in Calls |-> "idle"]
  /\ req = [c \in Calls |-> None]
  /\ registration = [c \in Calls |-> None]
  /\ subject = [c \in Calls |-> None]
  /\ decision = [c \in Calls |-> None]
  /\ shadow = [c \in Calls |-> FALSE]
  /\ credential = [c \in Calls |-> None]
  /\ answer = [c \in Calls |-> None]
  /\ listing = [c \in Calls |-> {}]
  /\ receipts = <<>>
  /\ exported = {}
  /\ sent = {}
  /\ effects = {}

-----------------------------------------------------------------------------

Goto(c, place) == pc' = [pc EXCEPT ![c] = place] /\ UNCHANGED answer

Answer(c, a) ==
  /\ pc' = [pc EXCEPT ![c] = "done"]
  /\ answer' = [answer EXCEPT ![c] = a]

\* IdentityProvider.identify: reads nothing but the request's headers. It
\* raises IdentityError for a bad credential; a JWKS fetch that fails raises
\* an exception nobody maps (HTTP 500).
Identify(c) ==
  /\ pc[c] = "idle"
  /\ \E r \in Requests :
       /\ req' = [req EXCEPT ![c] = r]
       /\ \/ r.identity = None /\ Answer(c, "identity_error")
          \/ r.identity # None /\ Goto(c, "lookup")
          \/ Answer(c, "internal_error")
  /\ UNCHANGED <<world, registration, subject, decision, shadow, credential,
                 listing, log, upstream>>

\* Mutant of Lookup: whatever record was once cached, for ever.
LookupStale(c) ==
  /\ pc[c] = "lookup"
  /\ \E r \in Registrations :
       registration' = [registration EXCEPT ![c] = r]
  /\ Goto(c, "decide")
  /\ UNCHANGED <<world, req, subject, decision, shadow, credential, listing,
                 log, upstream>>

\* AgentRegistry.lookup, through the cache when there is one. The record is
\* kept for the rest of the call; a registry or a Redis that fails raises.
Lookup(c) ==
  /\ pc[c] = "lookup"
  /\ \/ /\ \E r \in recent[Agent(c).spiffe_id] :
             registration' = [registration EXCEPT ![c] = r]
        /\ IF settings.subject_verification /\ req[c].subject_token # None
             THEN Goto(c, "verify") ELSE Goto(c, "decide")
     \/ Answer(c, "internal_error") /\ UNCHANGED registration
  /\ UNCHANGED <<world, req, subject, decision, shadow, credential, listing,
                 log, upstream>>

\* _bind_subject returns: this user authorized this agent.
Bound(agent, s) ==
  \/ settings.subject_binding = "off"
  \/ /\ s.authorized_actor # None
     /\ agent.client_id \in {None, s.authorized_actor}
  \/ /\ s.authorized_actor = None
     /\ \/ settings.subject_binding = "may-act-only"
        \/ agent.human_sponsor \in {None, s.subject_id}

\* SubjectVerifier.verify and _bind_subject. A JWKS that cannot be fetched
\* raises PyJWKClientError, which is no InvalidTokenError: nobody maps it.
VerifySubject(c) ==
  LET token == req[c].subject_token IN
  /\ pc[c] = "verify"
  /\ \/ IF token # Invalid /\ Bound(Agent(c), token)
          THEN subject' = [subject EXCEPT ![c] = token] /\ Goto(c, "decide")
          ELSE Answer(c, "identity_error") /\ UNCHANGED subject
     \/ Answer(c, "internal_error") /\ UNCHANGED subject
  /\ UNCHANGED <<world, req, registration, decision, shadow, credential,
                 listing, log, upstream>>

\* Mutant of SetDecision: observe mode softens every denial.
ShadowEveryDenial(c, verdict, reason, shadowable) ==
  /\ decision' =
       [decision EXCEPT ![c] = [decision |-> verdict, reason |-> reason]]
  /\ shadow' = [shadow EXCEPT ![c] =
       settings.decision_mode = "observe" /\ verdict # "ALLOW"]
  /\ Goto(c, "record")

\* Only an explicit DENY of the policy engine can be shadowed.
SetDecision(c, verdict, reason, shadowable) ==
  /\ decision' =
       [decision EXCEPT ![c] = [decision |-> verdict, reason |-> reason]]
  /\ shadow' = [shadow EXCEPT ![c] =
       shadowable /\ settings.decision_mode = "observe" /\ verdict # "ALLOW"]
  /\ Goto(c, "record")

\* The registry gate: an orphaned or suspended agent never reaches the engine.
RegistryGate(c) ==
  /\ pc[c] = "decide"
  /\ \/ /\ registration[c] = None
        /\ SetDecision(c, "DENY", "not registered", FALSE)
     \/ /\ registration[c] # None
        /\ registration[c].status # "active"
        /\ SetDecision(c, "DENY", "suspended", FALSE)
  /\ UNCHANGED <<world, req, registration, subject, credential, listing,
                 log, upstream>>

\* PolicyEngine.evaluate. The engine may be unreachable or fail (fail closed),
\* or answer 200 with a body that is no JSON object, which escapes as an
\* exception of another type.
EvaluatePolicy(c) ==
  LET r == req[c]
      outcomes == Evaluations(registration[c], r.method, r.tool, r.args, subject[c])
  IN
  /\ pc[c] = "decide"
  /\ registration[c] # None
  /\ registration[c].status = "active"
  /\ \/ \E v \in outcomes \ {"error"} : SetDecision(c, v, "policy", TRUE)
     \/ SetDecision(c, "DENY", "policy engine unavailable", FALSE)
     \/ Answer(c, "internal_error") /\ UNCHANGED <<decision, shadow>>
  /\ UNCHANGED <<world, req, registration, subject, credential, listing,
                 log, upstream>>

\* Mutant of Record: a ledger outage does not stop the call.
RecordBestEffort(c) ==
  /\ pc[c] = "record"
  /\ Goto(c, "export")
  /\ \/ receipts' = Append(receipts,
             [call |-> c, decision |-> decision[c].decision,
              reason |-> decision[c].reason, enforced |-> ~shadow[c]])
     \/ UNCHANGED receipts
  /\ UNCHANGED <<world, local, exported, upstream>>

\* Mutant of Record: an insert whose outcome is unknown is tried again.
RecordWithRetry(c) ==
  /\ pc[c] = "record"
  /\ Len(receipts) <= 2
  /\ receipts' = Append(receipts,
       [call |-> c, decision |-> decision[c].decision,
        reason |-> decision[c].reason, enforced |-> ~shadow[c]])
  /\ Goto(c, "export") \/ UNCHANGED <<pc, answer>>
  /\ UNCHANGED <<world, local, exported, upstream>>

\* Ledger.record(agent, call, decision, enforced=not shadow). A ledger that
\* raises may have committed the receipt all the same (see ReceiptChain).
Record(c) ==
  /\ pc[c] = "record"
  /\ \/ /\ receipts' = Append(receipts,
             [call |-> c, decision |-> decision[c].decision,
              reason |-> decision[c].reason, enforced |-> ~shadow[c]])
        /\ Goto(c, "export") \/ Answer(c, "internal_error")
     \/ Answer(c, "internal_error") /\ UNCHANGED receipts
  /\ UNCHANGED <<world, local, exported, upstream>>

\* Mutant of Allowed: the caller gates on the policy's raw decision.
AllowedByPolicy(c) == decision[c].decision = "ALLOW"

\* AuthorizationOutcome.allowed: the effective answer, not the policy's.
Allowed(c) == decision[c].decision = "ALLOW" \/ shadow[c]

\* AuditExporter.export, then the return to authorize() or execute().
Export(c) ==
  /\ pc[c] = "export"
  /\ \/ /\ exported' = exported \cup {c}
        /\ \/ /\ req[c].entry = "authorize"
              /\ Answer(c, IF Allowed(c) THEN "allowed" ELSE "refused")
           \/ /\ req[c].entry = "execute"
              /\ IF Allowed(c) THEN Goto(c, "broker")
                               ELSE Answer(c, "policy_violation")
     \/ Answer(c, "internal_error") /\ UNCHANGED exported
  /\ UNCHANGED <<world, local, receipts, upstream>>

\* _broker_credential: a sponsored call needs the sponsor's token; any other
\* call exchanges the agent's own, or has none at all (header identity).
BrokerCredential(c) ==
  /\ pc[c] = "broker"
  /\ \/ /\ Sponsored(c) /\ req[c].subject_token = None
        /\ Answer(c, "delegation_error") /\ UNCHANGED credential
     \/ /\ ~Sponsored(c) /\ ~req[c].bearer
        /\ credential' = [credential EXCEPT ![c] = "placeholder"]
        /\ Goto(c, "forward")
     \/ /\ IF Sponsored(c) THEN req[c].subject_token # None ELSE req[c].bearer
        /\ \/ /\ credential' = [credential EXCEPT ![c] =
                   IF Sponsored(c) THEN "exchanged subject token"
                                   ELSE "exchanged agent token"]
              /\ Goto(c, "forward")
           \/ Answer(c, "brokering_failed") /\ UNCHANGED credential
           \/ Answer(c, "internal_error") /\ UNCHANGED credential
  /\ UNCHANGED <<world, req, registration, subject, decision, shadow, listing,
                 log, upstream>>

\* MCPUpstream.forward up to the await on the response.
Forward(c) ==
  /\ pc[c] = "forward"
  /\ sent' = sent \cup {c}
  /\ Goto(c, "await")
  /\ UNCHANGED <<world, local, log, effects>>

\* _filter_listing: what the upstream advertises, projected to the grants. A
\* body without a result, or whose tools are no list (catalogue = None), is
\* passed through as it came: it lists nothing in the sense of the protocol.
FilterListing(c, catalogue) ==
  IF req[c].method = "tools/list" /\ catalogue # None
    THEN catalogue \cap {g.name : g \in registration[c].granted_tools}
    ELSE {}

\* A response arrives: a result (a listing names any of the tools).
Reply(c) ==
  /\ pc[c] = "await"
  /\ c \in effects
  /\ \E catalogue \in (SUBSET Tools) \cup {None} :
       listing' = [listing EXCEPT ![c] = FilterListing(c, catalogue)]
  /\ Answer(c, "result")
  /\ UNCHANGED <<world, req, registration, subject, decision, shadow,
                 credential, log, upstream>>

\* Mutant of UpstreamFails: no timeout on the upstream's answer.
UpstreamFailsAfterEffect(c) ==
  /\ pc[c] = "await"
  /\ c \in effects
  /\ Answer(c, "upstream_failed")
  /\ UNCHANGED <<world, local, log, upstream>>

\* A timeout, a refused connection or an error status (UpstreamError), or a
\* body that is no JSON. The request may have run, and may still run.
UpstreamFails(c) ==
  /\ pc[c] = "await"
  /\ \E a \in {"upstream_failed", "internal_error"} : Answer(c, a)
  /\ UNCHANGED <<world, local, log, upstream>>

-----------------------------------------------------------------------------
(* The environment.                                                        *)

\* A tool server runs a request it was sent, however late.
UpstreamRuns(c) ==
  /\ c \in sent \ effects
  /\ effects' = effects \cup {c}
  /\ UNCHANGED <<world, pc, local, answer, log, sent>>

\* Operators register, re-scope, suspend and reactivate agents at any time;
\* nothing invalidates what the cache holds.
OperatorSets(a) ==
  /\ \E r \in (Registrations \cup {None}) \ {registry[a]} :
       /\ registry' = [registry EXCEPT ![a] = r]
       /\ recent' = [recent EXCEPT ![a] =
            IF settings.redis THEN recent[a] \cup {r} ELSE {r}]
  /\ UNCHANGED <<settings, pc, local, answer, log, upstream>>

\* A replaced record has been out of the registry for longer than the cache may
\* keep it (RegistryCache says how long that is).
Expire(a) ==
  /\ \E r \in recent[a] \ {registry[a]} :
       recent' = [recent EXCEPT ![a] = recent[a] \ {r}]
  /\ UNCHANGED <<settings, registry, pc, local, answer, log, upstream>>

\* The gateway process dies: its coroutines are gone, the ledger is not.
GatewayCrash ==
  /\ \E c \in Calls : pc[c] \in InFlight
  /\ pc' = [c \in Calls |-> IF pc[c] \in InFlight THEN "lost" ELSE pc[c]]
  /\ UNCHANGED <<world, local, answer, log, upstream>>

\* The steps of an identified call's coroutine.
Proceed(c) ==
  \/ Lookup(c) \/ VerifySubject(c) \/ RegistryGate(c) \/ EvaluatePolicy(c)
  \/ Record(c) \/ Export(c) \/ BrokerCredential(c) \/ Forward(c)
  \/ Reply(c) \/ UpstreamFails(c)

Next ==
  \/ \E c \in Calls : Identify(c) \/ Proceed(c) \/ UpstreamRuns(c)
  \/ \E a \in Agents : OperatorSets(a) \/ Expire(a)
  \/ GatewayCrash

\* The awaits for which no client sets a timeout: a statement or a lock of the
\* database (adapters/db/session.py), a command of Redis (gateway/
\* dependencies.py; the lookup and the token exchange go through it), and the
\* response of a streamable HTTP session, which is given no read timeout.
Untimed ==
  (IF settings.database THEN {"lookup", "record"} ELSE {})
    \cup (IF settings.redis THEN {"lookup", "broker"} ELSE {})
    \cup (IF settings.mcp_upstream_mode = "streamable-http" THEN {"await"} ELSE {})

\* A coroutine goes on wherever its await has a timeout. Nothing makes
\* requests arrive, operators act, upstreams answer or a database respond.
Fairness == \A c \in Calls : WF_vars(pc[c] \notin Untimed /\ Proceed(c))

Spec == Init /\ [][Next]_vars /\ Fairness

-----------------------------------------------------------------------------
(* Safety.                                                                 *)

Permits(receipt) == receipt.decision = "ALLOW" \/ ~receipt.enforced

Receipted(c) == \E i \in DOMAIN receipts : receipts[i].call = c
ReceiptPermits(c) ==
  \E i \in DOMAIN receipts : receipts[i].call = c /\ Permits(receipts[i])
ReceiptRefuses(c) ==
  \E i \in DOMAIN receipts : receipts[i].call = c /\ ~Permits(receipts[i])

\* No request leaves for an upstream, whatever fails or crashes on the way,
\* unless a receipt that permits it is already in the ledger; nothing is
\* exported for audit that the ledger does not hold; and a call has at most
\* one receipt, so no other verdict contradicts it.
WriteAhead ==
  /\ \A c \in sent : ReceiptPermits(c)
  /\ \A c \in exported : Receipted(c)
  /\ \A i, j \in DOMAIN receipts : receipts[i].call = receipts[j].call => i = j

\* What the answer of one call says about its receipt and its request.
Truthful(c) ==
  /\ answer[c] = "identity_error" => ~Receipted(c) /\ c \notin sent
  /\ answer[c] \in {"policy_violation", "refused"} =>
       ReceiptRefuses(c) /\ c \notin sent
  /\ answer[c] \in {"delegation_error", "brokering_failed"} =>
       ReceiptPermits(c) /\ c \notin sent
  /\ answer[c] \in {"upstream_failed", "result"} =>
       ReceiptPermits(c) /\ c \in sent
  /\ answer[c] = "allowed" => ReceiptPermits(c) /\ c \notin sent

\* What a caller is told agrees with the ledger and with the upstream: an
\* identity error left no trace, a refusal has a refusing receipt, a failed
\* brokering has a permitting one but never reached an upstream, and only a
\* permitted call gets a result or an upstream's failure.
AnswerTellsTheTruth == \A c \in Calls : Truthful(c)

\* What observe mode may not soften: a verdict on an orphaned or suspended
\* agent, and a verdict nobody's policy gave.
Gated(c, verdict, reason, enforced) ==
  LET reg == registration[c] IN
  /\ (reg = None \/ reason \in GateReasons) => verdict = "DENY" /\ enforced
  /\ reg # None /\ reg.status # "active" => verdict = "DENY" /\ enforced
  /\ ~enforced => settings.decision_mode = "observe" /\ verdict = "DENY"

\* ADR-0012: shadow mode softens nothing but an explicit DENY of the policy
\* engine. Every receipt of an orphaned or suspended agent, and every receipt
\* of an engine outage, is an enforced DENY, in both decision modes.
HardDenialsEnforced ==
  \A i \in DOMAIN receipts :
    LET r == receipts[i] IN Gated(r.call, r.decision, r.reason, r.enforced)

\* The calls the gateway let go ahead, by forwarding or by answering.
Cleared == sent \cup {c \in Calls : answer[c] = "allowed"}

\* The call keeps to the grants of its record, with the user they ask for.
WithinGrant(c) ==
  LET reg == registration[c] IN
  /\ Granted(reg, req[c].tool)
  /\ ~(req[c].tool = LimitedTool /\ req[c].args = "over")
  /\ \A g \in GrantsFor(reg, req[c].tool) :
       /\ g.approval_required \/ g.required_roles # {} =>
            /\ settings.subject_verification
            /\ subject[c] = req[c].subject_token
            /\ subject[c] # None
       /\ g.required_roles # {} => subject[c].roles \cap g.required_roles # {}

\* The call may go ahead, for its record and its user or in shadow mode.
Entitled(c) ==
  /\ registration[c] # None /\ registration[c].status = "active"
  /\ req[c].method = "tools/call" /\ ~shadow[c] => WithinGrant(c)

Shown(c) == \A t \in listing[c] : Granted(registration[c], t)

\* ADR-0008, ADR-0021: unless observe mode shadowed its denial, a tool call
\* goes ahead only for an active agent granted that tool, within the
\* threshold, on behalf of a verified user whenever the grant asks for one,
\* and of a user with a required role whenever it names roles. ADR-0016: and in
\* every mode, no listing shows an agent a tool its record does not grant.
CapabilityRespected ==
  /\ \A c \in Cleared : Entitled(c)
  /\ \A c \in Calls : Shown(c)

\* The ledger as the abstract specification sees it.
Verdicts ==
  [i \in DOMAIN receipts |->
     [call |-> receipts[i].call, permit |-> Permits(receipts[i])]]

Audited == INSTANCE AuditedExecution WITH log <- Verdicts, effects <- effects

\* Seen from outside, the gateway is an audited executor: a verdict is
\* appended once per call, and only a call permitted by it takes effect.
AuditedSpec == Audited!Spec

\* The ledger as the port it records through sees it: whose receipt is where.
RecordedCalls == [i \in DOMAIN receipts |-> receipts[i].call]

Port == INSTANCE Ledger WITH log <- RecordedCalls

\* The gateway asks no more of a ledger than the port promises: it never has a
\* call recorded twice, and never counts on a receipt going away or moving.
PortSpec == Port!Spec

\* The registry of one agent as its calls see it.
AnswersTo(a) ==
  [c \in Calls |->
     IF req[c] # None /\ Agent(c) # None /\ Agent(c).spiffe_id = a
       THEN registration[c] ELSE None]

Registry(a) == INSTANCE RegistryPort
  WITH Readers <- Calls, Records <- Registrations \cup {None},
       current <- registry[a], recent <- recent[a], answered <- AnswersTo(a)

\* Every record the gateway decides on is one the registry port may answer with:
\* a cache that implements that port (RegistryCache) is all it relies on.
RegistrySpec ==
  /\ \A a \in Agents : Registry(a)!Init
  /\ [][\A a \in Agents : [Registry(a)!Next]_(Registry(a)!vars)]_vars

-----------------------------------------------------------------------------
(* The inductive invariant behind WriteAhead and AnswerTellsTheTruth: what   *)
(* the place of a call says about its request, its receipt and its network.  *)

BeforeRecord == {"idle", "lookup", "verify", "decide", "record"}
AfterRecord == {"export", "broker", "forward", "await"}
AfterExport == {"broker", "forward", "await"}

\* The receipt of a call says what was decided for it.
ReceiptOf(c) == \E i \in DOMAIN receipts :
  /\ receipts[i].call = c
  /\ receipts[i].decision = decision[c].decision
  /\ receipts[i].enforced = ~shadow[c]

Identified(c) ==
  pc[c] \in InFlight => req[c] \in Requests /\ req[c].identity \in AgentIdentity
Decided(c) == pc[c] \in {"record"} \cup AfterRecord => decision[c] \in PolicyDecision
Unreceipted(c) == pc[c] \in BeforeRecord => ~Receipted(c)
Recorded(c) == pc[c] \in AfterRecord => ReceiptOf(c)
Permitted(c) == pc[c] \in AfterExport => ReceiptPermits(c)
SentOnce(c) ==
  /\ pc[c] \in BeforeRecord \cup {"export", "broker", "forward"} => c \notin sent
  /\ pc[c] = "await" => c \in sent
Unanswered(c) == pc[c] # "done" => answer[c] = None

CallInv(c) ==
  /\ Identified(c)
  /\ Decided(c)
  /\ Unreceipted(c)
  /\ Recorded(c)
  /\ Permitted(c)
  /\ SentOnce(c)
  /\ Unanswered(c)

IInv ==
  /\ TypeOK
  /\ WriteAhead
  /\ AnswerTellsTheTruth
  /\ \A c \in Calls : CallInv(c)

-----------------------------------------------------------------------------
(* The inductive invariant behind HardDenialsEnforced and                  *)
(* CapabilityRespected, on top of IInv: the user, the decision and the     *)
(* listing of a call follow the record it looked up.                       *)

UserVerified(c) ==
  /\ pc[c] = "idle" => subject[c] = None
  /\ pc[c] = "verify" => settings.subject_verification
  /\ subject[c] # None =>
       settings.subject_verification /\ subject[c] = req[c].subject_token

DecisionSound(c) ==
  /\ pc[c] = "record" => Gated(c, decision[c].decision, decision[c].reason, ~shadow[c])
  /\ pc[c] \in {"record"} \cup AfterRecord /\ Allowed(c) => Entitled(c)
  /\ pc[c] \in AfterExport => Allowed(c)
  /\ c \in Cleared => Entitled(c)

ListingSound(c) ==
  /\ pc[c] # "done" => listing[c] = {}
  /\ Shown(c)

GrantInv ==
  /\ HardDenialsEnforced
  /\ \A c \in Calls : UserVerified(c) /\ DecisionSound(c) /\ ListingSound(c)

-----------------------------------------------------------------------------
(* Liveness.                                                               *)

\* Every identified call ends, or is left for ever at an await that has no
\* timeout in this gateway's settings: with a file registry, no Redis and the
\* raw upstream adapter, no failure or silence of an adapter leaves a caller
\* waiting; with any of them, only that adapter's silence can.
EveryCallEnds ==
  \A c \in Calls :
    pc[c] = "lookup" ~>
      pc[c] \in {"done", "lost"} \/ [](pc[c] \in Untimed)

Barred(r) == r = None \/ r.status = "suspended"

\* Revoked, and for long enough that no lookup gives an older record.
Revoked(a) == \A r \in recent[a] : Barred(r)
CallOf(c, a) == req[c] # None /\ Agent(c) # None /\ Agent(c).spiffe_id = a

\* What holds of a call of a from its lookup on, when that happens while a is
\* revoked: its record is one that the registry gate refuses, and it was not
\* let through.
Inactive(c) == registration[c] = None \/ registration[c].status # "active"
DeniedOf(c, a) ==
  CallOf(c, a) =>
    /\ c \notin Cleared
    /\ pc[c] \in {"idle", "lookup", "done", "lost"} \/ Inactive(c)

\* docs/user-journeys.md: a suspended agent is denied on its next call, one
\* registry cache TTL later with Redis on, at once without it. A call that has
\* yet to look its agent up when the suspension has reached every record a
\* lookup may give is never let through while the suspension stands. A call
\* that is past its lookup keeps the record it got, and may go ahead.
RevocationBinds ==
  \A c \in Calls, a \in Agents :
    [](pc[c] \in {"idle", "lookup"} /\ []Revoked(a) =>
         [](c \in Cleared => ~CallOf(c, a)))

-----------------------------------------------------------------------------
(* What the repository says, and the code does not do.                     *)

\* domain/ports.py, PolicyEngine: PolicyEngineUnavailableError whenever no
\* decision can be obtained, so that the caller fails closed with a receipt.
DecideFailsClosed ==
  [][\A c \in Calls :
       pc[c] = "decide" /\ pc'[c] # "decide" => pc'[c] \in {"record", "lost"}]_vars
=============================================================================

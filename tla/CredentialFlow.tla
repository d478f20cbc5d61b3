--------------------------- MODULE CredentialFlow ---------------------------
(***************************************************************************)
(* Which token proves what to whom. Agents collect tokens from an identity *)
(* provider and present them to the gateway, or behind its back to the MCP *)
(* server. The gateway derives the agent from them (one of three identity  *)
(* providers), verifies the user, records its verdict and exchanges one of *)
(* the presented tokens for a credential of the server's own audience.     *)
(*                                                                         *)
(* A token is the record of the claims somebody checks; whoever decodes it *)
(* checks its signature (iss stands for the key), audience and expiry. The *)
(* identity provider is the authorization server of the example scenario,  *)
(* with the tokens that Okta, Entra ID and Keycloak issue instead.         *)
(***************************************************************************)
EXTENDS Naturals, Sequences, FiniteSets

CONSTANTS
  Calls,          \* tool calls
  Agents,         \* workloads; an agent is its SPIFFE id and its client id
  Humans,         \* users, by issuer-scoped subject id
  Gateway,        \* the client id of the gateway
  ServiceAccount, \* the `sub` Keycloak and Entra give an app-only token
  None,           \* an absent claim, header or result
  Opaque,         \* a string no identity provider issued
  Settings,       \* the settings a gateway may be started with
  TokenTTL,       \* life of an agent's or a user's token
  BrokeredTTL,    \* BROKERED_TOKEN_TTL_SECONDS
  MaxTime,        \* bound on the clock
  MaxTokens       \* bound on the tokens agents hold

\* delegated_audience is the right one, or the gateway's own by mistake.
Setting ==
  [identity_mode: {"header", "jwt-svid", "oidc-jwks"},
   subject_verification: BOOLEAN,
   subject_binding: {"strict", "may-act-only", "off"},
   token_exchange_mode: {"stub", "rfc8693", "entra"},
   delegated_audience: {"gateway", "upstream"}]

ASSUME ConfigAssumption == Settings \subseteq Setting

ASSUME TimeAssumption ==
  /\ TokenTTL \in Nat /\ BrokeredTTL \in Nat
  /\ MaxTime \in Nat /\ MaxTokens \in Nat

Subjects == Agents \cup Humans \cup {ServiceAccount}

\* scope: whether the token carries the scope the MCP server requires.
Token ==
  [iss: {"idp", "spire"}, aud: {"gateway", "upstream"},
   azp: Agents \cup {None}, sub: Subjects \cup {None}, app_only: BOOLEAN,
   may_act: Agents \cup {None}, act: {Gateway, None}, scope: BOOLEAN,
   exp: Nat]

AgentIdentity ==
  [spiffe_id: Agents, human_sponsor: Humans \cup {None},
   client_id: Agents \cup {None}]

SubjectIdentity == [subject_id: Subjects, authorized_actor: Agents \cup {None}]

\* The headers the gateway reads: X-Spiffe-ID, X-Human-Sponsor,
\* Authorization: Bearer and X-Subject-Token.
Presentable == Token \cup {Opaque, None}
Headers ==
  [spiffe: Agents \cup {None}, sponsor: Humans \cup {None},
   bearer: Presentable, subject_token: Presentable]

ASSUME NamesAssumption ==
  /\ Agents \cap Humans = {}
  /\ Gateway \notin Agents
  /\ ServiceAccount \notin Agents \cup Humans
  /\ None \notin Subjects \cup {Gateway, Opaque}
  /\ None \notin Token /\ Opaque \notin Token
  /\ None \notin AgentIdentity \cup SubjectIdentity \cup Headers
  /\ None \notin [token: Token, at: Nat]

VARIABLES
  settings,    \* of the gateway
  now,         \* the clock everybody shares
  wallet,      \* the tokens agents hold, all agents together
  pc,          \* where a call stands, or how it ended
  req,         \* the headers it was made with
  identity,    \* AgentIdentity
  subject,     \* call.subject
  credential,  \* what _broker_credential returned
  log,         \* verdicts, in the order they were recorded
  served       \* the token the MCP server ran the call for, and when

vars == <<settings, now, wallet, pc, req, identity, subject, credential, log,
          served>>
call == <<req, identity, subject, credential, log, served>>

Outcomes == {"identity_error", "denied", "delegation_error",
             "brokering_failed", "upstream_error", "result"}
Places == {"idle", "identify", "verify", "judge", "broker", "forward"} \cup Outcomes

TypeOK ==
  /\ settings \in Settings
  /\ now \in 0 .. MaxTime
  /\ wallet \subseteq Token
  /\ pc \in [Calls -> Places]
  /\ req \in [Calls -> Headers \cup {None}]
  /\ identity \in [Calls -> AgentIdentity \cup {None}]
  /\ subject \in [Calls -> SubjectIdentity \cup {None}]
  /\ credential \in [Calls -> Presentable]
  /\ log \in Seq([call: Calls, permit: BOOLEAN])
  /\ served \in [Calls -> [token: Token, at: Nat] \cup {None}]

Init ==
  /\ settings \in Settings
  /\ now = 0
  /\ wallet = {}
  /\ pc = [c \in Calls |-> "idle"]
  /\ req = [c \in Calls |-> None]
  /\ identity = [c \in Calls |-> None]
  /\ subject = [c \in Calls |-> None]
  /\ credential = [c \in Calls |-> None]
  /\ log = <<>>
  /\ served = [c \in Calls |-> None]

Goto(c, place) == pc' = [pc EXCEPT ![c] = place]

-----------------------------------------------------------------------------
(* The identity provider.                                                  *)

\* jwt.decode with a key, an audience and the required `exp`.
Verifies(t, iss, aud) ==
  /\ t \in Token
  /\ t.iss = iss /\ t.aud = aud
  /\ now < t.exp

\* AuthorizationServer.mint, without claims: callers add theirs.
Mint(aud, ttl) ==
  [iss |-> "idp", aud |-> aud, azp |-> None, sub |-> None,
   app_only |-> FALSE, may_act |-> None, act |-> None, scope |-> FALSE,
   exp |-> now + ttl]

\* _EXCHANGE_CLIENTS: an agent must not mint its own downstream credentials.
ExchangeClients == {Gateway}

AudienceScopes == {"upstream"}

\* Mutant of Exchange: the subject token is decoded without its expiry.
ExchangeIgnoringExpiry(t, aud) ==
  IF aud \in AudienceScopes /\ t \in Token /\ t.iss = "idp" /\ t.aud = "gateway"
       /\ {t.sub, t.azp} # {None}
    THEN [Mint(aud, BrokeredTTL) EXCEPT
            !.sub = IF t.sub # None THEN t.sub ELSE t.azp,
            !.act = Gateway, !.scope = TRUE]
    ELSE None

\* AuthorizationServer.exchange: None stands for an error answer.
Exchange(t, aud) ==
  IF aud \in AudienceScopes /\ Verifies(t, "idp", "gateway")
       /\ {t.sub, t.azp} # {None}
    THEN [Mint(aud, BrokeredTTL) EXCEPT
            !.sub = IF t.sub # None THEN t.sub ELSE t.azp,
            !.act = Gateway, !.scope = TRUE]
    ELSE None

\* POST of an authenticated client (None: no HTTP Basic credentials).
TokenEndpoint(client, grant, t, aud) ==
  CASE grant = "client_credentials" /\ client \in Agents ->
         [Mint("gateway", TokenTTL) EXCEPT !.azp = client]
    [] grant = "token-exchange" /\ client \in ExchangeClients -> Exchange(t, aud)
    [] OTHER -> None

Obtain(t) ==
  /\ t # None
  /\ Cardinality(wallet) < MaxTokens
  /\ wallet' = wallet \cup {t}
  /\ UNCHANGED <<settings, now, pc, call>>

\* An agent posts to the token endpoint itself, any token it holds in hand.
AgentPosts(a) ==
  \E grant \in {"client_credentials", "token-exchange"}, t \in wallet \cup {Opaque},
     aud \in {"gateway", "upstream"} :
    Obtain(TokenEndpoint(a, grant, t, aud))

\* mint_agent_token for a sponsor, as after an interactive sign-in, or one of
\* the two app-only tokens that have a `sub`: Okta repeats the client id,
\* Keycloak and Entra name a service account and mark the token.
IssueAgentToken(a) ==
  \E s \in Humans \cup {a, ServiceAccount} :
    Obtain([Mint("gateway", TokenTTL) EXCEPT
              !.azp = a, !.sub = s, !.app_only = (s = ServiceAccount)])

\* mint_sponsor_token: the user's own token, which reaches the agent as a
\* user's bearer does boundary1_app. may_act is issued by few providers.
IssueUserToken(h) ==
  \E a \in Agents \cup {None} :
    Obtain([Mint("gateway", TokenTTL) EXCEPT
              !.sub = h, !.may_act = a, !.scope = TRUE])

\* SPIRE's Workload API hands the agent a JWT-SVID for the gateway.
FetchSvid(a) ==
  Obtain([Mint("gateway", TokenTTL) EXCEPT !.iss = "spire", !.sub = a])

Tick ==
  /\ now < MaxTime
  /\ now' = now + 1
  /\ UNCHANGED <<settings, wallet, pc, call>>

-----------------------------------------------------------------------------
(* The gateway.                                                            *)

\* An agent makes a call with whatever headers it likes.
Present(c) ==
  /\ pc[c] = "idle"
  /\ \E b, s \in wallet \cup {Opaque, None}, h \in Humans \cup {None},
        a \in Agents \cup {None} :
       /\ a # None => settings.identity_mode = "header"
       /\ req' = [req EXCEPT ![c] =
            [spiffe |-> a, sponsor |-> h, bearer |-> b, subject_token |-> s]]
  /\ Goto(c, "identify")
  /\ UNCHANGED <<settings, now, wallet, identity, subject, credential, log, served>>

\* Mutant of HasHumanSponsor: a `sub` of its own is taken for a human's.
HasForeignSub(t) == t.sub \notin {None, t.azp}

\* The token represents a user who acts through the agent.
HasHumanSponsor(t) == t.sub \notin {None, t.azp} /\ ~t.app_only

\* HeaderIdentityProvider trusts the headers.
HeaderIdentity(h) ==
  IF h.spiffe = None THEN None
    ELSE [spiffe_id |-> h.spiffe, human_sponsor |-> h.sponsor, client_id |-> None]

\* JwtSvidIdentityProvider: the workload is proved, the sponsor asserted.
SvidIdentity(h) ==
  IF Verifies(h.bearer, "spire", "gateway") /\ h.bearer.sub \in Agents
    THEN [spiffe_id |-> h.bearer.sub, human_sponsor |-> h.sponsor, client_id |-> None]
    ELSE None

\* OidcJwksIdentityProvider: both come from the token.
OidcIdentity(h) ==
  IF Verifies(h.bearer, "idp", "gateway") /\ h.bearer.azp # None
    THEN [spiffe_id |-> h.bearer.azp,
          human_sponsor |-> IF HasHumanSponsor(h.bearer) THEN h.bearer.sub ELSE None,
          client_id |-> h.bearer.azp]
    ELSE None

IdentityOf(h) ==
  CASE settings.identity_mode = "jwt-svid" -> SvidIdentity(h)
    [] settings.identity_mode = "oidc-jwks" -> OidcIdentity(h)
    [] OTHER -> HeaderIdentity(h)

Identify(c) ==
  /\ pc[c] = "identify"
  /\ identity' = [identity EXCEPT ![c] = IdentityOf(req[c])]
  /\ Goto(c, IF IdentityOf(req[c]) = None THEN "identity_error"
             ELSE IF settings.subject_verification /\ req[c].subject_token # None
               THEN "verify" ELSE "judge")
  /\ UNCHANGED <<settings, now, wallet, req, subject, credential, log, served>>

\* OidcSubjectVerifier.verify
SubjectOf(t) ==
  IF Verifies(t, "idp", "gateway") /\ t.sub # None
    THEN [subject_id |-> t.sub, authorized_actor |-> t.may_act]
    ELSE None

\* Mutant of Bound: a token that names an actor binds to any caller.
BoundToAnyActor(agent, s) ==
  \/ settings.subject_binding \in {"off", "may-act-only"}
  \/ s.authorized_actor # None
  \/ agent.human_sponsor \in {None, s.subject_id}

\* _bind_subject returns
Bound(agent, s) ==
  \/ settings.subject_binding = "off"
  \/ /\ s.authorized_actor # None
     /\ agent.client_id \in {None, s.authorized_actor}
  \/ /\ s.authorized_actor = None
     /\ \/ settings.subject_binding = "may-act-only"
        \/ agent.human_sponsor \in {None, s.subject_id}

VerifySubject(c) ==
  LET s == SubjectOf(req[c].subject_token) IN
  /\ pc[c] = "verify"
  /\ IF s # None /\ Bound(identity[c], s)
       THEN subject' = [subject EXCEPT ![c] = s] /\ Goto(c, "judge")
       ELSE UNCHANGED subject /\ Goto(c, "identity_error")
  /\ UNCHANGED <<settings, now, wallet, req, identity, credential, log, served>>

\* The registry gate, the policy and the receipt (see GovernedExecution).
Judge(c) ==
  /\ pc[c] = "judge"
  /\ \E permit \in BOOLEAN :
       /\ log' = Append(log, [call |-> c, permit |-> permit])
       /\ Goto(c, IF permit THEN "broker" ELSE "denied")
  /\ UNCHANGED <<settings, now, wallet, req, identity, subject, credential, served>>

\* Rfc8693TokenExchange.exchange
Rfc8693Exchange(t) ==
  TokenEndpoint(Gateway, "token-exchange", t, settings.delegated_audience)

\* EntraOnBehalfOfTokenExchange.exchange sends a grant of its own, with its
\* secret in the form. The server of the scenario knows neither, and Entra's own
\* endpoint is not modelled: with this mode no exchange succeeds here, and what is
\* said below of the credential served is about the other two.
EntraOnBehalfOf(t) ==
  TokenEndpoint(None, "jwt-bearer", t, settings.delegated_audience)

\* TokenExchange.exchange of the configured adapter. The stub makes up a string.
TokenExchange(t) ==
  CASE settings.token_exchange_mode = "rfc8693" -> Rfc8693Exchange(t)
    [] settings.token_exchange_mode = "entra" -> EntraOnBehalfOf(t)
    [] OTHER -> Opaque

Sponsored(c) == identity[c].human_sponsor # None

\* Mutant of Brokered: the agent's own token, whoever sponsors the call.
BearerOnly(c) == req[c].bearer

\* The token _broker_credential exchanges.
Brokered(c) == IF Sponsored(c) THEN req[c].subject_token ELSE req[c].bearer

\* _broker_credential. Without any bearer (header identity) the credential is
\* the placeholder "autonomous::...".
Broker(c) ==
  LET answer == TokenExchange(Brokered(c)) IN
  /\ pc[c] = "broker"
  /\ \/ /\ Sponsored(c) /\ Brokered(c) = None
        /\ Goto(c, "delegation_error")
        /\ UNCHANGED credential
     \/ /\ ~Sponsored(c) /\ Brokered(c) = None
        /\ credential' = [credential EXCEPT ![c] = Opaque]
        /\ Goto(c, "forward")
     \/ /\ Brokered(c) # None /\ answer # None
        /\ credential' = [credential EXCEPT ![c] = answer]
        /\ Goto(c, "forward")
     \/ /\ Brokered(c) # None    \* refused, or the server is unreachable
        /\ Goto(c, "brokering_failed")
        /\ UNCHANGED credential
  /\ UNCHANGED <<settings, now, wallet, req, identity, subject, log, served>>

-----------------------------------------------------------------------------
(* The MCP server.                                                         *)

\* Mutant of Accepts: the audience is not checked.
AcceptsAnyAudience(t) ==
  t \in Token /\ t.iss = "idp" /\ now < t.exp /\ t.scope

\* JwksTokenVerifier.verify_token, and the scope build_server requires.
Accepts(t) == Verifies(t, "idp", "upstream") /\ t.scope

Serve(c, t) == served' = [served EXCEPT ![c] = [token |-> t, at |-> now]]

\* StreamableHttpMCPUpstream.forward: the answer of a call that ran may be
\* lost, or an error.
Forward(c) ==
  /\ pc[c] = "forward"
  /\ \/ /\ Accepts(credential[c])
        /\ Serve(c, credential[c])
        /\ \E outcome \in {"result", "upstream_error"} : Goto(c, outcome)
     \/ Goto(c, "upstream_error") /\ UNCHANGED served
  /\ UNCHANGED <<settings, now, wallet, req, identity, subject, credential, log>>

\* Scenario 3: an agent calls the MCP server directly, with a token it holds.
Bypass(c) ==
  /\ pc[c] = "idle"
  /\ \E t \in wallet :
       \/ Accepts(t) /\ Serve(c, t) /\ Goto(c, "result")
       \/ ~Accepts(t) /\ Goto(c, "upstream_error") /\ UNCHANGED served
  /\ UNCHANGED <<settings, now, wallet, req, identity, subject, credential, log>>

Next ==
  \/ Tick
  \/ \E a \in Agents : AgentPosts(a) \/ IssueAgentToken(a) \/ FetchSvid(a)
  \/ \E h \in Humans : IssueUserToken(h)
  \/ \E c \in Calls :
       \/ Present(c) \/ Identify(c) \/ VerifySubject(c) \/ Judge(c)
       \/ Broker(c) \/ Forward(c) \/ Bypass(c)

Spec == Init /\ [][Next]_vars

-----------------------------------------------------------------------------
(* Properties.                                                             *)

\* There is no path to the data that skips governance: whatever tokens agents
\* collect, what reaches the MCP server was judged first, and permitted
\* (scenario.py, "the gateway is load-bearing").
Audited == INSTANCE AuditedExecution WITH
  effects <- {c \in Calls : served[c] # None}
AuditedSpec == Audited!Spec

\* Nothing an agent can obtain from the token endpoint or a sign-in is a
\* token the MCP server accepts: the agent never holds a brokered credential.
WalletUselessUpstream == \A t \in wallet : ~Accepts(t)

Proven(c) == settings.identity_mode # "header" /\ served[c] # None

\* The user the gateway verified and showed to policy is the user the MCP
\* server serves, whenever it serves one at all (not with header identity,
\* where the bearer token is nobody's in particular).
VerifiedIsServed ==
  \A c \in Calls :
    Proven(c) /\ subject[c] # None /\ served[c].token.sub \in Humans
      => served[c].token.sub = subject[c].subject_id

\* A user is served through an agent only by right: an OIDC agent that is
\* nobody's delegate serves nobody's data, and under the strict binding the
\* user either named this agent in may_act or is the sponsor in its token.
DelegationIsEarned ==
  \A c \in Calls :
    Proven(c) /\ served[c].token.sub \in Humans =>
      /\ settings.identity_mode = "oidc-jwks" =>
           req[c].bearer.sub \in Humans
      /\ settings.identity_mode = "oidc-jwks" /\ settings.subject_verification
           /\ settings.subject_binding = "strict" =>
           \/ req[c].subject_token.may_act = req[c].bearer.azp
           \/ served[c].token.sub = req[c].bearer.sub

\* An app-only token of any of the providers is never mistaken for a
\* delegation: only a token that names a human asks for a user's token.
AutonomousNeedsNoUser ==
  \A c \in Calls :
    pc[c] = "delegation_error" /\ settings.identity_mode = "oidc-jwks"
      => req[c].bearer.sub \in Humans

\* A presented token opens the MCP server for at most BrokeredTTL after it
\* expired, however late the exchange and the forward happen.
LifeBounded ==
  \A c \in Calls :
    served[c] # None => served[c].at < Brokered(c).exp + BrokeredTTL
=============================================================================

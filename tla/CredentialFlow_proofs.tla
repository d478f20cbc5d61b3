------------------------ MODULE CredentialFlow_proofs ------------------------
(***************************************************************************)
(* Proofs about CredentialFlow, for any number of calls, agents and users, *)
(* any tokens and any lives.                                               *)
(***************************************************************************)
EXTENDS CredentialFlow, TLAPS

\* What agents hold is for the gateway, and a `sub` says what it is.
WalletInv ==
  \A t \in wallet :
    /\ t.aud = "gateway"
    /\ t.sub \in Agents => t.iss = "spire" \/ t.sub = t.azp
    /\ t.sub = ServiceAccount => t.app_only
    /\ t.app_only => t.sub = ServiceAccount

\* Where a call stands in the audit log.
LogInv(c) ==
  /\ pc[c] \in {"idle", "identify", "verify", "judge"} => ~Audited!Judged(c)
  /\ pc[c] \in {"broker", "forward"} => Audited!Permitted(c)

\* Headers carry tokens some agent holds, or strings that are none.
HeaderInv(c) ==
  /\ req[c] # None => /\ req[c].bearer \in wallet \cup {Opaque, None}
                      /\ req[c].subject_token \in wallet \cup {Opaque, None}
  /\ pc[c] \in {"identify", "verify", "judge", "broker", "forward", "delegation_error"}
       => req[c] # None

\* An identity is what the headers proved.
Derived(h, i) ==
  /\ settings.identity_mode = "oidc-jwks" =>
       /\ h.bearer \in Token /\ h.bearer.iss = "idp" /\ h.bearer.azp # None
       /\ i.client_id = h.bearer.azp
       /\ i.human_sponsor = IF HasHumanSponsor(h.bearer) THEN h.bearer.sub ELSE None
  /\ settings.identity_mode = "jwt-svid" => h.bearer \in Token /\ h.bearer.iss = "spire"

IdentityInv(c) ==
  /\ identity[c] # None => req[c] # None /\ Derived(req[c], identity[c])
  /\ pc[c] \in {"verify", "judge", "broker", "forward", "delegation_error"}
       => identity[c] # None
  /\ pc[c] \in {"idle", "identify"} => identity[c] = None

\* A verified subject is the presented token's, and bound; a token that was
\* presented to a verifying gateway was verified before the verdict.
SubjectInv(c) ==
  /\ subject[c] # None =>
       /\ identity[c] # None
       /\ req[c].subject_token \in Token
       /\ subject[c].subject_id = req[c].subject_token.sub
       /\ subject[c].authorized_actor = req[c].subject_token.may_act
       /\ Bound(identity[c], subject[c])
  /\ pc[c] \in {"idle", "identify", "verify"} => subject[c] = None
  /\ pc[c] \in {"judge", "broker", "forward"} \/ credential[c] # None =>
       (settings.subject_verification /\ req[c].subject_token # None => subject[c] # None)

\* The exchange made e of t.
Exchanged(e, t) ==
  /\ t \in Token /\ t.iss = "idp"
  /\ e.sub = IF t.sub # None THEN t.sub ELSE t.azp
  /\ e.exp < t.exp + BrokeredTTL

\* A credential is what the exchange made of the token it was given.
CredentialInv(c) ==
  /\ credential[c] \in Token => identity[c] # None /\ Exchanged(credential[c], Brokered(c))
  /\ pc[c] = "delegation_error" => Sponsored(c)
  /\ pc[c] \in {"idle", "identify", "verify", "judge"} => credential[c] = None

ServedInv(c) ==
  /\ served[c] # None => /\ served[c].token = credential[c]
                         /\ served[c].at < served[c].token.exp
  /\ pc[c] \in {"idle", "identify", "verify", "judge", "broker", "forward"}
       => served[c] = None

CallInv(c) ==
  /\ LogInv(c) /\ HeaderInv(c) /\ IdentityInv(c)
  /\ SubjectInv(c) /\ CredentialInv(c) /\ ServedInv(c)

IInv == TypeOK /\ WalletInv /\ \A c \in Calls : CallInv(c)

USE ConfigAssumption, TimeAssumption, NamesAssumption

-----------------------------------------------------------------------------
(* The identity provider.                                                  *)

\* The exchange returns an error or a short-lived token for the subject.
LEMMA ExchangeFacts ==
  ASSUME TypeOK, NEW t \in Presentable, NEW aud, Exchange(t, aud) # None
  PROVE  Exchange(t, aud) \in Token /\ Exchanged(Exchange(t, aud), t)
<1>1. /\ aud = "upstream" /\ t \in Token /\ t.iss = "idp" /\ now < t.exp
      /\ {t.sub, t.azp} # {None}
  BY DEF Exchange, Verifies, AudienceScopes
<1> DEFINE s == IF t.sub # None THEN t.sub ELSE t.azp
<1>2. s \in Subjects
  BY <1>1 DEF Token, Subjects
<1>3. Exchange(t, aud) =
        [iss |-> "idp", aud |-> "upstream", azp |-> None, sub |-> s,
         app_only |-> FALSE, may_act |-> None, act |-> Gateway, scope |-> TRUE,
         exp |-> now + BrokeredTTL]
  BY <1>1 DEF Exchange, Verifies, AudienceScopes, Mint
<1>4. now \in Nat /\ t.exp \in Nat
  BY <1>1 DEF TypeOK, Token
<1> HIDE DEF s
<1>5. Exchange(t, aud) \in Token
  BY <1>2, <1>3, <1>4 DEF Token
<1>6. QED
  BY <1>1, <1>3, <1>4, <1>5 DEF s, Exchanged

\* Whatever a step adds to the wallet is for the gateway only.
Harmless(t) ==
  /\ t \in Token /\ t.aud = "gateway"
  /\ t.sub \in Agents => t.iss = "spire" \/ t.sub = t.azp
  /\ t.sub = ServiceAccount <=> t.app_only

LEMMA MintFacts ==
  ASSUME TypeOK
  PROVE  LET m == Mint("gateway", TokenTTL) IN
         /\ m \in Token
         /\ m.iss = "idp" /\ m.aud = "gateway" /\ m.azp = None /\ m.sub = None
         /\ m.app_only = FALSE
<1>1. now + TokenTTL \in Nat
  BY DEF TypeOK
<1>2. QED
  BY <1>1 DEF Mint, Token

LEMMA ObtainedIsHarmless ==
  ASSUME TypeOK,
         \/ \E a \in Agents : AgentPosts(a) \/ IssueAgentToken(a) \/ FetchSvid(a)
         \/ \E h \in Humans : IssueUserToken(h)
  PROVE  /\ \E t : Harmless(t) /\ wallet' = wallet \cup {t}
         /\ UNCHANGED <<settings, now, pc, call>>
<1> DEFINE m == Mint("gateway", TokenTTL)
<1>0. /\ m \in Token /\ m.iss = "idp" /\ m.aud = "gateway"
      /\ m.azp = None /\ m.sub = None /\ m.app_only = FALSE
  BY MintFacts
<1> HIDE DEF m
<1>1. ASSUME NEW a \in Agents, AgentPosts(a)
      PROVE  \E t : Harmless(t) /\ Obtain(t)
  <2>1. PICK grant \in {"client_credentials", "token-exchange"},
             t \in wallet \cup {Opaque}, aud \in {"gateway", "upstream"} :
          Obtain(TokenEndpoint(a, grant, t, aud))
    BY <1>1 DEF AgentPosts
  <2>2. TokenEndpoint(a, grant, t, aud) # None /\ a \notin ExchangeClients
    BY <2>1 DEF Obtain, ExchangeClients
  <2>3. TokenEndpoint(a, grant, t, aud) = [m EXCEPT !.azp = a]
    BY <2>2 DEF TokenEndpoint, m
  <2>4. Harmless([m EXCEPT !.azp = a])
    BY <1>0 DEF Harmless, Token, Subjects
  <2>5. QED
    BY <2>1, <2>3, <2>4
<1>2. ASSUME NEW a \in Agents, IssueAgentToken(a)
      PROVE  \E t : Harmless(t) /\ Obtain(t)
  <2>1. PICK s \in Humans \cup {a, ServiceAccount} :
          Obtain([m EXCEPT !.azp = a, !.sub = s, !.app_only = (s = ServiceAccount)])
    BY <1>2 DEF IssueAgentToken, m
  <2> DEFINE t == [m EXCEPT !.azp = a, !.sub = s, !.app_only = (s = ServiceAccount)]
  <2>2. t \in Token
    BY <1>0 DEF Token, Subjects
  <2>3. t.aud = "gateway" /\ t.azp = a /\ t.sub = s /\ t.app_only = (s = ServiceAccount)
    BY <1>0 DEF Token
  <2> HIDE DEF t
  <2>4. Harmless(t)
    BY <2>2, <2>3 DEF Harmless
  <2>5. QED
    BY <2>1, <2>4 DEF t
<1>3. ASSUME NEW a \in Agents, FetchSvid(a)
      PROVE  \E t : Harmless(t) /\ Obtain(t)
  <2>1. Harmless([m EXCEPT !.iss = "spire", !.sub = a])
    BY <1>0 DEF Harmless, Token, Subjects
  <2>2. QED
    BY <1>3, <2>1 DEF FetchSvid, m
<1>4. ASSUME NEW h \in Humans, IssueUserToken(h)
      PROVE  \E t : Harmless(t) /\ Obtain(t)
  <2>1. PICK a \in Agents \cup {None} :
          Obtain([m EXCEPT !.sub = h, !.may_act = a, !.scope = TRUE])
    BY <1>4 DEF IssueUserToken, m
  <2>2. Harmless([m EXCEPT !.sub = h, !.may_act = a, !.scope = TRUE])
    BY <1>0 DEF Harmless, Token, Subjects
  <2>3. QED
    BY <2>1, <2>2
<1>5. PICK t : Harmless(t) /\ Obtain(t)
  BY <1>1, <1>2, <1>3, <1>4
<1>6. QED
  BY <1>5 DEF Obtain
-----------------------------------------------------------------------------
(* The invariant.                                                          *)

LEMMA IInvInit == Init => IInv
<1>1. SUFFICES ASSUME Init PROVE IInv
  OBVIOUS
<1>2. TypeOK
  BY <1>1 DEF Init, TypeOK, Places, Presentable
<1>3. WalletInv
  BY <1>1 DEF Init, WalletInv
<1>4. ASSUME NEW c \in Calls PROVE CallInv(c)
  BY <1>1 DEF Init, CallInv, LogInv, HeaderInv, IdentityInv, SubjectInv,
              CredentialInv, ServedInv, Audited!Judged
<1>5. QED
  BY <1>2, <1>3, <1>4 DEF IInv

\* Nothing a call's invariant speaks of changes, but for the wallet's growth.
Still(d) ==
  /\ settings' = settings
  /\ wallet \subseteq wallet'
  /\ pc'[d] = pc[d] /\ req'[d] = req[d] /\ identity'[d] = identity[d]
  /\ subject'[d] = subject[d] /\ credential'[d] = credential[d]
  /\ served'[d] = served[d]
  /\ Audited!Judged(d)' <=> Audited!Judged(d)
  /\ Audited!Permitted(d)' <=> Audited!Permitted(d)

LEMMA Frame ==
  ASSUME NEW d \in Calls, CallInv(d), Still(d)
  PROVE  CallInv(d)'
<1>1. LogInv(d)' /\ HeaderInv(d)' /\ ServedInv(d)'
  BY DEF CallInv, Still, LogInv, HeaderInv, ServedInv
<1>2. IdentityInv(d)'
  BY DEF CallInv, Still, IdentityInv, Derived
<1>3. SubjectInv(d)'
  BY DEF CallInv, Still, SubjectInv, Bound
<1>4. CredentialInv(d)'
  BY DEF CallInv, Still, CredentialInv, Brokered, Sponsored, Exchanged
<1>5. QED
  BY <1>1, <1>2, <1>3, <1>4 DEF CallInv

\* Steps of the identity provider and the clock leave calls alone.
LEMMA OutsideStep ==
  ASSUME IInv,
         \/ Tick
         \/ \E a \in Agents : AgentPosts(a) \/ IssueAgentToken(a) \/ FetchSvid(a)
         \/ \E h \in Humans : IssueUserToken(h)
         \/ UNCHANGED vars
  PROVE  IInv' /\ UNCHANGED <<log, served>>
<1>1. /\ UNCHANGED <<settings, pc, call>>
      /\ now' \in 0 .. MaxTime
      /\ wallet' = wallet \/ \E t : Harmless(t) /\ wallet' = wallet \cup {t}
  <2>1. CASE Tick
    BY <2>1 DEF Tick, IInv, TypeOK
  <2>2. CASE UNCHANGED vars
    BY <2>2 DEF vars, call, IInv, TypeOK
  <2>3. CASE \/ \E a \in Agents : AgentPosts(a) \/ IssueAgentToken(a) \/ FetchSvid(a)
             \/ \E h \in Humans : IssueUserToken(h)
    BY <2>3, ObtainedIsHarmless DEF IInv, TypeOK
  <2>4. QED
    BY <2>1, <2>2, <2>3
<1>2. TypeOK' /\ WalletInv'
  BY <1>1 DEF IInv, TypeOK, WalletInv, Harmless, call
<1>3. \A d \in Calls : Still(d)
  BY <1>1 DEF Still, call, Audited!Judged, Audited!Permitted
<1>4. \A d \in Calls : CallInv(d)'
  BY <1>3, Frame DEF IInv
<1>5. QED
  BY <1>1, <1>2, <1>4 DEF IInv, call

\* A step of one call, to be shown right for that call alone.
Only(c) ==
  /\ UNCHANGED <<settings, now, wallet>>
  /\ \A d \in Calls \ {c} : Still(d)

LEMMA OnlyStep ==
  ASSUME IInv, NEW c \in Calls, Only(c), TypeOK', CallInv(c)'
  PROVE  IInv'
<1>1. WalletInv'
  BY DEF IInv, WalletInv, Only
<1>2. \A d \in Calls : CallInv(d)'
  BY Frame DEF IInv, Only
<1>3. QED
  BY <1>1, <1>2 DEF IInv
\* Only Judge touches the log; every step moves its own call only.
LEMMA Elsewhere ==
  ASSUME NEW c \in Calls, UNCHANGED <<settings, now, wallet, log>>,
         \A d \in Calls \ {c} :
           /\ pc'[d] = pc[d] /\ req'[d] = req[d] /\ identity'[d] = identity[d]
           /\ subject'[d] = subject[d] /\ credential'[d] = credential[d]
           /\ served'[d] = served[d]
  PROVE  /\ Only(c)
         /\ Audited!Judged(c)' <=> Audited!Judged(c)
         /\ Audited!Permitted(c)' <=> Audited!Permitted(c)
BY DEF Only, Still, Audited!Judged, Audited!Permitted

LEMMA PresentStep ==
  ASSUME IInv, NEW c \in Calls, Present(c)
  PROVE  IInv'
<1>1. TypeOK /\ CallInv(c) /\ pc[c] = "idle"
  BY DEF Present, IInv
<1>2. PICK b \in wallet \cup {Opaque, None}, s \in wallet \cup {Opaque, None},
           h \in Humans \cup {None}, a \in Agents \cup {None} :
        req' = [req EXCEPT ![c] =
          [spiffe |-> a, sponsor |-> h, bearer |-> b, subject_token |-> s]]
  BY DEF Present
<1> DEFINE r == [spiffe |-> a, sponsor |-> h, bearer |-> b, subject_token |-> s]
<1>3. r \in Headers /\ r.bearer = b /\ r.subject_token = s
  BY <1>1, <1>2 DEF TypeOK, Headers, Presentable
<1> HIDE DEF r
<1>4. /\ req' = [req EXCEPT ![c] = r] /\ pc' = [pc EXCEPT ![c] = "identify"]
      /\ UNCHANGED <<settings, now, wallet, identity, subject, credential, log, served>>
  BY <1>2 DEF Present, Goto, r
<1>5. TypeOK'
  BY <1>1, <1>3, <1>4 DEF TypeOK, Places
<1>6. /\ \A d \in Calls \ {c} : pc'[d] = pc[d] /\ req'[d] = req[d]
      /\ pc'[c] = "identify" /\ req'[c] = r
  BY <1>1, <1>4 DEF TypeOK
<1>7. Only(c) /\ (Audited!Judged(c)' <=> Audited!Judged(c))
  BY <1>4, <1>6, Elsewhere
<1>8. CallInv(c)'
  BY <1>1, <1>2, <1>3, <1>4, <1>6, <1>7
     DEF CallInv, LogInv, HeaderInv, IdentityInv, SubjectInv, CredentialInv, ServedInv
<1>9. QED
  BY <1>5, <1>7, <1>8, OnlyStep

\* Whatever provider is configured, an identity is typed and derived.
LEMMA IdentityFacts ==
  ASSUME TypeOK, WalletInv, NEW h \in Headers, IdentityOf(h) # None,
         h.bearer \in wallet \cup {Opaque, None}
  PROVE  IdentityOf(h) \in AgentIdentity /\ Derived(h, IdentityOf(h))
<1>1. settings \in Setting
  BY DEF TypeOK
<1>2. CASE settings.identity_mode = "jwt-svid"
  <2>1. /\ h.bearer \in Token /\ h.bearer.iss = "spire" /\ h.bearer.sub \in Agents
        /\ IdentityOf(h) = [spiffe_id |-> h.bearer.sub, human_sponsor |-> h.sponsor,
                            client_id |-> None]
    BY <1>2 DEF IdentityOf, SvidIdentity, Verifies
  <2>2. QED
    BY <1>2, <2>1 DEF AgentIdentity, Headers, Derived
<1>3. CASE settings.identity_mode = "oidc-jwks"
  <2> DEFINE b == h.bearer
  <2> DEFINE s == IF HasHumanSponsor(b) THEN b.sub ELSE None
  <2>1. b \in Token /\ b.iss = "idp" /\ b.azp # None
    BY <1>3 DEF IdentityOf, OidcIdentity, Verifies
  <2>2. b \in wallet /\ b.azp \in Agents /\ b.sub \in Subjects \cup {None}
    BY <2>1 DEF Token
  <2>3. HasHumanSponsor(b) => b.sub \in Humans
    BY <2>1, <2>2 DEF HasHumanSponsor, WalletInv, Subjects
  <2>4. s \in Humans \cup {None}
    BY <2>3
  <2>5. IdentityOf(h) = [spiffe_id |-> b.azp, human_sponsor |-> s, client_id |-> b.azp]
    BY <1>3, <2>1 DEF IdentityOf, OidcIdentity
  <2> HIDE DEF b, s
  <2>6. /\ IdentityOf(h) \in AgentIdentity
        /\ IdentityOf(h).client_id = b.azp /\ IdentityOf(h).human_sponsor = s
    BY <2>2, <2>4, <2>5 DEF AgentIdentity
  <2>7. QED
    BY <1>3, <2>1, <2>6 DEF Derived, b, s
<1>4. CASE settings.identity_mode = "header"
  <2>1. /\ h.spiffe \in Agents
        /\ IdentityOf(h) = [spiffe_id |-> h.spiffe, human_sponsor |-> h.sponsor,
                            client_id |-> None]
    BY <1>4 DEF IdentityOf, HeaderIdentity, Headers
  <2>2. QED
    BY <1>4, <2>1 DEF AgentIdentity, Headers, Derived
<1>5. QED
  BY <1>1, <1>2, <1>3, <1>4 DEF Setting

LEMMA IdentifyStep ==
  ASSUME IInv, NEW c \in Calls, Identify(c)
  PROVE  IInv'
<1> DEFINE i == IdentityOf(req[c])
           p == IF i = None THEN "identity_error"
                ELSE IF settings.subject_verification /\ req[c].subject_token # None
                  THEN "verify" ELSE "judge"
<1>1. TypeOK /\ WalletInv /\ CallInv(c) /\ pc[c] = "identify"
  BY DEF Identify, IInv
<1>2. req[c] \in Headers /\ req[c] # None /\ req[c].bearer \in wallet \cup {Opaque, None}
  BY <1>1 DEF TypeOK, CallInv, HeaderInv
<1>3. i # None => i \in AgentIdentity /\ Derived(req[c], i)
  BY <1>1, <1>2, IdentityFacts
<1>4. /\ p \in {"identity_error", "verify", "judge"}
      /\ i = None <=> p = "identity_error"
      /\ p = "judge" => ~(settings.subject_verification /\ req[c].subject_token # None)
  OBVIOUS
<1>5. /\ identity' = [identity EXCEPT ![c] = i] /\ pc' = [pc EXCEPT ![c] = p]
      /\ UNCHANGED <<settings, now, wallet, req, subject, credential, log, served>>
  BY DEF Identify, Goto
<1> HIDE DEF i, p
<1>6. TypeOK'
  BY <1>1, <1>3, <1>4, <1>5 DEF TypeOK, Places, Outcomes
<1>7. /\ \A d \in Calls \ {c} : pc'[d] = pc[d] /\ identity'[d] = identity[d]
      /\ pc'[c] = p /\ identity'[c] = i
  BY <1>1, <1>5 DEF TypeOK
<1>8. Only(c) /\ (Audited!Judged(c)' <=> Audited!Judged(c))
  BY <1>5, <1>7, Elsewhere
<1>9. LogInv(c)' /\ HeaderInv(c)' /\ SubjectInv(c)' /\ CredentialInv(c)' /\ ServedInv(c)'
  BY <1>1, <1>2, <1>4, <1>5, <1>7, <1>8
     DEF CallInv, LogInv, HeaderInv, SubjectInv, CredentialInv, ServedInv
<1>10. IdentityInv(c)'
  BY <1>1, <1>2, <1>3, <1>4, <1>5, <1>7 DEF IdentityInv, Derived
<1>11. QED
  BY <1>6, <1>8, <1>9, <1>10, OnlyStep DEF CallInv

LEMMA VerifySubjectStep ==
  ASSUME IInv, NEW c \in Calls, VerifySubject(c)
  PROVE  IInv'
<1> DEFINE t == req[c].subject_token
           s == SubjectOf(t)
<1>1. TypeOK /\ WalletInv /\ CallInv(c) /\ pc[c] = "verify"
  BY DEF VerifySubject, IInv
<1>2. req[c] \in Headers /\ req[c] # None /\ identity[c] # None
  BY <1>1 DEF TypeOK, CallInv, HeaderInv, IdentityInv
<1>3. UNCHANGED <<settings, now, wallet, req, identity, credential, log, served>>
  BY DEF VerifySubject
<1>4. CASE s # None /\ Bound(identity[c], s)
  <2>1. /\ t \in Token /\ s \in SubjectIdentity
        /\ s.subject_id = t.sub /\ s.authorized_actor = t.may_act
    BY <1>4 DEF SubjectOf, Verifies, Token, SubjectIdentity
  <2>2. subject' = [subject EXCEPT ![c] = s] /\ pc' = [pc EXCEPT ![c] = "judge"]
    BY <1>4 DEF VerifySubject, Goto
  <2> HIDE DEF s
  <2>3. TypeOK'
    BY <1>1, <1>3, <2>1, <2>2 DEF TypeOK, Places
  <2>4. /\ \A d \in Calls \ {c} : pc'[d] = pc[d] /\ subject'[d] = subject[d]
        /\ pc'[c] = "judge" /\ subject'[c] = s
    BY <1>1, <2>2 DEF TypeOK
  <2>5. Only(c) /\ (Audited!Judged(c)' <=> Audited!Judged(c))
    BY <1>3, <2>4, Elsewhere
  <2>6. LogInv(c)' /\ HeaderInv(c)' /\ CredentialInv(c)' /\ ServedInv(c)'
    BY <1>1, <1>2, <1>3, <2>4, <2>5
       DEF CallInv, LogInv, HeaderInv, CredentialInv, ServedInv
  <2>7. IdentityInv(c)'
    BY <1>1, <1>2, <1>3, <2>4 DEF CallInv, IdentityInv, Derived
  <2>8. SubjectInv(c)'
    BY <1>1, <1>2, <1>3, <1>4, <2>1, <2>4 DEF SubjectInv, Bound
  <2>9. QED
    BY <2>3, <2>5, <2>6, <2>7, <2>8, OnlyStep DEF CallInv
<1>5. CASE ~(s # None /\ Bound(identity[c], s))
  <2>1. subject' = subject /\ pc' = [pc EXCEPT ![c] = "identity_error"]
    BY <1>5 DEF VerifySubject, Goto
  <2>2. TypeOK'
    BY <1>1, <1>3, <2>1 DEF TypeOK, Places, Outcomes
  <2>3. (\A d \in Calls \ {c} : pc'[d] = pc[d]) /\ pc'[c] = "identity_error"
    BY <1>1, <2>1 DEF TypeOK
  <2>4. Only(c)
    BY <1>3, <2>1, <2>3, Elsewhere
  <2>5. CallInv(c)'
    BY <1>1, <1>2, <1>3, <2>1, <2>3
       DEF CallInv, LogInv, HeaderInv, IdentityInv, Derived, SubjectInv, CredentialInv,
           ServedInv
  <2>6. QED
    BY <2>2, <2>4, <2>5, OnlyStep
<1>6. QED
  BY <1>4, <1>5

\* Recording a verdict changes what is known of its own call only.
LEMMA JudgeEffect ==
  ASSUME NEW c \in Calls, NEW p \in BOOLEAN, NEW d \in Calls,
         log \in Seq([call: Calls, permit: BOOLEAN]),
         log' = Append(log, [call |-> c, permit |-> p])
  PROVE  /\ log' \in Seq([call: Calls, permit: BOOLEAN])
         /\ Audited!Judged(d)' <=> Audited!Judged(d) \/ d = c
         /\ Audited!Permitted(d)' <=> Audited!Permitted(d) \/ (d = c /\ p)
<1> DEFINE v == [call |-> c, permit |-> p]
<1>1. v \in [call: Calls, permit: BOOLEAN] /\ v.call = c
  OBVIOUS
<1>2. v = [call |-> d, permit |-> TRUE] <=> d = c /\ p
  OBVIOUS
<1>3. log' = Append(log, v)
  OBVIOUS
<1> HIDE DEF v
<1>4. /\ log' \in Seq([call: Calls, permit: BOOLEAN])
      /\ DOMAIN log = 1..Len(log) /\ DOMAIN log' = 1..(Len(log) + 1) /\ Len(log) \in Nat
      /\ \A x \in DOMAIN log : log'[x] = log[x]
      /\ log'[Len(log) + 1] = v
  BY <1>1, <1>3
<1>5. DOMAIN log' = DOMAIN log \cup {Len(log) + 1}
  BY <1>4
<1>6. Audited!Judged(d)' <=> Audited!Judged(d) \/ d = c
  BY <1>1, <1>4, <1>5 DEF Audited!Judged
<1>7. (\E x \in DOMAIN log' : log'[x] = [call |-> d, permit |-> TRUE])
        <=> Audited!Permitted(d) \/ v = [call |-> d, permit |-> TRUE]
  BY <1>4, <1>5 DEF Audited!Permitted
<1>8. QED
  BY <1>2, <1>4, <1>6, <1>7 DEF Audited!Permitted

LEMMA JudgeStep ==
  ASSUME IInv, NEW c \in Calls, Judge(c)
  PROVE  IInv'
<1>1. TypeOK /\ CallInv(c) /\ pc[c] = "judge"
  BY DEF Judge, IInv
<1>2. PICK p \in BOOLEAN :
        /\ log' = Append(log, [call |-> c, permit |-> p])
        /\ pc' = [pc EXCEPT ![c] = IF p THEN "broker" ELSE "denied"]
  BY DEF Judge, Goto
<1>3. UNCHANGED <<settings, now, wallet, req, identity, subject, credential, served>>
  BY DEF Judge
<1>4. /\ log' \in Seq([call: Calls, permit: BOOLEAN])
      /\ Audited!Judged(c)' /\ (p => Audited!Permitted(c)')
  BY <1>1, <1>2, JudgeEffect DEF TypeOK
<1>5. TypeOK'
  BY <1>1, <1>2, <1>3, <1>4 DEF TypeOK, Places, Outcomes
<1>6. /\ \A d \in Calls \ {c} : pc'[d] = pc[d]
      /\ pc'[c] = IF p THEN "broker" ELSE "denied"
  BY <1>1, <1>2 DEF TypeOK
<1>7. ASSUME NEW d \in Calls \ {c} PROVE Still(d)
  <2>1. /\ Audited!Judged(d)' <=> Audited!Judged(d)
        /\ Audited!Permitted(d)' <=> Audited!Permitted(d)
    BY <1>1, <1>2, <1>7, JudgeEffect DEF TypeOK
  <2>2. QED
    BY <1>3, <1>6, <1>7, <2>1 DEF Still
<1>8. Only(c)
  BY <1>3, <1>7 DEF Only
<1>9. LogInv(c)' /\ HeaderInv(c)' /\ IdentityInv(c)' /\ SubjectInv(c)'
  BY <1>1, <1>3, <1>4, <1>6
     DEF CallInv, LogInv, HeaderInv, IdentityInv, Derived, SubjectInv, Bound
<1>10. CredentialInv(c)' /\ ServedInv(c)'
  BY <1>1, <1>3, <1>6
     DEF CallInv, CredentialInv, Brokered, Sponsored, Exchanged, ServedInv
<1>11. QED
  BY <1>5, <1>8, <1>9, <1>10, OnlyStep DEF CallInv

\* What an adapter returns is no token, or an exchanged one.
LEMMA TokenExchangeFacts ==
  ASSUME TypeOK, NEW t \in Presentable, TokenExchange(t) # None
  PROVE  /\ TokenExchange(t) \in Presentable
         /\ TokenExchange(t) \in Token => Exchanged(TokenExchange(t), t)
<1>1. CASE TokenExchange(t) = Exchange(t, settings.delegated_audience)
  BY <1>1, ExchangeFacts DEF Presentable
<1>2. CASE TokenExchange(t) = Opaque
  BY <1>2 DEF Presentable
<1>3. QED
  <2>1. \A aud : TokenEndpoint(Gateway, "token-exchange", t, aud)
                  \in {Exchange(t, aud), None}
    BY DEF TokenEndpoint
  <2>2. \A aud : TokenEndpoint(None, "jwt-bearer", t, aud) = None
    BY DEF TokenEndpoint
  <2>3. QED
    BY <1>1, <1>2, <2>1, <2>2 DEF TokenExchange, Rfc8693Exchange, EntraOnBehalfOf

LEMMA BrokerStep ==
  ASSUME IInv, NEW c \in Calls, Broker(c)
  PROVE  IInv'
<1> DEFINE b == Brokered(c)
           e == TokenExchange(b)
<1>1. TypeOK /\ CallInv(c) /\ pc[c] = "broker"
  BY DEF Broker, IInv
<1>2. req[c] \in Headers /\ req[c] # None /\ identity[c] # None
  BY <1>1 DEF TypeOK, CallInv, HeaderInv, IdentityInv
<1>3. UNCHANGED <<settings, now, wallet, req, identity, subject, log, served>>
  BY DEF Broker
<1>4. b \in Presentable
  BY <1>2 DEF Brokered, Headers
<1>5. CASE \E k \in Presentable \ {None} :
             /\ credential' = [credential EXCEPT ![c] = k]
             /\ pc' = [pc EXCEPT ![c] = "forward"]
             /\ k \in Token => Exchanged(k, b)
  <2>1. PICK k \in Presentable \ {None} :
             /\ credential' = [credential EXCEPT ![c] = k]
             /\ pc' = [pc EXCEPT ![c] = "forward"]
             /\ k \in Token => Exchanged(k, b)
    BY <1>5
  <2>2. TypeOK'
    BY <1>1, <1>3, <2>1 DEF TypeOK, Places
  <2>3. /\ \A d \in Calls \ {c} : pc'[d] = pc[d] /\ credential'[d] = credential[d]
        /\ pc'[c] = "forward" /\ credential'[c] = k
    BY <1>1, <2>1 DEF TypeOK
  <2>4. Only(c) /\ (Audited!Permitted(c)' <=> Audited!Permitted(c))
    BY <1>3, <2>3, Elsewhere
  <2>5. LogInv(c)' /\ HeaderInv(c)' /\ IdentityInv(c)' /\ SubjectInv(c)' /\ ServedInv(c)'
    BY <1>1, <1>2, <1>3, <2>3, <2>4
       DEF CallInv, LogInv, HeaderInv, IdentityInv, Derived, SubjectInv, Bound, ServedInv
  <2>6. Brokered(c)' = Brokered(c)
    BY <1>3 DEF Brokered, Sponsored
  <2>7. CredentialInv(c)'
    BY <1>2, <1>3, <2>1, <2>3, <2>6 DEF CredentialInv, Exchanged
  <2>8. QED
    BY <2>2, <2>4, <2>5, <2>7, OnlyStep DEF CallInv
<1>6. CASE /\ credential' = credential
           /\ \/ pc' = [pc EXCEPT ![c] = "brokering_failed"]
              \/ pc' = [pc EXCEPT ![c] = "delegation_error"] /\ Sponsored(c)
  <2>1. PICK p \in {"brokering_failed", "delegation_error"} :
          /\ pc' = [pc EXCEPT ![c] = p]
          /\ p = "delegation_error" => Sponsored(c)
    BY <1>6
  <2>2. TypeOK'
    BY <1>1, <1>3, <1>6, <2>1 DEF TypeOK, Places, Outcomes
  <2>3. (\A d \in Calls \ {c} : pc'[d] = pc[d]) /\ pc'[c] = p
    BY <1>1, <2>1 DEF TypeOK
  <2>4. Only(c)
    BY <1>3, <1>6, <2>3, Elsewhere
  <2>5. LogInv(c)' /\ HeaderInv(c)' /\ IdentityInv(c)' /\ SubjectInv(c)' /\ ServedInv(c)'
    BY <1>1, <1>2, <1>3, <1>6, <2>3
       DEF CallInv, LogInv, HeaderInv, IdentityInv, Derived, SubjectInv, Bound, ServedInv
  <2>6. CredentialInv(c)'
    BY <1>1, <1>3, <1>6, <2>1, <2>3
       DEF CallInv, CredentialInv, Brokered, Sponsored, Exchanged
  <2>7. QED
    BY <2>2, <2>4, <2>5, <2>6, OnlyStep DEF CallInv
<1>7. QED
  <2>1. CASE ~Sponsored(c) /\ b = None /\ pc' = [pc EXCEPT ![c] = "forward"]
             /\ credential' = [credential EXCEPT ![c] = Opaque]
    BY <1>5, <2>1 DEF Presentable
  <2>2. CASE e # None /\ pc' = [pc EXCEPT ![c] = "forward"]
             /\ credential' = [credential EXCEPT ![c] = e]
    <3>1. /\ e \in Presentable \ {None}
          /\ e \in Token => Exchanged(e, b)
      BY <1>1, <1>4, <2>2, TokenExchangeFacts
    <3> HIDE DEF e, b
    <3>2. QED
      BY <1>5, <2>2, <3>1
  <2>3. QED
    BY <1>6, <2>1, <2>2 DEF Broker, Goto

\* A call that ends, served or not, keeps what is known of it.
LEMMA EndStep ==
  ASSUME IInv, NEW c \in Calls, NEW o \in {"result", "upstream_error"},
         pc[c] \in {"idle", "forward"}, pc' = [pc EXCEPT ![c] = o],
         UNCHANGED <<settings, now, wallet, req, identity, subject, credential, log>>,
         \/ served' = served
         \/ /\ credential[c] \in Token /\ now < credential[c].exp
            /\ served' = [served EXCEPT ![c] = [token |-> credential[c], at |-> now]]
  PROVE  IInv'
<1>1. TypeOK /\ CallInv(c) /\ served[c] = None
  BY DEF IInv, CallInv, ServedInv
<1>2. TypeOK'
  BY <1>1 DEF TypeOK, Places, Outcomes
<1>3. /\ \A d \in Calls \ {c} : pc'[d] = pc[d] /\ served'[d] = served[d]
      /\ pc'[c] = o
      /\ \/ served'[c] = None
         \/ served'[c] = [token |-> credential[c], at |-> now] /\ now < credential[c].exp
  BY <1>1 DEF TypeOK
<1>4. Only(c)
  BY <1>3, Elsewhere
<1>5. LogInv(c)' /\ HeaderInv(c)' /\ IdentityInv(c)' /\ SubjectInv(c)'
  BY <1>1, <1>3 DEF CallInv, LogInv, HeaderInv, IdentityInv, Derived, SubjectInv, Bound
<1>6. CredentialInv(c)' /\ ServedInv(c)'
  BY <1>1, <1>3
     DEF CallInv, CredentialInv, Brokered, Sponsored, Exchanged, ServedInv
<1>7. QED
  BY <1>2, <1>4, <1>5, <1>6, OnlyStep DEF CallInv

LEMMA ForwardStep ==
  ASSUME IInv, NEW c \in Calls, Forward(c)
  PROVE  IInv'
<1>1. PICK o \in {"result", "upstream_error"} : pc' = [pc EXCEPT ![c] = o]
  BY DEF Forward, Goto
<1>2. QED
  BY <1>1, EndStep DEF Forward, Serve, Accepts, Verifies

\* No token an agent holds is accepted: it is not for the MCP server.
LEMMA WalletIsUseless ==
  ASSUME IInv, NEW t \in wallet
  PROVE  ~Accepts(t)
BY DEF IInv, WalletInv, Accepts, Verifies

LEMMA BypassStep ==
  ASSUME IInv, NEW c \in Calls, Bypass(c)
  PROVE  IInv' /\ served' = served
<1>1. served' = served /\ pc' = [pc EXCEPT ![c] = "upstream_error"]
  BY WalletIsUseless DEF Bypass, Goto
<1>2. QED
  BY <1>1, EndStep DEF Bypass

LEMMA IInvStep == IInv /\ [Next]_vars => IInv'
<1>1. SUFFICES ASSUME IInv, [Next]_vars PROVE IInv'
  OBVIOUS
<1>2. ASSUME NEW c \in Calls,
             \/ Present(c) \/ Identify(c) \/ VerifySubject(c) \/ Judge(c)
             \/ Broker(c) \/ Forward(c) \/ Bypass(c)
      PROVE  IInv'
  BY <1>1, <1>2, PresentStep, IdentifyStep, VerifySubjectStep, JudgeStep, BrokerStep,
     ForwardStep, BypassStep
<1>3. QED
  BY <1>1, <1>2, OutsideStep DEF Next

\* The tokens, headers and calls of every reachable state satisfy IInv.
THEOREM InductiveInvariant == Spec => []IInv
BY IInvInit, IInvStep, PTL DEF Spec

-----------------------------------------------------------------------------
(* The properties.                                                         *)

\* Every variable of the credential flow keeps its type.
THEOREM TypeCorrect == Spec => []TypeOK
<1>1. IInv => TypeOK
  BY DEF IInv
<1>2. QED
  BY <1>1, InductiveInvariant, PTL

\* Agents never hold a token the MCP server accepts.
THEOREM AgentsHoldNoCredential == Spec => []WalletUselessUpstream
<1>1. IInv => WalletUselessUpstream
  BY WalletIsUseless DEF WalletUselessUpstream
<1>2. QED
  BY <1>1, InductiveInvariant, PTL

\* Facts about a call that was served.
LEMMA ServedFacts ==
  ASSUME IInv, NEW c \in Calls, served[c] # None
  PROVE  /\ served[c].token = credential[c] /\ credential[c] \in Token
         /\ served[c].at \in Nat /\ served[c].at < credential[c].exp
         /\ identity[c] \in AgentIdentity /\ req[c] \in Headers
         /\ Exchanged(credential[c], Brokered(c))
         /\ Derived(req[c], identity[c])
<1>1. TypeOK /\ CallInv(c)
  BY DEF IInv
<1>2. served[c].token = credential[c] /\ credential[c] \in Token /\ served[c].at \in Nat
  BY <1>1 DEF TypeOK, CallInv, ServedInv
<1>3. QED
  BY <1>1, <1>2 DEF TypeOK, CallInv, ServedInv, CredentialInv, IdentityInv

\* Who is served for an agent that is no delegate: not a human.
LEMMA AutonomousServesItself ==
  ASSUME IInv, NEW c \in Calls, Proven(c), ~Sponsored(c)
  PROVE  served[c].token.sub \notin Humans
<1> DEFINE b == req[c].bearer
<1>1. /\ served[c].token.sub = IF b.sub # None THEN b.sub ELSE b.azp
      /\ b \in Token /\ b.iss = "idp"
  BY ServedFacts DEF Proven, Brokered, Exchanged
<1>2. settings.identity_mode = "oidc-jwks"
  BY <1>1, ServedFacts DEF Proven, Derived, IInv, TypeOK, Setting
<1>3. b.azp \in Agents /\ ~HasHumanSponsor(b)
  <2>1. b.azp # None /\ (HasHumanSponsor(b) => b.sub = None)
    BY <1>2, ServedFacts DEF Proven, Derived, Sponsored
  <2>2. QED
    BY <1>1, <2>1 DEF Token, HasHumanSponsor
<1>4. b \in wallet
  BY <1>1, ServedFacts DEF IInv, CallInv, HeaderInv, Proven
<1>5. b.sub \in {None, b.azp, ServiceAccount}
  BY <1>3, <1>4 DEF HasHumanSponsor, IInv, WalletInv
<1>6. QED
  BY <1>1, <1>3, <1>5

\* The MCP server serves the user the gateway verified, or no user.
THEOREM UpstreamAgrees == Spec => []VerifiedIsServed
<1>1. IInv => VerifiedIsServed
  <2>1. SUFFICES ASSUME IInv, NEW c \in Calls, Proven(c), subject[c] # None,
                        served[c].token.sub \in Humans
                 PROVE  served[c].token.sub = subject[c].subject_id
    BY DEF VerifiedIsServed
  <2>2. Sponsored(c)
    BY <2>1, AutonomousServesItself
  <2>3. /\ subject[c].subject_id = req[c].subject_token.sub
        /\ subject[c] \in SubjectIdentity
    BY <2>1 DEF IInv, CallInv, SubjectInv, TypeOK
  <2>4. QED
    BY <2>1, <2>2, <2>3, ServedFacts
       DEF Proven, Brokered, Exchanged, SubjectIdentity, Subjects
<1>2. QED
  BY <1>1, InductiveInvariant, PTL

\* A user's data is served through an agent only by right.
THEOREM UsersAreDelegated == Spec => []DelegationIsEarned
<1>1. IInv => DelegationIsEarned
  <2>1. SUFFICES ASSUME IInv, NEW c \in Calls, Proven(c),
                        served[c].token.sub \in Humans,
                        settings.identity_mode = "oidc-jwks"
                 PROVE  /\ req[c].bearer.sub \in Humans
                        /\ settings.subject_verification
                             /\ settings.subject_binding = "strict" =>
                             \/ req[c].subject_token.may_act = req[c].bearer.azp
                             \/ served[c].token.sub = req[c].bearer.sub
    BY DEF DelegationIsEarned
  <2> DEFINE b == req[c].bearer
             t == req[c].subject_token
  <2>2. Sponsored(c)
    BY <2>1, AutonomousServesItself
  <2>3. /\ identity[c].human_sponsor = b.sub /\ b.sub \in Humans
        /\ identity[c].client_id = b.azp /\ b.azp # None
    BY <2>1, <2>2, ServedFacts DEF Proven, Derived, Sponsored, AgentIdentity
  <2>4. /\ t \in Token /\ served[c].token.sub = IF t.sub # None THEN t.sub ELSE t.azp
        /\ credential[c] # None
    BY <2>1, <2>2, ServedFacts DEF Proven, Brokered, Exchanged
  <2>5. ASSUME settings.subject_verification, settings.subject_binding = "strict"
        PROVE  t.may_act = b.azp \/ served[c].token.sub = b.sub
    <3>1. subject[c] # None
      BY <2>1, <2>4, <2>5 DEF IInv, CallInv, SubjectInv
    <3>2. /\ subject[c].subject_id = t.sub /\ subject[c].authorized_actor = t.may_act
          /\ Bound(identity[c], subject[c]) /\ subject[c] \in SubjectIdentity
      BY <2>1, <3>1 DEF IInv, CallInv, SubjectInv, TypeOK
    <3>3. t.sub # None
      BY <3>2 DEF SubjectIdentity
    <3>4. QED
      BY <2>3, <2>4, <2>5, <3>2, <3>3 DEF Bound, Subjects
  <2>6. QED
    BY <2>3, <2>5
<1>2. QED
  BY <1>1, InductiveInvariant, PTL

\* Only a token of a human makes the gateway ask for a user's token.
THEOREM AutonomousIsNotDelegated == Spec => []AutonomousNeedsNoUser
<1>1. IInv => AutonomousNeedsNoUser
  <2>1. SUFFICES ASSUME IInv, NEW c \in Calls, pc[c] = "delegation_error",
                        settings.identity_mode = "oidc-jwks"
                 PROVE  req[c].bearer.sub \in Humans
    BY DEF AutonomousNeedsNoUser
  <2>2. identity[c] # None /\ identity[c].human_sponsor # None
    BY <2>1 DEF IInv, CallInv, IdentityInv, CredentialInv, Sponsored
  <2>3. identity[c] \in AgentIdentity /\ Derived(req[c], identity[c])
    BY <2>1, <2>2 DEF IInv, CallInv, IdentityInv, TypeOK
  <2>4. QED
    BY <2>1, <2>2, <2>3 DEF Derived, AgentIdentity
<1>2. QED
  BY <1>1, InductiveInvariant, PTL

\* A presented token is worth at most BrokeredTTL after it expired.
THEOREM CredentialLifeIsBounded == Spec => []LifeBounded
<1>1. IInv => LifeBounded
  <2>1. SUFFICES ASSUME IInv, NEW c \in Calls, served[c] # None
                 PROVE  served[c].at < Brokered(c).exp + BrokeredTTL
    BY DEF LifeBounded
  <2>2. /\ credential[c].exp \in Nat /\ Brokered(c).exp \in Nat
        /\ credential[c].exp < Brokered(c).exp + BrokeredTTL
    BY <2>1, ServedFacts DEF Token, Exchanged
  <2>3. QED
    BY <2>1, <2>2, ServedFacts
<1>2. QED
  BY <1>1, InductiveInvariant, PTL

-----------------------------------------------------------------------------
(* The refinement.                                                         *)

LEMMA StepIsAudited == IInv /\ [Next]_vars => [Audited!Next]_<<log, {c \in Calls : served[c] # None}>>
<1> DEFINE effects == {c \in Calls : served[c] # None}
<1>1. SUFFICES ASSUME IInv, [Next]_vars
               PROVE  Audited!Next \/ UNCHANGED <<log, effects>>
  BY DEF Audited!vars
<1>2. ASSUME UNCHANGED <<log, served>> PROVE UNCHANGED <<log, effects>>
  BY <1>2
<1>3. ASSUME NEW c \in Calls, Judge(c) PROVE Audited!Next
  <2>1. ~Audited!Judged(c) /\ effects' = effects
    BY <1>1, <1>3 DEF Judge, IInv, CallInv, LogInv
  <2>2. PICK p \in BOOLEAN : log' = Append(log, [call |-> c, permit |-> p])
    BY <1>3 DEF Judge
  <2>3. QED
    BY <2>1, <2>2 DEF Audited!Next, Audited!Judge
<1>4. ASSUME NEW c \in Calls, Forward(c), served' # served PROVE Audited!Next
  <2>1. served' = [served EXCEPT ![c] = [token |-> credential[c], at |-> now]]
    BY <1>4 DEF Forward, Serve
  <2>2. Accepts(credential[c]) /\ log' = log /\ Audited!Permitted(c)
    BY <1>1, <1>4 DEF Forward, IInv, CallInv, LogInv
  <2>3. served'[c] # None /\ \A d \in Calls \ {c} : served'[d] = served[d]
    <3>1. [token |-> credential[c], at |-> now] \in [token: Token, at: Nat]
      BY <1>1, <2>2 DEF Accepts, Verifies, IInv, TypeOK
    <3>2. DOMAIN served = Calls /\ [token |-> credential[c], at |-> now] # None
      BY <1>1, <3>1 DEF IInv, TypeOK
    <3>3. QED
      BY <2>1, <3>2
  <2>4. effects' = effects \cup {c}
    BY <2>3
  <2>5. QED
    BY <2>2, <2>4 DEF Audited!Next, Audited!Take
<1>5. ASSUME NEW c \in Calls, Present(c) \/ Identify(c) \/ VerifySubject(c) \/ Broker(c)
      PROVE  UNCHANGED <<log, served>>
  BY <1>5 DEF Present, Identify, VerifySubject, Broker
<1>6. ASSUME NEW c \in Calls, Bypass(c) PROVE UNCHANGED <<log, served>>
  BY <1>1, <1>6, BypassStep DEF Bypass
<1>7. ASSUME NEW c \in Calls, Forward(c), served' = served PROVE UNCHANGED <<log, served>>
  BY <1>7 DEF Forward
<1>8. QED
  BY <1>1, <1>2, <1>3, <1>4, <1>5, <1>6, <1>7, OutsideStep DEF Next

\* No path to the data skips governance.
THEOREM GatewayIsLoadBearing == Spec => AuditedSpec
<1>1. Init => Audited!Init
  BY DEF Init, Audited!Init
<1>2. QED
  BY <1>1, StepIsAudited, InductiveInvariant, PTL DEF Spec, AuditedSpec, Audited!Spec, Audited!vars
=============================================================================

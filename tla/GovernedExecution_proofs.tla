---------------------- MODULE GovernedExecution_proofs ----------------------
(***************************************************************************)
(* Proofs about GovernedExecution, for any number of calls, agents, tools, *)
(* users, requests, registrations and settings.                            *)
(***************************************************************************)
EXTENDS GovernedExecution, SequenceTheorems, TLAPS

\* What Append leaves of a sequence, and where it puts the new element.
LEMMA AppendFacts ==
  ASSUME NEW S, NEW s \in Seq(S), NEW e \in S
  PROVE  /\ Append(s, e) \in Seq(S)
         /\ Len(s) \in Nat
         /\ DOMAIN s = 1..Len(s)
         /\ DOMAIN Append(s, e) = 1..(Len(s) + 1)
         /\ \A i \in 1..Len(s) : Append(s, e)[i] = s[i]
         /\ Append(s, e)[Len(s) + 1] = e
         /\ Append(s, e) = [i \in 1..(Len(s) + 1) |-> Append(s, e)[i]]
<1>1. Append(s, e) \in [1..Len(Append(s, e)) -> S]
  BY AppendProperties, LenProperties
<1>2. /\ Append(s, e) \in Seq(S)
      /\ Len(s) \in Nat
      /\ Len(Append(s, e)) = Len(s) + 1
      /\ DOMAIN s = 1..Len(s)
      /\ DOMAIN Append(s, e) = 1..(Len(s) + 1)
      /\ \A i \in 1..Len(s) : Append(s, e)[i] = s[i]
      /\ Append(s, e)[Len(s) + 1] = e
  OBVIOUS
<1>3. QED
  BY <1>1, <1>2

\* The policy answers ALLOW or DENY, or its evaluation fails.
LEMMA EvaluationsAreVerdicts ==
  ASSUME NEW reg, NEW method, NEW tool, NEW args, NEW s
  PROVE  Evaluations(reg, method, tool, args, s) \subseteq {"ALLOW", "DENY", "error"}
  BY DEF Evaluations

-----------------------------------------------------------------------------
(* The policy, for every record, request and subject.                      *)

\* The policy says ALLOW only of a call its rules allow, and never of one whose
\* tool has two grants: its evaluation fails on them, or denies.
LEMMA AllowIsUnambiguous ==
  ASSUME NEW reg, NEW method, NEW tool, NEW args, NEW s,
         "ALLOW" \in Evaluations(reg, method, tool, args, s)
  PROVE  Allow(reg, method, tool, args, s) /\ ~GrantConflict(reg, method, tool)
<1>1. CASE ~GrantConflict(reg, method, tool)
  BY <1>1 DEF Evaluations
<1>2. CASE GrantConflict(reg, method, tool)
  <2>1. OverThreshold(tool, args) => ~Allow(reg, method, tool, args, s)
    BY <1>2 DEF GrantConflict, Allow, GuardrailViolation
  <2>2. QED
    BY <1>2, <2>1 DEF Evaluations
<1>3. QED
  BY <1>1, <1>2

\* ADR-0008: the registry is the source of truth for capability. What the
\* policy says of a tool depends on the agent's status and on the grants of
\* that tool alone, so re-scoping another tool changes no verdict on this one.
THEOREM VerdictFollowsItsGrants ==
  ASSUME NEW reg, NEW other, reg.status = other.status, NEW tool,
         GrantsFor(reg, tool) = GrantsFor(other, tool),
         NEW method, NEW args, NEW s
  PROVE  Evaluations(reg, method, tool, args, s) =
           Evaluations(other, method, tool, args, s)
<1>1. GrantConflict(reg, method, tool) <=> GrantConflict(other, method, tool)
  BY DEF GrantConflict
<1>2. Allow(reg, method, tool, args, s) <=> Allow(other, method, tool, args, s)
  BY DEF Allow, Granted, GuardrailViolation
<1>3. QED
  BY <1>1, <1>2 DEF Evaluations

\* ADR-0019, ADR-0021: a user with more roles is allowed no less, and a user is
\* allowed no less than nobody: roles and subjects only ever satisfy terms.
THEOREM RolesOnlyWiden ==
  ASSUME NEW reg, NEW method, NEW tool, NEW args,
         NEW s, NEW t, t # None,
         s # None => s.roles \subseteq t.roles,
         "ALLOW" \in Evaluations(reg, method, tool, args, s)
  PROVE  "ALLOW" \in Evaluations(reg, method, tool, args, t)
<1>1. Allow(reg, method, tool, args, s) /\ ~GrantConflict(reg, method, tool)
  BY AllowIsUnambiguous
<1>2. ASSUME NEW g, ~TermsViolated(g, s) PROVE ~TermsViolated(g, t)
  BY <1>2 DEF TermsViolated, RequiresDelegation, HasAnyRole
<1>3. Allow(reg, method, tool, args, t)
  BY <1>1, <1>2 DEF Allow, GuardrailViolation
<1>4. QED
  BY <1>1, <1>3 DEF Evaluations

-----------------------------------------------------------------------------
(* Type correctness.                                                       *)

\* Whatever the gate decides is a PolicyDecision, and only that changes.
LEMMA DecisionType ==
  ASSUME TypeOK, NEW c \in Calls, NEW v \in {"ALLOW", "DENY"},
         NEW reason \in GateReasons \cup {"policy"}, NEW b \in BOOLEAN,
         SetDecision(c, v, reason, b)
  PROVE  /\ decision' \in [Calls -> PolicyDecision \cup {None}]
         /\ shadow' \in [Calls -> BOOLEAN]
         /\ pc' \in [Calls -> Places]
         /\ answer' \in [Calls -> Answers \cup {None}]
         /\ decision'[c] \in PolicyDecision /\ pc'[c] = "record"
         /\ UNCHANGED answer
<1>1. [decision |-> v, reason |-> reason] \in PolicyDecision
  BY DEF PolicyDecision
<1>2. QED
  BY <1>1 DEF SetDecision, Goto, TypeOK, Places, InFlight

\* Every step of a call or of its environment keeps the types.
LEMMA TypeStep == IInv /\ [Next]_vars => TypeOK'
<1> SUFFICES ASSUME IInv, [Next]_vars PROVE TypeOK'
  OBVIOUS
<1> USE DEF world, log, upstream, local
<1>0. TypeOK /\ \A c \in Calls : Identified(c) /\ Decided(c)
  BY DEF IInv, CallInv
<1>1. ASSUME NEW c \in Calls, Identify(c) PROVE TypeOK'
  BY <1>0, <1>1 DEF Identify, TypeOK, Goto, Answer, Places, InFlight, Answers
<1>2. ASSUME NEW c \in Calls, Lookup(c) PROVE TypeOK'
  <2>1. Agent(c).spiffe_id \in Agents
    BY <1>0, <1>2 DEF Lookup, Identified, InFlight, Agent, AgentIdentity
  <2>2. QED
    BY <1>0, <1>2, <2>1 DEF Lookup, TypeOK, Goto, Answer, Places, InFlight, Answers
<1>3. ASSUME NEW c \in Calls, VerifySubject(c) PROVE TypeOK'
  <2>1. req[c].subject_token \in SubjectIdentity \cup {None, Invalid}
    BY <1>0, <1>3, RequestsAssumption
    DEF VerifySubject, Identified, InFlight, Request
  <2>2. QED
    BY <1>0, <1>3, <2>1 DEF VerifySubject, TypeOK, Goto, Answer, Places, InFlight, Answers
<1>4. ASSUME NEW c \in Calls, RegistryGate(c) PROVE TypeOK'
  <2>1. \E reason \in GateReasons : SetDecision(c, "DENY", reason, FALSE)
    BY <1>4 DEF RegistryGate, GateReasons
  <2>2. QED
    BY <1>0, <1>4, <2>1, DecisionType DEF RegistryGate, TypeOK
<1>5. ASSUME NEW c \in Calls, EvaluatePolicy(c) PROVE TypeOK'
  <2>1. \/ \E v \in {"ALLOW", "DENY"}, reason \in GateReasons \cup {"policy"}, b \in BOOLEAN :
             SetDecision(c, v, reason, b)
        \/ Answer(c, "internal_error") /\ UNCHANGED <<decision, shadow>>
    BY <1>5, EvaluationsAreVerdicts DEF EvaluatePolicy, GateReasons
  <2>2. UNCHANGED <<settings, registry, recent, req, registration, subject, credential,
                    listing, receipts, exported, sent, effects>>
    BY <1>5 DEF EvaluatePolicy
  <2>3. CASE \E v \in {"ALLOW", "DENY"}, reason \in GateReasons \cup {"policy"}, b \in BOOLEAN :
               SetDecision(c, v, reason, b)
    <3>1. /\ pc' \in [Calls -> Places] /\ shadow' \in [Calls -> BOOLEAN]
          /\ decision' \in [Calls -> PolicyDecision \cup {None}]
          /\ UNCHANGED answer
      BY <1>0, <2>3, DecisionType
    <3>2. QED
      BY <1>0, <2>2, <3>1 DEF TypeOK
  <2>4. CASE Answer(c, "internal_error") /\ UNCHANGED <<decision, shadow>>
    BY <1>0, <2>2, <2>4 DEF TypeOK, Answer, Places, Answers
  <2>5. QED
    BY <2>1, <2>3, <2>4
<1>6. ASSUME NEW c \in Calls, Record(c) PROVE TypeOK'
  <2> DEFINE e == [call |-> c, decision |-> decision[c].decision,
                   reason |-> decision[c].reason, enforced |-> ~shadow[c]]
  <2>1. e \in Receipt
    BY <1>0, <1>6 DEF Record, Decided, TypeOK, PolicyDecision, Receipt
  <2>2. receipts' \in Seq(Receipt)
    <3>1. receipts' \in {Append(receipts, e), receipts}
      BY <1>6 DEF Record
    <3> HIDE DEF e
    <3>2. receipts \in Seq(Receipt)
      BY <1>0 DEF TypeOK
    <3>3. QED
      BY <2>1, <3>1, <3>2, AppendFacts
  <2>3. QED
    BY <1>0, <1>6, <2>2 DEF Record, TypeOK, Goto, Answer, Places, InFlight, Answers
<1>7. ASSUME NEW c \in Calls, Export(c) PROVE TypeOK'
  BY <1>0, <1>7 DEF Export, TypeOK, Goto, Answer, Places, InFlight, Answers
<1>8. ASSUME NEW c \in Calls, BrokerCredential(c) PROVE TypeOK'
  BY <1>0, <1>8
  DEF BrokerCredential, TypeOK, Goto, Answer, Places, InFlight, Answers, Credentials
<1>9. ASSUME NEW c \in Calls, Forward(c) PROVE TypeOK'
  BY <1>0, <1>9 DEF Forward, TypeOK, Goto, Answer, Places, InFlight, Answers
<1>10. ASSUME NEW c \in Calls, Reply(c) PROVE TypeOK'
  <2>1. PICK catalogue \in (SUBSET Tools) \cup {None} :
          listing' = [listing EXCEPT ![c] = FilterListing(c, catalogue)]
    BY <1>10 DEF Reply
  <2>2. FilterListing(c, catalogue) \in SUBSET Tools
    <3>1. catalogue = None => FilterListing(c, catalogue) = {}
      BY DEF FilterListing
    <3>2. \A t \in FilterListing(c, catalogue) : t \in catalogue
      BY DEF FilterListing
    <3>3. QED
      BY <2>1, <3>1, <3>2
  <2>3. listing' \in [Calls -> SUBSET Tools]
    BY <1>0, <2>1, <2>2 DEF TypeOK
  <2>4. QED
    BY <1>0, <1>10, <2>3 DEF Reply, TypeOK, Answer, Places, InFlight, Answers
<1>11. ASSUME NEW c \in Calls, UpstreamFails(c) PROVE TypeOK'
  BY <1>0, <1>11 DEF UpstreamFails, TypeOK, Answer, Places, InFlight, Answers
<1>12. ASSUME NEW c \in Calls, UpstreamRuns(c) PROVE TypeOK'
  BY <1>0, <1>12 DEF UpstreamRuns, TypeOK
<1>13. ASSUME NEW a \in Agents, OperatorSets(a) PROVE TypeOK'
  BY <1>0, <1>13 DEF OperatorSets, TypeOK
<1>14. ASSUME NEW a \in Agents, Expire(a) PROVE TypeOK'
  BY <1>0, <1>14 DEF Expire, TypeOK
<1>15. CASE GatewayCrash
  BY <1>0, <1>15 DEF GatewayCrash, TypeOK, Places, InFlight
<1>16. CASE UNCHANGED vars
  BY <1>0, <1>16 DEF TypeOK, vars
<1>17. QED
  BY <1>1, <1>2, <1>3, <1>4, <1>5, <1>6, <1>7, <1>8, <1>9, <1>10, <1>11, <1>12,
     <1>13, <1>14, <1>15, <1>16 DEF Next, Proceed

-----------------------------------------------------------------------------
(* The receipts of a call.                                                 *)

\* What was recorded for a call permits it exactly if the gate let it pass.
LEMMA ReceiptVerdict ==
  ASSUME TypeOK, NEW c \in Calls, decision[c] \in PolicyDecision, ReceiptOf(c)
  PROVE  /\ Receipted(c)
         /\ Allowed(c) => ReceiptPermits(c)
         /\ ~Allowed(c) => ReceiptRefuses(c)
<1>1. shadow[c] \in BOOLEAN
  BY DEF TypeOK
<1>2. PICK i \in DOMAIN receipts : /\ receipts[i].call = c
                                  /\ receipts[i].decision = decision[c].decision
                                  /\ receipts[i].enforced = ~shadow[c]
  BY DEF ReceiptOf
<1>3. Receipted(c)
  BY <1>2 DEF Receipted
<1>4. Permits(receipts[i]) <=> Allowed(c)
  BY <1>1, <1>2 DEF Permits, Allowed
<1>5. QED
  BY <1>2, <1>3, <1>4 DEF ReceiptPermits, ReceiptRefuses

\* A step that records nothing changes nothing of what the ledger says.
LEMMA LedgerKept ==
  ASSUME receipts' = receipts, NEW c \in Calls
  PROVE  /\ Receipted(c)' <=> Receipted(c)
         /\ ReceiptPermits(c)' <=> ReceiptPermits(c)
         /\ ReceiptRefuses(c)' <=> ReceiptRefuses(c)
         /\ decision'[c] = decision[c] /\ shadow'[c] = shadow[c] =>
              (ReceiptOf(c)' <=> ReceiptOf(c))
  BY DEF Receipted, ReceiptPermits, ReceiptRefuses, ReceiptOf, Permits

\* A receipt of one call says nothing of another.
LEMMA LedgerOfOthers ==
  ASSUME TypeOK, NEW e \in Receipt, receipts' = Append(receipts, e),
         NEW d \in Calls, e.call # d
  PROVE  /\ Receipted(d)' <=> Receipted(d)
         /\ ReceiptPermits(d)' <=> ReceiptPermits(d)
         /\ ReceiptRefuses(d)' <=> ReceiptRefuses(d)
         /\ decision'[d] = decision[d] /\ shadow'[d] = shadow[d] =>
              (ReceiptOf(d)' <=> ReceiptOf(d))
<1>1. receipts \in Seq(Receipt)
  BY DEF TypeOK
<1>2. /\ DOMAIN receipts = 1..Len(receipts)
      /\ DOMAIN receipts' = 1..(Len(receipts) + 1)
      /\ \A i \in 1..Len(receipts) : receipts'[i] = receipts[i]
      /\ receipts'[Len(receipts) + 1] = e
      /\ Len(receipts) \in Nat
  BY <1>1, AppendFacts
<1>3. \A i \in DOMAIN receipts' :
        receipts'[i].call = d => i \in DOMAIN receipts /\ receipts'[i] = receipts[i]
  BY <1>2
<1>4. \A i \in DOMAIN receipts : i \in DOMAIN receipts' /\ receipts'[i] = receipts[i]
  BY <1>2
<1>5. QED
  BY <1>3, <1>4 DEF Receipted, ReceiptPermits, ReceiptRefuses, ReceiptOf, Permits

\* The locals a call keeps when another one takes a step.
Untouched(d) ==
  /\ pc'[d] = pc[d] /\ req'[d] = req[d] /\ answer'[d] = answer[d]
  /\ decision'[d] = decision[d] /\ shadow'[d] = shadow[d]
  /\ d \in sent' <=> d \in sent

\* A step that touches one call only keeps what the invariant says of the
\* others: their place, decision, answer and receipts are as before.
LEMMA OthersKept ==
  ASSUME IInv, NEW c \in Calls, NEW d \in Calls, d # c, Untouched(d),
         \/ receipts' = receipts
         \/ \E e \in Receipt : e.call = c /\ receipts' = Append(receipts, e)
  PROVE  CallInv(d)' /\ Truthful(d)'
<1>1. TypeOK /\ CallInv(d) /\ Truthful(d)
  BY DEF IInv, AnswerTellsTheTruth
<1>2. /\ Receipted(d)' <=> Receipted(d)
      /\ ReceiptPermits(d)' <=> ReceiptPermits(d)
      /\ ReceiptRefuses(d)' <=> ReceiptRefuses(d)
      /\ ReceiptOf(d)' <=> ReceiptOf(d)
  BY <1>1, LedgerKept, LedgerOfOthers DEF Untouched
<1>3. Truthful(d)'
  BY <1>1, <1>2 DEF Truthful, Untouched
<1>4. CallInv(d)'
  BY <1>1, <1>2
  DEF CallInv, Identified, Decided, Unreceipted, Recorded, Permitted, SentOnce,
      Unanswered, Untouched
<1>5. QED
  BY <1>3, <1>4

\* A step of one call that neither records, exports nor sends.
LEMMA QuietStep ==
  ASSUME IInv, NEW c \in Calls,
         \A d \in Calls \ {c} : Untouched(d),
         UNCHANGED <<receipts, exported, sent>>,
         CallInv(c)', Truthful(c)'
  PROVE  WriteAhead' /\ \A d \in Calls : CallInv(d)' /\ Truthful(d)'
<1>1. WriteAhead'
  <2>1. WriteAhead /\ sent \subseteq Calls /\ exported \subseteq Calls
    BY DEF IInv, TypeOK
  <2>2. QED
    BY <2>1, LedgerKept DEF WriteAhead
<1>2. QED
  BY <1>1, OthersKept

\* Only Record appends to the ledger, once per call: the parts of the
\* invariant that speak of receipts, exports and requests sent are kept.
LEMMA InvStep ==
  IInv /\ [Next]_vars =>
    WriteAhead' /\ \A d \in Calls : CallInv(d)' /\ Truthful(d)'
<1> SUFFICES ASSUME IInv, [Next]_vars
             PROVE  WriteAhead' /\ \A d \in Calls : CallInv(d)' /\ Truthful(d)'
  OBVIOUS
<1> USE DEF world, log, upstream, local, Identified, Decided, Unreceipted,
            Recorded, Permitted, SentOnce, Unanswered, InFlight, BeforeRecord,
            AfterRecord, AfterExport
<1>0. /\ TypeOK /\ TypeOK'
      /\ WriteAhead
      /\ \A d \in Calls : CallInv(d) /\ Truthful(d)
  BY TypeStep DEF IInv, AnswerTellsTheTruth
<1>1. ASSUME NEW c \in Calls, Identify(c)
      PROVE  WriteAhead' /\ \A d \in Calls : CallInv(d)' /\ Truthful(d)'
  <2>1. UNCHANGED <<receipts, exported, sent>> /\ \A d \in Calls \ {c} : Untouched(d)
    BY <1>0, <1>1 DEF Identify, Goto, Answer, TypeOK, Untouched
  <2>2. CallInv(c)' /\ Truthful(c)'
    BY <1>0, <1>1, <2>1, LedgerKept, RequestsAssumption
    DEF Identify, Goto, Answer, CallInv, Truthful, TypeOK, Request
  <2>3. QED
    BY <2>1, <2>2, QuietStep
<1>2. ASSUME NEW c \in Calls, Lookup(c)
      PROVE  WriteAhead' /\ \A d \in Calls : CallInv(d)' /\ Truthful(d)'
  <2>1. UNCHANGED <<receipts, exported, sent>> /\ \A d \in Calls \ {c} : Untouched(d)
    BY <1>0, <1>2 DEF Lookup, Goto, Answer, TypeOK, Untouched
  <2>2. CallInv(c)' /\ Truthful(c)'
    BY <1>0, <1>2, <2>1, LedgerKept DEF Lookup, Goto, Answer, CallInv, Truthful, TypeOK
  <2>3. QED
    BY <2>1, <2>2, QuietStep
<1>3. ASSUME NEW c \in Calls, VerifySubject(c)
      PROVE  WriteAhead' /\ \A d \in Calls : CallInv(d)' /\ Truthful(d)'
  <2>1. UNCHANGED <<receipts, exported, sent>> /\ \A d \in Calls \ {c} : Untouched(d)
    BY <1>0, <1>3 DEF VerifySubject, Goto, Answer, TypeOK, Untouched
  <2>2. CallInv(c)' /\ Truthful(c)'
    BY <1>0, <1>3, <2>1, LedgerKept DEF VerifySubject, Goto, Answer, CallInv, Truthful, TypeOK
  <2>3. QED
    BY <2>1, <2>2, QuietStep
<1>4. ASSUME NEW c \in Calls, RegistryGate(c)
      PROVE  WriteAhead' /\ \A d \in Calls : CallInv(d)' /\ Truthful(d)'
  <2>1. UNCHANGED <<receipts, exported, sent>> /\ \A d \in Calls \ {c} : Untouched(d)
    <3>1. \E reason \in GateReasons : SetDecision(c, "DENY", reason, FALSE)
      BY <1>4 DEF RegistryGate, GateReasons
    <3>2. \A d \in Calls \ {c} :
            /\ pc'[d] = pc[d] /\ answer'[d] = answer[d]
            /\ decision'[d] = decision[d] /\ shadow'[d] = shadow[d]
      BY <1>0, <3>1 DEF SetDecision, Goto, TypeOK
    <3>3. UNCHANGED <<receipts, exported, sent, req>>
      BY <1>4 DEF RegistryGate
    <3>4. QED
      BY <3>2, <3>3 DEF Untouched
  <2>2. CallInv(c)' /\ Truthful(c)'
    <3>1. pc'[c] = "record" /\ decision'[c] \in PolicyDecision /\ answer'[c] = None
      <4>1. \E reason \in GateReasons : SetDecision(c, "DENY", reason, FALSE)
        BY <1>4 DEF RegistryGate, GateReasons
      <4>2. answer[c] = None
        BY <1>0, <1>4 DEF RegistryGate, CallInv
      <4>3. QED
        BY <1>0, <4>1, <4>2, DecisionType
    <3>2. UNCHANGED <<req, receipts, sent>> /\ pc[c] = "decide"
      BY <1>4 DEF RegistryGate
    <3>3. QED
      BY <1>0, <3>1, <3>2, LedgerKept DEF CallInv, Truthful
  <2>3. QED
    BY <2>1, <2>2, QuietStep
<1>5. ASSUME NEW c \in Calls, EvaluatePolicy(c)
      PROVE  WriteAhead' /\ \A d \in Calls : CallInv(d)' /\ Truthful(d)'
  <2>1. UNCHANGED <<receipts, exported, sent>> /\ \A d \in Calls \ {c} : Untouched(d)
    <3>1. UNCHANGED <<receipts, exported, sent, req>>
      BY <1>5 DEF EvaluatePolicy
    <3>2. \/ \E v \in {"ALLOW", "DENY", "error"}, reason \in GateReasons \cup {"policy"},
                b \in BOOLEAN : SetDecision(c, v, reason, b)
          \/ Answer(c, "internal_error") /\ UNCHANGED <<decision, shadow>>
      BY <1>5, EvaluationsAreVerdicts DEF EvaluatePolicy, GateReasons
    <3>3. CASE \E v \in {"ALLOW", "DENY", "error"}, reason \in GateReasons \cup {"policy"},
                  b \in BOOLEAN : SetDecision(c, v, reason, b)
      BY <1>0, <3>1, <3>3 DEF SetDecision, Goto, TypeOK, Untouched
    <3>4. CASE Answer(c, "internal_error") /\ UNCHANGED <<decision, shadow>>
      BY <1>0, <3>1, <3>4 DEF Answer, TypeOK, Untouched
    <3>5. QED
      BY <3>1, <3>2, <3>3, <3>4
  <2>2. CallInv(c)' /\ Truthful(c)'
    <3>1. \/ pc'[c] = "record" /\ decision'[c] \in PolicyDecision /\ answer'[c] = None
          \/ pc'[c] = "done" /\ answer'[c] = "internal_error"
      <4>1. \/ \E v \in {"ALLOW", "DENY"}, reason \in GateReasons \cup {"policy"},
                    b \in BOOLEAN : SetDecision(c, v, reason, b)
            \/ Answer(c, "internal_error")
        BY <1>5, EvaluationsAreVerdicts DEF EvaluatePolicy, GateReasons
      <4>2. answer[c] = None
        BY <1>0, <1>5 DEF EvaluatePolicy, CallInv
      <4>3. CASE Answer(c, "internal_error")
        BY <1>0, <4>3 DEF Answer, TypeOK
      <4>4. QED
        BY <1>0, <4>1, <4>2, <4>3, DecisionType
    <3>2. UNCHANGED <<req, receipts, sent>> /\ pc[c] = "decide"
      BY <1>5 DEF EvaluatePolicy
    <3>3. QED
      BY <1>0, <3>1, <3>2, LedgerKept DEF CallInv, Truthful
  <2>3. QED
    BY <2>1, <2>2, QuietStep
<1>6. ASSUME NEW c \in Calls, BrokerCredential(c)
      PROVE  WriteAhead' /\ \A d \in Calls : CallInv(d)' /\ Truthful(d)'
  <2>1. UNCHANGED <<receipts, exported, sent>> /\ \A d \in Calls \ {c} : Untouched(d)
    BY <1>0, <1>6 DEF BrokerCredential, Goto, Answer, TypeOK, Untouched
  <2>2. /\ UNCHANGED <<req, decision, shadow, receipts, sent>>
        /\ pc[c] = "broker"
        /\ \/ pc'[c] = "forward" /\ answer'[c] = answer[c]
           \/ pc'[c] = "done" /\ answer'[c] \in {"delegation_error", "brokering_failed",
                                                 "internal_error"}
    BY <1>0, <1>6 DEF BrokerCredential, Goto, Answer, TypeOK
  <2>3. CallInv(c)' /\ Truthful(c)'
    BY <1>0, <2>2, LedgerKept DEF CallInv, Truthful
  <2>4. QED
    BY <2>1, <2>3, QuietStep
<1>7. ASSUME NEW c \in Calls, Reply(c)
      PROVE  WriteAhead' /\ \A d \in Calls : CallInv(d)' /\ Truthful(d)'
  <2>1. UNCHANGED <<receipts, exported, sent>> /\ \A d \in Calls \ {c} : Untouched(d)
    BY <1>0, <1>7 DEF Reply, Goto, Answer, TypeOK, Untouched
  <2>2. CallInv(c)' /\ Truthful(c)'
    BY <1>0, <1>7, <2>1, LedgerKept DEF Reply, Goto, Answer, CallInv, Truthful, TypeOK
  <2>3. QED
    BY <2>1, <2>2, QuietStep
<1>8. ASSUME NEW c \in Calls, UpstreamFails(c)
      PROVE  WriteAhead' /\ \A d \in Calls : CallInv(d)' /\ Truthful(d)'
  <2>1. UNCHANGED <<receipts, exported, sent>> /\ \A d \in Calls \ {c} : Untouched(d)
    BY <1>0, <1>8 DEF UpstreamFails, Goto, Answer, TypeOK, Untouched
  <2>2. CallInv(c)' /\ Truthful(c)'
    BY <1>0, <1>8, <2>1, LedgerKept DEF UpstreamFails, Goto, Answer, CallInv, Truthful, TypeOK
  <2>3. QED
    BY <2>1, <2>2, QuietStep
<1>9. ASSUME NEW c \in Calls, Record(c)
      PROVE  WriteAhead' /\ \A d \in Calls : CallInv(d)' /\ Truthful(d)'
  <2> DEFINE e == [call |-> c, decision |-> decision[c].decision,
                   reason |-> decision[c].reason, enforced |-> ~shadow[c]]
  <2>1. /\ UNCHANGED <<req, decision, shadow, exported, sent>>
        /\ \A d \in Calls \ {c} : Untouched(d)
    BY <1>0, <1>9 DEF Record, Goto, Answer, TypeOK, Untouched
  <2>2. CASE UNCHANGED receipts /\ Answer(c, "internal_error")
    <3>1. CallInv(c)' /\ Truthful(c)'
      BY <1>0, <2>2 DEF Answer, CallInv, Truthful, TypeOK
    <3>2. QED
      BY <2>1, <2>2, <3>1, QuietStep
  <2>3. CASE /\ receipts' = Append(receipts, e)
             /\ Goto(c, "export") \/ Answer(c, "internal_error")
    <3>1. e \in Receipt /\ e.call = c
      BY <1>0, <1>9 DEF Record, CallInv, TypeOK, PolicyDecision, Receipt
    <3>2. /\ e.decision = decision'[c].decision
          /\ e.enforced = ~shadow'[c]
      BY <2>1
    <3>3. receipts' = Append(receipts, e)
      BY <2>3
    <3> HIDE DEF e
    <3>4. /\ DOMAIN receipts = 1..Len(receipts)
          /\ DOMAIN receipts' = 1..(Len(receipts) + 1)
          /\ \A i \in 1..Len(receipts) : receipts'[i] = receipts[i]
          /\ receipts'[Len(receipts) + 1] = e
          /\ Len(receipts) \in Nat
      BY <1>0, <3>1, <3>3, AppendFacts DEF TypeOK
    <3>5. ReceiptOf(c)' /\ Receipted(c)'
      BY <3>1, <3>2, <3>4 DEF ReceiptOf, Receipted
    <3>6. /\ pc[c] = "record" /\ answer[c] = None /\ ~Receipted(c) /\ c \notin sent
          /\ \/ pc'[c] = "export" /\ answer'[c] = None
             \/ pc'[c] = "done" /\ answer'[c] = "internal_error"
      <4>1. pc[c] = "record" /\ answer[c] = None /\ ~Receipted(c) /\ c \notin sent
        BY <1>0, <1>9 DEF Record, CallInv
      <4>2. CASE Goto(c, "export")
        BY <1>0, <4>1, <4>2 DEF Goto, TypeOK
      <4>3. CASE Answer(c, "internal_error")
        BY <1>0, <4>1, <4>3 DEF Answer, TypeOK
      <4>4. QED
        BY <2>3, <4>2, <4>3, <4>1
    <3>7. CallInv(c)'
      BY <1>0, <2>1, <3>5, <3>6 DEF CallInv
    <3>8. Truthful(c)'
      BY <3>6, AnswerAssumption DEF Truthful, Answers
    <3>9. \A d \in Calls \ {c} : CallInv(d)' /\ Truthful(d)'
      BY <2>1, <3>1, <3>3, OthersKept
    <3>10. ASSUME NEW d \in Calls, d # c
           PROVE  /\ ReceiptPermits(d) => ReceiptPermits(d)'
                  /\ Receipted(d) => Receipted(d)'
      BY <1>0, <3>1, <3>3, <3>10, LedgerOfOthers
    <3>11. /\ \A d \in sent' : ReceiptPermits(d)'
           /\ \A d \in exported' : Receipted(d)'
      <4>1. /\ sent' = sent /\ exported' = exported
            /\ sent \subseteq Calls /\ exported \subseteq Calls
            /\ \A d \in sent : ReceiptPermits(d)
            /\ \A d \in exported : Receipted(d)
        BY <1>0, <2>1 DEF WriteAhead, TypeOK
      <4>2. ASSUME NEW d \in Calls PROVE d \in sent' => ReceiptPermits(d)'
        BY <4>1, <3>6, <3>10
      <4>3. ASSUME NEW d \in Calls PROVE d \in exported' => Receipted(d)'
        <5>1. CASE d = c
          BY <3>5, <5>1
        <5>2. CASE d # c
          BY <4>1, <5>2, <3>10
        <5>3. QED
          BY <5>1, <5>2
      <4>4. QED
        BY <4>1, <4>2, <4>3
    <3>12. \A i, j \in DOMAIN receipts' : receipts'[i].call = receipts'[j].call => i = j
      BY <1>0, <3>1, <3>4, <3>6 DEF WriteAhead, Receipted
    <3>13. WriteAhead'
      BY <3>11, <3>12 DEF WriteAhead
    <3>14. QED
      BY <3>7, <3>8, <3>9, <3>13
  <2>4. QED
    BY <1>9, <2>2, <2>3 DEF Record
<1>10. ASSUME NEW c \in Calls, Export(c)
       PROVE  WriteAhead' /\ \A d \in Calls : CallInv(d)' /\ Truthful(d)'
  <2>1. /\ UNCHANGED <<req, decision, shadow, receipts, sent>>
        /\ exported' \subseteq exported \cup {c}
        /\ \A d \in Calls \ {c} : Untouched(d)
    BY <1>0, <1>10 DEF Export, Goto, Answer, TypeOK, Untouched
  <2>2. /\ Receipted(c)
        /\ Allowed(c) => ReceiptPermits(c)
        /\ ~Allowed(c) => ReceiptRefuses(c)
    BY <1>0, <1>10, ReceiptVerdict DEF Export, CallInv
  <2>3. CallInv(c)' /\ Truthful(c)'
    BY <1>0, <1>10, <2>1, <2>2, LedgerKept
    DEF Export, Goto, Answer, CallInv, Truthful, TypeOK
  <2>4. \A d \in Calls \ {c} : CallInv(d)' /\ Truthful(d)'
    BY <2>1, OthersKept
  <2>5. WriteAhead'
    BY <1>0, <2>1, <2>2, LedgerKept DEF WriteAhead, TypeOK
  <2>6. QED
    BY <2>3, <2>4, <2>5
<1>11. ASSUME NEW c \in Calls, Forward(c)
       PROVE  WriteAhead' /\ \A d \in Calls : CallInv(d)' /\ Truthful(d)'
  <2>1. /\ UNCHANGED <<req, decision, shadow, receipts, exported>>
        /\ sent' = sent \cup {c}
        /\ \A d \in Calls \ {c} : Untouched(d)
    BY <1>0, <1>11 DEF Forward, Goto, TypeOK, Untouched
  <2>2. ReceiptPermits(c)
    BY <1>0, <1>11 DEF Forward, CallInv
  <2>3. CallInv(c)' /\ Truthful(c)'
    <3>1. /\ pc[c] = "forward" /\ pc'[c] = "await"
          /\ answer[c] = None /\ answer'[c] = None /\ c \in sent'
      BY <1>0, <1>11, <2>1 DEF Forward, Goto, CallInv, TypeOK
    <3>2. ReceiptOf(c)' /\ ReceiptPermits(c)'
      BY <1>0, <2>1, <2>2, <3>1, LedgerKept DEF CallInv
    <3>3. Truthful(c)'
      BY <3>1, AnswerAssumption DEF Truthful, Answers
    <3>4. QED
      BY <1>0, <2>1, <3>1, <3>2, <3>3 DEF CallInv
  <2>4. \A d \in Calls \ {c} : CallInv(d)' /\ Truthful(d)'
    BY <2>1, OthersKept
  <2>5. WriteAhead'
    BY <1>0, <2>1, <2>2, LedgerKept DEF WriteAhead, TypeOK
  <2>6. QED
    BY <2>3, <2>4, <2>5
<1>12. CASE \/ \E c \in Calls : UpstreamRuns(c)
            \/ \E a \in Agents : OperatorSets(a) \/ Expire(a)
            \/ UNCHANGED vars
  <2>1. UNCHANGED <<pc, req, decision, shadow, answer, receipts, exported, sent>>
    BY <1>12 DEF UpstreamRuns, OperatorSets, Expire, vars
  <2>2. WriteAhead'
    BY <1>0, <2>1, LedgerKept DEF WriteAhead, TypeOK
  <2>3. \A d \in Calls : CallInv(d)' /\ Truthful(d)'
    BY <1>0, <2>1, LedgerKept DEF CallInv, Truthful
  <2>4. QED
    BY <2>2, <2>3
<1>13. CASE GatewayCrash
  <2>1. /\ UNCHANGED <<req, decision, shadow, answer, receipts, exported, sent>>
        /\ \A d \in Calls : pc'[d] = IF pc[d] \in InFlight THEN "lost" ELSE pc[d]
    BY <1>13 DEF GatewayCrash
  <2>2. WriteAhead'
    BY <1>0, <2>1, LedgerKept DEF WriteAhead, TypeOK
  <2>3. \A d \in Calls : CallInv(d)' /\ Truthful(d)'
    BY <1>0, <2>1, LedgerKept DEF CallInv, Truthful
  <2>4. QED
    BY <2>2, <2>3
<1>14. QED
  BY <1>1, <1>2, <1>3, <1>4, <1>5, <1>6, <1>7, <1>8, <1>9, <1>10, <1>11, <1>12,
     <1>13 DEF Next, Proceed

-----------------------------------------------------------------------------
(* The theorems.                                                           *)

\* The starting states of the gateway satisfy the inductive invariant.
LEMMA IInvInit == Init => IInv
<1> SUFFICES ASSUME Init PROVE IInv
  OBVIOUS
<1>1. TypeOK
  BY DEF Init, TypeOK, Places
<1>2. WriteAhead
  BY DEF Init, WriteAhead
<1>3. ASSUME NEW c \in Calls PROVE CallInv(c) /\ Truthful(c)
  <2>1. pc[c] = "idle" /\ answer[c] = None /\ c \notin sent
    BY DEF Init
  <2>2. ~Receipted(c)
    BY DEF Init, Receipted
  <2>3. Truthful(c)
    BY <2>1, AnswerAssumption DEF Truthful, Answers
  <2>4. CallInv(c)
    BY <2>1, <2>2
    DEF CallInv, Identified, Decided, Unreceipted, Recorded, Permitted,
        SentOnce, Unanswered, InFlight, AfterRecord, AfterExport
  <2>5. QED
    BY <2>3, <2>4
<1>4. QED
  BY <1>1, <1>2, <1>3 DEF IInv, AnswerTellsTheTruth

\* The inductive invariant holds of every behaviour.
THEOREM InductiveInvariant == Spec => []IInv
<1>1. IInv /\ [Next]_vars => IInv'
  BY TypeStep, InvStep DEF IInv, AnswerTellsTheTruth
<1>2. QED
  BY IInvInit, <1>1, PTL DEF Spec

\* Every variable of the gateway keeps its type.
THEOREM TypeCorrect == Spec => []TypeOK
<1>1. IInv => TypeOK
  BY DEF IInv
<1>2. QED
  BY InductiveInvariant, <1>1, PTL

\* For any number of calls, adapters that fail and crashes: no request leaves
\* for an upstream before a receipt that permits it is in the ledger, exports
\* follow receipts, and no call has two receipts.
THEOREM WriteAheadHolds == Spec => []WriteAhead
<1>1. IInv => WriteAhead
  BY DEF IInv
<1>2. QED
  BY InductiveInvariant, <1>1, PTL

\* What callers are told agrees with the ledger and with the upstream.
THEOREM AnswersAreTrue == Spec => []AnswerTellsTheTruth
<1>1. IInv => AnswerTellsTheTruth
  BY DEF IInv
<1>2. QED
  BY InductiveInvariant, <1>1, PTL

-----------------------------------------------------------------------------
(* What a call is entitled to.                                             *)

\* The policy allows a call of an active agent only what its record grants,
\* with the user it asks for.
LEMMA AllowedIsWithinGrant ==
  ASSUME NEW c \in Calls, registration[c] # None,
         registration[c].status = "active", UserVerified(c),
         req[c].method = "tools/call",
         "ALLOW" \in Evaluations(registration[c], req[c].method, req[c].tool,
                                 req[c].args, subject[c])
  PROVE  WithinGrant(c)
<1>1. Allow(registration[c], req[c].method, req[c].tool, req[c].args, subject[c])
  BY DEF Evaluations
<1>2. /\ Granted(registration[c], req[c].tool)
      /\ ~OverThreshold(req[c].tool, req[c].args)
      /\ \A g \in GrantsFor(registration[c], req[c].tool) : ~TermsViolated(g, subject[c])
  BY <1>1 DEF Allow, GuardrailViolation
<1>3. QED
  BY <1>2
  DEF WithinGrant, UserVerified, OverThreshold, TermsViolated, RequiresDelegation, HasAnyRole

\* A call that keeps its locals keeps what is known of it.
LEMMA GrantFrame ==
  ASSUME NEW d \in Calls, UserVerified(d), DecisionSound(d), ListingSound(d),
         UNCHANGED settings, Untouched(d), registration'[d] = registration[d],
         subject'[d] = subject[d], listing'[d] = listing[d]
  PROVE  UserVerified(d)' /\ DecisionSound(d)' /\ ListingSound(d)'
<1>1. UserVerified(d)'
  BY DEF UserVerified, Untouched
<1>2. Entitled(d)' <=> Entitled(d)
  BY DEF Entitled, WithinGrant, Untouched
<1>3. DecisionSound(d)'
  BY <1>2 DEF DecisionSound, Gated, Allowed, Cleared, Untouched
<1>4. ListingSound(d)'
  BY DEF ListingSound, Shown, Untouched
<1>5. QED
  BY <1>1, <1>3, <1>4

\* The records that receipts were decided on never change afterwards.
LEMMA HardDenialsKept ==
  ASSUME HardDenialsEnforced, UNCHANGED <<settings, receipts>>,
         \A i \in DOMAIN receipts :
           registration'[receipts[i].call] = registration[receipts[i].call]
  PROVE  HardDenialsEnforced'
BY DEF HardDenialsEnforced, Gated

\* What stays the same when one call takes a step that records nothing.
OneCall(c) ==
  /\ UNCHANGED <<settings, receipts>>
  /\ \A d \in Calls \ {c} :
       /\ Untouched(d)
       /\ registration'[d] = registration[d]
       /\ subject'[d] = subject[d]
       /\ listing'[d] = listing[d]

\* Such a step keeps GrantInv if it keeps what concerns its call.
LEMMA OneCallStep ==
  ASSUME GrantInv, TypeOK, NEW c \in Calls, OneCall(c),
         registration'[c] = registration[c] \/ ~Receipted(c),
         UserVerified(c)', DecisionSound(c)', ListingSound(c)'
  PROVE  GrantInv'
<1>1. ASSUME NEW i \in DOMAIN receipts
      PROVE  registration'[receipts[i].call] = registration[receipts[i].call]
  <2>1. receipts[i] \in Receipt
    <3>1. receipts \in Seq(Receipt)
      BY DEF TypeOK
    <3>2. QED
      BY <3>1
  <2>2. receipts[i].call \in Calls
    BY <2>1 DEF Receipt
  <2>3. QED
    BY <2>2 DEF OneCall, Receipted
<1>2. HardDenialsEnforced'
  BY <1>1, HardDenialsKept DEF GrantInv, OneCall
<1>3. \A d \in Calls \ {c} : UserVerified(d)' /\ DecisionSound(d)' /\ ListingSound(d)'
  BY GrantFrame DEF GrantInv, OneCall
<1>4. QED
  BY <1>2, <1>3 DEF GrantInv

\* Once recorded, a call goes on only if its verdict lets it, and the verdict
\* follows what the call is entitled to.
LEMMA LateStep ==
  ASSUME GrantInv, TypeOK, NEW c \in Calls, OneCall(c),
         UNCHANGED <<settings, req, registration, subject, decision, shadow>>,
         pc[c] \in AfterRecord, pc'[c] \in AfterRecord \cup {"done"},
         pc'[c] \in AfterExport => Allowed(c),
         c \in Cleared' => Allowed(c),
         ListingSound(c)'
  PROVE  GrantInv'
<1>1. UserVerified(c) /\ DecisionSound(c)
  BY DEF GrantInv
<1>2. UserVerified(c)'
  BY <1>1 DEF UserVerified, AfterRecord
<1>3. Allowed(c) => Entitled(c)
  BY <1>1 DEF DecisionSound
<1>4. /\ Allowed(c)' <=> Allowed(c)
      /\ Entitled(c)' <=> Entitled(c)
  BY DEF Allowed, Entitled, WithinGrant
<1>5. DecisionSound(c)'
  BY <1>3, <1>4 DEF DecisionSound, AfterRecord
<1>6. QED
  BY <1>2, <1>5, OneCallStep

\* Every step follows the record its call looked up.
LEMMA GrantStep == IInv /\ GrantInv /\ [Next]_vars => GrantInv'
<1> SUFFICES ASSUME IInv, GrantInv, [Next]_vars PROVE GrantInv'
  OBVIOUS
<1> USE DEF world, log, upstream, local
<1>0. /\ TypeOK
      /\ \A d \in Calls : CallInv(d)
      /\ \A d \in Calls : UserVerified(d) /\ DecisionSound(d) /\ ListingSound(d)
  BY DEF IInv, GrantInv
<1>1. ASSUME NEW c \in Calls, Identify(c) PROVE GrantInv'
  <2>1. OneCall(c) /\ UNCHANGED <<registration, subject, listing, settings>>
    BY <1>0, <1>1 DEF Identify, Goto, Answer, TypeOK, Untouched, OneCall
  <2>2. /\ pc[c] = "idle" /\ pc'[c] \in {"done", "lookup"}
        /\ subject[c] = None /\ c \notin Cleared' /\ listing[c] = {}
    BY <1>0, <1>1, AnswerAssumption
    DEF Identify, Goto, Answer, TypeOK, CallInv, SentOnce, Unanswered, UserVerified,
        BeforeRecord, Cleared, Answers, ListingSound
  <2>3. UserVerified(c)' /\ DecisionSound(c)' /\ ListingSound(c)'
    BY <2>1, <2>2 DEF UserVerified, DecisionSound, ListingSound, Shown, AfterRecord, AfterExport
  <2>4. QED
    BY <1>0, <2>1, <2>3, OneCallStep
<1>2. ASSUME NEW c \in Calls, Lookup(c) PROVE GrantInv'
  <2>1. OneCall(c) /\ UNCHANGED <<req, subject, listing, settings>> /\ ~Receipted(c)
    BY <1>0, <1>2
    DEF Lookup, Goto, Answer, TypeOK, Untouched, OneCall, CallInv, Unreceipted, BeforeRecord
  <2>2. /\ pc[c] = "lookup" /\ pc'[c] \in {"done", "verify", "decide"}
        /\ pc'[c] = "verify" => settings.subject_verification
        /\ c \notin Cleared' /\ listing[c] = {}
    BY <1>0, <1>2, AnswerAssumption
    DEF Lookup, Goto, Answer, TypeOK, CallInv, SentOnce, Unanswered, BeforeRecord,
        Cleared, Answers, ListingSound
  <2>3. UserVerified(c)' /\ DecisionSound(c)' /\ ListingSound(c)'
    BY <1>0, <2>1, <2>2
    DEF UserVerified, DecisionSound, ListingSound, Shown, AfterRecord, AfterExport
  <2>4. QED
    BY <1>0, <2>1, <2>3, OneCallStep
<1>3. ASSUME NEW c \in Calls, VerifySubject(c) PROVE GrantInv'
  <2>1. OneCall(c) /\ UNCHANGED <<req, registration, listing, settings>>
    BY <1>0, <1>3 DEF VerifySubject, Goto, Answer, TypeOK, Untouched, OneCall
  <2>2. /\ pc[c] = "verify" /\ pc'[c] \in {"done", "decide"}
        /\ subject'[c] \in {subject[c], req[c].subject_token}
        /\ c \notin Cleared' /\ listing[c] = {}
    BY <1>0, <1>3, AnswerAssumption
    DEF VerifySubject, Goto, Answer, TypeOK, CallInv, SentOnce, Unanswered,
        BeforeRecord, Cleared, Answers, ListingSound
  <2>3. UserVerified(c)' /\ DecisionSound(c)' /\ ListingSound(c)'
    BY <1>0, <2>1, <2>2
    DEF UserVerified, DecisionSound, ListingSound, Shown, AfterRecord, AfterExport
  <2>4. QED
    BY <1>0, <2>1, <2>3, OneCallStep
<1>4. ASSUME NEW c \in Calls, RegistryGate(c) PROVE GrantInv'
  <2>1. /\ OneCall(c)
        /\ UNCHANGED <<req, registration, subject, listing, settings, sent, answer>>
    BY <1>0, <1>4 DEF RegistryGate, SetDecision, Goto, TypeOK, Untouched, OneCall
  <2>2. /\ pc[c] = "decide" /\ pc'[c] = "record"
        /\ decision'[c].decision = "DENY" /\ ~shadow'[c]
    <3>1. pc[c] = "decide" /\ \E reason \in GateReasons : SetDecision(c, "DENY", reason, FALSE)
      BY <1>4 DEF RegistryGate, GateReasons
    <3>2. PICK reason \in GateReasons : SetDecision(c, "DENY", reason, FALSE)
      BY <3>1
    <3>3. QED
      BY <1>0, <3>1, <3>2 DEF SetDecision, Goto, TypeOK
  <2>3. UserVerified(c)' /\ ListingSound(c)'
    BY <1>0, <2>1, <2>2 DEF UserVerified, ListingSound, Shown
  <2>4. c \notin Cleared'
    BY <1>0, <2>1, <2>2, AnswerAssumption
    DEF CallInv, SentOnce, Unanswered, BeforeRecord, Cleared, Answers
  <2>5. DecisionSound(c)'
    BY <2>1, <2>2, <2>4 DEF DecisionSound, Gated, Allowed, AfterExport
  <2>6. QED
    BY <1>0, <2>1, <2>3, <2>5, OneCallStep
<1>5. ASSUME NEW c \in Calls, EvaluatePolicy(c) PROVE GrantInv'
  <2> DEFINE outcomes == Evaluations(registration[c], req[c].method, req[c].tool,
                                     req[c].args, subject[c])
  <2>1. /\ UNCHANGED <<receipts, req, registration, subject, listing, settings, sent>>
        /\ pc[c] = "decide" /\ registration[c] # None
        /\ registration[c].status = "active"
    BY <1>5 DEF EvaluatePolicy
  <2>2. \/ \E v \in outcomes \ {"error"} : SetDecision(c, v, "policy", TRUE)
        \/ SetDecision(c, "DENY", "policy engine unavailable", FALSE)
        \/ Answer(c, "internal_error") /\ UNCHANGED <<decision, shadow>>
    BY <1>5 DEF EvaluatePolicy
  <2>3. OneCall(c)
    <3>1. CASE \E v \in outcomes \cup {"DENY"}, reason \in {"policy", "policy engine unavailable"},
                  b \in BOOLEAN : SetDecision(c, v, reason, b)
      BY <1>0, <2>1, <3>1 DEF SetDecision, Goto, TypeOK, Untouched, OneCall
    <3>2. CASE Answer(c, "internal_error") /\ UNCHANGED <<decision, shadow>>
      BY <1>0, <2>1, <3>2 DEF Answer, TypeOK, Untouched, OneCall
    <3>3. QED
      BY <2>2, <3>1, <3>2
  <2>4. c \notin sent /\ answer[c] = None /\ listing[c] = {}
    BY <1>0, <2>1
    DEF CallInv, SentOnce, Unanswered, BeforeRecord, ListingSound
  <2>5. UserVerified(c)' /\ ListingSound(c)'
    <3>1. pc'[c] \in {"record", "done"}
      BY <1>0, <2>1, <2>2 DEF SetDecision, Goto, Answer, TypeOK
    <3>2. QED
      BY <1>0, <2>1, <2>4, <3>1 DEF UserVerified, ListingSound, Shown
  <2>6. CASE \E v \in outcomes \ {"error"} : SetDecision(c, v, "policy", TRUE)
    <3>1. PICK v \in outcomes \ {"error"} : SetDecision(c, v, "policy", TRUE)
      BY <2>6
    <3>2. v \in {"ALLOW", "DENY"}
      BY <3>1, EvaluationsAreVerdicts
    <3>3. /\ pc'[c] = "record" /\ answer' = answer
          /\ decision'[c].decision = v /\ decision'[c].reason = "policy"
          /\ shadow'[c] = (settings.decision_mode = "observe" /\ v # "ALLOW")
      BY <1>0, <3>1 DEF SetDecision, Goto, TypeOK
    <3>4. Gated(c, decision[c].decision, decision[c].reason, ~shadow[c])'
      BY <2>1, <3>2, <3>3 DEF Gated, GateReasons
    <3>5. c \notin Cleared'
      BY <2>1, <2>4, <3>3, AnswerAssumption DEF Cleared, Answers
    <3>6. Allowed(c)' => Entitled(c)'
      <4>1. CASE v = "ALLOW" /\ req[c].method = "tools/call"
        <5>1. WithinGrant(c)
          BY <1>0, <2>1, <3>1, <4>1, AllowedIsWithinGrant
        <5>2. QED
          BY <2>1, <5>1 DEF Entitled, WithinGrant
      <4>2. CASE req[c].method # "tools/call"
        BY <2>1, <4>2 DEF Entitled
      <4>3. CASE v = "DENY"
        BY <2>1, <3>3, <4>3 DEF Entitled, Allowed
      <4>4. QED
        BY <3>2, <4>1, <4>2, <4>3
    <3>7. DecisionSound(c)'
      BY <3>3, <3>4, <3>5, <3>6 DEF DecisionSound, AfterExport
    <3>8. QED
      BY <1>0, <2>1, <2>3, <2>5, <3>7, OneCallStep
  <2>7. CASE SetDecision(c, "DENY", "policy engine unavailable", FALSE)
    <3>1. /\ pc'[c] = "record" /\ answer' = answer
          /\ decision'[c].decision = "DENY" /\ ~shadow'[c]
      BY <1>0, <2>7 DEF SetDecision, Goto, TypeOK
    <3>2. c \notin Cleared'
      BY <2>1, <2>4, <3>1, AnswerAssumption DEF Cleared, Answers
    <3>3. DecisionSound(c)'
      BY <2>1, <3>1, <3>2 DEF DecisionSound, Gated, Allowed, AfterExport
    <3>4. QED
      BY <1>0, <2>1, <2>3, <2>5, <3>3, OneCallStep
  <2>8. CASE Answer(c, "internal_error") /\ UNCHANGED <<decision, shadow>>
    <3>1. pc'[c] = "done" /\ answer'[c] = "internal_error"
      BY <1>0, <2>8 DEF Answer, TypeOK
    <3>2. DecisionSound(c)'
      BY <2>1, <2>4, <3>1 DEF DecisionSound, Cleared, AfterRecord, AfterExport
    <3>3. QED
      BY <1>0, <2>1, <2>3, <2>5, <3>2, OneCallStep
  <2>9. QED
    BY <2>2, <2>6, <2>7, <2>8
<1>6. ASSUME NEW c \in Calls, Record(c) PROVE GrantInv'
  <2> DEFINE e == [call |-> c, decision |-> decision[c].decision,
                   reason |-> decision[c].reason, enforced |-> ~shadow[c]]
  <2>1. /\ UNCHANGED <<settings, req, registration, subject, decision, shadow,
                       listing, sent>>
        /\ pc[c] = "record" /\ pc'[c] \in {"export", "done"}
        /\ \A d \in Calls \ {c} : Untouched(d)
    BY <1>0, <1>6 DEF Record, Goto, Answer, TypeOK, Untouched
  <2>2. c \notin Cleared'
    BY <1>0, <1>6, <2>1, AnswerAssumption
    DEF Record, Goto, Answer, TypeOK, CallInv, SentOnce, Unanswered, BeforeRecord,
        Cleared, Answers
  <2>3. UserVerified(c)' /\ ListingSound(c)'
    BY <1>0, <2>1 DEF UserVerified, ListingSound, Shown
  <2>4. Gated(c, e.decision, e.reason, e.enforced) /\ (Allowed(c) => Entitled(c))
    BY <1>0, <2>1 DEF DecisionSound
  <2>5. DecisionSound(c)'
    <3>1. /\ Allowed(c)' <=> Allowed(c)
          /\ Entitled(c)' <=> Entitled(c)
      BY <2>1 DEF Allowed, Entitled, WithinGrant
    <3>2. QED
      BY <2>1, <2>2, <2>4, <3>1 DEF DecisionSound, AfterExport
  <2>6. \A d \in Calls \ {c} : UserVerified(d)' /\ DecisionSound(d)' /\ ListingSound(d)'
    BY <1>0, <2>1, GrantFrame
  <2>7. HardDenialsEnforced'
    <3>1. CASE UNCHANGED receipts
      BY <2>1, <3>1, HardDenialsKept DEF GrantInv
    <3>2. CASE receipts' = Append(receipts, e)
      <4>1. e \in Receipt /\ e.call = c
        BY <1>0, <2>1 DEF CallInv, Decided, TypeOK, PolicyDecision, Receipt
      <4> HIDE DEF e
      <4>2. /\ DOMAIN receipts = 1..Len(receipts) /\ Len(receipts) \in Nat
            /\ DOMAIN receipts' = 1..(Len(receipts) + 1)
            /\ \A i \in 1..Len(receipts) : receipts'[i] = receipts[i]
            /\ receipts'[Len(receipts) + 1] = e
        BY <1>0, <3>2, <4>1, AppendFacts DEF TypeOK
      <4>3. \A i \in DOMAIN receipts' :
              (i \in DOMAIN receipts /\ receipts'[i] = receipts[i]) \/ receipts'[i] = e
        BY <4>2
      <4>4. \A i \in DOMAIN receipts : 
              Gated(receipts[i].call, receipts[i].decision, receipts[i].reason,
                    receipts[i].enforced)
        BY DEF GrantInv, HardDenialsEnforced
      <4>5. ASSUME NEW i \in DOMAIN receipts', NEW r, r = receipts'[i]
            PROVE  Gated(r.call, r.decision, r.reason, r.enforced)
        BY <2>4, <4>1, <4>3, <4>4, <4>5
      <4>6. QED
        BY <2>1, <4>5 DEF HardDenialsEnforced, Gated
    <3>3. QED
      BY <1>6, <3>1, <3>2 DEF Record
  <2>8. QED
    BY <2>3, <2>5, <2>6, <2>7 DEF GrantInv
<1>7. ASSUME NEW c \in Calls, Export(c) PROVE GrantInv'
  <2>1. /\ OneCall(c)
        /\ UNCHANGED <<settings, req, registration, subject, decision, shadow, listing>>
    BY <1>0, <1>7 DEF Export, Goto, Answer, TypeOK, Untouched, OneCall
  <2>2. /\ pc[c] = "export" /\ pc'[c] \in {"broker", "done"}
        /\ pc'[c] = "broker" => Allowed(c)
        /\ c \in Cleared' => Allowed(c)
    BY <1>0, <1>7, AnswerAssumption
    DEF Export, Goto, Answer, TypeOK, CallInv, SentOnce, Unanswered, Cleared, Answers
  <2>3. ListingSound(c)'
    BY <1>0, <2>1, <2>2 DEF ListingSound, Shown
  <2>4. QED
    BY <1>0, <2>1, <2>2, <2>3, LateStep DEF AfterRecord, AfterExport
<1>8. ASSUME NEW c \in Calls, BrokerCredential(c) PROVE GrantInv'
  <2>1. /\ OneCall(c)
        /\ UNCHANGED <<settings, req, registration, subject, decision, shadow, listing>>
    BY <1>0, <1>8 DEF BrokerCredential, Goto, Answer, TypeOK, Untouched, OneCall
  <2>2. pc[c] = "broker" /\ pc'[c] \in {"forward", "done"}
    BY <1>0, <1>8 DEF BrokerCredential, Goto, Answer, TypeOK
  <2>3. Allowed(c)
    BY <1>0, <2>2 DEF DecisionSound, AfterExport
  <2>4. ListingSound(c)'
    BY <1>0, <2>1, <2>2 DEF ListingSound, Shown
  <2>5. QED
    BY <1>0, <2>1, <2>2, <2>3, <2>4, LateStep DEF AfterRecord
<1>9. ASSUME NEW c \in Calls, Forward(c) PROVE GrantInv'
  <2>1. /\ OneCall(c)
        /\ UNCHANGED <<settings, req, registration, subject, decision, shadow, listing>>
    BY <1>0, <1>9 DEF Forward, Goto, TypeOK, Untouched, OneCall
  <2>2. pc[c] = "forward" /\ pc'[c] = "await"
    BY <1>0, <1>9 DEF Forward, Goto, TypeOK
  <2>3. Allowed(c)
    BY <1>0, <2>2 DEF DecisionSound, AfterExport
  <2>4. ListingSound(c)'
    BY <1>0, <2>1, <2>2 DEF ListingSound, Shown
  <2>5. QED
    BY <1>0, <2>1, <2>2, <2>3, <2>4, LateStep DEF AfterRecord
<1>10. ASSUME NEW c \in Calls, Reply(c) PROVE GrantInv'
  <2>1. /\ OneCall(c)
        /\ UNCHANGED <<settings, req, registration, subject, decision, shadow>>
    BY <1>0, <1>10 DEF Reply, Answer, TypeOK, Untouched, OneCall
  <2>2. pc[c] = "await" /\ pc'[c] = "done"
    BY <1>0, <1>10 DEF Reply, Answer, TypeOK
  <2>3. Allowed(c)
    BY <1>0, <2>2 DEF DecisionSound, AfterExport
  <2>4. PICK catalogue \in (SUBSET Tools) \cup {None} : listing'[c] = FilterListing(c, catalogue)
    BY <1>0, <1>10 DEF Reply, TypeOK
  <2>5. \A t \in listing'[c] : Granted(registration[c], t)
    BY <2>4 DEF FilterListing, Granted, GrantsFor
  <2>6. ListingSound(c)'
    BY <2>1, <2>2, <2>5 DEF ListingSound, Shown
  <2>7. QED
    BY <1>0, <2>1, <2>2, <2>3, <2>6, LateStep DEF AfterRecord
<1>11. ASSUME NEW c \in Calls, UpstreamFails(c) PROVE GrantInv'
  <2>1. /\ OneCall(c)
        /\ UNCHANGED <<settings, req, registration, subject, decision, shadow, listing>>
    BY <1>0, <1>11 DEF UpstreamFails, Answer, TypeOK, Untouched, OneCall
  <2>2. pc[c] = "await" /\ pc'[c] = "done"
    BY <1>0, <1>11 DEF UpstreamFails, Answer, TypeOK
  <2>3. Allowed(c)
    BY <1>0, <2>2 DEF DecisionSound, AfterExport
  <2>4. ListingSound(c)'
    BY <1>0, <2>1, <2>2 DEF ListingSound, Shown
  <2>5. QED
    BY <1>0, <2>1, <2>2, <2>3, <2>4, LateStep DEF AfterRecord
<1>12. CASE (\E c \in Calls : UpstreamRuns(c)) \/ (\E a \in Agents : OperatorSets(a) \/ Expire(a))
            \/ UNCHANGED vars
  <2>1. UNCHANGED <<settings, pc, req, registration, subject, decision, shadow, answer,
                    listing, receipts, sent>>
    BY <1>12 DEF UpstreamRuns, OperatorSets, Expire, vars
  <2>2. HardDenialsEnforced'
    BY <2>1 DEF GrantInv, HardDenialsEnforced, Gated
  <2>3. ASSUME NEW d \in Calls PROVE UserVerified(d)' /\ DecisionSound(d)' /\ ListingSound(d)'
    <3>1. Entitled(d)' <=> Entitled(d)
      BY <2>1 DEF Entitled, WithinGrant
    <3>2. UserVerified(d)' /\ ListingSound(d)'
      BY <1>0, <2>1 DEF UserVerified, ListingSound, Shown
    <3>3. DecisionSound(d)'
      BY <1>0, <2>1, <3>1 DEF DecisionSound, Gated, Allowed, Cleared
    <3>4. QED
      BY <3>2, <3>3
  <2>4. QED
    BY <2>2, <2>3 DEF GrantInv
<1>13. CASE GatewayCrash
  <2>1. /\ UNCHANGED <<settings, req, registration, subject, decision, shadow, answer,
                       listing, receipts, sent>>
        /\ pc' = [c \in Calls |-> IF pc[c] \in InFlight THEN "lost" ELSE pc[c]]
    BY <1>13 DEF GatewayCrash
  <2>2. HardDenialsEnforced'
    BY <2>1 DEF GrantInv, HardDenialsEnforced, Gated
  <2>3. ASSUME NEW d \in Calls PROVE UserVerified(d)' /\ DecisionSound(d)' /\ ListingSound(d)'
    <3>1. Entitled(d)' <=> Entitled(d)
      BY <2>1 DEF Entitled, WithinGrant
    <3>2. pc'[d] \in {pc[d], "lost"} /\ (pc'[d] = "done" <=> pc[d] = "done")
      BY <2>1 DEF InFlight
    <3>3. UserVerified(d)' /\ ListingSound(d)'
      BY <1>0, <2>1, <3>2 DEF UserVerified, ListingSound, Shown
    <3>4. DecisionSound(d)'
      BY <1>0, <2>1, <3>1, <3>2
      DEF DecisionSound, Gated, Allowed, Cleared, AfterRecord, AfterExport
    <3>5. QED
      BY <3>3, <3>4
  <2>4. QED
    BY <2>2, <2>3 DEF GrantInv
<1>14. QED
  BY <1>1, <1>2, <1>3, <1>4, <1>5, <1>6, <1>7, <1>8, <1>9, <1>10, <1>11, <1>12, <1>13
     DEF Next, Proceed

\* Nothing is decided, forwarded or shown at the start.
LEMMA GrantInit == Init => GrantInv
<1> SUFFICES ASSUME Init PROVE GrantInv
  OBVIOUS
<1>1. HardDenialsEnforced
  BY DEF Init, HardDenialsEnforced
<1>2. ASSUME NEW c \in Calls PROVE UserVerified(c) /\ DecisionSound(c) /\ ListingSound(c)
  <2>1. /\ pc[c] = "idle" /\ subject[c] = None /\ listing[c] = {}
        /\ answer[c] = None /\ c \notin sent
    BY DEF Init
  <2>2. c \notin Cleared
    BY <2>1, AnswerAssumption DEF Cleared, Answers
  <2>3. QED
    BY <2>1, <2>2
    DEF UserVerified, DecisionSound, ListingSound, Shown, AfterRecord, AfterExport
<1>3. QED
  BY <1>1, <1>2 DEF GrantInv

\* Verdicts, users and listings follow the records of every behaviour.
THEOREM GrantsInvariant == Spec => [](IInv /\ GrantInv)
<1>1. Init => IInv /\ GrantInv
  BY IInvInit, GrantInit
<1>2. IInv /\ GrantInv /\ [Next]_vars => (IInv /\ GrantInv)'
  BY TypeStep, InvStep, GrantStep DEF IInv, AnswerTellsTheTruth
<1>3. QED
  BY <1>1, <1>2, PTL DEF Spec

\* ADR-0012, for any number of calls and whatever operators do meanwhile: the
\* receipts of orphaned and suspended agents and of engine outages are enforced
\* denials, in both decision modes.
THEOREM HardDenialsHold == Spec => []HardDenialsEnforced
<1>1. GrantInv => HardDenialsEnforced
  BY DEF GrantInv
<1>2. QED
  BY GrantsInvariant, <1>1, PTL

\* Unless observe mode shadowed its denial, no tool call of any agent goes
\* ahead beyond the grants, the threshold and the user its record asks for, and
\* no agent is shown a tool it is not granted.
THEOREM CapabilitiesHold == Spec => []CapabilityRespected
<1>1. IInv /\ GrantInv => CapabilityRespected
  <2> SUFFICES ASSUME IInv, GrantInv PROVE CapabilityRespected
    OBVIOUS
  <2>1. Cleared \subseteq Calls
    BY DEF IInv, TypeOK, Cleared
  <2>2. QED
    BY <2>1 DEF GrantInv, DecisionSound, ListingSound, CapabilityRespected
<1>2. QED
  BY GrantsInvariant, <1>1, PTL

-----------------------------------------------------------------------------
(* Revocations bind: what DeniedOf says of a call outlives every step taken  *)
(* while its agent stays revoked.                                            *)

\* A step that leaves the request, the record, the place and the answer of a
\* call as they were, and does not send it, keeps DeniedOf.
LEMMA DeniedKept ==
  ASSUME NEW c \in Calls, NEW a \in Agents, DeniedOf(c, a),
         req'[c] = req[c], registration'[c] = registration[c],
         answer'[c] = answer[c], c \in sent' => c \in sent,
         pc'[c] \in {pc[c], "lost"}
  PROVE  DeniedOf(c, a)'
  BY DEF DeniedOf, CallOf, Agent, Inactive, Cleared

\* Once a call has an inactive record, nothing after the lookup lets it pass.
LEMMA InactiveStaysDenied ==
  ASSUME NEW c \in Calls, NEW a \in Agents, Inactive(c), GrantInv',
         registration'[c] = registration[c]
  PROVE  DeniedOf(c, a)'
<1>1. (c \in Cleared => Entitled(c))'
  BY DEF GrantInv, DecisionSound
<1>2. Inactive(c)' /\ (Entitled(c)' => ~Inactive(c)')
  BY DEF Inactive, Entitled
<1>3. QED
  BY <1>1, <1>2 DEF DeniedOf

\* No step taken while the agent is revoked lets its call through: before the
\* lookup only the lookup itself matters, and it reads a revoked record.
LEMMA DeniedStep ==
  ASSUME NEW c \in Calls, NEW a \in Agents
  PROVE  /\ IInv /\ GrantInv /\ (IInv /\ GrantInv)' /\ Revoked(a)
         /\ DeniedOf(c, a) /\ [Next]_vars
         => DeniedOf(c, a)'
<1> SUFFICES ASSUME IInv, GrantInv, IInv', GrantInv', Revoked(a), DeniedOf(c, a),
                    [Next]_vars
             PROVE  DeniedOf(c, a)'
  OBVIOUS
<1> USE DEF world, log, upstream, local
<1>0. TypeOK /\ CallInv(c) /\ CallInv(c)'
  BY DEF IInv
<1>1. CASE Identify(c)
  <2>1. /\ pc'[c] \in {"lookup", "done"} /\ sent' = sent /\ pc[c] = "idle"
        /\ answer'[c] \in {None, "identity_error", "internal_error"}
    BY <1>0, <1>1 DEF Identify, Goto, Answer, TypeOK, CallInv, Unanswered
  <2>2. c \notin Cleared'
    BY <1>0, <2>1, AnswerAssumption
    DEF Cleared, CallInv, SentOnce, BeforeRecord, Answers
  <2>3. QED
    BY <2>1, <2>2 DEF DeniedOf
<1>2. CASE Lookup(c)
  <2>1. req'[c] = req[c] /\ sent' = sent /\ pc[c] = "lookup"
    BY <1>2 DEF Lookup
  <2>2. CASE Answer(c, "internal_error")
    <3>1. pc'[c] = "done" /\ answer'[c] = "internal_error"
      BY <1>0, <2>2 DEF Answer, TypeOK
    <3>2. c \notin Cleared'
      BY <1>0, <2>1, <3>1 DEF Cleared, CallInv, SentOnce, BeforeRecord
    <3>3. QED
      BY <3>1, <3>2 DEF DeniedOf
  <2>3. CASE \E r \in recent[Agent(c).spiffe_id] :
               registration' = [registration EXCEPT ![c] = r]
    <3>1. registration'[c] \in recent[Agent(c).spiffe_id]
      BY <1>0, <2>3 DEF TypeOK
    <3>2. CallOf(c, a)' => Agent(c).spiffe_id = a
      BY <2>1 DEF CallOf, Agent
    <3>3. CallOf(c, a)' => Inactive(c)'
      BY <3>1, <3>2 DEF Revoked, Barred, Inactive
    <3>4. (c \in Cleared => Entitled(c))'
      BY DEF GrantInv, DecisionSound
    <3>5. Entitled(c)' => ~Inactive(c)'
      BY DEF Entitled, Inactive
    <3>6. QED
      BY <3>3, <3>4, <3>5 DEF DeniedOf
  <2>4. QED
    BY <1>2, <2>2, <2>3 DEF Lookup
<1>3. CASE \/ VerifySubject(c) \/ RegistryGate(c) \/ EvaluatePolicy(c) \/ Record(c)
           \/ Export(c) \/ BrokerCredential(c) \/ Forward(c) \/ Reply(c)
           \/ UpstreamFails(c)
  <2>1. /\ registration'[c] = registration[c] /\ req'[c] = req[c]
        /\ pc[c] \in InFlight \ {"lookup"}
    BY <1>3
    DEF VerifySubject, RegistryGate, EvaluatePolicy, Record, Export,
        BrokerCredential, Forward, Reply, UpstreamFails, InFlight
  <2>2. CallOf(c, a)' <=> CallOf(c, a)
    BY <2>1 DEF CallOf, Agent
  <2>3. CASE CallOf(c, a)
    <3>1. Inactive(c)
      BY <2>1, <2>3 DEF DeniedOf, InFlight
    <3>2. QED
      BY <2>1, <3>1, InactiveStaysDenied
  <2>4. QED
    BY <2>2, <2>3 DEF DeniedOf
<1>4. ASSUME NEW d \in Calls, d # c, Identify(d) \/ Proceed(d)
      PROVE  DeniedOf(c, a)'
  <2>1. CASE Identify(d)
    BY <1>0, <1>4, <2>1, DeniedKept DEF Identify, Goto, Answer, TypeOK
  <2>2. CASE Lookup(d)
    BY <1>0, <1>4, <2>2, DeniedKept DEF Lookup, Goto, Answer, TypeOK
  <2>3. CASE VerifySubject(d)
    BY <1>0, <1>4, <2>3, DeniedKept DEF VerifySubject, Goto, Answer, TypeOK
  <2>4. CASE RegistryGate(d)
    BY <1>0, <1>4, <2>4, DeniedKept DEF RegistryGate, SetDecision, Goto, TypeOK
  <2>5. CASE EvaluatePolicy(d)
    BY <1>0, <1>4, <2>5, DeniedKept DEF EvaluatePolicy, SetDecision, Goto, Answer, TypeOK
  <2>6. CASE Record(d) \/ Export(d)
    BY <1>0, <1>4, <2>6, DeniedKept DEF Record, Export, Goto, Answer, TypeOK
  <2>7. CASE BrokerCredential(d) \/ Forward(d)
    BY <1>0, <1>4, <2>7, DeniedKept DEF BrokerCredential, Forward, Goto, Answer, TypeOK
  <2>8. CASE Reply(d) \/ UpstreamFails(d)
    BY <1>0, <1>4, <2>8, DeniedKept DEF Reply, UpstreamFails, Answer, TypeOK
  <2>9. QED
    BY <1>4, <2>1, <2>2, <2>3, <2>4, <2>5, <2>6, <2>7, <2>8 DEF Proceed
<1>5. CASE \/ \E d \in Calls : UpstreamRuns(d)
           \/ \E b \in Agents : OperatorSets(b) \/ Expire(b)
           \/ UNCHANGED vars
  BY <1>5, DeniedKept DEF UpstreamRuns, OperatorSets, Expire, vars
<1>6. CASE GatewayCrash
  BY <1>0, <1>6, DeniedKept DEF GatewayCrash, TypeOK
<1>7. QED
  BY <1>1, <1>2, <1>3, <1>4, <1>5, <1>6 DEF Next, Proceed

\* A call that has not looked its agent up has not been let through.
LEMMA UnlookedIsDenied ==
  ASSUME IInv, NEW c \in Calls, NEW a \in Agents, pc[c] \in {"idle", "lookup"}
  PROVE  DeniedOf(c, a)
<1>1. SentOnce(c) /\ Unanswered(c)
  BY DEF IInv, CallInv
<1>2. c \notin Cleared
  BY <1>1, AnswerAssumption DEF SentOnce, Unanswered, BeforeRecord, Cleared, Answers
<1>3. QED
  BY <1>2 DEF DeniedOf

\* docs/user-journeys.md: a suspension binds one registry cache TTL later, at
\* once without a cache. Whatever interleaves or crashes, a call that has yet to
\* look up its agent when no lookup gives an unrevoked record any more is not
\* let through as long as the revocation stands.
THEOREM RevocationsBind == Spec => RevocationBinds
<1> SUFFICES ASSUME NEW c \in Calls, NEW a \in Agents
             PROVE  Spec => [](pc[c] \in {"idle", "lookup"} /\ []Revoked(a) =>
                                 [](c \in Cleared => ~CallOf(c, a)))
  BY DEF RevocationBinds
<1>1. /\ IInv /\ GrantInv /\ (IInv /\ GrantInv)' /\ Revoked(a)
      /\ DeniedOf(c, a) /\ [Next]_vars
      => DeniedOf(c, a)'
  BY DeniedStep
<1>2. IInv /\ GrantInv /\ pc[c] \in {"idle", "lookup"} => DeniedOf(c, a)
  BY UnlookedIsDenied
<1>3. DeniedOf(c, a) => (c \in Cleared => ~CallOf(c, a))
  BY DEF DeniedOf
<1>4. QED
  BY <1>1, <1>2, <1>3, GrantsInvariant, PTL DEF Spec

-----------------------------------------------------------------------------
(* The gateway implements AuditedExecution.                                *)

VerdictOf(receipt) == [call |-> receipt.call, permit |-> Permits(receipt)]

\* A receipt appended to the ledger is a verdict appended to the abstract log.
LEMMA VerdictsAppended ==
  ASSUME TypeOK, NEW e \in Receipt, receipts' = Append(receipts, e)
  PROVE  Verdicts' = Append(Verdicts, VerdictOf(e))
<1> DEFINE n == Len(receipts)
<1>1. receipts \in Seq(Receipt)
  BY DEF TypeOK
<1>2. /\ n \in Nat
      /\ DOMAIN receipts = 1..n
      /\ DOMAIN receipts' = 1..(n + 1)
      /\ \A i \in 1..n : receipts'[i] = receipts[i]
      /\ receipts'[n + 1] = e
  BY <1>1, AppendFacts
<1>3. Verdicts = [i \in 1..n |-> VerdictOf(receipts[i])]
  BY <1>2 DEF Verdicts, VerdictOf
<1>4. Verdicts' = [i \in 1..(n + 1) |-> VerdictOf(receipts'[i])]
  BY <1>2, Zenon DEF Verdicts, VerdictOf, Permits
<1>5. \A r \in Receipt : VerdictOf(r) \in Audited!Verdict
  <2>1. \A r : Permits(r) \in BOOLEAN
    BY Zenon DEF Permits
  <2>2. QED
    BY <2>1 DEF VerdictOf, Receipt, Audited!Verdict
<1>6. \A i \in 1..n : receipts[i] \in Receipt
  BY <1>1, <1>2
<1>7. Verdicts \in Seq(Audited!Verdict) /\ Len(Verdicts) = n
  BY <1>2, <1>3, <1>5, <1>6
<1> HIDE DEF n
<1> DEFINE v == VerdictOf(e)
<1>8. v \in Audited!Verdict
  BY <1>5
<1>9. v = VerdictOf(receipts'[n + 1])
  BY <1>2
<1> HIDE DEF v
<1>10. /\ \A i \in 1..n : Append(Verdicts, v)[i] = Verdicts[i]
       /\ Append(Verdicts, v)[n + 1] = v
       /\ Append(Verdicts, v) = [i \in 1..(n + 1) |-> Append(Verdicts, v)[i]]
  BY <1>7, <1>8, AppendFacts
<1>11. \A i \in 1..(n + 1) : Append(Verdicts, v)[i] = VerdictOf(receipts'[i])
  BY <1>2, <1>3, <1>9, <1>10
<1>12. Verdicts' = Append(Verdicts, v)
  BY <1>4, <1>10, <1>11
<1>13. QED
  BY <1>12 DEF v

\* A step of the gateway is a verdict, an effect, or nothing to the outside.
LEMMA AuditedStep == IInv /\ [Next]_vars => [Audited!Next]_Audited!vars
<1> SUFFICES ASSUME IInv, [Next]_vars PROVE [Audited!Next]_Audited!vars
  OBVIOUS
<1> USE DEF world, log, upstream, local
<1>0. TypeOK /\ WriteAhead /\ \A c \in Calls : CallInv(c)
  BY DEF IInv
<1>1. CASE UNCHANGED <<receipts, effects>>
  BY <1>1 DEF Audited!vars, Verdicts, Permits
<1>2. ASSUME NEW c \in Calls, Record(c) PROVE [Audited!Next]_Audited!vars
  <2> DEFINE e == [call |-> c, decision |-> decision[c].decision,
                   reason |-> decision[c].reason, enforced |-> ~shadow[c]]
  <2>1. receipts' = receipts \/ receipts' = Append(receipts, e)
    BY <1>2 DEF Record
  <2>2. e \in Receipt /\ ~Receipted(c) /\ UNCHANGED effects
    BY <1>0, <1>2
    DEF Record, CallInv, Decided, Unreceipted, AfterRecord, BeforeRecord, TypeOK,
        PolicyDecision, Receipt
  <2>3. CASE receipts' = Append(receipts, e)
    <3>1. Verdicts' = Append(Verdicts, [call |-> c, permit |-> Permits(e)])
      BY <1>0, <2>2, <2>3, VerdictsAppended DEF VerdictOf
    <3>2. Permits(e) \in BOOLEAN
      BY Zenon DEF Permits
    <3>3. ~Audited!Judged(c)
      BY <2>2 DEF Audited!Judged, Verdicts, Receipted
    <3>4. Audited!Judge(c, Permits(e))
      BY <2>2, <3>1, <3>3 DEF Audited!Judge
    <3>5. QED
      BY <3>2, <3>4 DEF Audited!Next
  <2>4. QED
    BY <1>1, <2>1, <2>2, <2>3
<1>3. ASSUME NEW c \in Calls, UpstreamRuns(c) PROVE [Audited!Next]_Audited!vars
  <2>1. c \in sent /\ effects' = effects \cup {c} /\ receipts' = receipts
    BY <1>3 DEF UpstreamRuns
  <2>2. Verdicts' = Verdicts
    BY <2>1 DEF Verdicts, Permits
  <2>3. PICK i \in DOMAIN receipts : receipts[i].call = c /\ Permits(receipts[i])
    BY <1>0, <2>1 DEF WriteAhead, ReceiptPermits
  <2>4. Verdicts[i] = [call |-> c, permit |-> TRUE] /\ i \in DOMAIN Verdicts
    BY <2>3 DEF Verdicts
  <2>5. Audited!Take(c)
    BY <2>1, <2>2, <2>4 DEF Audited!Take, Audited!Permitted
  <2>6. QED
    BY <2>5 DEF Audited!Next
<1>4. CASE \/ UNCHANGED vars
           \/ GatewayCrash
           \/ \E a \in Agents : OperatorSets(a) \/ Expire(a)
  BY <1>1, <1>4 DEF vars, GatewayCrash, OperatorSets, Expire
<1>5. ASSUME NEW c \in Calls,
             \/ Identify(c) \/ Lookup(c) \/ VerifySubject(c) \/ RegistryGate(c)
             \/ EvaluatePolicy(c) \/ Export(c) \/ BrokerCredential(c)
             \/ Forward(c) \/ Reply(c) \/ UpstreamFails(c)
      PROVE  [Audited!Next]_Audited!vars
  BY <1>1, <1>5
  DEF Identify, Lookup, VerifySubject, RegistryGate, EvaluatePolicy, Export,
      BrokerCredential, Forward, Reply, UpstreamFails
<1>6. QED
  BY <1>2, <1>3, <1>4, <1>5 DEF Next, Proceed

\* Whatever interleaves, fails or crashes, the gateway is an audited executor:
\* a tool takes effect only after a verdict that permits it is in the log.
THEOREM GatewayIsAudited == Spec => AuditedSpec
<1>1. Init => Audited!Init
  BY DEF Init, Audited!Init, Verdicts
<1>2. QED
  BY <1>1, InductiveInvariant, AuditedStep, PTL DEF Spec, AuditedSpec, Audited!Spec

-----------------------------------------------------------------------------
(* The gateway uses its ledger as the port allows.                         *)

\* A receipt appended to the ledger is its call appended to the port's log.
LEMMA RecordedAppended ==
  ASSUME TypeOK, NEW e \in Receipt, receipts' = Append(receipts, e)
  PROVE  RecordedCalls' = Append(RecordedCalls, e.call)
<1> DEFINE n == Len(receipts)
<1>1. receipts \in Seq(Receipt)
  BY DEF TypeOK
<1>2. /\ n \in Nat
      /\ DOMAIN receipts = 1..n
      /\ DOMAIN receipts' = 1..(n + 1)
      /\ \A i \in 1..n : receipts'[i] = receipts[i]
      /\ receipts'[n + 1] = e
  BY <1>1, AppendFacts
<1>3. RecordedCalls = [i \in 1..n |-> receipts[i].call]
  BY <1>2 DEF RecordedCalls
<1>4. RecordedCalls' = [i \in 1..(n + 1) |-> receipts'[i].call]
  BY <1>2, Zenon DEF RecordedCalls
<1>5. \A i \in 1..n : receipts[i].call \in Calls
  <2>1. \A i \in 1..n : receipts[i] \in Receipt
    BY <1>1, <1>2
  <2>2. QED
    BY <2>1 DEF Receipt
<1>6. RecordedCalls \in Seq(Calls) /\ Len(RecordedCalls) = n
  BY <1>2, <1>3, <1>5
<1> HIDE DEF n
<1> DEFINE d == e.call
<1>7. d \in Calls
  BY DEF Receipt
<1>8. d = receipts'[n + 1].call
  BY <1>2
<1> HIDE DEF d
<1>9. /\ \A i \in 1..n : Append(RecordedCalls, d)[i] = RecordedCalls[i]
      /\ Append(RecordedCalls, d)[n + 1] = d
      /\ Append(RecordedCalls, d) = [i \in 1..(n + 1) |-> Append(RecordedCalls, d)[i]]
  BY <1>6, <1>7, AppendFacts
<1>10. \A i \in 1..(n + 1) : Append(RecordedCalls, d)[i] = receipts'[i].call
  BY <1>2, <1>3, <1>8, <1>9
<1>11. RecordedCalls' = Append(RecordedCalls, d)
  BY <1>4, <1>9, <1>10
<1>12. QED
  BY <1>11 DEF d

\* Only Record touches the log, and for a call that is not in it.
LEMMA PortStep == IInv /\ [Next]_vars => [Port!Next]_RecordedCalls
<1> SUFFICES ASSUME IInv, [Next]_vars PROVE [Port!Next]_RecordedCalls
  OBVIOUS
<1> USE DEF world, log, upstream, local
<1>0. TypeOK /\ \A c \in Calls : CallInv(c)
  BY DEF IInv
<1>1. CASE UNCHANGED receipts
  BY <1>1 DEF RecordedCalls
<1>2. ASSUME NEW c \in Calls, Record(c) PROVE [Port!Next]_RecordedCalls
  <2> DEFINE e == [call |-> c, decision |-> decision[c].decision,
                   reason |-> decision[c].reason, enforced |-> ~shadow[c]]
  <2>1. e \in Receipt /\ ~Receipted(c)
    BY <1>0, <1>2
    DEF Record, CallInv, Decided, Unreceipted, AfterRecord, BeforeRecord, TypeOK,
        PolicyDecision, Receipt
  <2>2. CASE receipts' = Append(receipts, e)
    <3>1. RecordedCalls' = Append(RecordedCalls, c)
      BY <1>0, <2>1, <2>2, RecordedAppended
    <3>2. Port!Append_(c)
      BY <2>1, <3>1 DEF Port!Append_, RecordedCalls, Receipted
    <3>3. QED
      BY <3>2 DEF Port!Next
  <2>3. QED
    BY <1>1, <1>2, <2>2 DEF Record
<1>3. QED
  BY <1>1, <1>2
  DEF Next, Proceed, vars, Identify, Lookup, VerifySubject, RegistryGate,
      EvaluatePolicy, Export, BrokerCredential, Forward, Reply, UpstreamFails,
      UpstreamRuns, OperatorSets, Expire, GatewayCrash

\* What the gateway sees of its ledger is a behaviour of the Ledger port. The
\* Postgres ledger implements that port (ChainImplementsPort), for as many
\* replicas as record through it, so the gateway's theorems hold over it.
THEOREM GatewayUsesPort == Spec => PortSpec
<1>1. Init => Port!Init
  BY DEF Init, Port!Init, RecordedCalls
<1>2. QED
  BY <1>1, InductiveInvariant, PortStep, PTL DEF Spec, PortSpec, Port!Spec
-----------------------------------------------------------------------------
(* The gateway asks its registry as the port RegistryPort lets it.         *)

Unlooked == \A c \in Calls : pc[c] = "idle" => registration[c] = None

\* A call that has not arrived has no record: only its lookup gives it one.
LEMMA UnlookedStep == TypeOK /\ Unlooked /\ [Next]_vars => Unlooked'
<1> SUFFICES ASSUME TypeOK, Unlooked, [Next]_vars, NEW c \in Calls, pc'[c] = "idle"
             PROVE  registration'[c] = None
  BY DEF Unlooked
<1> USE DEF world, log, upstream, local
<1>1. CASE \E d \in Calls : Lookup(d)
  <2>1. PICK d \in Calls : Lookup(d)
    BY <1>1
  <2>2. pc'[d] # "idle" /\ pc[d] = "lookup" /\ \A e \in Calls \ {d} : pc'[e] = pc[e]
    BY <2>1 DEF Lookup, Goto, Answer, TypeOK
  <2>3. registration'[c] = registration[c]
    BY <2>1, <2>2 DEF Lookup, TypeOK
  <2>4. QED
    BY <2>2, <2>3 DEF Unlooked
<1>2. ASSUME NEW d \in Calls,
             \/ Identify(d) \/ VerifySubject(d) \/ RegistryGate(d)
             \/ EvaluatePolicy(d) \/ Record(d) \/ Export(d)
      PROVE  registration'[c] = None
  <2>1. UNCHANGED registration
    BY <1>2 DEF Identify, VerifySubject, RegistryGate, EvaluatePolicy, Record, Export
  <2>2. CASE Identify(d) \/ VerifySubject(d)
    BY <2>1, <2>2 DEF Identify, VerifySubject, Goto, Answer, TypeOK, Unlooked
  <2>3. CASE RegistryGate(d) \/ EvaluatePolicy(d)
    BY <2>1, <2>3 DEF RegistryGate, EvaluatePolicy, SetDecision, Goto, Answer, TypeOK,
                      Unlooked
  <2>4. CASE Record(d) \/ Export(d)
    BY <2>1, <2>4 DEF Record, Export, Goto, Answer, TypeOK, Unlooked
  <2>5. QED
    BY <1>2, <2>2, <2>3, <2>4
<1>3. ASSUME NEW d \in Calls,
             \/ BrokerCredential(d) \/ Forward(d) \/ Reply(d)
             \/ UpstreamFails(d) \/ UpstreamRuns(d)
      PROVE  registration'[c] = None
  <2>1. UNCHANGED registration
    BY <1>3 DEF BrokerCredential, Forward, Reply, UpstreamFails, UpstreamRuns
  <2>2. (\E place \in {"forward", "await"} : Goto(d, place))
          \/ (\E a \in Answers : Answer(d, a)) \/ UNCHANGED pc
    BY <1>3 DEF BrokerCredential, Forward, Reply, UpstreamFails, UpstreamRuns, Answers
  <2>3. pc'[c] = "idle" => pc[c] = "idle"
    BY <2>2 DEF Goto, Answer, TypeOK
  <2>4. QED
    BY <2>1, <2>3 DEF Unlooked
<1>4. CASE \/ \E a \in Agents : OperatorSets(a) \/ Expire(a)
           \/ GatewayCrash \/ UNCHANGED vars
  BY <1>4 DEF OperatorSets, Expire, GatewayCrash, vars, Unlooked, TypeOK
<1>5. QED
  BY <1>1, <1>2, <1>3, <1>4 DEF Next, Proceed

CurrentServed == \A a \in Agents : registry[a] \in recent[a]

\* What operators left is always one of the records a lookup may give.
LEMMA CurrentStep == TypeOK /\ CurrentServed /\ [Next]_vars => CurrentServed'
<1> SUFFICES ASSUME TypeOK, CurrentServed, [Next]_vars PROVE CurrentServed'
  OBVIOUS
<1>1. ASSUME NEW a \in Agents, OperatorSets(a) \/ Expire(a) PROVE CurrentServed'
  BY <1>1 DEF OperatorSets, Expire, TypeOK, CurrentServed
<1>2. CASE ~\E a \in Agents : OperatorSets(a) \/ Expire(a)
  <2>1. UNCHANGED world
    BY <1>2
    DEF Next, Proceed, vars, world, Identify, Lookup, VerifySubject, RegistryGate,
        EvaluatePolicy, Record, Export, BrokerCredential, Forward, Reply,
        UpstreamFails, UpstreamRuns, GatewayCrash
  <2>2. QED
    BY <2>1 DEF world, CurrentServed
<1>3. QED
  BY <1>1, <1>2

\* A step of the gateway is a lookup of one of the agent's calls, a change of
\* what its lookups may be answered with, or neither.
LEMMA RegistryStep ==
  ASSUME IInv, Unlooked, CurrentServed, [Next]_vars, NEW a \in Agents
  PROVE  [Registry(a)!Next]_(Registry(a)!vars)
<1> USE DEF world, log, upstream, local
<1> DEFINE Mine(c) == req[c] # None /\ Agent(c) # None /\ Agent(c).spiffe_id = a
<1>0. TypeOK /\ \A c \in Calls : CallInv(c)
  BY DEF IInv
<1>1. ASSUME NEW c \in Calls, Lookup(c) PROVE [Registry(a)!Next]_(Registry(a)!vars)
  <2>1. UNCHANGED <<registry, recent, req>>
    BY <1>1 DEF Lookup
  <2>2. CASE ~Mine(c) \/ registration' = registration
    <3>1. AnswersTo(a)' = AnswersTo(a)
      BY <1>0, <1>1, <2>1, <2>2 DEF AnswersTo, Agent, Lookup, TypeOK
    <3>2. QED
      BY <2>1, <3>1 DEF Registry!vars
  <2>3. CASE Mine(c) /\ registration' # registration
    <3>1. PICK r \in recent[a] : registration' = [registration EXCEPT ![c] = r]
      BY <1>1, <2>3 DEF Lookup
    <3>2. AnswersTo(a)' = [AnswersTo(a) EXCEPT ![c] = r]
      BY <1>0, <2>1, <2>3, <3>1 DEF AnswersTo, Agent, TypeOK
    <3>3. Registry(a)!Lookup(c)
      BY <2>1, <3>1, <3>2 DEF Registry!Lookup
    <3>4. QED
      BY <3>3 DEF Registry!Next
  <2>4. QED
    BY <2>2, <2>3
<1>2. ASSUME NEW c \in Calls, Identify(c) PROVE [Registry(a)!Next]_(Registry(a)!vars)
  <2>1. /\ UNCHANGED <<registry, recent, registration>>
        /\ registration[c] = None
        /\ \A d \in Calls \ {c} : req'[d] = req[d]
    BY <1>0, <1>2 DEF Identify, Unlooked, TypeOK
  <2>2. AnswersTo(a)' = AnswersTo(a)
    BY <2>1 DEF AnswersTo, Agent
  <2>3. QED
    BY <2>1, <2>2 DEF Registry!vars
<1>3. ASSUME NEW b \in Agents, OperatorSets(b) \/ Expire(b)
      PROVE  [Registry(a)!Next]_(Registry(a)!vars)
  <2>1. AnswersTo(a)' = AnswersTo(a)
    BY <1>3 DEF OperatorSets, Expire, AnswersTo, Agent
  <2>2. CASE b # a
    <3>1. registry'[a] = registry[a] /\ recent'[a] = recent[a]
      BY <1>0, <1>3, <2>2 DEF OperatorSets, Expire, TypeOK
    <3>2. QED
      BY <2>1, <3>1 DEF Registry!vars
  <2>3. CASE b = a
    <3>1. /\ registry'[a] \in Registrations \cup {None}
          /\ recent'[a] \subseteq recent[a] \cup {registry'[a]}
      BY <1>0, <1>3, <2>3 DEF OperatorSets, Expire, TypeOK
    <3>2. registry'[a] \in recent'[a]
      BY <1>0, <1>3, CurrentStep DEF CurrentServed
    <3>3. QED
      BY <2>1, <3>1, <3>2 DEF Registry!Update, Registry!Next
  <2>4. QED
    BY <2>2, <2>3
<1>4. CASE \/ \E c \in Calls : UpstreamRuns(c) \/ (Proceed(c) /\ ~Lookup(c))
           \/ GatewayCrash \/ UNCHANGED vars
  <2>1. UNCHANGED <<registry, recent, req, registration>>
    BY <1>4
    DEF Proceed, vars, VerifySubject, RegistryGate, EvaluatePolicy, Record, Export,
        BrokerCredential, Forward, Reply, UpstreamFails, UpstreamRuns, GatewayCrash
  <2>2. AnswersTo(a)' = AnswersTo(a)
    BY <2>1 DEF AnswersTo, Agent
  <2>3. QED
    BY <2>1, <2>2 DEF Registry!vars
<1>5. QED
  BY <1>1, <1>2, <1>3, <1>4 DEF Next, Proceed

\* domain/ports.py, AgentRegistry: whatever fails or overlaps, every record a
\* call is decided on is one the registry port may answer its lookup with.
THEOREM GatewayUsesRegistry == Spec => RegistrySpec
<1>1. Init => Unlooked /\ CurrentServed /\ \A a \in Agents : Registry(a)!Init
  BY DEF Init, Unlooked, CurrentServed, Registry!Init, AnswersTo
<1>2. IInv => TypeOK
  BY DEF IInv
<1>3. IInv /\ Unlooked /\ CurrentServed /\ [Next]_vars =>
        [\A a \in Agents : [Registry(a)!Next]_(Registry(a)!vars)]_vars
  BY RegistryStep
<1>4. Spec => [](Unlooked /\ CurrentServed)
  BY <1>1, <1>2, UnlookedStep, CurrentStep, InductiveInvariant, PTL DEF Spec
<1>5. QED
  BY <1>1, <1>3, <1>4, InductiveInvariant, PTL DEF Spec, RegistrySpec

=============================================================================

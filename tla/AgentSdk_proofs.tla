-------------------------- MODULE AgentSdk_proofs --------------------------
(***************************************************************************)
(* Proofs about AgentSdk, for any number of invocations and attempts and   *)
(* any mix of call sites.                                                  *)
(***************************************************************************)
EXTENDS AgentSdk, TLAPS

\* What an attempt was asked about, and what that says of its verdict.
Asked(a) ==
  /\ asked[a] # None => asked[a] \in Bind(SiteOf(a))
  /\ asked[a] = "over" => ~Audited!Permitted(a)
  /\ Audited!Judged(a) \/ reply[a] # None => asked[a] # None

OneVerdict == \A x, y \in DOMAIN log : log[x].call = log[y].call => x = y

\* Responses of the gateway are true.
Replied(a) ==
  /\ reply[a] = "allowed" => Audited!Permitted(a)
  /\ reply[a] = "refused" => Audited!Judged(a) /\ ~Audited!Permitted(a)
  /\ reply[a] = "result" => a \in effects

\* Effects are permitted, and a function body that ran is accounted for.
Took(a) ==
  a \in effects =>
    /\ Audited!Permitted(a)
    /\ Governed(a) => /\ outcome[a] \in {"returned", "raised"}
                      /\ SiteOf(a).style # "mismatched"

\* Outcomes that make a claim have their reason.
Told(a) ==
  /\ outcome[a] = "denied" => Governed(a) /\ reply[a] = "refused"
  /\ outcome[a] = "returned" => a \in effects \/ (~Governed(a) /\ reply[a] = "foreign")

\* Earlier attempts ended in an error; later ones have not begun.
Ordered(a) ==
  /\ a[2] < n[a[1]] => outcome[a] \in {"gateway_error", "unreadable"}
  /\ a[2] > n[a[1]] => asked[a] = None /\ outcome[a] = None

\* What the place of an invocation says of its current attempt.
Placed(i) ==
  /\ pc[i] = "idle" => asked[Attempt(i)] = None
  /\ pc[i] # "done" => outcome[Attempt(i)] = None
  /\ pc[i] = "cleared" => Governed(Attempt(i)) /\ reply[Attempt(i)] = "allowed"

IInv ==
  /\ TypeOK
  /\ OneVerdict
  /\ \A a \in Attempts : Asked(a) /\ Replied(a) /\ Took(a) /\ Told(a) /\ Ordered(a)
  /\ \A i \in Invocations : Placed(i)

LEMMA CurrentAttempt ==
  ASSUME TypeOK, NEW i \in Invocations
  PROVE  /\ Attempt(i) \in Attempts
         /\ Attempt(i)[1] = i /\ Attempt(i)[2] = n[i]
BY DEF TypeOK, Attempt, Attempts

\* An attempt is its invocation and its number.
LEMMA AttemptIsPair ==
  ASSUME NEW a \in Attempts
  PROVE  a = <<a[1], a[2]>> /\ a[1] \in Invocations /\ a[2] \in 1..MaxAttempts
BY DEF Attempts

\* Recording a verdict changes what is known of its own call only.
LEMMA JudgeEffect ==
  ASSUME NEW a \in Attempts, NEW p \in BOOLEAN, log \in Seq(Audited!Verdict),
         Audited!Judge(a, p)
  PROVE  /\ log' \in Seq(Audited!Verdict)
         /\ OneVerdict => OneVerdict'
         /\ \A b \in Attempts : Audited!Judged(b)' <=> Audited!Judged(b) \/ b = a
         /\ \A b \in Attempts : Audited!Permitted(b)' <=>
              Audited!Permitted(b) \/ (b = a /\ p)
<1> DEFINE v == [call |-> a, permit |-> p]
<1>1. v \in Audited!Verdict /\ log' = Append(log, v)
  BY DEF Audited!Judge, Audited!Verdict
<1>2. /\ log' \in Seq(Audited!Verdict)
      /\ DOMAIN log = 1..Len(log) /\ DOMAIN log' = 1..(Len(log) + 1) /\ Len(log) \in Nat
      /\ \A x \in DOMAIN log : log'[x] = log[x]
      /\ log'[Len(log) + 1] = v
  BY <1>1
<1>3. \A x \in DOMAIN log : log[x].call # a
  BY DEF Audited!Judge, Audited!Judged
<1>4. OneVerdict => OneVerdict'
  <2>1. SUFFICES ASSUME OneVerdict, NEW x \in DOMAIN log', NEW y \in DOMAIN log',
                        log'[x].call = log'[y].call
                 PROVE  x = y
    BY DEF OneVerdict
  <2>2. CASE x \in DOMAIN log /\ y \in DOMAIN log
    BY <1>2, <2>1, <2>2 DEF OneVerdict
  <2>3. CASE x \notin DOMAIN log \/ y \notin DOMAIN log
    <3>1. v.call = a
      OBVIOUS
    <3>2. QED
      BY <1>2, <1>3, <2>1, <2>3, <3>1
  <2>4. QED
    BY <2>2, <2>3
<1>5. \A b \in Attempts : Audited!Judged(b)' <=> Audited!Judged(b) \/ b = a
  BY <1>2 DEF Audited!Judged
<1>6. \A b \in Attempts : Audited!Permitted(b)' <=> Audited!Permitted(b) \/ (b = a /\ p)
  <2>1. SUFFICES ASSUME NEW b \in Attempts
                 PROVE  Audited!Permitted(b)' <=> Audited!Permitted(b) \/ (b = a /\ p)
    OBVIOUS
  <2>2. v = [call |-> b, permit |-> TRUE] <=> b = a /\ p
    OBVIOUS
  <2>3. DOMAIN log' = DOMAIN log \cup {Len(log) + 1}
    BY <1>2
  <2> HIDE DEF v
  <2>4. (\E x \in DOMAIN log' : log'[x] = [call |-> b, permit |-> TRUE])
          <=> Audited!Permitted(b) \/ v = [call |-> b, permit |-> TRUE]
    BY <1>2, <2>3 DEF Audited!Permitted
  <2>5. QED
    BY <2>2, <2>4 DEF Audited!Permitted
<1>7. QED
  BY <1>2, <1>4, <1>5, <1>6

\* A call with a permitting verdict has a verdict.
LEMMA PermittedIsJudged ==
  ASSUME NEW a \in Attempts, Audited!Permitted(a)
  PROVE  Audited!Judged(a)
BY DEF Audited!Permitted, Audited!Judged

LEMMA IInvInit == Init => IInv
<1>1. SUFFICES ASSUME Init PROVE IInv
  OBVIOUS
<1>2. TypeOK
  BY <1>1, AttemptsAssumption DEF Init, TypeOK, Audited!Init
<1>3. OneVerdict /\ \A a \in Attempts : ~Audited!Judged(a) /\ ~Audited!Permitted(a)
  BY <1>1 DEF Init, Audited!Init, OneVerdict, Audited!Judged, Audited!Permitted
<1>4. \A a \in Attempts : Asked(a) /\ Replied(a) /\ Took(a) /\ Told(a)
  BY <1>1, <1>3, NoneAssumption
     DEF Init, Audited!Init, Asked, Replied, Took, Told, Replies, Outcomes
<1>5. \A a \in Attempts : Ordered(a)
  BY <1>1, AttemptIsPair DEF Init, Ordered
<1>6. \A i \in Invocations : Placed(i)
  BY <1>1, <1>2, CurrentAttempt DEF Init, Placed
<1>7. QED
  BY <1>2, <1>3, <1>4, <1>5, <1>6 DEF IInv

-----------------------------------------------------------------------------

LEMMA IInvStep == IInv /\ [Next]_vars => IInv'
<1>1. SUFFICES ASSUME IInv, [Next]_vars PROVE IInv'
  OBVIOUS
<1>2. /\ TypeOK /\ OneVerdict
      /\ \A a \in Attempts : Asked(a) /\ Replied(a) /\ Took(a) /\ Told(a) /\ Ordered(a)
      /\ \A i \in Invocations : Placed(i)
  BY <1>1 DEF IInv
<1>3. ASSUME NEW i \in Invocations
      PROVE  /\ Attempt(i) \in Attempts
             /\ Attempt(i)[1] = i /\ Attempt(i)[2] = n[i]
  BY <1>2, CurrentAttempt
<1>4. \A a \in Attempts : a = <<a[1], a[2]>> /\ a[1] \in Invocations /\ a[2] \in 1..MaxAttempts
  BY AttemptIsPair
\* Steps that leave the log alone leave every verdict alone.
<1>5. ASSUME UNCHANGED log
      PROVE  /\ OneVerdict'
             /\ \A a \in Attempts : /\ Audited!Judged(a)' <=> Audited!Judged(a)
                                    /\ Audited!Permitted(a)' <=> Audited!Permitted(a)
  BY <1>2, <1>5 DEF OneVerdict, Audited!Judged, Audited!Permitted
<1>6. ASSUME NEW i \in Invocations, Post(i)
      PROVE  IInv'
  <2> DEFINE c == Attempt(i)
  <2>1. /\ pc[i] = "idle" /\ pc' = [pc EXCEPT ![i] = "posted"]
        /\ UNCHANGED <<site, n, reply, outcome, log, effects>>
        /\ asked[c] = None /\ outcome[c] = None
    BY <1>2, <1>6 DEF Post, Placed
  <2>2. PICK seen \in Bind(site[i]) : asked' = [asked EXCEPT ![c] = seen]
    BY <1>6 DEF Post
  <2>3. site[i] \in Site /\ seen \in {"within", "over"}
    BY <1>2, SitesAssumption DEF TypeOK, Bind, Site
  <2>4. TypeOK'
    BY <1>2, <1>3, <2>1, <2>2, <2>3 DEF TypeOK
  <2>5. \A a \in Attempts : Replied(a)' /\ Took(a)' /\ Told(a)'
    BY <1>2, <1>5, <2>1 DEF Replied, Took, Told, Governed, SiteOf
  <2>6. ~Audited!Permitted(c)
    BY <1>2, <1>3, <2>1, PermittedIsJudged DEF Asked
  <2>7. \A a \in Attempts : Asked(a)'
    <3>1. \A a \in Attempts : a # c => asked'[a] = asked[a]
      BY <1>2, <2>2 DEF TypeOK
    <3>2. asked'[c] = seen /\ seen # None /\ SiteOf(c) = site[i]
      BY <1>2, <1>3, <2>2, <2>3, NoneAssumption DEF TypeOK, SiteOf
    <3>3. QED
      BY <1>2, <1>5, <2>1, <2>2, <2>6, <3>1, <3>2 DEF Asked, SiteOf
  <2>8. \A a \in Attempts : Ordered(a)'
    BY <1>2, <1>3, <1>4, <2>1, <2>2 DEF Ordered, TypeOK
  <2>9. \A j \in Invocations : Placed(j)'
    BY <1>2, <1>3, <2>1, <2>2 DEF Placed, Attempt, TypeOK, Governed, SiteOf
  <2>10. QED
    BY <1>5, <2>1, <2>4, <2>5, <2>7, <2>8, <2>9 DEF IInv
<1>7. ASSUME NEW i \in Invocations, NEW o \in Outcomes, Finish(i, o), outcome[Attempt(i)] = None,
             UNCHANGED <<site, n, asked, reply, log>>,
             effects' \in {effects, effects \cup {Attempt(i)}},
             effects' # effects => Audited!Permitted(Attempt(i)),
             Governed(Attempt(i)) /\ effects' # effects =>
               o \in {"returned", "raised"} /\ site[i].style # "mismatched",
             o = "denied" => Governed(Attempt(i)) /\ reply[Attempt(i)] = "refused",
             o = "returned" => Attempt(i) \in effects'
                               \/ (~Governed(Attempt(i)) /\ reply[Attempt(i)] = "foreign")
      PROVE  IInv'
  <2> DEFINE c == Attempt(i)
  <2>1. /\ pc' = [pc EXCEPT ![i] = "done"] /\ outcome' = [outcome EXCEPT ![c] = o]
        /\ c \in Attempts /\ c[1] = i /\ c[2] = n[i]
        /\ outcome'[c] = o /\ \A a \in Attempts \ {c} : outcome'[a] = outcome[a]
        /\ o # None
    BY <1>2, <1>3, <1>7, NoneAssumption DEF Finish, TypeOK
  <2>2. TypeOK'
    BY <1>2, <1>7, <2>1 DEF TypeOK
  <2>3. \A a \in Attempts : Asked(a)' /\ Replied(a)'
    BY <1>2, <1>5, <1>7 DEF Asked, Replied, SiteOf
  <2>4. \A a \in Attempts : Took(a)'
    <3>1. SUFFICES ASSUME NEW a \in Attempts PROVE Took(a)'
      OBVIOUS
    <3>2. CASE a = c
      <4>1. a \in effects => ~Governed(a)
        BY <1>2, <1>7, <3>2, NoneAssumption DEF Took, Outcomes
      <4>2. a \in effects' => Audited!Permitted(a)'
        BY <1>2, <1>5, <1>7, <3>2 DEF Took
      <4>3. a \in effects' /\ Governed(a) => effects' # effects
        BY <4>1
      <4>4. (Governed(a)' <=> Governed(a)) /\ SiteOf(a)' = site[i] /\ outcome'[a] = o
        BY <1>7, <2>1, <3>2 DEF Governed, SiteOf
      <4>5. QED
        BY <1>7, <3>2, <4>2, <4>3, <4>4 DEF Took
    <3>3. CASE a # c
      BY <1>2, <1>5, <1>7, <2>1, <3>3 DEF Took, Governed, SiteOf
    <3>4. QED
      BY <3>2, <3>3
  <2>5. \A a \in Attempts : Told(a)'
    BY <1>2, <1>7, <2>1 DEF Told, Governed, SiteOf
  <2>6. \A a \in Attempts : Ordered(a)'
    BY <1>2, <1>4, <1>7, <2>1 DEF Ordered, TypeOK
  <2>7. \A j \in Invocations : Placed(j)'
    <3>1. SUFFICES ASSUME NEW j \in Invocations PROVE Placed(j)'
      OBVIOUS
    <3>2. CASE j = i
      BY <1>2, <2>1, <3>2 DEF Placed, TypeOK
    <3>3. CASE j # i
      <4>1. Attempt(j) # c /\ Attempt(j)' = Attempt(j) /\ pc'[j] = pc[j]
        BY <1>2, <1>3, <1>7, <2>1, <3>3 DEF TypeOK, Attempt
      <4>2. QED
        BY <1>2, <1>3, <1>7, <2>1, <4>1 DEF Placed, Governed, SiteOf
    <3>4. QED
      BY <3>2, <3>3
  <2>8. QED
    BY <1>5, <1>7, <2>2, <2>3, <2>4, <2>5, <2>6, <2>7 DEF IInv
<1>8. ASSUME NEW i \in Invocations, Receive(i)
      PROVE  IInv'
  <2> DEFINE c == Attempt(i)
  <2>1. /\ pc[i] = "posted" /\ outcome[c] = None /\ reply[c] \in Replies
        /\ UNCHANGED <<site, n, asked, reply, log, effects>>
        /\ c \in Attempts
    BY <1>2, <1>3, <1>8 DEF Receive, Placed, TypeOK
  <2>2. CASE /\ Governed(c) /\ "cleared" \in ParseAuthorization(reply[c])
             /\ pc' = [pc EXCEPT ![i] = "cleared"]
             /\ UNCHANGED outcome
    <3>1. reply[c] = "allowed"
      BY <2>2 DEF ParseAuthorization
    <3>2. TypeOK'
      BY <1>2, <2>1, <2>2 DEF TypeOK
    <3>3. \A a \in Attempts : Asked(a)' /\ Replied(a)' /\ Took(a)' /\ Told(a)' /\ Ordered(a)'
      BY <1>2, <1>5, <2>1, <2>2 DEF Asked, Replied, Took, Told, Ordered, Governed, SiteOf
    <3>4. \A j \in Invocations : Placed(j)'
      BY <1>2, <2>1, <2>2, <3>1 DEF Placed, Attempt, Governed, SiteOf, TypeOK
    <3>5. QED
      BY <1>5, <2>1, <3>2, <3>3, <3>4 DEF IInv
  <2>3. CASE \E o \in (IF Governed(c) THEN ParseAuthorization(reply[c])
                                      ELSE ParseRpc(reply[c])) \ {"cleared"} : Finish(i, o)
    <3>1. PICK o \in (IF Governed(c) THEN ParseAuthorization(reply[c])
                                     ELSE ParseRpc(reply[c])) \ {"cleared"} : Finish(i, o)
      BY <2>3
    <3>2. /\ o \in Outcomes
          /\ o = "denied" => Governed(c) /\ reply[c] = "refused"
          /\ o = "returned" => ~Governed(c) /\ reply[c] \in {"result", "foreign"}
      BY <3>1 DEF ParseAuthorization, ParseRpc, Outcomes
    <3>3. o = "returned" => c \in effects \/ (~Governed(c) /\ reply[c] = "foreign")
      BY <1>2, <2>1, <3>2 DEF Replied
    <3>4. QED
      BY <1>7, <2>1, <3>1, <3>2, <3>3
  <2>4. QED
    BY <1>8, <2>2, <2>3 DEF Receive
<1>9. ASSUME NEW i \in Invocations, GiveUp(i)
      PROVE  IInv'
  <2>1. /\ outcome[Attempt(i)] = None /\ Finish(i, "gateway_error")
        /\ UNCHANGED <<site, n, asked, reply, log, effects>>
    BY <1>2, <1>9 DEF GiveUp, Placed
  <2>2. "gateway_error" \in Outcomes
    BY DEF Outcomes
  <2>3. QED
    BY <1>7, <2>1, <2>2
<1>10. ASSUME NEW i \in Invocations, Run(i)
       PROVE  IInv'
  <2> DEFINE c == Attempt(i)
  <2>1. /\ outcome[c] = None /\ Governed(c) /\ reply[c] = "allowed"
        /\ UNCHANGED <<site, n, asked, reply, log>> /\ c \in Attempts
    BY <1>2, <1>3, <1>10 DEF Run, Placed
  <2>2. Audited!Permitted(c)
    BY <1>2, <2>1 DEF Replied
  <2>3. {"type_error", "returned", "raised"} \subseteq Outcomes
    BY DEF Outcomes
  <2>4. CASE Finish(i, "type_error") /\ UNCHANGED effects
    BY <1>7, <2>1, <2>3, <2>4
  <2>5. CASE /\ site[i].style # "mismatched"
             /\ effects' = effects \cup {c}
             /\ \E o \in {"returned", "raised"} : Finish(i, o)
    <3>1. PICK o \in {"returned", "raised"} : Finish(i, o)
      BY <2>5
    <3>2. QED
      BY <1>7, <2>1, <2>2, <2>3, <2>5, <3>1
  <2>6. QED
    BY <1>10, <2>4, <2>5 DEF Run
<1>11. ASSUME NEW i \in Invocations, Retry(i)
       PROVE  IInv'
  <2> DEFINE c == Attempt(i)
  <2>1. /\ n[i] < MaxAttempts /\ n' = [n EXCEPT ![i] = @ + 1]
        /\ pc' = [pc EXCEPT ![i] = "idle"]
        /\ outcome[c] \in {"gateway_error", "unreadable"}
        /\ UNCHANGED <<site, asked, reply, outcome, log, effects>>
    BY <1>11 DEF Retry
  <2>2. n[i] \in 1..MaxAttempts /\ n'[i] = n[i] + 1 /\ n'[i] \in 1..MaxAttempts
        /\ \A j \in Invocations \ {i} : n'[j] = n[j]
    BY <1>2, <2>1, AttemptsAssumption DEF TypeOK
  <2>3. TypeOK'
    BY <1>2, <2>1, <2>2 DEF TypeOK
  <2>4. \A a \in Attempts : Asked(a)' /\ Replied(a)' /\ Took(a)' /\ Told(a)'
    BY <1>2, <1>5, <2>1 DEF Asked, Replied, Took, Told, Governed, SiteOf
  <2>5. \A a \in Attempts : Ordered(a)'
    <3>1. SUFFICES ASSUME NEW a \in Attempts PROVE Ordered(a)'
      OBVIOUS
    <3>2. CASE a = c
      BY <1>3, <2>1, <2>2, <3>2 DEF Ordered
    <3>3. CASE a # c
      <4>1. a[1] = i => a[2] # n[i]
        BY <1>4, <3>3 DEF Attempt
      <4>2. Ordered(a) /\ a[2] \in Nat /\ n[i] \in Nat /\ a[1] \in Invocations
        BY <1>2, <1>4, <2>2, AttemptsAssumption
      <4>3. QED
        BY <2>1, <2>2, <4>1, <4>2 DEF Ordered
    <3>4. QED
      BY <3>2, <3>3
  <2>6. \A j \in Invocations : Placed(j)'
    <3>1. SUFFICES ASSUME NEW j \in Invocations PROVE Placed(j)'
      OBVIOUS
    <3>2. CASE j = i
      <4> DEFINE d == <<i, n[i] + 1>>
      <4>1. d \in Attempts /\ d[1] = i /\ d[2] = n[i] + 1 /\ Attempt(i)' = d
        BY <2>2 DEF Attempts, Attempt
      <4>2. asked[d] = None /\ outcome[d] = None
        BY <1>2, <2>2, <4>1 DEF Ordered
      <4>3. QED
        BY <1>2, <2>1, <3>2, <4>1, <4>2 DEF Placed, TypeOK
    <3>3. CASE j # i
      BY <1>2, <2>1, <2>2, <3>3 DEF Placed, Attempt, Governed, SiteOf, TypeOK
    <3>4. QED
      BY <3>2, <3>3
  <2>7. QED
    BY <1>5, <2>1, <2>3, <2>4, <2>5, <2>6 DEF IInv
<1>12. ASSUME NEW a \in Attempts, Judge(a)
       PROVE  IInv'
  <2>1. PICK p \in IF asked[a] = "over" THEN {FALSE} ELSE BOOLEAN : Audited!Judge(a, p)
    BY <1>12 DEF Judge
  <2>2. /\ asked[a] # None /\ reply[a] = None
        /\ UNCHANGED <<site, pc, n, asked, reply, outcome, effects>>
        /\ p \in BOOLEAN
        /\ asked[a] = "over" => ~p
    BY <1>12, <2>1 DEF Judge, Audited!Judge
  <2>3. /\ log' \in Seq(Audited!Verdict) /\ OneVerdict'
        /\ \A b \in Attempts : Audited!Judged(b)' <=> Audited!Judged(b) \/ b = a
        /\ \A b \in Attempts : Audited!Permitted(b)' <=>
             Audited!Permitted(b) \/ (b = a /\ p)
    BY <1>2, <2>1, <2>2, JudgeEffect DEF TypeOK
  <2>4. TypeOK'
    BY <1>2, <2>2, <2>3 DEF TypeOK
  <2>5. \A b \in Attempts : Asked(b)'
    BY <1>2, <2>2, <2>3 DEF Asked, SiteOf
  <2>6. \A b \in Attempts : Replied(b)'
    BY <1>2, <2>2, <2>3, NoneAssumption DEF Replied, Replies
  <2>7. \A b \in Attempts : Took(b)' /\ Told(b)' /\ Ordered(b)'
    BY <1>2, <2>2, <2>3 DEF Took, Told, Ordered, Governed, SiteOf
  <2>8. \A i \in Invocations : Placed(i)'
    BY <1>2, <2>2 DEF Placed, Attempt, Governed, SiteOf
  <2>9. QED
    BY <2>3, <2>4, <2>5, <2>6, <2>7, <2>8 DEF IInv
<1>13. ASSUME NEW a \in Attempts, UpstreamRuns(a)
       PROVE  IInv'
  <2>1. /\ ~Governed(a) /\ Audited!Permitted(a) /\ effects' = effects \cup {a}
        /\ UNCHANGED <<site, pc, n, asked, reply, outcome, log>>
    BY <1>13 DEF UpstreamRuns, Audited!Take
  <2>2. TypeOK'
    BY <1>2, <2>1 DEF TypeOK
  <2>3. \A b \in Attempts : Asked(b)' /\ Replied(b)' /\ Ordered(b)'
    BY <1>2, <1>5, <2>1 DEF Asked, Replied, Ordered, SiteOf
  <2>4. \A b \in Attempts : Took(b)' /\ Told(b)'
    BY <1>2, <1>5, <2>1 DEF Took, Told, Governed, SiteOf
  <2>5. \A i \in Invocations : Placed(i)'
    BY <1>2, <2>1 DEF Placed, Attempt, Governed, SiteOf
  <2>6. QED
    BY <1>5, <2>1, <2>2, <2>3, <2>4, <2>5 DEF IInv
<1>14. ASSUME NEW a \in Attempts, Answer(a)
       PROVE  IInv'
  <2>1. /\ asked[a] # None /\ reply[a] = None
        /\ UNCHANGED <<site, pc, n, asked, outcome, log, effects>>
    BY <1>14 DEF Answer
  <2>2. PICK r \in IF Governed(a) THEN AuthorizeReplies(a) ELSE ProxyReplies(a) :
               reply' = [reply EXCEPT ![a] = r]
    BY <1>14 DEF Answer
  <2>3. /\ r \in Replies
        /\ r = "allowed" => Audited!Permitted(a)
        /\ r = "refused" => Audited!Judged(a) /\ ~Audited!Permitted(a)
        /\ r = "result" => a \in effects
    BY <2>2 DEF AuthorizeReplies, ProxyReplies, Replies
  <2>4. reply'[a] = r /\ \A b \in Attempts \ {a} : reply'[b] = reply[b]
    BY <1>2, <2>2 DEF TypeOK
  <2>5. TypeOK'
    BY <1>2, <2>1, <2>2, <2>3 DEF TypeOK
  <2>6. \A b \in Attempts : Asked(b)' /\ Replied(b)'
    BY <1>2, <1>5, <2>1, <2>3, <2>4 DEF Asked, Replied, SiteOf
  <2>7. \A b \in Attempts : Took(b)' /\ Ordered(b)'
    BY <1>2, <1>5, <2>1 DEF Took, Ordered, Governed, SiteOf
  <2>8. reply[a] # "foreign" /\ reply[a] # "refused" /\ reply[a] # "allowed"
    BY <2>1, NoneAssumption DEF Replies
  <2>9. \A b \in Attempts : Told(b)'
    BY <1>2, <2>1, <2>4, <2>8 DEF Told, Governed, SiteOf
  <2>10. \A i \in Invocations : Placed(i)'
    <3>1. SUFFICES ASSUME NEW i \in Invocations PROVE Placed(i)'
      OBVIOUS
    <3>2. Attempt(i) \in Attempts /\ Attempt(i)' = Attempt(i)
      BY <1>3, <2>1 DEF Attempt
    <3>3. QED
      BY <1>2, <2>1, <2>4, <2>8, <3>2 DEF Placed, Governed, SiteOf
  <2>11. QED
    BY <1>5, <2>1, <2>5, <2>6, <2>7, <2>9, <2>10 DEF IInv
<1>15. CASE UNCHANGED vars
  <2>1. TypeOK'
    BY <1>2, <1>15 DEF TypeOK, vars
  <2>2. \A a \in Attempts : Asked(a)' /\ Replied(a)' /\ Took(a)' /\ Told(a)' /\ Ordered(a)'
    BY <1>2, <1>5, <1>15 DEF Asked, Replied, Took, Told, Ordered, Governed, SiteOf, vars
  <2>3. \A i \in Invocations : Placed(i)'
    BY <1>2, <1>15 DEF Placed, Attempt, Governed, SiteOf, vars
  <2>4. QED
    BY <1>5, <1>15, <2>1, <2>2, <2>3 DEF IInv, vars
<1>16. QED
  BY <1>1, <1>6, <1>8, <1>9, <1>10, <1>11, <1>12, <1>13, <1>14, <1>15 DEF Next

\* The attempts, responses and the log of every reachable state satisfy IInv.
THEOREM InductiveInvariant == Spec => []IInv
<1>1. Init => IInv
  BY IInvInit
<1>2. IInv /\ [Next]_vars => IInv'
  BY IInvStep
<1>3. QED
  BY <1>1, <1>2, PTL DEF Spec

-----------------------------------------------------------------------------

\* Types, for any program.
THEOREM TypeCorrect == Spec => []TypeOK
<1>1. IInv => TypeOK
  BY DEF IInv
<1>2. QED
  BY <1>1, InductiveInvariant, PTL

LEMMA GuardrailFromIInv == IInv => GuardrailSeesArguments
<1>1. SUFFICES ASSUME IInv, NEW a \in effects, SiteOf(a).args = "over"
               PROVE  SiteOf(a).style \in {"extra", "wrapped"}
  BY DEF GuardrailSeesArguments
<1>2. a \in Attempts /\ SiteOf(a) \in Sites /\ SiteOf(a) \in Site
  BY <1>1, AttemptIsPair, SitesAssumption DEF IInv, TypeOK, SiteOf
<1>3. Audited!Permitted(a) /\ Audited!Judged(a)
  BY <1>1, <1>2, PermittedIsJudged DEF IInv, Took
<1>4. asked[a] \in Bind(SiteOf(a)) /\ asked[a] # "over"
  BY <1>1, <1>2, <1>3 DEF IInv, Asked
<1>5. SiteOf(a).style # "mismatched"
  <2>1. CASE Governed(a)
    BY <1>1, <1>2, <2>1 DEF IInv, Took
  <2>2. CASE ~Governed(a)
    BY <1>2, <2>2, SitesAssumption DEF Governed, Site
  <2>3. QED
    BY <2>1, <2>2
<1>6. QED
  BY <1>1, <1>2, <1>4, <1>5 DEF Bind, Site

\* A threshold rule on a named parameter holds in every way of writing the
\* call (decorator.py, _bind).
THEOREM GuardrailHolds == Spec => []GuardrailSeesArguments
BY InductiveInvariant, GuardrailFromIInv, PTL

LEMMA AnswersFromIInv == IInv => AnswersMatchEffects
<1>1. SUFFICES ASSUME IInv, NEW a \in Attempts
               PROVE  /\ outcome[a] = "denied" =>
                           a \notin effects /\ Audited!Judged(a) /\ ~Audited!Permitted(a)
                      /\ Governed(a) /\ outcome[a] \in {"gateway_error", "unreadable", "type_error"} =>
                           a \notin effects
                      /\ outcome[a] = "returned" =>
                           a \in effects \/ (~Governed(a) /\ reply[a] = "foreign")
  BY DEF AnswersMatchEffects
<1>2. Replied(a) /\ Took(a) /\ Told(a)
  BY <1>1 DEF IInv
<1>3. QED
  BY <1>2 DEF Replied, Took, Told

\* A denial, an error and a result of the SDK each mean what they say.
THEOREM AnswersHold == Spec => []AnswersMatchEffects
BY InductiveInvariant, AnswersFromIInv, PTL

LEMMA OnceFromIInv == IInv => RunsAtMostOnce
<1>1. SUFFICES ASSUME IInv, NEW a \in effects, NEW b \in effects, a[1] = b[1], Governed(a)
               PROVE  a = b
  BY DEF RunsAtMostOnce
<1>2. a \in Attempts /\ b \in Attempts /\ Governed(b)
  BY <1>1 DEF IInv, TypeOK, Governed, SiteOf
<1>3. ASSUME NEW c \in {a, b} PROVE c[2] = n[c[1]]
  <2>1. outcome[c] \in {"returned", "raised"} /\ Ordered(c)
    BY <1>1, <1>2 DEF IInv, Took
  <2>2. c[2] \in Nat /\ n[c[1]] \in Nat
    BY <1>1, <1>2, AttemptIsPair, AttemptsAssumption DEF IInv, TypeOK
  <2>3. QED
    BY <2>1, <2>2, NoneAssumption DEF Ordered, Outcomes
<1>4. QED
  BY <1>1, <1>2, <1>3, AttemptIsPair

\* It is safe to try a wrapped function again after an error of the SDK.
THEOREM RetriesAreSafe == Spec => []RunsAtMostOnce
BY InductiveInvariant, OnceFromIInv, PTL

LEMMA StepIsAudited == IInv /\ [Next]_vars => [Audited!Next]_Audited!vars
<1>1. SUFFICES ASSUME IInv, [Next]_vars PROVE [Audited!Next]_Audited!vars
  OBVIOUS
<1>2. ASSUME NEW a \in Attempts, Judge(a) PROVE Audited!Next
  BY <1>2 DEF Judge, Audited!Next
<1>3. ASSUME NEW a \in Attempts, UpstreamRuns(a) PROVE Audited!Next
  BY <1>3 DEF UpstreamRuns, Audited!Next
<1>4. ASSUME NEW i \in Invocations, Run(i) PROVE [Audited!Next]_Audited!vars
  <2>1. CASE UNCHANGED effects
    BY <1>4, <2>1 DEF Run, Audited!vars
  <2>2. CASE effects' = effects \cup {Attempt(i)}
    <3>1. Attempt(i) \in Attempts
      BY <1>1, CurrentAttempt DEF IInv
    <3>2. Audited!Permitted(Attempt(i))
      BY <1>1, <1>4, <3>1 DEF Run, IInv, Placed, Replied
    <3>3. Audited!Take(Attempt(i))
      BY <1>4, <2>2, <3>2 DEF Run, Audited!Take
    <3>4. QED
      BY <3>1, <3>3 DEF Audited!Next
  <2>3. QED
    BY <1>4, <2>1, <2>2 DEF Run
<1>5. ASSUME UNCHANGED <<log, effects>> PROVE [Audited!Next]_Audited!vars
  BY <1>5 DEF Audited!vars
<1>6. CASE UNCHANGED vars
  BY <1>5, <1>6 DEF vars
<1>7. ASSUME NEW i \in Invocations, Post(i) \/ Receive(i) \/ GiveUp(i) \/ Retry(i)
      PROVE  UNCHANGED <<log, effects>>
  BY <1>7 DEF Post, Receive, GiveUp, Retry
<1>8. ASSUME NEW a \in Attempts, Answer(a) PROVE UNCHANGED <<log, effects>>
  BY <1>8 DEF Answer
<1>9. QED
  BY <1>1, <1>2, <1>3, <1>4, <1>5, <1>6, <1>7, <1>8 DEF Next

\* Through the SDK, the gateway's write-ahead promise reaches the functions of
\* the agent's own process.
THEOREM SdkIsAudited == Spec => ImplementsAudited
<1>1. Init => Audited!Init
  BY DEF Init
<1>2. QED
  BY <1>1, StepIsAudited, InductiveInvariant, PTL DEF Spec, ImplementsAudited, Audited!Spec

=============================================================================

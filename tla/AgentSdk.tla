------------------------------ MODULE AgentSdk ------------------------------
(***************************************************************************)
(* sdk/: an agent program and the gateway, over HTTP. The program invokes  *)
(* either its own function wrapped by @governed, which asks the authorize  *)
(* route and runs the body itself, or a tool of an MCP server through      *)
(* call_tool, which the gateway forwards. The client gives up after its    *)
(* timeout; the request it sent may still be judged, and a forwarded call  *)
(* may still run. What the gateway does with a request is taken from its   *)
(* abstract specification, AuditedExecution; what it answers, from its     *)
(* routes.                                                                 *)
(***************************************************************************)
EXTENDS Naturals, Sequences

CONSTANTS
  Invocations,   \* call sites the program executes
  MaxAttempts,   \* bound on how often the caller tries one invocation again
  Sites,         \* the kinds of call site there may be
  None

ASSUME AttemptsAssumption == MaxAttempts \in Nat \ {0}

\* args = "over" are arguments a threshold rule of the policy refuses, as in
\* McpAuthz. A "mismatched" call is one the function's signature rejects; an
\* "extra" one passes the limited value through the function's ** parameter; a
\* "wrapped" one calls a function that an inner decorator gave other parameters
\* than the __wrapped__ function whose signature inspect.signature reports.
Site ==
  [shape: {"governed", "proxied"},
   style: {"positional", "keyword", "mismatched", "extra", "wrapped"},
   args: {"within", "over"}]

\* A proxied tool is a function of keyword arguments only (_proxy_callable).
ASSUME SitesAssumption ==
  /\ Sites \subseteq Site
  /\ \A s \in Sites : s.shape = "proxied" => s.style = "keyword"

Attempts == Invocations \X (1 .. MaxAttempts)

Replies == {"allowed", "refused", "result", "error", "unauthorized",
            "server_error", "foreign"}

Outcomes == {"denied", "gateway_error", "tool_failed", "unreadable",
             "type_error", "raised", "returned"}

ASSUME NoneAssumption == None \notin Replies \cup Outcomes \cup {"within", "over"}

VARIABLES
  site,      \* the call site of each invocation
  pc,        \* where the program stands in each invocation
  n,         \* its current attempt
  asked,     \* per attempt, the arguments sent for evaluation
  reply,     \* per attempt, the response the gateway sent
  outcome,   \* per attempt, what the caller of the SDK saw
  log,       \* the gateway's verdicts
  effects    \* attempts that took effect: a function body or a tool ran

vars == <<site, pc, n, asked, reply, outcome, log, effects>>

Audited == INSTANCE AuditedExecution WITH Calls <- Attempts

Attempt(i) == <<i, n[i]>>
SiteOf(a) == site[a[1]]
Governed(a) == SiteOf(a).shape = "governed"

TypeOK ==
  /\ site \in [Invocations -> Sites]
  /\ pc \in [Invocations -> {"idle", "posted", "cleared", "done"}]
  /\ n \in [Invocations -> 1 .. MaxAttempts]
  /\ asked \in [Attempts -> {"within", "over", None}]
  /\ reply \in [Attempts -> Replies \cup {None}]
  /\ outcome \in [Attempts -> Outcomes \cup {None}]
  /\ log \in Seq(Audited!Verdict)
  /\ effects \subseteq Attempts

Init ==
  /\ site \in [Invocations -> Sites]
  /\ pc = [i \in Invocations |-> "idle"]
  /\ n = [i \in Invocations |-> 1]
  /\ asked = [a \in Attempts |-> None]
  /\ reply = [a \in Attempts |-> None]
  /\ outcome = [a \in Attempts |-> None]
  /\ Audited!Init

-----------------------------------------------------------------------------
(* The client.                                                             *)

\* Mutant of Bind: only the keyword arguments are sent.
BindKeywords(s) == IF s.style = "keyword" THEN {s.args} ELSE {"within"}

\* _bind: the arguments the policy gets to see under their own names. Of a
\* call that does not match the signature the keyword arguments remain, which
\* may or may not hold the limited one (such a call still runs if the function
\* is "wrapped"); what a ** parameter collects is nested under that parameter's
\* name, where no rule looks.
Bind(s) ==
  CASE s.style \in {"mismatched", "wrapped"} -> {s.args, "within"}
    [] s.style = "extra"                     -> {"within"}
    [] OTHER                                 -> {s.args}

\* authorize() or call_tool(): the request is posted.
Post(i) ==
  /\ pc[i] = "idle"
  /\ \E seen \in Bind(site[i]) :
       asked' = [asked EXCEPT ![Attempt(i)] = seen]
  /\ pc' = [pc EXCEPT ![i] = "posted"]
  /\ UNCHANGED <<site, n, reply, outcome, log, effects>>

Finish(i, o) ==
  /\ pc' = [pc EXCEPT ![i] = "done"]
  /\ outcome' = [outcome EXCEPT ![Attempt(i)] = o]

\* Mutant of ParseAuthorization: an error status is taken for a denial.
ParseErrorsAsDenials(r) ==
  CASE r = "allowed" -> {"cleared"}
    [] r = "foreign" -> {"denied", "unreadable"}
    [] OTHER         -> {"denied"}

\* Mutant of ParseAuthorization: what cannot be read does not block the agent.
ParseFailingOpen(r) ==
  CASE r = "refused" -> {"denied"}
    [] r = "foreign" -> {"cleared", "gateway_error"}
    [] r = "allowed" -> {"cleared"}
    [] OTHER         -> {"gateway_error"}

\* _parse_authorization, and the wrapper's look at result.allowed. A foreign
\* response (of some server in between) has any status and no fields.
ParseAuthorization(r) ==
  CASE r = "allowed" -> {"cleared"}
    [] r = "refused" -> {"denied"}
    [] r = "foreign" -> {"gateway_error", "unreadable"}
    [] OTHER         -> {"gateway_error"}

\* _parse_rpc looks at the status only for 401. A text body raises ValueError;
\* a JSON body without "error" is a result, None if it has none.
ParseRpc(r) ==
  CASE r = "result"       -> {"returned"}
    [] r = "error"        -> {"tool_failed"}
    [] r = "unauthorized" -> {"gateway_error"}
    [] r = "foreign"      -> {"unreadable", "returned"}
    [] OTHER              -> {"unreadable"}

\* The response is read. A permitted function is about to run.
Receive(i) ==
  LET a == Attempt(i) IN
  /\ pc[i] = "posted"
  /\ reply[a] # None
  /\ \/ /\ Governed(a)
        /\ "cleared" \in ParseAuthorization(reply[a])
        /\ pc' = [pc EXCEPT ![i] = "cleared"]
        /\ UNCHANGED outcome
     \/ \E o \in (IF Governed(a) THEN ParseAuthorization(reply[a])
                                 ELSE ParseRpc(reply[a])) \ {"cleared"} :
          Finish(i, o)
  /\ UNCHANGED <<site, n, asked, reply, log, effects>>

\* httpx.HTTPError: the gateway cannot be reached, or the timeout passed. The
\* request may have arrived.
GiveUp(i) ==
  /\ pc[i] = "posted"
  /\ Finish(i, "gateway_error")
  /\ UNCHANGED <<site, n, asked, reply, log, effects>>

\* Mutant of Run: the body ran, then something after it failed and the caller
\* is told of a gateway error.
RunThenFail(i) ==
  /\ pc[i] = "cleared"
  /\ effects' = effects \cup {Attempt(i)}
  /\ Finish(i, "gateway_error")
  /\ UNCHANGED <<site, n, asked, reply, log>>

\* func(*args, **kwargs), with the arguments as the caller gave them. What the
\* body raises is its own, a GatewayError of a governed call inside it included.
Run(i) ==
  /\ pc[i] = "cleared"
  /\ \/ /\ site[i].style = "mismatched"
        /\ Finish(i, "type_error")
        /\ UNCHANGED effects
     \/ /\ site[i].style # "mismatched"
        /\ effects' = effects \cup {Attempt(i)}
        /\ \E o \in {"returned", "raised"} : Finish(i, o)
  /\ UNCHANGED <<site, n, asked, reply, log>>

\* The caller tries again what ended in an error of the transport. A denial is
\* an answer, which the caller hands to its user or its model.
Retry(i) ==
  /\ pc[i] = "done"
  /\ n[i] < MaxAttempts
  /\ outcome[Attempt(i)] \in {"gateway_error", "unreadable"}
  /\ n' = [n EXCEPT ![i] = @ + 1]
  /\ pc' = [pc EXCEPT ![i] = "idle"]
  /\ UNCHANGED <<site, asked, reply, outcome, log, effects>>

-----------------------------------------------------------------------------
(* The gateway. A request that was posted may be served at any later time, *)
(* whether or not the client still waits.                                  *)

\* The verdict of a gateway in enforce mode: a threshold rule refuses what it
\* sees to be over; anything else depends on the registry, the policy and the
\* subject.
Judge(a) ==
  /\ asked[a] # None
  /\ reply[a] = None
  /\ \E p \in IF asked[a] = "over" THEN {FALSE} ELSE BOOLEAN : Audited!Judge(a, p)
  /\ UNCHANGED <<site, pc, n, asked, reply, outcome>>

\* An upstream server runs a forwarded call; nothing is forwarded for the
\* authorize route.
UpstreamRuns(a) ==
  /\ ~Governed(a)
  /\ a \notin effects
  /\ Audited!Take(a)
  /\ UNCHANGED <<site, pc, n, asked, reply, outcome>>

\* The authorize route's answers.
AuthorizeReplies(a) ==
  (IF Audited!Permitted(a) THEN {"allowed"}
   ELSE IF Audited!Judged(a) THEN {"refused"} ELSE {"unauthorized"})
    \cup {"server_error", "foreign"}

\* The proxy route's answers: a permitted call may still fail at the broker or
\* upstream (an error) or for want of the sponsor's token (401).
ProxyReplies(a) ==
  (IF Audited!Permitted(a)
     THEN {"error", "unauthorized"} \cup (IF a \in effects THEN {"result"} ELSE {})
   ELSE IF Audited!Judged(a) THEN {"error"} ELSE {"unauthorized"})
    \cup {"server_error", "foreign"}

Answer(a) ==
  /\ asked[a] # None
  /\ reply[a] = None
  /\ \E r \in IF Governed(a) THEN AuthorizeReplies(a) ELSE ProxyReplies(a) :
       reply' = [reply EXCEPT ![a] = r]
  /\ UNCHANGED <<site, pc, n, asked, outcome, log, effects>>

-----------------------------------------------------------------------------

Next ==
  \/ \E i \in Invocations :
       Post(i) \/ Receive(i) \/ GiveUp(i) \/ Run(i) \/ Retry(i)
  \/ \E a \in Attempts : Judge(a) \/ UpstreamRuns(a) \/ Answer(a)

Spec == Init /\ [][Next]_vars

-----------------------------------------------------------------------------
(* Properties.                                                             *)

\* With the SDK at the other end the gateway's promise reaches the agent's own
\* functions: an attempt takes effect, be it a function body in the agent's
\* process or a tool upstream, only after its own verdict permits it, whatever
\* responses are lost, late, foreign or of an earlier attempt.
ImplementsAudited == Audited!Spec

\* A threshold rule on a parameter holds however the call is written: nothing
\* takes effect with arguments over the limit. (Not of a limited value that
\* travels in a ** parameter, or to a function that hides its own signature: the
\* rule need not see those.)
GuardrailSeesArguments ==
  \A a \in effects :
    SiteOf(a).args = "over" => SiteOf(a).style \in {"extra", "wrapped"}

\* What the caller is told is true of the attempt, now and later: a denial
\* stands for a recorded refusal and never comes with an effect; no error of
\* the SDK's own request hides that the wrapped function ran, so retrying is safe;
\* a governed call that returned did run, and a proxied one ran unless the
\* response was some other server's.
AnswersMatchEffects ==
  \A a \in Attempts :
    /\ outcome[a] = "denied" =>
         a \notin effects /\ Audited!Judged(a) /\ ~Audited!Permitted(a)
    /\ Governed(a) /\ outcome[a] \in {"gateway_error", "unreadable", "type_error"} =>
         a \notin effects
    /\ outcome[a] = "returned" =>
         a \in effects \/ (~Governed(a) /\ reply[a] = "foreign")

\* Retrying after an error runs a wrapped function at most once in all. (A
\* proxied tool may run once per attempt.)
RunsAtMostOnce ==
  \A a, b \in effects : a[1] = b[1] /\ Governed(a) => a = b
=============================================================================

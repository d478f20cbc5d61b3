--------------------------- MODULE RoutingUpstream ---------------------------
(***************************************************************************)
(* adapters/mcp_upstream/routing.py: RoutingMCPUpstream, which puts one    *)
(* gateway in front of several MCP servers, under concurrent requests.     *)
(*                                                                         *)
(* A tools/list fans out to every upstream and rebuilds the route table.   *)
(* A tools/call uses the table while it is fresh and knows the tool;       *)
(* otherwise it takes the lock, looks again and fans out itself. Listings  *)
(* take no lock, so fan-outs overlap and may end in any order.             *)
(***************************************************************************)
EXTENDS Naturals, FiniteSetsExt

CONSTANTS
  N,            \* number of upstreams, numbered in configured order
  Tools,        \* tool names
  Offers,       \* the catalogues each upstream may have
  Faults,       \* what else each upstream may answer: Down, Odd
  Requests,     \* coroutines in forward(), each used again and again
  None,         \* no request holds the lock
  Down,         \* the upstream fails or times out
  Odd,          \* it answers with JSON that is no object
  Pending,      \* it has not answered yet
  TTL           \* ticks a route table stays fresh

Upstreams == 1..N
NoRoute == 0

ASSUME UpstreamsAssumption == N \in Nat \ {0}
ASSUME OffersAssumption == Offers \in [Upstreams -> SUBSET SUBSET Tools]
ASSUME FaultsAssumption == Faults \in [Upstreams -> SUBSET {Down, Odd}]
ASSUME TTLAssumption == TTL \in Nat \ {0}
ASSUME AbsentAssumption ==
  /\ None \notin Requests
  /\ Down # Pending /\ Odd \notin {Down, Pending}
  /\ \A catalogue \in SUBSET Tools : catalogue \notin {Down, Odd, Pending}
  /\ "list" \notin Tools

VARIABLES
  serves,       \* what each upstream would answer now: its tools, Down or Odd
  routes,       \* self._routes
  left,         \* ticks until self._routes_expire_at, 0 once it has passed
  lock,         \* the request that holds self._lock, or None
  pc,           \* where each request stands
  wants,        \* "list", or the tool it calls
  heard,        \* the answers its fan-out has gathered so far
  target,       \* the upstream its call goes to
  slips         \* history: <<u, t>> if u once answered a fan-out without t

table == <<routes, left>>
vars == <<serves, routes, left, lock, pc, wants, heard, target, slips>>

Places == {"idle", "waiting", "fanout", "forward", "unknown"}
Silence == [u \in Upstreams |-> Pending]

TypeOK ==
  /\ serves \in [Upstreams -> {Down, Odd} \cup SUBSET Tools]
  /\ routes \in [Tools -> Upstreams \cup {NoRoute}]
  /\ left \in 0..TTL
  /\ lock \in Requests \cup {None}
  /\ pc \in [Requests -> Places]
  /\ wants \in [Requests -> Tools \cup {"list"}]
  /\ heard \in [Requests -> [Upstreams -> {Down, Odd, Pending} \cup SUBSET Tools]]
  /\ target \in [Requests -> Upstreams \cup {NoRoute}]
  /\ slips \subseteq Upstreams \X Tools

\* The table starts empty and expired.
Init ==
  /\ serves \in {s \in [Upstreams -> UNION {Offers[u] : u \in Upstreams}] :
                   \A u \in Upstreams : s[u] \in Offers[u]}
  /\ routes = [t \in Tools |-> NoRoute]
  /\ left = 0
  /\ lock = None
  /\ pc = [c \in Requests |-> "idle"]
  /\ wants = [c \in Requests |-> "list"]
  /\ heard = [c \in Requests |-> Silence]
  /\ target = [c \in Requests |-> NoRoute]
  /\ slips = {}

-----------------------------------------------------------------------------

Goto(c, place) == pc' = [pc EXCEPT ![c] = place]
Aim(c, u) == target' = [target EXCEPT ![c] = u]
Calls(c) == wants[c] \in Tools

\* The table is fresh and knows the tool.
Routed(t) == left > 0 /\ routes[t] # NoRoute

List(c) ==
  /\ pc[c] \in {"idle", "unknown"}
  /\ wants' = [wants EXCEPT ![c] = "list"]
  /\ heard' = [heard EXCEPT ![c] = Silence]
  /\ Goto(c, "fanout")
  /\ UNCHANGED <<serves, table, lock, target, slips>>

\* _call, and _route_for up to the lock.
Call(c) ==
  /\ pc[c] \in {"idle", "unknown"}
  /\ \E t \in Tools :
       /\ wants' = [wants EXCEPT ![c] = t]
       /\ \/ Routed(t) /\ Aim(c, routes[t]) /\ Goto(c, "forward")
          \/ ~Routed(t) /\ Goto(c, "waiting") /\ UNCHANGED target
  /\ heard' = [heard EXCEPT ![c] = Silence]
  /\ UNCHANGED <<serves, table, lock, slips>>

\* Mutant of Acquire: the second look at the table is left out.
AcquireBlindly(c) ==
  /\ pc[c] = "waiting"
  /\ lock = None
  /\ lock' = c
  /\ Goto(c, "fanout")
  /\ UNCHANGED <<serves, table, wants, heard, target, slips>>

\* The lock is free: another request may have refreshed the table meanwhile.
Acquire(c) ==
  /\ pc[c] = "waiting"
  /\ lock = None
  /\ \/ /\ Routed(wants[c])
        /\ Aim(c, routes[wants[c]]) /\ Goto(c, "forward") /\ UNCHANGED lock
     \/ /\ ~Routed(wants[c])
        /\ lock' = c /\ Goto(c, "fanout") /\ UNCHANGED target
  /\ UNCHANGED <<serves, table, wants, heard, slips>>

\* One upstream answers the fan-out's tools/list, or fails to.
Hear(c, u) ==
  /\ pc[c] = "fanout"
  /\ heard[c][u] = Pending
  /\ heard' = [heard EXCEPT ![c][u] = serves[u]]
  /\ slips' = slips \cup
       {<<u, t>> : t \in IF serves[u] \in {Down, Odd} THEN Tools ELSE Tools \ serves[u]}
  /\ UNCHANGED <<serves, table, lock, pc, wants, target>>

Advertisers(answers, t) ==
  {u \in Upstreams : answers[u] \notin {Down, Odd, Pending} /\ t \in answers[u]}

\* Mutant of Merged: the last upstream that advertises a tool wins.
MergedLastWins(answers) ==
  [t \in Tools |->
     IF Advertisers(answers, t) = {} THEN NoRoute ELSE Max(Advertisers(answers, t))]

\* The first upstream in configured order that advertises a tool gets it. An
\* object that is no listing has no tools in it: an empty catalogue.
Merged(answers) ==
  [t \in Tools |->
     IF Advertisers(answers, t) = {} THEN NoRoute ELSE Min(Advertisers(answers, t))]

Heard(c) == pc[c] = "fanout" /\ \A u \in Upstreams : heard[c][u] # Pending
AllDown(c) == \A u \in Upstreams : heard[c][u] = Down
Misread(c) == \E u \in Upstreams : heard[c][u] = Odd
Merges(c) == Heard(c) /\ ~AllDown(c) /\ ~Misread(c)
Unlock(c) == lock' = IF lock = c THEN None ELSE lock

\* Mutant of Install: what is already in the table stays there.
InstallOver(c) ==
  /\ routes' = [t \in Tools |-> IF Merged(heard[c])[t] = NoRoute
                                  THEN routes[t] ELSE Merged(heard[c])[t]]
  /\ left' = TTL

\* The table is replaced, and fresh again.
Install(c) == routes' = Merged(heard[c]) /\ left' = TTL

\* The fan-out of a listing is complete: the merged listing is the answer.
Listed(c) ==
  /\ Merges(c) /\ ~Calls(c)
  /\ Install(c)
  /\ Goto(c, "idle")
  /\ heard' = [heard EXCEPT ![c] = Silence]
  /\ UNCHANGED <<serves, lock, wants, target, slips>>

\* The fan-out of a call is complete: the call goes to the upstream found, or
\* fails because nobody advertises its tool.
Refreshed(c) ==
  /\ Merges(c) /\ Calls(c)
  /\ Install(c)
  /\ Unlock(c)
  /\ \/ /\ Merged(heard[c])[wants[c]] # NoRoute
        /\ Aim(c, Merged(heard[c])[wants[c]]) /\ Goto(c, "forward")
        /\ heard' = [heard EXCEPT ![c] = Silence]
     \/ /\ Merged(heard[c])[wants[c]] = NoRoute
        /\ Goto(c, "unknown") /\ UNCHANGED <<target, heard>>
  /\ UNCHANGED <<serves, wants, slips>>

\* Mutant of AllFailed: the lock is released by hand, and not on this path.
AllFailedLocked(c) ==
  /\ Heard(c) /\ (AllDown(c) \/ Misread(c))
  /\ Goto(c, "idle")
  /\ heard' = [heard EXCEPT ![c] = Silence]
  /\ UNCHANGED <<serves, table, lock, wants, target, slips>>

\* Every upstream failed, or one of them answered with JSON that is no object, so
\* that _tools_of raises AttributeError: the table stays as it was, and the
\* exception leaves through the lock.
AllFailed(c) ==
  /\ Heard(c) /\ (AllDown(c) \/ Misread(c))
  /\ Unlock(c)
  /\ Goto(c, "idle")
  /\ heard' = [heard EXCEPT ![c] = Silence]
  /\ UNCHANGED <<serves, table, wants, target, slips>>

\* The upstream answers the call, or fails to.
Deliver(c) ==
  /\ pc[c] = "forward"
  /\ Goto(c, "idle")
  /\ Aim(c, NoRoute)
  /\ UNCHANGED <<serves, table, lock, wants, heard, slips>>

-----------------------------------------------------------------------------
(* The environment.                                                        *)

\* An upstream changes its catalogue, goes down, errs or comes back.
Change(u) ==
  /\ \E s \in (Offers[u] \cup Faults[u]) \ {serves[u]} :
       serves' = [serves EXCEPT ![u] = s]
  /\ UNCHANGED <<table, lock, pc, wants, heard, target, slips>>

Tick ==
  /\ left > 0
  /\ left' = left - 1
  /\ UNCHANGED <<serves, routes, lock, pc, wants, heard, target, slips>>

Continue(c) ==
  \/ \E u \in Upstreams : Hear(c, u)
  \/ Listed(c) \/ Refreshed(c) \/ AllFailed(c) \/ Deliver(c)

Next ==
  \/ \E c \in Requests : List(c) \/ Call(c) \/ Acquire(c) \/ Continue(c)
  \/ \E u \in Upstreams : Change(u)
  \/ Tick

\* Assumed: every upstream answers or fails in the end. The raw client gives up
\* after 10 s without a byte; a streamable session that keeps its stream open and
\* never answers holds its fan-out, and the lock with it (README, section 6).
\* Time passes, and asyncio.Lock wakes its waiters in the order they came.
Fairness ==
  /\ WF_vars(Tick)
  /\ \A c \in Requests : WF_vars(Continue(c)) /\ SF_vars(Acquire(c))

Spec == Init /\ [][Next]_vars /\ Fairness

-----------------------------------------------------------------------------

\* ADR-0016: name collisions resolve to the first upstream in configured order
\* that advertises the tool. However listings and calls overlap, a call goes
\* only to an upstream that did advertise its tool, and never past an earlier
\* one that has answered every fan-out and advertised the tool each time.
AuthorityHonoured ==
  \A c \in Requests : pc[c] = "forward" =>
    /\ \E offer \in Offers[target[c]] : wants[c] \in offer
    /\ \A u \in 1..(target[c] - 1) : <<u, wants[c]>> \in slips

CallFanout(c) == pc[c] = "fanout" /\ Calls(c)

\* A burst of calls costs one fan-out: no call fans out while another one does,
\* nor when the table has come to know its tool while it waited for the lock.
FanoutsCoalesce ==
  [][\A c \in Requests : ~CallFanout(c) /\ CallFanout(c)' =>
       /\ ~Routed(wants'[c])
       /\ \A d \in Requests : ~CallFanout(d)]_vars

\* As long as upstreams answer or fail, every request ends: nobody waits for ever
\* for the lock, whatever happened to the fan-out of the request that held it.
EveryRequestEnds ==
  \A c \in Requests : pc[c] = "waiting" ~> pc[c] \in {"idle", "unknown"}

\* Once the upstreams stop changing, the table either expires or is the one
\* they imply: no fan-out that ends late brings an old route back for good.
TableConverges ==
  <>[][FALSE]_serves => <>[](left = 0 \/ routes = Merged(serves))

-----------------------------------------------------------------------------
(* The inductive invariant of AuthorityHonoured.                           *)

\* Where a tool may be sent: some catalogue of the upstream has it, and every
\* upstream before it slipped once.
Entitled(u, t) ==
  /\ \E offer \in Offers[u] : t \in offer
  /\ \A v \in 1..(u - 1) : <<v, t>> \in slips

ServesInv == \A u \in Upstreams : serves[u] \in Offers[u] \cup Faults[u]

TableInv == \A t \in Tools : routes[t] # NoRoute => Entitled(routes[t], t)

\* What a fan-out has heard is a catalogue, and what it lacks is on record.
HeardInv ==
  \A c \in Requests, u \in Upstreams :
    /\ heard[c][u] \in {Pending} \cup Offers[u] \cup Faults[u]
    /\ heard[c][u] \in {Down, Odd} => \A t \in Tools : <<u, t>> \in slips
    /\ heard[c][u] \notin {Down, Odd, Pending} =>
         \A t \in Tools \ heard[c][u] : <<u, t>> \in slips

RequestInv ==
  \A c \in Requests :
    /\ pc[c] \in {"waiting", "forward", "unknown"} => wants[c] \in Tools
    /\ pc[c] = "forward" => target[c] # NoRoute
    /\ CallFanout(c) => lock = c

IInv ==
  /\ TypeOK /\ AuthorityHonoured
  /\ ServesInv /\ TableInv /\ HeardInv /\ RequestInv

-----------------------------------------------------------------------------
(* The safety halves of EveryRequestEnds and TableConverges.               *)

\* Whoever holds the lock is a call that is fanning out, so that its fan-out's
\* end, however it ends, releases the lock: it is never orphaned.
LockIsACallers == \A c \in Requests : lock = c => CallFanout(c)

\* Every answer under way is what its upstream says now, and so is a table that
\* has not expired.
Settled ==
  /\ \A c \in Requests, u \in Upstreams : heard[c][u] \in {Pending, serves[u]}
  /\ left = 0 \/ routes = Merged(serves)

\* Nothing but a change of an upstream unsettles the table: no fan-out that ends
\* late, and no overlap of listings and calls, brings an old route back.
SettledStays == [][Settled /\ UNCHANGED serves => Settled']_vars

=============================================================================

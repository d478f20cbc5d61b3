----------------------- MODULE RoutingUpstream_proofs -----------------------
(***************************************************************************)
(* Proofs about RoutingUpstream, for any number of upstreams, tools and    *)
(* concurrent requests.                                                    *)
(***************************************************************************)
EXTENDS RoutingUpstream, FiniteSetTheorems, TLAPS

\* A set of numbers has a least one: the smallest of the intervals 0..k that
\* end in it, which are finite sets under the well-founded strict inclusion.
LEMMA MinIsFirst ==
  ASSUME NEW S, S \subseteq Nat, S # {}
  PROVE  Min(S) \in S /\ \A u \in S : Min(S) <= u
<1> DEFINE Prefixes == {0..k : k \in S}
<1>1. Prefixes \subseteq FiniteSubsetsOf(Nat)
  <2>1. SUFFICES ASSUME NEW k \in S PROVE 0..k \in SUBSET Nat /\ IsFiniteSet(0..k)
    BY DEF FiniteSubsetsOf
  <2>2. IsFiniteSet(0..k)
    BY FS_Interval
  <2>3. QED
    BY <2>2
<1>2. Prefixes # {}
  OBVIOUS
<1>3. PICK p \in Prefixes : \A q \in Prefixes : <<q, p>> \notin StrictSubsetOrdering(Nat)
  <2> HIDE DEF Prefixes
  <2>1. QED
    BY <1>1, <1>2, FS_StrictSubsetOrderingWellFounded, WFMin
<1>4. PICK k \in S : p = 0..k
  OBVIOUS
<1>5. ASSUME NEW u \in S, ~(k <= u) PROVE FALSE
  <2>1. 0..u \subseteq 0..k /\ 0..u # 0..k
    <3>1. u < k /\ k \in 0..k /\ k \notin 0..u
      BY <1>5
    <3>2. QED
      BY <3>1
  <2>2. <<0..u, 0..k>> \in StrictSubsetOrdering(Nat)
    BY <2>1 DEF StrictSubsetOrdering
  <2>3. QED
    BY <1>3, <1>4, <2>2
<1>6. QED
  BY <1>5 DEF Min

\* A merged table sends a tool to an upstream that advertises it, and past none
\* that advertises it before.
LEMMA MergedRoutes ==
  ASSUME NEW answers, NEW t \in Tools
  PROVE  LET m == Merged(answers)[t]
         IN  /\ m \in Upstreams \cup {NoRoute}
             /\ m # NoRoute => /\ m \in Advertisers(answers, t)
                              /\ \A v \in 1..(m - 1) : v \in Upstreams \ Advertisers(answers, t)
<1> DEFINE A == Advertisers(answers, t)
<1> USE UpstreamsAssumption
<1>1. A \subseteq Upstreams /\ A \subseteq Nat /\ NoRoute \notin Upstreams
  BY DEF Advertisers, Upstreams, NoRoute
<1>2. Merged(answers)[t] = IF A = {} THEN NoRoute ELSE Min(A)
  BY DEF Merged
<1>3. CASE A = {}
  BY <1>2, <1>3
<1>4. CASE A # {}
  <2>1. Min(A) \in A /\ \A u \in A : Min(A) <= u
    <3> HIDE DEF A
    <3>1. QED
      BY <1>1, <1>4, MinIsFirst
  <2>2. ASSUME NEW v \in 1..(Min(A) - 1) PROVE v \in Upstreams \ A
    <3> HIDE DEF A
    <3>1. Min(A) \in 1..N
      BY <1>1, <2>1 DEF Upstreams
    <3>2. v \in 1..N /\ ~(Min(A) <= v)
      BY <3>1
    <3>3. QED
      BY <2>1, <3>2 DEF Upstreams
  <2>3. QED
    BY <1>1, <1>2, <1>4, <2>1, <2>2
<1>5. QED
  BY <1>3, <1>4

\* What a complete fan-out has heard makes a table that satisfies TableInv.
LEMMA MergedIsEntitled ==
  ASSUME TypeOK, HeardInv, NEW c \in Requests, Heard(c)
  PROVE  /\ Merged(heard[c]) \in [Tools -> Upstreams \cup {NoRoute}]
         /\ \A t \in Tools : Merged(heard[c])[t] # NoRoute => Entitled(Merged(heard[c])[t], t)
<1>1. Merged(heard[c]) \in [Tools -> Upstreams \cup {NoRoute}]
  <2>1. \A t \in Tools : Merged(heard[c])[t] \in Upstreams \cup {NoRoute}
    BY MergedRoutes
  <2>2. Merged(heard[c]) = [t \in Tools |-> Merged(heard[c])[t]]
    BY DEF Merged
  <2>3. QED
    BY <2>1, <2>2
<1>2. ASSUME NEW t \in Tools, Merged(heard[c])[t] # NoRoute
      PROVE  Entitled(Merged(heard[c])[t], t)
  <2> DEFINE m == Merged(heard[c])[t]
  <2>1. /\ m \in Advertisers(heard[c], t)
        /\ \A v \in 1..(m - 1) : v \in Upstreams \ Advertisers(heard[c], t)
    BY <1>2, MergedRoutes
  <2> HIDE DEF m
  <2>2. \E offer \in Offers[m] : t \in offer
    BY <2>1, FaultsAssumption DEF HeardInv, Advertisers
  <2>3. ASSUME NEW v \in 1..(m - 1) PROVE <<v, t>> \in slips
    <3>1. v \in Upstreams /\ v \notin Advertisers(heard[c], t) /\ heard[c][v] # Pending
      BY <2>1 DEF Heard
    <3>2. CASE heard[c][v] \in {Down, Odd}
      BY <3>1, <3>2 DEF HeardInv
    <3>3. CASE heard[c][v] \notin {Down, Odd}
      <4>1. t \in Tools \ heard[c][v]
        BY <3>1, <3>3 DEF Advertisers
      <4>2. QED
        BY <3>1, <3>3, <4>1 DEF HeardInv
    <3>4. QED
      BY <3>2, <3>3
  <2>4. QED
    BY <2>2, <2>3 DEF Entitled, m
<1>3. QED
  BY <1>1, <1>2

\* An empty table, no fan-out and no history satisfy the inductive invariant.
LEMMA IInvInit == Init => IInv
<1> SUFFICES ASSUME Init PROVE IInv
  OBVIOUS
<1> USE UpstreamsAssumption, OffersAssumption, FaultsAssumption, TTLAssumption,
  AbsentAssumption DEF Init
<1>1. ServesInv
  BY DEF ServesInv
<1>2. TypeOK
  <2>1. serves \in [Upstreams -> {Down, Odd} \cup SUBSET Tools]
    BY <1>1 DEF ServesInv
  <2>2. QED
    BY <2>1 DEF TypeOK, Places, Silence
<1>3. HeardInv
  BY DEF HeardInv, Silence
<1>4. AuthorityHonoured /\ TableInv /\ RequestInv
  BY DEF AuthorityHonoured, TableInv, RequestInv, CallFanout
<1>5. QED
  BY <1>1, <1>2, <1>3, <1>4 DEF IInv

\* A fan-out that ends or begins leaves what it heard well typed.
LEMMA SilenceTyped ==
  ASSUME TypeOK, NEW c \in Requests, heard' = [heard EXCEPT ![c] = Silence]
  PROVE  heard' \in [Requests -> [Upstreams -> {Down, Odd, Pending} \cup SUBSET Tools]]
<1>1. Silence \in [Upstreams -> {Down, Odd, Pending} \cup SUBSET Tools]
  BY DEF Silence
<1>2. heard \in [Requests -> [Upstreams -> {Down, Odd, Pending} \cup SUBSET Tools]]
  BY DEF TypeOK
<1>3. QED
  BY <1>1, <1>2

\* A request that moves on, aimed at an upstream or not, is well typed.
LEMMA MoveTyped ==
  ASSUME TypeOK, NEW c \in Requests, NEW place \in Places, Goto(c, place),
         NEW u \in Upstreams \cup {NoRoute}, Aim(c, u) \/ UNCHANGED target
  PROVE  /\ pc' \in [Requests -> Places]
         /\ target' \in [Requests -> Upstreams \cup {NoRoute}]
<1>1. pc' \in [Requests -> Places]
  BY DEF Goto, TypeOK
<1>2. target' \in [Requests -> Upstreams \cup {NoRoute}]
  BY DEF Aim, TypeOK
<1>3. QED
  BY <1>1, <1>2

\* One step per action: a call is aimed only at what the table or a complete
\* fan-out says, and slips only grow.
LEMMA IInvStep == IInv /\ [Next]_vars => IInv'
<1> SUFFICES ASSUME IInv, [Next]_vars PROVE IInv'
  OBVIOUS
<1> USE UpstreamsAssumption, OffersAssumption, FaultsAssumption, TTLAssumption,
  AbsentAssumption
<1> USE DEF IInv
<1> DEFINE Rest == AuthorityHonoured /\ ServesInv /\ TableInv /\ HeardInv /\ RequestInv
<1>1. ASSUME NEW c \in Requests, List(c) PROVE IInv'
  <2>1. TypeOK'
    <3>1. heard' \in [Requests -> [Upstreams -> {Down, Odd, Pending} \cup SUBSET Tools]]
      BY <1>1, SilenceTyped DEF List
    <3>2. pc' \in [Requests -> Places] /\ wants' \in [Requests -> Tools \cup {"list"}]
      BY <1>1 DEF List, Goto, TypeOK, Places
    <3>3. QED
      BY <1>1, <3>1, <3>2 DEF List, TypeOK, table
  <2>2. Rest'
    BY <1>1 DEF TypeOK, List, Goto, table, Silence, AuthorityHonoured, ServesInv,
      TableInv, HeardInv, RequestInv, Entitled, CallFanout, Calls
  <2>3. QED
    BY <2>1, <2>2
<1>2. ASSUME NEW c \in Requests, Call(c) PROVE IInv'
  <2>1. TypeOK'
    <3>1. heard' \in [Requests -> [Upstreams -> {Down, Odd, Pending} \cup SUBSET Tools]]
      BY <1>2, SilenceTyped DEF Call
    <3>2. wants' \in [Requests -> Tools \cup {"list"}]
      BY <1>2 DEF Call, TypeOK
    <3>3. pc' \in [Requests -> Places] /\ target' \in [Requests -> Upstreams \cup {NoRoute}]
      <4>1. PICK t \in Tools :
              \/ Aim(c, routes[t]) /\ Goto(c, "forward")
              \/ Goto(c, "waiting") /\ UNCHANGED target
        BY <1>2 DEF Call
      <4>2. routes[t] \in Upstreams \cup {NoRoute}
        BY DEF TypeOK
      <4>3. QED
        BY <4>1, <4>2, MoveTyped DEF Places
    <3>4. QED
      BY <1>2, <3>1, <3>2, <3>3 DEF Call, TypeOK, table
  <2>2. Rest'
    BY <1>2 DEF TypeOK, Call, Goto, Aim, Routed, table, Silence, AuthorityHonoured,
      ServesInv, TableInv, HeardInv, RequestInv, Entitled, CallFanout, Calls
  <2>3. QED
    BY <2>1, <2>2
<1>3. ASSUME NEW c \in Requests, Acquire(c) PROVE IInv'
  <2>1. TypeOK'
    <3>1. wants[c] \in Tools
      BY <1>3 DEF RequestInv, Acquire
    <3>2. pc' \in [Requests -> Places] /\ target' \in [Requests -> Upstreams \cup {NoRoute}]
      <4>1. \/ Aim(c, routes[wants[c]]) /\ Goto(c, "forward")
            \/ Goto(c, "fanout") /\ UNCHANGED target
        BY <1>3 DEF Acquire
      <4>2. routes[wants[c]] \in Upstreams \cup {NoRoute}
        BY <3>1 DEF TypeOK
      <4>3. QED
        BY <4>1, <4>2, MoveTyped DEF Places
    <3>3. lock' \in Requests \cup {None}
      BY <1>3 DEF Acquire, TypeOK
    <3>4. QED
      BY <1>3, <3>2, <3>3 DEF Acquire, TypeOK, table
  <2>2. Rest'
    BY <1>3 DEF TypeOK, Acquire, Goto, Aim, Routed, table, AuthorityHonoured,
      ServesInv, TableInv, HeardInv, RequestInv, Entitled, CallFanout, Calls
  <2>3. QED
    BY <2>1, <2>2
<1>4. ASSUME NEW c \in Requests, NEW u \in Upstreams, Hear(c, u) PROVE IInv'
  <2>1. TypeOK'
    BY <1>4 DEF TypeOK, Hear, table
  <2>2. slips \subseteq slips'
    BY <1>4 DEF Hear
  <2>3. HeardInv'
    BY <1>4, <2>2 DEF TypeOK, Hear, HeardInv, ServesInv
  <2>4. (AuthorityHonoured /\ ServesInv /\ TableInv /\ RequestInv)'
    BY <1>4, <2>2 DEF TypeOK, Hear, table, AuthorityHonoured, ServesInv, TableInv,
      RequestInv, Entitled, CallFanout, Calls
  <2>5. QED
    BY <2>1, <2>3, <2>4
<1>5. ASSUME NEW c \in Requests, Listed(c) PROVE IInv'
  <2>1. routes' \in [Tools -> Upstreams \cup {NoRoute}] /\ TableInv'
    BY <1>5, MergedIsEntitled DEF Listed, Merges, Install, TableInv, Entitled
  <2>2. TypeOK'
    <3>1. heard' \in [Requests -> [Upstreams -> {Down, Odd, Pending} \cup SUBSET Tools]]
      BY <1>5, SilenceTyped DEF Listed
    <3>2. QED
      BY <1>5, <2>1, <3>1 DEF TypeOK, Listed, Install, Goto, Places
  <2>3. HeardInv'
    BY <1>5 DEF TypeOK, Listed, Silence, HeardInv
  <2>4. (AuthorityHonoured /\ ServesInv /\ RequestInv)'
    BY <1>5 DEF TypeOK, Listed, Goto, AuthorityHonoured, ServesInv, RequestInv,
      CallFanout, Calls
  <2>5. QED
    BY <2>1, <2>2, <2>3, <2>4
<1>6. ASSUME NEW c \in Requests, Refreshed(c) PROVE IInv'
  <2>1. routes' \in [Tools -> Upstreams \cup {NoRoute}] /\ TableInv'
    BY <1>6, MergedIsEntitled DEF Refreshed, Merges, Install, TableInv, Entitled
  <2>2. wants[c] \in Tools /\ lock = c /\ pc[c] = "fanout" /\ lock' = None
    BY <1>6 DEF Refreshed, Merges, Heard, Calls, RequestInv, CallFanout, Unlock
  <2>3. CASE Merged(heard[c])[wants[c]] # NoRoute
    <3> DEFINE m == Merged(heard[c])[wants[c]]
    <3>1. Entitled(m, wants[c]) /\ m \in Upstreams
      BY <1>6, <2>2, <2>3, MergedIsEntitled DEF Refreshed, Merges
    <3> HIDE DEF m
    <3>2. /\ target' = [target EXCEPT ![c] = m] /\ pc' = [pc EXCEPT ![c] = "forward"]
          /\ heard' = [heard EXCEPT ![c] = Silence] /\ m # NoRoute
      BY <1>6, <2>3 DEF Refreshed, Aim, Goto, m
    <3>3. TypeOK'
      <4>1. heard' \in [Requests -> [Upstreams -> {Down, Odd, Pending} \cup SUBSET Tools]]
        BY <3>2, SilenceTyped
      <4>2. pc' \in [Requests -> Places] /\ target' \in [Requests -> Upstreams \cup {NoRoute}]
        BY <3>1, <3>2 DEF TypeOK, Places
      <4>3. left' \in 0..TTL /\ UNCHANGED <<serves, wants, slips>>
        BY <1>6 DEF Refreshed, Install
      <4>4. QED
        BY <2>1, <2>2, <4>1, <4>2, <4>3 DEF TypeOK
    <3>4. HeardInv'
      BY <1>6, <3>2 DEF TypeOK, Refreshed, Silence, HeardInv
    <3>5. (AuthorityHonoured /\ ServesInv /\ RequestInv)'
      <4>1. UNCHANGED <<serves, wants, slips>>
        BY <1>6 DEF Refreshed
      <4>2. AuthorityHonoured'
        BY <3>1, <3>2, <4>1 DEF TypeOK, AuthorityHonoured, Entitled
      <4>3. ServesInv'
        BY <4>1 DEF ServesInv
      <4>4. RequestInv'
        BY <2>2, <3>2, <4>1 DEF TypeOK, RequestInv, CallFanout, Calls
      <4>5. QED
        BY <4>2, <4>3, <4>4
    <3>6. QED
      BY <2>1, <3>3, <3>4, <3>5
  <2>4. CASE Merged(heard[c])[wants[c]] = NoRoute
    <3>1. pc' = [pc EXCEPT ![c] = "unknown"] /\ UNCHANGED <<target, heard>>
      BY <1>6, <2>4 DEF Refreshed, Goto
    <3>2. TypeOK'
      BY <1>6, <2>1, <2>2, <3>1 DEF TypeOK, Refreshed, Install, Places
    <3>3. HeardInv'
      BY <1>6, <3>1 DEF Refreshed, HeardInv
    <3>4. (AuthorityHonoured /\ ServesInv)'
      BY <1>6, <3>1 DEF TypeOK, Refreshed, AuthorityHonoured, ServesInv
    <3>5. RequestInv'
      BY <1>6, <2>2, <3>1 DEF TypeOK, Refreshed, RequestInv, CallFanout, Calls
    <3>6. QED
      BY <2>1, <3>2, <3>3, <3>4, <3>5
  <2>5. QED
    BY <2>3, <2>4
<1>7. ASSUME NEW c \in Requests, AllFailed(c) PROVE IInv'
  <2>1. TypeOK'
    <3>1. heard' \in [Requests -> [Upstreams -> {Down, Odd, Pending} \cup SUBSET Tools]]
      BY <1>7, SilenceTyped DEF AllFailed
    <3>2. QED
      BY <1>7, <3>1 DEF TypeOK, AllFailed, Unlock, Goto, table, Places
  <2>2. Rest'
    BY <1>7 DEF TypeOK, AllFailed, Heard, Unlock, Goto, table, Silence, AuthorityHonoured,
      ServesInv, TableInv, HeardInv, RequestInv, Entitled, CallFanout, Calls
  <2>3. QED
    BY <2>1, <2>2
<1>8. ASSUME NEW c \in Requests, Deliver(c) PROVE IInv'
  <2>1. TypeOK'
    BY <1>8 DEF TypeOK, Deliver, Aim, Goto, table, Places
  <2>2. Rest'
    BY <1>8 DEF TypeOK, Deliver, Aim, Goto, table, AuthorityHonoured, ServesInv, TableInv,
      HeardInv, RequestInv, Entitled, CallFanout, Calls
  <2>3. QED
    BY <2>1, <2>2
<1>9. ASSUME NEW u \in Upstreams, Change(u) PROVE IInv'
  <2>1. ServesInv'
    BY <1>9 DEF Change, ServesInv, TypeOK
  <2>2. TypeOK'
    BY <1>9, <2>1 DEF TypeOK, ServesInv, Change, table
  <2>3. (AuthorityHonoured /\ TableInv /\ HeardInv /\ RequestInv)'
    BY <1>9 DEF Change, table, AuthorityHonoured, TableInv, HeardInv, RequestInv,
      Entitled, CallFanout, Calls
  <2>4. QED
    BY <2>1, <2>2, <2>3
<1>10. CASE Tick
  BY <1>10 DEF Tick, TypeOK, AuthorityHonoured, ServesInv, TableInv, HeardInv,
    RequestInv, Entitled, CallFanout, Calls
<1>11. CASE UNCHANGED vars
  BY <1>11 DEF vars, table, TypeOK, AuthorityHonoured, ServesInv, TableInv, HeardInv,
    RequestInv, Entitled, CallFanout, Calls
<1>12. QED
  BY <1>1, <1>2, <1>3, <1>4, <1>5, <1>6, <1>7, <1>8, <1>9, <1>10, <1>11 DEF Next, Continue

\* The inductive invariant of the router holds of every behaviour.
THEOREM InductiveInvariant == Spec => []IInv
  BY IInvInit, IInvStep, PTL DEF Spec

\* Every variable of the router keeps its type.
THEOREM TypeCorrect == Spec => []TypeOK
<1>1. IInv => TypeOK
  BY DEF IInv
<1>2. QED
  BY InductiveInvariant, <1>1, PTL

\* However many listings and calls overlap, a call goes to an upstream that did
\* advertise its tool, and never past an earlier one that never missed it.
THEOREM AuthorityHolds == Spec => []AuthorityHonoured
<1>1. IInv => AuthorityHonoured
  BY DEF IInv
<1>2. QED
  BY InductiveInvariant, <1>1, PTL

\* A call that starts to fan out holds the lock, so no other call does, and has
\* found no route for its tool after it got the lock.
LEMMA FanoutsCoalesceStep ==
  ASSUME IInv, [Next]_vars, NEW c \in Requests, ~CallFanout(c), CallFanout(c)'
  PROVE  ~Routed(wants'[c]) /\ \A d \in Requests : ~CallFanout(d)
<1> USE AbsentAssumption DEF IInv, TypeOK, CallFanout, Calls
<1>1. Acquire(c)
  <2>1. PICK d \in Requests : List(d) \/ Call(d) \/ Acquire(d) \/ Continue(d)
    BY DEF Next, vars, Change, Tick, table
  <2>2. \/ pc[c] # "fanout" /\ pc'[c] = "fanout"
        \/ wants[c] \notin Tools /\ wants'[c] \in Tools
    OBVIOUS
  <2>3. CASE List(d)
    BY <2>2, <2>3 DEF List, Goto
  <2>4. CASE Call(d)
    BY <2>2, <2>4 DEF Call, Goto
  <2>5. CASE Acquire(d)
    BY <2>2, <2>5 DEF Acquire, Goto
  <2>6. CASE Continue(d)
    BY <2>2, <2>6 DEF Continue, Hear, Listed, Refreshed, AllFailed, Deliver, Goto
  <2>7. QED
    BY <2>1, <2>3, <2>4, <2>5, <2>6
<1>2. lock = None /\ wants' = wants /\ ~Routed(wants[c])
  BY <1>1 DEF Acquire, Goto
<1>3. \A d \in Requests : ~CallFanout(d)
  BY <1>2 DEF RequestInv
<1>4. QED
  BY <1>2, <1>3

\* A burst of calls costs one fan-out, for any number of calls and upstreams.
THEOREM BurstsCoalesce == Spec => FanoutsCoalesce
<1>1. IInv /\ [Next]_vars =>
        [\A c \in Requests : ~CallFanout(c) /\ CallFanout(c)' =>
           /\ ~Routed(wants'[c])
           /\ \A d \in Requests : ~CallFanout(d)]_vars
  BY FanoutsCoalesceStep
<1>2. QED
  BY InductiveInvariant, <1>1, PTL DEF Spec, FanoutsCoalesce

-----------------------------------------------------------------------------
(* The safety half of EveryRequestEnds.                                    *)

\* Only a call that fans out takes the lock, and it leaves its fan-out by no way
\* that does not release it.
LEMMA LockStep == IInv /\ LockIsACallers /\ [Next]_vars => LockIsACallers'
<1> SUFFICES ASSUME IInv, LockIsACallers, [Next]_vars, NEW d \in Requests, lock' = d
             PROVE  CallFanout(d)'
  BY DEF LockIsACallers
<1> USE AbsentAssumption DEF IInv, TypeOK, LockIsACallers, CallFanout, Calls
<1>1. ASSUME NEW c \in Requests, List(c) PROVE CallFanout(d)'
  BY <1>1 DEF List, Goto
<1>2. ASSUME NEW c \in Requests, Call(c) PROVE CallFanout(d)'
  BY <1>2 DEF Call, Goto
<1>3. ASSUME NEW c \in Requests, Acquire(c) PROVE CallFanout(d)'
  BY <1>3 DEF Acquire, Goto, RequestInv
<1>4. ASSUME NEW c \in Requests, NEW u \in Upstreams, Hear(c, u) PROVE CallFanout(d)'
  BY <1>4 DEF Hear
<1>5. ASSUME NEW c \in Requests, Listed(c) PROVE CallFanout(d)'
  BY <1>5 DEF Listed, Goto
<1>6. ASSUME NEW c \in Requests, Refreshed(c) \/ AllFailed(c) PROVE CallFanout(d)'
  <2>1. d # c /\ lock = d
    BY <1>6 DEF Refreshed, AllFailed, Unlock
  <2>2. pc'[d] = pc[d] /\ wants' = wants
    BY <1>6, <2>1 DEF Refreshed, AllFailed, Goto
  <2>3. QED
    BY <2>1, <2>2
<1>7. ASSUME NEW c \in Requests, Deliver(c) PROVE CallFanout(d)'
  BY <1>7 DEF Deliver, Goto
<1>8. CASE UNCHANGED <<lock, pc, wants>>
  BY <1>8
<1>9. QED
  BY <1>1, <1>2, <1>3, <1>4, <1>5, <1>6, <1>7, <1>8
  DEF Next, Continue, Change, Tick, vars

\* The lock is never orphaned: its holder is a call whose fan-out is still under
\* way, whatever the other upstreams and requests did.
THEOREM LockIsHeldByAFanout == Spec => []LockIsACallers
<1>1. Init => LockIsACallers
  BY AbsentAssumption DEF Init, LockIsACallers
<1>2. QED
  BY InductiveInvariant, <1>1, LockStep, PTL DEF Spec

-----------------------------------------------------------------------------
(* The safety half of TableConverges.                                      *)

\* A complete fan-out that heard nothing outdated heard what is served now.
LEMMA HeardIsServed ==
  ASSUME TypeOK, Settled, NEW c \in Requests, Heard(c)
  PROVE  heard[c] = serves
<1>1. /\ heard[c] \in [Upstreams -> {Down, Odd, Pending} \cup SUBSET Tools]
      /\ serves \in [Upstreams -> {Down, Odd} \cup SUBSET Tools]
  BY DEF TypeOK
<1>2. \A u \in Upstreams : heard[c][u] = serves[u]
  BY DEF Settled, Heard
<1>3. QED
  BY <1>1, <1>2

LEMMA SettledStep ==
  ASSUME IInv, [Next]_vars, Settled, UNCHANGED serves
  PROVE  Settled'
<1> DEFINE Current(answers) == \A u \in Upstreams : answers[u] \in {Pending, serves[u]}
<1>1. Current(Silence)
  BY DEF Silence
<1>2. TypeOK /\ \A c \in Requests : Current(heard[c])
  BY DEF IInv, Settled
<1>3. \A c \in Requests : Current(heard'[c])
  <2>1. CASE UNCHANGED heard
    BY <1>2, <2>1
  <2>2. ASSUME NEW c \in Requests, heard' = [heard EXCEPT ![c] = Silence]
        PROVE  \A d \in Requests : Current(heard'[d])
    <3> HIDE DEF Current
    <3>1. QED
      BY <1>1, <1>2, <2>2 DEF TypeOK
  <2>3. ASSUME NEW c \in Requests, NEW u \in Upstreams,
               heard' = [heard EXCEPT ![c][u] = serves[u]]
        PROVE  \A d \in Requests : Current(heard'[d])
    BY <1>2, <2>3 DEF TypeOK
  <2>4. QED
    BY <2>1, <2>2, <2>3
    DEF Next, Continue, List, Call, Acquire, Hear, Listed, Refreshed, AllFailed, Deliver,
      Change, Tick, vars
<1>4. left' = 0 \/ routes' = Merged(serves)
  <2>1. CASE UNCHANGED table
    BY <2>1 DEF Settled, table
  <2>2. CASE Tick
    BY <1>2, <2>2 DEF Tick, Settled, TypeOK
  <2>3. ASSUME NEW c \in Requests, Heard(c), Install(c)
        PROVE  routes' = Merged(serves)
    BY <1>2, <2>3, HeardIsServed DEF Install
  <2>4. QED
    BY <2>1, <2>2, <2>3
    DEF Next, Continue, List, Call, Acquire, Hear, Listed, Refreshed, Merges, AllFailed,
      Deliver, Change, table, vars
<1>5. Merged(serves)' = Merged(serves)
  BY DEF Merged, Advertisers
<1>6. QED
  BY <1>3, <1>4, <1>5 DEF Settled

\* Nothing but a change of an upstream unsettles the route table, however
\* listings and calls overlap and end.
THEOREM TableStaysSettled == Spec => SettledStays
<1>1. IInv /\ [Next]_vars => [Settled /\ UNCHANGED serves => Settled']_vars
  BY SettledStep
<1>2. QED
  BY InductiveInvariant, <1>1, PTL DEF Spec, SettledStays
=============================================================================

--------------------------- MODULE AgentDirectory ---------------------------
(***************************************************************************)
(* adapters/registry/postgres.py: the writes of the control plane to       *)
(* oac.agents (create, update, set_status), by any number of operators at  *)
(* once, and the oac.operator_actions row each of them leaves.             *)
(*                                                                         *)
(* Every write is a transaction at READ COMMITTED: a plain SELECT loads    *)
(* the row, the ORM flushes the columns whose value differs from what was  *)
(* loaded, and that UPDATE waits for the row lock. Another transaction may *)
(* commit between the SELECT and the UPDATE.                               *)
(***************************************************************************)
EXTENDS Naturals, Sequences

CONSTANTS
  Operations,   \* calls of the control plane's write routes
  Agents,       \* SPIFFE ids
  Grants,       \* values of granted_tools
  Owners,       \* values of owner, which stands for the descriptive columns
  Requests,     \* the requests operators may make
  None

AgentStatus == {"active", "suspended"}

AgentRow == [status: AgentStatus, granted_tools: Grants, owner: Owners]
Columns == {"status", "granted_tools", "owner"}

\* What a request asks for: a value per column, None for a column it leaves
\* alone. update() takes everything but the status, set_status() only that,
\* and a new agent is active.
Request ==
  [kind: {"create"}, target: Agents, status: {"active"},
   granted_tools: Grants, owner: Owners]
    \cup
  [kind: {"update"}, target: Agents, status: {None},
   granted_tools: Grants \cup {None}, owner: Owners \cup {None}]
    \cup
  [kind: {"set_status"}, target: Agents, status: AgentStatus,
   granted_tools: {None}, owner: {None}]

ASSUME RequestsAssumption == Requests \subseteq Request
ASSUME NoneAssumption ==
  /\ None \notin AgentStatus
  /\ None \notin Grants \cup Owners \cup AgentRow \cup Operations \cup Request

VARIABLES
  agents,       \* oac.agents as committed: the row of each agent, or None
  actions,      \* oac.operator_actions as committed, in commit order
  lock,         \* the operation that holds the lock on an agent's row, or None
  pc,           \* where each operation stands
  req,          \* what it was asked for
  loaded        \* the row its SELECT found

vars == <<agents, actions, lock, pc, req, loaded>>

InTransaction == {"loaded", "flushed"}
Ended == {"returned", "not_found", "raised"}
Places == {"start"} \cup InTransaction \cup Ended

\* An audit row: whose request, about which agent. Its detail is a function of
\* the request (owner and risk tier of a create, the fields of an update, "to" of
\* a change of status) and, for a change of status only, of the row as loaded
\* ("from"); both are found under the operation, in req and loaded.
Action == [operation: Operations, target: Agents]

TypeOK ==
  /\ agents \in [Agents -> AgentRow \cup {None}]
  /\ actions \in Seq(Action)
  /\ lock \in [Agents -> Operations \cup {None}]
  /\ pc \in [Operations -> Places]
  /\ req \in [Operations -> Requests \cup {None}]
  /\ loaded \in [Operations -> AgentRow \cup {None}]

Init ==
  /\ agents = [a \in Agents |-> None]
  /\ actions = <<>>
  /\ lock = [a \in Agents |-> None]
  /\ pc = [o \in Operations |-> "start"]
  /\ req = [o \in Operations |-> None]
  /\ loaded = [o \in Operations |-> None]

-----------------------------------------------------------------------------

Goto(o, place) == pc' = [pc EXCEPT ![o] = place]
Target(o) == req[o].target

\* session.begin, and for update and set_status the SELECT, which locks
\* nothing; an agent that is not there is a 404. create() selects nothing.
Begin(o) ==
  /\ pc[o] = "start"
  /\ \E r \in Requests :
       /\ req' = [req EXCEPT ![o] = r]
       /\ \/ /\ r.kind = "create"
             /\ Goto(o, "loaded") /\ UNCHANGED loaded
          \/ /\ r.kind # "create" /\ agents[r.target] = None
             /\ Goto(o, "not_found") /\ UNCHANGED loaded
          \/ /\ r.kind # "create" /\ agents[r.target] # None
             /\ loaded' = [loaded EXCEPT ![o] = agents[r.target]]
             /\ Goto(o, "loaded")
  /\ UNCHANGED <<agents, actions, lock>>

\* The INSERT or UPDATE waits for whoever has written the row and not ended.
\* An INSERT of a key that exists by then is an IntegrityError.
Flush(o) ==
  /\ pc[o] = "loaded"
  /\ lock[Target(o)] = None
  /\ \/ /\ req[o].kind = "create" /\ agents[Target(o)] # None
        /\ Goto(o, "raised") /\ UNCHANGED lock
     \/ /\ req[o].kind = "create" => agents[Target(o)] = None
        /\ lock' = [lock EXCEPT ![Target(o)] = o]
        /\ Goto(o, "flushed")
  /\ UNCHANGED <<agents, actions, req, loaded>>

\* The object as the operation sees it: what it loaded, its values set.
Edited(o) ==
  [f \in Columns |-> IF req[o][f] # None THEN req[o][f] ELSE loaded[o][f]]

\* Mutant of Changed: the whole object is written back, as it was loaded.
WholeRow(o) == Columns

\* The columns the ORM finds changed against what was loaded: an assignment
\* of the loaded value is none.
Changed(o) ==
  IF loaded[o] = None THEN Columns
  ELSE {f \in Columns : Edited(o)[f] # loaded[o][f]}

\* Mutant of Commit: the audit row is written by a transaction of its own.
CommitUnaudited(o) ==
  LET a == Target(o) IN
  /\ pc[o] = "flushed"
  /\ agents' = [agents EXCEPT ![a] =
       [f \in Columns |-> IF f \in Changed(o) THEN Edited(o)[f] ELSE agents[a][f]]]
  /\ lock' = [lock EXCEPT ![a] = None]
  /\ \E place \in {"returned", "raised"} : Goto(o, place)
  /\ \/ actions' = Append(actions, [operation |-> o, target |-> a])
     \/ UNCHANGED actions
  /\ UNCHANGED <<req, loaded>>

\* The row and its audit row become visible together. The acknowledgement of
\* the commit may be lost (HTTP 500).
Commit(o) ==
  LET a == Target(o) IN
  /\ pc[o] = "flushed"
  /\ agents' = [agents EXCEPT ![a] =
       [f \in Columns |-> IF f \in Changed(o) THEN Edited(o)[f] ELSE agents[a][f]]]
  /\ actions' = Append(actions, [operation |-> o, target |-> a])
  /\ lock' = [lock EXCEPT ![a] = None]
  /\ \E place \in {"returned", "raised"} : Goto(o, place)
  /\ UNCHANGED <<req, loaded>>

\* Mutant of Rollback: the connection goes back to the pool, lock and all.
RollbackLeak(o) ==
  /\ pc[o] \in InTransaction
  /\ Goto(o, "raised")
  /\ UNCHANGED <<agents, actions, lock, req, loaded>>

\* The database or the process fails: the transaction is rolled back.
Rollback(o) ==
  /\ pc[o] \in InTransaction
  /\ lock' = [a \in Agents |-> IF lock[a] = o THEN None ELSE lock[a]]
  /\ Goto(o, "raised")
  /\ UNCHANGED <<agents, actions, req, loaded>>

Next ==
  \E o \in Operations : Begin(o) \/ Flush(o) \/ Commit(o) \/ Rollback(o)

\* Assumed: Postgres answers, so that an operation under way keeps going. (The
\* engine of adapters/db/session.py sets no command and no lock timeout.)
Fairness == \A o \in Operations : WF_vars(Flush(o) \/ Commit(o))

Spec == Init /\ [][Next]_vars /\ Fairness

-----------------------------------------------------------------------------

Writes(a) == {i \in DOMAIN actions : actions[i].target = a}

\* The last audited operation that changed this column, by what it had loaded.
LastChange(i, a, f) ==
  /\ i \in Writes(a) /\ f \in Changed(actions[i].operation)
  /\ \A j \in Writes(a) : j > i => f \notin Changed(actions[j].operation)

\* ADR-0014: every mutation is audited in its own transaction. An operation
\* that returned has one audit row, one that raised has one at most, and one
\* that found no agent or has not committed has none.
AuditedOnce ==
  /\ \A i, j \in DOMAIN actions :
       actions[i].operation = actions[j].operation => i = j
  /\ \A i \in DOMAIN actions :
       pc[actions[i].operation] \in {"returned", "raised"}
  /\ \A o \in Operations : pc[o] = "returned" =>
       \E i \in DOMAIN actions : actions[i].operation = o

\* The audit trail accounts for the registry: whatever operations overlapped,
\* a row exists exactly if its creation is audited, and each of its columns
\* holds what the last audited operation that changed that column asked for.
\* No PATCH ever undoes a suspension, and PATCHes of different columns both
\* last.
TrailExplainsRow ==
  \A a \in Agents :
    /\ agents[a] # None <=> Writes(a) # {}
    /\ agents[a] # None => \A f \in Columns :
         \E i \in Writes(a) :
           /\ LastChange(i, a, f)
           /\ agents[a][f] = req[actions[i].operation][f]

\* What the kill switch does guarantee: a committed suspension that found its
\* agent active keeps it suspended, whatever operations overlapped it and
\* whatever PATCHes commit after it, until an activation is on record.
SuspensionOfActiveHolds ==
  \A a \in Agents : \A i \in Writes(a) :
    LET o == actions[i].operation IN
    /\ req[o].status = "suspended"
    /\ loaded[o] # None /\ loaded[o].status = "active"
    /\ \A j \in Writes(a) : j > i => req[actions[j].operation].status # "active"
    => agents[a].status = "suspended"

\* As long as Postgres answers, a write is never left hanging on the row lock of
\* one that failed.
EveryOperationEnds ==
  \A o \in Operations : pc[o] = "loaded" ~> pc[o] \in Ended

-----------------------------------------------------------------------------
(* The inductive invariant behind AuditedOnce and TrailExplainsRow: what an  *)
(* operation loaded and asked for fits its kind, whoever has flushed holds   *)
(* the row lock, and the row is still missing exactly for a creation.        *)

Fresh(o) == pc[o] = "start" => loaded[o] = None
Asked(o) == pc[o] # "start" => req[o] \in Requests
LoadedIfThere(o) == pc[o] \in InTransaction =>
  (loaded[o] = None <=> req[o].kind = "create")
RowLocked(o) == pc[o] = "flushed" => lock[Target(o)] = o
RowThere(o) ==
  /\ pc[o] \in InTransaction /\ req[o].kind # "create" => agents[Target(o)] # None
  /\ pc[o] = "flushed" /\ req[o].kind = "create" => agents[Target(o)] = None

OpInv(o) ==
  Fresh(o) /\ Asked(o) /\ LoadedIfThere(o) /\ RowLocked(o) /\ RowThere(o)

IInv ==
  TypeOK /\ AuditedOnce /\ TrailExplainsRow /\ \A o \in Operations : OpInv(o)

\* What EveryOperationEnds rests on: a row lock is held by an operation that
\* has flushed to that row, and so waits for nobody but the database.
LocksHeld ==
  \A a \in Agents, o \in Operations :
    lock[a] = o => pc[o] = "flushed" /\ Target(o) = a

-----------------------------------------------------------------------------
(* What the repository says, and the code does not do.                     *)

\* docs/user-journeys.md: Suspend is the kill switch. Once a suspension has
\* been acknowledged, and no later write of the agent is on record, the agent
\* is suspended.
AcknowledgedSuspensionHolds ==
  \A o \in Operations, i \in DOMAIN actions :
    /\ pc[o] = "returned"
    /\ req[o].status = "suspended"
    /\ actions[i].operation = o
    /\ \A j \in Writes(Target(o)) : j <= i
    => agents[Target(o)].status = "suspended"
=============================================================================

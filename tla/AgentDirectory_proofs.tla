----------------------- MODULE AgentDirectory_proofs -----------------------
(***************************************************************************)
(* Proofs about AgentDirectory, for any number of overlapping operations   *)
(* on any number of agents, and any columns' values.                       *)
(***************************************************************************)
EXTENDS AgentDirectory, TLAPS

\* Operations, rows and requests are never the absent value.
LEMMA NamesDistinct ==
  /\ None \notin AgentStatus
  /\ None \notin Operations
  /\ None \notin AgentRow
  /\ None \notin Requests
  /\ None \notin Grants /\ None \notin Owners
BY NoneAssumption, RequestsAssumption

\* The empty directory satisfies the inductive invariant.
LEMMA IInvInit == Init => IInv
<1> SUFFICES ASSUME Init PROVE IInv
  OBVIOUS
<1>1. TypeOK
  BY DEF Init, TypeOK, Places
<1>2. AuditedOnce
  BY DEF Init, AuditedOnce
<1>3. TrailExplainsRow
  BY DEF Init, TrailExplainsRow, Writes
<1>4. ASSUME NEW o \in Operations PROVE OpInv(o)
  BY <1>4 DEF Init, OpInv, Fresh, Asked, LoadedIfThere, RowLocked, RowThere,
         InTransaction
<1>5. QED
  BY <1>1, <1>2, <1>3, <1>4 DEF IInv

-----------------------------------------------------------------------------
(* What an operation asks for and what it changes.                         *)

\* A request names an agent, and has a value for every column it sets.
LEMMA RequestTypes ==
  ASSUME NEW r \in Requests
  PROVE  /\ r.target \in Agents
         /\ r.kind \in {"create", "update", "set_status"}
         /\ r["status"] \in AgentStatus \cup {None}
         /\ r["granted_tools"] \in Grants \cup {None}
         /\ r["owner"] \in Owners \cup {None}
BY RequestsAssumption DEF Request, AgentStatus

\* A creation asks for every column.
LEMMA CreateIsWhole ==
  ASSUME NEW r \in Requests, r.kind = "create"
  PROVE  /\ r["status"] \in AgentStatus
         /\ r["granted_tools"] \in Grants
         /\ r["owner"] \in Owners
BY RequestsAssumption DEF Request, AgentStatus

\* A changed column gets the value that was asked for, and a creation changes
\* every column.
LEMMA ChangedIsAsked ==
  ASSUME IInv, NEW o \in Operations, pc[o] = "flushed",
         NEW f \in Changed(o)
  PROVE  f \in Columns /\ req[o][f] # None /\ Edited(o)[f] = req[o][f]
<1>1. /\ req[o] \in Requests
      /\ loaded[o] = None <=> req[o].kind = "create"
  BY DEF IInv, OpInv, Asked, LoadedIfThere, InTransaction
<1>2. f \in Columns
  BY DEF Changed
<1>3. Edited(o)[f] = IF req[o][f] # None THEN req[o][f] ELSE loaded[o][f]
  BY <1>2 DEF Edited
<1>4. CASE loaded[o] = None
  <2>1. req[o][f] # None
    BY <1>1, <1>2, <1>4, CreateIsWhole, NamesDistinct DEF Columns
  <2>2. QED
    BY <1>2, <1>3, <2>1
<1>5. CASE loaded[o] # None
  BY <1>2, <1>3, <1>5 DEF Changed
<1>6. QED
  BY <1>4, <1>5

\* A commit leaves a row of the right type: what it changed was asked for,
\* the rest was there before.
LEMMA CommittedRow ==
  ASSUME IInv, NEW o \in Operations, Commit(o)
  PROVE  /\ Target(o) \in Agents
         /\ agents'[Target(o)] \in AgentRow
         /\ agents'[Target(o)] # None
         /\ \A f \in Columns :
              agents'[Target(o)][f] = IF f \in Changed(o) THEN req[o][f]
                                                       ELSE agents[Target(o)][f]
         /\ \A a \in Agents \ {Target(o)} : agents'[a] = agents[a]
         /\ loaded[o] # None => agents[Target(o)] # None
<1> DEFINE a == Target(o)
           row == [f \in Columns |-> IF f \in Changed(o) THEN Edited(o)[f]
                                                        ELSE agents[a][f]]
<1>1. /\ pc[o] = "flushed"
      /\ req[o] \in Requests
      /\ loaded[o] = None <=> req[o].kind = "create"
      /\ loaded[o] # None => agents[a] # None
      /\ agents \in [Agents -> AgentRow \cup {None}]
  BY DEF Commit, IInv, OpInv, Asked, LoadedIfThere, RowThere, InTransaction, TypeOK
<1>2. a \in Agents
  BY <1>1, RequestTypes DEF Target
<1>3. agents' = [agents EXCEPT ![a] = row]
  BY DEF Commit
<1>4. agents'[a] = row /\ \A b \in Agents \ {a} : agents'[b] = agents[b]
  BY <1>1, <1>2, <1>3
<1>5. \A f \in Columns : row[f] = IF f \in Changed(o) THEN req[o][f] ELSE agents[a][f]
  BY <1>1, ChangedIsAsked
<1>6. /\ row["status"] \in AgentStatus
      /\ row["granted_tools"] \in Grants
      /\ row["owner"] \in Owners
  <2>1. CASE loaded[o] = None
    BY <1>1, <1>5, <2>1, CreateIsWhole DEF Changed, Columns
  <2>2. CASE loaded[o] # None
    <3>1. agents[a] \in AgentRow
      BY <1>1, <1>2, <2>2
    <3>2. /\ agents[a]["status"] \in AgentStatus
          /\ agents[a]["granted_tools"] \in Grants
          /\ agents[a]["owner"] \in Owners
      BY <3>1 DEF AgentRow
    <3>3. \A f \in Changed(o) : req[o][f] # None
      BY <1>1, ChangedIsAsked
    <3>4. QED
      BY <1>1, <1>5, <3>2, <3>3, RequestTypes DEF Columns
  <2>3. QED
    BY <2>1, <2>2
<1>7. row \in AgentRow
  BY <1>6 DEF AgentRow, Columns
<1>8. QED
  BY <1>1, <1>2, <1>4, <1>5, <1>7, NamesDistinct

-----------------------------------------------------------------------------
(* Steps that audit nothing.                                               *)

\* What is common to Begin, Flush and Rollback: only an operation that has
\* not ended moves, and it does not get to "returned".
Unaudited(o) ==
  /\ agents' = agents /\ actions' = actions
  /\ pc[o] \in {"start"} \cup InTransaction
  /\ \E place \in Places \ {"start", "returned"} : pc' = [pc EXCEPT ![o] = place]
  /\ \A d \in Operations \ {o} : req'[d] = req[d] /\ loaded'[d] = loaded[d]
  /\ loaded' \in [Operations -> AgentRow \cup {None}]
  /\ req' \in [Operations -> Requests \cup {None}]
  /\ lock' \in [Agents -> Operations \cup {None}]

\* The three actions are such steps.
LEMMA BeginFlushRollbackUnaudited ==
  ASSUME IInv, NEW o \in Operations, Begin(o) \/ Flush(o) \/ Rollback(o)
  PROVE  Unaudited(o)
<1>1. TypeOK /\ OpInv(o)
  BY DEF IInv
<1>2. CASE Begin(o)
  <2>1. PICK r \in Requests :
          /\ req' = [req EXCEPT ![o] = r]
          /\ \/ Goto(o, "loaded") /\ UNCHANGED loaded
             \/ Goto(o, "not_found") /\ UNCHANGED loaded
             \/ /\ agents[r.target] # None
                /\ loaded' = [loaded EXCEPT ![o] = agents[r.target]]
                /\ Goto(o, "loaded")
    BY <1>2 DEF Begin
  <2>2. r.target \in Agents
    BY RequestTypes
  <2>3. loaded' \in [Operations -> AgentRow \cup {None}]
    BY <1>1, <2>1, <2>2 DEF TypeOK
  <2>4. \A d \in Operations \ {o} : req'[d] = req[d] /\ loaded'[d] = loaded[d]
    BY <1>1, <2>1 DEF TypeOK
  <2>5. QED
    BY <1>1, <1>2, <2>1, <2>3, <2>4
    DEF Begin, Unaudited, Goto, TypeOK, Places, InTransaction, Ended
<1>3. CASE Flush(o)
  <2>1. pc[o] = "loaded" /\ Target(o) \in Agents
    BY <1>1, <1>3, RequestTypes DEF Flush, OpInv, Asked, Target
  <2>2. lock' \in [Agents -> Operations \cup {None}]
    BY <1>1, <1>3, <2>1 DEF Flush, TypeOK
  <2>3. QED
    BY <1>1, <1>3, <2>1, <2>2
    DEF Flush, Unaudited, Goto, TypeOK, Places, InTransaction, Ended
<1>4. CASE Rollback(o)
  BY <1>1, <1>4
  DEF Rollback, Unaudited, Goto, TypeOK, Places, InTransaction, Ended
<1>5. QED
  BY <1>2, <1>3, <1>4

\* Such a step keeps every type.
LEMMA UnauditedType ==
  ASSUME IInv, NEW o \in Operations, Unaudited(o)
  PROVE  TypeOK'
BY DEF IInv, TypeOK, Unaudited

\* An audit row belongs to an operation that has ended.
LEMMA ActionsHaveEnded ==
  ASSUME TypeOK, AuditedOnce, NEW i \in DOMAIN actions
  PROVE  /\ actions[i].operation \in Operations
         /\ pc[actions[i].operation] \in {"returned", "raised"}
<1>1. actions[i] \in Action
  BY DEF TypeOK
<1>2. QED
  BY <1>1 DEF Action, AuditedOnce

\* It leaves every audited operation ended, and no call newly returned.
LEMMA UnauditedOnce ==
  ASSUME IInv, NEW o \in Operations, Unaudited(o)
  PROVE  AuditedOnce'
<1>1. AuditedOnce /\ TypeOK
  BY DEF IInv
<1>2. /\ actions' = actions
      /\ pc[o] \notin {"returned", "raised"} /\ pc'[o] # "returned"
      /\ \A d \in Operations \ {o} : pc'[d] = pc[d]
  BY <1>1 DEF Unaudited, TypeOK, InTransaction
<1>3. \A i \in DOMAIN actions :
        actions[i].operation \in Operations \ {o}
  BY <1>1, <1>2, ActionsHaveEnded
<1>4. QED
  BY <1>1, <1>2, <1>3 DEF AuditedOnce

\* It changes neither a row nor what an audited operation had changed.
LEMMA UnauditedTrail ==
  ASSUME IInv, NEW o \in Operations, Unaudited(o)
  PROVE  TrailExplainsRow'
<1>1. AuditedOnce /\ TypeOK /\ TrailExplainsRow
  BY DEF IInv
<1>2. \A i \in DOMAIN actions : actions[i].operation \in Operations \ {o}
  BY <1>1, ActionsHaveEnded DEF Unaudited, InTransaction
<1>3. /\ actions' = actions
      /\ \A i \in DOMAIN actions :
           /\ req'[actions[i].operation] = req[actions[i].operation]
           /\ loaded'[actions[i].operation] = loaded[actions[i].operation]
  BY <1>2 DEF Unaudited
<1>4. \A a \in Agents : Writes(a)' = Writes(a)
  BY DEF Writes, Unaudited
<1>5. ASSUME NEW i, NEW a \in Agents, NEW f, LastChange(i, a, f)
      PROVE  LastChange(i, a, f)'
  BY <1>3, <1>5 DEF LastChange, Writes, Changed, Edited
<1>6. ASSUME NEW a \in Agents, agents[a] # None, NEW f \in Columns
      PROVE  \E i \in Writes(a)' :
               LastChange(i, a, f)' /\ agents[a][f] = req'[actions[i].operation][f]
  <2>1. PICK i \in Writes(a) :
          LastChange(i, a, f) /\ agents[a][f] = req[actions[i].operation][f]
    BY <1>1, <1>6 DEF TrailExplainsRow
  <2>2. i \in DOMAIN actions
    BY <2>1 DEF Writes
  <2>3. QED
    BY <1>3, <1>4, <1>5, <2>1, <2>2
<1>7. agents' = agents /\ actions' = actions
  BY DEF Unaudited
<1>8. QED
  BY <1>1, <1>4, <1>6, <1>7 DEF TrailExplainsRow

-----------------------------------------------------------------------------
(* What a step means for the operation that takes it, and for the others.  *)

\* Nobody else's state is touched by a step that audits nothing, except that
\* a row lock moves from nobody to o, or from o to nobody.
LEMMA UnauditedOps ==
  ASSUME IInv, NEW o \in Operations, Begin(o) \/ Flush(o) \/ Rollback(o),
         NEW d \in Operations
  PROVE  OpInv(d)'
<1>0. Unaudited(o)
  BY BeginFlushRollbackUnaudited
<1>1. TypeOK /\ OpInv(o) /\ OpInv(d)
  BY DEF IInv
<1>2. CASE d # o
  <2>1. /\ pc'[d] = pc[d] /\ req'[d] = req[d] /\ loaded'[d] = loaded[d]
        /\ agents' = agents
    BY <1>0, <1>1, <1>2 DEF Unaudited, TypeOK
  <2>2. ASSUME pc[d] = "flushed" PROVE lock'[Target(d)] = d
    <3>1. lock[Target(d)] = d /\ Target(d) \in Agents
      BY <1>1, <2>2, RequestTypes DEF OpInv, RowLocked, Asked, Target
    <3>2. CASE Begin(o)
      BY <3>1, <3>2 DEF Begin
    <3>3. CASE Flush(o)
      <4>1. lock[Target(o)] = None
        BY <3>3 DEF Flush
      <4>2. Target(o) # Target(d)
        BY <3>1, <4>1, NamesDistinct
      <4>3. QED
        BY <1>1, <3>1, <3>3, <4>2 DEF Flush, TypeOK
    <3>4. CASE Rollback(o)
      BY <1>2, <3>1, <3>4 DEF Rollback
    <3>5. QED
      BY <3>2, <3>3, <3>4
  <2>3. QED
    BY <1>1, <2>1, <2>2
    DEF OpInv, Fresh, Asked, LoadedIfThere, RowLocked, RowThere, Target
<1>3. CASE d = o /\ Begin(o)
  <2>1. PICK r \in Requests :
          /\ req' = [req EXCEPT ![o] = r]
          /\ \/ /\ r.kind = "create"
                /\ Goto(o, "loaded") /\ UNCHANGED loaded
             \/ Goto(o, "not_found") /\ UNCHANGED loaded
             \/ /\ r.kind # "create" /\ agents[r.target] # None
                /\ loaded' = [loaded EXCEPT ![o] = agents[r.target]]
                /\ Goto(o, "loaded")
    BY <1>3 DEF Begin
  <2>2. pc[o] = "start" /\ loaded[o] = None /\ agents' = agents
    BY <1>1, <1>3 DEF Begin, OpInv, Fresh
  <2>3. req'[o] = r /\ pc'[o] \in {"loaded", "not_found"}
    BY <1>1, <2>1 DEF TypeOK, Goto
  <2>4. pc'[o] = "loaded" => (loaded'[o] = None <=> r.kind = "create")
    BY <1>1, <2>1, <2>2 DEF TypeOK, Goto
  <2>5. pc'[o] = "loaded" /\ r.kind # "create" => agents[r.target] # None
    BY <1>1, <2>1 DEF TypeOK, Goto
  <2>6. QED
    BY <1>3, <2>2, <2>3, <2>4, <2>5
    DEF OpInv, Fresh, Asked, LoadedIfThere, RowLocked, RowThere, Target, InTransaction
<1>4. CASE d = o /\ Flush(o)
  <2>1. /\ pc[o] = "loaded" /\ pc'[o] \in {"raised", "flushed"}
        /\ agents' = agents /\ req' = req /\ loaded' = loaded
        /\ Target(o) \in Agents
    BY <1>1, <1>4, RequestTypes DEF Flush, Goto, TypeOK, OpInv, Asked, Target
  <2>2. pc'[o] = "flushed" =>
          /\ lock'[Target(o)] = o
          /\ req[o].kind = "create" => agents[Target(o)] = None
    BY <1>1, <1>4, <2>1 DEF Flush, Goto, TypeOK
  <2>3. QED
    BY <1>1, <1>4, <2>1, <2>2
    DEF OpInv, Fresh, Asked, LoadedIfThere, RowLocked, RowThere, Target, InTransaction
<1>5. CASE d = o /\ Rollback(o)
  <2>1. pc[o] # "start" /\ pc'[o] = "raised" /\ req' = req
    BY <1>1, <1>5 DEF Rollback, Goto, TypeOK, InTransaction
  <2>2. QED
    BY <1>1, <1>5, <2>1
    DEF OpInv, Fresh, Asked, LoadedIfThere, RowLocked, RowThere, InTransaction
<1>6. QED
  BY <1>2, <1>3, <1>4, <1>5

\* A commit frees its own lock and writes its own row; whoever else has flushed
\* holds the lock of another row.
LEMMA CommitOps ==
  ASSUME IInv, NEW o \in Operations, Commit(o), NEW d \in Operations
  PROVE  OpInv(d)'
<1>1. TypeOK /\ OpInv(o) /\ OpInv(d)
  BY DEF IInv
<1>2. /\ pc[o] = "flushed" /\ pc'[o] \in {"returned", "raised"}
      /\ req' = req /\ loaded' = loaded
      /\ lock' = [lock EXCEPT ![Target(o)] = None]
      /\ \A e \in Operations \ {o} : pc'[e] = pc[e]
  BY <1>1 DEF Commit, Goto, TypeOK
<1>3. /\ Target(o) \in Agents /\ agents'[Target(o)] # None
      /\ \A a \in Agents \ {Target(o)} : agents'[a] = agents[a]
  BY CommittedRow
<1>4. CASE d = o
  BY <1>1, <1>2, <1>4
  DEF OpInv, Fresh, Asked, LoadedIfThere, RowLocked, RowThere, InTransaction
<1>5. CASE d # o
  <2>1. pc'[d] = pc[d]
    BY <1>2, <1>5
  <2>2. pc[d] # "start" => Target(d) \in Agents
    BY <1>1, RequestTypes DEF OpInv, Asked, Target
  <2>3. pc[d] = "flushed" => Target(d) # Target(o)
    BY <1>1, <1>2, <1>5 DEF OpInv, RowLocked
  <2>4. pc[d] = "flushed" => lock'[Target(d)] = d /\ agents'[Target(d)] = agents[Target(d)]
    BY <1>1, <1>2, <1>3, <2>2, <2>3 DEF OpInv, RowLocked, TypeOK
  <2>5. pc[d] # "start" /\ agents[Target(d)] # None => agents'[Target(d)] # None
    BY <1>3, <2>2
  <2>6. QED
    BY <1>1, <1>2, <2>1, <2>4, <2>5
    DEF OpInv, Fresh, Asked, LoadedIfThere, RowLocked, RowThere, Target, InTransaction
<1>6. QED
  BY <1>4, <1>5

-----------------------------------------------------------------------------
(* A commit writes the row and its audit row together.                     *)

\* The trail grows by one row, of an operation that had none.
LEMMA CommitAudits ==
  ASSUME IInv, NEW o \in Operations, Commit(o)
  PROVE  /\ Len(actions) \in Nat /\ DOMAIN actions = 1 .. Len(actions)
         /\ DOMAIN actions' = 1 .. (Len(actions) + 1)
         /\ \A i \in DOMAIN actions : actions'[i] = actions[i]
         /\ actions'[Len(actions) + 1].operation = o
         /\ actions'[Len(actions) + 1].target = Target(o)
         /\ \A i \in DOMAIN actions : actions[i].operation \in Operations \ {o}
<1>1. TypeOK /\ AuditedOnce
  BY DEF IInv
<1>2. actions \in Seq(Action) /\ Target(o) \in Agents
  BY <1>1, CommittedRow DEF TypeOK
<1>3. actions' = Append(actions, [operation |-> o, target |-> Target(o)])
  BY DEF Commit
<1>4. \A i \in DOMAIN actions : actions[i].operation \in Operations \ {o}
  BY <1>1, ActionsHaveEnded DEF Commit
<1>5. QED
  BY <1>2, <1>3, <1>4 DEF Action

LEMMA CommitType ==
  ASSUME IInv, NEW o \in Operations, Commit(o)
  PROVE  TypeOK'
<1>1. TypeOK
  BY DEF IInv
<1>2. agents' \in [Agents -> AgentRow \cup {None}]
  BY <1>1, CommittedRow DEF TypeOK, Commit
<1>3. actions' \in Seq(Action)
  <2>1. [operation |-> o, target |-> Target(o)] \in Action
    BY CommittedRow DEF Action
  <2>2. QED
    BY <1>1, <2>1 DEF TypeOK, Commit
<1>4. QED
  BY <1>1, <1>2, <1>3 DEF TypeOK, Commit, Goto, Places, Ended

LEMMA CommitOnce ==
  ASSUME IInv, NEW o \in Operations, Commit(o)
  PROVE  AuditedOnce'
<1>0. PICK n : n = Len(actions) + 1
  OBVIOUS
<1>1. TypeOK /\ AuditedOnce
  BY DEF IInv
<1>2. /\ pc'[o] \in {"returned", "raised"}
      /\ \A d \in Operations \ {o} : pc'[d] = pc[d]
  BY <1>1 DEF Commit, Goto, TypeOK
<1>3. /\ DOMAIN actions' = DOMAIN actions \cup {n}
      /\ \A i \in DOMAIN actions :
           /\ actions'[i] = actions[i]
           /\ actions[i].operation \in Operations \ {o}
      /\ actions'[n].operation = o
  <2>1. 1 .. n = (1 .. Len(actions)) \cup {n}
    BY <1>0, CommitAudits
  <2>2. QED
    BY <1>0, <2>1, CommitAudits
<1>4. \A i, j \in DOMAIN actions' :
        actions'[i].operation = actions'[j].operation => i = j
  BY <1>1, <1>3 DEF AuditedOnce
<1>5. \A i \in DOMAIN actions' : pc'[actions'[i].operation] \in {"returned", "raised"}
  BY <1>1, <1>2, <1>3 DEF AuditedOnce
<1>6. ASSUME NEW d \in Operations, pc'[d] = "returned"
      PROVE  \E i \in DOMAIN actions' : actions'[i].operation = d
  BY <1>1, <1>2, <1>3, <1>6 DEF AuditedOnce
<1>7. QED
  BY <1>4, <1>5, <1>6 DEF AuditedOnce

\* Each column of the row that was written has its last change either in the
\* new audit row, or where it had it before.
LEMMA CommitTrail ==
  ASSUME IInv, NEW o \in Operations, Commit(o)
  PROVE  TrailExplainsRow'
<1>0. PICK n : n = Len(actions) + 1
  OBVIOUS
<1>1. TypeOK /\ TrailExplainsRow
  BY DEF IInv
<1>2. /\ Len(actions) \in Nat /\ DOMAIN actions = 1 .. Len(actions)
      /\ DOMAIN actions' = 1 .. n
      /\ \A i \in DOMAIN actions : actions'[i] = actions[i]
      /\ actions'[n].operation = o /\ actions'[n].target = Target(o)
      /\ n = Len(actions) + 1
  BY <1>0, CommitAudits
<1>3. req' = req /\ loaded' = loaded
  BY DEF Commit
<1>4. ASSUME NEW a \in Agents
      PROVE  Writes(a)' = IF a = Target(o) THEN Writes(a) \cup {n} ELSE Writes(a)
  BY <1>2 DEF Writes
<1>5. ASSUME NEW a \in Agents, NEW i, NEW f, LastChange(i, a, f),
             a = Target(o) => f \notin Changed(o)
      PROVE  LastChange(i, a, f)'
  BY <1>2, <1>3, <1>5 DEF LastChange, Writes, Changed, Edited
<1>6. ASSUME NEW a \in Agents, a = Target(o), NEW f \in Changed(o)
      PROVE  LastChange(n, a, f)'
  <2>1. f \in Changed(actions[n].operation)'
    BY <1>2, <1>3, <1>6 DEF Changed, Edited
  <2>2. n \in Writes(a)' /\ \A j \in Writes(a)' : ~(j > n)
    BY <1>2, <1>6 DEF Writes
  <2>3. QED
    BY <2>1, <2>2 DEF LastChange
<1>7. ASSUME NEW a \in Agents, NEW f \in Columns, agents[a] # None,
             a = Target(o) => f \notin Changed(o)
      PROVE  \E i \in Writes(a)' :
               LastChange(i, a, f)' /\ agents[a][f] = req'[actions'[i].operation][f]
  <2>1. PICK i \in Writes(a) :
          LastChange(i, a, f) /\ agents[a][f] = req[actions[i].operation][f]
    BY <1>1, <1>7 DEF TrailExplainsRow
  <2>2. i \in DOMAIN actions /\ i \in Writes(a)'
    BY <1>4, <2>1 DEF Writes
  <2>3. LastChange(i, a, f)'
    BY <1>5, <1>7, <2>1
  <2>4. QED
    BY <1>2, <1>3, <2>1, <2>2, <2>3
<1>8. ASSUME NEW a \in Agents
      PROVE  /\ agents'[a] # None <=> Writes(a)' # {}
             /\ agents'[a] # None => \A f \in Columns : \E i \in Writes(a)' :
                  LastChange(i, a, f)' /\ agents'[a][f] = req'[actions'[i].operation][f]
  <2>1. CASE a # Target(o)
    <3>1. agents'[a] = agents[a] /\ Writes(a)' = Writes(a)
      BY <1>4, <2>1, CommittedRow
    <3>2. agents[a] # None <=> Writes(a) # {}
      BY <1>1 DEF TrailExplainsRow
    <3>3. QED
      BY <1>7, <2>1, <3>1, <3>2
  <2>2. CASE a = Target(o)
    <3>1. agents'[a] # None /\ n \in Writes(a)'
      BY <1>4, <2>2, CommittedRow
    <3>2. ASSUME NEW f \in Columns
          PROVE  \E i \in Writes(a)' :
                   LastChange(i, a, f)' /\ agents'[a][f] = req'[actions'[i].operation][f]
      <4>1. CASE f \in Changed(o)
        <5>1. agents'[a][f] = req[o][f]
          BY <2>2, <4>1, CommittedRow
        <5>2. LastChange(n, a, f)'
          BY <1>6, <2>2, <4>1
        <5>3. QED
          BY <1>2, <1>3, <3>1, <5>1, <5>2
      <4>2. CASE f \notin Changed(o)
        <5>1. agents[a] # None /\ agents'[a][f] = agents[a][f]
          BY <2>2, <4>2, CommittedRow DEF Changed
        <5>2. QED
          BY <1>7, <4>2, <5>1
      <4>3. QED
        BY <4>1, <4>2
    <3>3. QED
      BY <3>1, <3>2
  <2>3. QED
    BY <2>1, <2>2
<1>9. QED
  BY <1>8 DEF TrailExplainsRow

-----------------------------------------------------------------------------
(* The theorems.                                                           *)

\* Every step keeps the inductive invariant.
LEMMA IInvStep == IInv /\ [Next]_vars => IInv'
<1> SUFFICES ASSUME IInv, [Next]_vars PROVE IInv'
  OBVIOUS
<1>1. ASSUME NEW o \in Operations, Begin(o) \/ Flush(o) \/ Rollback(o)
      PROVE  IInv'
  <2>1. Unaudited(o)
    BY <1>1, BeginFlushRollbackUnaudited
  <2>2. TypeOK' /\ AuditedOnce' /\ TrailExplainsRow'
    BY <2>1, UnauditedType, UnauditedOnce, UnauditedTrail
  <2>3. \A d \in Operations : OpInv(d)'
    BY <1>1, UnauditedOps
  <2>4. QED
    BY <2>2, <2>3 DEF IInv
<1>2. ASSUME NEW o \in Operations, Commit(o)
      PROVE  IInv'
  <2>1. TypeOK' /\ AuditedOnce' /\ TrailExplainsRow'
    BY <1>2, CommitType, CommitOnce, CommitTrail
  <2>2. \A d \in Operations : OpInv(d)'
    BY <1>2, CommitOps
  <2>3. QED
    BY <2>1, <2>2 DEF IInv
<1>3. CASE UNCHANGED vars
  BY <1>3
  DEF vars, IInv, TypeOK, AuditedOnce, TrailExplainsRow, Writes, LastChange,
      Changed, Edited, OpInv, Fresh, Asked, LoadedIfThere, RowLocked, RowThere, Target
<1>4. QED
  BY <1>1, <1>2, <1>3 DEF Next

\* However operators overlap, each operation's place fits what it asked for,
\* what it loaded and the lock it holds.
THEOREM InductiveInvariant == Spec => []IInv
BY IInvInit, IInvStep, PTL DEF Spec

\* Every variable of the directory keeps its type.
THEOREM TypeCorrect == Spec => []TypeOK
<1>1. IInv => TypeOK
  BY DEF IInv
<1>2. QED
  BY InductiveInvariant, <1>1, PTL

\* Every mutation is audited with it, exactly once if it is acknowledged.
THEOREM MutationsAudited == Spec => []AuditedOnce
<1>1. IInv => AuditedOnce
  BY DEF IInv
<1>2. QED
  BY InductiveInvariant, <1>1, PTL

\* Every row of the registry is what its audit trail says, column by column.
THEOREM TrailExplains == Spec => []TrailExplainsRow
<1>1. IInv => TrailExplainsRow
  BY DEF IInv
<1>2. QED
  BY InductiveInvariant, <1>1, PTL

\* What the kill switch guarantees, for any operators: a suspension that found
\* its agent active is the last word on the status until an activation is on
\* record; PATCHes and suspensions committed after it leave it in place.
THEOREM SuspensionsOfActiveHold == Spec => []SuspensionOfActiveHolds
<1>1. IInv => SuspensionOfActiveHolds
  <2> SUFFICES ASSUME IInv, NEW a \in Agents, NEW i \in Writes(a),
                      NEW o, o = actions[i].operation,
                      req[o].status = "suspended",
                      loaded[o] # None, loaded[o].status = "active",
                      \A j \in Writes(a) : j > i =>
                        req[actions[j].operation].status # "active"
               PROVE  agents[a].status = "suspended"
    BY DEF SuspensionOfActiveHolds
  <2>1. TypeOK /\ TrailExplainsRow
    BY DEF IInv
  <2>2. /\ agents[a] # None /\ agents[a].status \in AgentStatus
        /\ "status" \in Columns
    BY <2>1, NamesDistinct DEF TrailExplainsRow, TypeOK, AgentRow, Columns
  <2>3. PICK k \in Writes(a) : /\ LastChange(k, a, "status")
                              /\ agents[a].status = req[actions[k].operation].status
    BY <2>1, <2>2 DEF TrailExplainsRow
  <2>4. "status" \in Changed(o)
    BY <2>2, NamesDistinct DEF Changed, Edited, AgentStatus
  <2>5. ~(i > k)
    BY <2>3, <2>4 DEF LastChange
  <2>6. i \in Nat /\ k \in Nat
    BY <2>1, <2>3 DEF Writes, TypeOK
  <2>7. k = i \/ k > i
    BY <2>5, <2>6
  <2>8. k > i => agents[a].status # "active"
    BY <2>3
  <2>9. QED
    BY <2>2, <2>3, <2>7, <2>8 DEF AgentStatus
<1>2. QED
  BY InductiveInvariant, <1>1, PTL

\* No operation, whether it commits, fails or loses its acknowledgement, leaves
\* a row lock behind, and whoever holds one is past every wait.
THEOREM LocksAreHeld == Spec => []LocksHeld
<1>1. Init => LocksHeld
  BY NamesDistinct DEF Init, LocksHeld
<1>2. IInv /\ LocksHeld /\ [Next]_vars => LocksHeld'
  <2> SUFFICES ASSUME IInv, LocksHeld, [Next]_vars,
                      NEW a \in Agents, NEW d \in Operations, lock'[a] = d
               PROVE  pc'[d] = "flushed" /\ Target(d)' = a
    BY DEF LocksHeld
  <2>1. TypeOK /\ \A o \in Operations : OpInv(o)
    BY DEF IInv
  <2>2. lock[a] = d => pc[d] = "flushed" /\ Target(d) = a
    BY DEF LocksHeld
  <2>3. ASSUME NEW o \in Operations, Begin(o)
        PROVE  pc'[d] = "flushed" /\ Target(d)' = a
    <3>1. lock[a] = d /\ d # o
      BY <2>2, <2>3 DEF Begin
    <3>2. pc'[d] = pc[d] /\ req'[d] = req[d]
      BY <2>1, <2>3, <3>1 DEF Begin, Goto, TypeOK
    <3>3. QED
      BY <2>2, <3>1, <3>2 DEF Target
  <2>4. ASSUME NEW o \in Operations, Flush(o)
        PROVE  pc'[d] = "flushed" /\ Target(d)' = a
    <3>1. pc[o] = "loaded" /\ Target(d)' = Target(d)
      BY <2>4 DEF Flush, Target
    <3>2. CASE lock[a] = d
      BY <2>1, <2>2, <2>4, <3>1, <3>2 DEF Flush, Goto, TypeOK
    <3>3. CASE lock[a] # d
      <4>1. lock' = [lock EXCEPT ![Target(o)] = o] /\ Goto(o, "flushed")
        BY <2>4, <3>3 DEF Flush
      <4>2. a = Target(o) /\ d = o
        BY <2>1, <3>3, <4>1 DEF TypeOK
      <4>3. QED
        BY <2>1, <3>1, <4>1, <4>2 DEF TypeOK, Goto
    <3>4. QED
      BY <3>2, <3>3
  <2>5. ASSUME NEW o \in Operations, Commit(o) \/ Rollback(o)
        PROVE  pc'[d] = "flushed" /\ Target(d)' = a
    <3>1. lock[a] = d /\ d # o
      <4>1. CASE Commit(o)
        <5>1. lock' = [lock EXCEPT ![Target(o)] = None]
          BY <4>1 DEF Commit
        <5>2. a # Target(o) /\ lock[a] = d
          BY <2>1, <5>1, NamesDistinct DEF TypeOK
        <5>3. QED
          BY <2>2, <5>2
      <4>2. CASE Rollback(o)
        BY <2>1, <4>2, NamesDistinct DEF Rollback, TypeOK
      <4>3. QED
        BY <2>5, <4>1, <4>2
    <3>2. pc'[d] = pc[d] /\ req'[d] = req[d]
      BY <2>1, <2>5, <3>1 DEF Commit, Rollback, Goto, TypeOK
    <3>3. QED
      BY <2>2, <3>1, <3>2 DEF Target
  <2>6. CASE UNCHANGED vars
    BY <2>2, <2>6 DEF vars, Target
  <2>7. QED
    BY <2>3, <2>4, <2>5, <2>6 DEF Next
<1>3. QED
  BY InductiveInvariant, <1>1, <1>2, PTL DEF Spec
=============================================================================

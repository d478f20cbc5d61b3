---------------------------- MODULE ReceiptChain ----------------------------
(***************************************************************************)
(* The hash-chained receipt ledger in Postgres, shared by every gateway    *)
(* replica: adapters/ledger/postgres.py (record), postgres_query.py        *)
(* (verify_chain) and vault_signer.py (signing keys).                      *)
(*                                                                         *)
(* record() is one transaction: SELECT the chain head FOR UPDATE, sign,    *)
(* flush the INSERT and the UPDATE of the head, commit. Any step of it may *)
(* fail, and a replica may die in the middle. The id of a row comes from a *)
(* Postgres sequence when the INSERT is flushed; a rolled-back transaction *)
(* does not give it back.                                                  *)
(*                                                                         *)
(* SHA-256 is taken to be injective: the digest of a row is the row itself *)
(* in a tuple, and the genesis hash the digest of nothing. An Ed25519      *)
(* signature is the number of the key version that verifies it. What an    *)
(* edit of a committed row may turn it into has a number of its own: NoKey *)
(* for bytes no version signed, NotHex for a text that is no bytes at all, *)
(* NotAReceipt for a row whose columns make no ExecutionReceipt any more.  *)
(***************************************************************************)
EXTENDS Naturals, FiniteSets, FiniteSetsExt, Functions

CONSTANTS
  Calls,        \* calls of record(), each with its own uuid4
  Replicas,     \* gateway processes
  Host,         \* the replica each call runs in
  None,         \* no call
  MaxVersion    \* bound on the number of key versions

ASSUME HostAssumption == Host \in [Calls -> Replicas]
ASSUME NoneAssumption == None \notin Calls
ASSUME VersionAssumption == MaxVersion \in Nat \ {0}

VARIABLES
  rows,         \* oac.execution_receipts as committed: id -> row
  head,         \* oac.chain_state.previous_hash as committed
  lastId,       \* last value of the sequence that numbers the rows
  lock,         \* the call whose transaction holds the row lock, or None
  pc,           \* where each call of record() stands
  draft,        \* the receipt it is building
  rowId,        \* the id its INSERT was given
  version,      \* latest version of the Vault transit key
  verifierKey   \* the version the control plane verifies with

ledger == <<rows, head>>
keys == <<version, verifierKey>>
vars == <<rows, head, lastId, lock, pc, draft, rowId, version, verifierKey>>

GENESIS_HASH == <<>>
Hash(row) == <<row>>
NoKey == 0
Versions == 1..MaxVersion
NotHex == MaxVersion + 1
NotAReceipt == MaxVersion + 2

InTransaction == {"locked", "signed", "flushed"}
Ended == {"returned", "raised"}
Places == {"start"} \cup InTransaction \cup Ended

Blank == [sequence_id |-> None, previous_hash |-> GENESIS_HASH, key |-> NoKey]

TypeOK ==
  /\ DOMAIN rows \subseteq 1..lastId
  /\ \A i \in DOMAIN rows : rows[i].sequence_id \in Calls
  /\ \A i \in DOMAIN rows : rows[i].key \in Versions
  /\ lastId \in Nat
  /\ lock \in Calls \cup {None}
  /\ pc \in [Calls -> Places]
  /\ DOMAIN draft = Calls
  /\ rowId \in [Calls -> Nat]
  /\ version \in Versions
  /\ verifierKey \in Versions

\* Migration 0001 inserts the chain_state row with the genesis hash; the control
\* plane has fetched the first version of the key.
Init ==
  /\ rows = [i \in {} |-> Blank]
  /\ head = GENESIS_HASH
  /\ lastId = 0
  /\ lock = None
  /\ pc = [c \in Calls |-> "start"]
  /\ draft = [c \in Calls |-> Blank]
  /\ rowId = [c \in Calls |-> 0]
  /\ version = 1
  /\ verifierKey = 1

-----------------------------------------------------------------------------
(* PostgresLedger.record                                                   *)

Goto(c, place) == pc' = [pc EXCEPT ![c] = place]

\* Mutant of LockHead: a plain SELECT, which waits for nobody.
SelectHead(c) ==
  /\ pc[c] = "start"
  /\ lock' = c
  /\ draft' = [draft EXCEPT ![c] =
       [sequence_id |-> c, previous_hash |-> head, key |-> NoKey]]
  /\ Goto(c, "locked")
  /\ UNCHANGED <<ledger, lastId, rowId, keys>>

\* SELECT ... FOR UPDATE waits for the lock and reads the head it protects.
LockHead(c) ==
  /\ pc[c] = "start"
  /\ lock = None
  /\ lock' = c
  /\ draft' = [draft EXCEPT ![c] =
       [sequence_id |-> c, previous_hash |-> head, key |-> NoKey]]
  /\ Goto(c, "locked")
  /\ UNCHANGED <<ledger, lastId, rowId, keys>>

\* Signer.sign posts the unsigned bytes and names no version: Vault signs with
\* the latest.
Sign(c) ==
  /\ pc[c] = "locked"
  /\ draft' = [draft EXCEPT ![c].key = version]
  /\ Goto(c, "signed")
  /\ UNCHANGED <<ledger, lastId, lock, rowId, keys>>

\* The INSERT takes the next id.
Flush(c) ==
  /\ pc[c] = "signed"
  /\ lastId' = lastId + 1
  /\ rowId' = [rowId EXCEPT ![c] = lastId + 1]
  /\ Goto(c, "flushed")
  /\ UNCHANGED <<ledger, lock, draft, keys>>

\* Mutant of Commit: the head is not moved.
CommitRowOnly(c) ==
  /\ pc[c] = "flushed"
  /\ rows' = [i \in DOMAIN rows \cup {rowId[c]} |->
                IF i = rowId[c] THEN draft[c] ELSE rows[i]]
  /\ lock' = None
  /\ Goto(c, "returned")
  /\ UNCHANGED <<head, lastId, draft, rowId, keys>>

\* Mutant of Commit: a commit whose acknowledgement was lost is tried again.
CommitOrRetry(c) ==
  /\ pc[c] = "flushed"
  /\ lastId <= 2
  /\ rows' = [i \in DOMAIN rows \cup {rowId[c]} |->
                IF i = rowId[c] THEN draft[c] ELSE rows[i]]
  /\ head' = Hash(draft[c])
  /\ lock' = None
  /\ \E place \in {"returned", "start"} : Goto(c, place)
  /\ UNCHANGED <<lastId, draft, rowId, keys>>

\* The commit makes the row and the new head visible and frees the lock. If
\* its acknowledgement is lost, record() raises although the row is there.
Commit(c) ==
  /\ pc[c] = "flushed"
  /\ rows' = [i \in DOMAIN rows \cup {rowId[c]} |->
                IF i = rowId[c] THEN draft[c] ELSE rows[i]]
  /\ head' = Hash(draft[c])
  /\ lock' = None
  /\ \E place \in Ended : Goto(c, place)
  /\ UNCHANGED <<lastId, draft, rowId, keys>>

\* Mutant of Rollback: the connection is not closed and keeps its lock.
RollbackLeak(c) ==
  /\ pc[c] \in InTransaction
  /\ Goto(c, "raised")
  /\ UNCHANGED <<ledger, lastId, lock, draft, rowId, keys>>

\* The database, the network or Vault fails: the transaction is rolled back.
Rollback(c) ==
  /\ pc[c] \in InTransaction
  /\ lock' = None
  /\ Goto(c, "raised")
  /\ UNCHANGED <<ledger, lastId, draft, rowId, keys>>

\* The call raises before it ever gets the lock.
Refuse(c) ==
  /\ pc[c] = "start"
  /\ Goto(c, "raised")
  /\ UNCHANGED <<ledger, lastId, lock, draft, rowId, keys>>

\* A replica restarts: the transactions of its calls are rolled back.
Restart(p) ==
  /\ pc' = [c \in Calls |-> IF Host[c] = p /\ pc[c] \in InTransaction
                              THEN "raised" ELSE pc[c]]
  /\ lock' = IF lock # None /\ Host[lock] = p THEN None ELSE lock
  /\ UNCHANGED <<ledger, lastId, draft, rowId, keys>>

-----------------------------------------------------------------------------
(* Keys and verification                                                   *)

\* vault write -f transit/keys/<name>/rotate
RotateKey ==
  /\ version < MaxVersion
  /\ version' = version + 1
  /\ UNCHANGED <<ledger, lastId, lock, pc, draft, rowId, verifierKey>>

\* The control plane fetches the public key when its container is built.
RestartControlPlane ==
  /\ verifierKey' = version
  /\ UNCHANGED <<ledger, lastId, lock, pc, draft, rowId, version>>

Before(table, i) == {j \in DOMAIN table : j < i}

\* What verify_chain expects in a row: the hash of the row it saw before.
ExpectedHash(table, i) ==
  IF Before(table, i) = {} THEN GENESIS_HASH
                           ELSE Hash(table[Max(Before(table, i))])

\* Mutant of Broken: only the signatures are checked.
BadlySigned(table, key) == {i \in DOMAIN table : table[i].key # key}

Broken(table, key) ==
  {i \in DOMAIN table : \/ table[i].previous_hash # ExpectedHash(table, i)
                        \/ table[i].key # key}

\* Where the walk raises ValueError instead of blaming the row: _to_domain cannot
\* build the receipt, or its link is right and bytes.fromhex cannot read its
\* signature. Nobody catches it, and the route answers 500.
Raises(table, i) ==
  \/ table[i].key = NotAReceipt
  \/ table[i].key = NotHex /\ table[i].previous_hash = ExpectedHash(table, i)

\* PostgresReceiptQuery.verify_chain over one snapshot of the table: it stops at
\* the first row that is not as it should be.
VerifyChain(table, key) ==
  LET broken == Broken(table, key)
      first == Min(broken)
  IN
  IF broken = {}
    THEN [raised |-> FALSE, valid |-> TRUE,
          receipts_checked |-> Cardinality(DOMAIN table),
          first_broken_sequence_id |-> None]
    ELSE [raised |-> Raises(table, first), valid |-> FALSE,
          receipts_checked |-> Cardinality(Before(table, first)),
          first_broken_sequence_id |->
            IF Raises(table, first) THEN None ELSE table[first].sequence_id]

-----------------------------------------------------------------------------

Advance(c) ==
  LockHead(c) \/ Sign(c) \/ Flush(c) \/ Commit(c) \/ Rollback(c) \/ Refuse(c)

Next ==
  \/ \E c \in Calls : Advance(c)
  \/ \E p \in Replicas : Restart(p)
  \/ RotateKey
  \/ RestartControlPlane

\* Assumed: Postgres and Vault answer, so that a call of record() keeps going. (The
\* engine of adapters/db/session.py sets no command and no lock timeout.)
Fairness ==
  \A c \in Calls : WF_vars(LockHead(c) \/ Sign(c) \/ Flush(c) \/ Commit(c))

Spec == Init /\ [][Next]_vars /\ Fairness

-----------------------------------------------------------------------------
(* Properties                                                              *)

\* No row of the table lies between these two.
Adjacent(table, j, i) ==
  j < i /\ \A k \in DOMAIN table : ~(j < k /\ k < i)

\* ADR-0003, ADR-0009: whatever replicas write at once and wherever they fail,
\* the committed rows in id order form one chain that starts at the genesis
\* hash, and the head that the next writer reads is the hash of its last row.
ChainIntact ==
  /\ \A i \in DOMAIN rows :
       Before(rows, i) = {} => rows[i].previous_hash = GENESIS_HASH
  /\ \A i, j \in DOMAIN rows :
       Adjacent(rows, j, i) => rows[i].previous_hash = Hash(rows[j])
  /\ DOMAIN rows = {} => head = GENESIS_HASH
  /\ \A i \in DOMAIN rows :
       (\A j \in DOMAIN rows : j <= i) => head = Hash(rows[i])

\* A call of record() leaves one row at most, and one exactly if it returned
\* a receipt; only a call that raised may or may not have left one.
OneRowPerCall ==
  /\ \A i, j \in DOMAIN rows :
       rows[i].sequence_id = rows[j].sequence_id => i = j
  /\ \A i \in DOMAIN rows : pc[rows[i].sequence_id] \in Ended
  /\ \A c \in Calls : pc[c] = "returned" =>
       \E i \in DOMAIN rows : rows[i].sequence_id = c

Accepted(table) == VerifyChain(table, verifierKey).valid

\* Row i after an edit that leaves it worth this to the verifier.
Edited(i, worth) == [rows EXCEPT ![i] = [@ EXCEPT !.key = worth]]
Edits == {NoKey, NotHex, NotAReceipt}
Swapped(i, j) == [rows EXCEPT ![i] = rows[j], ![j] = rows[i]]

\* ADR-0003: the chain is tamper-evident. On a ledger nobody tampered with,
\* verify_chain blames no link, only rows signed with another version of the
\* key. Whatever rows somebody with write access to the table deletes, it
\* accepts the rest only if they were the last ones; it accepts no two rows
\* exchanged and no row edited, however the edit leaves it. On an otherwise
\* valid ledger it names the edited row if that can still be read as a receipt,
\* and raises, naming none, if it cannot.
TamperEvident ==
  /\ Broken(rows, verifierKey) = {i \in DOMAIN rows : rows[i].key # verifierKey}
  /\ \A left \in SUBSET DOMAIN rows :
       Accepted(Restrict(rows, left)) =>
         \A i \in left : Before(rows, i) \subseteq left
  /\ \A i, j \in DOMAIN rows : i # j => ~Accepted(Swapped(i, j))
  /\ \A i \in DOMAIN rows, worth \in Edits :
       LET answer == VerifyChain(Edited(i, worth), verifierKey) IN
       /\ ~answer.valid
       /\ Accepted(rows) =>
            IF worth = NoKey
              THEN answer.first_broken_sequence_id = rows[i].sequence_id
              ELSE answer.raised

\* Committed rows never change or vanish, and a new row is numbered after all
\* of them: ORDER BY id is the order of the commits, so nothing is ever
\* inserted before what a reader has already seen.
AppendOnly ==
  [][/\ \A i \in DOMAIN rows : i \in DOMAIN rows' /\ rows'[i] = rows[i]
     /\ \A i \in DOMAIN rows, k \in DOMAIN rows' \ DOMAIN rows : i < k]_rows

\* The table read in id order is the log of the Ledger port.
Log ==
  [k \in 1..Cardinality(DOMAIN rows) |->
     rows[CHOOSE i \in DOMAIN rows :
            Cardinality(Before(rows, i)) = k - 1].sequence_id]

Port == INSTANCE Ledger WITH log <- Log

\* Every step of the chained ledger is an append to the port's log, or none.
PortSpec == Port!Spec

\* As long as Postgres answers, every call of record() returns or raises: no
\* writer waits for ever on the row lock, whoever fails while holding it.
EveryRecordEnds == \A c \in Calls : pc[c] = "start" ~> pc[c] \in Ended

-----------------------------------------------------------------------------
(* The inductive invariant behind ChainIntact and OneRowPerCall: one call at *)
(* most is in a transaction, it holds the lock, what it read is still the    *)
(* head, and the id it was given is above every row's.                       *)

LockHolder(c) == pc[c] \in InTransaction <=> lock = c
Drafted(c) == pc[c] \in InTransaction =>
  draft[c] = [sequence_id |-> c, previous_hash |-> head, key |-> draft[c].key]
Signed(c) == pc[c] \in {"signed", "flushed"} => draft[c].key \in Versions
Numbered(c) == pc[c] = "flushed" =>
  0 < lastId /\ rowId[c] = lastId /\ \A i \in DOMAIN rows : i < lastId

CallInv(c) == LockHolder(c) /\ Drafted(c) /\ Signed(c) /\ Numbered(c)

IInv == TypeOK /\ ChainIntact /\ OneRowPerCall /\ \A c \in Calls : CallInv(c)

\* The safety half of EveryRecordEnds: whoever holds the row lock of the head is
\* a call that is in its transaction, so that the lock ends with it.
LockIsAWriters == lock # None => \E c \in Calls : lock = c /\ pc[c] \in InTransaction

=============================================================================

------------------------ MODULE ReceiptChain_proofs ------------------------
(***************************************************************************)
(* Proofs about ReceiptChain and the reader of ReceiptReads, for any       *)
(* number of record() calls and replicas, any placement of the calls, any  *)
(* number of key versions, filters and page sizes.                         *)
(***************************************************************************)
EXTENDS ReceiptReads, FiniteSetTheorems, SequenceTheorems, TLAPS

\* The empty table with the genesis head satisfies the inductive invariant.
LEMMA IInvInit == Init => IInv
<1> SUFFICES ASSUME Init PROVE IInv
  OBVIOUS
<1>1. TypeOK
  BY VersionAssumption DEF Init, TypeOK, Versions, Places, InTransaction, Ended
<1>2. ChainIntact
  BY DEF Init, ChainIntact
<1>3. OneRowPerCall
  BY DEF Init, OneRowPerCall
<1>4. ASSUME NEW c \in Calls PROVE CallInv(c)
  BY NoneAssumption
  DEF Init, CallInv, LockHolder, Drafted, Signed, Numbered, InTransaction
<1>5. QED
  BY <1>1, <1>2, <1>3, <1>4 DEF IInv

-----------------------------------------------------------------------------
(* A commit extends the chain by one row.                                  *)

\* The row a commit adds is the last one, linked to the head it replaces.
LEMMA CommitExtends ==
  ASSUME IInv, NEW c \in Calls, Commit(c)
  PROVE  /\ DOMAIN rows' = DOMAIN rows \cup {lastId}
         /\ \A i \in DOMAIN rows : i < lastId /\ rows'[i] = rows[i]
         /\ rows'[lastId] = draft[c]
         /\ draft[c].previous_hash = head
         /\ draft[c].sequence_id = c
         /\ draft[c].key \in Versions
         /\ head' = Hash(draft[c])
         /\ lastId \in Nat \ {0}
         /\ DOMAIN rows \subseteq Nat
<1>1. /\ 0 < lastId
      /\ rowId[c] = lastId
      /\ \A i \in DOMAIN rows : i < lastId
      /\ draft[c] = [sequence_id |-> c, previous_hash |-> head, key |-> draft[c].key]
      /\ draft[c].key \in Versions
  BY DEF Commit, IInv, CallInv, Drafted, Signed, Numbered, InTransaction
<1>2. lastId \in Nat /\ DOMAIN rows \subseteq Nat
  BY DEF IInv, TypeOK
<1>3. draft[c].previous_hash = head /\ draft[c].sequence_id = c
  BY <1>1
<1>4. QED
  BY <1>1, <1>2, <1>3 DEF Commit

\* A commit keeps the chain whole: its row hangs on the old last row, or on
\* the genesis hash, and the head becomes its hash.
LEMMA CommitKeepsChain ==
  ASSUME IInv, NEW c \in Calls, Commit(c)
  PROVE  ChainIntact'
<1> DEFINE ids == DOMAIN rows
<1>0. /\ DOMAIN rows' = ids \cup {lastId}
      /\ \A i \in ids : i < lastId /\ rows'[i] = rows[i]
      /\ rows'[lastId] = draft[c]
      /\ draft[c].previous_hash = head
      /\ head' = Hash(draft[c])
      /\ lastId \in Nat /\ ids \subseteq Nat
  BY CommitExtends
<1>1. ChainIntact
  BY DEF IInv
<1>2. ASSUME NEW i \in DOMAIN rows', Before(rows', i) = {}
      PROVE  rows'[i].previous_hash = GENESIS_HASH
  <2>1. CASE i \in ids
    BY <1>0, <1>1, <1>2, <2>1 DEF ChainIntact, Before
  <2>2. CASE i = lastId
    BY <1>0, <1>1, <1>2, <2>2 DEF ChainIntact, Before
  <2>3. QED
    BY <1>0, <2>1, <2>2
<1>3. ASSUME NEW i \in DOMAIN rows', NEW j \in DOMAIN rows', Adjacent(rows', j, i)
      PROVE  rows'[i].previous_hash = Hash(rows'[j])
  <2>1. j \in ids /\ rows'[j] = rows[j]
    BY <1>0, <1>3 DEF Adjacent
  <2>2. CASE i \in ids
    <3>1. Adjacent(rows, j, i)
      BY <1>0, <1>3, <2>1, <2>2 DEF Adjacent
    <3>2. QED
      BY <1>0, <1>1, <2>1, <2>2, <3>1 DEF ChainIntact
  <2>3. CASE i = lastId
    <3>1. \A k \in ids : k <= j
      BY <1>0, <1>3, <2>1, <2>3 DEF Adjacent
    <3>2. QED
      BY <1>0, <1>1, <2>1, <2>3, <3>1 DEF ChainIntact
  <2>4. QED
    BY <1>0, <2>2, <2>3
<1>4. ASSUME NEW i \in DOMAIN rows', \A j \in DOMAIN rows' : j <= i
      PROVE  head' = Hash(rows'[i])
  BY <1>0, <1>4
<1>5. DOMAIN rows' # {}
  BY <1>0
<1>6. QED
  BY <1>2, <1>3, <1>4, <1>5 DEF ChainIntact

\* A commit adds the only row of its call, which is in no transaction any more.
LEMMA CommitKeepsRowPerCall ==
  ASSUME IInv, NEW c \in Calls, Commit(c)
  PROVE  OneRowPerCall'
<1>0. /\ DOMAIN rows' = DOMAIN rows \cup {lastId}
      /\ \A i \in DOMAIN rows : i < lastId /\ rows'[i] = rows[i]
      /\ rows'[lastId] = draft[c]
      /\ draft[c].sequence_id = c
      /\ lastId \in Nat /\ DOMAIN rows \subseteq Nat
  BY CommitExtends
<1>1. /\ pc[c] = "flushed"
      /\ pc'[c] \in Ended
      /\ \A d \in Calls \ {c} : pc'[d] = pc[d]
  BY DEF Commit, Goto, IInv, TypeOK, Ended
<1>2. OneRowPerCall
  BY DEF IInv
<1>3. \A i \in DOMAIN rows : rows[i].sequence_id \in Calls /\ rows[i].sequence_id # c
  BY <1>1, <1>2 DEF OneRowPerCall, Ended, IInv, TypeOK
<1>4. \A i, j \in DOMAIN rows' : rows'[i].sequence_id = rows'[j].sequence_id => i = j
  BY <1>0, <1>2, <1>3 DEF OneRowPerCall
<1>5. \A i \in DOMAIN rows' : pc'[rows'[i].sequence_id] \in Ended
  BY <1>0, <1>1, <1>2, <1>3 DEF OneRowPerCall
<1>6. ASSUME NEW d \in Calls, pc'[d] = "returned"
      PROVE  \E i \in DOMAIN rows' : rows'[i].sequence_id = d
  <2>1. CASE d = c
    BY <1>0, <2>1
  <2>2. CASE d # c
    BY <1>0, <1>1, <1>2, <1>6, <2>2 DEF OneRowPerCall
  <2>3. QED
    BY <2>1, <2>2
<1>7. QED
  BY <1>4, <1>5, <1>6 DEF OneRowPerCall

-----------------------------------------------------------------------------
(* The other steps leave the rows and the head alone.                      *)

\* A step that commits nothing keeps the chain, and the rows of ended calls.
LEMMA LedgerKept ==
  ASSUME IInv, UNCHANGED ledger,
         \A c \in Calls : pc[c] \in Ended => pc'[c] = pc[c],
         \A c \in Calls : pc'[c] = "returned" => pc[c] = "returned"
  PROVE  ChainIntact' /\ OneRowPerCall'
<1>1. rows' = rows /\ head' = head /\ ChainIntact /\ OneRowPerCall /\ TypeOK
  BY DEF ledger, IInv
<1>2. ChainIntact'
  BY <1>1 DEF ChainIntact, Before, Adjacent, Hash
<1>3. OneRowPerCall'
  BY <1>1 DEF OneRowPerCall, TypeOK
<1>4. QED
  BY <1>2, <1>3

\* The type invariant and what the place of each call says, action by action.
LEMMA CallStep ==
  IInv /\ [Next]_vars => TypeOK' /\ \A d \in Calls : CallInv(d)'
<1> SUFFICES ASSUME IInv, [Next]_vars
             PROVE  TypeOK' /\ \A d \in Calls : CallInv(d)'
  OBVIOUS
<1> USE NoneAssumption, VersionAssumption, HostAssumption
    DEF TypeOK, CallInv, LockHolder, Drafted, Signed, Numbered, Versions,
        InTransaction, Ended, Places, Goto, ledger, keys
<1>0. TypeOK /\ (\A d \in Calls : CallInv(d))
  BY DEF IInv
<1>1. ASSUME NEW c \in Calls, LockHead(c)
      PROVE  TypeOK' /\ \A d \in Calls : CallInv(d)'
  BY <1>0, <1>1 DEF LockHead
<1>2. ASSUME NEW c \in Calls, Sign(c)
      PROVE  TypeOK' /\ \A d \in Calls : CallInv(d)'
  BY <1>0, <1>2 DEF Sign
<1>3. ASSUME NEW c \in Calls, Flush(c)
      PROVE  TypeOK' /\ \A d \in Calls : CallInv(d)'
  BY <1>0, <1>3 DEF Flush
<1>4. ASSUME NEW c \in Calls, Commit(c)
      PROVE  TypeOK' /\ \A d \in Calls : CallInv(d)'
  <2>1. /\ DOMAIN rows' = DOMAIN rows \cup {lastId}
        /\ \A i \in DOMAIN rows : rows'[i] = rows[i]
        /\ rows'[lastId] = draft[c]
        /\ draft[c].sequence_id = c /\ draft[c].key \in 1..MaxVersion
        /\ lastId \in Nat \ {0}
    BY <1>4, CommitExtends DEF Versions
  <2>2. /\ pc[c] = "flushed" /\ lock = c /\ lock' = None
        /\ UNCHANGED <<lastId, draft, rowId, version, verifierKey>>
        /\ pc' \in [Calls -> Places] /\ pc'[c] \in Ended
        /\ \A d \in Calls \ {c} : pc'[d] = pc[d] /\ lock # d
    BY <1>0, <1>4 DEF Commit
  <2>3. TypeOK'
    BY <1>0, <2>1, <2>2
  <2>4. \A d \in Calls : CallInv(d)'
    BY <1>0, <2>2
  <2>5. QED
    BY <2>3, <2>4
<1>5. ASSUME NEW c \in Calls, Rollback(c)
      PROVE  TypeOK' /\ \A d \in Calls : CallInv(d)'
  BY <1>0, <1>5 DEF Rollback
<1>6. ASSUME NEW c \in Calls, Refuse(c)
      PROVE  TypeOK' /\ \A d \in Calls : CallInv(d)'
  BY <1>0, <1>6 DEF Refuse
<1>7. ASSUME NEW p \in Replicas, Restart(p)
      PROVE  TypeOK' /\ \A d \in Calls : CallInv(d)'
  BY <1>0, <1>7 DEF Restart
<1>8. CASE RotateKey
  BY <1>0, <1>8 DEF RotateKey
<1>9. CASE RestartControlPlane
  BY <1>0, <1>9 DEF RestartControlPlane
<1>10. CASE UNCHANGED vars
  BY <1>0, <1>10 DEF vars
<1>11. QED
  BY <1>1, <1>2, <1>3, <1>4, <1>5, <1>6, <1>7, <1>8, <1>9, <1>10 DEF Next, Advance

\* Every step of a writer, a restart or a rotation keeps the invariant.
LEMMA IInvStep == IInv /\ [Next]_vars => IInv'
<1> SUFFICES ASSUME IInv, [Next]_vars PROVE IInv'
  OBVIOUS
<1>1. TypeOK' /\ \A d \in Calls : CallInv(d)'
  BY CallStep
<1>2. CASE \E c \in Calls : Commit(c)
  BY <1>1, <1>2, CommitKeepsChain, CommitKeepsRowPerCall DEF IInv
<1>3. CASE \/ \E c \in Calls : LockHead(c) \/ Sign(c) \/ Flush(c)
                              \/ Rollback(c) \/ Refuse(c)
           \/ \E p \in Replicas : Restart(p)
           \/ RotateKey \/ RestartControlPlane
           \/ UNCHANGED vars
  <2>1. /\ UNCHANGED ledger
        /\ \A d \in Calls : pc[d] \in Ended => pc'[d] = pc[d]
        /\ \A d \in Calls : pc'[d] = "returned" => pc[d] = "returned"
    BY <1>3
    DEF LockHead, Sign, Flush, Rollback, Refuse, Restart, RotateKey,
        RestartControlPlane, vars, ledger, Goto, Ended, InTransaction, IInv, TypeOK
  <2>2. QED
    BY <1>1, <2>1, LedgerKept DEF IInv
<1>4. QED
  BY <1>2, <1>3 DEF Next, Advance

-----------------------------------------------------------------------------
(* The theorems.                                                           *)

\* The inductive invariant of the ledger holds of every behaviour.
THEOREM InductiveInvariant == Spec => []IInv
  BY IInvInit, IInvStep, PTL DEF Spec

\* Every variable of the ledger keeps its type.
THEOREM TypeCorrect == Spec => []TypeOK
<1>1. IInv => TypeOK
  BY DEF IInv
<1>2. QED
  BY InductiveInvariant, <1>1, PTL

\* Whatever replicas write at once and wherever they fail, the committed rows
\* form one chain from the genesis hash to the head.
THEOREM ChainStaysIntact == Spec => []ChainIntact
<1>1. IInv => ChainIntact
  BY DEF IInv
<1>2. QED
  BY InductiveInvariant, <1>1, PTL

\* A call of record() that returned has exactly one row, and any call has at
\* most one.
THEOREM OneReceiptPerCall == Spec => []OneRowPerCall
<1>1. IInv => OneRowPerCall
  BY DEF IInv
<1>2. QED
  BY InductiveInvariant, <1>1, PTL

\* However a writer fails, it leaves no row lock behind for the others to wait for.
THEOREM LockIsHeldByAWriter == Spec => []LockIsAWriters
<1>1. IInv => LockIsAWriters
  BY DEF IInv, TypeOK, CallInv, LockHolder, LockIsAWriters
<1>2. QED
  BY InductiveInvariant, <1>1, PTL

\* Only a commit changes the table.
LEMMA OthersKeepRows ==
  ASSUME [Next]_vars, ~ \E c \in Calls : Commit(c)
  PROVE  UNCHANGED rows
BY DEF Next, Advance, LockHead, Sign, Flush, Rollback, Refuse, Restart,
       RotateKey, RestartControlPlane, vars, ledger

\* Rows stay what they are, and new ones come after all of them.
LEMMA RowsGrow ==
  ASSUME IInv, [Next]_vars
  PROVE  /\ \A i \in DOMAIN rows : i \in DOMAIN rows' /\ rows'[i] = rows[i]
         /\ \A i \in DOMAIN rows, k \in DOMAIN rows' \ DOMAIN rows : i < k
<1>1. CASE \E c \in Calls : Commit(c)
  BY <1>1, CommitExtends
<1>2. CASE ~ \E c \in Calls : Commit(c)
  BY <1>2, OthersKeepRows
<1>3. QED
  BY <1>1, <1>2

\* The table only grows, and only at its end.
THEOREM TableAppendOnly == Spec => AppendOnly
<1> DEFINE Grows ==
      /\ \A i \in DOMAIN rows : i \in DOMAIN rows' /\ rows'[i] = rows[i]
      /\ \A i \in DOMAIN rows, k \in DOMAIN rows' \ DOMAIN rows : i < k
<1>1. IInv /\ [Next]_vars => Grows
  BY RowsGrow
<1>2. QED
  BY <1>1, InductiveInvariant, PTL DEF Spec, AppendOnly

-----------------------------------------------------------------------------
(* The table in id order is the log of the Ledger port.                    *)

\* What Append leaves of a sequence, and where it puts the new element.
LEMMA AppendFacts ==
  ASSUME NEW S, NEW s \in Seq(S), NEW e \in S
  PROVE  /\ Append(s, e) \in Seq(S)
         /\ Len(s) \in Nat
         /\ DOMAIN s = 1..Len(s)
         /\ DOMAIN Append(s, e) = 1..(Len(s) + 1)
         /\ \A i \in 1..Len(s) : Append(s, e)[i] = s[i]
         /\ Append(s, e)[Len(s) + 1] = e
         /\ Append(s, e) = [i \in 1..(Len(s) + 1) |-> Append(s, e)[i]]
<1>1. Append(s, e) \in [1..Len(Append(s, e)) -> S]
  BY AppendProperties, LenProperties
<1>2. /\ Append(s, e) \in Seq(S)
      /\ Len(s) \in Nat
      /\ Len(Append(s, e)) = Len(s) + 1
      /\ DOMAIN s = 1..Len(s)
      /\ DOMAIN Append(s, e) = 1..(Len(s) + 1)
      /\ \A i \in 1..Len(s) : Append(s, e)[i] = s[i]
      /\ Append(s, e)[Len(s) + 1] = e
  OBVIOUS
<1>3. QED
  BY <1>1, <1>2
\* Rows are ranked by the number of rows before them, without gaps.
Ranked ==
  \A k \in 1..Cardinality(DOMAIN rows) :
    \E i \in DOMAIN rows : Cardinality(Before(rows, i)) = k - 1

\* What comes before a row of a table whose ids are bounded is finite.
LEMMA BeforeIsFinite ==
  ASSUME NEW n \in Nat, NEW t, DOMAIN t \subseteq 1..n, NEW i
  PROVE  /\ IsFiniteSet(DOMAIN t) /\ Cardinality(DOMAIN t) \in Nat
         /\ IsFiniteSet(Before(t, i)) /\ Cardinality(Before(t, i)) \in Nat
<1>1. IsFiniteSet(1..n)
  BY FS_Interval
<1>2. Before(t, i) \in SUBSET (1..n) /\ DOMAIN t \in SUBSET (1..n)
  BY DEF Before
<1>3. IsFiniteSet(Before(t, i)) /\ IsFiniteSet(DOMAIN t)
  BY <1>1, <1>2, FS_Subset
<1>4. QED
  BY <1>3, FS_CardinalityType

\* No two rows have the same rank.
LEMMA RankIsUnique ==
  ASSUME NEW n \in Nat, NEW t, DOMAIN t \subseteq 1..n,
         NEW i \in DOMAIN t, NEW j \in DOMAIN t, i < j
  PROVE  Cardinality(Before(t, i)) # Cardinality(Before(t, j))
<1>1. Before(t, i) \in SUBSET Before(t, j)
  BY DEF Before
<1>2. i \in Before(t, j) /\ i \notin Before(t, i)
  BY DEF Before
<1>3. IsFiniteSet(Before(t, j))
  BY BeforeIsFinite
<1>4. Cardinality(Before(t, j)) = Cardinality(Before(t, i)) => Before(t, j) = Before(t, i)
  BY <1>1, <1>3, FS_Subset
<1>5. QED
  BY <1>2, <1>4

\* The row that Log picks at a rank is the row of that rank.
LEMMA RankedRow ==
  ASSUME NEW n \in Nat, NEW t, DOMAIN t \subseteq 1..n, NEW i \in DOMAIN t,
         NEW k, Cardinality(Before(t, i)) = k - 1
  PROVE  (CHOOSE j \in DOMAIN t : Cardinality(Before(t, j)) = k - 1) = i
<1>1. \A j \in DOMAIN t : Cardinality(Before(t, j)) = k - 1 => j = i
  BY RankIsUnique
<1>2. QED
  BY <1>1

\* A commit ranks its row after all others, and leaves their ranks alone.
LEMMA CommitRanks ==
  ASSUME IInv, NEW c \in Calls, Commit(c)
  PROVE  /\ Cardinality(DOMAIN rows) \in Nat
         /\ Cardinality(DOMAIN rows') = Cardinality(DOMAIN rows) + 1
         /\ \A i \in DOMAIN rows : Before(rows', i) = Before(rows, i)
         /\ Before(rows', lastId) = DOMAIN rows
         /\ DOMAIN rows \subseteq 1..lastId
         /\ DOMAIN rows' \subseteq 1..lastId
<1>1. /\ DOMAIN rows' = DOMAIN rows \cup {lastId}
      /\ \A i \in DOMAIN rows : i < lastId
      /\ lastId \in Nat \ {0} /\ DOMAIN rows \subseteq Nat
  BY CommitExtends
<1>2. DOMAIN rows \subseteq 1..lastId
  BY DEF IInv, TypeOK
<1>3. IsFiniteSet(DOMAIN rows) /\ Cardinality(DOMAIN rows) \in Nat
  BY <1>1, <1>2, BeforeIsFinite
<1>4. Cardinality(DOMAIN rows') = Cardinality(DOMAIN rows) + 1
  BY <1>1, <1>3, FS_AddElement
<1>5. \A i \in DOMAIN rows : Before(rows', i) = Before(rows, i)
  BY <1>1 DEF Before
<1>6. Before(rows', lastId) = DOMAIN rows
  BY <1>1 DEF Before
<1>7. QED
  BY <1>1, <1>2, <1>3, <1>4, <1>5, <1>6

\* Every step keeps the ranks without gaps.
LEMMA RankedStep == IInv /\ Ranked /\ [Next]_vars => Ranked'
<1> SUFFICES ASSUME IInv, Ranked, [Next]_vars PROVE Ranked'
  OBVIOUS
<1>1. ASSUME NEW c \in Calls, Commit(c) PROVE Ranked'
  <2> DEFINE n == Cardinality(DOMAIN rows)
  <2>0. /\ n \in Nat
        /\ Cardinality(DOMAIN rows') = n + 1
        /\ \A i \in DOMAIN rows : Before(rows', i) = Before(rows, i)
        /\ Before(rows', lastId) = DOMAIN rows
        /\ DOMAIN rows' = DOMAIN rows \cup {lastId}
    BY <1>1, CommitRanks, CommitExtends
  <2>1. ASSUME NEW k \in 1..Cardinality(DOMAIN rows')
        PROVE  \E i \in DOMAIN rows' : Cardinality(Before(rows', i)) = k - 1
    <3>1. CASE k \in 1..n
      <4>1. PICK i \in DOMAIN rows : Cardinality(Before(rows, i)) = k - 1
        BY <3>1 DEF Ranked
      <4>2. Cardinality(Before(rows', i)) = k - 1 /\ i \in DOMAIN rows'
        BY <2>0, <4>1
      <4>3. QED
        BY <4>2
    <3>2. CASE k = n + 1
      <4>1. Cardinality(Before(rows', lastId)) = k - 1 /\ lastId \in DOMAIN rows'
        BY <2>0, <3>2
      <4>2. QED
        BY <4>1
    <3>3. QED
      BY <2>0, <2>1, <3>1, <3>2
  <2>2. QED
    BY <2>1 DEF Ranked
<1>2. CASE ~ \E c \in Calls : Commit(c)
  <2>1. rows' = rows
    BY <1>2, OthersKeepRows
  <2>2. QED
    BY <2>1 DEF Ranked, Before
<1>3. QED
  BY <1>1, <1>2

\* A commit appends its call to the log.
LEMMA CommitAppends ==
  ASSUME IInv, Ranked, NEW c \in Calls, Commit(c)
  PROVE  Port!Append_(c)
<1> DEFINE n == Cardinality(DOMAIN rows)
<1>1. /\ n \in Nat
      /\ Cardinality(DOMAIN rows') = n + 1
      /\ \A i \in DOMAIN rows : Before(rows', i) = Before(rows, i)
      /\ Before(rows', lastId) = DOMAIN rows
      /\ DOMAIN rows \subseteq 1..lastId
      /\ DOMAIN rows' \subseteq 1..lastId
  BY CommitRanks
<1>2. /\ DOMAIN rows' = DOMAIN rows \cup {lastId}
      /\ \A i \in DOMAIN rows : rows'[i] = rows[i]
      /\ rows'[lastId].sequence_id = c
      /\ lastId \in Nat
  BY CommitExtends
<1>3. \A i \in DOMAIN rows : rows[i].sequence_id \in Calls \ {c}
  BY DEF Commit, IInv, TypeOK, OneRowPerCall, Ended
<1>4. DOMAIN Log = 1..n /\ DOMAIN Log' = 1..(n + 1)
  BY <1>1 DEF Log
<1>5. ASSUME NEW k \in 1..n PROVE Log'[k] = Log[k] /\ Log[k] \in Calls \ {c}
  <2>1. PICK i \in DOMAIN rows : Cardinality(Before(rows, i)) = k - 1
    BY DEF Ranked
  <2>2. (CHOOSE j \in DOMAIN rows : Cardinality(Before(rows, j)) = k - 1) = i
    BY <1>1, <1>2, <2>1, RankedRow
  <2>3. i \in DOMAIN rows' /\ Cardinality(Before(rows', i)) = k - 1
    BY <1>1, <1>2, <2>1
  <2>4. (CHOOSE j \in DOMAIN rows' : Cardinality(Before(rows', j)) = k - 1) = i
    BY <1>1, <1>2, <2>3, RankedRow
  <2>5. Log[k] = rows[i].sequence_id
    BY <2>2 DEF Log
  <2>6. k \in 1..Cardinality(DOMAIN rows')
    BY <1>1
  <2>7. Log'[k] = rows'[i].sequence_id
    BY <2>4, <2>6 DEF Log
  <2>8. QED
    BY <1>2, <1>3, <2>5, <2>7
<1>6. Log'[n + 1] = c
  <2>1. Cardinality(Before(rows', lastId)) = (n + 1) - 1 /\ lastId \in DOMAIN rows'
    BY <1>1, <1>2
  <2>2. (CHOOSE j \in DOMAIN rows' : Cardinality(Before(rows', j)) = (n + 1) - 1) = lastId
    BY <1>1, <1>2, <2>1, RankedRow
  <2>3. n + 1 \in 1..Cardinality(DOMAIN rows')
    BY <1>1
  <2>4. Log'[n + 1] = rows'[lastId].sequence_id
    BY <2>2, <2>3 DEF Log
  <2>5. QED
    BY <1>2, <2>4
<1>7. Log = [k \in 1..n |-> Log[k]] /\ Log' = [k \in 1..(n + 1) |-> Log'[k]]
  BY <1>1, <1>4 DEF Log
<1> HIDE DEF n
<1>8. Log \in Seq(Calls) /\ Len(Log) = n
  BY <1>1, <1>4, <1>5, <1>7
<1>9. /\ \A k \in 1..n : Append(Log, c)[k] = Log[k]
      /\ Append(Log, c)[n + 1] = c
      /\ Append(Log, c) = [k \in 1..(n + 1) |-> Append(Log, c)[k]]
  BY <1>8, AppendFacts
<1>10. \A k \in 1..(n + 1) : Append(Log, c)[k] = Log'[k]
  BY <1>1, <1>5, <1>6, <1>9
<1>11. Log' = Append(Log, c)
  BY <1>7, <1>9, <1>10
<1>12. \A k \in DOMAIN Log : Log[k] # c
  BY <1>4, <1>5
<1>13. QED
  BY <1>11, <1>12 DEF Port!Append_

\* For any number of replicas, failures and restarts, the chained ledger
\* implements the Ledger port: record() appends one receipt to a single log or
\* leaves it alone.
THEOREM ChainImplementsPort == Spec => PortSpec
<1>1. Init => Ranked /\ Port!Init
  <2> SUFFICES ASSUME Init PROVE Ranked /\ Log = <<>>
    BY DEF Port!Init
  <2>1. DOMAIN rows = {}
    BY DEF Init
  <2>2. 1..Cardinality(DOMAIN rows) = {}
    BY <2>1, FS_EmptySet
  <2>3. QED
    BY <2>2 DEF Ranked, Log
<1>2. IInv /\ Ranked /\ [Next]_vars => [Port!Next]_Log
  <2> SUFFICES ASSUME IInv, Ranked, [Next]_vars PROVE [Port!Next]_Log
    OBVIOUS
  <2>1. CASE \E c \in Calls : Commit(c)
    BY <2>1, CommitAppends DEF Port!Next
  <2>2. CASE ~ \E c \in Calls : Commit(c)
    <3>1. rows' = rows
      BY <2>2, OthersKeepRows
    <3>2. QED
      BY <3>1 DEF Log, Before
  <2>3. QED
    BY <2>1, <2>2
<1>3. QED
  BY <1>1, <1>2, RankedStep, InductiveInvariant, PTL DEF Spec, PortSpec, Port!Spec

-----------------------------------------------------------------------------
(* Tampering with the table shows.                                         *)

\* A set of numbers has a least one: the smallest of the intervals 0..k that
\* end in it, which are finite sets under the well-founded strict inclusion.
LEMMA MinIsLeast ==
  ASSUME NEW S, S \subseteq Nat, S # {}
  PROVE  Min(S) \in S /\ \A u \in S : Min(S) <= u
<1> DEFINE Prefixes == {0..k : k \in S}
<1>1. Prefixes \subseteq FiniteSubsetsOf(Nat)
  <2>1. SUFFICES ASSUME NEW k \in S PROVE 0..k \in SUBSET Nat /\ IsFiniteSet(0..k)
    BY DEF FiniteSubsetsOf
  <2>2. IsFiniteSet(0..k)
    BY FS_Interval
  <2>3. QED
    BY <2>2
<1>2. Prefixes # {}
  OBVIOUS
<1>3. PICK p \in Prefixes : \A q \in Prefixes : <<q, p>> \notin StrictSubsetOrdering(Nat)
  <2> HIDE DEF Prefixes
  <2>1. QED
    BY <1>1, <1>2, FS_StrictSubsetOrderingWellFounded, WFMin
<1>4. PICK k \in S : p = 0..k
  OBVIOUS
<1>5. ASSUME NEW u \in S, ~(k <= u) PROVE FALSE
  <2>1. 0..u \subseteq 0..k /\ 0..u # 0..k
    <3>1. u < k /\ k \in 0..k /\ k \notin 0..u
      BY <1>5
    <3>2. QED
      BY <3>1
  <2>2. <<0..u, 0..k>> \in StrictSubsetOrdering(Nat)
    BY <2>1 DEF StrictSubsetOrdering
  <2>3. QED
    BY <1>3, <1>4, <2>2
<1>6. QED
  BY <1>5 DEF Min

\* A bounded set of numbers has a greatest one: the least distance to the bound.
LEMMA MaxIsGreatest ==
  ASSUME NEW n \in Nat, NEW S, S \subseteq 1..n, S # {}
  PROVE  Max(S) \in S /\ \A u \in S : u <= Max(S)
<1> DEFINE T == {n - u : u \in S}
<1>1. T \subseteq Nat /\ T # {}
  OBVIOUS
<1>2. Min(T) \in T /\ \A d \in T : Min(T) <= d
  <2> HIDE DEF T
  <2>1. QED
    BY <1>1, MinIsLeast
<1>3. PICK m \in S : Min(T) = n - m
  BY <1>2
<1>4. \A u \in S : u <= m
  <2>1. SUFFICES ASSUME NEW u \in S PROVE u <= m
    OBVIOUS
  <2>2. n - u \in T
    OBVIOUS
  <2>3. n - m <= n - u
    BY <1>2, <1>3, <2>2
  <2>4. m \in 1..n /\ u \in 1..n
    OBVIOUS
  <2>5. QED
    BY <2>3, <2>4
<1>5. QED
  BY <1>4 DEF Max

\* A digest determines its row, and is never the genesis hash.
LEMMA HashIsInjective ==
  ASSUME NEW a, NEW b
  PROVE  /\ Hash(a) = Hash(b) => a = b
         /\ Hash(a) # GENESIS_HASH
<1>1. <<a>>[1] = a /\ <<b>>[1] = b
  OBVIOUS
<1>2. <<a>> # << >>
  OBVIOUS
<1>3. QED
  BY <1>1, <1>2 DEF Hash, GENESIS_HASH

\* verify_chain accepts a table with no broken row, and no other.
LEMMA AcceptedIsUnbroken ==
  ASSUME NEW t
  PROVE  Accepted(t) <=> Broken(t, verifierKey) = {}
BY DEF Accepted, VerifyChain

\* What verify_chain saw before a row is the row next to it.
LEMMA PredecessorIsAdjacent ==
  ASSUME NEW n \in Nat, NEW t, DOMAIN t \subseteq 1..n, NEW i \in DOMAIN t,
         Before(t, i) # {}
  PROVE  /\ Max(Before(t, i)) \in DOMAIN t
         /\ Adjacent(t, Max(Before(t, i)), i)
<1>1. Before(t, i) \subseteq 1..n
  BY DEF Before
<1>2. Max(Before(t, i)) \in Before(t, i) /\ \A u \in Before(t, i) : u <= Max(Before(t, i))
  BY <1>1, MaxIsGreatest
<1>3. QED
  BY <1>2 DEF Before, Adjacent

\* The rows are the records that were drafted.
Records ==
  \A i \in DOMAIN rows :
    rows[i] = [sequence_id |-> rows[i].sequence_id,
               previous_hash |-> rows[i].previous_hash, key |-> rows[i].key]

\* Every step keeps the rows records.
LEMMA RecordsStep == IInv /\ Records /\ [Next]_vars => Records'
<1> SUFFICES ASSUME IInv, Records, [Next]_vars PROVE Records'
  OBVIOUS
<1>1. ASSUME NEW c \in Calls, Commit(c) PROVE Records'
  <2>1. /\ DOMAIN rows' = DOMAIN rows \cup {lastId}
        /\ \A i \in DOMAIN rows : rows'[i] = rows[i]
        /\ rows'[lastId] = draft[c]
    BY <1>1, CommitExtends
  <2>2. draft[c] = [sequence_id |-> c, previous_hash |-> head, key |-> draft[c].key]
    BY <1>1 DEF Commit, IInv, CallInv, Drafted, InTransaction
  <2>3. draft[c] = [sequence_id |-> draft[c].sequence_id,
                    previous_hash |-> draft[c].previous_hash, key |-> draft[c].key]
    BY <2>2
  <2>4. ASSUME NEW i \in DOMAIN rows'
        PROVE  rows'[i] = [sequence_id |-> rows'[i].sequence_id,
                           previous_hash |-> rows'[i].previous_hash, key |-> rows'[i].key]
    BY <2>1, <2>3 DEF Records
  <2>5. QED
    BY <2>4 DEF Records
<1>2. CASE ~ \E c \in Calls : Commit(c)
  <2>1. rows' = rows
    BY <1>2, OthersKeepRows
  <2>2. QED
    BY <2>1 DEF Records
<1>3. QED
  BY <1>1, <1>2

\* What an untouched table is known to be.
LEMMA TableFacts ==
  ASSUME IInv
  PROVE  /\ lastId \in Nat
         /\ DOMAIN rows \subseteq 1..lastId
         /\ \A i, j \in DOMAIN rows : rows[i] = rows[j] => i = j
         /\ \A i, j \in DOMAIN rows :
              Adjacent(rows, j, i) => rows[i].previous_hash = Hash(rows[j])
BY DEF IInv, TypeOK, OneRowPerCall, ChainIntact

\* Every row of an untouched table holds the hash verify_chain expects.
LEMMA ExpectedIsPrevious ==
  ASSUME IInv, NEW i \in DOMAIN rows
  PROVE  rows[i].previous_hash = ExpectedHash(rows, i)
<1>1. CASE Before(rows, i) = {}
  BY <1>1 DEF IInv, ChainIntact, ExpectedHash
<1>2. CASE Before(rows, i) # {}
  <2>1. Max(Before(rows, i)) \in DOMAIN rows /\ Adjacent(rows, Max(Before(rows, i)), i)
    BY <1>2, TableFacts, PredecessorIsAdjacent
  <2>2. QED
    BY <1>2, <2>1, TableFacts DEF ExpectedHash
<1>3. QED
  BY <1>1, <1>2

\* A table that keeps a row without one of its predecessors is not accepted.
LEMMA DeletionShows ==
  ASSUME IInv, NEW left \in SUBSET DOMAIN rows, Accepted(Restrict(rows, left)),
         NEW i \in left, NEW j \in DOMAIN rows \ left, j < i
  PROVE  FALSE
<1> DEFINE Gaps == {k \in DOMAIN rows \ left : k < i}
           m == Max(Gaps)
           Later == {k \in DOMAIN rows : m < k}
           s == Min(Later)
           t == Restrict(rows, left)
<1>0. lastId \in Nat /\ DOMAIN rows \subseteq 1..lastId /\ i \in DOMAIN rows
  BY TableFacts
<1>1. m \in Gaps /\ \A k \in Gaps : k <= m
  <2>1. Gaps \subseteq 1..lastId /\ Gaps # {}
    BY <1>0
  <2> HIDE DEF Gaps
  <2>2. QED
    BY <1>0, <2>1, MaxIsGreatest
<1>2. m \in DOMAIN rows \ left /\ m < i
  BY <1>1
<1> HIDE DEF m
<1>3. s \in Later /\ \A k \in Later : s <= k
  <2>1. Later \subseteq Nat /\ i \in Later
    BY <1>0, <1>2
  <2> HIDE DEF Later
  <2>2. QED
    BY <2>1, MinIsLeast
<1>4. s \in DOMAIN rows /\ m < s /\ s <= i /\ Adjacent(rows, m, s)
  BY <1>0, <1>2, <1>3 DEF Adjacent
<1> HIDE DEF s
<1>5. s \in left
  BY <1>0, <1>1, <1>2, <1>4
<1>6. DOMAIN t = left /\ \A k \in left : t[k] = rows[k]
  BY DEF Restrict
<1>7. Broken(t, verifierKey) = {}
  BY AcceptedIsUnbroken
<1> HIDE DEF t
<1>8. rows[s].previous_hash = ExpectedHash(t, s)
  BY <1>5, <1>6, <1>7 DEF Broken
<1>9. ExpectedHash(t, s) = Hash(rows[m])
  BY <1>2, <1>4, <1>8, TableFacts
<1>10. CASE Before(t, s) = {}
  BY <1>9, <1>10, HashIsInjective DEF ExpectedHash
<1>11. CASE Before(t, s) # {}
  <2>1. Max(Before(t, s)) \in left
    BY <1>0, <1>5, <1>6, <1>11, PredecessorIsAdjacent
  <2>2. PICK q \in left : q = Max(Before(t, s))
    BY <2>1
  <2>3. Hash(rows[q]) = Hash(rows[m])
    BY <1>6, <1>9, <1>11, <2>2 DEF ExpectedHash
  <2>4. rows[q] = rows[m]
    BY <2>3, HashIsInjective
  <2>5. QED
    BY <1>2, <2>4, TableFacts
<1>12. QED
  BY <1>10, <1>11

\* A table in which a later row stands in the place of row i is not accepted.
LEMMA ExchangeShows ==
  ASSUME IInv, NEW i \in DOMAIN rows, NEW j \in DOMAIN rows, i < j,
         NEW t, DOMAIN t = DOMAIN rows, t[i] = rows[j],
         \A k \in DOMAIN rows : k < i => t[k] = rows[k],
         Accepted(t)
  PROVE  FALSE
<1>0. lastId \in Nat /\ DOMAIN rows \subseteq 1..lastId
  BY TableFacts
<1>1. i \in Before(rows, j)
  BY DEF Before
<1>2. PICK q : q = Max(Before(rows, j))
  OBVIOUS
<1>3. q \in DOMAIN rows /\ Adjacent(rows, q, j)
  BY <1>0, <1>1, <1>2, PredecessorIsAdjacent
<1>4. rows[j].previous_hash = Hash(rows[q]) /\ i <= q
  BY <1>0, <1>3, TableFacts DEF Adjacent
<1>5. rows[j].previous_hash = ExpectedHash(t, i)
  BY AcceptedIsUnbroken DEF Broken
<1>6. CASE Before(t, i) = {}
  BY <1>4, <1>5, <1>6, HashIsInjective DEF ExpectedHash
<1>7. CASE Before(t, i) # {}
  <2>1. PICK p : p = Max(Before(t, i))
    OBVIOUS
  <2>2. p \in DOMAIN rows /\ p < i
    BY <1>0, <1>7, <2>1, PredecessorIsAdjacent DEF Adjacent
  <2>3. Hash(rows[p]) = Hash(rows[q])
    BY <1>4, <1>5, <1>7, <2>1, <2>2 DEF ExpectedHash
  <2>4. p = q
    BY <1>3, <2>2, <2>3, HashIsInjective, TableFacts
  <2>5. QED
    BY <1>0, <1>3, <1>4, <2>2, <2>4
<1>8. QED
  BY <1>6, <1>7

\* An edited row is where the walk stops at the latest, and if all rows were good
\* before, it stops there.
LEMMA EditStops ==
  ASSUME IInv, NEW i \in DOMAIN rows, NEW worth \in Edits,
         NEW t, DOMAIN t = DOMAIN rows, t[i].key = worth,
         \A k \in DOMAIN rows \ {i} : t[k] = rows[k]
  PROVE  /\ i \in Broken(t, verifierKey)
         /\ \A k \in DOMAIN rows :
              k <= i => Before(t, k) = Before(rows, k)
                        /\ ExpectedHash(t, k) = ExpectedHash(rows, k)
         /\ Broken(rows, verifierKey) = {} => Min(Broken(t, verifierKey)) = i
<1> DEFINE B == Broken(t, verifierKey)
<1>0. lastId \in Nat /\ DOMAIN rows \subseteq 1..lastId
  BY TableFacts
<1>1. worth # verifierKey
  <2>1. verifierKey \in 1..MaxVersion
    BY DEF IInv, TypeOK, Versions
  <2>2. QED
    BY <2>1, VersionAssumption DEF Edits, NoKey, NotHex, NotAReceipt
<1>2. i \in B
  BY <1>1 DEF Broken
<1>3. ASSUME NEW k \in DOMAIN rows, k <= i
      PROVE  Before(t, k) = Before(rows, k) /\ ExpectedHash(t, k) = ExpectedHash(rows, k)
  <2>1. Before(t, k) = Before(rows, k)
    BY DEF Before
  <2>2. CASE Before(rows, k) = {}
    BY <2>1, <2>2 DEF ExpectedHash
  <2>3. CASE Before(rows, k) # {}
    <3>1. PICK p : p = Max(Before(rows, k))
      OBVIOUS
    <3>2. p \in DOMAIN rows /\ p < k
      BY <1>0, <2>3, <3>1, PredecessorIsAdjacent DEF Adjacent
    <3>3. p # i
      BY <1>0, <1>3, <3>2
    <3>4. t[p] = rows[p]
      BY <3>2, <3>3
    <3>5. QED
      BY <2>1, <2>3, <3>1, <3>4 DEF ExpectedHash
  <2>4. QED
    BY <2>1, <2>2, <2>3
<1>4. ASSUME Broken(rows, verifierKey) = {}
      PROVE  Min(B) = i
  <2>1. ASSUME NEW k \in DOMAIN rows, k < i PROVE k \notin B
    <3>1. t[k] = rows[k] /\ ExpectedHash(t, k) = ExpectedHash(rows, k)
      BY <1>0, <1>3, <2>1
    <3>2. QED
      BY <1>4, <3>1 DEF Broken
  <2>2. B \subseteq DOMAIN rows /\ B \subseteq Nat
    BY <1>0 DEF Broken
  <2> HIDE DEF B
  <2>3. Min(B) \in B /\ Min(B) <= i
    BY <1>2, <2>2, MinIsLeast
  <2>4. QED
    BY <1>0, <2>1, <2>2, <2>3
<1>5. QED
  BY <1>2, <1>3, <1>4

\* An edited row is rejected; if all rows were good before, it is named, or the
\* walk raises because it cannot be read.
LEMMA EditShows ==
  ASSUME IInv, Records, NEW i \in DOMAIN rows, NEW worth \in Edits
  PROVE  LET answer == VerifyChain(Edited(i, worth), verifierKey) IN
         /\ ~answer.valid
         /\ Accepted(rows) =>
              IF worth = NoKey
                THEN answer.first_broken_sequence_id = rows[i].sequence_id
                ELSE answer.raised
<1> DEFINE t == Edited(i, worth)
           B == Broken(t, verifierKey)
<1>1. /\ DOMAIN t = DOMAIN rows
      /\ \A k \in DOMAIN rows \ {i} : t[k] = rows[k]
      /\ t[i] = [rows[i] EXCEPT !.key = worth]
  BY DEF Edited
<1>2. /\ t[i].key = worth
      /\ t[i].sequence_id = rows[i].sequence_id
      /\ t[i].previous_hash = rows[i].previous_hash
  <2>1. rows[i] = [sequence_id |-> rows[i].sequence_id,
                   previous_hash |-> rows[i].previous_hash, key |-> rows[i].key]
    BY DEF Records
  <2> HIDE DEF t
  <2>2. QED
    BY <1>1, <2>1
<1> HIDE DEF t
<1>3. i \in B
  BY <1>1, <1>2, EditStops
<1>4. ~VerifyChain(t, verifierKey).valid
  BY <1>3 DEF VerifyChain
<1>5. ASSUME Accepted(rows)
      PROVE  IF worth = NoKey
               THEN VerifyChain(t, verifierKey).first_broken_sequence_id
                      = rows[i].sequence_id
               ELSE VerifyChain(t, verifierKey).raised
  <2>1. Broken(rows, verifierKey) = {}
    BY <1>5, AcceptedIsUnbroken
  <2>2. Min(B) = i
    BY <1>1, <1>2, <2>1, EditStops
  <2>3. ExpectedHash(t, i) = ExpectedHash(rows, i)
    <3>1. i <= i
      BY TableFacts
    <3>2. QED
      BY <1>1, <1>2, <3>1, EditStops
  <2>4. t[i].previous_hash = ExpectedHash(t, i)
    BY <1>2, <2>3, ExpectedIsPrevious
  <2>5. NoKey # NotHex /\ NoKey # NotAReceipt
    BY VersionAssumption DEF NoKey, NotHex, NotAReceipt
  <2>6. Raises(t, i) <=> worth # NoKey
    BY <1>2, <2>4, <2>5 DEF Raises, Edits
  <2>7. /\ VerifyChain(t, verifierKey).raised = Raises(t, i)
        /\ VerifyChain(t, verifierKey).first_broken_sequence_id
             = IF Raises(t, i) THEN None ELSE t[i].sequence_id
    BY <1>3, <2>2 DEF VerifyChain, B
  <2>8. QED
    BY <1>2, <2>6, <2>7
<1>6. QED
  BY <1>4, <1>5 DEF t

\* Whatever somebody with write access to the table deletes, exchanges or
\* edits, verify_chain accepts nothing but a prefix of what was recorded, and it
\* names the edited row of a valid ledger or raises because it cannot read it; it
\* blames no link of a ledger nobody tampered with, of any length.
THEOREM TamperingShows == Spec => []TamperEvident
<1>1. Init => Records
  BY DEF Init, Records
<1>2. IInv /\ Records => TamperEvident
  <2> SUFFICES ASSUME IInv, Records PROVE TamperEvident
    OBVIOUS
  <2>1. Broken(rows, verifierKey) = {i \in DOMAIN rows : rows[i].key # verifierKey}
    BY ExpectedIsPrevious DEF Broken
  <2>2. ASSUME NEW left \in SUBSET DOMAIN rows, Accepted(Restrict(rows, left)),
               NEW i \in left
        PROVE  Before(rows, i) \subseteq left
    BY <2>2, DeletionShows DEF Before
  <2>3. ASSUME NEW i \in DOMAIN rows, NEW j \in DOMAIN rows, i # j
        PROVE  ~Accepted(Swapped(i, j))
    <3>1. /\ DOMAIN Swapped(i, j) = DOMAIN rows
          /\ Swapped(i, j)[i] = rows[j] /\ Swapped(i, j)[j] = rows[i]
          /\ \A k \in DOMAIN rows \ {i, j} : Swapped(i, j)[k] = rows[k]
      BY <2>3 DEF Swapped
    <3>2. i \in Nat /\ j \in Nat
      BY TableFacts
    <3>3. CASE i < j
      <4>1. \A k \in DOMAIN rows : k < i => Swapped(i, j)[k] = rows[k]
        BY <3>1, <3>2, <3>3, TableFacts
      <4>2. QED
        BY <3>1, <3>3, <4>1, ExchangeShows
    <3>4. CASE j < i
      <4>1. \A k \in DOMAIN rows : k < j => Swapped(i, j)[k] = rows[k]
        BY <3>1, <3>2, <3>4, TableFacts
      <4>2. QED
        BY <3>1, <3>4, <4>1, ExchangeShows
    <3>5. QED
      BY <2>3, <3>2, <3>3, <3>4
  <2>4. QED
    BY <2>1, <2>2, <2>3, EditShows DEF TamperEvident
<1>3. QED
  BY <1>1, <1>2, RecordsStep, InductiveInvariant, PTL DEF Spec

-----------------------------------------------------------------------------
(* Reading pages while rows are appended.                                  *)

\* The rows of the first k ranks.
Top(ids, k) == {i \in ids : Rank(ids, i) < k}

\* Ranks are numbers, and no two rows have the same.
LEMMA RankFacts ==
  ASSUME NEW n \in Nat, NEW ids, ids \subseteq 1..n
  PROVE  /\ IsFiniteSet(ids) /\ Cardinality(ids) \in Nat
         /\ \A i \in ids : Rank(ids, i) \in Nat
         /\ \A i, j \in ids : i < j => Rank(ids, j) < Rank(ids, i)
<1>1. IsFiniteSet(1..n)
  BY FS_Interval
<1>2. IsFiniteSet(ids)
  BY <1>1, FS_Subset
<1>3. ASSUME NEW i \in ids
      PROVE  IsFiniteSet({j \in ids : j > i}) /\ Rank(ids, i) \in Nat
  <2>1. {j \in ids : j > i} \in SUBSET ids
    OBVIOUS
  <2>2. IsFiniteSet({j \in ids : j > i})
    BY <1>2, <2>1, FS_Subset
  <2>3. QED
    BY <2>2, FS_CardinalityType DEF Rank
<1>4. ASSUME NEW i \in ids, NEW j \in ids, i < j
      PROVE  Rank(ids, j) < Rank(ids, i)
  <2> DEFINE after(k) == {l \in ids : l > k}
  <2>1. after(j) \in SUBSET after(i) /\ j \in after(i) \ after(j)
    <3>1. ids \subseteq Int /\ i \in Int /\ j \in Int
      OBVIOUS
    <3>2. \A l \in ids : l > j => l > i
      BY <1>4, <3>1
    <3>3. j > i /\ ~(j > j)
      BY <1>4, <3>1
    <3>4. QED
      BY <3>2, <3>3
  <2>2. IsFiniteSet(after(i))
    BY <1>3
  <2> HIDE DEF after
  <2>3. /\ Cardinality(after(j)) <= Cardinality(after(i))
        /\ Cardinality(after(j)) # Cardinality(after(i))
    BY <2>1, <2>2, FS_Subset
  <2>4. Rank(ids, i) = Cardinality(after(i)) /\ Rank(ids, j) = Cardinality(after(j))
    BY DEF Rank, after
  <2>5. Rank(ids, i) \in Nat /\ Rank(ids, j) \in Nat
    BY <1>3
  <2>6. QED
    BY <2>3, <2>4, <2>5
<1>5. QED
  BY <1>2, <1>3, <1>4, FS_CardinalityType

\* There are k rows of the first k ranks, unless all rows are among them.
LEMMA TopCount ==
  ASSUME NEW n \in Nat, NEW ids, ids \subseteq 1..n, NEW k \in Nat
  PROVE  /\ IsFiniteSet(Top(ids, k)) /\ Cardinality(Top(ids, k)) \in Nat
         /\ Cardinality(Top(ids, k)) <= k
         /\ Cardinality(Top(ids, k)) <= Cardinality(ids)
         /\ Cardinality(Top(ids, k)) = k \/ Top(ids, k) = ids
<1>0. /\ IsFiniteSet(ids) /\ Cardinality(ids) \in Nat
      /\ \A i \in ids : Rank(ids, i) \in Nat
      /\ \A i, j \in ids : i < j => Rank(ids, j) < Rank(ids, i)
  BY RankFacts
<1>1. Top(ids, k) \in SUBSET ids
  BY DEF Top
<1>2. /\ IsFiniteSet(Top(ids, k)) /\ Cardinality(Top(ids, k)) \in Nat
      /\ Cardinality(Top(ids, k)) <= Cardinality(ids)
  BY <1>0, <1>1, FS_Subset, FS_CardinalityType
<1>3. Cardinality(Top(ids, k)) <= k
  <2> DEFINE f == [i \in Top(ids, k) |-> Rank(ids, i)]
  <2>1. f \in [Top(ids, k) -> 0..(k - 1)]
    <3>1. \A i \in Top(ids, k) : Rank(ids, i) \in Nat /\ Rank(ids, i) < k
      BY <1>0 DEF Top
    <3>2. \A i \in Top(ids, k) : Rank(ids, i) \in 0..(k - 1)
      BY <3>1
    <3>3. QED
      BY <3>2
  <2>2. \A i, j \in Top(ids, k) : f[i] = f[j] => i = j
    <3>1. SUFFICES ASSUME NEW i \in Top(ids, k), NEW j \in Top(ids, k), f[i] = f[j]
                   PROVE  i = j
      OBVIOUS
    <3>2. Rank(ids, i) = Rank(ids, j) /\ i \in ids /\ j \in ids
      BY <1>1, <3>1
    <3>3. i \in 1..n /\ j \in 1..n /\ Rank(ids, i) \in Nat
      BY <1>0, <3>2
    <3>4. ~(i < j) /\ ~(j < i)
      BY <1>0, <3>2, <3>3
    <3>5. QED
      BY <3>3, <3>4
  <2>3. f \in Injection(Top(ids, k), 0..(k - 1))
    BY <2>1, <2>2 DEF Injection, IsInjective
  <2>4. IsFiniteSet(0..(k - 1)) /\ Cardinality(0..(k - 1)) = k
    BY FS_Interval
  <2> HIDE DEF f
  <2>5. QED
    BY <2>3, <2>4, FS_Injection
<1>4. ASSUME Top(ids, k) # ids PROVE Cardinality(Top(ids, k)) >= k
  <2> DEFINE Rest == ids \ Top(ids, k)
  <2>1. Rest \subseteq 1..n /\ Rest # {}
    BY <1>1, <1>4
  <2> HIDE DEF Rest
  <2>2. PICK i \in Rest : \A j \in Rest : j <= i
    BY <2>1, MaxIsGreatest
  <2>3. i \in ids /\ Rank(ids, i) >= k /\ Rank(ids, i) \in Nat
    BY <1>0, <2>2 DEF Top, Rest
  <2>4. {j \in ids : j > i} \in SUBSET Top(ids, k)
    <3>1. \A j \in ids : j > i => j \notin Rest
      <4>1. ids \subseteq Nat
        OBVIOUS
      <4>2. QED
        BY <2>2, <2>3, <4>1
    <3>2. QED
      BY <3>1 DEF Rest
  <2>5. Rank(ids, i) <= Cardinality(Top(ids, k))
    BY <1>2, <2>4, FS_Subset DEF Rank
  <2>6. QED
    BY <1>2, <2>3, <2>5
<1>5. QED
  BY <1>2, <1>3, <1>4

\* A page takes the ranks from its offset on, as many as there are.
LEMMA PageFacts ==
  ASSUME NEW n \in Nat, NEW ids, ids \subseteq 1..n, NEW k \in Nat, NEW limit \in Nat,
         k <= Cardinality(ids)
  PROVE  LET page == Page(ids, limit, k) IN
         /\ Cardinality(page) \in Nat
         /\ k + Cardinality(page) <= Cardinality(ids)
         /\ Cardinality(page) <= limit
         /\ \A i \in ids : Rank(ids, i) < k + Cardinality(page)
                             => Rank(ids, i) < k \/ i \in page
         /\ Cardinality(page) < limit => \A i \in ids : Rank(ids, i) < k \/ i \in page
<1> DEFINE page == Page(ids, limit, k)
<1>0. Cardinality(ids) \in Nat /\ \A i \in ids : Rank(ids, i) \in Nat
  BY RankFacts
<1>1. Top(ids, k + limit) = Top(ids, k) \cup page /\ Top(ids, k) \cap page = {}
  <2>1. \A i \in ids : /\ Rank(ids, i) < k + limit
                            <=> \/ Rank(ids, i) < k
                                \/ k <= Rank(ids, i) /\ Rank(ids, i) < k + limit
                       /\ ~(Rank(ids, i) < k /\ k <= Rank(ids, i))
    BY <1>0
  <2>2. QED
    BY <2>1, Zenon DEF Top, Page
<1>2. page \in SUBSET Top(ids, k + limit)
  BY <1>1
<1>3. k + limit \in Nat /\ Cardinality(ids) \in Nat
  BY <1>0
<1>4. /\ IsFiniteSet(Top(ids, k)) /\ Cardinality(Top(ids, k)) = k
      /\ IsFiniteSet(Top(ids, k + limit))
      /\ Cardinality(Top(ids, k + limit)) \in Nat
      /\ Cardinality(Top(ids, k + limit)) <= k + limit
      /\ Cardinality(Top(ids, k + limit)) <= Cardinality(ids)
      /\ Cardinality(Top(ids, k + limit)) = k + limit \/ Top(ids, k + limit) = ids
  <2>1. \A u \in Nat : /\ IsFiniteSet(Top(ids, u)) /\ Cardinality(Top(ids, u)) \in Nat
                       /\ Cardinality(Top(ids, u)) <= u
                       /\ Cardinality(Top(ids, u)) <= Cardinality(ids)
                       /\ Cardinality(Top(ids, u)) = u \/ Top(ids, u) = ids
    BY TopCount
  <2>2. Cardinality(Top(ids, k)) = k
    <3>1. /\ Cardinality(Top(ids, k)) \in Nat /\ Cardinality(Top(ids, k)) <= k
          /\ Cardinality(Top(ids, k)) = k \/ Top(ids, k) = ids
      BY <2>1
    <3>2. QED
      BY <1>3, <3>1
  <2>3. QED
    BY <1>3, <2>1, <2>2
<1>5. IsFiniteSet(page) /\ Cardinality(page) \in Nat
  BY <1>2, <1>4, FS_Subset, FS_CardinalityType
<1>6. Cardinality(Top(ids, k + limit)) = k + Cardinality(page)
  <2> HIDE DEF page
  <2>1. Cardinality({}) = 0
    BY FS_EmptySet
  <2>2. Cardinality(Top(ids, k) \cup page)
          = Cardinality(Top(ids, k)) + Cardinality(page) - Cardinality(Top(ids, k) \cap page)
    BY <1>4, <1>5, FS_Union
  <2>3. QED
    BY <1>1, <1>4, <1>5, <2>1, <2>2
<1>7. k + Cardinality(page) <= Cardinality(ids) /\ Cardinality(page) <= limit
  BY <1>3, <1>4, <1>5, <1>6
<1>8. ASSUME NEW i \in ids, Rank(ids, i) < k + Cardinality(page)
      PROVE  Rank(ids, i) < k \/ i \in page
  <2>1. Rank(ids, i) < k + limit
    BY <1>0, <1>5, <1>7, <1>8
  <2>2. QED
    BY <1>0, <2>1 DEF Page
<1>9. ASSUME Cardinality(page) < limit, NEW i \in ids PROVE Rank(ids, i) < k \/ i \in page
  <2>1. Top(ids, k + limit) = ids
    BY <1>3, <1>4, <1>5, <1>6, <1>9
  <2>2. QED
    BY <1>1, <2>1 DEF Top
<1>10. QED
  BY <1>5, <1>7, <1>8, <1>9

\* Appending rows to a table only grows what a filter selects, and only pushes
\* its rows down the ranks.
LEMMA MatchingGrows ==
  ASSUME IInv, [Next]_vars, NEW f
  PROVE  /\ Matching(f) \subseteq Matching(f)'
         /\ Cardinality(Matching(f)) \in Nat
         /\ Cardinality(Matching(f)') \in Nat
         /\ Cardinality(Matching(f)) <= Cardinality(Matching(f)')
         /\ \A i \in Matching(f) : /\ Rank(Matching(f), i) \in Nat
                                   /\ Rank(Matching(f)', i) \in Nat
                                   /\ Rank(Matching(f), i) <= Rank(Matching(f)', i)
<1>1. \A i \in DOMAIN rows : i \in DOMAIN rows' /\ rows'[i] = rows[i]
  BY RowsGrow
<1>2. PICK before : before = Matching(f)
  OBVIOUS
<1>3. PICK after : after = Matching(f)'
  OBVIOUS
<1>4. before \subseteq after
  BY <1>1, <1>2, <1>3 DEF Matching
<1>5. PICK n \in Nat : after \subseteq 1..n
  <2>1. IInv'
    BY IInvStep
  <2>2. lastId' \in Nat /\ DOMAIN rows' \subseteq 1..lastId'
    BY <2>1 DEF IInv, TypeOK
  <2>3. QED
    BY <1>3, <2>2 DEF Matching
<1>6. before \subseteq 1..n
  BY <1>4, <1>5
<1>7. /\ IsFiniteSet(after) /\ Cardinality(after) \in Nat /\ Cardinality(before) \in Nat
      /\ \A i \in before : Rank(before, i) \in Nat
      /\ \A i \in after : Rank(after, i) \in Nat
  BY <1>5, <1>6, RankFacts
<1>8. Cardinality(before) <= Cardinality(after)
  BY <1>4, <1>7, FS_Subset
<1>9. ASSUME NEW i \in before PROVE Rank(before, i) <= Rank(after, i)
  <2> DEFINE late == {j \in after : j > i}
  <2>1. late \in SUBSET after /\ {j \in before : j > i} \in SUBSET late
    BY <1>4
  <2>2. IsFiniteSet(late)
    BY <1>7, <2>1, FS_Subset
  <2>3. Cardinality({j \in before : j > i}) <= Cardinality(late)
    <3> HIDE DEF late
    <3>1. QED
      BY <2>1, <2>2, FS_Subset
  <2>4. QED
    BY <2>3 DEF Rank
<1>10. QED
  BY <1>2, <1>3, <1>4, <1>7, <1>8, <1>9

\* What a filter selects is a bounded set of ids.
LEMMA MatchingBounded ==
  ASSUME IInv, NEW f
  PROVE  /\ lastId \in Nat /\ Matching(f) \subseteq 1..lastId
         /\ Matching(f) \subseteq DOMAIN rows
BY TableFacts DEF Matching

\* A reader changes nothing of the ledger, and a writer nothing of the reader.
LEMMA ReadsStepIsStep == [ReadsNext]_allVars => [Next]_vars
BY DEF ReadsNext, Reads, BeginWalk, ReadPage, SummaryCounts, SummaryLatest, allVars

\* Writers keep what is known of a reader.
LEMMA WritersKeepReader ==
  ASSUME IInv, ReadsInv, [Next]_vars, UNCHANGED reader
  PROVE  ReadsInv'
<1>1. ReaderType'
  BY DEF ReadsInv, ReaderType
<1> DEFINE f == reader.filter
<1>2. /\ Matching(f) \subseteq Matching(f)'
      /\ Cardinality(Matching(f)) \in Nat /\ Cardinality(Matching(f)') \in Nat
      /\ Cardinality(Matching(f)) <= Cardinality(Matching(f)')
      /\ \A i \in Matching(f) : /\ Rank(Matching(f), i) \in Nat
                                /\ Rank(Matching(f)', i) \in Nat
                                /\ Rank(Matching(f), i) <= Rank(Matching(f)', i)
  BY MatchingGrows
<1>3. WalkInv'
  <2>1. PICK before : before = Matching(f)
    OBVIOUS
  <2>2. PICK after : after = Matching(f)'
    OBVIOUS
  <2>3. after = Matching(reader.filter)'
    BY <2>2
  <2>4. reader.offset \in Nat
    BY DEF ReadsInv, ReaderType
  <2>5. ASSUME reader.doing \in Walks
        PROVE  /\ reader.offset <= Cardinality(before)
               /\ \A i \in reader.atStart : Rank(before, i) < reader.offset => i \in reader.seen
               /\ reader.atStart \subseteq before /\ reader.seen \subseteq before
               /\ reader.doing = "walked" => reader.atStart \subseteq reader.seen
    BY <2>1, <2>5 DEF ReadsInv, WalkInv
  <2>6. ASSUME reader.doing \in Walks
        PROVE  /\ reader.offset <= Cardinality(after)
               /\ \A i \in reader.atStart : Rank(after, i) < reader.offset => i \in reader.seen
               /\ reader.atStart \subseteq after /\ reader.seen \subseteq after
               /\ reader.doing = "walked" => reader.atStart \subseteq reader.seen
    BY <1>2, <2>1, <2>2, <2>4, <2>5, <2>6
  <2>7. QED
    BY <2>2, <2>6 DEF WalkInv
<1>4. SummaryInv'
  <2>1. DOMAIN rows \subseteq DOMAIN rows'
    BY RowsGrow
  <2>2. QED
    BY <2>1 DEF ReadsInv, SummaryInv
<1>5. QED
  BY <1>1, <1>3, <1>4 DEF ReadsInv

\* Every query keeps what is known of the reader.
LEMMA QueriesKeepReader ==
  ASSUME IInv, ReadsInv, Reads
  PROVE  ReadsInv'
<1> USE FilterAssumption, LimitAssumption
<1>0. /\ UNCHANGED rows
      /\ ReaderType /\ WalkInv /\ SummaryInv
  BY DEF Reads, BeginWalk, ReadPage, SummaryCounts, SummaryLatest, ReadsInv, vars
<1>1. \A f : /\ Matching(f)' = Matching(f)
             /\ lastId \in Nat /\ Matching(f) \subseteq 1..lastId
             /\ Matching(f) \subseteq DOMAIN rows
  BY <1>0, MatchingBounded DEF Matching
<1>2. CASE BeginWalk
  <2>1. PICK f \in Filters, limit \in Limits \ {0} :
          reader' = [Idle EXCEPT !.doing = "walking", !.filter = f, !.limit = limit,
                                 !.atStart = Matching(f)]
    BY <1>2 DEF BeginWalk
  <2>2. PICK m : m = Matching(f)
    OBVIOUS
  <2>3. /\ reader'.doing = "walking" /\ reader'.filter = f /\ reader'.limit = limit
        /\ reader'.offset = 0 /\ reader'.atStart = m /\ reader'.seen = {}
        /\ reader'.latest = 0
    BY <2>1, <2>2 DEF Idle
  <2>4. m \subseteq 1..lastId /\ lastId \in Nat
    BY <1>1, <2>2
  <2>5. ReaderType'
    <3>1. m \in SUBSET Nat /\ f \in SUBSET Calls /\ limit \in Nat
      BY <2>4
    <3>2. QED
      BY <2>1, <2>2, <3>1 DEF ReaderType, Idle
  <2>6. WalkInv'
    <3>1. /\ Matching(reader.filter)' = m
          /\ Cardinality(m) \in Nat
          /\ \A i \in m : Rank(m, i) \in Nat
      BY <1>1, <2>2, <2>3, <2>4, RankFacts
    <3>2. QED
      BY <2>3, <3>1 DEF WalkInv
  <2>7. SummaryInv'
    BY <2>3 DEF SummaryInv
  <2>8. QED
    BY <2>5, <2>6, <2>7 DEF ReadsInv
<1>3. CASE ReadPage
  <2>1. PICK m : m = Matching(reader.filter)
    OBVIOUS
  <2>2. PICK page : page = Page(m, reader.limit, reader.offset)
    OBVIOUS
  <2>3. /\ reader.doing = "walking"
        /\ reader' = [reader EXCEPT
             !.doing = IF Cardinality(page) < reader.limit THEN "walked" ELSE "walking",
             !.offset = reader.offset + Cardinality(page),
             !.seen = reader.seen \cup page]
    BY <1>3, <2>1, <2>2 DEF ReadPage, Search
  <2>4. /\ reader.offset <= Cardinality(m) /\ reader.offset \in Nat /\ reader.limit \in Nat
        /\ \A i \in reader.atStart : Rank(m, i) < reader.offset => i \in reader.seen
        /\ reader.atStart \subseteq m /\ reader.seen \subseteq m
    BY <1>0, <2>1, <2>3 DEF WalkInv, ReaderType, Walks
  <2>5. m \subseteq 1..lastId /\ lastId \in Nat
    BY <1>1, <2>1
  <2>6. /\ Cardinality(page) \in Nat
        /\ reader.offset + Cardinality(page) <= Cardinality(m)
        /\ \A i \in m : Rank(m, i) < reader.offset + Cardinality(page)
                          => Rank(m, i) < reader.offset \/ i \in page
        /\ Cardinality(page) < reader.limit
             => \A i \in m : Rank(m, i) < reader.offset \/ i \in page
    BY <2>2, <2>4, <2>5, PageFacts
  <2>7. page \subseteq m
    BY <2>2 DEF Page
  <2>8. /\ reader'.offset = reader.offset + Cardinality(page)
        /\ reader'.seen = reader.seen \cup page
        /\ reader'.atStart = reader.atStart /\ reader'.filter = reader.filter
        /\ reader'.doing = IF Cardinality(page) < reader.limit THEN "walked" ELSE "walking"
    BY <1>0, <2>3 DEF ReaderType
  <2>9. ReaderType'
    <3>1. reader.seen \cup page \in SUBSET Nat /\ reader.offset + Cardinality(page) \in Nat
      <4>1. m \subseteq Nat
        BY <2>5
      <4>2. reader.seen \cup page \in SUBSET Nat
        BY <2>4, <2>7, <4>1
      <4>3. QED
        BY <2>4, <2>6, <4>2
    <3>2. QED
      BY <1>0, <2>3, <3>1 DEF ReaderType
  <2>10. WalkInv'
    <3>1. Matching(reader.filter)' = m
      BY <1>1, <2>1, <2>8
    <3>2. /\ reader'.offset <= Cardinality(m)
          /\ \A i \in reader'.atStart : Rank(m, i) < reader'.offset => i \in reader'.seen
          /\ reader'.atStart \subseteq m /\ reader'.seen \subseteq m
          /\ reader'.doing = "walked" => reader'.atStart \subseteq reader'.seen
      BY <2>4, <2>6, <2>7, <2>8
    <3>3. QED
      BY <3>1, <3>2 DEF WalkInv
  <2>11. SummaryInv'
    BY <2>8 DEF SummaryInv
  <2>12. QED
    BY <2>9, <2>10, <2>11 DEF ReadsInv
<1>4. CASE SummaryCounts
  <2>1. PICK f \in Filters, limit \in Limits \ {0} :
          reader' = [Idle EXCEPT !.doing = "summing", !.filter = f, !.limit = limit,
                                 !.seen = Search(f, limit, 0)]
    BY <1>4 DEF SummaryCounts
  <2>2. PICK page : page = Search(f, limit, 0)
    OBVIOUS
  <2>3. page \subseteq DOMAIN rows /\ page \subseteq Nat
    <3>1. page \subseteq Matching(f)
      BY <2>2 DEF Search, Page
    <3>2. QED
      BY <1>1, <3>1
  <2>4. ReaderType'
    <3>1. page \in SUBSET Nat /\ f \in SUBSET Calls /\ limit \in Nat
      BY <2>3
    <3>2. QED
      BY <2>1, <2>2, <3>1 DEF ReaderType, Idle
  <2>5. reader'.doing = "summing" /\ reader'.seen = page
    BY <2>1, <2>2 DEF Idle
  <2>6. WalkInv' /\ SummaryInv'
    BY <1>0, <2>3, <2>5 DEF WalkInv, SummaryInv, Walks
  <2>7. QED
    BY <2>4, <2>6 DEF ReadsInv
<1>5. CASE SummaryLatest
  <2>1. PICK page : page = Search(Calls, 1, 0)
    OBVIOUS
  <2>2. /\ reader.doing = "summing"
        /\ reader' = [reader EXCEPT !.doing = "summed",
                                    !.latest = IF page = {} THEN 0 ELSE Max(page)]
    BY <1>5, <2>1 DEF SummaryLatest
  <2>3. Matching(Calls) = DOMAIN rows
    BY DEF Matching, IInv, TypeOK
  <2>4. lastId \in Nat /\ DOMAIN rows \subseteq 1..lastId
    BY TableFacts
  <2>5. page = {i \in DOMAIN rows : Rank(DOMAIN rows, i) < 1}
    <3>1. \A i \in DOMAIN rows : 0 <= Rank(DOMAIN rows, i)
      BY <2>4, RankFacts
    <3>2. QED
      BY <2>1, <2>3, <3>1 DEF Search, Page
  <2>6. reader.seen \subseteq DOMAIN rows
    BY <1>0, <2>2 DEF SummaryInv
  <2>7. CASE DOMAIN rows = {}
    <3>1. page = {} /\ reader.seen = {}
      BY <2>5, <2>6, <2>7
    <3>2. /\ reader'.doing = "summed" /\ reader'.seen = {}
          /\ reader' = [reader EXCEPT !.doing = "summed", !.latest = 0]
      BY <1>0, <2>2, <3>1 DEF ReaderType
    <3>3. QED
      BY <1>0, <3>2 DEF ReadsInv, ReaderType, WalkInv, SummaryInv, Walks
  <2>8. CASE DOMAIN rows # {}
    <3>1. PICK last \in DOMAIN rows : \A i \in DOMAIN rows : i <= last
      BY <2>4, <2>8, MaxIsGreatest
    <3>2. {i \in DOMAIN rows : i > last} = {}
      BY <2>4, <3>1
    <3>3. last \in page
      BY <2>5, <3>2, FS_EmptySet DEF Rank
    <3>4. page \subseteq 1..lastId
      BY <2>4, <2>5
    <3>5. Max(page) \in page /\ last <= Max(page)
      BY <2>4, <3>3, <3>4, MaxIsGreatest
    <3>6. Max(page) = last
      BY <2>4, <2>5, <3>1, <3>5
    <3>7. /\ reader'.doing = "summed" /\ reader'.seen = reader.seen
          /\ reader'.latest = last
          /\ reader' = [reader EXCEPT !.doing = "summed", !.latest = last]
      BY <1>0, <2>2, <3>3, <3>6 DEF ReaderType
    <3>8. last \in Nat
      BY <2>4
    <3>9. QED
      BY <1>0, <2>6, <3>1, <3>7, <3>8 DEF ReadsInv, ReaderType, WalkInv, SummaryInv, Walks
  <2>9. QED
    BY <2>7, <2>8
<1>6. QED
  BY <1>2, <1>3, <1>4, <1>5 DEF Reads

\* What is known of the ledger and of a reader holds of every behaviour.
THEOREM ReadsInvariant == ReadsSpec => [](IInv /\ ReadsInv)
<1>1. ReadsInit => IInv /\ ReadsInv
  <2> SUFFICES ASSUME ReadsInit PROVE IInv /\ ReadsInv
    OBVIOUS
  <2>1. IInv
    BY IInvInit DEF ReadsInit
  <2>2. ReadsInv
    BY DEF ReadsInit, ReadsInv, Idle, ReaderType, WalkInv, SummaryInv, Walks
  <2>3. QED
    BY <2>1, <2>2
<1>2. IInv /\ ReadsInv /\ [ReadsNext]_allVars => (IInv /\ ReadsInv)'
  <2> SUFFICES ASSUME IInv, ReadsInv, [ReadsNext]_allVars PROVE IInv' /\ ReadsInv'
    OBVIOUS
  <2>1. IInv'
    BY ReadsStepIsStep, IInvStep
  <2>2. CASE [Next]_vars /\ UNCHANGED reader
    BY <2>1, <2>2, WritersKeepReader
  <2>3. CASE Reads
    BY <2>1, <2>3, QueriesKeepReader
  <2>4. QED
    BY <2>1, <2>2, <2>3 DEF ReadsNext, allVars
<1>3. QED
  BY <1>1, <1>2, PTL DEF ReadsSpec

\* However many receipts are appended between pages of whatever size, a client
\* that reads to the last page misses none that was there when it began, and
\* sees again no more than were appended.
THEOREM WalksMissNothing == ReadsSpec => []WalkMissesNothing
<1>1. IInv /\ ReadsInv => WalkMissesNothing
  <2> SUFFICES ASSUME IInv, ReadsInv, reader.doing \in Walks PROVE WalkMissesNothing
    BY DEF WalkMissesNothing, Walks
  <2>1. PICK m : m = Matching(reader.filter)
    OBVIOUS
  <2>2. /\ reader.offset <= Cardinality(m) /\ reader.offset \in Nat
        /\ \A i \in reader.atStart : Rank(m, i) < reader.offset => i \in reader.seen
        /\ reader.atStart \subseteq m /\ reader.seen \subseteq m
        /\ reader.doing = "walked" => reader.atStart \subseteq reader.seen
    BY <2>1 DEF ReadsInv, WalkInv, ReaderType
  <2>3. m \subseteq 1..lastId /\ lastId \in Nat
    BY <2>1, MatchingBounded
  <2>4. IsFiniteSet(m) /\ Cardinality(m) \in Nat
    BY <2>3, RankFacts
  <2> DEFINE top == Top(m, reader.offset)
             added == m \ reader.atStart
  <2>5. IsFiniteSet(top) /\ Cardinality(top) = reader.offset
    <3>1. PICK k \in Nat : k = reader.offset
      BY <2>2
    <3>2. /\ IsFiniteSet(Top(m, k)) /\ Cardinality(Top(m, k)) \in Nat
          /\ Cardinality(Top(m, k)) <= k
          /\ Cardinality(Top(m, k)) = k \/ Top(m, k) = m
      BY <2>3, TopCount
    <3>3. Cardinality(Top(m, k)) = k
      BY <2>2, <2>4, <3>1, <3>2
    <3>4. QED
      BY <3>1, <3>2, <3>3
  <2>6. top \in SUBSET (reader.seen \cup added)
    BY <2>2 DEF Top
  <2>7. /\ IsFiniteSet(reader.seen) /\ IsFiniteSet(added)
        /\ Cardinality(reader.seen) \in Nat /\ Cardinality(added) \in Nat
    <3>1. added \in SUBSET m /\ reader.seen \in SUBSET m
      BY <2>2
    <3>2. QED
      BY <2>4, <3>1, FS_Subset, FS_CardinalityType
  <2> HIDE DEF top, added
  <2>8. /\ IsFiniteSet(reader.seen \cup added)
        /\ Cardinality(reader.seen \cup added) <= Cardinality(reader.seen) + Cardinality(added)
    <3>1. /\ IsFiniteSet(reader.seen \cup added)
          /\ Cardinality(reader.seen \cup added)
               = Cardinality(reader.seen) + Cardinality(added)
                   - Cardinality(reader.seen \cap added)
      BY <2>7, FS_Union
    <3>2. Cardinality(reader.seen \cap added) \in Nat
      BY <2>7, FS_Intersection, FS_CardinalityType
    <3>3. QED
      BY <2>7, <3>1, <3>2
  <2>9. reader.offset <= Cardinality(reader.seen \cup added)
    BY <2>5, <2>6, <2>8, FS_Subset
  <2>10. Cardinality(reader.seen \cup added) \in Nat
    BY <2>8, FS_CardinalityType
  <2>11. reader.offset <= Cardinality(reader.seen) + Cardinality(added)
    BY <2>2, <2>7, <2>8, <2>9, <2>10
  <2>12. QED
    BY <2>1, <2>2, <2>11 DEF WalkMissesNothing, added
<1>2. QED
  BY <1>1, ReadsInvariant, PTL

-----------------------------------------------------------------------------
(* The lists of the most common agents and reasons.                        *)

\* Counting a finite table gives numbers, and finitely many values are met.
LEMMA CountFacts ==
  ASSUME NEW ids, IsFiniteSet(ids), NEW field
  PROVE  /\ IsFiniteSet(Met(ids, field))
         /\ \A v : Count(ids, field, v) \in Nat
<1> DEFINE f == [i \in ids |-> Fields(i)[field]]
<1>1. f \in Surjection(ids, Met(ids, field))
  BY DEF Surjection, Met
<1> HIDE DEF f
<1>2. IsFiniteSet(Met(ids, field))
  BY <1>1, FS_Surjection
<1>3. ASSUME NEW v PROVE Count(ids, field, v) \in Nat
  <2>1. Having(ids, field, v) \in SUBSET ids
    BY DEF Having
  <2>2. QED
    BY <2>1, FS_Subset, FS_CardinalityType DEF Count
<1>4. QED
  BY <1>2, <1>3

\* What a part of the table counts is no more than what the table counts.
LEMMA CountGrows ==
  ASSUME NEW all, IsFiniteSet(all), NEW page \in SUBSET all, NEW field, NEW v
  PROVE  Count(page, field, v) <= Count(all, field, v)
<1>1. Having(all, field, v) \in SUBSET all
  BY DEF Having
<1>2. Having(page, field, v) \in SUBSET Having(all, field, v)
  BY DEF Having
<1>3. QED
  BY <1>1, <1>2, FS_Subset DEF Count

\* A list counted from a part of the table has no entry above the truth.
LEMMA ListIsAtMost ==
  ASSUME NEW all, IsFiniteSet(all), NEW page \in SUBSET all, NEW field
  PROVE  AtMost(MostCommonCounts(page, field), all, field)
BY CountGrows DEF AtMost, MostCommonCounts

\* Two numbers that are not in one order are in the other.
LEMMA NotMore ==
  ASSUME NEW a \in Nat, NEW b \in Nat, ~(b > a)
  PROVE  b <= a
OBVIOUS

\* A list cut after the most common entries leaves out no entry that is more
\* common than a listed one: whoever is ahead of the missing one would be ahead
\* of the listed one too.
LEMMA ListedAreMostCommon ==
  ASSUME NEW ids, IsFiniteSet(ids), NEW field,
         NEW v \in Met(ids, field) \ Listed(ids, field), NEW w \in Listed(ids, field)
  PROVE  Count(ids, field, v) <= Count(ids, field, w)
<1> DEFINE AheadOf(u) == {x \in Met(ids, field) : Ahead(ids, field, x, u)}
<1>0. /\ IsFiniteSet(Met(ids, field))
      /\ \A x : Count(ids, field, x) \in Nat
  BY CountFacts
<1>1. ASSUME Count(ids, field, v) > Count(ids, field, w) PROVE FALSE
  <2>1. ASSUME NEW x, Ahead(ids, field, x, v) PROVE Ahead(ids, field, x, w)
    <3>1. PICK cx \in Nat, cv \in Nat, cw \in Nat :
            /\ cx = Count(ids, field, x) /\ cv = Count(ids, field, v)
            /\ cw = Count(ids, field, w)
      BY <1>0
    <3>2. cx > cv \/ cx = cv
      BY <2>1, <3>1 DEF Ahead
    <3>3. cv > cw
      BY <1>1, <3>1
    <3>4. cx > cw
      BY <3>2, <3>3
    <3>5. QED
      BY <3>1, <3>4 DEF Ahead
  <2>2. AheadOf(v) \in SUBSET AheadOf(w)
    BY <2>1
  <2>3. AheadOf(w) \in SUBSET Met(ids, field)
    OBVIOUS
  <2> HIDE DEF AheadOf
  <2>4. IsFiniteSet(AheadOf(w)) /\ Cardinality(AheadOf(w)) \in Nat
    BY <1>0, <2>3, FS_Subset, FS_CardinalityType
  <2>5. Cardinality(AheadOf(v)) \in Nat /\ Cardinality(AheadOf(v)) <= Cardinality(AheadOf(w))
    BY <2>2, <2>4, FS_Subset, FS_CardinalityType
  <2>6. ~(Cardinality(AheadOf(v)) < MostCommon) /\ Cardinality(AheadOf(w)) < MostCommon
    BY DEF Listed, AheadOf
  <2>7. QED
    BY <2>4, <2>5, <2>6, MostCommonAssumption
<1>2. QED
  BY <1>0, <1>1, NotMore

\* Behind a missing entry stand the MostCommon that are ahead of it.
LEMMA MissingIsBehindMany ==
  ASSUME NEW ids, IsFiniteSet(ids), ids \subseteq Nat, NEW field,
         NEW v \in Met(ids, field) \ Listed(ids, field)
  PROVE  MostCommon <=
           Cardinality({w \in Met(ids, field) \ {v} :
              Count(ids, field, v) <= Count(ids, field, w)})
<1> DEFINE before == {w \in Met(ids, field) : Ahead(ids, field, w, v)}
           others == {w \in Met(ids, field) \ {v} :
                        Count(ids, field, v) <= Count(ids, field, w)}
<1>0. /\ IsFiniteSet(Met(ids, field))
      /\ \A x : Count(ids, field, x) \in Nat
  BY CountFacts
<1>1. ASSUME NEW w, Ahead(ids, field, w, v)
      PROVE  w # v /\ Count(ids, field, v) <= Count(ids, field, w)
  <2>1. PICK cw \in Nat, cv \in Nat :
          cw = Count(ids, field, w) /\ cv = Count(ids, field, v)
    BY <1>0
  <2>2. CASE cw > cv
    BY <2>1, <2>2
  <2>3. CASE cw = cv /\ \E i \in Having(ids, field, w) :
                           \A j \in Having(ids, field, v) : i > j
    <3>1. PICK i \in Having(ids, field, w) : \A j \in Having(ids, field, v) : i > j
      BY <2>3
    <3>2. ~(i > i)
      <4>1. i \in Nat
        BY DEF Having
      <4>2. QED
        BY <4>1
    <3>3. w # v
      BY <3>1, <3>2
    <3>4. QED
      BY <2>1, <2>3, <3>3
  <2>4. QED
    BY <1>1, <2>1, <2>2, <2>3 DEF Ahead
<1>2. before \in SUBSET others /\ others \in SUBSET Met(ids, field)
  BY <1>1
<1>3. ~(Cardinality(before) < MostCommon)
  BY DEF Listed
<1> HIDE DEF before, others
<1>4. IsFiniteSet(others) /\ Cardinality(others) \in Nat
  BY <1>0, <1>2, FS_Subset, FS_CardinalityType
<1>5. Cardinality(before) \in Nat /\ Cardinality(before) <= Cardinality(others)
  BY <1>2, <1>4, FS_Subset, FS_CardinalityType
<1>6. MostCommon <= Cardinality(others)
  BY <1>3, <1>4, <1>5, MostCommonAssumption
<1>7. QED
  BY <1>6 DEF others

\* A list counted from the whole table is cut off, and nothing worse.
LEMMA ListIsCutOff ==
  ASSUME NEW ids, IsFiniteSet(ids), ids \subseteq Nat, NEW field
  PROVE  CutOff(MostCommonCounts(ids, field), ids, field)
<1> DEFINE list == MostCommonCounts(ids, field)
<1>1. /\ DOMAIN list = Listed(ids, field)
      /\ \A v \in Listed(ids, field) : list[v] = Count(ids, field, v)
  BY DEF MostCommonCounts
<1> HIDE DEF list
<1>2. CutOff(list, ids, field)
  BY <1>1, ListedAreMostCommon, MissingIsBehindMany DEF CutOff
<1>3. QED
  BY <1>2 DEF list

\* A scan of fewer receipts than its limit has seen all there are.
LEMMA ScanIsAll ==
  ASSUME NEW n \in Nat, NEW ids, ids \subseteq 1..n, NEW limit \in Nat
  PROVE  /\ Cardinality(Page(ids, limit, 0)) \in Nat
         /\ Cardinality(Page(ids, limit, 0)) < limit => Page(ids, limit, 0) = ids
<1>1. IsFiniteSet(ids) /\ Cardinality(ids) \in Nat /\ \A i \in ids : Rank(ids, i) \in Nat
  BY RankFacts
<1>2. PICK k \in Nat : k = 0
  OBVIOUS
<1>3. k <= Cardinality(ids)
  BY <1>1, <1>2
<1>4. /\ Cardinality(Page(ids, limit, k)) \in Nat
      /\ Cardinality(Page(ids, limit, k)) < limit
           => \A i \in ids : Rank(ids, i) < k \/ i \in Page(ids, limit, k)
  BY <1>3, PageFacts
<1>5. \A i \in ids : ~(Rank(ids, i) < k)
  BY <1>1, <1>2
<1>6. Page(ids, limit, k) \subseteq ids
  BY DEF Page
<1>7. QED
  BY <1>2, <1>4, <1>5, <1>6

\* For tables, limits and lists of any size, the counters are the truth or
\* flagged, never above it; an unflagged list lacks only the least common; and
\* the latest receipt of a summary is no older than any it counts.
THEOREM CountsAreHonest == ReadsSpec => []FleetCountsHonest
<1>1. IInv /\ ReadsInv => FleetCountsHonest
  <2> SUFFICES ASSUME IInv, ReadsInv PROVE FleetCountsHonest
    OBVIOUS
  <2> DEFINE Shadowed(ids) == {i \in Denials(ids) : ~Fields(i).enforced}
  <2>1. ASSUME NEW f \in Filters, NEW limit \in Limits
        PROVE  LET told == FleetActivity(f, limit)
                   all == Matching(f)
                   denied == Denials(all)
               IN IF told.truncated
                    THEN /\ told.total_calls <= Cardinality(all)
                         /\ told.shadowed_denials <= Cardinality(Shadowed(all))
                         /\ AtMost(told.calls_by_agent, all, "spiffe_id")
                         /\ AtMost(told.denials_by_agent, denied, "spiffe_id")
                         /\ AtMost(told.denials_by_reason, denied, "reason")
                    ELSE /\ told.total_calls = Cardinality(all)
                         /\ told.shadowed_denials = Cardinality(Shadowed(all))
                         /\ CutOff(told.calls_by_agent, all, "spiffe_id")
                         /\ CutOff(told.denials_by_agent, denied, "spiffe_id")
                         /\ CutOff(told.denials_by_reason, denied, "reason")
    <3>1. PICK m : m = Matching(f)
      OBVIOUS
    <3>2. PICK page : page = Page(m, limit, 0)
      OBVIOUS
    <3>3. PICK told : told = FleetActivity(f, limit)
      OBVIOUS
    <3>4. m \subseteq 1..lastId /\ lastId \in Nat /\ limit \in Nat
      BY <3>1, MatchingBounded, LimitAssumption
    <3>5. page \in SUBSET m
      BY <3>2 DEF Page
    <3>6. /\ Denials(page) \in SUBSET Denials(m) /\ Denials(m) \in SUBSET m
          /\ Shadowed(page) \in SUBSET Shadowed(m) /\ Shadowed(m) \in SUBSET m
      BY <3>5 DEF Denials
    <3>7. IsFiniteSet(m) /\ IsFiniteSet(Denials(m)) /\ IsFiniteSet(Shadowed(m))
      BY <3>4, <3>6, RankFacts, FS_Subset
    <3>8. told = ActivityOf(page, Cardinality(page) >= limit)
      BY <3>1, <3>2, <3>3 DEF FleetActivity, Search
    <3>9. /\ told.total_calls = Cardinality(page)
          /\ told.shadowed_denials = Cardinality(Shadowed(page))
          /\ told.calls_by_agent = MostCommonCounts(page, "spiffe_id")
          /\ told.denials_by_agent = MostCommonCounts(Denials(page), "spiffe_id")
          /\ told.denials_by_reason = MostCommonCounts(Denials(page), "reason")
          /\ told.truncated = (Cardinality(page) >= limit)
      BY <3>8 DEF ActivityOf
    <3> HIDE DEF Shadowed
    <3>10. CASE told.truncated
      <4>1. Cardinality(page) <= Cardinality(m)
        BY <3>5, <3>7, FS_Subset
      <4>2. Cardinality(Shadowed(page)) <= Cardinality(Shadowed(m))
        BY <3>6, <3>7, FS_Subset
      <4>3. /\ AtMost(told.calls_by_agent, m, "spiffe_id")
            /\ AtMost(told.denials_by_agent, Denials(m), "spiffe_id")
            /\ AtMost(told.denials_by_reason, Denials(m), "reason")
        BY <3>5, <3>6, <3>7, <3>9, ListIsAtMost
      <4>4. QED
        BY <3>1, <3>3, <3>9, <3>10, <4>1, <4>2, <4>3
    <3>11. CASE ~told.truncated
      <4>1. Cardinality(page) < limit
        <5>1. Cardinality(page) \in Nat
          BY <3>2, <3>4, ScanIsAll
        <5>2. ~(Cardinality(page) >= limit)
          BY <3>9, <3>11
        <5>3. QED
          BY <3>4, <5>1, <5>2
      <4>2. page = m
        BY <3>2, <3>4, <4>1, ScanIsAll
      <4>3. /\ CutOff(told.calls_by_agent, m, "spiffe_id")
            /\ CutOff(told.denials_by_agent, Denials(m), "spiffe_id")
            /\ CutOff(told.denials_by_reason, Denials(m), "reason")
        <5>1. m \subseteq Nat
          BY <3>4
        <5>2. Denials(m) \subseteq Nat
          BY <3>6, <5>1
        <5>3. QED
          BY <3>7, <3>9, <4>2, <5>1, <5>2, ListIsCutOff
      <4>4. QED
        BY <3>1, <3>3, <3>9, <3>11, <4>2, <4>3
    <3>12. QED
      BY <3>10, <3>11
  <2>2. QED
    BY <2>1 DEF FleetCountsHonest, ReadsInv, SummaryInv
<1>2. QED
  BY <1>1, ReadsInvariant, PTL
=============================================================================

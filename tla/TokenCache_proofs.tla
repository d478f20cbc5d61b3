-------------------------- MODULE TokenCache_proofs --------------------------
(***************************************************************************)
(* Proofs about TokenCache, for any number of exchanges, users and         *)
(* audiences, any lives of tokens, any margin, maximum and delay.          *)
(***************************************************************************)
EXTENDS TokenCache, TLAPS

\* Every life a key may get is within the cap and, if the token tells its own,
\* within that less the margin.
LEMMA TTLsBounded ==
  ASSUME NEW token \in Token, NEW t \in TTLs(token)
  PROVE  /\ t \in 0..Cap
         /\ t > 0 /\ ~token.opaque => t + Margin <= token.life + 1
<1> USE LivesAssumption, TimesAssumption
<1>1. token.life \in Nat
  BY DEF Token
<1>2. CASE token.opaque
  BY <1>2 DEF TTLs, Cap
<1>3. CASE ~token.opaque
  <2>1. PICK remaining \in {token.life, token.life + 1} :
          t = IF remaining > Margin + MaxTTL THEN MaxTTL
              ELSE IF remaining > Margin THEN remaining - Margin ELSE 0
    BY <1>3 DEF TTLs
  <2>2. QED
    BY <1>1, <2>1 DEF Cap
<1>4. QED
  BY <1>2, <1>3

\* The types of what a token, an entry and an answer hold.
LEMMA Fields ==
  /\ \A token \in Token : token.life \in Nat /\ token.age \in Nat
  /\ \A token \in Token : Older(token) \in Token /\ Older(token).age = token.age + 1
       /\ Older(token).grant = token.grant /\ Older(token).opaque = token.opaque
       /\ Older(token).life = token.life
  /\ Cap \in Nat /\ Bound = Cap + MaxDelay /\ MaxDelay \in Nat /\ Margin \in Nat
  BY LivesAssumption, TimesAssumption DEF Token, Older, Cap, Bound

\* An empty cache satisfies the inductive invariant.
LEMMA IInvInit == Init => IInv
  BY Fields DEF Init, IInv, TypeOK, OwnToken, MarginKept, ReuseBounded, FromCache,
    EntriesYoung, HeldYoung

\* One step per action: a hit serves an entry that is young while it has time
\* left, a fill makes one from a token no older than MaxDelay.
LEMMA IInvStep == IInv /\ [Next]_vars => IInv'
<1> SUFFICES ASSUME IInv, [Next]_vars PROVE IInv'
  OBVIOUS
<1> USE NothingAssumption DEF IInv
<1> DEFINE Same == OwnToken /\ MarginKept /\ ReuseBounded
<1>1. ASSUME NEW c \in Callers, Hit(c) PROVE IInv'
  <2>1. UNCHANGED <<entries, pc, asks, held, ttl>>
    BY <1>1 DEF Hit
  <2>2. PICK g \in Grants : /\ entries[g] # Nothing
                            /\ Answered(g, entries[g].token, TRUE)
    BY <1>1 DEF Hit, CacheKey
  <2> DEFINE token == entries[g].token
             left == entries[g].left
  <2>3. token \in Token /\ left \in 1..Cap /\ token.grant = g /\ Young(token, left)
    BY <2>2 DEF TypeOK, Entry, EntriesYoung
  <2>4. served' = [token |-> token, grant |-> g, cached |-> TRUE]
    BY <2>2 DEF Answered
  <2> HIDE DEF token, left
  <2>5. served' \in Answer
    BY <2>3, <2>4 DEF Answer
  <2>6. (TypeOK /\ EntriesYoung /\ HeldYoung)'
    BY <2>1, <2>5 DEF TypeOK, EntriesYoung, HeldYoung
  <2>7. token.age < Bound /\ (~token.opaque => token.age + Margin <= token.life + MaxDelay)
    BY <2>3, Fields DEF Young
  <2>8. Same'
    BY <2>3, <2>4, <2>7 DEF OwnToken, MarginKept, ReuseBounded, FromCache
  <2>9. QED
    BY <2>6, <2>8
<1>2. ASSUME NEW c \in Callers, Miss(c) PROVE IInv'
  BY <1>2 DEF Miss, Goto, TypeOK, OwnToken, MarginKept, ReuseBounded, FromCache,
    EntriesYoung, HeldYoung
<1>3. ASSUME NEW c \in Callers, Exchange(c) PROVE IInv'
  <2>1. UNCHANGED <<entries, asks, served>> /\ pc[c] = "missed"
    BY <1>3 DEF Exchange
  <2>2. PICK opaque \in BOOLEAN, life \in Lives :
          LET token == [grant |-> asks[c], opaque |-> opaque, life |-> life, age |-> 0]
          IN  /\ held' = [held EXCEPT ![c] = token]
              /\ \E t \in TTLs(token) : ttl' = [ttl EXCEPT ![c] = t]
    BY <1>3 DEF Exchange
  <2> DEFINE token == [grant |-> asks[c], opaque |-> opaque, life |-> life, age |-> 0]
  <2>3. PICK t \in TTLs(token) : ttl' = [ttl EXCEPT ![c] = t]
    BY <2>2
  <2>4. token \in Token /\ token.age = 0 /\ token.grant = asks[c]
    BY DEF TypeOK, Token
  <2> HIDE DEF token
  <2>5. t \in 0..Cap /\ (t > 0 /\ ~token.opaque => t + Margin <= token.life + 1)
    BY <2>4, TTLsBounded
  <2>6. held' = [held EXCEPT ![c] = token] /\ ttl' = [ttl EXCEPT ![c] = t]
        /\ pc' = [pc EXCEPT ![c] = "exchanged"] /\ token # Nothing
    BY <1>3, <2>2, <2>3, <2>4 DEF Exchange, Goto, token
  <2>7. TypeOK'
    BY <2>1, <2>4, <2>5, <2>6, Fields DEF TypeOK
  <2>8. HeldYoung'
    BY <2>1, <2>4, <2>5, <2>6 DEF TypeOK, HeldYoung
  <2>9. (OwnToken /\ MarginKept /\ ReuseBounded /\ EntriesYoung)'
    BY <2>1 DEF OwnToken, MarginKept, ReuseBounded, FromCache, EntriesYoung
  <2>10. QED
    BY <2>7, <2>8, <2>9
<1>4. ASSUME NEW c \in Callers, Fill(c) PROVE IInv'
  <2>1. /\ asks' = asks /\ pc' = [pc EXCEPT ![c] = "idle"]
        /\ held' = [held EXCEPT ![c] = Nothing] /\ ttl' = [ttl EXCEPT ![c] = 0]
        /\ served' = [token |-> held[c], grant |-> asks[c], cached |-> FALSE]
    BY <1>4 DEF Fill, Leave, Goto, Answered
  <2>2. held[c] \in Token /\ held[c].grant = asks[c] /\ held[c].age \in 0..MaxDelay
    BY <1>4 DEF Fill, TypeOK, HeldYoung
  <2>3. served' \in Answer
    BY <2>1, <2>2 DEF Answer, TypeOK
  <2>4. Same' /\ HeldYoung'
    BY <2>1, <2>2 DEF TypeOK, OwnToken, MarginKept, ReuseBounded, FromCache, HeldYoung
  <2>5. CASE entries' = entries
    BY <2>1, <2>3, <2>4, <2>5, Fields DEF TypeOK, EntriesYoung
  <2>6. CASE ttl[c] > 0 /\ entries' = [entries EXCEPT ![asks[c]] =
                                         [token |-> held[c], left |-> ttl[c]]]
    <3> DEFINE entry == [token |-> held[c], left |-> ttl[c]]
    <3>1. entry \in Entry /\ entry.left \in 1..Cap /\ entry.token = held[c]
          /\ entry.left = ttl[c]
      BY <2>2, <2>6, Fields DEF TypeOK, Entry
    <3>2. Aged(entry.token) /\ Young(entry.token, entry.left)
      BY <2>2, <2>6, <3>1, Fields DEF Aged, Young, HeldYoung
    <3>3. entries' = [entries EXCEPT ![asks[c]] = entry] /\ asks[c] \in Grants
      BY <2>6 DEF TypeOK
    <3> HIDE DEF entry
    <3>4. TypeOK'
      BY <2>1, <2>3, <3>1, <3>2, <3>3, Fields DEF TypeOK
    <3>5. EntriesYoung'
      BY <2>2, <3>1, <3>2, <3>3 DEF TypeOK, EntriesYoung
    <3>6. QED
      BY <2>4, <3>4, <3>5
  <2>7. QED
    BY <1>4, <2>5, <2>6 DEF Fill, CacheKey
<1>5. ASSUME NEW c \in Callers, Raise(c) PROVE IInv'
  BY <1>5, Fields DEF Raise, Leave, Goto, TypeOK, OwnToken, MarginKept, ReuseBounded,
    FromCache, EntriesYoung, HeldYoung
<1>6. ASSUME NEW g \in Grants, Evict(g) PROVE IInv'
  BY <1>6 DEF Evict, TypeOK, OwnToken, MarginKept, ReuseBounded, FromCache,
    EntriesYoung, HeldYoung
<1>7. CASE Tick
  <2>1. UNCHANGED <<pc, asks, ttl, served>>
    BY <1>7 DEF Tick
  <2>2. ASSUME NEW c \in Callers
        PROVE  /\ held'[c] \in Token \cup {Nothing}
               /\ held'[c] # Nothing => held'[c].age \in 0..MaxDelay
               /\ held'[c] # Nothing <=> pc[c] = "exchanged"
               /\ held'[c] # Nothing =>
                    /\ held'[c].grant = asks[c]
                    /\ ttl[c] > 0 /\ ~held'[c].opaque => ttl[c] + Margin <= held'[c].life + 1
    <3>1. CASE held[c] = Nothing
      BY <1>7, <3>1 DEF Tick, TypeOK
    <3>2. CASE held[c] # Nothing
      <4>1. held'[c] = Older(held[c]) /\ held[c] \in Token /\ held[c].age < MaxDelay
            /\ pc[c] = "exchanged"
        BY <1>7, <3>2 DEF Tick, TypeOK
      <4>2. held'[c] \in Token /\ held'[c].age \in 0..MaxDelay
        BY <4>1, Fields
      <4>3. held'[c].grant = held[c].grant /\ held'[c].opaque = held[c].opaque
            /\ held'[c].life = held[c].life
        BY <4>1, Fields
      <4>4. QED
        BY <3>2, <4>1, <4>2, <4>3 DEF HeldYoung
    <3>3. QED
      BY <3>1, <3>2
  <2>3. ASSUME NEW g \in Grants
        PROVE  /\ entries'[g] \in Entry \cup {Nothing}
               /\ entries'[g] # Nothing =>
                    /\ entries'[g].left \in 1..Cap /\ Aged(entries'[g].token)
                    /\ entries'[g].token.grant = g
                    /\ Young(entries'[g].token, entries'[g].left)
    <3>1. CASE entries[g] = Nothing \/ entries[g].left = 1
      BY <1>7, <3>1 DEF Tick
    <3>2. CASE ~(entries[g] = Nothing \/ entries[g].left = 1)
      <4> DEFINE token == entries[g].token
                 left == entries[g].left
      <4>1. entries'[g] = [token |-> Older(token), left |-> left - 1]
        BY <1>7, <3>2 DEF Tick
      <4>2. token \in Token /\ left \in 2..Cap /\ Aged(token) /\ Young(token, left)
            /\ token.grant = g
        BY <3>2, Fields DEF TypeOK, Entry, EntriesYoung
      <4> HIDE DEF token, left
      <4>3. entries'[g].token = Older(token) /\ entries'[g].left = left - 1
            /\ entries'[g] \in Entry
        BY <4>1, <4>2, Fields DEF Entry
      <4>4. Aged(Older(token)) /\ Young(Older(token), left - 1)
        BY <4>2, Fields DEF Aged, Young
      <4>5. QED
        BY <4>2, <4>3, <4>4, Fields
    <3>3. QED
      BY <3>1, <3>2
  <2>4. TypeOK'
    <3>1. held' \in [Callers -> Token \cup {Nothing}]
      BY <1>7, <2>2 DEF Tick
    <3>2. entries' \in [Grants -> Entry \cup {Nothing}]
      BY <1>7, <2>3 DEF Tick
    <3>3. QED
      BY <2>1, <2>2, <2>3, <3>1, <3>2 DEF TypeOK
  <2>5. EntriesYoung' /\ HeldYoung'
    BY <2>1, <2>2, <2>3 DEF EntriesYoung, HeldYoung
  <2>6. Same'
    BY <2>1 DEF OwnToken, MarginKept, ReuseBounded, FromCache
  <2>7. QED
    BY <2>4, <2>5, <2>6
<1>8. CASE UNCHANGED vars
  BY <1>8 DEF vars, TypeOK, OwnToken, MarginKept, ReuseBounded, FromCache,
    EntriesYoung, HeldYoung
<1>9. QED
  BY <1>1, <1>2, <1>3, <1>4, <1>5, <1>6, <1>7, <1>8 DEF Next

\* The inductive invariant of the token cache holds of every behaviour.
THEOREM InductiveInvariant == Spec => []IInv
  BY IInvInit, IInvStep, PTL DEF Spec

\* Every variable of the token cache keeps its type.
THEOREM TypeCorrect == Spec => []TypeOK
<1>1. IInv => TypeOK
  BY DEF IInv
<1>2. QED
  BY InductiveInvariant, <1>1, PTL

\* No user is ever handed the credential of another, nor one for another
\* audience.
THEOREM TokensAreOnesOwn == Spec => []OwnToken
<1>1. IInv => OwnToken
  BY DEF IInv
<1>2. QED
  BY InductiveInvariant, <1>1, PTL

\* A cached token that tells its expiry is served with its margin, less the
\* delay of the SET, for all values of the two.
THEOREM MarginIsKept == Spec => []MarginKept
<1>1. IInv => MarginKept
  BY DEF IInv
<1>2. QED
  BY InductiveInvariant, <1>1, PTL

\* No token is reused for longer than the cap and the delay together.
THEOREM ReuseIsBounded == Spec => []ReuseBounded
<1>1. IInv => ReuseBounded
  BY DEF IInv
<1>2. QED
  BY InductiveInvariant, <1>1, PTL
=============================================================================

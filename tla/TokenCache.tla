----------------------------- MODULE TokenCache -----------------------------
(***************************************************************************)
(* adapters/token_exchange/caching.py: CachingTokenExchange.exchange, by   *)
(* any number of concurrent calls in any number of gateway replicas that   *)
(* share one Redis.                                                        *)
(*                                                                         *)
(* Time passes in ticks and only durations are kept: how long a token      *)
(* lives and how long ago it came from the identity provider, how long a   *)
(* key still lives.                                                        *)
(***************************************************************************)
EXTENDS Naturals

CONSTANTS
  Callers,      \* calls of exchange(), each used again and again
  Subjects,     \* subject tokens
  Audiences,
  Lives,        \* ticks a token may live when it is exchanged
  Nothing,      \* no key, no token, no answer yet
  MaxTTL,       \* OAC_TOKEN_CACHE_MAX_TTL_SECONDS
  Margin,       \* OAC_TOKEN_CACHE_SAFETY_MARGIN_SECONDS
  MaxDelay      \* ticks between the exchange and the SET

Grants == Subjects \X Audiences

\* What the identity provider hands out; an opaque token does not tell its life.
Token == [grant: Grants, opaque: BOOLEAN, life: Lives, age: Nat]
Entry == [token: Token, left: Nat]
Answer == [token: Token, grant: Grants, cached: BOOLEAN]

ASSUME LivesAssumption == Lives \subseteq Nat
ASSUME TimesAssumption == MaxTTL \in Nat /\ Margin \in Nat /\ MaxDelay \in Nat
ASSUME NothingAssumption == Nothing \notin Token \cup Entry \cup Answer

VARIABLES
  entries,      \* the Redis keys
  pc,           \* where each exchange() stands
  asks,         \* its arguments
  held,         \* its local `token`
  ttl,          \* its local `ttl`
  served        \* the last answer of any exchange(), its token as it was then

vars == <<entries, pc, asks, held, ttl, served>>

\* The most a key may live; a token is in nobody's hands at the age of Bound.
Cap == IF MaxTTL > Margin THEN MaxTTL ELSE Margin
Bound == Cap + MaxDelay

Aged(token) == token.age \in 0..Bound

TypeOK ==
  /\ entries \in [Grants -> Entry \cup {Nothing}]
  /\ \A g \in Grants : entries[g] # Nothing =>
       entries[g].left \in 1..Cap /\ Aged(entries[g].token)
  /\ pc \in [Callers -> {"idle", "missed", "exchanged"}]
  /\ asks \in [Callers -> Grants]
  /\ held \in [Callers -> Token \cup {Nothing}]
  /\ \A c \in Callers : /\ held[c] # Nothing => held[c].age \in 0..MaxDelay
                        /\ held[c] # Nothing <=> pc[c] = "exchanged"
  /\ ttl \in [Callers -> 0..Cap]
  /\ served \in Answer \cup {Nothing}

Init ==
  /\ entries = [g \in Grants |-> Nothing]
  /\ pc = [c \in Callers |-> "idle"]
  /\ asks \in [Callers -> Grants]
  /\ held = [c \in Callers |-> Nothing]
  /\ ttl = [c \in Callers |-> 0]
  /\ served = Nothing

Goto(c, place) == pc' = [pc EXCEPT ![c] = place]

\* exchange() returns or raises, and its locals are gone.
Leave(c) ==
  /\ Goto(c, "idle")
  /\ held' = [held EXCEPT ![c] = Nothing]
  /\ ttl' = [ttl EXCEPT ![c] = 0]

Answered(grant, token, cached) ==
  served' = [token |-> token, grant |-> grant, cached |-> cached]

\* Mutant of CacheKey: the key leaves the subject out.
KeyOfAudience(grant) == <<CHOOSE s \in Subjects : TRUE, grant[2]>>

\* The hash of subject token and audience, taken to be injective.
CacheKey(grant) == grant

Hit(c) ==
  /\ pc[c] = "idle"
  /\ \E g \in Grants :
       /\ entries[CacheKey(g)] # Nothing
       /\ Answered(g, entries[CacheKey(g)].token, TRUE)
  /\ UNCHANGED <<entries, pc, asks, held, ttl>>

Miss(c) ==
  /\ pc[c] = "idle"
  /\ \E g \in Grants :
       /\ entries[CacheKey(g)] = Nothing
       /\ asks' = [asks EXCEPT ![c] = g]
  /\ Goto(c, "missed")
  /\ UNCHANGED <<entries, held, ttl, served>>

\* Mutant of TTLs: the safety margin is forgotten.
TTLsWithoutMargin(token) ==
  IF token.opaque THEN {Margin}
  ELSE {IF remaining > MaxTTL THEN MaxTTL ELSE remaining :
          remaining \in {token.life, token.life + 1}}

\* Mutant of TTLs: the configured maximum is forgotten.
TTLsUncapped(token) ==
  IF token.opaque THEN {Margin}
  ELSE {IF remaining > Margin THEN remaining - Margin ELSE 0 :
          remaining \in {token.life, token.life + 1}}

\* _ttl_from_token: int(time.time()) rounds down, so up to one tick more than
\* the token has may seem to remain.
TTLs(token) ==
  IF token.opaque THEN {Margin}
  ELSE {IF remaining > Margin + MaxTTL THEN MaxTTL
        ELSE IF remaining > Margin THEN remaining - Margin ELSE 0 :
          remaining \in {token.life, token.life + 1}}

\* The identity provider answers.
Exchange(c) ==
  /\ pc[c] = "missed"
  /\ \E opaque \in BOOLEAN, life \in Lives :
       LET token == [grant |-> asks[c], opaque |-> opaque, life |-> life, age |-> 0]
       IN  /\ held' = [held EXCEPT ![c] = token]
           /\ \E t \in TTLs(token) : ttl' = [ttl EXCEPT ![c] = t]
  /\ Goto(c, "exchanged")
  /\ UNCHANGED <<entries, asks, served>>

\* A token that has time left is put in the cache, over whatever another
\* exchange has put there meanwhile; then exchange() returns it.
Fill(c) ==
  /\ pc[c] = "exchanged"
  /\ \/ /\ ttl[c] > 0
        /\ entries' = [entries EXCEPT ![CacheKey(asks[c])] =
                         [token |-> held[c], left |-> ttl[c]]]
     \/ ttl[c] = 0 /\ UNCHANGED entries
  /\ Answered(asks[c], held[c], FALSE)
  /\ Leave(c)
  /\ UNCHANGED asks

\* The identity provider or Redis fails: exchange() raises, even with a token
\* at hand.
Raise(c) ==
  /\ pc[c] \in {"missed", "exchanged"}
  /\ Leave(c)
  /\ UNCHANGED <<entries, asks, served>>

-----------------------------------------------------------------------------
(* The environment.                                                        *)

\* Redis evicts a key.
Evict(g) ==
  /\ entries[g] # Nothing
  /\ entries' = [entries EXCEPT ![g] = Nothing]
  /\ UNCHANGED <<pc, asks, held, ttl, served>>

Older(token) == [token EXCEPT !.age = @ + 1]

\* A tick passes, and the keys that have none left expire.
Tick ==
  /\ \A c \in Callers : pc[c] = "exchanged" => held[c].age < MaxDelay
  /\ held' = [c \in Callers |-> IF held[c] = Nothing THEN Nothing ELSE Older(held[c])]
  /\ entries' = [g \in Grants |->
       IF entries[g] = Nothing \/ entries[g].left = 1 THEN Nothing
       ELSE [token |-> Older(entries[g].token), left |-> entries[g].left - 1]]
  /\ UNCHANGED <<pc, asks, ttl, served>>

Next ==
  \/ \E c \in Callers : Hit(c) \/ Miss(c) \/ Exchange(c) \/ Fill(c) \/ Raise(c)
  \/ \E g \in Grants : Evict(g)
  \/ Tick

Spec == Init /\ [][Next]_vars

-----------------------------------------------------------------------------

\* Nobody is handed a token that was exchanged for another user, or for another
\* audience, whatever the cache holds and whoever filled it.
OwnToken == served # Nothing => served.token.grant = served.grant

FromCache == served # Nothing /\ served.cached

\* A token from the cache that tells its expiry is still good for the safety
\* margin, less the time the SET may have taken: a margin beyond that delay is
\* what keeps an expired credential from being sent upstream.
MarginKept ==
  FromCache /\ ~served.token.opaque =>
    served.token.age + Margin <= served.token.life + MaxDelay

\* A user's access lost at the identity provider is lost here in time: no
\* token, opaque or not, is reused Cap + MaxDelay ticks after it was exchanged,
\* however late and out of order the keys are set.
ReuseBounded == FromCache => served.token.age < Bound

-----------------------------------------------------------------------------
(* The inductive invariant.                                                *)

\* A key with some time left is that much younger than its bounds.
Young(token, left) ==
  /\ token.age + left <= Bound
  /\ ~token.opaque => token.age + left + Margin <= token.life + 1 + MaxDelay

EntriesYoung ==
  \A g \in Grants : entries[g] # Nothing =>
    /\ entries[g].token.grant = g
    /\ Young(entries[g].token, entries[g].left)

HeldYoung ==
  \A c \in Callers : held[c] # Nothing =>
    /\ held[c].grant = asks[c]
    /\ ttl[c] > 0 /\ ~held[c].opaque => ttl[c] + Margin <= held[c].life + 1

IInv ==
  /\ TypeOK /\ OwnToken /\ MarginKept /\ ReuseBounded
  /\ EntriesYoung /\ HeldYoung
=============================================================================

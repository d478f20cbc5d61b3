--------------------------- MODULE RegistryCache ---------------------------
(***************************************************************************)
(* adapters/registry/caching.py: CachingAgentRegistry.lookup, for one      *)
(* SPIFFE id, by any number of concurrent calls in any number of gateway   *)
(* replicas that share one Redis.                                          *)
(*                                                                         *)
(* Time passes in ticks and only durations are kept: how long a key still  *)
(* lives, how long ago a record was last the current one, how long a       *)
(* lookup has been holding what it read.                                   *)
(***************************************************************************)
EXTENDS Naturals

CONSTANTS
  Readers,      \* calls of lookup(), each used again and again
  Records,      \* what the inner registry may hold, "not registered" included
  Absent,       \* no key in Redis
  TTL,          \* OAC_REGISTRY_CACHE_TTL_SECONDS
  MaxDelay      \* ticks between a read of the inner registry and the SET

ASSUME AbsentAssumption == Absent \notin Records
ASSUME TTLAssumption == TTL \in Nat \ {0}
ASSUME DelayAssumption == MaxDelay \in Nat

VARIABLES
  current,      \* the record the inner registry holds
  age,          \* ticks since each record was current, counted up to Bound
  entry,        \* the Redis key: a record and the ticks it has left, or Absent
  pc,           \* where each lookup() stands
  fetched,      \* its local `agent`, Absent while it has none
  waited,       \* ticks since it read it
  served        \* the last answer of any lookup(), and its age when given

cacheVars == <<current, age, entry, pc, fetched, waited, served>>

\* No answer is as old as this.
Bound == TTL + MaxDelay

Entry == [record: Records, left: 1..TTL]
Served == [record: Records, age: 0..Bound]

CacheTypeOK ==
  /\ current \in Records
  /\ age \in [Records -> 0..Bound]
  /\ entry \in Entry \cup {Absent}
  /\ pc \in [Readers -> {"idle", "missed", "fetched"}]
  /\ fetched \in [Readers -> Records \cup {Absent}]
  /\ waited \in [Readers -> 0..MaxDelay]
  /\ served \in Served

\* Records that were never current are as old as can be.
CacheInit ==
  /\ current \in Records
  /\ age = [r \in Records |-> IF r = current THEN 0 ELSE Bound]
  /\ entry = Absent
  /\ pc = [l \in Readers |-> "idle"]
  /\ fetched = [l \in Readers |-> Absent]
  /\ waited = [l \in Readers |-> 0]
  /\ served = [record |-> current, age |-> 0]

Answered(r) == served' = [record |-> r, age |-> age[r]]

Goto(l, place) == pc' = [pc EXCEPT ![l] = place]

\* lookup() returns or raises, and its locals are gone.
Leave(l) ==
  /\ Goto(l, "idle")
  /\ fetched' = [fetched EXCEPT ![l] = Absent]
  /\ waited' = [waited EXCEPT ![l] = 0]

\* Mutant of Hit: a hit extends the life of the key.
HitExtends(l) ==
  /\ pc[l] = "idle"
  /\ entry # Absent
  /\ Answered(entry.record)
  /\ entry' = [entry EXCEPT !.left = TTL]
  /\ UNCHANGED <<current, age, pc, fetched, waited>>

\* redis.get finds the key: its record, the empty string included, is the
\* answer.
Hit(l) ==
  /\ pc[l] = "idle"
  /\ entry # Absent
  /\ Answered(entry.record)
  /\ UNCHANGED <<current, age, entry, pc, fetched, waited>>

Miss(l) ==
  /\ pc[l] = "idle"
  /\ entry = Absent
  /\ Goto(l, "missed")
  /\ UNCHANGED <<current, age, entry, fetched, waited, served>>

\* The inner registry answers.
Fetch(l) ==
  /\ pc[l] = "missed"
  /\ fetched' = [fetched EXCEPT ![l] = current]
  /\ Goto(l, "fetched")
  /\ UNCHANGED <<current, age, entry, waited, served>>

\* redis.set(..., ex=ttl) overwrites whatever another lookup has put there
\* meanwhile; then lookup() returns.
Fill(l) ==
  /\ pc[l] = "fetched"
  /\ entry' = [record |-> fetched[l], left |-> TTL]
  /\ Answered(fetched[l])
  /\ Leave(l)
  /\ UNCHANGED <<current, age>>

\* The registry or Redis fails: lookup() raises, even with a record at hand.
Raise(l) ==
  /\ pc[l] \in {"missed", "fetched"}
  /\ Leave(l)
  /\ UNCHANGED <<current, age, entry, served>>

-----------------------------------------------------------------------------
(* The environment.                                                        *)

\* An operator changes the record; nothing invalidates the key.
Change ==
  /\ \E r \in Records \ {current} :
       /\ current' = r
       /\ age' = [age EXCEPT ![r] = 0]
  /\ UNCHANGED <<entry, pc, fetched, waited, served>>

\* Redis evicts the key or is restarted empty.
Evict ==
  /\ entry # Absent
  /\ entry' = Absent
  /\ UNCHANGED <<current, age, pc, fetched, waited, served>>

\* Mutant of CacheTick: keys do not expire.
TickWithoutExpiry ==
  /\ \A l \in Readers : pc[l] = "fetched" => waited[l] < MaxDelay
  /\ age' = [r \in Records |->
       IF r = current \/ age[r] = Bound THEN age[r] ELSE age[r] + 1]
  /\ waited' = [l \in Readers |->
       IF pc[l] = "fetched" THEN waited[l] + 1 ELSE waited[l]]
  /\ UNCHANGED <<current, entry, pc, fetched, served>>

\* A tick passes, and the key expires when it has none left.
CacheTick ==
  /\ \A l \in Readers : pc[l] = "fetched" => waited[l] < MaxDelay
  /\ age' = [r \in Records |->
       IF r = current \/ age[r] = Bound THEN age[r] ELSE age[r] + 1]
  /\ waited' = [l \in Readers |->
       IF pc[l] = "fetched" THEN waited[l] + 1 ELSE waited[l]]
  /\ entry' = IF entry = Absent \/ entry.left = 1
                THEN Absent ELSE [entry EXCEPT !.left = @ - 1]
  /\ UNCHANGED <<current, pc, fetched, served>>

CacheNext ==
  \/ \E l \in Readers : Hit(l) \/ Miss(l) \/ Fetch(l) \/ Fill(l) \/ Raise(l)
  \/ Change \/ Evict \/ CacheTick

\* Time passes, and a lookup that has read the registry ends.
CacheFairness ==
  /\ WF_cacheVars(CacheTick)
  /\ \A l \in Readers : WF_cacheVars(Fill(l) \/ Raise(l))

CacheSpec == CacheInit /\ [][CacheNext]_cacheVars /\ CacheFairness

-----------------------------------------------------------------------------

\* docs/user-journeys.md: revocation latency is one registry cache TTL. What
\* lookup() answers was the registry's record less than TTL + MaxDelay ticks
\* ago, however many lookups fill the key, late and out of order: a
\* suspension, and a registration cached as missing, take that long at most.
StaleReadBound == served.age < Bound

\* When the registry stops changing, the stale record is out of the cache for
\* good in the end: no chain of late fills keeps it alive.
CacheConverges ==
  \A r \in Records :
    []([](current = r) => <>[](entry = Absent \/ entry.record = r))

\* The records lookup() may still answer with.
Servable == {r \in Records : age[r] < Bound}

\* The registry that the gateway asks, as seen through its cache.
Port == INSTANCE RegistryPort
  WITH Readers <- {"any"}, recent <- Servable,
       answered <- [l \in {"any"} |-> served.record]

\* The cache is a registry whose recent records are those replaced less than
\* TTL + MaxDelay ticks ago: all that GovernedExecution assumes of its lookups.
PortSpec == Port!Spec

-----------------------------------------------------------------------------
(* The inductive invariant behind StaleReadBound: what a key has left to live, *)
(* and what a late fill may still add to it, never exceeds what the age of its *)
(* record allows.                                                            *)

CurrentFresh == age[current] = 0
EntryYoung == entry # Absent => age[entry.record] + entry.left <= Bound
FetchYoung ==
  \A l \in Readers : pc[l] = "fetched" =>
    fetched[l] \in Records /\ age[fetched[l]] <= waited[l]

CacheInv == CacheTypeOK /\ StaleReadBound /\ CurrentFresh /\ EntryYoung /\ FetchYoung

-----------------------------------------------------------------------------
(* The safety half of CacheConverges: how long the registry has to be quiet, *)
(* and that what is out of the cache by then stays out.                      *)

\* No other record was current within the last Bound ticks.
Quiet == \A r \in Records \ {current} : age[r] = Bound

\* No key and no fill still under way holds another record.
OnlyRecord(r) ==
  /\ entry = Absent \/ entry.record = r
  /\ fetched \in [Readers -> {r, Absent}]

\* Once the registry has kept its record for TTL + MaxDelay ticks, no other is
\* in the cache or on its way there, for as long as it keeps it.
StaleStaysOut ==
  \A r \in Records : [](Quiet /\ [](current = r) => []OnlyRecord(r))
=============================================================================

------------------------- MODULE Deployment_proofs -------------------------
(***************************************************************************)
(* Proofs about what a gateway looks its agents up in and what it is       *)
(* deployed with: the registry cache its replicas share (RegistryCache),   *)
(* the registry file it follows and the probes of its health (Deployment). *)
(***************************************************************************)
EXTENDS RegistryCache, Deployment, TLAPS

(* The registry cache, for any number of lookups and records, any TTL and  *)
(* any delay.                                                              *)

\* An empty cache and a fresh record satisfy the inductive invariant.
LEMMA CacheInvInit == CacheInit => CacheInv
  BY AbsentAssumption, TTLAssumption, DelayAssumption
  DEF CacheInit, CacheInv, CacheTypeOK, StaleReadBound, CurrentFresh, EntryYoung,
      FetchYoung, Bound, Served

\* One step per action: only Hit and Fill serve anything, only Fill lengthens
\* the life of a key, and a tick ages records and shortens it at once.
LEMMA CacheInvStep == CacheInv /\ [CacheNext]_cacheVars => CacheInv'
<1> SUFFICES ASSUME CacheInv, [CacheNext]_cacheVars PROVE CacheInv'
  OBVIOUS
<1> USE AbsentAssumption, TTLAssumption, DelayAssumption
    DEF CacheInv, CacheTypeOK, StaleReadBound, CurrentFresh, EntryYoung,
        FetchYoung, Bound, Entry, Served
<1>1. ASSUME NEW l \in Readers, Hit(l) PROVE CacheInv'
  BY <1>1 DEF Hit, Answered
<1>2. ASSUME NEW l \in Readers, Miss(l) PROVE CacheInv'
  BY <1>2 DEF Miss, Goto
<1>3. ASSUME NEW l \in Readers, Fetch(l) PROVE CacheInv'
  BY <1>3 DEF Fetch, Goto
<1>4. ASSUME NEW l \in Readers, Fill(l) PROVE CacheInv'
  BY <1>4 DEF Fill, Leave, Goto, Answered
<1>5. ASSUME NEW l \in Readers, Raise(l) PROVE CacheInv'
  BY <1>5 DEF Raise, Leave, Goto
<1>6. CASE Change
  BY <1>6 DEF Change
<1>7. CASE Evict
  BY <1>7 DEF Evict
<1>8. CASE CacheTick
  BY <1>8 DEF CacheTick
<1>9. CASE UNCHANGED cacheVars
  BY <1>9 DEF cacheVars
<1>10. QED
  BY <1>1, <1>2, <1>3, <1>4, <1>5, <1>6, <1>7, <1>8, <1>9 DEF CacheNext

\* The inductive invariant of the cache holds of every behaviour.
THEOREM CacheInvariant == CacheSpec => []CacheInv
  BY CacheInvInit, CacheInvStep, PTL DEF CacheSpec

\* Every variable of the cache keeps its type.
THEOREM CacheTypeCorrect == CacheSpec => []CacheTypeOK
<1>1. CacheInv => CacheTypeOK
  BY DEF CacheInv
<1>2. QED
  BY CacheInvariant, <1>1, PTL

\* For every TTL and delay, and however many lookups fill the key late and out
\* of order, no answer is TTL + MaxDelay ticks old.
THEOREM StaleReadsBounded == CacheSpec => []StaleReadBound
<1>1. CacheInv => StaleReadBound
  BY DEF CacheInv
<1>2. QED
  BY CacheInvariant, <1>1, PTL

\* A quiet registry stays quiet while its record does not change.
LEMMA QuietStep ==
  ASSUME NEW r \in Records
  PROVE  CacheInv /\ Quiet /\ current = r /\ (current = r)' /\ [CacheNext]_cacheVars
           => Quiet'
<1> SUFFICES ASSUME CacheInv, Quiet, current = r, current' = r, [CacheNext]_cacheVars
             PROVE  Quiet'
  OBVIOUS
<1>1. CASE CacheTick
  BY <1>1 DEF CacheTick, Quiet
<1>2. CASE Change
  BY <1>2 DEF Change
<1>3. CASE UNCHANGED <<current, age>>
  BY <1>3 DEF Quiet, Bound
<1>4. QED
  BY <1>1, <1>2, <1>3
  DEF CacheNext, Hit, Miss, Fetch, Fill, Raise, Evict, cacheVars

\* Whatever is in the cache, or on its way there, is too young to be another
\* record than the one a quiet registry holds.
LEMMA QuietIsFresh ==
  ASSUME NEW r \in Records, CacheInv, Quiet, current = r,
         \A l \in Readers : fetched[l] # Absent => pc[l] = "fetched"
  PROVE  OnlyRecord(r)
<1> USE TTLAssumption, DelayAssumption DEF CacheInv, CacheTypeOK
<1>1. ASSUME NEW s \in Records, age[s] < Bound PROVE s = r
  BY <1>1 DEF Quiet
<1>2. entry # Absent => entry.record \in Records /\ age[entry.record] < Bound
  BY DEF EntryYoung, Entry, Bound
<1>3. ASSUME NEW l \in Readers, fetched[l] # Absent PROVE fetched[l] = r
  <2>1. fetched[l] \in Records /\ age[fetched[l]] <= waited[l] /\ waited[l] \in 0 .. MaxDelay
    BY <1>3 DEF FetchYoung
  <2>2. age[fetched[l]] < Bound
    BY <2>1 DEF Bound
  <2>3. QED
    BY <1>1, <2>1, <2>2
<1>4. fetched \in [Readers -> {r, Absent}]
  BY <1>3
<1>5. QED
  BY <1>1, <1>2, <1>4 DEF OnlyRecord

\* A lookup has a record at hand only between its read and its SET.
LEMMA FetchedStep ==
  ASSUME CacheTypeOK, \A l \in Readers : fetched[l] # Absent => pc[l] = "fetched",
         [CacheNext]_cacheVars
  PROVE  \A l \in Readers : fetched'[l] # Absent => pc'[l] = "fetched"
  BY DEF CacheTypeOK, CacheNext, Hit, Miss, Fetch, Fill, Raise, Leave, Goto, Change,
         Evict, CacheTick, cacheVars

\* The safety half of CacheConverges, for any TTL, delay and number of lookups:
\* TTL + MaxDelay ticks after the last change no stale record is in the cache
\* or on its way there, and none comes back while the record stays.
THEOREM StaleRecordsStayOut == CacheSpec => StaleStaysOut
<1> DEFINE Held == \A l \in Readers : fetched[l] # Absent => pc[l] = "fetched"
<1> SUFFICES ASSUME NEW r \in Records
             PROVE  CacheSpec =>
                      [](Quiet /\ [](current = r) => []OnlyRecord(r))
  BY DEF StaleStaysOut
<1>1. CacheInit => Held
  BY DEF CacheInit
<1>2. CacheInv /\ Held /\ [CacheNext]_cacheVars => Held'
  BY FetchedStep DEF CacheInv
<1>3. CacheInv /\ Quiet /\ current = r /\ (current = r)' /\ [CacheNext]_cacheVars
        => Quiet'
  BY QuietStep
<1>4. CacheInv /\ Held /\ Quiet /\ current = r =>
        OnlyRecord(r)
  BY QuietIsFresh
<1> HIDE DEF Held
<1>5. QED
  BY <1>1, <1>2, <1>3, <1>4, CacheInvariant, PTL DEF CacheSpec

\* The cache implements the registry port: a tick or a change makes records
\* older or current, and only records still recent are answered.
THEOREM CacheImplementsRegistry == CacheSpec => PortSpec
<1> USE TTLAssumption, DelayAssumption
<1>1. CacheInit => Port!Init
  BY DEF CacheInit, Port!Init, Servable, Bound
<1>2. CacheInv /\ [CacheNext]_cacheVars => [Port!Next]_(Port!vars)
  <2> SUFFICES ASSUME CacheInv, [CacheNext]_cacheVars
               PROVE  Port!Next \/ UNCHANGED Port!vars
    BY DEF Port!vars
  <2>0. /\ CacheTypeOK /\ CacheInv'
        /\ current' \in Records /\ current' \in Servable'
    <3>1. CacheInv'
      BY CacheInvStep
    <3>2. QED
      BY <3>1 DEF CacheInv, CacheTypeOK, CurrentFresh, Servable, Bound
  <2>1. ASSUME NEW r \in Records, age[r] < Bound, Answered(r), UNCHANGED <<current, age>>
        PROVE  Port!Lookup("any")
    <3>1. r \in Servable /\ Servable' = Servable
      BY <2>1 DEF Servable
    <3>2. served'.record = r
      BY <2>1 DEF Answered
    <3>3. [l \in {"any"} |-> served.record]' =
            [[l \in {"any"} |-> served.record] EXCEPT !["any"] = r]
      BY <3>2
    <3>4. QED
      BY <2>1, <3>1, <3>3 DEF Port!Lookup
  <2>2. ASSUME NEW l \in Readers, Hit(l) PROVE Port!Next
    <3>1. entry.record \in Records /\ age[entry.record] < Bound
      BY <2>0, <2>2 DEF Hit, CacheInv, CacheTypeOK, EntryYoung, Entry, Bound
    <3>2. Answered(entry.record) /\ UNCHANGED <<current, age>>
      BY <2>2 DEF Hit
    <3>3. QED
      BY <2>1, <3>1, <3>2 DEF Port!Next
  <2>3. ASSUME NEW l \in Readers, Fill(l) PROVE Port!Next
    <3>1. fetched[l] \in Records /\ age[fetched[l]] < Bound
      BY <2>0, <2>3 DEF Fill, CacheInv, CacheTypeOK, FetchYoung, Bound
    <3>2. Answered(fetched[l]) /\ UNCHANGED <<current, age>>
      BY <2>3 DEF Fill
    <3>3. QED
      BY <2>1, <3>1, <3>2 DEF Port!Next
  <2>4. CASE Change \/ CacheTick
    <3>1. Servable' \subseteq Servable \cup {current'}
      BY <2>0, <2>4 DEF Change, CacheTick, Servable, CacheTypeOK, Bound
    <3>2. UNCHANGED served
      BY <2>4 DEF Change, CacheTick
    <3>3. Port!Update
      BY <2>0, <3>1, <3>2 DEF Port!Update
    <3>4. QED
      BY <3>3 DEF Port!Next
  <2>5. CASE \/ \E l \in Readers : Miss(l) \/ Fetch(l) \/ Raise(l)
             \/ Evict \/ UNCHANGED cacheVars
    BY <2>5 DEF Miss, Fetch, Raise, Evict, cacheVars, Port!vars, Servable
  <2>6. QED
    BY <2>2, <2>3, <2>4, <2>5 DEF CacheNext
<1>3. QED
  BY <1>1, <1>2, CacheInvariant, PTL DEF CacheSpec, PortSpec, Port!Spec

-----------------------------------------------------------------------------
(* Deployment, for any settings and file contents and any bounds.          *)

\* What makes a probe, and what its fields are.
LEMMA ProbeFields ==
  ASSUME NEW p \in Probes, NEW n \in 0 .. 6, NEW ok \in BOOLEAN, NEW r \in Reports,
         NEW u \in BOOLEAN
  PROVE  /\ p.next \in 0 .. 6 /\ p.ok \in BOOLEAN /\ p.report \in Reports
         /\ p.undisturbed \in BOOLEAN
         /\ [next |-> n, ok |-> ok, report |-> r, undisturbed |-> u] \in Probes
         /\ [p EXCEPT !.next = n, !.ok = ok] \in Probes
         /\ [p EXCEPT !.next = n, !.ok = ok, !.report = r] \in Probes
         /\ [p EXCEPT !.undisturbed = u] \in Probes
  BY DEF Probes

\* What a check says is a Boolean, and so is what all of them said so far.
LEMMA CheckOutcome ==
  ASSUME probe \in Probes, RunCheck
  PROVE  /\ probe.next \in 1 .. 6 /\ Len(Checks) = 6 /\ DOMAIN Checks = 1 .. 6
         /\ \E ok \in BOOLEAN : /\ ok <=> probe.ok /\ Passes(Checks[probe.next])
                                /\ probe' = AfterCheck(ok)
<1>1. probe.next \in 0 .. 6
  BY DEF Probes
<1>2. probe.next \in 1 .. 6 /\ Len(Checks) = 6 /\ DOMAIN Checks = 1 .. 6
  BY <1>1 DEF RunCheck, Checks
<1>3. (probe.ok /\ Passes(Checks[probe.next])) \in BOOLEAN
  BY Zenon
<1>4. probe' = AfterCheck(probe.ok /\ Passes(Checks[probe.next]))
  BY DEF RunCheck
<1>5. QED
  BY <1>2, <1>3, <1>4, Zenon

\* A check leaves a probe.
LEMMA CheckedProbe ==
  ASSUME probe \in Probes, RunCheck
  PROVE  probe' \in Probes
<1>1. PICK ok \in BOOLEAN : probe' = AfterCheck(ok)
  BY CheckOutcome
<1>2. probe.next \in 1 .. 6 /\ Len(Checks) = 6
  BY CheckOutcome
<1>3. CASE probe.next = 6
  <2>1. PICK r \in Reports : r = IF ok THEN "ready" ELSE "not ready"
    BY DEF Reports
  <2>2. probe' = [probe EXCEPT !.next = 0, !.ok = ok, !.report = r]
    BY <1>1, <1>2, <1>3, <2>1 DEF AfterCheck
  <2>3. \A n \in 0 .. 6 : [probe EXCEPT !.next = n, !.ok = ok, !.report = r] \in Probes
    BY ProbeFields, Zenon
  <2>4. 0 \in 0 .. 6
    OBVIOUS
  <2>5. QED
    BY <2>2, <2>3, <2>4, Zenon
<1>4. CASE probe.next # 6
  <2>1. probe.next + 1 \in 0 .. 6
    BY <1>2, <1>4
  <2>2. probe' = [probe EXCEPT !.next = probe.next + 1, !.ok = ok]
    BY <1>1, <1>2, <1>4 DEF AfterCheck
  <2>3. QED
    BY <2>1, <2>2 DEF Probes
<1>5. QED
  BY <1>3, <1>4

\* Every step keeps the types.
LEMMA TypeStep == TypeOK /\ [Next]_vars => TypeOK'
<1> SUFFICES ASSUME TypeOK, [Next]_vars PROVE TypeOK'
  OBVIOUS
<1> USE SettingsAssumption, ContentsAssumption, BoundAssumption
    DEF TypeOK, Files, Revisions
<1>0. /\ [probe EXCEPT !.undisturbed = FALSE] \in Probes
      /\ [next |-> 1, ok |-> TRUE, report |-> "none", undisturbed |-> TRUE] \in Probes
  <2>1. probe \in Probes /\ FALSE \in BOOLEAN /\ TRUE \in BOOLEAN /\ 1 \in 0 .. 6
        /\ "none" \in Reports
    BY DEF Reports
  <2>2. QED
    BY <2>1, ProbeFields, Zenon
<1>1. CASE StartProbe
  BY <1>0, <1>1 DEF StartProbe
<1>2. CASE RunCheck
  <2>1. /\ UNCHANGED <<settings, up, schema, clock, file, past, process, loaded, lookup>>
        /\ probe \in Probes
    BY <1>2 DEF RunCheck
  <2>2. probe' \in Probes
    BY <1>2, <2>1, CheckedProbe
  <2>3. QED
    BY <2>1, <2>2
<1>3. CASE Start
  BY <1>3 DEF Start
<1>4. CASE Stop
  BY <1>4 DEF Stop, NothingLoaded, NoLookup
<1>5. CASE Stat
  BY <1>5 DEF Stat, NoLookup
<1>6. CASE Read
  <2>1. CASE file.content \in Loadable
    <3>1. [content |-> file.content, mtime |-> lookup.mtime] \in Files
      BY <2>1
    <3>2. /\ loaded' \in Files /\ loaded'.content \in Loadable \cup {None}
          /\ UNCHANGED <<settings, up, schema, clock, file, past, process, probe>>
      BY <1>6, <2>1, <3>1 DEF Read
    <3>3. lookup' = [lookup EXCEPT !.at = "answered", !.answer = file.content]
      BY <1>6, <2>1 DEF Read, Answers
    <3>4. QED
      BY <2>1, <3>2, <3>3
  <2>2. CASE file.content \notin Loadable
    BY <1>6, <2>2 DEF Read, Raises
  <2>3. QED
    BY <2>1, <2>2
<1>7. ASSUME NEW d \in Dependencies, GoesDown(d) \/ ComesUp(d) PROVE TypeOK'
  <2>1. up' \subseteq Dependencies
    BY <1>7 DEF GoesDown, ComesUp
  <2>2. QED
    BY <1>0, <1>7, <2>1 DEF GoesDown, ComesUp, Disturb
<1>8. CASE Migrate
  BY <1>0, <1>8 DEF Migrate, Disturb
<1>9. CASE ChangeFile
  <2>1. PICK content \in Contents \cup {None}, mtime \in 0 .. clock :
          file' = [content |-> content, mtime |-> mtime]
    BY <1>9 DEF ChangeFile
  <2>2. file' \in Files /\ file'.mtime \in 0 .. MaxTime
    BY <2>1
  <2>3. past' \in [changes: 0 .. MaxWrites, mtimes: SUBSET (0 .. MaxTime),
                   reused: SUBSET (0 .. MaxTime)]
    BY <1>9, <2>2 DEF ChangeFile
  <2>4. lookup' \in [at: {"idle", "reading", "answered", "raised"}, mtime: 0 .. MaxTime,
                     answer: Loadable \cup {None}, held: SUBSET (Contents \cup {None})]
    BY <1>9, <2>2 DEF ChangeFile
  <2>5. QED
    BY <1>0, <1>9, <2>2, <2>3, <2>4 DEF ChangeFile, Disturb
<1>10. CASE Tick
  BY <1>10 DEF Tick
<1>11. CASE UNCHANGED vars
  BY <1>11 DEF vars
<1>12. QED
  BY <1>1, <1>2, <1>3, <1>4, <1>5, <1>6, <1>7, <1>8, <1>9, <1>10, <1>11 DEF Next

\* What the checks say depends on nothing but what they look at.
LEMMA ChecksKept ==
  ASSUME UNCHANGED <<settings, up, schema, file>>
  PROVE  /\ \A i \in DOMAIN Checks : Passes(Checks[i])' <=> Passes(Checks[i])
         /\ Healthy' <=> Healthy
<1>1. ASSUME NEW i \in DOMAIN Checks PROVE Passes(Checks[i])' <=> Passes(Checks[i])
  BY DEF Passes, AgentIdp
<1>2. QED
  BY <1>1 DEF Healthy, Checks

\* A probe that stays undisturbed knows what the checks it has run say now.
LEMMA ProbeStep ==
  ASSUME TypeOK, PassedSoFar, ReadyIsHealthy, [Next]_vars
  PROVE  PassedSoFar' /\ ReadyIsHealthy'
<1>0. probe \in Probes
  BY DEF TypeOK
<1>1. CASE StartProbe
  <2>1. probe'.next = 1 /\ probe'.report = "none"
    BY <1>1 DEF StartProbe
  <2>2. \A i \in DOMAIN Checks : ~(i < probe'.next)
    BY <2>1 DEF Checks
  <2>3. QED
    BY <2>1, <2>2 DEF PassedSoFar, ReadyIsHealthy
<1>2. CASE RunCheck
  <2>1. UNCHANGED <<settings, up, schema, file>>
    BY <1>2 DEF RunCheck
  <2>2. PICK ok \in BOOLEAN : /\ ok <=> probe.ok /\ Passes(Checks[probe.next])
                              /\ probe' = AfterCheck(ok)
    BY <1>0, <1>2, CheckOutcome
  <2>3. probe.next \in 1 .. 6 /\ Len(Checks) = 6 /\ DOMAIN Checks = 1 .. 6
    BY <1>0, <1>2, CheckOutcome
  <2>4. ok /\ probe.undisturbed =>
          \A i \in DOMAIN Checks : i < probe.next + 1 => Passes(Checks[i])
    <3>1. \A i \in DOMAIN Checks : i < probe.next + 1 => i < probe.next \/ i = probe.next
      BY <2>3
    <3>2. QED
      BY <2>2, <3>1, Zenon DEF PassedSoFar
  <2>5. CASE probe.next = 6
    <3>1. /\ probe'.next = 0 /\ probe'.undisturbed = probe.undisturbed
          /\ probe'.report = "ready" => ok
      BY <1>0, <2>2, <2>3, <2>5 DEF AfterCheck, Probes
    <3>2. \A i \in DOMAIN Checks : ~(i < probe'.next) /\ i < probe.next + 1
      BY <2>3, <2>5, <3>1
    <3>3. PassedSoFar'
      BY <3>2 DEF PassedSoFar, Checks
    <3>4. ok /\ probe.undisturbed => Healthy
      BY <2>4, <3>2 DEF Healthy
    <3>5. ReadyIsHealthy'
      BY <2>1, <3>1, <3>4, ChecksKept DEF ReadyIsHealthy
    <3>6. QED
      BY <3>3, <3>5
  <2>6. CASE probe.next # 6
    <3>1. probe' = [probe EXCEPT !.next = probe.next + 1, !.ok = ok]
      BY <2>2, <2>3, <2>6 DEF AfterCheck
    <3>2. /\ probe'.next = probe.next + 1 /\ probe'.ok = ok
          /\ probe'.undisturbed = probe.undisturbed /\ probe'.report = probe.report
      BY <1>0, <3>1 DEF Probes
    <3>3. ReadyIsHealthy'
      BY <2>1, <3>2, ChecksKept DEF ReadyIsHealthy
    <3>4. ok /\ probe.undisturbed =>
            \A i \in DOMAIN Checks : i < probe'.next => Passes(Checks[i])'
      BY <2>1, <2>4, <3>2, ChecksKept
    <3>5. PassedSoFar'
      BY <3>2, <3>4 DEF PassedSoFar, Checks
    <3>6. QED
      BY <3>3, <3>5
  <2>7. QED
    BY <2>5, <2>6
<1>3. CASE Disturb
  <2>1. ~probe'.undisturbed
    BY <1>0, <1>3 DEF Disturb, Probes
  <2>2. QED
    BY <2>1 DEF PassedSoFar, ReadyIsHealthy
<1>4. CASE UNCHANGED <<settings, up, schema, file, probe>>
  <2>1. PassedSoFar'
    <3>1. \A i \in DOMAIN Checks : Passes(Checks[i])' <=> Passes(Checks[i])
      BY <1>4, ChecksKept
    <3>2. QED
      BY <1>4, <3>1 DEF PassedSoFar, Checks
  <2>2. ReadyIsHealthy'
    BY <1>4, ChecksKept DEF ReadyIsHealthy
  <2>3. QED
    BY <2>1, <2>2
<1>5. QED
  BY <1>1, <1>2, <1>3, <1>4
  DEF Next, Start, Stop, Stat, Read, GoesDown, ComesUp, Migrate, ChangeFile, Tick, vars

\* Only an edit that reuses an mtime can part what is loaded from the file.
LEMMA FileStep ==
  ASSUME TypeOK, Stamped, ReadUnderWay, LoadedIsFile, LookupFollowsFile, [Next]_vars
  PROVE  Stamped' /\ ReadUnderWay' /\ LoadedIsFile' /\ LookupFollowsFile'
<1> USE ContentsAssumption DEF TypeOK, Files, Stamped, ReadUnderWay, LoadedIsFile,
        LookupFollowsFile
<1>1. CASE Stat
  BY <1>1 DEF Stat, NoLookup, Reloads
<1>2. CASE Read
  <2>1. lookup.at = "reading" /\ UNCHANGED <<file, past>>
    BY <1>2 DEF Read
  <2>2. CASE file.content \in Loadable
    <3>1. /\ loaded'.content = file.content /\ loaded'.mtime = lookup.mtime
          /\ lookup' = [lookup EXCEPT !.at = "answered", !.answer = file.content]
      BY <1>2, <2>2 DEF Read, Answers
    <3>2. /\ lookup'.at = "answered" /\ lookup'.answer = file.content
          /\ lookup'.held = lookup.held
      BY <3>1
    <3>3. QED
      BY <2>1, <3>1, <3>2
  <2>3. CASE file.content \notin Loadable
    <3>1. lookup'.at = "raised" /\ loaded' = loaded
      BY <1>2, <2>3 DEF Read, Raises
    <3>2. QED
      BY <2>1, <3>1
  <2>4. QED
    BY <2>2, <2>3
<1>3. CASE Stop
  <2>1. loaded'.content = None /\ lookup'.at = "idle" /\ UNCHANGED <<file, past>>
    BY <1>3 DEF Stop, NothingLoaded, NoLookup
  <2>2. QED
    BY <2>1
<1>4. CASE ChangeFile
  <2>1. /\ past'.mtimes = past.mtimes \cup {file'.mtime}
        /\ past.reused \subseteq past'.reused
        /\ file'.content # None /\ file'.mtime \in past.mtimes =>
             file'.mtime \in past'.reused
    BY <1>4 DEF ChangeFile
  <2>2. /\ loaded' = loaded
        /\ lookup'.at = lookup.at /\ lookup'.mtime = lookup.mtime
        /\ lookup'.answer = lookup.answer
        /\ lookup'.held = lookup.held \cup {file'.content}
    BY <1>4 DEF ChangeFile
  <2>3. Stamped' /\ ReadUnderWay'
    BY <2>1, <2>2
  <2>4. LoadedIsFile' /\ LookupFollowsFile'
    BY <2>1, <2>2
  <2>5. QED
    BY <2>3, <2>4
<1>5. CASE UNCHANGED <<file, past, loaded, lookup>>
  BY <1>5
<1>6. QED
  BY <1>1, <1>2, <1>3, <1>4, <1>5
  DEF Next, StartProbe, RunCheck, Start, GoesDown, ComesUp, Migrate, Tick, vars

\* Nothing is loaded, looked up or probed at the start.
LEMMA IInvInit == Init => IInv
<1> SUFFICES ASSUME Init PROVE IInv
  OBVIOUS
<1>1. TypeOK
  <2>1. 0 \in 0 .. MaxTime /\ 0 \in 0 .. MaxWrites /\ 0 \in 0 .. 6
    BY BoundAssumption
  <2>2. probe \in Probes
    BY <2>1 DEF Init, Probes, Reports
  <2>3. up \subseteq Dependencies
    <3>1. settings.subjects \in {"off", "shared", "own"}
      BY SettingsAssumption DEF Init, Setting
    <3>2. AgentIdp \cup UserIdp \cup SvidKey \subseteq Dependencies
      BY <3>1 DEF AgentIdp, UserIdp, SvidKey, Dependencies
    <3>3. Used \subseteq Dependencies
      BY <3>2 DEF Used, Dependencies
    <3>4. QED
      BY <3>3 DEF Init
  <2>4. file \in Files /\ loaded \in Files
    BY <2>1 DEF Init, Files, NothingLoaded
  <2>5. QED
    BY <2>1, <2>2, <2>3, <2>4 DEF Init, TypeOK, Revisions, NothingLoaded, NoLookup
<1>2. Stamped /\ ReadUnderWay /\ LoadedIsFile /\ LookupFollowsFile
  BY DEF Init, Stamped, ReadUnderWay, LoadedIsFile, LookupFollowsFile, NothingLoaded,
         NoLookup
<1>3. PassedSoFar /\ ReadyIsHealthy
  BY DEF Init, PassedSoFar, ReadyIsHealthy
<1>4. QED
  BY <1>1, <1>2, <1>3 DEF IInv

LEMMA IInvStep == IInv /\ [Next]_vars => IInv'
  BY TypeStep, FileStep, ProbeStep DEF IInv

\* The inductive invariant of a deployment holds of every behaviour.
THEOREM InductiveInvariant == Spec => []IInv
  BY IInvInit, IInvStep, PTL DEF Spec

\* Every variable of a deployment keeps its type.
THEOREM TypeCorrect == Spec => []TypeOK
<1>1. IInv => TypeOK
  BY DEF IInv
<1>2. QED
  BY InductiveInvariant, <1>1, PTL

\* However often the registry file is edited, replaced, broken, removed and put
\* back, before, during and after a lookup, what the lookup answers is what the
\* file held at some moment of it, unless an mtime was used twice.
THEOREM LookupsFollowFile == Spec => []LookupFollowsFile
<1>1. IInv => LookupFollowsFile
  BY DEF IInv
<1>2. QED
  BY InductiveInvariant, <1>1, PTL

\* What doctor and /readyz report as ready, if nothing changed since the probe
\* began and what no check looks at is well, is a gateway that starts and serves
\* calls without a 500, for every deployment.
THEOREM ReadyServes == Spec => []ReadyIsServing
<1>1. IInv => ReadyIsServing
  <2> SUFFICES ASSUME IInv, probe.report = "ready", probe.undisturbed, Unchecked
               PROVE  Startable /\ ~CallMayFail
    BY DEF ReadyIsServing
  <2>1. \A i \in 1 .. 6 : Passes(Checks[i])
    BY DEF IInv, ReadyIsHealthy, Healthy, Checks
  <2>2. /\ Passes("registry") /\ Passes("opa") /\ Passes("identity")
        /\ Passes("database") /\ Passes("redis") /\ Passes("signing_key")
    <3>1. /\ Checks[1] = "registry" /\ Checks[2] = "opa" /\ Checks[3] = "identity"
          /\ Checks[4] = "database" /\ Checks[5] = "redis" /\ Checks[6] = "signing_key"
      BY DEF Checks
    <3>2. QED
      BY <2>1, <3>1
  <2>3. /\ settings.database \/ file.content \notin Unparsable \cup {None}
        /\ AgentIdp \subseteq up
        /\ settings.database => "postgres" \in up /\ schema = 3
        /\ settings.redis => "redis" \in up
        /\ settings.vault => "vault" \in up
    BY <2>2 DEF Passes, HeadRevision
  <2>4. /\ AgentIdp \cup UserIdp \cup SvidKey \subseteq up /\ "bodies" \in up
        /\ settings.database \/ file.content \in Loadable
    BY <2>3 DEF Unchecked
  <2>5. Startable
    BY <2>3, <2>4 DEF Startable
  <2>6. ~CallMayFail
    BY <2>3, <2>4, ContentsAssumption DEF CallMayFail
  <2>7. QED
    BY <2>5, <2>6
<1>2. QED
  BY InductiveInvariant, <1>1, PTL

-----------------------------------------------------------------------------
(* Reports follow the checks.                                              *)

\* What a step does to the next check, the outcome so far and the report.
LEMMA ProbeMoves ==
  ASSUME TypeOK, [Next]_vars
  PROVE  \/ StartProbe /\ probe'.next = 1 /\ probe'.ok /\ probe'.report = "none"
         \/ /\ RunCheck /\ probe.next \in 1 .. 5 /\ probe'.next = probe.next + 1
            /\ probe'.ok <=> probe.ok /\ Passes(Checks[probe.next])
            /\ probe'.report = probe.report
         \/ /\ RunCheck /\ probe.next = 6 /\ probe'.next = 0
            /\ probe'.report =
                 IF probe.ok /\ Passes(Checks[6]) THEN "ready" ELSE "not ready"
         \/ /\ probe'.next = probe.next /\ (probe'.ok <=> probe.ok)
            /\ probe'.report = probe.report
<1>0. probe \in Probes
  BY DEF TypeOK
<1>1. CASE StartProbe
  BY <1>1 DEF StartProbe
<1>2. CASE RunCheck
  <2>1. PICK ok \in BOOLEAN : /\ ok <=> probe.ok /\ Passes(Checks[probe.next])
                              /\ probe' = AfterCheck(ok)
    BY <1>0, <1>2, CheckOutcome
  <2>2. probe.next \in 1 .. 6 /\ Len(Checks) = 6
    BY <1>0, <1>2, CheckOutcome
  <2>3. CASE probe.next = 6
    <3>1. probe' = [probe EXCEPT !.next = 0, !.ok = ok,
                                 !.report = IF ok THEN "ready" ELSE "not ready"]
      BY <2>1, <2>2, <2>3 DEF AfterCheck
    <3>2. /\ probe'.next = 0
          /\ probe'.report = IF ok THEN "ready" ELSE "not ready"
      BY <1>0, <3>1 DEF Probes
    <3>3. QED
      BY <1>2, <2>1, <2>3, <3>2
  <2>4. CASE probe.next # 6
    <3>1. probe' = [probe EXCEPT !.next = probe.next + 1, !.ok = ok]
      BY <2>1, <2>2, <2>4 DEF AfterCheck
    <3>2. /\ probe'.next = probe.next + 1 /\ probe'.ok = ok
          /\ probe'.report = probe.report
      BY <1>0, <3>1 DEF Probes
    <3>3. probe.next \in 1 .. 5
      BY <2>2, <2>4
    <3>4. QED
      BY <1>2, <2>1, <3>2, <3>3
  <2>5. QED
    BY <2>3, <2>4
<1>3. CASE Disturb
  BY <1>0, <1>3 DEF Disturb, Probes
<1>4. CASE UNCHANGED probe
  BY <1>4
<1>5. QED
  BY <1>1, <1>2, <1>3, <1>4
  DEF Next, Start, Stop, Stat, Read, GoesDown, ComesUp, Migrate, ChangeFile, Tick, vars

\* What the two lemmas below need to know of the numbers of the checks.
LEMMA CheckNumbers ==
  /\ 6 \in 1 .. 6 /\ 6 # 0
  /\ \A n \in 1 .. 5 : n \in 1 .. 6 /\ n # 0
  /\ \A n \in 1 .. 6 : 0 <= n /\ (6 <= n => n = 6)
  /\ "ready" # "not ready"
  /\ DOMAIN Checks = 1 .. 6
BY DEF Checks

\* As long as every check passes, a probe that has found nothing wrong does not
\* come to report that something is.
LEMMA WellStaysWell ==
  TypeOK /\ Healthy /\ [Next]_vars
    /\ (probe.next # 0 => probe.ok) /\ probe.report # "not ready"
  => (probe'.next # 0 => probe'.ok) /\ probe'.report # "not ready"
<1> SUFFICES ASSUME TypeOK, Healthy, [Next]_vars,
                    probe.next # 0 => probe.ok, probe.report # "not ready"
             PROVE  (probe'.next # 0 => probe'.ok) /\ probe'.report # "not ready"
  OBVIOUS
<1>1. ASSUME NEW n \in 1 .. 6 PROVE Passes(Checks[n])
  BY CheckNumbers, Zenon DEF Healthy
<1>2. CASE StartProbe /\ probe'.next = 1 /\ probe'.ok /\ probe'.report = "none"
  BY <1>2
<1>3. CASE /\ RunCheck /\ probe.next \in 1 .. 5 /\ probe'.next = probe.next + 1
           /\ probe'.ok <=> probe.ok /\ Passes(Checks[probe.next])
           /\ probe'.report = probe.report
  <2>1. Passes(Checks[probe.next]) /\ probe.ok
    BY <1>1, <1>3, CheckNumbers, Zenon
  <2>2. QED
    BY <1>3, <2>1, Zenon
<1>4. CASE /\ RunCheck /\ probe.next = 6 /\ probe'.next = 0
           /\ probe'.report =
                IF probe.ok /\ Passes(Checks[6]) THEN "ready" ELSE "not ready"
  <2>1. Passes(Checks[6]) /\ probe.ok
    BY <1>1, <1>4, CheckNumbers, Zenon
  <2>2. QED
    BY <1>4, <2>1, CheckNumbers, Zenon
<1>5. CASE /\ probe'.next = probe.next /\ (probe'.ok <=> probe.ok)
           /\ probe'.report = probe.report
  BY <1>5, Zenon
<1>6. QED
  BY <1>2, <1>3, <1>4, <1>5, ProbeMoves, Zenon

\* As long as one check fails, a probe either has it still before it or has
\* found something wrong, and does not come to report that all is well.
LEMMA BrokenStaysBroken ==
  ASSUME NEW i \in DOMAIN Checks
  PROVE  TypeOK /\ ~Passes(Checks[i]) /\ [Next]_vars
           /\ (probe.next <= i \/ ~probe.ok) /\ probe.report # "ready"
         => (probe'.next <= i \/ ~probe'.ok) /\ probe'.report # "ready"
<1> SUFFICES ASSUME TypeOK, ~Passes(Checks[i]), [Next]_vars,
                    probe.next <= i \/ ~probe.ok, probe.report # "ready"
             PROVE  (probe'.next <= i \/ ~probe'.ok) /\ probe'.report # "ready"
  OBVIOUS
<1>1. i \in 1 .. 6 /\ probe.next \in 0 .. 6
  BY DEF Checks, TypeOK, Probes
<1>2. CASE StartProbe /\ probe'.next = 1 /\ probe'.ok /\ probe'.report = "none"
  BY <1>1, <1>2
<1>3. CASE /\ RunCheck /\ probe.next \in 1 .. 5 /\ probe'.next = probe.next + 1
           /\ probe'.ok <=> probe.ok /\ Passes(Checks[probe.next])
           /\ probe'.report = probe.report
  <2>1. CASE probe.next < i
    BY <1>1, <1>3, <2>1
  <2>2. CASE probe.next >= i
    <3>1. probe.next = i \/ ~probe.ok
      BY <1>1, <2>2
    <3>2. ~(probe.ok /\ Passes(Checks[probe.next]))
      BY <3>1, Zenon
    <3>3. QED
      BY <1>3, <3>2, Zenon
  <2>3. QED
    BY <1>1, <2>1, <2>2
<1>4. CASE /\ RunCheck /\ probe.next = 6 /\ probe'.next = 0
           /\ probe'.report =
                IF probe.ok /\ Passes(Checks[6]) THEN "ready" ELSE "not ready"
  <2>1. i = 6 \/ ~probe.ok
    BY <1>1, <1>4, CheckNumbers, Zenon
  <2>2. ~(probe.ok /\ Passes(Checks[6]))
    BY <2>1, Zenon
  <2>3. QED
    BY <1>1, <1>4, <2>2, CheckNumbers, Zenon
<1>5. CASE /\ probe'.next = probe.next /\ (probe'.ok <=> probe.ok)
           /\ probe'.report = probe.report
  BY <1>5, Zenon
<1>6. QED
  BY <1>2, <1>3, <1>4, <1>5, ProbeMoves, Zenon

\* The safety half of ReportsConverge, whatever else happens to the deployment:
\* from the start of a probe on, no report contradicts what stays true.
THEOREM ReportsHonest == Spec => ReportsFollowChecks
<1>1. Init => ProbeBegun
  BY DEF Init, ProbeBegun
<1>2. IInv /\ ProbeBegun /\ [Next]_vars => ProbeBegun'
  <2> SUFFICES ASSUME IInv, ProbeBegun, [Next]_vars, probe'.next = 1
               PROVE  probe'.ok /\ probe'.report = "none"
    BY DEF ProbeBegun
  <2>1. QED
    BY ProbeMoves DEF IInv, ProbeBegun
<1>3. Spec => [](IInv /\ ProbeBegun)
  BY InductiveInvariant, <1>1, <1>2, PTL DEF Spec
<1>4. Spec => [](probe.next = 1 /\ []Healthy => [](probe.report # "not ready"))
  <2> DEFINE K == (probe.next # 0 => probe.ok) /\ probe.report # "not ready"
  <2>1. IInv /\ Healthy /\ K /\ [Next]_vars => K'
    BY WellStaysWell DEF IInv
  <2>2. ProbeBegun /\ probe.next = 1 => K
    BY DEF ProbeBegun
  <2>3. K => probe.report # "not ready"
    OBVIOUS
  <2> HIDE DEF K
  <2>4. QED
    BY <1>3, <2>1, <2>2, <2>3, PTL DEF Spec
<1>5. ASSUME NEW i \in DOMAIN Checks
      PROVE  Spec => [](probe.next = 1 /\ [](~Passes(Checks[i])) =>
                          [](probe.report # "ready"))
  <2> DEFINE K == (probe.next <= i \/ ~probe.ok) /\ probe.report # "ready"
  <2>1. IInv /\ ~Passes(Checks[i]) /\ K /\ [Next]_vars => K'
    BY BrokenStaysBroken DEF IInv
  <2>2. ProbeBegun /\ probe.next = 1 => K
    BY DEF ProbeBegun, Checks
  <2>3. K => probe.report # "ready"
    OBVIOUS
  <2> HIDE DEF K
  <2>4. QED
    BY <1>3, <2>1, <2>2, <2>3, PTL DEF Spec
<1>6. QED
  BY <1>4, <1>5 DEF ReportsFollowChecks
=============================================================================

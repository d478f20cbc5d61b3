----------------------------- MODULE Deployment -----------------------------
(***************************************************************************)
(* A gateway process among its dependencies: what it needs to start        *)
(* (gateway/dependencies.py), what a call needs to be served, what         *)
(* `doctor` and /readyz look at (diagnostics.py), and the registry file it *)
(* follows by mtime (adapters/registry/file.py). Everything around the     *)
(* process changes while checks and lookups are under way.                 *)
(***************************************************************************)
EXTENDS Naturals, Sequences, FiniteSets

CONSTANTS
  Settings,     \* the settings a gateway may be deployed with
  Contents,     \* what the registry file may hold
  Loadable,     \* ... of which the gateway can make registry records
  Unparsable,   \* ... and which are no YAML mapping; the rest hold bad entries
  None,         \* no file; nothing loaded; no answer
  MaxTime,      \* bound on the clock of the file system
  MaxWrites     \* bound on the changes of the file

\* database, redis: whether a URL is set; vault: signing_key_mode is
\* "vault-transit"; subjects: subject_verification_mode, which takes the agents'
\* oidc_discovery_url ("shared") unless it has a URL of its own.
Setting ==
  [identity_mode: {"header", "jwt-svid", "oidc-jwks"},
   subjects: {"off", "shared", "own"},
   database: BOOLEAN, redis: BOOLEAN, vault: BOOLEAN]

ASSUME SettingsAssumption == Settings \subseteq Setting
ASSUME ContentsAssumption ==
  /\ Loadable \subseteq Contents /\ Unparsable \subseteq Contents
  /\ Loadable \cap Unparsable = {}
  /\ None \notin Contents
ASSUME BoundAssumption == MaxTime \in Nat /\ MaxWrites \in Nat

\* What build_container hands the adapters. "bodies": what OPA, the upstreams
\* and the token endpoint answer is the JSON their adapters expect; an identity
\* provider is its discovery document with the keys it names.
Dependencies ==
  {"opa", "bodies", "idp", "subject_idp", "svid_key", "postgres", "redis", "vault"}

Revisions == 0 .. 3    \* of the schema; 0: not migrated
HeadRevision == 3

VARIABLES
  settings,   \* of the deployment
  up,         \* the dependencies that answer as they should
  schema,     \* the revision of the database
  clock,      \* of the file system, at the granularity of an mtime
  file,       \* the registry file and its mtime
  past,       \* of the file: its changes, the mtimes it had, those it had twice
  process,    \* whether the gateway runs
  loaded,     \* FileAgentRegistry._agents and _loaded_mtime
  lookup,     \* the _load() under way: where, the mtime it saw, its answer,
              \* and what the file held meanwhile
  probe       \* run_all: the next check, whether all were ok so far, the
              \* report, and whether nothing has changed since it began

\* The identity providers of the agents and of the users behind them.
AgentIdp == IF settings.identity_mode = "oidc-jwks" THEN {"idp"} ELSE {}
UserIdp ==
  CASE settings.subjects = "off" -> {}
    [] settings.subjects = "shared" -> {"idp"}
    [] settings.subjects = "own" -> {"subject_idp"}
SvidKey == IF settings.identity_mode = "jwt-svid" THEN {"svid_key"} ELSE {}

\* The dependencies of this deployment.
Used ==
  {"opa", "bodies"} \cup AgentIdp \cup UserIdp \cup SvidKey
          \cup (IF settings.database THEN {"postgres"} ELSE {})
          \cup (IF settings.redis THEN {"redis"} ELSE {})
          \cup (IF settings.vault THEN {"vault"} ELSE {})

vars == <<settings, up, schema, clock, file, past, process, loaded, lookup, probe>>

Files == [content: Contents \cup {None}, mtime: 0 .. MaxTime]
Reports == {"none", "ready", "not ready"}
Probes == [next: 0 .. 6, ok: BOOLEAN, report: Reports, undisturbed: BOOLEAN]

TypeOK ==
  /\ settings \in Settings
  /\ up \subseteq Dependencies
  /\ schema \in Revisions
  /\ clock \in 0 .. MaxTime
  /\ file \in Files
  /\ past \in [changes: 0 .. MaxWrites, mtimes: SUBSET (0 .. MaxTime),
               reused: SUBSET (0 .. MaxTime)]
  /\ process \in {"down", "up"}
  /\ loaded \in Files
  /\ loaded.content \in Loadable \cup {None}
  /\ lookup \in [at: {"idle", "reading", "answered", "raised"}, mtime: 0 .. MaxTime,
                 answer: Loadable \cup {None}, held: SUBSET (Contents \cup {None})]
  /\ probe \in Probes

NothingLoaded == [content |-> None, mtime |-> 0]
NoLookup == [at |-> "idle", mtime |-> 0, answer |-> None, held |-> {}]

Init ==
  /\ settings \in Settings
  /\ up \in {{}, Used}
  /\ schema = 0
  /\ clock = 0
  /\ file \in [content: IF settings.database THEN {None} ELSE Contents \cup {None},
              mtime: {0}]
  /\ past = [changes |-> 0, mtimes |-> {0}, reused |-> {}]
  /\ process = "down"
  /\ loaded = NothingLoaded
  /\ lookup = NoLookup
  /\ probe = [next |-> 0, ok |-> TRUE, report |-> "none", undisturbed |-> FALSE]

-----------------------------------------------------------------------------
(* What starting, and what a call, depend on.                              *)

\* build_container: the signer fetches its public key, the identity provider
\* and the subject verifier their discovery documents, the key of jwt-svid is
\* read, and the registry file must be there. Postgres, Redis, OPA and the
\* upstreams are not contacted.
Startable ==
  /\ settings.vault => "vault" \in up
  /\ AgentIdp \cup UserIdp \cup SvidKey \subseteq up
  /\ ~settings.database => file.content # None

\* Mutant of Reloads: only a later mtime is a change.
ReloadsIfNewer == loaded.content = None \/ file.mtime > loaded.mtime

\* The condition under which FileAgentRegistry._load reads the file again.
Reloads == loaded.content = None \/ file.mtime # loaded.mtime

\* The adapters whose failure GovernedExecutionService does not catch: the
\* call ends in a 500. (Revision 2 has every column the gateway writes; an OPA
\* that is down is a receipted denial, and an upstream or a token endpoint that
\* is down a mapped error, but a body that is no JSON object is neither; the
\* keys of an identity provider may have to be fetched again.)
CallMayFail ==
  \/ "bodies" \notin up
  \/ ~(AgentIdp \cup UserIdp \subseteq up)
  \/ settings.redis /\ "redis" \notin up
  \/ settings.database /\ ("postgres" \notin up \/ schema < 2)
  \/ ~settings.database /\ file.content = None
  \/ ~settings.database /\ Reloads /\ file.content \notin Loadable
  \/ settings.vault /\ "vault" \notin up

-----------------------------------------------------------------------------
(* Diagnostics.                                                            *)

Checks == <<"registry", "opa", "identity", "database", "redis", "signing_key">>

\* Mutant of Passes: the database check connects and looks no further.
PassesIfReachable(check) ==
  CASE check = "registry" -> settings.database \/ file.content \notin Unparsable \cup {None}
    [] check = "opa" -> "opa" \in up
    [] check = "identity" -> AgentIdp \subseteq up
    [] check = "database" -> settings.database => "postgres" \in up
    [] check = "redis" -> settings.redis => "redis" \in up
    [] check = "signing_key" -> settings.vault => "vault" \in up

\* check_registry and its siblings; one that raises has failed. The registry
\* check parses the file and counts its entries without looking at them.
Passes(check) ==
  CASE check = "registry" -> settings.database \/ file.content \notin Unparsable \cup {None}
    [] check = "opa" -> "opa" \in up
    [] check = "identity" -> AgentIdp \subseteq up
    [] check = "database" -> settings.database => "postgres" \in up /\ schema = HeadRevision
    [] check = "redis" -> settings.redis => "redis" \in up
    [] check = "signing_key" -> settings.vault => "vault" \in up

\* `doctor` before a deployment, or a load balancer's poll of /readyz.
StartProbe ==
  /\ probe.next = 0
  /\ probe' = [next |-> 1, ok |-> TRUE, report |-> "none", undisturbed |-> TRUE]
  /\ UNCHANGED <<settings, up, schema, clock, file, past, process, loaded, lookup>>

\* Mutant of AfterCheck: an exception of a check ends the probe unreported.
AfterCheckUncaught(ok) ==
  CASE ~ok -> [probe EXCEPT !.next = 0]
    [] ok /\ probe.next = Len(Checks) -> [probe EXCEPT !.next = 0, !.report = "ready"]
    [] OTHER -> [probe EXCEPT !.next = @ + 1]

\* run_all goes on after a failed check, and reports after the last.
AfterCheck(ok) ==
  IF probe.next = Len(Checks)
    THEN [probe EXCEPT !.next = 0, !.ok = ok,
                       !.report = IF ok THEN "ready" ELSE "not ready"]
    ELSE [probe EXCEPT !.next = @ + 1, !.ok = ok]

RunCheck ==
  /\ probe.next # 0
  /\ probe' = AfterCheck(probe.ok /\ Passes(Checks[probe.next]))
  /\ UNCHANGED <<settings, up, schema, clock, file, past, process, loaded, lookup>>

-----------------------------------------------------------------------------
(* The gateway process.                                                    *)

\* create_app, at import. A start that raises leaves no process.
Start ==
  /\ process = "down" /\ Startable
  /\ process' = "up"
  /\ UNCHANGED <<settings, up, schema, clock, file, past, loaded, lookup, probe>>

\* A crash, a rollout, or a shutdown: what was loaded is gone.
Stop ==
  /\ process = "up"
  /\ process' = "down"
  /\ loaded' = NothingLoaded /\ lookup' = NoLookup
  /\ UNCHANGED <<settings, up, schema, clock, file, past, probe>>

Raises == lookup' = [lookup EXCEPT !.at = "raised", !.answer = None]
Answers(content) == lookup' = [lookup EXCEPT !.at = "answered", !.answer = content]

\* FileAgentRegistry._load up to the read: the mtime is taken first.
Stat ==
  /\ process = "up" /\ ~settings.database /\ lookup.at # "reading"
  /\ LET begun == [NoLookup EXCEPT !.mtime = file.mtime, !.held = {file.content}]
     IN lookup' =
          IF file.content = None THEN [begun EXCEPT !.at = "raised"]
          ELSE IF Reloads THEN [begun EXCEPT !.at = "reading"]
          ELSE [begun EXCEPT !.at = "answered", !.answer = loaded.content]
  /\ UNCHANGED <<settings, up, schema, clock, file, past, process, loaded, probe>>

\* Writers are other processes: the file may have changed since its stat. A
\* file that does not load leaves the records of the one before in place.
Read ==
  /\ lookup.at = "reading"
  /\ IF file.content \in Loadable
       THEN Answers(file.content)
              /\ loaded' = [content |-> file.content, mtime |-> lookup.mtime]
       ELSE Raises /\ UNCHANGED loaded
  /\ UNCHANGED <<settings, up, schema, clock, file, past, process, probe>>

-----------------------------------------------------------------------------
(* The environment.                                                        *)

Disturb == probe' = [probe EXCEPT !.undisturbed = FALSE]

GoesDown(d) ==
  /\ d \in up
  /\ up' = up \ {d}
  /\ Disturb
  /\ UNCHANGED <<settings, schema, clock, file, past, process, loaded, lookup>>

ComesUp(d) ==
  /\ d \in Used \ up
  /\ up' = up \cup {d}
  /\ Disturb
  /\ UNCHANGED <<settings, schema, clock, file, past, process, loaded, lookup>>

\* `migrate`, to the head or to an earlier revision above the current one.
Migrate ==
  /\ settings.database /\ "postgres" \in up
  /\ \E r \in Revisions : r > schema /\ schema' = r
  /\ Disturb
  /\ UNCHANGED <<settings, up, clock, file, past, process, loaded, lookup>>

\* The file is written in place, which stamps it with the time, or replaced by
\* one with an mtime of its own (a backup, a checkout), or removed.
ChangeFile ==
  /\ ~settings.database
  /\ past.changes < MaxWrites
  /\ \E content \in Contents \cup {None}, mtime \in 0 .. clock :
       /\ content # file.content
       /\ content = None => mtime = file.mtime
       /\ file' = [content |-> content, mtime |-> mtime]
  /\ past' = [changes |-> past.changes + 1, mtimes |-> past.mtimes \cup {file'.mtime},
              reused |-> IF file'.content # None /\ file'.mtime \in past.mtimes
                           THEN past.reused \cup {file'.mtime} ELSE past.reused]
  /\ lookup' = [lookup EXCEPT !.held = @ \cup {file'.content}]
  /\ Disturb
  /\ UNCHANGED <<settings, up, schema, clock, process, loaded>>

Tick ==
  /\ clock < MaxTime
  /\ clock' = clock + 1
  /\ UNCHANGED <<settings, up, schema, file, past, process, loaded, lookup, probe>>

Next ==
  \/ StartProbe \/ RunCheck
  \/ Start \/ Stop \/ Stat \/ Read
  \/ \E d \in Dependencies : GoesDown(d) \/ ComesUp(d)
  \/ Migrate \/ ChangeFile \/ Tick

\* check_database and check_redis set no timeout: on a server that accepts the
\* connection and says nothing they wait. (A server that is back answers, if
\* not this check, then that of the next poll.)
MayHang ==
  /\ probe.next # 0
  /\ \/ /\ Checks[probe.next] = "database"
        /\ settings.database /\ "postgres" \notin up
     \/ /\ Checks[probe.next] = "redis"
        /\ settings.redis /\ "redis" \notin up

\* Somebody polls, and any other check answers or times out. Nothing obliges
\* operators to act or dependencies to come back.
Fairness == WF_vars(StartProbe) /\ WF_vars(~MayHang /\ RunCheck)

Spec == Init /\ [][Next]_vars /\ Fairness

-----------------------------------------------------------------------------
(* Properties.                                                             *)

\* What a lookup answers is what the file held at some moment of that lookup,
\* however the file is edited, rolled back or removed around and during it;
\* an edit can only hide behind an mtime that the file had before.
LookupFollowsFile ==
  lookup.at = "answered" /\ loaded.mtime \notin past.reused =>
    lookup.answer \in lookup.held

\* What a deployment needs and no check looks at: the entries of its registry
\* file, the bodies of answers, the key of jwt-svid, and the users' identity
\* provider unless it is the one its agents come from.
Unchecked ==
  /\ settings.database \/ file.content \in Loadable
  /\ {"bodies"} \cup SvidKey \cup (UserIdp \ AgentIdp) \subseteq up

\* gateway/app.py, readyz: every dependency the gateway needs to serve a real
\* call. What `doctor` passed, if nothing changed since it began, is a gateway
\* that starts and serves calls without a 500, but for what is Unchecked.
ReadyIsServing ==
  probe.report = "ready" /\ probe.undisturbed /\ Unchecked
  => Startable /\ ~CallMayFail

Healthy == \A i \in DOMAIN Checks : Passes(Checks[i])

\* A poll ends in a report, whatever raises, unless its database or Redis check
\* is left without an answer; once everything stays well /readyz says so without
\* a restart; and once something stays broken it stops saying so for good.
ReportsConverge ==
  /\ probe.next = 1 ~> (probe.report # "none" \/ []<>MayHang)
  /\ <>[]Healthy => []<>(probe.report = "ready")
  /\ \A i \in DOMAIN Checks :
       <>[](~Passes(Checks[i])) => <>[](probe.report # "ready")

-----------------------------------------------------------------------------
(* The inductive invariant behind LookupFollowsFile and ReadyIsServing: what *)
(* is loaded is told from what the file holds by its mtime, and a probe      *)
(* knows of the checks it has passed as long as nothing changed.             *)

Stamped ==
  /\ file.mtime \in past.mtimes
  /\ loaded.content # None => loaded.mtime \in past.mtimes

\* The file may have changed since its stat, but not unseen by the lookup.
ReadUnderWay ==
  lookup.at = "reading" =>
    lookup.mtime \in past.mtimes /\ file.content \in lookup.held

\* An mtime the file had once tells one content.
LoadedIsFile ==
  /\ loaded.content # None /\ file.content # None
  /\ loaded.mtime = file.mtime /\ loaded.mtime \notin past.reused
  => loaded.content = file.content

PassedSoFar ==
  probe.ok /\ probe.undisturbed =>
    \A i \in DOMAIN Checks : i < probe.next => Passes(Checks[i])
ReadyIsHealthy == probe.report = "ready" /\ probe.undisturbed => Healthy

IInv ==
  /\ TypeOK
  /\ Stamped
  /\ ReadUnderWay
  /\ LoadedIsFile
  /\ LookupFollowsFile
  /\ PassedSoFar
  /\ ReadyIsHealthy

-----------------------------------------------------------------------------
(* The safety half of ReportsConverge.                                     *)

ProbeBegun == probe.next = 1 => probe.ok /\ probe.report = "none"

\* From the start of a probe on, reports say what stays true: never "not ready"
\* as long as every check passes, and never "ready" as long as one check fails.
ReportsFollowChecks ==
  /\ [](probe.next = 1 /\ []Healthy => [](probe.report # "not ready"))
  /\ \A i \in DOMAIN Checks :
       [](probe.next = 1 /\ [](~Passes(Checks[i])) => [](probe.report # "ready"))
=============================================================================

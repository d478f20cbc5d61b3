# OpenAgent Control: a verification development

TLA+ models of OpenAgent Control (a governance gateway between AI agents and
the MCP tool servers they call), TLC runs that check them on small instances,
and TLAPS proofs of the properties that matter most for all instances. Paths
below are relative to `src/openagent_control/` in the repository.

## 1. Inventory

A tool call enters through one of three transports (`gateway/routes/mcp.py`,
`gateway/mcp_server.py`, `gateway/routes/authorize.py`), runs through one use
case (`application/governed_execution.py`) and leaves through an upstream
adapter. The use case reaches everything else through ports (`domain/ports.py`).
Operators change the registry and read the ledger through a second process, the
control plane. Each gateway is one asyncio event loop: coroutines interleave at
every `await`, and several replicas share Postgres, Redis, Vault and OPA.

| Component | State it keeps | Operations | Talks to | What is hard | What makes it correct |
| --- | --- | --- | --- | --- | --- |
| Governed execution | locals of each call | authorize, execute | every port | seven awaits, each may fail and some may hang; operators act in between; registry answers from a cache; late upstreams; crashes | receipt before effect, answers agree with the ledger, hard denials stay hard, grants respected, a revocation binds the next lookup, right credential, filtered listings, a call ends wherever its awaits have timeouts |
| Default policy (`resources/policies/mcp_authz.rego`) | none | one evaluation | called by OPA adapter | conflicting rules make the evaluation an error | grants, approval and role terms, threshold |
| Receipt ledger (`adapters/ledger/postgres*.py`, `signing.py`) | `execution_receipts`, `chain_state`, an id sequence | record, verify_chain, search, get | Postgres, signer | concurrent replicas, rollbacks, lost commit acknowledgements, sequence gaps | one chain, one row per call, append-only, tampering never accepted |
| Vault signer (`adapters/ledger/vault_signer.py`) | public key fetched at start-up | sign, public_key | Vault Transit | rotation while processes run | verification blames keys only |
| Registry cache (`adapters/registry/caching.py`) | one Redis key per agent | lookup | Redis, inner registry | late SETs, eviction, failure after a read | bounded staleness, convergence |
| Agent directory (`adapters/registry/postgres.py`, `control_plane/routes/agents.py`) | `agents`, `operator_actions` | create, update, set_status | Postgres | READ COMMITTED, ORM writes changed columns only | each change audited once, row agrees with the trail |
| Routing upstream (`adapters/mcp_upstream/routing.py`) | route table with expiry, a lock | list, call | N upstreams | overlapping fan-outs, outages, lock | authoritative upstream, coalescing, convergence |
| Token cache (`adapters/token_exchange/caching.py`) | Redis keys per user and audience | exchange | Redis, identity provider | token life against key life, late SETs | own token, margin kept, bounded reuse |
| HTTP and streamable HTTP upstreams | a client, a session | forward | one MCP server | timeouts, late effects | outcome reported honestly |
| Identity providers, subject verifier (`adapters/identity/`) | a JWKS cache in a library | identify, verify | identity providers | three modes, tokens of several providers, app-only tokens with a `sub`, unmapped failures | the user behind a call is the user the token names, and none is made up |
| Token exchange (`adapters/token_exchange/`) | none | exchange | an authorization server | which token is exchanged, for which audience, by which client; expiry between two checks | the tool server serves whom the gateway judged, for no longer than the credential may live |
| Control plane reads (`routes/receipts.py`, `routes/fleet.py`, `adapters/ledger/postgres_query.py`) | none | search, counters, summary | Postgres | paging while rows are added; two queries for one answer; a scan that meets its limit; lists cut at the twenty most common | no row skipped, counters never above the truth and flagged when below, nothing cut but behind the most common |
| File registry (`adapters/registry/file.py`) | the parsed file and its mtime | lookup | file system | edits between the stat and the read, backups with old mtimes, files that do not parse | an answer is what the file held during the lookup |
| Start-up and diagnostics (`gateway/dependencies.py`, `diagnostics.py`, `cli.py`) | the process, the schema revision | start, migrate, doctor, `/readyz` | every dependency | dependencies that come and go between two checks, checks that raise or hang, dependencies no check looks at | ready means able to start and to serve; reports catch up |
| In-memory ledger | the previous hash and the key | record | nothing | nothing: no await between reading and advancing the hash, no receipt kept | the same chain, until a restart |
| SDK (`sdk/`) and its routes (`gateway/routes/authorize.py`, `mcp.py`) | none | authorize, governed wrapper, call_tool | the gateway, over HTTP | client timeout against server progress, foreign and unreadable responses, retries | nothing runs without its verdict, errors and denials mean what they say, retries are safe |
| Example scenario (`examples/enterprise_scenario/`) | keys, a token table | token endpoint, tool server, agent | the gateway | agents that call the tool server themselves | no path to the data skips the gateway |
| Logging, tracing, export, scaffolding | none that is read back | output only | all | an export that fails after the receipt | out of scope, save that failure |

The hazards these components are exposed to are listed, each with its line and
the properties that cover it, in `PROJECT.json` under "hazards".

## 2. Modules

| Module | Models | Composed with |
| --- | --- | --- |
| `McpAuthz` | the Rego policy as operators over a registry record, request and user | used by `GovernedExecution` |
| `AuditedExecution` | abstract: a verdict is appended once per call, only permitted calls take effect | refined by `GovernedExecution`; the gateway of `AgentSdk`, which refines it as well |
| `AgentSdk` | the SDK's wrapper and proxy call against that gateway | its gateway steps are those of `AuditedExecution` |
| `GovernedExecution` | the use case, concurrent calls, environment | over `RegistryPort` and `Ledger`, proved to ask no more of them than they promise |
| `Ledger` | abstract: an append-only log, one entry per call at most | refined by `ReceiptChain`, and by what `GovernedExecution` sees of its receipts |
| `RegistryPort` | abstract: a lookup answers with one of the recent records of an agent | implemented by `RegistryCache`, and all that `GovernedExecution` needs of its lookups |
| `ReceiptChain` | `PostgresLedger.record`, `verify_chain`, the Vault keys | implements `Ledger` |
| `RegistryCache` | `CachingAgentRegistry.lookup` | implements `RegistryPort` |
| `AgentDirectory` | the registry's write transactions | |
| `RoutingUpstream` | `RoutingMCPUpstream` | |
| `TokenCache` | `CachingTokenExchange.exchange` | |
| `CredentialFlow` | identity providers, subject verifier and its binding, exchange adapters, the scenario's authorization and tool servers, and agents with whatever tokens they collect | refines `AuditedExecution` |
| `ReceiptReads` | the control plane's receipt pages and fleet counters | extends `ReceiptChain`: its reader runs among the writers |
| `Deployment` | start-up, diagnostics, migrations and the file registry | |
| `*_proofs` | the theorems about the module of that name; `GovernedExecution_proofs` also those about `McpAuthz`, `ReceiptChain_proofs` those about `ReceiptReads`, `Deployment_proofs` those about `RegistryCache` | extends them and `TLAPS` |
| `MC*` | instances for TLC | extends it |

### How state and actions correspond to the code

**GovernedExecution.** `pc[c]` is the await a call's coroutine stands at; the
locals of `_Call`, `_authorize` and `execute` are `req`, `registration`,
`subject`, `decision`, `shadow`, `credential`. `Identify`, `Lookup`,
`VerifySubject` (with `_bind_subject` as `Bound`), `RegistryGate` or
`EvaluatePolicy`, `Record`, `Export`, `BrokerCredential`, `Forward` and `Reply` or
`UpstreamFails` are the code between consecutive awaits. Each has a disjunct for
every way its adapter may fail: the mapped errors end in the answer the
transports give them, anything else in `internal_error` (HTTP 500). The
environment runs a forwarded request at any later time (`UpstreamRuns`), edits the
registry (`OperatorSets`) and kills the process (`GatewayCrash`). A lookup answers
with any record in `recent`: with Redis, the current one and those the cache may
still hold, until `Expire` drops them; without, the current one alone. Which awaits
have no timeout depends on the settings and is `Untimed`. `receipts`,
`exported`, `sent` and `effects` are what outlives a call. The argument
threshold of the policy is one limited tool with arguments "within" or "over".

**ReceiptChain.** One transaction per call: `LockHead` (SELECT ... FOR UPDATE),
`Sign`, `Flush` (the INSERT draws an id), `Commit` (row and head together; the
acknowledgement may be lost), `Rollback` at any point, `Refuse` before it begins.
`Restart` ends the transactions of a replica. SHA-256 is
injective by construction: the digest of a row is the row in a tuple, so each row
contains its history. A signature is the key version that verifies it. An edited
row is worth to the verifier what it can still be decoded to: a signature no key
made (`NoKey`), one that is no hexadecimal (`NotHex`), or columns that make no
receipt (`NotAReceipt`). `VerifyChain` is the control plane's loop over rows in id
order; it stops at the first row that is not as it should be, and there names it or
raises (`Raises`).

**RegistryCache, TokenCache.** One lookup or exchange per reader: `Hit`, or `Miss`,
`Fetch`/`Exchange`, `Fill` (the SET, over whatever is there), `Raise` at any of
them. `Tick` (`CacheTick` in `RegistryCache`, whose specification is `CacheSpec`)
is a unit of time; it ages records and tokens and expires keys, and
does not pass while a SET has been pending `MaxDelay` ticks, which is the model's
assumption about the network. `TTLs` allows for the clock that
`int(time.time())` rounds down.

**AgentDirectory.** `Begin` is the SELECT, `Flush` the UPDATE of the `Changed`
columns, which waits for the row lock, `Commit` the row and its audit row,
`Rollback` everything that can fail, an acknowledgement lost after the commit
included. The descriptive columns are represented by `owner`.

**RoutingUpstream.** `List` and `Call` enter `forward()`; `Acquire` is the second
look under the lock; `Hear` is one upstream's answer to the fan-out, in any order;
`Listed`, `Refreshed` and `AllFailed` are its end; `Deliver` is the forwarded call.
The environment changes catalogues (`Change`) and passes time. `slips` is a
history variable used only to state `AuthorityHonoured`. An upstream that answers
with an error object contributes an empty catalogue, as `_tools_of` makes of it;
one whose JSON is no object at all (`Odd`) makes the whole fan-out raise.

**CredentialFlow.** A token is the record of the claims somebody checks, `iss`
standing for the key that signed it, so that `Verifies` is `jwt.decode` with a key,
an audience and a required expiry. `wallet` holds what all agents together have
been issued: client-credentials tokens and whatever the token endpoint answers
them (`AgentPosts`), sign-in and app-only tokens in the shapes of the supported
providers (`IssueAgentToken`), users' own tokens with or without `may_act`
(`IssueUserToken`) and JWT-SVIDs (`FetchSvid`). A call presents any of them in any
header (`Present`); `IdentityOf` is the configured identity provider, `SubjectOf`
and `Bound` the verifier and `_bind_subject`, `Judge` the verdict and its receipt
(any verdict: the policy is `McpAuthz`'s business), `Broker` is `_broker_credential`
with one exchange adapter, `Forward` the upstream adapter against the tool
server's `Accepts`. `Bypass` is an agent that calls the tool server directly.
`Tick` falls between any two of these steps.

**ReceiptReads.** A query is one step and reads the committed rows. A walk asks for
`offset` equal to the rows it has been given so far until a page comes back short;
a summary is two queries. A filter is the set of calls it selects, since receipts
never change; `Verdict` gives each call the fields the counters use.
`MostCommonCounts` is `Counter.most_common(MostCommon)`, ties going to the value
met first, which is the newer one.

**Deployment.** `Used` is what `build_container` wires for the settings, the users'
identity provider and the key file of jwt-svid among it, whether or not a check
knows of it; `Startable` is what it contacts at once, `CallMayFail` the adapters
whose failure nobody maps. `Passes` is each check of `diagnostics.py`, run in the
order of `Checks` by `RunCheck`, and `MayHang` the two that have no timeout; dependencies, the schema and the file change
between any two checks. `Stat` and `Read` are `FileAgentRegistry._load` with the
mtime taken before the content; `ChangeFile` is another process that edits,
restores or removes the file. `past` is a history variable used only to state
`LookupFollowsFile`.

**AgentSdk.** An attempt is one HTTP request of one invocation. `Post` sends what
`Bind` makes of the arguments (`_bind`), `Receive` is `_parse_authorization` or
`_parse_rpc`, `GiveUp` an `httpx.HTTPError`, `Run` the wrapped body, `Retry` the
caller's own loop. The gateway's side is composed from its abstract
specification: `Judge` is `AuditedExecution!Judge` (the authorize route's call of
the use case), `UpstreamRuns` its `Take`, and `Answer` sends a response the routes
may send in that state, or one of a server in between. Judging, running and
answering go on after the client gave up. `GovernedExecution` is proved to
implement that specification, which is what makes the composition sound.

Operators whose comment begins "Mutant of" are faulty variants of a definition.
No specification uses them: each property is shown to fail when its definition is
replaced by the variant, which shows that the property depends on the code.

## 3. Runs

| Run | Shows | Instance |
| --- | --- | --- |
| `gateway` | all safety of the use case, and that it implements `AuditedExecution` | 2 calls, 11 requests, 3 registry records, 2 settings; 2.0 million states |
| `gateway_live` | a call ends or is left at an await without a timeout; a revocation that has reached every record lookups answer with binds the calls that come to it | 1 call, 3 settings (with and without Redis, a database and a streamable upstream); 22 thousand states |
| `chain` | one chain, one row per call, tamper evidence, append-only, refinement of `Ledger`, every record() ends; no receipt missed by a client that pages, counters exact, flagged or cut at the most common | 3 calls, 2 replicas, 2 key versions, 1 reader, lists of the 1 most common; 0.24 million states |
| `cache` | staleness under TTL + MaxDelay, convergence | 3 records, 2 readers, TTL 3, delay 2; 0.11 million states |
| `directory` | audited once, trail explains the row, what the kill switch does guarantee, operations end | 4 operations on one agent; 0.5 million states |
| `routing` | authority, coalescing, requests end, convergence | 2 upstreams, 2 tools (one shared), 2 requests, TTL 1, one that only goes down and one that also answers with no object; 0.29 million states |
| `tokens` | own token, margin, bounded reuse | 2 users, 2 exchanges, lives 0, 3 and 7, maximum 3, margin 2, delay 1; 1.1 million states |
| `sdk` | the guardrail sees the arguments, answers and errors are true, retries are safe, the SDK implements `AuditedExecution` | 1 invocation, 8 kinds of call site, 3 attempts; 0.3 million states |
| `credentials` | who is served on whose behalf, and that nothing reaches the tool server unjudged | 1 call, 2 agents, 2 users, 2 tokens, 9 settings, lives 2 and 1, clock to 3; 3.1 million states |
| `deployment` | lookups follow the file, ready is serving but for what no check looks at, reports catch up | 3 settings, 4 file contents, 2 changes, clock to 2; 0.37 million states |
| `fail_closed`, `kill_switch` | each a statement of the repository that the code does not keep (section 6) | as small as shows it |

**Why these bounds.** Calls of the gateway share only the registry, the ledger
and the process, so two of them show every pairwise interleaving. The eleven
requests take one of each kind the code tells apart: delegated with the sponsor's
token, with another user's, with `may_act` for this client or another, without
one; autonomous with and without a bearer token; a listing; an ungranted tool; no
identity. The three records have an active agent with a plain and a role-bound
grant, a suspended one, and one with approval terms and two grants of one tool.
Three ledger calls on two replicas allow one to wait while another fails and a
third commits past the gap. The lives of the token run are expired on arrival,
barely above the margin, and above maximum plus margin. Invocations of the SDK
share nothing but the log, so the `sdk` run takes one, with three attempts that
overlap in the gateway. Four directory operations
are two more than a write conflict needs. A call of `credentials` shares only the
wallet with others, and uses at most two tokens, the bearer and the subject token;
two agents and two users tell "its own" from "another's", and the nine settings
change one mode at a time, plus the pair header and stub. A page walk over three
rows in pages of two meets every way a page boundary and an append can fall, with
one filter that selects all rows and one that does not; a list of the one most
common of three receipts has ties, values cut off, and both a clear and a tied
first. Two changes of a file
under a clock of three values allow one back to the earlier content at its earlier
mtime; there are two loadable contents, and one of each other kind the code reacts
to differently. The proofs remove the bounds where a
theorem exists.

**Constraints.** The model bounds nothing by state constraints. `MaxVersion` bounds
the key rotations, `MaxTokens` the wallet, `MaxTime` the clocks, `MaxWrites` the
changes of the registry file; `Calls` and `Operations` are finite, durations are capped at
values beyond which the properties do not distinguish them. `CHECK_DEADLOCK FALSE`
stands where every call or operation ends and the system rightly stops.

**Fairness.** What the code's own scheduling and timeouts provide, and where they
provide nothing, an assumption that is named. The event loop runs ready tasks, so a
coroutine's next step is weakly fair as soon as its await ends. Whether it does:

* OPA's client gives up after 5 s, the raw upstream's, the token endpoint's, Vault's
  and the discovery clients after 10 s without a byte. (A server that sends a byte
  now and then can keep any of them waiting; no client has a deadline for the whole
  answer.)
* The database engine has no command and no lock timeout (`adapters/db/session.py:16`),
  the Redis client no socket timeout (`gateway/dependencies.py:246`), and the MCP
  `ClientSession` of the streamable upstream no read timeout
  (`adapters/mcp_upstream/streamable_http.py:43-49`).

In `GovernedExecution` an await of the second kind is not fair: `Untimed` names them
for the settings, and `EveryCallEnds` says that a call ends or stands at one of them
for ever. In `Deployment` the database and the Redis check are not fair while their
server is silent (`MayHang`); somebody polls, and the other checks end. Where the
question is another one, that the adapter answers or fails is assumed:
`EveryRecordEnds` and `EveryOperationEnds` (nobody waits for ever for a row lock whose
holder failed) assume a Postgres and a Vault that answer, `EveryRequestEnds` and
`TableConverges` (nobody waits for ever for the router's lock) upstreams that answer
or fail. Nothing obliges requests to arrive, operators to act, upstreams to answer or
the process to stay up.

Weak fairness is
enough for the row locks of `ReceiptChain` and `AgentDirectory`, where each call
runs once; in `RoutingUpstream`, where requests come again and again, a waiter for
`asyncio.Lock` gets strong fairness because that lock is first in, first out.
`Tick` is weakly fair in the models with time. `TokenCache` and `CredentialFlow` need
no fairness.

## 4. Proofs

Each `*_proofs` module states `IInvInit`, `IInvStep` (one step per action) and from
them `InductiveInvariant == Spec => []IInv`; the properties are consequences.

* **GovernedExecution_proofs.** `TypeCorrect`, `WriteAheadHolds`, `AnswersAreTrue` and
  the refinement `GatewayIsAudited`, for any calls, agents, requests, records and
  settings. `WriteAhead` is not inductive: the step that forwards a request looks
  only at `pc`. `IInv` adds, per call, what its place says: who has been
  identified (`Identified`) and decided (`Decided`), that no receipt exists before
  `record` (`Unreceipted`), that the receipt says what was decided afterwards
  (`Recorded`), that it permits once past `export` (`Permitted`), and whether it
  was sent (`SentOnce`) or answered (`Unanswered`). The refinement then maps
  `Record` to a verdict, `UpstreamRuns` to an effect and all else to a stutter.
  `HardDenialsHold` and `CapabilitiesHold` rest on `GrantInv`, inductive on top of
  `IInv`: a call's user is the one its verified token names (`UserVerified`), what
  was decided keeps to the record it looked up from the decision to the effect
  (`DecisionSound`), and a listing only ever shows granted tools (`ListingSound`).
  A receipt is judged by the record its call looked up, not by what operators have
  made of it since. `RevocationsBind` is what binds the two: once a
  revocation has reached every record a lookup may give (`Revoked`), `DeniedOf` holds
  of each call that has yet to look its agent up. It says that the call either has no
  record yet or has one that the registry gate refuses, and every lookup while the
  revocation stands keeps it so. The formula is temporal but a safety property, and
  needs no fairness.

  `GatewayUsesPort` is the other half of `ChainImplementsPort`: the receipts as the
  gateway sees them behave as the `Ledger` port says, and the Postgres ledger
  implements that port, so the gateway asks nothing of it that it does not give.
  `GatewayUsesRegistry` and `CacheImplementsRegistry` (in `Deployment_proofs`) are
  the same two halves for the registry: every record the gateway decides on is one
  `RegistryPort` lets a lookup answer with, and the cache answers with no other, its
  recent records being those replaced less than TTL + MaxDelay ago. So what is proved
  of the gateway holds over the cache the gateway is shipped with, and a revocation
  binds after at most that long.
  Two theorems are about the policy itself, for every record, request and user:
  what it says of a tool depends on the status and on the
  grants of that tool alone (`VerdictFollowsItsGrants`), and roles and subjects only
  ever add permissions (`RolesOnlyWiden`).
* **ReceiptChain_proofs.** `TypeCorrect`, `ChainStaysIntact`, `OneReceiptPerCall`,
  `TableAppendOnly`, for any calls, replicas and key versions. `IInv` adds that the
  lock is held exactly by the one call inside a transaction (`LockHolder`), that
  its draft extends the committed head (`Drafted`), is signed (`Signed`) and has
  an id above every row's (`Numbered`). From it `LockIsHeldByAWriter`: no failure
  leaves the lock behind, which is what `EveryRecordEnds` rests on.
  `ChainImplementsPort` adds that rows are
  ranked without gaps (`Ranked`), so that the row `Log` picks at each position is
  unique and a commit appends. `TamperingShows` follows for tables of any length:
  the row after a deleted one, the row in the place of an exchanged one and the
  edited row itself do not hold the hash or the key `verify_chain` expects, because
  a digest determines its row (`HashIsInjective`) and a call has one row. On an
  otherwise valid ledger the walk gets to the edited row (`EditStops`), and there
  names it or raises (`EditShows`).

  The readers of `ReceiptReads` are proved about here too, for any filters, page
  sizes and tables: `WalksMissNothing` and `CountsAreHonest`. A row's `Rank` is the number of
  matching rows after it. `ReadsInv` says that a walk has seen every row of the first
  `offset` ranks that was there at its start; it is kept because an append only
  pushes rows down the ranks (`MatchingGrows`) and a page takes the ranks from its
  offset on (`PageFacts`). `TopCount`, that there are k rows of the first k ranks
  unless there are fewer rows, turns it into the bound on rows seen twice.
  For the counters, a scan that is not flagged has read every row (`ScanIsAll`), so a
  list is cut only where MostCommon values are ahead of the missing one
  (`MissingIsBehindMany`), none of them counted less often (`ListIsCutOff`); a flagged
  one has counted a subset (`CountGrows`).
* **Deployment_proofs.** About `RegistryCache`: `CacheTypeCorrect`, `StaleReadsBounded`,
  `CacheImplementsRegistry` and `StaleRecordsStayOut`, for any TTL, delay and number of lookups. `CacheInv`
  relates the age of a cached record to the time its key has left (`EntryYoung`) and
  of a fetched one to the time it has waited (`FetchYoung`); both are below TTL +
  MaxDelay, so once the registry has been quiet for that long (`Quiet`) nothing but
  its record can be there or arrive.

  About `Deployment`: `TypeCorrect`, `LookupsFollowFile`, `ReadyServes` and
  `ReportsHonest`, for any settings, contents and bounds. Neither invariant is
  inductive: a lookup answers from what was loaded long before. `IInv` adds that the
  file and what was loaded have mtimes on record (`Stamped`), that an mtime used
  once tells one content (`LoadedIsFile`), that a change during a read is one the
  lookup saw (`ReadUnderWay`), and what a probe knows as long as nothing changes
  (`PassedSoFar`, `ReadyIsHealthy`). `ReportsHonest` needs no quiet: while a check
  keeps failing, a probe has it before it or has noted a failure
  (`BrokenStaysBroken`); while all keep passing, it has noted none
  (`WellStaysWell`).
* **RoutingUpstream_proofs.** `TypeCorrect`, `AuthorityHolds`, `BurstsCoalesce`,
  `LockIsHeldByAFanout`, `TableStaysSettled`, for any upstreams, tools and requests. `MinIsFirst` (a set of naturals has a least
  member, by well-foundedness of finite sets) gives that the merged table picks
  the first advertiser; `IInv` says that of the table, of what fan-outs have heard,
  and that whoever fans out for a call holds the lock. `LockIsACallers`, inductive on
  top of it, is the converse. `Settled` says that a table in force, and what every
  fan-out under way has heard, is what the upstreams serve now; only a change of an
  upstream ends it.
* **TokenCache_proofs.** `TypeCorrect`, `TokensAreOnesOwn`, `MarginIsKept`,
  `ReuseIsBounded`, for any users, audiences, lives, margin, maximum and delay.
  `IInv` adds up the age of a cached token and the time its key has left (`Young`).

* **CredentialFlow_proofs.** `TypeCorrect`, `AgentsHoldNoCredential`, `UpstreamAgrees`,
  `UsersAreDelegated`, `AutonomousIsNotDelegated`, `CredentialLifeIsBounded` and the
  refinement `GatewayIsLoadBearing`, for any calls, agents, users, settings and
  lives, and wallets of any size. `IInv` says what tokens are ever in a wallet (none
  the tool server accepts), that a call's identity and user derive from the headers
  it was made with (`IdentityInv`, `SubjectInv`), that what it carries upstream was
  exchanged from the token `Brokered` names (`CredentialInv`), and that only that was
  served (`ServedInv`).
* **AgentDirectory_proofs.** `TypeCorrect`, `MutationsAudited`, `TrailExplains`,
  `SuspensionsOfActiveHold`, `LocksAreHeld`, for any number of operators and writes. `IInv` adds to the two properties what an open
  transaction knows: what it loaded and asked for fit its kind (`LoadedIfThere`),
  whoever has flushed holds the row lock (`RowLocked`), and the row is missing
  exactly for a creation (`RowThere`). `SuspensionsOfActiveHold` follows from the
  trail: a suspension that loaded "active" did write the status column, so the last
  one that wrote it is that suspension or comes after it.
* **AgentSdk_proofs.** `TypeCorrect`, `GuardrailHolds`, `AnswersHold`, `RetriesAreSafe`,
  `SdkIsAudited`, for any invocations, attempts and call sites. `IInv` says of each
  attempt what it was asked and that arguments over the limit are never
  permitted (`Asked`), that responses are true of the log and effects (`Replied`),
  that a body that ran is accounted for by its outcome (`Took`), and that earlier
  attempts ended in an error (`Ordered`).

Assumptions are those the modules name (`...Assumption`); TLC evaluates them in
each run. The two that carry weight: a hash or cache key is injective, and a SET
lands within `MaxDelay` ticks of the read behind it.

The type invariants are proved rather than run.

**Only model-checked:** the liveness properties (`EveryCallEnds`, `EveryRecordEnds`,
`CacheConverges`, `EveryOperationEnds`, `EveryRequestEnds`, `TableConverges`,
`ReportsConverge`), since fairness and ENABLED are beyond the prover; every other
property of a passing run is a theorem. Their safety halves are proved: no lock is
orphaned (`LockIsHeldByAWriter`, `LocksAreHeld`, `LockIsHeldByAFanout`), and what
has converged stays so (`StaleRecordsStayOut`, `TableStaysSettled`,
`ReportsHonest`). What a recursive or an induction-defined operator computes on
every input is beyond the prover too; no proved module declares one.

## 5. Not modelled

HTTP framing, MCP sessions and the wording of answers: one request is one step
that may run late or never. The cryptography of JWTs and signatures: `iss` stands
for the key and a signature for the key version. JWKS caching, which a library does.
Operator authentication, a yes or a no before a control-plane request that changes
nothing. The in-memory ledger: `record()` awaits nothing between reading and
advancing its previous hash and keeps no receipt, so it is the chain of
`ReceiptChain` without any of its steps that interleave. Logging, tracing, metrics
and what an exporter does with a receipt: nothing reads it back. The DDL of the
migrations, the scaffold command, the SDK's `list_tools` and LangChain schemas, and
the scenario's data and scripted conversations. `CredentialBroker` and
`ApprovalChannel` are ports nobody implements or calls. See "components" in
`PROJECT.json`.

## 6. Where the code and its documentation differ

Shown by a run:

* `fail_closed`: an OPA answer that is no JSON object raises an unmapped exception
  and leaves no receipt (`domain/ports.py:33` promises a fail-closed error).
* `kill_switch`: a suspension that overlaps an activation is acknowledged and
  audited last, yet the agent stays active, because the ORM saw no change to write.
  `SuspensionOfActiveHolds`, checked and proved, says what does hold: a suspension
  that found the agent active lasts until an activation is on record.

Noticed, without a run:

* `docs/adr/0008-agent-registry-as-source-of-truth.md:27-29`: orphan attempts must
  appear in the ledger; an unregistered agent whose subject token is refused gets an
  identity error first (`application/governed_execution.py:191`), and no receipt.
* `docs/adr/0013`, lines 74-80: a key rotation takes effect on the next restart; Vault
  signs with the new version at once, while the reported fingerprint and the key
  that verifies stay (`adapters/ledger/vault_signer.py:66`).
* `docs/adr/0020`, lines 113-117: each call is attributed to and authorized for the
  right user; an autonomous agent's call with a verified `X-Subject-Token` is judged
  for that user but brokered with the agent's own token
  (`application/governed_execution.py:262-274`), so upstream it is the agent's.
  `VerifiedIsServed` therefore speaks of calls for which a user is served at all.
* With header identity the bearer token is nobody's in particular: the tool server
  may serve its user while another was verified. `Proven` excepts that mode.
* `may_act` is not compared with anything when the identity provider gives no
  `client_id` (`application/governed_execution.py:307`).
* `gateway/dependencies.py:178-183`: a subject verifier with a discovery URL of its own
  is still given `oidc_issuer`.
* `examples/enterprise_scenario/scenario.py:130`: the brokered token is said to be
  scoped to invoices:read; `authorization_server.py:72` grants read and write.
* `gateway/app.py:45-49`, `diagnostics.py:3-10`: `/readyz` is said to look at every
  dependency the gateway needs to serve a real call. Four things are beyond its
  checks, and `ReadyIsServing` excepts them as `Unchecked`. The registry check counts
  entries, so a file with an entry that does not validate (or `agents:` without a
  list) is "ready" while every lookup raises (`adapters/registry/file.py:32`). The
  identity check contacts the agents' provider only, in oidc-jwks mode only
  (`diagnostics.py:51-53`), while the subject verifier fetches a discovery document
  in every mode (`adapters/identity/oidc_subject.py:85-93`) and jwt-svid reads a key
  file (`adapters/identity/jwt_svid.py:41`): without them the gateway does not start.
  And an OPA, upstream or token endpoint that is healthy but answers with something
  other than the JSON expected makes calls end in a 500 (as in `fail_closed`).
* `/readyz` and `doctor` wait for ever on a Postgres or a Redis that accepts the
  connection and stays silent (`diagnostics.py:73-78`, `96-98`).
* `adapters/mcp_upstream/streamable_http.py:43-49`: a streamable upstream that keeps
  its stream open and never answers keeps its caller waiting, and, during the fan-out
  of a call, the router's lock with it.
* `adapters/mcp_upstream/routing.py:132-139`: `_tools_of` is said to tolerate any
  unexpected shape; JSON that is no object raises AttributeError at line 140, which
  ends the request of every caller, though other upstreams answered.
* `control_plane/routes/receipts.py` and `adapters/ledger/postgres_query.py:38,110`: an
  edit that leaves no valid decision, or a signature that is no hexadecimal, makes
  `verify_chain` raise ValueError. Tampering is not accepted, but the answer is a
  500 that names no row (`TamperEvident`).
* `docs/user-journeys.md:256`: a suspended agent is denied on its next call. With Redis
  that is one cache TTL later, as line 259 says, and a call that has looked its agent
  up before keeps the record it got: it may go ahead after the suspension.
  `RevocationBinds` speaks of calls that have yet to look their agent up.
* `application/governed_execution.py:344-348`: a listing whose result or tools have
  another shape than the protocol's is passed through unfiltered. It names no tool
  in the sense of the protocol, which is what `CapabilityRespected` counts.
* `adapters/registry/file.py:7-10`: a suspension needs no restart to take effect; an
  edit that leaves or restores an earlier mtime is not seen, and a file read half
  written, within one tick of the clock, keeps its agents unknown until the next
  edit. `LookupFollowsFile` excepts mtimes that were used twice.
* `control_plane/routes/fleet.py:54-56`: `truncated` is said to flag what is under-reported;
  `most_common(20)` (lines 66-68) leaves agents and reasons out without it, and the
  summary has no such flag at all. `FleetCountsHonest` says which ones may be missing:
  those behind twenty with no fewer calls.
* `adapters/mcp_upstream/routing.py:23-25`: a call for a tool of an unreachable
  upstream is said to report that upstream; the table keeps no memory of it, so
  the call is told that nobody advertises the tool and all upstreams are listed.
* `sdk/client.py:42`: `GatewayError` is said to cover an answer "we can't read"; such
  an answer raises `ValueError` or `KeyError` instead, and `_parse_rpc` returns the
  result None for a JSON error page of any status but 401 (`ParseRpc`).
* `sdk/decorator.py:8`: a guardrail is said to see the same value however it is
  passed; a value that a function takes through a `**` parameter arrives nested
  under that parameter's name. And `inspect.signature` follows `__wrapped__`, so a
  function that hides its own signature may run with arguments that bound to another
  (`sdk/decorator.py:69-72`). `GuardrailSeesArguments` excepts both.
* `sdk/decorator.py`: a `GatewayError` a wrapped function raises itself looks to its
  caller like one of the SDK; `AnswersMatchEffects` speaks of the SDK's own.
* `adapters/token_exchange/entra_obo.py`: the scenario's authorization server knows no
  on-behalf-of grant, so in that mode no credential is ever brokered in the model and
  the properties of `credentials` say something of the other two modes only.
* `adapters/registry/postgres.py`: the audit detail of an update tells what columns were
  set to, not what they were; `TrailExplainsRow` needs the former alone.
* `domain/models.py:219-221`: `enforced=False` is said to mean that the call was
  forwarded anyway; it is signed before brokering, which may still refuse the call.
* `adapters/token_exchange/caching.py:8`: "never caches past a token's real
  expiry"; an opaque token is cached for the safety margin, whatever its life.
* `adapters/mcp_upstream/routing.py:54-55`: a burst of calls for a tool that nobody
  advertises fans out once per caller, in turn; `FanoutsCoalesce` therefore speaks
  of tools the table has come to know.
* `docs/user-journeys.md:259`: revocation latency is one cache TTL; the bound is the
  TTL plus the delay between a lookup's read and its SET.
* `domain/models.py:160-163`: a repeated suspension overwrites `status_changed_at`.
* A signer created anew in each process makes `verify_chain` of another process
  reject every row when `signing_key_mode` is in-process.
* `verify_chain` does not read the chain head, so it accepts a ledger whose newest
  rows are gone (`TamperEvident` says what it does detect: edits, exchanges, gaps).

## 7. Plan

Done: the core (`McpAuthz`, `GovernedExecution`, `ReceiptChain`) with its three
abstract specifications, the registry cache under it, the token cache, the directory, the router, the SDK, the
identity and credential flow, the control plane's reads and the deployment; every
safety property of a passing run is proved.

Left, modelling: the session of the streamable HTTP upstream; JWKS caching across a
key rotation of the identity provider.

Left, proofs: the remaining lemmas behind the liveness checks (that a call which
waits is enabled once the lock is free); algebra of the policy beyond roles, such
as which edits of a grant can only narrow what an agent may do.

## 8. Running

`tlc -config X.cfg M` for a run of `PROJECT.json`, `tlapm M_proofs.tla` for a
proof module. Every run ends within three minutes on two cores.

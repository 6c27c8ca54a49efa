# A TLA+ model of uRouter

uRouter is a gateway for language-model calls, written in Rust: it reads a request
in one of five client protocols, decides a tier and a deployment for it, sends it
upstream, retries, accounts for it, brings the answer back and keeps a record of the
decision. This directory holds TLA+ modules for it, the TLC runs that check them on
small instances, and theorems that TLAPS proves for every instance. `PROJECT.json`
lists the parts, the runs, the source lines behind every definition, the hazards, the
findings and the theorems.

Paths below are relative to `src/`. `main.rs`, `circuit.rs` and the like are
those of `crates/urouter-gateway/src/`.

To check a model and the proofs:

    tlc -workers 2 -config SharedCircuit.cfg MC_SharedCircuit
    tlapm ServiceProofs.tla
    tlapm RequestProofs.tla
    tlapm TierExecutionProofs.tla
    tlapm AdministrationProofs.tla
    tlapm TenantQuotaProofs.tla
    tlapm ScopedQuotaProofs.tla
    tlapm BudgetProofs.tla
    tlapm GatewayCallProofs.tla

## 1. The system

### Parts, their state and their operations

| part | where | state | operations |
|---|---|---|---|
| shared circuit breaker | `circuit.rs` | one Redis hash per deployment, credential and provider: `open_until`, `probe_token`, `probe_until`, a failure window, a key TTL; a ticket per process | `acquire`, `finish`, `abandon` (Lua scripts), `snapshot` |
| capacity and local cooldown | `capacity.rs`, contracts `capacity.rs`, `cooldown.rs`, `state.rs` | `DeploymentHealth` per deployment: events, cooldown, `half_open_probe`, `in_flight` | `capacity_snapshot`, `select_from_snapshot`, `finish`, `abandon`, `drop` of a lease |
| tier execution | `main.rs` `execute_routed_upstream`, `execute_tier`, `acquire_execution_lease`; contracts `retry.rs`, `exhaustion.rs`, `tier.rs` | per request: the plan of tiers, candidates, exclusions, retries, leases, attempts | snapshot, select, gate, attempt, retry, exhaust, fall over |
| budget ledger | `budget.rs` | per tenant and period: a total and a reservation per request id | `reserve`, `settle`, `release` |
| idempotency | `idempotency.rs`, `resolve_request_id` | claims: key to request id and body hash | `claim`, expiry, eviction |
| scoped quota ledger | `scoped_quota.rs`, contracts `quota.rs` | per counter: slots or reservations and a running total | plan, `reserve`, `settle`, `release`, pruning, key expiry |
| tenant quota ledger | `quota.rs` | per tenant: in-flight slots, request and token windows, a token sequence | `reserve`, `settle`, `release` |
| bindings | `binding.rs`, `shared_state.rs` | a binding per task or session, a generation per task and tenant | `get`, `put`, `remove`, `remove_task`, `remove_tenant` |
| decision records | `main.rs` `RecordStore`, `record.rs`, `persistence.rs` | a bounded deque, a queue to one writer task, a file and its rotated copy | `append`, `list`, `get`, `delete_matching`, the writer, the retention sweep, replay |
| feedback store | `main.rs` `FeedbackStore`, `persistence.rs`, `shared_state.rs` | strengths by turn and kind in memory, file or Redis; copies on records | upsert, erase, rewrite, rotate, replay, reconcile |
| semantic vectors | `vector_store.rs` | side files, tombstones | append, tombstone |
| management API | `main.rs`, `management_auth.rs` | a keyring, an audit file behind a queue | authorize, reload, audit; deletions, rollout, rollback |
| control plane, catalog feed | `control.rs`, `catalog_feed.rs`, `main.rs` | the active and earlier snapshots, the last error, the last document applied | publish, reject, rollback, reload, poll |
| artifact rollout | `urouter-artifact` | active and candidate artifact, canary share, kill switch, an event trail | decide, promote, roll back, observe |
| routing decision | `urouter-core`, `urouter-ai` admission | none | `decide`, `capabilities`, admission |
| protocols and transports | `urouter-protocol`, `urouter-transport`, `protocol_translation.rs` | a stream's buffer and open blocks | read, build, parse, translate |
| configuration, startup | `main.rs`, `dry_run.rs`, `urouter-core` `validate` | none, then the process | dry run, start, drain, end |
| the rest | client, embedded use, bindings for Python, evaluation, tools | little or none | conversions and offline work |

### How they interact

A call is read from its protocol into a canonical request and is given a request id
(idempotency). It takes a snapshot of the control plane, reads the generations of its
task and tenant, and is routed: the rules decide, then the learned artifact and
the exploration draw may replace the tier. It is admitted by the budget and the
tenant quota, its binding may fix the deployment, and it enters the walk over tiers.
There each attempt reads a snapshot of the candidates' health and of the shared
circuits, selects a deployment, passes the shared circuit (`acquire`) and the scoped
quota, is written for the provider's protocol and sent. Its end goes back through the
same objects: the lease is completed or dropped, the circuit finished or abandoned,
the quota and the budget settled or released, the binding committed, the record
stored, the answer translated. Management handlers and the retention sweep delete
bindings, records and feedback while such calls are in flight; timer, feed and
administrator publish snapshots. Several gateways share Redis; with the memory backend
everything is one process.

### What is hard in it

* locks are released between a read and the write planned on it (capacity
  snapshot and selection; the deque's lock and the writer's queue; the live route and
  the feed's swap);
* everything is undone by `Drop`, by spawned tasks whose failure is ignored, or
  by the expiry of a key or a lease; a client may go away at every await;
* the same request id can be in use by two calls at once;
* tokens that identify a holder in Redis are drawn from per-process counters;
* windows roll between a reservation and its settlement;
* deletions are several awaited calls, fenced by generations;
* writers can fail, or the process stop, between any two file operations;
* what a request is allowed, charged and recorded for is decided before the binding,
  the retries and the fallbacks decide what is really sent;
* two conversions lie between client and provider, and each knows other things.

`PROJECT.json` lists these as hazards, each at its line, with the property that
covers it or the reason none does.

### What makes each part correct

* **shared circuit**: one probe per half-open circuit; no circuit closed to
  everyone for a probe nobody is making; no key expiring before its deadlines.
* **capacity, tier execution**: `in_flight` is the number of leases; a tripped
  deployment comes back; the walk ends; nobody gets a model he must not get.
* **budget, quotas**: the total is the sum of its reservations; nobody is
  admitted beyond a limit, or refused below it; what was spent stays charged; nothing
  is taken back that another holder was charged.
* **bindings**: no write by a request that a deletion overtook; the first success
  wins; identity changes only with the generation.
* **records, feedback**: what was deleted is nowhere; an expired record never returns;
  a record keeps its vector as long as it can be read; what is shown is what
  is stored, before a restart and after it.
* **control plane**: a pair nobody checked never serves; the files win.
* **management**: nothing is done without its audit line; a revoked key stops working;
  the trail names what decides.
* **routing, protocols**: a request goes to a model that can take it, with what made
  it go there; what is advertised is served; what comes back is whole or said not to be.
* **configuration**: the dry run says what the start will do; fallbacks end.

## 2. The modules

Each component module has its constants with their assumptions, state, one action
per operation or handler step, and its properties. `MC_*` modules give the
instances. An operator marked `BUG (for a mutant)` or `Mutant` is a wrong form of the one that
follows it; nothing uses it, except the mutation check that PROJECT.json
describes: put in place of the right one, it must break the property named there.

**SharedCircuit.** `circuit` is the Redis hash of each key; `Acquire`, `Succeed`,
`Fail`, `Abandon` are the scripts, over all three keys of a deployment at once
(deployment, credential, provider). `Lose` is a `finish` or `abandon` that does
not reach Redis, `Crash` a process that stops with its permits; a restarted
gateway is another member of `Process` which may have the same `Pid`. The scripts
store absolute deadlines. The model stores the time left, which `Tick` counts
down, so that time needs no bound. `granted` is history: probe slots granted and
neither returned nor a cooldown old.

**TierExecution.** `health` is `CapacityManager.health`; `request` says where each
request is in `execute_tier`. `Snapshot` and `Select` are two actions because
the lock is released, and the shared circuits awaited, in between. Which available
candidate is selected is left open, and so are the answers of the shared circuit
and the scoped quota (`Overlay`, `Refuse`): whatever they say, the properties hold.
`Fail` is the whole of `complete(Err)` followed by `plan_retry`; `Break` is a body
that fails after its headers, where there is no retry; `Drop` is a lease dropped
by a client that went away. Requests are concurrent here; what one request does around
this loop is in GatewayCall.

**Budget.** `claims` is the idempotency repository, `ledger` the budget's. A call
goes through `Identify` or `Claim`, `Reserve`, `Attempt`s and `Succeed`, `GiveBack`
or `End`. Nothing orders two calls of one key, as nothing does in the code. The
two repositories differ where the code differs (`Minus`, and what `Settled` leaves
of a missing entry in memory). **Totals** has `TotalOf`, the sum of a map's amounts, as the
number of its units (`Units`), for Budget, TenantQuota and QuotaPromise: a sum that the
provers can count with, where a fold is closed to them.

**RecordStore.** The deque changes under its lock (`Push`, `Retain`); the writer
hears of it later (`Enqueue` by `try_send`, `SendRewrite` by an awaited `send`); `Write`
handles one command, and each of its file operations can be the last (`Rewrites`,
`Appends`, `Rotations` list what they leave). Handlers can be cancelled at an
await, the process can crash in the middle of the writer's work (`Crash`), and `Open`
replays. `ExpireRecord` is the passing of a record's `expires_at`. A read or a listing
prunes first, so it is a caller like the others. What `retain` and `filter` leave of a
sequence is `Kept` of **Selection**: the same as `SelectSeq`, by counting and not by
recursion, which the provers can follow; StreamTranslation and RequestPath take the data
lines and the deltas of a stream with it.

**ScopeFence.** A request reads generations (`Admit`), looks its binding up, is
served, commits the binding and stores its record. A deletion is `List`, `Fence`
(`remove_task` or `remove_tenant`; `RemoveBindings` is what both do), `ReadGeneration`,
`Erase`. `crossed` and `gone` are history. Both backends are in it, and restarts of the
memory one: its generations start at 0 again, and so do those of the records that are
replayed (`Reloaded`), which are not serialized.

**ScopedQuota.** `entries`, `total` and `ttl` are the ledger's keys; a daily
counter has one per day. `Plan` makes charges and token, `Grant` and `Refuse` are
the reservation script, `Settle`, `Release` and `ReleaseLost` its ends, `FailOpen`
a ledger that is not reached. `collided` is history: a token was granted that
somebody else bears. `release` gives back slots only, although a comment speaks of
"the concurrency slot and the token reservation" (`scoped_quota.rs:97`): the
settlement, which comes first, has already corrected the tokens.

The modules whose names end in **Proofs** hold the theorems: those of TierExecution,
TenantQuota, Budget, ScopedQuota and GatewayCall each in one of its own; those of
ControlPlane and Management in AdministrationProofs (what administrators change); those of
RequestPath, ScopeFence and RecordStore in RequestProofs (a request, its scope, its
record); those of Service with Feedback, and of SharedCircuit, in ServiceProofs (what
outlives a request). Modules that are proved about together name their steps apart
(`PathNext`, `StoreNext`, `ControlNext`, `ServiceNext` beside `Next`). See section 5.

**QuotaPromise, TenantQuota.** QuotaPromise is the abstract specification: it keeps no
count, only which calls were granted what and when, and reads every limit off them.
TenantQuota is the ledger: the mutex or the script with its running counts and totals,
pruning, settlement of an entry whose window has rolled, key expiry and the sequence of
tokens. `KeepsPromise` is `Promise!Spec` under the mapping in TenantQuota: every grant
and every refusal is one the promise allows, as long as no call bears another's
token (`unique`), and `TokensToldApart` says when that can end.

**RoutePlan, GatewayCall.** RoutePlan has the tiers a request may be executed on
and the typed fallbacks; `PlanSuffices` is what the estimate takes for granted of the plan:
that it has its first tier and, unless it is longer than a walk, every fallback of its
tiers. GatewayCall is one call from its front end to its reply:
`Enter`, `Decide`, the admission (`AcquireBudget`, `AcquireQuota`), the binding, the
walk over tiers (`StartTier` to `Exhausted`), attempts with their leases and scoped
quota (`Lease` to `AttemptFails`), both response paths, the commit and the record. Each
await is the end of a step, and `Disconnect` can happen at each: the future is dropped
with what it holds. What the ledgers answer is open. `lost` is history: attempts that
were sent and are not in the list the failure path looks at.

**ControlPlane.** `files` are the operator's three documents, written one at a time;
`loading` is where the timer and the administrator are in reading them; `active` and
`history` are the snapshots; `polling` is the feed's task between its awaits. `request`
is one request that keeps the snapshot it entered with. `signedPairs` is history: what
a sound manifest was ever written for.

**ManagementAuth, ArtifactModel, ArtifactRollout, Management.** ManagementAuth is the
keyring, its reload and the audit file with its writer; a call is judged under
the lock, its line queued, and only when the line is written is it acted on.
ArtifactModel is what an artifact answers for a request, by its four kinds of model;
ArtifactRollout is the controller: active, candidate, canary, kill switch, promotion,
rollback. Management composes them: three calls, a keyring that is rotated, callers that
hang up, a disk that fails, restarts.

**Protocols, Routing, StreamTranslation, RequestPath.** Protocols says what each client
reader takes over of a request, what each transport refuses, drops or passes, and what
comes back; a request is the set of the things in it a conversion may lose. Routing is
`RouteConfig::decide`: contract, rules, hints, trajectory signals, pin, floor, cascade,
admission, and the capabilities the model list advertises. The eligible tiers are a set
there; where the code takes the first of its list, `First` takes the one that comes first
in the route. StreamTranslation is
`stream_response` and the translator behind it, over tokens that chunks may cut anywhere.
RequestPath composes them with ArtifactRollout: one request is read (`Read`), decided
(`Route_request`: the rules' decision, the `Preference` of the artifact that draws its
task, an exploration draw; `Chosen` are the decisions before the draw), bound (`Bind`:
`Rebound` is the bound model, or the next tier's on a retry), sent to one of its tier's
deployments (`Servable`; `served` is that deployment's model, whose wire and policy count),
answered or streamed. A stream can break before all has arrived (`Break`) or fail at its
end, when the lease, the binding or the record is written (`FinishFails`).

**RouteDocument, Startup, Feedback, Service.** RouteDocument is the route and its
validation; Startup the order in which `main` is stopped by its command line, files and
backends, and the checks of the dry run. Feedback is the store of signals in memory, file or
Redis, its writer, the copies on records and their erasure. A post is a sequence of signals,
each on a turn, ingested one after another; `Replay` takes of each kind the newest event,
which is what inserting the events in their order leaves; a rewrite carries the number of
its erasure, so that the answer reaches the call that waits for it and no later one
(`Caller`). Service is the process: checked, started, serving feedback on the backend it
was configured with, drained, ended, restarted. The walk over fallbacks
(`visit_fallback`) is a recursive function of the tier and the marks.

SharedCircuit and TierExecution are two sides of one path: TierExecution leaves
the shared circuits' answers open, which covers everything SharedCircuit can do.
Likewise Budget and ScopedQuota leave the outcome of attempts open. The parts are
therefore checked under more behaviours than the composed system has.

## 3. The runs

| run | instance and bounds | shows |
|---|---|---|
| `shared_circuit` | 2 gateways with distinct pids, 2 deployments behind one credential and provider, cooldown 1, window 1, threshold 600, tiers of 1 and 2, 2 acquisitions each | `OneUnexpiredProbe`, `NoPhantomProbe` |
| `tier_execution` | 2 requests, a tier of 2 deployments and a tier of 1, 1 retry, with and without a shared gate | `InFlightExact`, `ProbeFlagHasLease`; liveness `TrippedRecovers` |
| `budget` | 3 calls, 1 key, 2 bodies, 3 periods, limits none and 5 with an estimate of 4, both repositories | `LedgerBalanced`, `HardBudget` |
| `record_store` | 2 records, capacity 1 or 2, queue of 2, a file that rotates at 1 line, the sweeper and a handler, 1 crash | `ErasedIsNowhere`, `VectorsOutliveRecords`, `ExpiredNeverReturns` |
| `scope_fence` | 2 requests, 2 tasks, a session, 2 identities, 1 deleting handler, 2 deletions, capacity 1, 1 restart, both backends | `NoBindingResurrected`, `DeletionRemoves`, `FirstSuccessWins`, `CrossedStoresNothing` |
| `scoped_quota` | 1 gateway, 3 attempts, slots 1, tokens 3 a minute, requests 2 a day, estimate 2, actual 1, lease 1, minute 2, day 3, clock to 4, 1 restart, both ledgers | `UsedIsCharged`, `GrantsExactly` |
| `tenant_quota` | 3 calls of 2 tenants, 4 sets of limits, estimate 2, actual 1 or 3, lease 1, minute 2, clock to 4, both repositories | `KeepsPromise` (refinement of QuotaPromise), `TokensToldApart`, `QuotaRecovers` |
| `gateway_call` | 4 tiers in a chain with a shortcut for one cause, 6 deployments, a retired one in its grace period, depth 2, 1 retry, 3 kinds of failure, 2 protocols, bound and unbound, named and routed | `SpendIsKept`, `WithinEstimate`, `NoSubstitution`, `RecordTellsServed`; liveness `CallEnds`; and, before the states, `PlansSuffice`: `PlanSuffices` for this route and every acyclic one of four tiers, at depths 0 to 4 |
| `control_plane` | 2 catalogs and 2 routes in 3 files, 3 writes of a file, a feed of 2 documents of which 1 appears, 1 administrator's call, 1 restart, 1 request | `SnapshotsServiceable`; liveness `ReloadWins` |
| `management` | 3 calls, 1 key, 3 keyring documents (one broken), 2 writes of it, 2 artifacts, 2 observations, a queue of 1, 1 restart | `ActedIsAudited`, `AuditTellsActive`; liveness `KeyringTakesHold` |
| `request_path` | 5 client protocols and 3 wires, some 390 requests over 19 contracts, 3 tiers, the last with 2 deployments on 2 wires, 5 models (one retired), 2 artifacts, exploration, 5 bindings, 3 streams cut at every token | `AdmittedForIt`, `AdvertisedIsKept`, `AskedIsDelivered`, `CallsReachCaller`, `CompleteIsWhole`; liveness `Settles` |
| `service` | 26 command lines against 23 worlds, all 512 fallback graphs over 3 tiers, 2 turns, 2 records, 2 clients, 2 posts, 1 erasure, 1 failing file operation, a file that rotates at 2 signals, a queue of 1, 1 restart | `DryRunForetells`, `FallbacksEnd`, `ErasedFeedbackIsGone`, `RestartAgrees`, `ShownIsCurrent` |

Type invariants, `TtlCoversDeadlines` and `LoneDeploymentStaysRoutable` are theorems
where section 5 says so and otherwise stated for the reader; any of them can be added to
a cfg, and so can the promises of section 4 that TLC finds violated.

Why the bounds suffice. Two gateways that acquire twice each are enough for a trip,
an older permit that ends after it, a probe, its expiry and a second probe; the
theorems of section 5 then remove the bound. Two requests with a retry meet on
every step of the tier loop, and a tier of one beside a tier of two gives both
branches of `cooldown_directive`. With a limit of 5, one estimate of 4 fits; a call
that settles at 1 lets a second one in. A queue of two, one crash and a
rotation at every line put every pair of file operations on either side of a crash
and a full queue in front of both `try_send` and `send`. Two deletions let a
request be crossed by one and admitted between. A clock to 4 with a lease of 1, a
minute of 2 and a day of 3 has each of them roll while an attempt is out, and in
TenantQuota lets a tenant's token sequence expire under a call. Four tiers with depth 2
leave one out of reach; the shortcut makes a cause matter, and an attempt and its retry
on each of three tiers can fail in every way. Three writes change the whole of the
files once, and one of the feed's documents passes while the other fails. Two observations
of a breach, or one and a promotion by hand, cross with a call. Two posts and an erasure
cross on one turn, and one failure or restart falls between any two of their steps. The
512 graphs are all there are over three tiers with two causes.

Named bounds: `MaxTicket` (acquisitions per process), `MaxPeriod`, `MaxRestarts`, `MaxCrashes`, `MaxControlRestarts`,
`MaxDeletions`, `MaxTime`, `MaxWrites`, `MaxFeeds`, `MaxCalls`, `MaxObservations`,
`MaxKeyringWrites`, `MaxPosts`, `MaxErasures`, `MaxFailures`; `MaxAttempts`,
`MaxRetries` and `MaxFallbackDepth` are the code's own. `QueueCapacity`, `MaxLines`,
`FileEvents`, `Capacities` and `Capacity` are configuration of the program. Where the
bounds, or the finite number of calls and requests, leave states without successor, the
cfg does not check deadlock; the others do. There is no state constraint: bounds are
guards of the actions. Symmetry is used only in runs without liveness.

### Fairness

* TierExecution: time passes (`WF(Tick)`); the loop's own steps, which await nothing but
  Redis calls, are taken (`WF` of `Snapshot`, of `Select` or `Exhaust`, of `Admit` or
  `Refuse`); and an attempt that is sent ends (`WF(Ends(r))`), which `main.rs:6340`
  gives it: reqwest's timeout bounds headers and body, and a lease that is not completed
  is dropped. Nothing is assumed of which end it comes to.
* GatewayCall and RequestPath follow one request and assume only that it goes on
  (`WF(Next)`): its future is polled, and each await has an end, by the same timeout or by
  that of the Redis client. Which end is open.
* ControlPlane: the timer's and the feed's tasks, which the process spawns, are run
  (`WF`). Operator, administrator and feed host owe nothing.
* Management: the keyring's task runs, and its line gets into the queue when there is
  room again and again (`SF`: tokio's channel serves senders in order), and the audit
  writer goes on (`WF`), with or without success. Callers owe nothing.
* The other specifications state safety only. `QuotaRecovers` is an invariant: it says
  that a call would be granted now, so that no liveness is needed for it. Its case of a
  token borne twice needs three windows, more than the run's clock has: that case is
  proved (section 5), not run.

## 4. Where code and documentation differ

The quotations are in PROJECT.json. The promises named here are defined in the modules
and not in a cfg: put into one, TLC finds the behaviour described. The invariants of
the runs are stated with the exact condition that the divergence leaves (distinct
pids, `overtaken`, `Alone`, `collided`, `unsure`, `Unspoken`): outside it, the promise holds.

1. `OneUnexpiredProbe` with equal pids (SharedCircuit): probe tokens are pid and ticket.
   In containers every gateway is PID 1, tokens collide, and one gateway's `finish`
   gives back another's probe.
2. `SingleHalfOpenProbe` (TierExecution): requests that snapshot the half-open deployment
   before one of them selects all probe it.
3. `ChargedUntilSettled` (Budget): a repeated call under the same Idempotency-Key is
   granted the same reservation, and may release it while the first is served.
4. `DeletedStaysDeleted` (RecordStore): a record pushed but not yet queued when it is
   deleted is written after the deletion's rewrite, and is there again at the next start.
5. `DeletedRecordsGone` (ScopeFence): on Redis a deletion erases the ids it listed
   before it raised the generation; a record stored in between stays.
6. `GrantsWithinLimit` (ScopedQuota, with two gateways): the Redis quota's tokens are a
   ticket and a number of charges; those of two gateways collide, and a release gives
   back another's slot.
7. `ReservedInFull` (GatewayCall): the budget is estimated before the binding moves the call.
8. `FeedOutageKeepsReady` (ControlPlane, with `fail_closed`): a failed poll makes the
   gateway not ready.
9. `BreachedStaysOut` (Management): a second observation of one breach brings back the
   artifact that the first took out.
10. `NothingSilentlyDropped` (RequestPath): the readers of four client protocols and the
    writers of three answers drop what they have no place for without a word.
11. `AskedInFull` (RequestPath): the effort of a request decides which models are admitted
    for it, and the writers for Responses and Anthropic providers neither send it nor
    report its loss. `AskedIsDelivered`, which the run checks, excepts it there by name
    (`Unspoken`), as it does all of Gemini's wire.
12. `BaselineAvailable` (RequestPath): an artifact, a draw or a binding can make a
    request refused that the rules would have served; a learned model's tiers are not
    checked when it is loaded.

Found by a proof that failed: `QuotaRecovers` of TenantQuota once promised a window
whatever the tokens were. Its induction does not go through on Redis: a late settlement
extends the keys of its charge and not that of the sequence, a token is borne a second
time, the charge is overwritten and the total is not, and calls are refused until the keys
expire. The property now says three windows for that case.

Met while modelling, without a property of their own: retired models are advertised;
the check of daily against per-minute caps has them the wrong way round; inferred signal
strengths are thousandths where units are expected and all count in full;
"capability_required" overwrites "preference_pin"; a renamed parameter is lost on a
collision; streams with CRLF lose their content and end complete; `supports_streaming` is
never asked; the exploration's propensity is recorded of a tier that a binding or a fallback
replaced; feedback whose posts cross, or whose rewrite failed, can be shown stale or come
back; the dry run fails a missing key with which the gateway starts; `explain` draws
another canary bucket than serving. Records pruned on a read path, and those that expire
between the sweep's collection and its prune, leave vectors without a tombstone; the
memory record repository stores a record whatever its generation.

## 5. What is proved

Every safety invariant and every action property that a run checks is a theorem, except
`FallbacksEnd`; the end of this section says why that one is not, and what else is only
model-checked.

### ServiceProofs

Of SharedCircuit it proves, for any sets of processes and deployments, any layout
of deployments over credentials and providers, any cooldown, window, threshold and
bound on tickets:

* `TypeCorrect`: `Spec => []TypeOK`;
* `OneProbe`: `Spec => []OneUnexpiredProbe`;
* `NoPhantom`: `Spec => []NoPhantomProbe`;
* `TtlCovers`: `Spec => []TtlCoversDeadlines`.

From `ConstantsAssumption` (types). `OneProbe` and `NoPhantom` have the hypothesis
`PidsDistinct`: no two processes have the same pid; section 4 says what happens without it.
`TypeCorrect` and `TtlCovers` have no hypothesis and hold for gateways that are all PID 1:
they follow from `Sound`, an inductive invariant in which no token is compared (types, the
slots of a permit on circuits that gate its deployment, and a key's life beyond both
deadlines).

`OneUnexpiredProbe` is not inductive: that a second grant is refused hangs on the
hash still holding the first one's `probe_until`, and that it does, on the first
one's token being in the hash, on no other holder's token being equal to it, and on
the hash not expiring meanwhile. The inductive invariant `IInv` says so: every grant
on a circuit is the probe in its hash (same token, same time left), an occupied probe
has its grant, and `ttl` exceeds both deadlines, which rests on the lemma that
`StateTtl` is more than a cooldown. Each theorem is `Init => IInv`,
`IInv /\ [Next]_vars => IInv'` with one step per action, and `IInv => ` the property.

Of Service, with Feedback and Startup, it proves, for any turns, records, posts, deletions,
clients, capacity of the queue, length of the file, command lines and worlds, on every
backend:

* `FeedbackTypeCorrect`: `ServiceSpec => []FeedbackTypeOK`;
* `ErasedFeedbackStaysGone`: `ServiceSpec => []ErasedFeedbackIsGone`;
* `RestartAlwaysAgrees`: `ServiceSpec => []RestartAgrees`;
* `ShownStaysCurrent`: `ServiceSpec => []ShownIsCurrent`;
* `DryRunAlwaysForetells`: `ServiceSpec => DryRunForetells`.

From `FeedbackAssumption` (there are finitely many turns, a record has one, a signal that
is posted has a kind, a tenant's deletion is of all records of their turns) and
`ServiceAssumption` (`None` is not the name of a step of the start). The first four are
conjuncts or consequences of `FeedbackInv`. A signal is in memory before its event is in
the queue, and an erasure reads what is left before its snapshot is in the queue: so what
the file is to become differs from memory by what the calls are about to do. `FileAgrees`
says by how much. It looks at the queue from any base, the file or a queued snapshot
(`Bases`): what will be read of a turn from there on (`Read`) is what memory holds, or
becomes it by the event that a call is about to send; a base does not count for a turn
that is being erased by a snapshot which comes after it (`Counts`). `SnapshotCurrent` says
the same of a snapshot that is still to be sent; `OneRewrite`, that no call takes another's
rewrite for its own; `HeldIsKnown`, that no file or command has a turn that memory has not,
unless it is leaving; `ErasingOK` and `ErasedOK`, what each step of an erasure
has left nowhere; `Apart`, that two calls which meet on a turn have marked it `unsure`,
which is why each argument is about one call at a time. That appends and snapshots can be
put together in this way rests on `Replay` of two sequences being the merge of their
replays (`ReplayJoins`, `MergeJoins`). `Foretold` compares the dry run with the start check
by check; `ServiceInv` carries the dry run's report to the start that follows it.

### RequestProofs

Of RequestPath it proves, for any route, models, bindings, artifacts, exploration, policies
and requests, from `PathAssumption` and `RouteValid`:

* `AdmittedAlways`: `PathSpec => []AdmittedForIt`;
* `AskedAlways`: `PathSpec => []AskedIsDelivered`;
* `AdvertisedAlways`: `PathSpec => []AdvertisedIsKept`;
* `CallsAlways`: `PathSpec => []CallsReachCaller`;
* `CompleteAlways`: `PathSpec => []CompleteIsWhole`, if `PlainUpstream`.

`PathInv` carries `Able` from the decision to the provider: a decision that did not fail
holds the models eligible for all that the request requires, and its model is one of them;
the rules choose among them, an artifact's or a drawn tier is decided again as a pin
and so passes the same admission, a binding that is not eligible is overridden, and a
deployment whose model is not eligible is passed over (`ServableIsAdmitted`). For `AdvertisedAlways` the capabilities of all tiers, of a model and of any
tier are a minimum and a maximum over the models, and a request within the minimum is
admitted on each; one beyond the maximum on none. The protocols' tables are finite and
are expanded.

`CompleteAlways` is about streams of any length, cut into chunks anywhere. Its hypothesis
`PlainUpstream` is the form of stream that the providers' protocols describe: one data line
and an empty line per event, line feeds for line ends, the end marker last and within the
tail. Streams with CRLF are outside it (section 4 says what becomes of them); those of the
run are inside, which MC_RequestPath asserts (`UpstreamIsPlain`). The inductive invariant is
`StreamInv`. It compares what has been read with `Whole`, the stream with the
router's decision put in where it ends: what is held back is the last that arrived, and
more has been passed on only if the end of the stream is not in it (`HeldBack`); the buffer
is the stretch of `Whole` after the p tokens that were translated (`Buffered`); the client
has been told the deltas of those p tokens, in order, and that the stream is complete
exactly if they reach its end marker (`TranslatedTo`); and a client of Anthropic's protocol
has had each block opened before its deltas and closed after them (`Framed`). The deltas of
a stretch are `Kept`, a count, so no induction over the stream is needed: each step
adds one event.

Of ScopeFence it proves, for any requests, tasks, sessions, deletion handlers,
capacity and bounds, on either backend, from `ConstantsAssumption` alone:

* `TypeCorrect`: `Spec => []TypeOK`;
* `NoResurrection`: `Spec => []NoBindingResurrected`;
* `Removal`: `Spec => []DeletionRemoves`;
* `CrossedStores`: `Spec => CrossedStoresNothing`;
* `FirstSuccess`: `Spec => FirstSuccessWins`.

That a crossed request writes nothing hangs on its generations being behind the
scope's own when it gets to write, and they are compared then, not when the deletion
happens. `IInv` therefore says that generations only grow and that `crossed` implies
a generation read before the last deletion (`CrossedIsBehind`); that a binding names
a request of its task (`BindingsAttributed`), so that removing a task's bindings
removes all of a crossed request's; that a request which stored its record stores no
other (`RecordsFinal`); and that what a deletion is to erase is older than the
generation it erases by (`DoomedIsOlder`). Restarts of the memory backend put the
generations back to 0, those of the replayed records with them, so that every deletion
after a restart still reaches them: `Removal` has no condition on restarts. `Known`
leaves out the requests that ended with the process.
The two action properties follow from `IInv` by the same cases over `Next`.

Of RecordStore it proves, for any records, handlers, capacities, length of queue and file,
from `StoreAssumption`:

* `StoreTypeCorrect`: `StoreSpec => []StoreTypeOK`;
* `ErasedForGood`: `StoreSpec => []ErasedIsNowhere`;
* `VectorsStay`: `StoreSpec => []VectorsOutliveRecords`;
* `ExpiredForGood`: `StoreSpec => ExpiredNeverReturns`;
* `WaitersAttended`: `StoreSpec => []WaitingIsQueued`.

A record can be in the deque, on its way to the queue, in a command of the queue, in a
snapshot that a caller is about to send, in the file and in the rotated copy.
`StoreInv` follows a deleted one through them: as soon as the lock was held to delete it,
and unless it was overtaken, it can come neither from the deque nor from a snapshot
(`Fades`, `Fading`); behind the caller's rewrite in the queue no command has it
(`Rewritten`); once the rewrite succeeded it is nowhere (`Erasure`). A tombstone is laid
only for such a record, or for one that expired and was pruned (`Burial`, `Spent`), which
no replay brings back. `Attended` matches the callers that wait with the rewrites that name
them, one for one; that is `WaitersAttended`, and why an answer reaches the call it is of.

### The other modules

`TierExecutionProofs` proves, for any requests, deployments, candidate sets, retry
and cooldown policy, with shared circuits or without, from `ConstantsAssumption`
alone:

* `TypeCorrect`: `Spec => []TypeOK`;
* `InFlight`: `Spec => []InFlightExact`;
* `ProbeHeld`: `Spec => []ProbeFlagHasLease`;
* `LoneRoutable`: `Spec => []LoneDeploymentStaysRoutable`.

The first three need that the leases out on a deployment are finitely many (each
step adds or removes one) and that a lease is on a candidate of its request. The last
is about an exhausted request, many steps after the failure that would have been
at fault: `IInv` carries it from there, as `OpenedIsOpenable` (a deployment with a
cooldown is one of several in some candidate set, by the `tier_size` test in
`cooldown_directive`), then as what a snapshot can show of such a deployment, then as
what exhaustion implies (`Shaped`). `NoLeaseMoves` and `LeaseEnds` are the two ways in
which a step of a request changes the leases; every action but `Select` and `Tick`
is an instance of one of them.

`AdministrationProofs` takes together what administrators change while requests are
served; ControlPlane has names of its own for its steps and its specification
(`ControlNext`, `ControlSpec`), so that one module can extend it and Management. Of
ControlPlane it proves, for any catalogs, routes, feed documents, failure policy
and bounds, from `ControlAssumption`:

* `SnapshotsAlwaysServiceable`: `ControlSpec => []SnapshotsServiceable`.

Nobody holds a lock over a load or a poll, so what is published was checked several steps
earlier, on files and a snapshot that may have been replaced since. `IInv` carries the
checks along: a sound manifest names a pair the operator signed (`ManifestKnown`), what a
loader holds after its checks is such a pair and valid, and before it publishes its
deployments are registered (`LoadedChecked`); what the poller is about to publish
was validated with the route it took, whose deployments are registered because that route
served (`PolledChecked`). The set of registered deployments and that of signed pairs only
grow, except at a restart, which forgets all snapshots with them.

Of Management it proves, for any keys, documents, calls, queue capacity and artifacts,
from `AuthAssumption` (`sound` is a boolean, no call has the reloader's name):

* `ActsAreAudited`: `Spec => []ActedIsAudited`;
* `TrailTellsActive`: `Spec => []AuditTellsActive`.

Between the verdict and the act lie a queue, another task and a disk. `QueuedVerdicts`
says that a line in the queue bears the verdict of the call that queued it and
that this call is not judged again, also when it hung up meanwhile: so the line the
writer reports on is the one that allowed the call. `AuditTellsActive` is inductive with
the types of the controller's state: `AppendTold` is the one way in which an action
writes to the trail.

`TenantQuotaProofs` proves, for any calls, tenants, limits, lease and window, from
`ConstantsAssumption`:

* `TokensApart`: `Spec => []TokensToldApart`;
* `Recovers`: `Spec => []QuotaRecovers`;
* `Promised`: `Spec => KeepsPromise`, the refinement of QuotaPromise.

For the first, `IInv` says that a token borne by a call or a key is at most its tenant's
ticket (`DrawnInOrder`) until a sequence can have expired, and that no sequence is kept for
less than twice the longer of lease and window (`SequenceKept`), which is when that is.
`Recovers` rests on `Ledgers`: no key of a map is dated later than the calls of its tenant
(`Dated`), so that after a window all of them are stale; a held call's charge is there,
and Redis keeps its keys long enough for it, and not for ever (`Held`), which bounds the
case of a token borne twice; and while tokens are unique the counters are the
sizes and sums of their maps (`Tallied`). For `Promised` that is not enough: QuotaPromise
decides from the calls, the ledger from maps keyed by tokens, so that both count the same
only if keys and calls are in bijection. `Booked` says so with a book of the tokens that
calls bore (a call forgets its own when it ends): every key is that of one call with the
same date and amount, and every call that still counts has its keys. `Init` of the ledger
implies that of the promise, and each action is a step of the promise or a stutter; a
refusal is one because the two counts are equal, in both directions.

`ScopedQuotaProofs` proves, for any gateways, counters, finite plans, limits, windows and
amounts, on either repository, from `ConstantsAssumption`:

* `ReadIsCharged`: `Spec => []UsedIsCharged`;
* `GrantedExactly`: `Spec => GrantsExactly`;
* `TotalsTyped`: `Spec => []TypeOK`, in which no running total is below zero.

The ledger reads the size of a map, or a total that was added to and subtracted from by
reservations, settlements and pruning; what was charged is summed over attempts. `IInv`
joins them in each key: the total is the sum of the entries (`Tallies`), and the entries
that are not stale and the attempts that count there are one for one, with the same amount
and end (`Mirrors`). That an attempt finds its own entry, and no other's, when it settles
late or releases, needs tokens to differ among all attempts that may still write
(`Bears`), also those whose window is over; a step that breaks this sets `collided`. That
Redis drops no entry that counts is `KeysKept`: a key lives two windows from the last
reservation in it, and a day's key that long after the day began, past which no attempt is
charged to it (`DroppedCountsNothing`). `GrantsExactly` follows step by step: a planned
attempt is charged only by its own grant and refused only by its own refusal
(`PlannedSteps`), and what these compare with the limits is what was charged
(`FitsIsRoom`). The proof showed that `GrantsExactly` needs its condition on the day: an
attempt that is reserved more than a day after it was planned asks for a key that Redis has
dropped; the run's clock is too short for that. `TotalsTyped` holds without unique
tokens: a shared one overwrites an entry while the total grows, so the total is never less
than the sum (`Covers`).

`BudgetProofs` proves, for any calls, keys, bodies, limits, costs and attempts, on either
repository, from `ConstantsAssumption` (no call is billed more than its share of the
estimate):

* `Typed`: `Spec => []TypeOK`;
* `Balanced`: `Spec => []LedgerBalanced`;
* `NeverOverCharged`: `Spec => []HardBudget`;
* `StaysCharged`: `Spec => []LoneIsCharged`, what is left of `ChargedUntilSettled`.

The types are part of the question: memory saturates at zero and Redis subtracts, and only
because the total is the sum of its entries does the latter never fall below zero.
`HardBudget` needs that a settlement replaces an entry of at least its size: an entry
is that of a granted call (`Backed`), and a call that shares its request id with none finds
what it reserved (`LoneCharged`), since nobody else settles or releases under that id.
`Identified` and `FewGranted` (finitely many calls are granted, so the holders of an id
can be counted) carry "shares with none" from step to step: it can end, and never begins.

`GatewayCallProofs` proves, for any route, fallbacks, deployments, decisions, failures,
retries and depth, from `ConstantsAssumption` and `RouteAssumption`:

* `SpendKept`: `Spec => []SpendIsKept`;
* `NeverSubstituted`: `Spec => []NoSubstitution`;
* `RecordsTell`: `Spec => []RecordTellsServed`;
* `SendsWithinEstimate`: `Spec => []WithinEstimate`, if `PlanSuffices(MaxFallbackDepth)`;
* `Typing`: `Spec => []TypeOK`.

The first three follow from `Sound`. What is released, recorded and bound at the end of a call
depends on lists that were filled many awaits before, so `Sound` says at each phase what is
held (`Reserved`), that nothing was sent before the walk (`StartsClean`), that a lease is of
a candidate and the last thing sent is of that lease (`LeaseFits`), by how much the
list of attempts may be shorter than what was sent (`Listed`), that attempts fail up to
the one that is answered, on the tier the decision was moved to (`LastSucceeds`), and
that record and binding are written last (`WrittenLast`). `WithinEstimate` compares a bound
fixed before the walk with the walk: `Measured` adds that the estimate is that of the
decision as long as the rules' reason stands (`Priced`), that a tier is gone through in one
piece (`Contiguous`), that the walk stays in the plan (`StaysInPlan`), and that sends are
counted by tiers visited and retries (`Counted`). That the plan has every fallback of its
tiers is `PlanSuffices`, a fact about a recursive function with a fold in it, which needs
induction over data; it is the theorem's hypothesis, and TLC evaluates it for every acyclic
route of four tiers (`PlansSuffice` in MC_GatewayCall).

### Only model-checked

* `FallbacksEnd` of Service: `VisitFallback` is a recursive walk over a graph. That it
  marks what can be reached is an induction over the walk; the run takes every graph of
  three tiers.
* `PlanSuffices`, the hypothesis of `SendsWithinEstimate`, for the same reason.
* The liveness properties `TrippedRecovers`, `CallEnds`, `ReloadWins`, `KeyringTakesHold`,
  `Settles`: they rest on fairness and `ENABLED`, which the proof system does not treat.

## 6. What is not modelled, and why

Not to be modelled: the client library, embedded use and the bindings for Python (one call
each, no state between calls); evaluation and inference libraries (numeric, offline);
the tools (catalog synchronisation, laboratory, drivers), which are no part of the
serving system; read-only handlers of the management API.

Left out within the modules: weights, latency and usage observations, which only
choose among available deployments; which binding memory evicts (any); u64
saturation of amounts; the wording of errors; backoff delays and jitter; prices and
money arithmetic (an estimate is the tiers, models and attempts it was made for); the
parsing of catalog documents; texts, which are topics and severities in Routing; the
cryptography of signatures (good, bad or absent); the sources of a credential (it
resolves or not). The bytes of a line in a record file are one whole; in Feedback a torn
last line is modelled.

Composition: GatewayCall leaves the ledgers' answers open and RequestPath leaves out
capacity and fallbacks, so the parts are checked under more behaviours than the
composed system has. What no run sees is a property that needs two of these at once, for
instance a quota's settlement by a stream that RequestPath would have cut.

## 7. Plan

1. Abstract specifications and refinement in the manner of QuotaPromise: a ledger of
   holders for ScopedQuota (until `collided`) and Budget (under `Alone`), a probe lock for
   SharedCircuit, a set of records with atomic deletion for RecordStore outside `overtaken`,
   for which `StoreInv` has what the mapping needs.
2. Two concurrent calls in GatewayCall that share a binding and a tenant's quota.
3. The management API's read-only handlers, where they prune what they read.

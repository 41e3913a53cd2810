# A verification project for AgentIoT

TLA+ models of the AgentIoT server, TLC runs that check them on small instances,
and TLAPS proofs of the properties that matter most. Source paths are relative to
the repository (`src/agentiot/app.py` unless another file is named); line numbers
of every modelled definition are in `PROJECT.json`, under `map`.

1. [The system](#1-the-system) - components, state, operations, hard behaviours
2. [The modules](#2-the-modules) - what each models and how it corresponds to the code
3. [The runs](#3-the-runs) - what each shows, bounds, fairness
4. [The proofs](#4-the-proofs)
5. [Findings](#5-findings)
6. [What is not modelled](#6-what-is-not-modelled)
7. [Plan](#7-plan)

## 1. The system

AgentIoT is an edge gateway for device telemetry. One Python module holds a
FastAPI application (`create_app`), a SQLite-backed store (`CoreStore`) and the
routes; some helper modules hold pure code (protocol envelopes, firmware rules,
probes). Several server processes, each with a thread pool, may share one database
file. What makes the system hard is where state lives:

* **SQLite is the only shared memory.** `with self.connect()` is one connection and
  one transaction. Some operations start it with `BEGIN IMMEDIATE` and so read and
  write atomically; others read first (outside of any write transaction) and write
  later, or use several connections one after the other. Between two connections
  any other thread or process may write, and a crash may fall there.
* **The write lock makes callers wait** up to the busy timeout of five seconds.
  A clock that was read before the wait is old when the transaction runs.
* **Everything is bounded**: telemetry, alerts, proposals, candidates, audit rows
  and limiter buckets have ceilings, enforced by evictions that run inside the
  transactions of other operations.
* **People approve things they have read earlier**: alerts, recovery proposals,
  network candidates, hardware evidence, assistant tool proposals.

### Components

| Component | State | Operations | Correct when | Module |
|---|---|---|---|---|
| Edge data store | tables devices, telemetry, alerts, proposals | ingest, approve, resolve, demo reset, retention at startup and each hour | one actionable alert per series; proposals never lose their alert; decisions recorded once; ceilings hold and never block an anomaly because of mere history | `EdgeStore`, `RecoveryGate` |
| Network scan lease | lease row, cooldown slots, in-process lock | claim, probe, release | probes exclude each other; scanning is not locked out for good | `ScanLease` |
| Network candidates | candidate rows, observation sequence, inventory | upsert, expire, evict, approve, discovery reset | an approval is of exactly the evidence reviewed, happens once, overwrites no foreign device | `DiscoveryQueue` |
| Hardware evidence | candidate rows, inventory | queue, approve (a saga over eight transactions) | approved means completely registered; no failed attempt takes an approval back | `HardwareApproval` |
| Audit trail | audit rows in three classes | locked and unlocked writers, retention, paged reader | classes keep their budgets, do not evict one another; a reader misses nothing that stayed | `AuditLog` |
| Local identities | accounts; sessions are signed and not stored | bootstrap, login, create, change, reset, delete, logout, own password | a change revokes sessions for good; an administrator remains; the bootstrap secret retires | `LocalIdentity` |
| Failure limiter | buckets of failure times | password attempt, token failure, prune | no more guesses per window than the limit allows; table bounded; a lockout ends | `AuthLimiter` |
| Assistant tool proposals | proposal rows, audit rows, findings | prepare, approve (recovery or service review), forget with the session | a recovery is approved once whatever route is taken; an approval is backed by an approved target and by records | `ToolProposals` |
| HTTP service health checks | failure counts, settings, reviews | check (loop, operator), escalate, approve | a persistent failure gets a review and a recovery settles, whatever checks overlap | `ServiceHealth` |
| Agentic control | one JSON document, agent runs | guard cycle, note, control action, agent task, mission | the document is never torn, a mission only reviews and runs every agent once | `AgenticControl` |
| MQTT broker adapter | client, flags, counters | start, stop, callbacks of the library | the published status is that of the session | `MqttAdapter` |
| Body limit middleware | buffered body | check, buffer, replay | a body arrives whole and bounded or not at all | `BodyLimit` |
| Off-host receipts | ledger file under a lock, cache of digests | readiness probe | observations are consumed in order, no cached digest vouches for a rewritten backup | `OffhostReceipts` |
| Prompt contracts and artifacts | rows and their versions | update, roll back | what is in force is in the history; a rollback restores its target | `PromptVersions` |
| Provider gate | policy, credentials, connectivity checks, usage rows | policy change, test, chat | an open gate was opened by a completed test; a chat is accounted for once | `ProviderGate` |
| Assistant memory | interactions, ratings, policy | chat, rating, sweep | a sweep takes the oldest sessions, leaves no orphans | `AssistantMemory` |
| Agent health checks | receipts, cached receipt | check, restart, settings | a fresh receipt describes the settings in force | `AgentHealth` |
| Roles and assignments | policies, assignments | edit, authorize | what is granted was assigned and permitted | `AccessControl` |
| Go-live reports | decisions, controls, feedback, restore tests | update, verify, brief | the brief asks about what is open; a ready backup rests on the last test | `GoLive` |
| Network probes | tasks of one scan | admit, probe, cancel, record | no probe outlives its scan; the receipts tell its outcome | `NetworkScan` |
| Release mission, continuous QA | ledgers of suites, findings, runs | suite, challenge, autopilot, lanes, mission | a release that counts as completed rests on rows nothing newer contradicts | `ReleaseMission` |
| Inventory and its views | assets, devices, profiles, evidence | register, patch, commission, simulate, reset, CMDB, drift, compatibility | rows name registered ones unless a reset overtook the writer; views show the tables | `Inventory` |
| Assistant text, USB probes, host metrics, page, packaging | | | out of scope (section 6) | - |

### How they interact

Ingestion (HTTP, MQTT, the thermal collector) writes telemetry and, for an
anomalous sample, an alert with its recovery proposal in the same transaction. A
person approves the proposal through its own route or through an assistant tool
proposal that names the route (`ToolProposals` has both). Scans hold the lease
(`ScanLease`) while they probe, then upsert candidates (`DiscoveryQueue`); an
approval there writes the same `devices` table that the ordinary routes and
hardware approval write. Every operation appends audit rows (`AuditLog`), which
rotate. Every route first authenticates: `AuthLimiter` guards the comparison of
passwords, `LocalIdentity` decides whether a session still stands and `AccessControl`
what it may do; a write's body passes `BodyLimit` before. `NetworkScan` is what happens
while `ScanLease` is held, and what it saw is what `DiscoveryQueue` queues. Commissioning
and approved hardware (`HardwareApproval`) write the tables of `Inventory`. A failing
service escalates (`ServiceHealth`) into the reviews of `ToolProposals`. The reports
(`GoLive`, `ReleaseMission`) read rows and audit evidence that the other components write.

## 2. The modules

Common conventions. A worker (thread, process, operator request) is in one of a
few named steps, kept in a function such as `req`, `scan`, `op` or `request`; an
action is one transaction, or one statement where the code commits one statement.
What a thread read before its transaction is stored in its step and may be stale.
A row is a record, a table a function with a value that stands for "no row".
Identifiers, names and evidence are model values. A transaction that raises leaves
no trace and is not an action unless something of it outlives the rollback. The
small definitions named `<Definition>_<slip>` beside some actions are variants with
a plausible programming slip; nothing uses them, they serve to test that a
property can fail when the code goes wrong.

### EdgeStore and RecoveryGate
`CoreStore.add_telemetry` is two steps of a worker: the lookup of the device on a
connection of its own (`BeginIngest`), then one `BEGIN IMMEDIATE` transaction
(`IngestDuplicate`, `IngestCommit`, `IngestRefused`) with the duplicate check of source sample ids, the per-device and global
row quotas, anomaly capacity (rotation of alert and proposal history) and the anomaly
rule that refreshes an open alert or inserts alert and proposal. `approve_proposal`
is one conditional transaction (`ApproveProposal`); `resolve_alert` looks up,
updates and audits on three connections (`BeginResolve`, `ResolveAlert`, `AuditResolve`), with anything
in between; `reset_demo_data` and the retention pass (at startup, then hourly) are one
step each. `Crash` ends a worker between two of its steps. A row's id is the telemetry id that caused it, as in the code, where
alerts and proposals are named after it. `RecoveryGate` is the abstract promise: a
recovery proposal waits until a person decides it, is decided once, is forgotten
only after that, and no id returns. `EdgeStore` implements it under
a mapping that reads a proposal's life off its table row and the id counter (`GateSpec`).

### ScanLease
`run_network_discovery_scan`: the asyncio lock of a process, the SQLite lease with its
expiry, the operator's cooldown, the probe, and a release that only deletes the
process's own lease and may fail (`Claim`, `AttemptGranted`, `AttemptRefused`, `EndProbe`, `Release`). Times are the ticks left, so no clock bound is
needed. `Abandon` is a crash, or a release that fails.
Assumption `HoldMax < LeaseTime`: the probe has a timeout of its own which, with the
waits for the lock before and after it, is shorter than the lease.

### DiscoveryQueue
The upsert of a scan assigns revisions from the counter, resets a changed
candidate to `queued`, then runs the expiry and the bounded cleanup in the same transaction
(`Queue`). A person holds a candidate on screen (`ReadCandidate`) and approves it later. Approval checks status, revision, expiry, fingerprint and the ownership of device and
asset and writes the inventory in one transaction (`Approve`). Other routes create and
move devices meanwhile. The demo reset empties the inventory under the candidates and is refused in production; an
instance of either mode is an initial state (`production`). The evidence of a host (ports, hints, fingerprint) is one value.

### HardwareApproval
`create_hardware_discovery_candidate` and `approve_hardware_discovery_candidate`
as a saga: claim, five writes of the inventory in transactions of their own and an
audit row, completion; each may fail, which leads to the undo, and the thread may die
anywhere. `written` is the set of parts in the inventory (a demo reset empties it, in an instance where `production` is false), `registered` the audited registrations,
`reposted` and `lost` record that evidence was posted again during an approval or
that its thread died, the two events after which the code promises less.

### AuditLog
Three classes with budgets cut to the global cap (`Budget`), writers that count and
insert under the lock (`InsertLocked`), `add_audit_event`, which counts before its transaction
starts (`CountRows` then `InsertCounted`), retention in batches over the rows a cutoff selects, and a client that pages with
the id of the last row it received.

### LocalIdentity
Accounts carry identity id, credential revision, role, enabled flag and whether the
password has to be changed. A session is the signed copy of identity, revision and role; `Valid` is the check of each
request. Administration is one transaction per operation, with the guards about the last
enabled administrator (`LastAdmin`). A logout or change of
one's own password checks the session and writes in a later transaction (`BeginRequest`, then
`Logout` or `ChangePassword`), and the account may have been replaced in between. The password a session was
proved with is a history field that only properties read.

### AuthLimiter
A request reads the clock (`Arrive`), waits for the lock at most `LockWait`, and runs
its transaction (`Run`): refuse a locked subject (`RefuseLogin`), otherwise compare and record, or clear on
success (`CompareLogin`); a token failure only records (`RecordToken`); a request that waited too long gets the lock error (`GiveUp`). `Prune` is the pruning after an accepted token.
Times are ages that saturate at `Old`, beyond which nothing tells them apart. A bucket's failures are a function from slots to
ages, because no step depends on their order.

### ToolProposals
Preparing a proposal and approving a service health review read the proposal, audit, record a
finding and upsert the row in four transactions (`BeginPrepare`, `BeginServiceApproval`,
`AddAudit`, `AddFinding`, `Upsert`); approving a recovery proposal reads its
endpoint first and then does everything in one transaction (`BeginBridge`,
`CommitBridge`). The direct route (`ApproveRecovery`), retention of recovery proposals (`Retire`) and the deletion of
a chat session with its proposals (`Forget`) interleave; `Abort` is an exception or a crash between two transactions.

### ServiceHealth
`run_http_service_checks` reads all counts once (`Begin`), probes the services in the order of
their contracts and stores each result with the count it read plus one (`Probe`, `Store`); the
loop and the auto-heal route then escalate (`Prepare`). `Fault` is an exception or a restart.
`review` is the proposal of fixed id behind each service, which a person approves and another
proposal may occupy.

### AgenticControl
A request is the list of work it still has to do: a task puts its control action in front of
its own record, a mission the tasks of its agents, as the calls of the code nest. Load and save
of the document are steps of their own.

### MqttAdapter, BodyLimit
Both run in the event loop. `MqttAdapter` has start and stop, which await the client library, and
the callbacks that run at those awaits and later. `BodyLimit` has the client's chunks (numbers of bytes, received cumulatively), the middleware's
buffering (`CheckLength`, `Buffer`, `BufferEnd`, `BufferDisconnect`) and the replay to the application.

### OffhostReceipts, PromptVersions, ProviderGate, AssistantMemory, AgentHealth, AccessControl
Each splits its operation at its transactions and lets administrators write in between:
the readiness probe (`Check`: receipt, observation, digest or cache, ledger under the lock); update and
rollback of an instruction (`Update`/`Rollback`, `Write`, `Audit`, `Number`, `Append_`; a contract's
version holds what is read again, an artifact's what was written); a chat (`Route`, `Decide`, `Called`,
`Finish`) beside a test (`BeginTest`, `TestCalled`, `TestRecorded`); recording an interaction and
sweeping (`AddInteraction`, `ReadPolicy`, `Sweep`); the health check of agents (`Start`, `ReadSettings`,
`Probe`, `ReadAgents`, `Complete` or `Fail`); a request's two reads (`ReadAssignment`, `ReadPolicy`).

### GoLive
`production_owner_decision_brief` as the sequence of its reads (`BeginBrief` to `Answer`),
beside updates, feedback, the restore test (`CopyDatabase`, `RecordTest`), rotation of the
audit trail and changes of the deployment. The verdicts of the hardening, preflight and approval
reports are operators over the state. `report.settled` holds the items that were open, or
closed, all the time the brief was made.

### NetworkScan
The checks of the range (`ScopeError`; a range is its checks and its number of addresses), a task per host and port behind the semaphore (`Enter`,
`Connect`, `ConnectError`), the total timeout, an unexpected socket error and a cancelled request, after
each of which the tasks are cancelled and awaited (`Drain`), then the store and the receipts.

### ReleaseMission
The four parts of `run_release_mission`, each leaving rows in transactions of its own, run by
missions or alone; a restart changes the version or ends a run. A finding's id and lane stand for its text (`FindingOf`). The status a release has
(`MissionStatus`, `QaReportReady`) is computed from the newest rows of each ledger.

### Inventory
A check of a reference and the write it guards are two steps (`BeginDevice`, `WriteDevice`, ...);
a commissioning run or simulation is a sequence of them (`BeginRun`, `CheckRun`, `WriteDevice`, `WriteProfile`,
`AddEvidence`, `AddSample`) and may end anywhere. A reader of the CMDB reads table by table and builds its answer
with `Items`, `Readiness` and `Contains`. `overtaken` and `crossed` are history: the writers whose check
a reset has made void, and the dangling rows they left.

## 3. The runs

Each run uses an `MC` module, which adds instances and symmetry sets only; the
`.cfg` gives the constants their values. A deadlock is an error except where the
`.cfg` says why the system may stop.

| Run | Asks | Shows |
|---|---|---|
| EdgeAlerts | two devices and two workers at alert ceilings and quotas of two, with repeated samples, resets and crashes: do the alert and proposal tables agree, and are samples stored once? | `TablesAgree` (`OneOpenAlertPerDevice`, `OpenAlertIsActionable`, `ProposalHasAlert`, `ApprovedExactlyOnce`, `ResolutionStands`), `TelemetrySound` (`TelemetryWithinQuota`, `SampleStoredOnce`) |
| EdgeRetention | a production instance with full history while time passes: do rotation and retention do what the gate promises? | `CeilingsHold` (`HistoryNeverBlocks`, `AnomaliesWithinCeilings`), `WaitingWorkIsKept`, refinement `GateSpec` |
| Discovery | three hosts for a queue of two, two devices other routes write too | `RevisionNamesEvidence`, `ApprovedMeansInventoried`, `ForeignDevicesUntouched`, `NewEvidenceNeedsReview`, and in `TypeOK` the queue bound and one approval per observation |
| Audit | two unlocked writers, locked writers, retention, a paging client | `ClassesWithinBudget`, `ReceiptsKept`, `PagesComplete` |
| LocalIdentity | two names through bootstrap, administration, deletion and reuse, one self-service request in flight | `ProvenByCurrentPassword`, `AdminNeverLost`, `SessionsStayRevoked` (`ChangesRevoke`, `RevokedForGood`), `MountedPasswordRetires` |
| ToolProposals | one proposal id, two recovery proposals, three operators, one session | `RecoveryApprovedOnce`, `ApprovalsAreBacked` |
| Operations | everything that must end: the scan lease, hardware approvals, lockouts, service checks | `OneProbe` and the liveness properties `ScanNotLockedOut`, `ClaimsAreResolved`, `LockoutEnds`, `ChecksConverge` (`PersistentFailureEscalates`, `RecoverySettles`) |
| Platform | fifteen components, each by itself, under every interleaving of its requests, with crashes and restarts where the code meets them | one property per component, and `TypesOK` for all of them |
| AuthPrune | does pruning keep every failure that still counts, as its docstring says? | it does not: finding 1 |
| ToolApprovalOnce | is an approval of a service review recorded once, as its docstring says? | it is not: finding 2 |
| ProviderCheck | is what a chat calls always tested, as the changelog says? | it is not: finding 3 |
| OutageReview | does every persistent outage get a review that waits for a person, as the changelog says? | it does not: finding 4 |

The properties of **Platform**, one per component:

| Property | Promise |
|---|---|
| `PromptsSound` | the instruction in force is in its history or its writer is about to append it; an artifact's rollback restores its target; versions keep number and content |
| `ControlConsistent` | the checkpoint is that of the last guard cycle; missions run nothing but their tasks, each agent once and in order |
| `BrokerStatusTrue` | the subscriber is shown connected just while its session has all filters; an old error does not outlive its session |
| `BodyWholeAndBounded` | the application of a write gets the whole body once, within the limit, or is not called |
| `OffhostSound` | observations are consumed in their order across threads and restarts; no cached digest vouches for a rewritten file |
| `GateSound` | a gate found open was opened by a completed test of that provider and model; one usage row per chat |
| `SweepSound` | a sweep removes no session before an older one, spares what it protects, fits the budget and leaves no orphans |
| `QuietReceiptTrue` | a fresh receipt of an undisturbed check describes the settings in force |
| `GrantedByBoth` | what a request was granted was assigned and permitted while it ran |
| `LimiterSound` | no more guesses in a window than the limit, plus those the wait for the lock lets through; the table stays bounded |
| `ApprovalSound` | approved evidence is registered completely, by one registrar, and nothing takes it back |
| `GoLiveSound` | a brief asks about every item open all the while and none closed all the while; a ready backup rests on the last restore test; a ready preflight leaves none of its controls open |
| `ScanSound` | probes stay in the admitted range and end with their scan; the receipts tell its outcome |
| `ReleaseSound` | a release counted as completed is of this version, its newest suites passed, its lanes were recorded by itself, and the two reports agree |
| `InventorySound` | rows name registered ones unless a reset overtook their writer; the CMDB shows undisturbed devices as they are; it and the drift report name the same firmware; a compatible verdict needs all its conditions |

**Why instances may share a run.** In `Platform` and `MCOperations` a variable `active` names the
component a behaviour is about. It never changes, every disjunct of the next-state relation requires it, and the
properties are implications from it; in `Platform` the variables of all components take the
same places `v1`, `v2`, ... because only one of them is active. `Platform` holds all fifteen components with their constants, for TLC and for
the proofs alike; `MCPlatform` only gives them values and the symmetry sets. The reachable states are the disjoint union
of those of the components, so each is checked exactly as it would be alone. It is no composition:
the components of these runs are independent in the model.

### Bounds and why they are enough

* **Rows and ids.** Each table is at its ceiling with two or three rows, and ids go
  one or two beyond: every run fills its tables, evicts, and inserts after an
  eviction. `MaxId` (EdgeStore), `MaxRevision` (DiscoveryQueue), `IdMax` (AuditLog,
  LocalIdentity), `RevMax`, `SessionMax`, `RegistrationMax` and `AuditMax` bound
  counters that the program never resets; they guard the action that would increase them.
* **Time.** ScanLease and AuthLimiter count what is left, or the age, of a time stamp and
  need no clock bound. EdgeStore and DiscoveryQueue have a clock that advances by `MaxClock`
  and ages of zero or one tick, so rows expire while others are fresh.
* **Actors.** The races in question are between two requests; three processes (scan lease),
  three threads (hardware evidence) and three operators (ToolProposals) are there to have one
  interfere with the conflict of the other two.
* **Kinds of sample.** EdgeAlerts has all kinds, no time and two telemetry rows in all, where a device may take both;
  EdgeRetention has critical samples only, without source sample ids, and time: each reaches its ceilings with few rows.
* **The instances of Platform** have the one or two requests that can race and the two or three
  versions, policies or settings that can differ; the comments in `MCPlatform` say which. PromptVersions has three editors, because
  the one race that drops a version takes three, and `VersionMax` is three. `VersionMax`,
  `CycleMax`, `MissionMax`, `MessageMax`, `WorkMax`, `ChangeMax`, `StampMax`, `ChunkCount` and
  `ProposalMax` bound counters that the program never resets. `MaxWrites` bounds how many writes may overtake one reader of
  the CMDB: with one the table-by-table read is already torn at every place.
* **Limits of the limiter.** The program's limits and windows (5 failures in 300 s, 20 in 60 s) become
  a limit of one or two and windows of one and three ticks, longer than the longest wait for a lock.

### Fairness

Only four specifications have any: those in the run Operations. ScanLease and AuthLimiter: time passes, and a
thread that runs reaches the end of its request, as the code justifies: each
wait in it is bounded by the busy timeout or by the probe's own timeout, after which it goes on
or raises. In ScanLease a crash or a failed release is
always possible and never required; the lease then ends by its expiry. HardwareApproval: a thread that has
started an operation goes on to its end, but may also crash. ServiceHealth: the loop wakes up again and
again (`service_operations_loop` sleeps and repeats, and catches what a cycle raises), and a check that
runs goes on, because each probe has a timeout. No fairness is assumed of people:
nobody has to log in, approve or post anything, and in ServiceHealth no service has to fail or recover. Each
action's fairness is stated for the behaviours in which its component is active.

`ScanNotLockedOut` says the lease is free again and again; it does not say that a
given process obtains it. `LockoutEnds` says that a locked subject is at some
time not locked, although refused attempts continue: they are not recorded.
`ClaimsAreResolved` says a claim ends as approved or back in the queue unless its thread died, in
which case posting the evidence again is what requeues it.
`ChecksConverge` assumes a service that stays down, or up, with automatic checks enabled, and
then promises a review (unless the id of that of an earlier service is taken, which ends the escalation)
or a settled healthy status, although overlapping checks overwrite each other's counts.

## 4. The proofs

Each proof module extends the module it is about. The proofs hold for any sets of devices,
workers, users and so on, any ceilings and any lengths of time that meet the `ASSUME`s of the
module (AuditLog needs finitely many workers, LocalIdentity finitely many users).
`PROJECT.json` lists the theorems a reader should know of; what follows is the argument of each.

* **EdgeStore_proofs.** `TypeCorrect` first; then the inductive invariant `IInv`
  = the agreement of the tables (`RowsAgree`), freshness (no row has an id above the
  counter, so a new sample cannot collide with an old row), and what
  in-flight requests know (`req[w].op = "audit"` only of an alert that is not open). It is needed because none
  of `OneOpenAlertPerDevice`, `OpenAlertIsActionable` and `ProposalHasAlert` is inductive alone:
  rotation frees an alert only when no proposal refers to it, and that its
  proposals are decided follows from the other two. One lemma per operation shows it is
  preserved. `TablesAlwaysAgree` collects its results.
  `WaitingWorkStays`: no step but a reset removes an open alert or a pending proposal (`StepEffect` says for each operation
  which rows it can remove). `GateImplemented` is the refinement of `RecoveryGate` (`GateSpec`): `GateStep` maps an insertion to a
  new proposal, an approval to a decision, rotation, retention and reset to the gate's forgetting, all else to a stutter.
  `CeilingsAlwaysHold` is inductive over the sizes of the tables; that rotation always finds a row to
  remove is the counting argument `SomeUnreferenced`: fewer proposals than alerts, so an alert that nothing refers to.
  It needs `ActiveMax <= ProposalMax <= AlertMax`, the order the settings have in the code. `TelemetryAlwaysSound`: row quotas, and a
  retried sample id is stored once, because the transaction checks it under the write lock.
* **ScanLease_proofs.** `ProbesExclude`, from `Covered`: whoever may still probe owns the
  lease row, and the lease outlasts its hold. Rests on `TimingAssumption` (`HoldMax < LeaseTime`).
* **AuditLog_proofs.** `BudgetsAlwaysFit` (for every configured ceiling the three
  budgets fit the cap and are positive), the inductive `TypeOK` with finiteness of the rows, and
  `ReceiptsStand`: no event removes a row of another class that is within its budget.
  `PagesAreComplete` needs `PageInv` (what was there from the start and still is, and lies before the cursor, has been received) and
  `IdsDiffer` (no two rows share an id). `OvershootIsBounded`: the property bounds each class by its budget plus the
  unlocked writers; `Overshoot` adds what a writer counted earlier, so that the rows of a class and the writers about to insert on a low
  count together stay within that bound.
* **DiscoveryQueue_proofs.** One invariant: the types, `RevisionsUsed` (no candidate or review has a revision above the counter, and a
  revision has one content), `QueuedIsUndecided`, and `Linked` (in production the device that a candidate names exists and carries its address). `QueueShape` describes the
  scan's upsert, with expiry and cleanup, as what it does to one candidate. From it follow `QueueWellTyped`, `RevisionsName`, `ApprovalsAreInventoried` and the two
  action properties `ApprovalsStayHome` and `NewEvidenceIsReviewed`.
* **LocalIdentity_proofs.** `Bound` relates every session to the account with its
  identity: same revision, hence same password and role, or an earlier one. `Shape`
  reduces every action to what it does to one account and to the sessions, so that the four results (`SessionsAreCurrent`,
  `AdministratorRemains`, `RevocationStands`, `BootstrapIsOver`) are about two relations instead of eleven actions.
* **ToolProposals_proofs.** The invariant adds `UnderWayIsBacked` (an operator who is about
  to write an approval has audited it and recorded the finding) and `BridgesAimRight` (the
  target of a pending bridge belongs to the endpoint it read). Results: `ApprovedOnce`, `ApprovalsStand`.
* **Inventory_proofs.** `InventoryAlwaysSound`, for every set of requests that meets `InventoryAssumption`. `LinksHold`
  says nothing of a check that is still to be written, so the invariant adds `WritesAreSure`: what a writer outside `overtaken`
  is about to write still refers to a registered row. Only `ResetDemo` unregisters, and it overtakes every such writer;
  `Kept` says that all other steps leave it true, `OthersMarked` that a write changes the history of its own key only.
  The views need `ReadIsTrue`: what a reader has read of a table still holds of every device and asset that no write has
  changed since it began. `ItemIsOfRows` then says that the row of a device in the CMDB depends on the rows of that device
  alone, `VerdictNeedsAll` that a compatible verdict needs all of its conditions.
* **Platform_proofs.** Sixteen theorems of `PlatformSpec`: `TypesAreKept` and one for each of its fifteen components. Every component
  has an inductive invariant of its own, proved of the component's `Next`; `PlatformInv` is their conjunction, each an implication
  from `active`, and the theorems follow from it. That of the inventory is the one of `Inventory_proofs`, of which
  `StockFacts` is an instance (`SameNext` and its like say that it speaks of the same steps):

  | Theorem | What its invariant adds to the property |
  |---|---|
  | `ApprovalIsSound` | whose claim is under way (`Claimed`), which parts it has written and what it finds written at its end (`Registered`) |
  | `OffhostIsSound` | who is past the lock holds it alone and writes something newer (`LockHolds`); the ledger is never behind what was answered (`LedgerLeads`); a digest is filed under the version opened or an older one (`DigestInv`) |
  | `GrantsAreBacked` | a request has seen every state the tables had since it began, so also the grant it read (`SeenAll`) |
  | `GateIsSound` | a row that opens the gate is of a completed test of its model (`ChecksVerified`); how many usage rows a chat has at each stage (`UsageSoFar`) |
  | `BrokerStatusIsTrue` | connected just while the session is open, and an open session has all filters and no error |
  | `ScanIsSound` | which states tasks can have at each stage of the request (`TaskStates`), the receipts of each stage (`Trail`), the semaphore (`ProbeBound`) |
  | `LimiterIsSound` | every failure younger than some age has a stamp in its bucket at most `LockWait` older, and no failure outlives its bucket (`Accounted`) |
  | `BodiesAreWhole` | what is buffered is what was sent up to there, and what the application was told by stage |
  | `QuietReceiptsAreTrue` | nothing but types: the action that completes an undisturbed check reads settings nobody has changed since its probe |
  | `PromptsAreSound` | the content in force and what an editor overwrites are in the history, about to be appended or in `dropped` (`Covered`); a rollback under way has its target's snapshot (`Restores`) |
  | `ReleaseIsSound` | a mission has a finding of its own for every lane it is done with (`Recorded`); autopilot runs and those still to come are as many as missions started (`RunsCounted`) |
  | `GoLiveIsSound` | what a brief has read of a settled item still holds of it (`ControlsRead`, `DecisionsRead`); the newest restore test of the trail is the last one recorded (`LastTestKept`) |
  | `SweepsAreSound` | types, and that all tables are finite. The argument is about one sweep: `Older` is a strict total order of the sessions (`SessionOrder`), so there is an oldest one (`OldestSession`); cutting to a number (`CapCut`) or to a budget (`BudgetCut`), what goes is older than what stays |
  | `InventoryIsSound` | `WritesAreSure` and `ReadIsTrue`, see above |
  | `ControlIsConsistent` | a save carries a document whose checkpoint is that of its cycle (`WholeDocument`); a request serves at most one mission, up to whose finish its work is that of the agents still due, in order (`Serving`, `Due`), and no two requests finish the same one |

Assumptions the proofs made explicit, all true of the program: `Fallback` is the name of no provider; the cache's "no entry" is no observation; the
key of an idle request is no key of the limiter; "none" names no agent, no control action and no row of
the inventory; there are fewer than 200 lanes, because the coverage of a release
is a rounded percentage that with more would reach 100 with a lane missing (the code lists a handful);
no value a report stores is "not recorded", and no owner decision is stored as `ready`, which the update refuses.

**Only model-checked.** Liveness (`ScanNotLockedOut`, `ClaimsAreResolved`, `LockoutEnds`, `ChecksConverge`), which with ENABLED is
beyond the prover. Every safety property of a passing run is a theorem.

## 5. Findings

1. **Pruning may drop a failure that still counts** (`AuthPrune`, documentation and code
   diverge). A bucket is deleted by `updated_at`, which is the clock of its last *writer*,
   read before the wait for the lock; a writer that waited stamps the bucket with an
   older time than a failure already in it. The docstring promises pruning "without clearing active
   failures". The loss is bounded by the busy timeout, and `FailuresPerWindow` holds with the
   corresponding slack.
2. **A service review can be approved twice** (`ToolApprovalOnce`). The recovery
   route decides in one conditional transaction; the service review route decides on a row
   read earlier, so two concurrent approvals both audit and both record a finding. The docstring calls it idempotent.

3. **A chat may call a provider that was never tested** (`ProviderCheck`). The gate of a chat is computed
   from one read of the policy and the call made from another; a policy changed in between is called without
   connectivity evidence of its model, which `CHANGELOG.md` excludes. What was gated had been tested (`GateSound`).
4. **A second outage gets no review** (`OutageReview`). The review of a service has a fixed id; once approved
   it is replayed for ever, so a later outage of the service asks nobody, although `CHANGELOG.md` promises proposals
   for persistent failures. The first outage always gets one (`ChecksConverge`).

Also seen while modelling, and not failures of a stated promise:

* *Edge store.* Retention keeps exactly as many telemetry rows as the ceiling at which ingestion is refused, so it
  frees nothing until rows age out. After an eviction a retried sample id is new. Resolving an alert that vanishes in
  between raises after it was audited.
* *Discovery and hardware.* After a demo reset approved candidates stay approved, so the same hardware evidence is
  answered `already_approved` although nothing of it is registered; a candidate whose approving thread died stays `approving`
  until its evidence is posted again; an approval whose candidate is evicted between commit and answer is reported as an
  error although it stands; a range over the limit is charged to the cooldown and audited before it is refused.
* *Inventory.* PATCH writes back every field it read, so concurrent ones lose updates, and one that began from a
  dangling row restores it. The CMDB takes the last profile of a device even if it is disabled, the drift report the last
  enabled one (`ViewsAgree` is stated for enabled ones); an upsert keeps its place, so commissioning an older profile again does not make it
  the last. Running a simulation again resets the status of its devices. Nodes for metrics never appear in the
  graph, so edges to them are dropped. Board names with a plus sign never match their alias.
* *Health.* The receipt of an agent health check takes its fingerprint after the probes: a change during them binds an
  old measurement to new settings. `QuietReceiptTrue` is stated for undisturbed checks only. A crash leaves `started`.
* *Reports.* A continuous QA mission that died after its first lane counts as completed, as every recorded lane is
  ready. The action plan lists the decision state `ready`, which the update refuses. A recorded override of a control hides stale
  restore evidence. The autopilot summary merges missions of equal labels.
* *Instructions.* A contract's version is numbered and appended after the row was written, from what is then read again; with three
  administrators the contract in force may never get a version (`app.py:8263-8272`, `dropped` in the model).
* *Assistant.* Proposals of expired sessions count toward the memory budget; an exception outside the handler
  leaves no usage row; a changed credential keeps the connectivity check of the old one.

## 6. What is not modelled

Within modelled components: legacy candidate ids (discovery); descriptor validation and USB enumeration
(hardware); token signatures, tenant and deployment binding (identity, access); the text of audit rows and of reports; rows of the limiter
that the program itself cannot write; the listing that proposes tools; text checks, redaction and
diffs of instructions; the network hints of a device, the filters of the CMDB graph and the spelling of board names
(inventory); the certificate store and the environment, which a deployment record stands for (go-live reports); governance
documents and gap boards, which format what is stored (release mission).

Whole components: `PROJECT.json` lists each with its reason: texts of the assistant, translations of MCP and A2A requests,
protocol envelopes, the thermal collector, USB probes and the simulator, host metrics, screenshot scores, the page,
packaging. They keep no state that another component relies on, or produce inputs that the models take from arbitrary sets.

## 7. Plan

Done, in the order of importance: the edge store (the system's purpose), the two approval
paths of discovered equipment, the audit trail, identities and the limiter, the assistant's approvals;
then service checks, control plane, adapter and middleware, off-host receipts, instructions, provider gate,
memory, access, the go-live and release reports, the scan itself, and the inventory with its views.

Next, extending the model: `ScanLease`, `NetworkScan` and `DiscoveryQueue` composed into one scan;
`ServiceHealth` composed with `ToolProposals`, so that an escalation is a preparation there; protocol and hint nodes of the CMDB graph.

Next, proofs: the safety half of `ServiceHealth` and of `ToolProposals` once they are composed (that an escalation
under way knows the review it replays), and the invariants that the liveness properties rest on.

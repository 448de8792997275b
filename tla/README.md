# Anyway: TLA+ models and proofs of the host

Anyway is a desktop research canvas: a Vue user interface, a Rust host (Tauri), and
plugins that run as Python worker processes. All authority sits in the *kernel* of the
host: every effect of a plugin or of the user interface is a Host SDK call that is
authorized by a capability lease, admitted by a bounded bus, handled, audited and finished.
Around the kernel are the plugin host (packages, settings, worker processes), the native
agent that turns documents into graphs, and the compiler that answers questions about a
graph. This directory holds TLA+ models of these parts, the configurations that check them
with TLC, and theorems about them that TLAPS checks.

Everything is translated from the source. Where the source and a document of the
repository disagree, the model follows the source and the disagreement is listed under
[Divergences](#5-divergences).

    tlc -workers 2 -config MCHostCore.cfg MCHostCore     # one run
    tlapm HostBusProofs.tla                              # the proofs of one module

`PROJECT.json` is the index: components, runs, the source lines of every definition,
hazards, theorems, and for every checked property a *mutant*, an operator (marked `Mutant:`
beside its original) that makes the plausible mistake the property exists to catch.

1. [The system and its parts](#1-the-system-and-its-parts)
2. [The modules](#2-the-modules)
3. [The runs](#3-the-runs): what TLC checks, bounds, fairness
4. [The proofs](#4-the-proofs): what TLAPS proves and how
5. [Divergences](#5-divergences) between the code and what is written about it
6. [Not modelled, and the plan](#6-not-modelled-and-the-plan)

## 1. The system and its parts

`KernelState` (`src/src-tauri/src/kernel_commands.rs`) owns one registry per concern, each
behind its own `RwLock` or `Mutex`. There is no lock over two of them, except that a patch
commit holds the proposals and the projects together. So a Host call is a *sequence* of
locked steps, and calls of different threads interleave between the steps:

    kernel_host_call                          (a command of the user interface)
      policy.authorize  ->  bus.begin  ->  handler  ->  audit  ->  bus.finish
                                            |
                            plugin.surface action: runs a worker process, which calls back
                                            v
    dispatch_worker_host_operation            (a reverse call of the worker)
      policy.grant + issue -> bus.begin -> handler -> bus.finish -> policy.revoke -> audit

### The kernel

| Component (source) | State | Operations | What is hard | What makes it correct |
|---|---|---|---|---|
| **Host Bus admission ledger** (`kernel/bus.rs`) | registered operations, call ledger, tombstone queue, two tables of in-flight counters | `register_operation`, `begin`, `finish`, `cancel`, `cancel_expired` | cloned handles used late, reuse of ids after eviction, counters kept apart from the ledger, eviction in the middle of a sweep, clock readings older than the lock | counters equal pending calls; quotas hold; tombstones exact and bounded; an ended call stays ended |
| **Capability policy** (`kernel/policy.rs`, `kernel/identity.rs`, `host_bus/lease.rs`) | leases by id, each with revocation | `request`, `grant`, `issue_lease`, `renew_lease`, `revoke_lease`, `authorize` | long legal sequences that widen authority; stale epochs; selection of several leases | an authorization goes back to a grant; plugin leases end; revocation is final |
| **Host SDK gateway** (`kernel_commands.rs`, `kernel_native.rs`) | the running calls, the sequence of worker request ids, the audit events | `kernel_host_call`, `dispatch_worker_host_operation`, the lease commands | every lock released between steps; `?` between two steps that belong together; nested calls with the clock of the outer one | admissions are exactly running calls; each is audited; a worker's lease does not outlive its call |
| **Host operations** (`kernel_commands.rs`, `kernel/policy.rs`) | which locks a call holds and how far its handler is | every operation of the bus and every reverse operation of a worker | three tables by hand in two files; each handler nests locks in its own order, some across a worker's answer | no calls wait for one another; what the policy authorizes reaches its handler |
| **Audit ledger, event bus, service registry** (`kernel/audit.rs`, `kernel/events.rs`, `kernel/service_registry.rs`) | ring of events, subscriptions with queues, services with expiry | record, query from a cursor; subscribe, publish, poll; register, call, remove | caps, cursors that fell out of the ring, expired records | in order, nothing skipped except what the caps dropped |
| **Blob store** (`kernel/blob.rs`) | blobs with counts, uploads, read leases, quotas | `begin_upload`, `append`, `commit`, `abort`, `open_read`, `release`, `sweep`, storing a picked file | deduplication, releases of one content by several owners, expiry in the middle of an upload | accounts equal what is stored and in flight; a leased blob stays |
| **Inside RPC ledger** (`kernel/rpc.rs`) | calls with their windows | start, items, credits, end, cancel | any envelope at any time, any number of times | a stream delivers exactly the granted items, in order; an ended call stays ended |
| **Surface state and continuations** (`kernel/plugin_surfaces.rs`) | sessions, one pending continuation each | state, action, host action, attach, answers of the worker | two locks with the worker between them; cursors sent twice | an answer goes back to the chain of its own surface, within budget and deadline |
| **GraphPatch review gate and project registry** (`kernel/graph_patches.rs`, `kernel/graph_projects.rs`, `host_bus/graph_patch.rs`) | bounded proposals with deadlines, projects with revisions | propose, review, list, cleanup, sync, remove | commit and verdict; two writers on one base; expiry; a clock that goes back; eviction | committed at most once and in time; no lost update; pending reviews are not dropped |

### Workers and plugins

| Component (source) | State | Operations | What is hard | What makes it correct |
|---|---|---|---|---|
| **Worker session pool** (`kernel/plugin_surfaces.rs`) | registry of pooled processes, one mutex per entry, cancellation flags | request with a cached or new process, replacement, retirement, `cancel`, `shutdown_plugin`, settings writes | three mutexes taken and released separately; retired entries that waiters still hold; retry loop | a request runs in its own configuration; stopped entries stay empty; nothing hangs or leaks |
| **Worker RPC protocol** (`host_bus/python_worker.rs`, `host_bus/plugin_worker.rs`) | a process, its two streams, the call that holds it | open, request, events, reverse calls, deadline, cancel with grace period, close | answers that come late, twice, wrong or too large; exits at any point | a pooled call gets its own answer; a process given up is gone |
| **Worker supervisor** (`kernel/supervisor.rs`, `kernel/lifecycle.rs`, `host_bus/workers.rs`) | per worker: state, restart attempts, stable ticks | `request_start`, `request_stop`, `observe` | observations arrive late, repeated or of an older process; shifts of a bounded word | a stop is obeyed; restarts stay in budget; backoff never shrinks |
| **Packages and installation** (`plugins.rs`, `kernel/package_gate.rs`, `signing.rs`) | active digests, plugins directory, staging, removal registry | gate, install, discover, remove | copies, renames and removals interleave and stop anywhere | what is installed is whole and was admitted; removed stays removed |
| **Manifests** (`plugins.rs`, `plugin_manifest_v2.rs`) | — (rules and what they keep) | read, migrate, validate, launch, check a call | two formats, many lists that refer to one another | what was declared is what runs |
| **Plugin settings** (`plugin_settings.rs`) | one document on disk, secrets in memory | read, write, reset, launch, test a connection | read-modify-write without a lock; failures between temporary and rename | the document stays readable; what was saved is there; what was tested is launched |

### Documents, models and projects

| Component (source) | State | Operations | What is hard | What makes it correct |
|---|---|---|---|---|
| **Document import jobs** (`agent_host.rs`, `agent_commands.rs`, `kernel/scheduler.rs`) | jobs with checkpoints, batches, semaphore and scheduler slots | create, queue, run a batch, cancel, review, report health | the task decides under one lock and acts after it; permits returned by destructors | no panic at the gate; truthful checkpoints; final states final; no effect after a cancel; batches end |
| **Document pipeline** (`agent_commands.rs`, `pdf_agent_v4.rs`) | passes, fragments, audit, activity; chunks, sections, anchors | the passes with repair, recovery, fallback | a cancel between any two steps; bytes against characters | calls bounded, every recovery audited, chunks cover the text, anchors lead back |
| **Native agent adapter** (`native_plugins/pdf_canvas_agent.rs`) | stream reader, content filter, files at the provider | chat over two event streams, retries, file extraction | a stream cut at any byte; markers split between frames | nothing private is shown, nothing of the answer lost, files deleted |
| **LLM client and providers** (`llm_client.rs`, `provider_registry.rs`) | attempts, cache of reasoning, uploads; clients and keys | chat, continue, merge, repair, extract | retries, truncation, early returns | requests bounded, uploads deleted, own keys used |
| **Project files and history** (`projects.rs`, `workspace_host.rs`) | file on disk, index and commits | save, import, autosave as a commit, history as a patch | concurrent saves that stop anywhere; torn files | what a commit says is what was saved; the patch describes the history |
| **Research graph compiler** (`graph_compiler/`) | — (pure functions), a file under edits | scenarios, traversals, paths, cycles, chains; layouts; invariants and hashes | depth limits, duplicates, missing ends | answers agree with definitions by walks; layouts keep places apart; edits are seen |

Interfaces between the parts: the gateway calls policy, bus and audit (composed in
`HostGateway`); handlers use the registries (`HostOperations` has their locks, each registry
its own module); surface operations use the pool and the pool a worker session; the agent
task reports to the supervisor (`AgentJobs` extends `WorkerSupervisor`) and offers its patch
to the review gate.

## 2. The modules

    Capabilities ──> HostBus ───────────────> HostGateway <──INSTANCE── CapabilityPolicy
         └─────────> CapabilityPolicy
    WorkerSupervisor ──> AgentJobs
    PluginManifest ──> InstalledPlugins
    GraphPatches   GraphAlgorithms   GraphLayout   GraphCompile
    HostOperations   HostRegistries   BlobStore   RpcLedger   PluginSurfaces
    WorkerSessions   WorkerRpc   PluginInstall   PluginSettings
    KimiStream   DocumentPipeline   DocumentText   DocumentRequests
    LlmClient, ProviderRegistry ──> ProviderCalls
    ProjectHistory
    (EXTENDS unless INSTANCE)

One action is what the code does under one acquisition of a lock, with everything it
calls, or between two awaits where no lock is involved. A history variable (marked
`history` at its declaration) is read by properties and by guards that name a bound, never
by a modelled condition. Clocks are logical; where a caller reads the clock *before* it
takes a lock, the operation may use any reading `at <= clock`. Texts, payloads and bytes are
members of small sets that keep exactly the distinctions the code makes.

**`Capabilities`** — scopes, leases, `Covers`, `IsActiveAt` (`identity.rs`): shared by bus
and policy. An optional value is a set of at most one element (`None`, `Some`).

**`HostBus`** — `operations`, `calls` (a partial function), `terminalOrder`,
`inflightByPrincipal`, `inflightByOperation` are the fields of `HostBus`. `Begin` makes the
refusals in the order of the code; `Finish` and `Cancel` take any handle ever given out,
which is what cloning allows; `CancelExpired` is the whole sweep in one action: it ends the
expired calls in ascending order and evicts what no longer fits, possibly calls it has just
ended.

**`CapabilityPolicy`** — `leases` is the ledger; `grantOf` remembers the grant of each
lease (the code forgets it). `GrantAndIssue` composes request, grant and issue, since a
grant is a value that only `issue_lease` consumes. `Authorized(p, op, selected, at)` is
`authorize` with its walk along the selected leases.

**`HostGateway`** — extends `HostBus` and instantiates `CapabilityPolicy` on the same
clock. `outer[t]` is thread t's `kernel_host_call`, `inner[t]` the reverse call of the worker
inside it; the `step` of each is the next lock it takes. A `surface` action may make
several reverse calls; each uses the clock reading of the outer call, as the code does.
The lease of a reverse call ends at that reading plus the time budget of the call.

**`HostOperations`** — `Routes`, `Requirements`, `WorkerRoutes` are the tables of the bus,
the policy and the worker dispatch; `Handler(o, wish)` is the list of locks the handler of an
operation takes and gives back, with what its worker asks for meanwhile and with
"outside" where a worker, a dialog, the disk or the network answers. A call is authorized, admitted, runs its script one step at a time, is
audited and finished. Contents of the registries are the other modules'.

**`BlobStore`**, **`HostRegistries`**, **`RpcLedger`** — one variable per field of the
structure; a digest is the content itself. A picked file is stored with one lock for each
chunk, all with the clock reading of its beginning.

**`PluginSurfaces`** — `surfaces` are the sessions with their pending continuation; `call[t]`
is an operation between its two locks. A continuation carries the `root` of its chain; `begun`
and `links` (history) remember how each chain began and how far it went.

**`GraphPatches`** — `proposals` and `projects` are the two registries, with `NoRecord` for
an absent entry. A project is which items it has and in which version; a patch adds or
updates one item. Every operation that sweeps first (`Cleaned`) or makes room (`WithRoom`)
does so inside its action. `SetClock` moves the system clock both ways.

**`WorkerSessions`** — `entries` are all entries ever created (an `Arc` outlives its place in
the map, so a generation number stands for it); `sessions` is the map; `lock` the mutex of
each entry; `inflight` and `cancelled` the flags; `pc` the point between two critical
sections where a thread is. The entry mutex is held across steps, because a worker request
runs under it. What the worker answers is the business of `WorkerRpc`.

**`WorkerRpc`** — `process[p]` is a process with its two streams and what it is doing (the
loop of the Python SDK); `stage[n]` is where a call is. Two clients use a session, the pool
and the manager; which of them is at work is chosen in the initial state. A message carries
the request id the code puts into it and, as history, the call it was made for. A worker may
send any content, stop at any point, or never answer.

**`WorkerSupervisor`** — `Edges` is the transition table of `lifecycle.rs`; `Observe` any
observation by any adapter at any time (none carries the incarnation of its process).
`Delay` is `checked_shl` with the bits that leave a word of `Width` lost.

**`PluginInstall`** — a directory is the files in it, each with the package it came from;
install, discovery and removal are jobs of several steps; `Restart` keeps the disk and
forgets everything else. **`PluginSettings`** — reads the document, changes an entry, writes a
temporary and renames it, each a step that may fail. **`PluginManifest`** — the rules of both
formats as operators; **`InstalledPlugins`** — what reading a package keeps and what the host
decides from it (launch plans, checks, frontend); `MCPackages` holds the packages.

**`AgentJobs`** — extends `WorkerSupervisor` with the one worker the task reports. `phase`,
`cur` and `pos` say where a batch's task is between two locks; `Pipeline` is the order of
stages and effects in `process_job`. The permit and the scheduler slot are given back in the
order Rust drops them (`DropOrder`). `Cancel`, `Review` and `StopWorker` are commands that may
come between any two steps.

**`DocumentPipeline`**, **`DocumentText`**, **`DocumentRequests`** — the passes over one
document with repair, recovery and fallback; chunks, sections and anchors of a text whose
characters are one or more bytes; settings, and the gate of a file. **`KimiStream`** — one
attempt of a chat over either event stream, cut anywhere, with the filter that hides
thought, the retries and the files at the provider.

**`LlmClient`**, **`ProviderRegistry`** — attempts, continuation and merge, repair, cache of
reasoning, extraction with deletion; clients and their keys. **`ProviderCalls`** puts both side
by side: the call of a chat and the registry its client comes from. **`ProjectHistory`** — `file`,
`index` and `revisions` of a project; `call[c]` is a save or an autosave that stops anywhere;
the patch is computed from the revisions as `graph_patch_from_diff` (`graph_compiler/analysis.rs`)
and `graph_patch_from_commits` (`workspace_host.rs`) do.

**`GraphAlgorithms`**, **`GraphLayout`**, **`GraphCompile`** — the functions of the compiler
translated, and beside them definitions by walks to compare with. In `GraphCompile` a hash
is what the code feeds to it, so two files have one hash when the code cannot tell them
apart.

`MC<Name>` instantiate these for TLC. Several of them put components that share no state
into one instance with a variable `focus`, chosen in the initial state, which says which of
them this behaviour moves: a behaviour of the host projects on each of them as a behaviour of
its module, so nothing is lost and each is explored in full. Where components do share state
they are composed for real (`HostGateway`, `AgentJobs`, `InstalledPlugins`).
`<Name>Proofs` hold the theorems. Some hold those of several components:
`KernelRegistriesProofs` those of `CapabilityPolicy`, `RpcLedger`, `PluginSurfaces`,
`HostRegistries` and `BlobStore`; `PluginHostProofs` those of `WorkerRpc`, `PluginInstall`,
`PluginSettings`, `DocumentPipeline` and `DocumentRequests`; `WorkerSessionsProofs` those of
`InstalledPlugins` too; `GraphPatchesProofs` those of `ProjectHistory`; `AgentJobsProofs` those of
`WorkerSupervisor`, `LlmClient`, `ProviderRegistry` and `ProviderCalls`.

`CHECK_DEADLOCK FALSE` stands in every configuration because the models legitimately stop:
counters reach their bounds and operations come to an end. That calls wait for one another
is a property of its own (`LocksSound`), and so is that they return (`OperationsReturn`).

## 3. The runs

Times are those of two TLC workers on a small machine; passing runs first.

| Run | Distinct states | Moved by `focus` | Properties |
|---|---|---|---|
| `host_core` | 349,162 (138 s) | bus, operations | `LedgerExact` `EndedOnceForGood` · `LocksSound` `AuthorizedCallsRun` |
| `host_calls` | 1,335,343 (172 s) | gateway, jobs | `GatewaySound` `AdmissionsAudited` `AdmittedWorkerLeasesRevoked` · `JobsSound` `CheckpointsFollowState` `CancelStopsEffects` `SettledForGood` |
| `kernel_registries` | 242,275 (134 s) | policy, blobs, hosts, ledger, surfaces, workers, packages | `AuthorizationGoesBackToGrant` `PluginLeasesExpire` `RevokedForGood` · `BlobAccountsExact` · `RecordsInOrder` · `StreamsAccounted` `EndedCallsStay` · `ContinuationsSound` · `SupervisionSound` `BackoffNeverShrinks` · `InstalledSound` |
| `worker_sessions` | 2,364,888 (127 s) | — | `EntriesSound` `ServedByOwnConfiguration` `LatestIsCancellable` `PoolAtRest` |
| `graph_patches` | 282,675 (123 s) | patches, algorithms, layout, compile | `ProposalsSound` `NoLostUpdate` `CommittedInTime` `PendingKept` · `GraphAnswersSound` |
| `plugin_host` | 649,112 (108 s) | packages, settings, worker, stream, import, text, request | `PackagesSound` · `SettingsSound` · `PoolCallsAreTheirOwn` `GivenUpIsGone` · `DocumentAgentSound` |
| `liveness` | 337,699 (123 s) | pool, jobs, history, llm, providers | `OperationsReturn` · `BatchesSettle` · `HistorySound` · `ProviderCallsSound` |
| `agent_jobs_restart` | violation | — | `AgentWorkerComesBack`, under fairness |
| `plugin_install_poison` | violation | packages | `BadPackagesAreSkipped` |
| `propose_never_admitted` | violation | operations | `ProposalsReachTheGate` |
| `uninstalled_worker` | violation | operations | `UninstalledWorkersAreGone` |
| `history_additions` | violation | history | `EveryAdditionIsKept` |

Several properties are conjunctions of named parts, each stated and commented in its module:

- `LedgerExact` = `CountersExact` ∧ `QuotaRespected` ∧ `TombstonesExact`: the two counter tables
  of the bus, changed in four functions, are always the number of pending calls, no quota
  place is lost or given twice, and the tombstone queue lists exactly the ended calls.
- `GatewaySound` (with `AdmissionsAreRunningCalls`): between the locks of `kernel_host_call` and
  `dispatch_worker_host_operation` the pending admissions are exactly the calls still running,
  so `finish` is never refused and nothing is left behind.
- `LocksSound`: no cycle of waiting calls, no core lock held while a handler waits outside, all
  locks given back at the end.
- `JobsSound` = types ∧ `GateNeverPanics` ∧ `NoJobLeftHalfway`.
- `BlobAccountsExact` = types ∧ `InflightExact` ∧ `BlobQuotaKept` ∧ `PinnedBlobsStay`.
- `SupervisionSound` = `StopIsObeyed` ∧ `RestartBudgetKept`.
- `InstalledSound` = `LaunchedAsDeclared` ∧ `ContractIsWhatRuns` ∧ `ContributionsWork` ∧
  `OnlyWhatWasRead`.
- `EntriesSound` = types ∧ `ShutEntriesStayEmpty` ∧ `RetiredEntriesLeave`: between finding an entry
  and locking it the world may change; the retry loop and the two marks (retired, emptied) keep
  a request out of a process of another configuration and a stopped entry empty.
- `ProposalsSound` = types ∧ `CommittedOnce`.
- `GraphAnswersSound`: `AnswersRight` (traversals, paths, cycles, chains agree with the
  definitions by walks), `LayoutsRight` (`PlacesApart`, `PinsWin`, `LayersAreWalks`, `TreeIsShortest`,
  `CodesArePrefixFree`) or `CompilerSound` (`EditsAreSeen`, `CompilingIsStable`,
  `AcceptedIsWhole`), by focus.
- `PackagesSound` = types ∧ `InstalledWhole` ∧ `RemovedStayRemoved`; `SettingsSound` =
  `DocumentReadable` ∧ `RunsOnValidSettings` ∧ `SavedIsThere` ∧ `TestedIsLaunched`.
- `TestedIsLaunched` is about the launch behind a surface (`worker_launch_configuration`): what is
  wrong with one provider (no declared connection or address, an unknown credential source, a
  credential that is too long) ends it for all of them, so that a launch which is allowed and a
  test which found a credential can be held against each other provider by provider.
- `OperationsReturn`: no thread waits for ever for the mutex of an entry, its own or the one it
  replaced, or keeps finding a retired one, whatever the workers of other plugins do.
- `EditsAreSeen`: `verify_hashes` accepts a file only if its file hash is the compiled one; the
  converse is claimed of files without a repeated id, since with one the block hashes depend
  on the order of the entities and the file hash does not.
- `DocumentAgentSound`: `KimiSound`, `PipelineSound`, `TextSound` or `RequestsSound`, by focus.
- `HistorySound` = `SavedIsCommitted` ∧ `OwnBytesStay` ∧ `PatchOfHistory`; `ProviderCallsSound` =
  `LlmSound` ∧ `ClientsUseOwnKeys`.

### Bounds, and why they are enough

- *Bus*: two symmetric principals, two operations limited to 1 and 2 and a bus limit of 2, so
  that each limit refuses by itself; three request ids and one tombstone, so that every second
  ending evicts and an id comes back while a third is pending; each id admitted at most twice,
  the least that lets an old handle meet a new call. Leases: permanent, expiring, revoked, and
  of a single resource.
- *Operations*: two calls, one that may ask for anything and one of those that hold a lock over
  other steps; a wait for one another needs two. Longer cycles would need three calls that
  each hold one of three locks; the handlers that hold a lock while they take another are in
  the second call's set.
- *Gateway*: two symmetric threads with two calls in all and two reverse calls, enough for two
  concurrent surface actions, for a renewal that runs while a reverse call is between any two
  of its steps, and for a refusal by quota.
- *Jobs*: two batches on one permit, of two documents and of one: what happens between
  documents, and a batch that waits for another; the restart policy is the code's own
  (3, 1, 32, 30). *Supervisor*: a word of three bits and a budget of five, so that the doubling
  meets the cap (4) and the width; health ticks of one and two meet the stable threshold (3)
  from below and beyond; two workers show that nothing leaks from one to the other.
- *Policy*: two leases make every order of a selection that stops at the first decisive lease;
  the kernel, the user interface and a plugin. *Blobs*: quotas of two and three, so that a
  second upload of one content deduplicates and a third is refused. *Registries*: caps of one
  subscription and one service, queues and ring of two with three events, so that each drops.
  *RPC ledger*: two calls, one in flight, a window of two, three items. *Surfaces*: two
  threads, a session and a continuation allowed, a budget of two requests, two chains.
- *Pool*: three threads are the least where one runs, one waits for the entry's mutex and one
  replaces or stops the entry; two configurations, four operations, four generations. Entries
  of different keys share only the registry mutex, which no step holds while it waits. The
  liveness run has two threads, two plugins and two configurations with three operations and one
  control id: a request that waits for the entry it replaced, a settings write that waits for a
  running one, a cancellation, and a plugin whose worker never answers beside another. Five
  generations are one more than the premise of the property allows, so that the bound stops no thread
  it speaks of. Threads and plugins differ in name only, so the first operation is that of the
  first thread on the first plugin.
- *Worker protocol*: two calls and two processes: what the first leaves behind meets the
  second; one event, one reverse call and two messages of a process before each limit.
- *Patches*: three proposals in a registry for two, of which one may be a reviewed one kept:
  both evictions happen; one project with two revisions; a clock of two readings that goes both
  ways; reviewed proposals are kept for less time than pending ones, as in the code, so that both
  retentions end within it. *Graphs*: every way to lay three edges in a triangle, and squares with
  a chord, where a depth-first visit with a limit of two comes to a node late; all edges, or those
  of one type; layouts of up to six nodes; files of two nodes with two edits, the least
  for a repeated id in another order.
- *Packages*: two jobs with three operations and a restart over three packages, two of one
  identity; *settings*: two writers, three operations, a restart, and a
  worker with two providers, whose connections differ in kind and in address; *documents*: texts of three to
  five characters, answers of up to thirteen, archives of two parts, limits scaled down so that
  each is met.
- *History*: two calls, two versions that add, remove, change and keep nodes and edges, two
  commits. *Model calls*: up to three retries and two repairs as in the code.

### Fairness

`FairSessionsSpec` is weak fairness of the steps a thread makes by itself (`HostStep`): a thread runs
on an OS thread, and what it does between two locks ends. Nothing is assumed of the steps that
wait for a process (`TalksTo`): a spawn with its hello, a request, and the last message to an entry
that is shut down. They write to the process without a deadline (`python_worker.rs:163`, `680`), so a
process that does not read may hold one up for ever, with the mutex of its entry. What
`OperationsReturn` claims is therefore conditional: if no thread talks to the workers of a plugin for
ever, the operations on that plugin return, and no assumption is made of any other plugin.
A mutex has no fair queue, but weak fairness with finitely many operations is enough, since a
waiter is eventually alone.

The property has a second premise. Two requests of one plugin with different configurations can
replace each other's entry before either has locked its own, again and again
(`kernel/plugin_surfaces.rs:351`, `392`); the code sets no end to it and no scheduler is obliged to
break it. `[](Len(entries) < MaxGenerations)` says that only so many entries are made; that behaviours
with such replacements and their waits are among those left was checked by looking for them.

`FairJobsSpec` is weak fairness of each batch's task: the tokio runtime polls every ready
task, and the waits inside a stage end (an LLM call has a timeout of 120 s). A user's commands
are not fair: nobody has to cancel or review. That permits go out in order is not assumed
but modelled (`line`), as tokio's semaphore does it.

In `LivenessSpec` each of the two keeps its fairness where it moves. The other specifications
state safety only and have no fairness.

## 4. The proofs

TLC checks the instances above; the theorems hold for every value of the constants that
meets the named assumptions. Those are what the types of the code guarantee: limits that
are positive where the code rejects zero, sentinels that are no real value, finite sets of
threads. Some say more. `GatewayAssumption`: the kernel and the user interface are
principals, and the request ids of workers, built from a process-wide sequence, differ from
one another and from those of the user interface. `PresentedAssumption`: a call may present
to the bus at least the leases the policy issues. `OperationsAssumption`: what a worker asks
for is one of the routes of `dispatch_worker_host_operation` (what has none is answered like
an operation that locks nothing). `SettingsAssumption`: the stand-ins for a torn document and
for no setting are no keys of the document (a key holds an `@`) and no ids of settings; no variable of the environment has the
empty name; and "no credential" is not too long a one.
`PowersAreNumbers`: `2^k` is a positive number for `k \in 0 .. Width`, and each power is twice
the one before; the prover knows no induction, and TLC evaluates it. `PackagesAssumption` and
`HostNamesAssumption`: packages are records with the fields the rules read, and the two names the
host itself gives (`analysis.run`, `context-menu`) are names the rules accept. `HistoryAssumption`: a graph has finitely many nodes and
edges. `RequestsAssumption`: the parts of a file are a sequence and their sizes are numbers.
Every assumption is evaluated by TLC on the runs that extend its module.

Five theorems have a hypothesis of their own, since the statement fails without it:

- `BackoffStaysMonotone` assumes `NoBitsLost`: the first delay, doubled as often as a policy
  allows restarts, still fits the word. Without it `checked_shl` drops bits: in a word of three
  bits with a first delay of three the delays are 3, 6, 4. The default policy of the code begins
  at one tick, and TLC checks the small word of the run.
- `ReportsFollowSupervisor`, `AgentHostStaysSupervised`: `1 \in HealthyTicks`, as the import
  reports itself healthy with one tick and the supervisor has to allow such observations.
- `AuthorizedCallsStayRun`: `"blob.write" \in UserLeases`. Without such a lease every call of
  `blob.write` is denied (section 5).
- `RequestsStaySound`: the limit of the gate for one part is not above the limit of the
  reader (50 MiB both, `pdf_pipeline.rs:256` and `agent_host.rs:17`), and the direct fields of a
  request spell no `api-url` and hold a value (`agent_commands.rs:494`).

| Module | Obligations | Theorems |
|---|---|---|
| `HostBusProofs` | 697 | `BusTypeCorrect` `LedgerStaysExact` `EndedStayEnded` |
| `HostGatewayProofs` | 3,140 | `GatewayStaysInv` `GatewayStaysSound` `AdmissionsStayAudited` `WorkerLeasesAreRevoked` · `GatewayImplementsBus` `GatewayImplementsPolicy` `AdmissionsEndOnce` `WorkerAuthorityEnds` |
| `HostOperationsProofs` | 1,512 | `LocksStaySound` · `AdmissionStays` `AuthorizedCallsStayRun` |
| `KernelRegistriesProofs` | 3,151 | `PolicyTypeCorrect` `PluginAuthorityEnds` `AuthorityIsGranted` `RevocationIsFinal` · `StreamsStayAccounted` `EndsAreFinal` · `SurfacesStaysInv` `ContinuationsStaySound` · `RegistriesStaysInv` `RecordsStayInOrder` · `BlobStoreStaysInOrder` `BlobAccountsStayExact` |
| `GraphPatchesProofs` | 1,635 | `ProposalsStaySound` `UpdatesAreNotLost` `CommitsAreInTime` `PendingStays` · `HistoryStaysSound` |
| `AgentJobsProofs` | 2,262 | `SupervisionStaysSound` `SupervisorTypeCorrect` `BackoffStaysMonotone` · `AgentStaysInv` `JobsStaySound` `CheckpointsStayTrue` `CancelsStopEffects` `SettledJobsStay` · `ReportsFollowSupervisor` `AgentHostStaysSupervised` · `CallsStaySound` `ClientsKeepOwnKeys` `ProviderCallsStaySound` |
| `WorkerSessionsProofs` | 1,408 | `PoolEntriesSound` `OwnConfigurationServes` `LatestStaysCancellable` `PoolComesToRest` · `InstalledStaysInv` `InstalledStaysSound` |
| `PluginHostProofs` | 4,772 | `RpcStaysInv` `PoolCallsStayTheirOwn` `GivenUpStaysGone` · `PackagesStaySound` · `SettingsStaySound` · `PipelineStaysSound` · `RequestsStaySound` |

All are machine-checked to the last leaf. The arguments:

**Bus.** `BusInv` has the types, a finite ledger and the three parts of `LedgerExact` together,
because none is inductive alone. Whether a decrement is right depends on exact counters;
whether a `Begin` is within quota depends on the counters counting the ledger; and whether
an eviction removes an *ended* call, and so leaves the counters alone, depends on an exact
tombstone queue. One lemma (`EndPreserves`) covers every ending, for any sequence of distinct
pending calls; `Finish` and `Cancel` cite it with one call, the sweep with `ExpiredOrder`,
which shows that it ends each expired call exactly once.

**Gateway.** `GatewayInv` adds to `BusInv` where every call is: `CallsPlaced` (which fields a
step needs), `AdmissionsHeld` (an admitted call's handle names a pending call of the ledger,
and no two calls hold one), `LeasesFollow` (the lease of a reverse call is the one issued for
it) and `Countable` (a one-to-one map between running calls and pending admissions, from which
the equality of the two numbers in `GatewaySound` follows). That admission and audit agree
then follows step by step. The invariant was checked by TLC before it was proved.

**Refinement.** `GatewayImplementsBus` and `GatewayImplementsPolicy` show that each step of the
gateway, whatever its threads are doing, is a step of `BusSpec` and of the policy's
specification, or changes nothing of theirs. Both need `IssuedInv`: a call is never ahead of
the clock, and a lease presented to the bus is one the policy issued, so that it is among
those the bus may be shown. The theorems of the two components therefore hold of the
composition: `AdmissionsEndOnce` and `WorkerAuthorityEnds` carry two of them over.

**Locks.** For any number of calls, asking for anything, no set of calls waits for one
another. `Rank` orders the locks of `KernelState` (`entry` and `record`, then `blobs` and
`sessions`, then the rest, then `projects`); the outside has a rank too. `Follows(s, h, b)` says
that a script takes its locks upwards from `b` with `h` held before each step. Every handler's
script is put together from pieces that fit (`InTurnFits`, `WithFits`), so that a new handler is
proved by the pieces it uses, and one in another order cannot be. In a set of calls that
wait for one another nobody can hold a lock of the highest rank, nor then of the next one,
and so on down to none, which needs no finiteness. The same invariant shows that a call
that waits outside holds only locks of the first two ranks.

**Policy.** `PolicyInv` adds `LeaseFollowsGrant`, which ties each lease to the grant in
`grantOf`; the property itself speaks of authorizations only and would not survive a step.
It deliberately does not say that a lease ends with its grant: a renewal breaks that
(section 5). **Inside RPC.** `LedgerInv`: what was granted and accepted is what the record of the
call counts, and an ended call has no window left. **Surfaces.** `SurfacesInv`: every live
chain is in one place only (pending in its session, or in the call of one thread), with the
deadline of its beginning and its requests counted.

**Patches.** `PatchesInv` adds that proposal ids not given out yet are neither live nor
committed (`Unused`), without which a new proposal might inherit a count. A registry on its
own is `Sound`; lemmas show that `Cleaned` and `WithRoom` keep it sound and leave what awaits
review in time alone, and each operation cites them.

**Supervisor and jobs.** `SupervisorInv` is the types without the delays, with
`StopIsObeyed` and `RestartBudgetKept`; `SupervisorTypeCorrect` adds the delays. `AgentInv`:
`GateCounts` (the permits and slots taken are the tasks between taking and giving back),
`TasksPlaced`, `DocumentsPlaced` (a batch's current document is in the state its place in the
pipeline says, or was cancelled), and the two properties about checkpoints and effects.

**Pool and protocol.** `SessionsInv` says for every place a thread can stop at which lock,
entry, process and flag it has; the properties of the pool are read off it. `RpcInv`: the
streams of a pooled process hold only messages with the id of the call they were made for,
the process of a call was started, and the process of a call that was given up is gone; the
worker itself is free to send anything.

**Packages.** `PackagesInv` has three parts. The types say, for every place a job can stop at,
which package, key and list of files it has left. `DiskInv`: a job that writes a directory no
other job wrote is alone in it, and what lies there and what it has still to write are
together the files of its package (`Staged`), so that what it renames into place is whole. While no two operations have crossed
on the list of removed plugins (`Uncrossed`), removals and installations are never under way
together, one job at most rewrites the list and holds its present content, and a discovery
has seen every key that is gone. The last part is what makes "removed stays removed"
inductive: the property alone does not say what a discovery that has read the list will do.

**Settings.** Torn files and clashing commands are allowed from the start; `SettingsInv` says
first that the document and all that is about to replace it are whole. While no two commands
have crossed (`InTurn`), it says what a writer promises at each of its steps: before the
replacement its document agrees with the one on disk for all other plugins and has, for its
own, everything saved so far and everything it changes; after it, the disk has. A write that
fails keeps what was saved because until the rename the disk still has it. That a plugin runs
on valid values, and what a launch does with a credential a test found, are facts about the
operators alone, for any manifest and document (`EffectiveValues`; `TestFinds` and `SameCredential` for
one provider; `TestedIsEquipped` and `AlwaysLaunchedAsTested` for all of a worker). Both
invariants were checked by TLC before they were proved.

**Registries.** A queue of events holds the last sequence numbers without a gap (`RegistriesInv`):
its k-th record has the number of the newest minus what stands behind it. That makes "in order"
arithmetic instead of a statement about subsequences, for the events of a subscription and
for the audit ring, and eviction from the front keeps it. What a reader was given is older than all
that is kept, so nothing is given twice.

**Blobs.** The sum of the sizes of a finite set of things is the cardinality of a set of
units, one pair of a thing and a number up to its size for each byte. Adding, removing and
replacing an upload are then facts about cardinalities, which the library proves; that a
rollback subtracts exactly what the begin added follows for any contents and quotas. The
invariant says that no upload exceeds what it announced and that every read lease pins a blob
that is stored, which is what makes the sweep safe.

**Reports of the import.** Each report of a batch, and the stop of the agent host, is a step of
`WorkerSupervisor` (`ReportsFollowSupervisor`), so that `SupervisionSound` holds of the agent host
too, which the run of the supervisor alone does not show.

**Operation tables.** What a call requires, what the shell was granted and what the dispatch can
run are three tables of the code. `AdmissionInv` says of each call, outer or asked for by a worker,
that it was denied only what the bus does not register or `blob.write` without a lease, and that
none past admission is left without a handler. An operation added to two tables and not to the
third breaks the proof.

**Provider calls.** Requests are counted where the call stands: after n attempts, the last one
perhaps repaired, no more than n requests and n repairs went out. An upload is either known to
the call and asked to be deleted before it ends, or was lost with its answer. A client
carries the key entered for its own provider because the keys in memory are, at every step, what
was entered last for each, and no step reads the shared file back.

**Installed plugins.** `InstalledInv` says that the record of the plugin was soundly read
(`SoundlyRead`): it passed the rules of its own format when it was read, with its workers inside the
package. Files written again later do
not touch that; the launch and the pages served are compared with what was read, so what differs
is refused. The proof needs no list of packages, only the rules of `PluginManifest`.

**History.** The invariant says for every place a save can stop at what the file, the index
and the newest commit hold as long as nobody has overtaken it. The patch of a history is
defined by recursive functions over operations and commits; "each commit once, and of each
entity one change" is shown by the least counterexample (`WFMin` of the natural numbers), for any number of versions.

**Document pipeline.** `PipelineInv` says, beside the types: which sections are kept when the task
asks for a pass (`KeptIs`: those with text before the cursor, each once and in order); that the task
is recovering exactly while the last record of the audit asks for it (`AuditIs`); which outcomes
its place implies (`OutcomesAre`); that the activity shown is what was heard; and that the model was
asked at most twice for each pass behind the task, besides the calls of the pass at hand
(`CallsAreCounted`), which bounds them for any number of sections.

**Document requests.** The fields of a request lie over every other layer (`DirectLiesOver`), and
of the spellings of the endpoint none that comes first is set below. The gate of a file adds up what it has seen of its parts, so what was measured
up to the last part is the sum the limits are about.

### What stays with TLC

- Liveness under fairness, and anything with `ENABLED`: `OperationsReturn`, `BatchesSettle`.
- `GraphAnswersSound`: the algorithms of the compiler are recursive, and their results are compared
  with definitions by walks; that holds by induction over data, which the prover cannot do.
- `DocumentAgentSound` as a whole. Two of its parts are theorems (`PipelineStaysSound`,
  `RequestsStaySound`); the other two stay with TLC, since `KimiStream` drains its buffer by a
  RECURSIVE operator and `DocumentText` divides a text recursively.
- That the pieces of `merge_truncated_output` overlap as the code assumes, and what the
  extraction of JSON finds: operators on texts, checked on the small texts of the run.
- The refinement of a versioned register has no theorem yet (section 6).

Induction over data is out of reach as a rule, because the induction theorems of the library take
an operator as a parameter. The exceptions above (history, sums) go through a set instead: a least
counterexample, or a cardinality.

## 5. Divergences

Five are checked: in each of the violation runs TLC shows that the code does not do what a
text of the repository says of it.

1. **The agent worker never restarts** (`agent_jobs_restart`). The `Restart` action is dropped
   (`agent_commands.rs:764`) and nobody observes the retry timer;
   `docs/architecture/kernel-lifecycle.md:101` says "Crash | Exponential restart, up to three
   attempts".
2. **A package that cannot be read stops the catalog** (`plugin_install_poison`). `read_installed_plugin`
   answers from a process-wide cache by path (`plugins.rs:2074`), and the staging directory of a
   key has one path; only the destination is invalidated (`plugins.rs:2579`). Install a package,
   uninstall it, install another of the same key whose entry file is not what its manifest says,
   all one after the other: the last is "verified" by the manifest cached of the first and renamed into
   place, and from then on `query_installed_plugins_from` leaves through `?` (`plugins.rs:3016`) for every
   plugin, until the directory is removed by hand. The comment at `plugins.rs:2648` says "A bad package must not poison
   discovery; skip it and continue.", and the repository's `README.md:47` "**Atomic install** — staged
   extraction, verified identity, then atomically renamed into `installed/`". (The loop that comment
   stands in does skip what it cannot install.)
3. **`graph.patch.propose` never runs** (`propose_never_admitted`). It is registered with
   `agent.graph.patch.propose` (`kernel_commands.rs:981`), while policy and grant use
   `graph.patch.propose`; `docs/architecture/python-worker-rpc.md:100` describes what it stores.
4. **A history keeps one addition** (`history_additions`). `dedup_operations`
   (`workspace_host.rs:698`) reads the identifier with a JSON pointer without its slash, so all
   additions count as one; the comment at 680 says additions are merged by identifier.
5. **An uninstalled plugin's pooled worker runs on** (`uninstalled_worker`).
   `dispatch_plugin_uninstall` (`kernel_commands.rs:2976`) closes the manager's sessions only;
   `docs/architecture/anyway-kernel-host-architecture.md:253` says "No worker outlives its owner
   leases after stop, crash, uninstall, or revocation."

The rest came up while reading. The models follow the code.

*Where a text says otherwise*

| Text | Code |
|---|---|
| `docs/architecture/capability-policy.md:96`: "a lease may end earlier than its grant maximum, but never later" | `renew_lease` (`kernel/policy.rs:823`) does not know the grant |
| `docs/architecture/python-worker-rpc.md:76`: the sequence ends with "and revokes the lease" | when `begin` refuses, `dispatch_worker_host_operation` (`kernel_commands.rs:2446`) returns first; the lease ends by its expiry |
| `docs/architecture/host-bus-runtime.md:14`: "A `RequestId` is single-use for the lifetime of the in-memory ledger" | only while its tombstone is kept; the same page bounds the tombstones |
| `kernel/bus.rs:310`: "Opaque capability to finish or cancel one admitted call" | matched by id and principal, so after eviction and reuse an old handle names the new call |
| `docs/architecture/python-worker-rpc.md:5`: "The Host launches one process per installed `pluginId@version`" | an entry leaves the map before its process has stopped, so for the time of one request there may be two |
| `docs/architecture/python-worker-rpc.md:90`: a configuration fingerprint "retires the old process" | settings are read before the pool is entered, so a slow request may replace a newer process by an older configuration |
| the same page: "Every request/response pair has a correlation ID" | the manager takes its ids from its callers, so a later call may take the late answer of an earlier one with the same id |
| `kernel/identity.rs:324`: "Renewal requires the lease to be currently active" | active at the epoch given, a clock reading from the start of the call |
| `kernel/audit.rs:3`: one event "per Host SDK call that reaches the kernel gateway" | a call the bus refuses is not recorded (`kernel_commands.rs:1470`) |
| `docs/architecture/kernel-lifecycle.md:93`: an old incarnation is not reported healthy | observations carry no incarnation |
| `docs/architecture/kernel-lifecycle.md:109`: a stable-health interval resets the budget | the ticks accumulate and survive a stop |
| `agent_host.rs:30`: any stage may go to FAILED | a Queued job cannot be failed |
| `agent_commands.rs:628`: a cancelled job ends its next stage cleanly | the refused advance is an error, and the batch is reported unhealthy |
| `docs/architecture/README.md:31`: "revision-checked GraphPatch commit" | removing and syncing a project again lets another one with the same name and revision take the patch |
| `graph_compiler/mod.rs`: any change of a field changes the file's hash | the order of arrays and white space are invisible to every hash |

*Observations, by component* (each is how the model behaves too, where it is modelled)

- **Kernel.** `BlobStore::sweep` (`kernel/blob.rs:659`) and `HostBus::cancel_expired`
  (`kernel/bus.rs:567`) are called by tests only; expired subscriptions and services count
  against their caps; `event.poll` with its default limit of 0 takes nothing; surface sessions
  are never removed (cap 256). A failed attach of a selected file leaves its read lease until
  it is swept (`kernel_commands.rs:1951`). `blob.write` is registered but not granted at start.
- **Surfaces.** `apply_worker_response` with a continuation overwrites the model before it can
  fail; the answer of an older chain may overwrite the pending continuation of a newer one.
- **Workers.** A blocking write to stdin has no deadline (`python_worker.rs:163`, `680`), so a process
  that stops reading holds its entry, and with it every request and settings write of the
  plugin. Two requests with different configurations may replace each other's entries without end
  (section 3, fairness). An
  oversize event or Host result keeps a pooled session whose streams are out of step. The
  manager keeps a dead session after a deadline or a cancel; `drop_session` goes by id and may
  drop a newer one; cancelling a call that still waits kills the process of the one that runs;
  the map of sessions is locked while a process starts; an `open` validated before an
  uninstallation may insert its session afterwards. `close` and `settings.write` block a thread of
  the runtime while a call runs.
- **Packages and settings.** The digest and the installation read the package separately; a
  refused copy stays in the directory and is installed without the gate at the next discovery;
  concurrent installations share one staging directory; a failed one cannot be retried in the
  same process; the number of active digests is capped at 64. Settings are read, changed and
  written without a lock. `resolve_latest_host_secret` takes the greatest version by text order.
  A connection is tested with a credential a launch may resolve differently: `auto` and a variable
  name saved blank mean something to a launch only, and the plan of a supervised worker
  (`plugins.rs:2796`) goes by the kind of the connection and ignores the chosen source. A provider
  without a URL, with an undeclared one or with an unknown source ends the launch of the whole worker.
  When the program stops between the removal of a plugin's directory and the record of it
  (`plugins.rs:723`), a bundled package comes back at the next start.
- **Manifests.** A v1 agent descriptor may bring a worker that repeats an id of `workers` (the
  first wins) and whose egress no connection is held against. Ids in the `ui` of a v2 contract
  need not differ; `forbiddenHostOperations` is never compared with `hostOperations`; an
  ExtensionPlugin with only `engines.worker` is refused; flat v2 manifests lose `update` and
  `provides`; the export commands of a ProviderPlugin cannot pass `require_plugin_export_format`;
  the recorded `entry_sha256` of an AnalysisPlugin is not compared when it runs.
- **Compiler.** Data keys such as `page`, `status` or `quote` are stripped from claims at any
  depth, so an edit there shows in the hash of the file only. With a repeated id the later
  entity's hash replaces the earlier, and two entities that swap ids keep the root hash. Chain
  layouts place dangling ends as nodes; a pinned place may coincide with a computed one. The
  bounded depth-first visit can miss nodes within its depth; the minimal size of contradiction
  chains need not be minimal; `all_shortest_paths` ignores which nodes are active; cycles are
  told apart by their set of nodes.
- **Projects and history.** Updates are merged newest first, so the oldest is kept; removals of
  nodes are keyed by `edgeId` and merge into one; ids of nodes and edges share one space; a torn
  version makes the next difference add everything again; edges whose ends lie before the last
  200 commits dangle. Concurrent autosaves may commit a file that is torn or another call's; a
  message that is too long is refused after the file was written and staged.
- **Models.** `merge_truncated_output` drops an overlap that is a coincidence; slicing inside a
  character of several bytes panics (`llm_client.rs`, at 331 and near 435 and 712); the cache evicts any
  key; an answer without choices is empty text; an upload whose answer is lost stays at the
  provider, also when it is retried; `clear_api_key` removes the shared key file.
- **Streams.** The filter for private frames depends on how the stream is cut once a frame is
  longer than its buffer; a stream cut in the middle of an event's line ends in an error that is
  not retried.
- **Documents.** Offsets of sections are bytes but `section_text` (`pdf_agent_v4.rs:289`) counts
  characters; a document without numbered headings always ends in "Pass B produced no
  fragments"; a cancel during the model calls takes effect at CompilingGraphIr only; the event
  that a job completed is published before its patch is offered, and a cancelled job may have
  both; the file is read again between validation and extraction (`agent_commands.rs:1188`). A
  saved dashed `api-url` beats the `apiUrl` of a request. The ratio check of an archive goes by
  prefix, so the order of entries decides.

## 6. Not modelled, and the plan

Inside the modelled components: wire formats and the validation of fields (a refused
request leaves no state), formatting of errors; `ResetRequested` and `DisableRequested` of
the lifecycle, which no operation applies; job recovery (`create_job`, `recover_job`,
`persist_checkpoints`, `cleanup_completed`), which no command calls; revisions at 2^64 - 1;
the network requests of connection tests; the threads of the command executor, a pool
larger than the number of calls. `cancel_expired` and `sweep` are modelled although only
tests call them today: they are what the bounds of bus and store are designed around.

Components without a module: Schema v4 and the second compiler crate (pure algorithms over
bundles), the factor graph with its belief propagation (floating point), JSON repair (a
scanner of characters), the command line, the project store and history of the user
interface, the Host SDK with its queue of syncs, the plugin runtime and the virtual machine,
canvas views, icons, and the bundled plugins, which are programs behind the worker protocol.

The plan, most consequential first:

1. Theorems for the two remaining parts of `DocumentAgentSound`: `KimiStream` with its buffer
   drained by a fold instead of a RECURSIVE operator, and the division of `DocumentText` into
   chunks, whose invariant is that the chunks so far cover the text up to the cursor.
2. An abstract versioned register implemented by `GraphPatches` (compare-and-set on the revision),
   which `UpdatesAreNotLost` is half of.
3. `ProjectSync`: the project store of the user interface with undo, import and hydration and its
   queue of syncs and patches, composed with the registry of `GraphPatches`.
4. Schema v4 as functions: fibers, consistency, state difference and matching against reference
   definitions over small bundles.

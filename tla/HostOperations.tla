--------------------------- MODULE HostOperations ---------------------------
(***************************************************************************)
(* The Host Bus operations of kernel_commands.rs as the callers meet them: *)
(* three tables written by hand in two files have to agree (what the bus   *)
(* registers, what the policy requires, what the shell is granted at       *)
(* start), and each operation's handler takes the locks of KernelState in  *)
(* its own order.  A call is a thread: it is authorised, admitted, runs    *)
(* the script of its handler one lock at a time, is audited and finished.  *)
(*                                                                         *)
(* Contents of the registries are the other modules' business; here a lock *)
(* is held or not, and "outside" is a worker, a dialog, the network or the *)
(* disk answering.                                                         *)
(***************************************************************************)
EXTENDS Naturals, Sequences, FiniteSets

CONSTANTS HostCalls,    \* the calls under way, a thread each
          OfferedTo,    \* the operations each of them may ask for
          AskedBy,      \* what their workers may ask the host for meanwhile
          UserLeases    \* capabilities the shell holds a lease for

\* Two tables in one; what both have is the first's.
f ++ g == [n \in DOMAIN f \union DOMAIN g |-> IF n \in DOMAIN f THEN f[n] ELSE g[n]]

\* An operation whose capability has its own name, and some that share one.
Own(names) == [n \in names |-> n]
Shared(capability, names) == [n \in names |-> capability]

\* What create_kernel_state registers: the capability the bus asks for.
PluginRoutes ==
    Shared("plugin.catalog.read", {"plugin.list"})
    ++ Own({"plugin.frontend.resolve", "plugin.files.pick", "plugin.worker.open",
            "plugin.worker.call", "plugin.worker.cancel", "plugin.worker.close"})

SurfaceRoutes ==
    Own({"plugin.artifact.save", "service.register", "service.call", "plugin.surface.state",
         "plugin.surface.action", "plugin.surface.host-action", "plugin.surface.file-attach",
         "plugin.settings.read", "plugin.settings.read-trusted", "plugin.settings.write",
         "plugin.settings.reset", "plugin.connection.test", "plugin.install",
         "plugin.uninstall", "plugin.vsix.import"})

BlobRoutes ==
    Own({"blob.write", "blob.read", "blob.upload.begin", "blob.upload.chunk", "blob.upload.commit"})

GraphRoutes ==
    Own({"project.save", "project.import", "graph.compile", "graph.diff", "graph.project.sync",
         "graph.project.get", "graph.project.remove", "graph.project.cleanup-session"})
    ++ Shared("agent.graph.patch.propose", {"graph.patch.propose"})
    ++ Shared("agent.review.request",
              {"graph.patch.get", "graph.patch.review", "graph.patch.cleanup-session"})

WorkspaceRoutes ==
    Own({"plugin.analysis.run", "workspace.folder.list", "workspace.git.read",
         "workspace.github.read", "workspace.folder.scan", "workspace.git.init",
         "workspace.github.ssh.generate", "workspace.github.login",
         "workspace.github.ssh.upload", "workspace.git.autosave", "plugin.icon-theme.read"})

\* The mutated form: one capability for all of them.
AgentRoutesShared ==
    Shared("agent.job", {"agent.job.status", "agent.job.list", "agent.batch.status",
                         "agent.job.review", "agent.job.cancel", "agent.job.start",
                         "agent.batch.start"})

AgentRoutes ==
    Own({"agent.job.status", "agent.job.list", "agent.batch.status", "agent.job.review",
         "agent.job.cancel", "agent.job.start", "agent.batch.start"})

DomainRoutes ==
    Shared("graph.storage.write", {"graph.storage.put"})
    ++ Shared("graph.storage.read", {"graph.storage.query"})
    ++ Shared("graph.ir", {"graph.ir.compile", "graph.ir.query"})
    ++ Shared("host-bus.lease", {"lease.renew"})
    ++ Shared("host-bus.event", {"event.subscribe", "event.publish", "event.poll"})
    ++ Own({"worker.spawn", "audit.read"})
    ++ Shared("host-bus.worker", {"worker.stop"})
    ++ Shared("host-bus.service", {"service.list", "service.unregister"})
    ++ Shared("blob.manage", {"blob.list", "blob.release"})

Routes == PluginRoutes ++ BlobRoutes ++ SurfaceRoutes ++ GraphRoutes ++ WorkspaceRoutes
          ++ AgentRoutes ++ DomainRoutes

\* What CapabilityPolicy::operation_requirement asks for.
PluginRequirements ==
    Shared("plugin.catalog.read", {"plugin.list", "plugin.catalog.read"})
    ++ Own({"plugin.frontend.resolve", "plugin.files.pick", "plugin.worker.open",
            "plugin.worker.call", "plugin.worker.cancel", "plugin.worker.close", "blob.read",
            "blob.write", "blob.upload.begin", "blob.upload.chunk", "blob.upload.commit",
            "plugin.artifact.save", "rpc.invoke", "graph.read", "graph.patch.propose",
            "graph.project.sync", "graph.project.get", "graph.project.remove",
            "graph.project.cleanup-session", "ui.register", "worker.spawn", "network.request",
            "filesystem.read", "filesystem.write", "process.spawn", "service.register",
            "service.call", "plugin.surface.state", "plugin.surface.action",
            "plugin.surface.host-action", "plugin.surface.file-attach",
            "plugin.settings.read"})
    ++ Shared("agent.review.request",
              {"graph.patch.review", "graph.patch.get", "graph.patch.cleanup-session"})

HostRequirements ==
    Own({"plugin.settings.read-trusted", "plugin.settings.write", "plugin.settings.reset",
         "plugin.connection.test", "plugin.install", "plugin.uninstall", "plugin.vsix.import",
         "project.save", "project.import", "graph.compile", "graph.diff", "plugin.analysis.run",
         "workspace.folder.list", "workspace.git.read", "workspace.github.read",
         "workspace.folder.scan", "workspace.git.init", "workspace.github.ssh.generate",
         "workspace.github.login", "workspace.github.ssh.upload", "workspace.git.autosave",
         "plugin.icon-theme.read", "agent.job.status", "agent.job.list", "agent.batch.status",
         "agent.job.review", "agent.job.cancel", "agent.job.start", "agent.batch.start",
         "audit.read"})
    ++ Shared("graph.storage.write", {"graph.storage.put"})
    ++ Shared("graph.storage.read", {"graph.storage.query"})
    ++ Shared("graph.ir", {"graph.ir.compile", "graph.ir.query"})
    ++ Shared("host-bus.lease", {"lease.renew"})
    ++ Shared("host-bus.event", {"event.subscribe", "event.publish", "event.poll"})
    ++ Shared("host-bus.worker", {"worker.stop"})
    ++ Shared("host-bus.service", {"service.list", "service.unregister"})
    ++ Shared("blob.manage", {"blob.list", "blob.release"})

Requirements == PluginRequirements ++ HostRequirements

\* What the shell holds at start: CapabilityPolicy::with_principals.
PluginGrants ==
    {"plugin.catalog.read", "plugin.frontend.resolve", "plugin.files.pick", "plugin.worker.open",
     "plugin.worker.call", "plugin.worker.cancel", "plugin.worker.close", "blob.read",
     "graph.patch.propose", "agent.review.request", "graph.project.sync", "graph.project.get",
     "graph.project.remove", "graph.project.cleanup-session", "blob.upload.begin",
     "blob.upload.chunk", "blob.upload.commit", "plugin.artifact.save", "graph.read",
     "ui.register", "rpc.invoke", "service.register", "service.call", "plugin.surface.state",
     "plugin.surface.action", "plugin.surface.host-action", "plugin.surface.file-attach",
     "plugin.settings.read", "plugin.settings.read-trusted", "plugin.settings.write",
     "plugin.settings.reset"}

HostGrants ==
    {"plugin.connection.test", "plugin.install", "plugin.uninstall", "plugin.vsix.import",
     "project.save", "project.import", "graph.compile", "graph.diff", "plugin.analysis.run",
     "workspace.folder.list", "workspace.git.read", "workspace.github.read",
     "workspace.folder.scan", "workspace.git.init", "workspace.github.ssh.generate",
     "workspace.github.login", "workspace.github.ssh.upload", "workspace.git.autosave",
     "plugin.icon-theme.read", "agent.job.status", "agent.job.list", "agent.batch.status",
     "agent.job.review", "agent.job.cancel", "agent.job.start", "agent.batch.start",
     "graph.storage.write", "graph.storage.read", "graph.ir", "host-bus.lease",
     "host-bus.event", "worker.spawn", "host-bus.worker", "host-bus.service", "audit.read",
     "blob.manage"}

Grants == PluginGrants \union HostGrants

----------------------------------------------------------------------------
\* Scripts: what a handler does with the locks, in order.  A step writes or reads
\* under a lock it gives back at once, takes a lock to hold it over the steps up
\* to its drop, or waits for the outside; the others look up the plugin, start its
\* pooled worker and shut it down.  Nothing is held for reading over other steps.

Outside(what) == <<<<"outside", what>>>>
With(l, inner) == <<<<"take", l>>>> \o inner \o <<<<"drop", l>>>>

\* A critical section that waits for nothing: it needs the lock free, and no other
\* call sees it held.
Write(l) == <<<<"write", l>>>>
Read(l) == <<<<"read", l>>>>

\* query_installed_plugins looks each manifest up in the cache, and adds it.
Installed == Write("manifests") \o Write("manifests") \o <<<<"installed", "plugin">>>>
Resolved == Write("secrets")  \* resolve_worker_provider_launch_settings

\* The operations a worker may ask for, with what their handlers lock.
WorkerRoutes ==
    [o \in {"blob.read", "event.publish", "graph.storage.put", "graph.storage.query",
            "graph.ir.compile", "graph.ir.query", "graph.patch.propose"} |->
       CASE o = "blob.read" -> Write("blobs")
         [] o = "event.publish" -> Write("events")
         [] o = "graph.storage.put" -> Write("storage")
         [] o = "graph.storage.query" -> Read("storage")
         [] o = "graph.patch.propose" -> Write("proposals")
         [] OTHER -> <<>>]

\* What has no route here is answered with an error between the same locks, as an
\* operation whose handler locks nothing.
ASSUME OperationsAssumption == \A c \in HostCalls : AskedBy[c] \subseteq DOMAIN WorkerRoutes

\* policy.request compares what the bus asks for with what the policy requires.
WorkerMayAsk(o) == o \in DOMAIN Routes /\ Routes[o] = Requirements[o]

\* dispatch_worker_host_operation, called while the worker waits.
WorkerHostOperation(o) ==
    IF ~WorkerMayAsk(o) THEN Read("bus") \o Write("policy")
    ELSE Read("bus") \o Write("policy") \o Write("bus") \o WorkerRoutes[o]
         \o Write("bus") \o Write("policy") \o Write("audit")
         \o IF o = "event.publish" THEN Write("surfaces") ELSE <<>>

\* The mutated form: the surface registry stays locked meanwhile.
PooledRequestGuarded(wish) ==
    Write("pool")
    \o With("surfaces", With("entry", Outside("worker")
                     \o (IF wish = "none" THEN <<>> ELSE WorkerHostOperation(wish))))

\* request_with_host_launch: the entry is found or made, and locked for as long
\* as the worker works on the request.
PooledRequest(wish) ==
    Write("pool")
    \o With("entry", <<<<"start", "worker">>>> \o Outside("worker")
                     \o (IF wish = "none" THEN <<>> ELSE WorkerHostOperation(wish))
                     \o Outside("worker"))

\* shutdown_plugin takes the entry out of the map, then waits for its lock.
PoolShutdown == Write("pool") \o With("entry", <<<<"shutdown", "worker">>>>)

\* PluginWorkerManager::close and close_plugin.
SessionClosed == Write("sessions") \o With("record", Outside("worker"))

SurfaceScript(o, wish) ==
    CASE o = "plugin.surface.state" ->
           Installed \o Read("surfaces") \o Resolved \o PooledRequest(wish) \o Write("surfaces")
      [] o = "plugin.surface.action" ->
           Installed \o Resolved \o Write("surfaces") \o Write("controls") \o PooledRequest(wish)
           \o Write("controls") \o Write("surfaces")
      [] o = "plugin.surface.host-action" ->
           Installed \o Resolved \o Write("controls") \o PooledRequest(wish)
           \o Write("controls") \o Write("surfaces")
      \* The store stays locked while the selected file is read.
      [] o = "plugin.surface.file-attach" ->
           Installed \o With("blobs", Outside("disk")) \o Installed \o Resolved
           \o PooledRequest(wish) \o Write("surfaces")

WorkerScript(o, wish) ==
    CASE o = "plugin.worker.open" ->
           Installed \o Resolved \o With("sessions", Outside("worker"))
      \* Of the host operations a session answers blob.read only.
      [] o = "plugin.worker.call" ->
           Write("sessions") \o Write("calls") \o Write("cancellations")
           \o With("record", Outside("worker")
                             \o (IF wish = "blob.read" THEN Write("blobs") ELSE <<>>)
                             \o Outside("worker"))
           \o Write("cancellations") \o Write("calls")
      [] o = "plugin.worker.cancel" -> Write("sessions") \o Write("cancellations")
      [] o = "plugin.worker.close" -> SessionClosed

SettingsScript(o) ==
    CASE o \in {"plugin.settings.write", "plugin.settings.reset"} ->
           Installed \o Write("secrets") \o PoolShutdown \o SessionClosed
      [] o \in {"plugin.settings.read", "plugin.settings.read-trusted"} ->
           Installed \o Write("secrets")
      [] o = "plugin.connection.test" -> Installed \o Write("secrets") \o Outside("network")

\* An uninstallation closes the manager's sessions, not the pool's.
InstallScript(o) ==
    CASE o = "plugin.install" -> Outside("disk") \o Write("packages") \o Write("manifests")
      [] o = "plugin.uninstall" ->
           SessionClosed \o Write("secrets") \o Outside("disk") \o Write("manifests")
           \o <<<<"removed", "plugin">>>>
      [] o = "plugin.vsix.import" -> Outside("disk")

PluginScript(o) ==
    CASE o = "plugin.files.pick" ->
           Installed \o Outside("dialog") \o Write("blobs") \o Write("blobs") \o Write("blobs")
      [] o = "plugin.artifact.save" -> Read("blobs") \o Installed \o Outside("disk")
      [] o \in {"plugin.list", "plugin.frontend.resolve", "plugin.analysis.run",
                "plugin.icon-theme.read"} -> Installed

GraphScript(o) ==
    CASE o = "graph.patch.propose" -> Installed \o Write("proposals")
      [] o \in {"graph.patch.get", "graph.patch.cleanup-session"} -> Write("proposals")
      [] o = "graph.patch.review" -> With("proposals", Write("projects"))
      [] o = "graph.project.sync" -> Read("blobs") \o Write("projects")
      [] o = "graph.project.get" -> Read("projects")
      [] o \in {"graph.project.remove", "graph.project.cleanup-session"} -> Write("projects")
      [] o \in {"project.save", "project.import"} -> Outside("disk")
      [] o \in {"graph.compile", "graph.diff", "graph.ir.compile", "graph.ir.query"} -> <<>>

\* Each of these first asks that the workspace plugin be installed.
WorkspaceScript(o) ==
    Installed \o Outside(IF o \in {"workspace.github.login", "workspace.github.ssh.upload"}
                         THEN "network" ELSE "disk")

RegistryScript(o) ==
    CASE o \in {"blob.write", "blob.read", "blob.upload.begin", "blob.upload.chunk",
                "blob.upload.commit", "blob.release"} -> Write("blobs")
      [] o = "blob.list" -> Read("blobs")
      [] o \in {"service.register", "service.unregister"} -> Write("services")
      [] o \in {"service.call", "service.list"} -> Read("services")
      [] o \in {"event.subscribe", "event.publish", "event.poll"} -> Write("events")
      [] o \in {"worker.spawn", "worker.stop"} -> Write("supervisor")
      [] o = "graph.storage.put" -> Write("storage")
      [] o = "graph.storage.query" -> Read("storage")
      [] o = "lease.renew" -> Write("policy")
      [] o = "audit.read" -> Read("audit")
      [] o \in DOMAIN AgentRoutes -> Write("agent")

SurfaceOperations == {"plugin.surface.state", "plugin.surface.action",
                      "plugin.surface.host-action", "plugin.surface.file-attach"}
WorkerOperations == {"plugin.worker.open", "plugin.worker.call", "plugin.worker.cancel",
                      "plugin.worker.close"}
WorkspaceOperations == {"workspace.folder.list", "workspace.git.read", "workspace.github.read",
                        "workspace.folder.scan", "workspace.git.init",
                        "workspace.github.ssh.generate", "workspace.github.login",
                        "workspace.github.ssh.upload", "workspace.git.autosave"}
SettingsOperations == {"plugin.settings.read", "plugin.settings.read-trusted",
                       "plugin.settings.write", "plugin.settings.reset", "plugin.connection.test"}
InstallOperations == {"plugin.install", "plugin.uninstall", "plugin.vsix.import"}
PluginOperations == {"plugin.list", "plugin.frontend.resolve", "plugin.files.pick",
                     "plugin.analysis.run", "plugin.icon-theme.read", "plugin.artifact.save"}
GraphOperations == {"project.save", "project.import", "graph.compile", "graph.diff",
                    "graph.patch.propose", "graph.patch.get", "graph.patch.review",
                    "graph.patch.cleanup-session", "graph.project.sync", "graph.project.get",
                    "graph.project.remove", "graph.project.cleanup-session",
                    "graph.ir.compile", "graph.ir.query"}
RegistryOperations == {"blob.write", "blob.read", "blob.upload.begin", "blob.upload.chunk",
                       "blob.upload.commit", "blob.list", "blob.release", "service.register",
                       "service.call", "service.list", "service.unregister", "audit.read",
                       "lease.renew", "event.subscribe", "event.publish", "event.poll",
                       "worker.spawn", "worker.stop", "graph.storage.put",
                       "graph.storage.query", "agent.job.status", "agent.job.list",
                       "agent.batch.status", "agent.job.review", "agent.job.cancel",
                       "agent.job.start", "agent.batch.start"}

\* The match of dispatch.
Dispatched == SurfaceOperations \union WorkerOperations \union WorkspaceOperations
              \union SettingsOperations \union InstallOperations \union PluginOperations
              \union GraphOperations \union RegistryOperations

Handler(o, wish) ==
    CASE o \in SurfaceOperations -> SurfaceScript(o, wish)
      [] o \in WorkerOperations -> WorkerScript(o, wish)
      [] o \in WorkspaceOperations -> WorkspaceScript(o)
      [] o \in SettingsOperations -> SettingsScript(o)
      [] o \in InstallOperations -> InstallScript(o)
      [] o \in PluginOperations -> PluginScript(o)
      [] o \in GraphOperations -> GraphScript(o)
      [] o \in RegistryOperations -> RegistryScript(o)

----------------------------------------------------------------------------
VARIABLES op,        \* what each call asked for
          asked,     \* what its worker asks the host for, "none" when nothing
          stage,     \* where the call is
          pos,       \* the next step of its script
          holds,     \* the locks it holds
          present,   \* the plugin is installed
          pooled     \* its pooled worker is running

callVars == <<op, asked, stage, pos, holds, present, pooled>>


OperationsInit ==
    /\ op = [c \in HostCalls |-> "none"]
    /\ asked = [c \in HostCalls |-> "none"]
    /\ stage = [c \in HostCalls |-> "idle"]
    /\ pos = [c \in HostCalls |-> 1]
    /\ holds = [c \in HostCalls |-> {}]
    /\ present = TRUE
    /\ pooled = FALSE

Script(c) == Handler(op[c], asked[c])
Step(c)   == Script(c)[pos[c]]

\* The first two steps lock the policy for reading and the bus for writing, and
\* give the lock back at once; so do the last two with the audit and the bus.
NeedsNow(c) ==
    CASE stage[c] = "authorize" -> <<"read", "policy">>
      [] stage[c] \in {"begin", "finish"} -> <<"write", "bus">>
      [] stage[c] = "audit" -> <<"write", "audit">>
      [] stage[c] = "run" /\ pos[c] \in DOMAIN Script(c) -> Step(c)
      [] OTHER -> <<"nothing", "nothing">>

Waits(c, d) == NeedsNow(c)[1] \in {"take", "write", "read"} /\ NeedsNow(c)[2] \in holds[d]
MayHave(c) == \A d \in HostCalls : ~Waits(c, d)

\* kernel_host_call, as far as the request is concerned: the worker's wish only
\* matters to the operations that reach a worker.
Ask(c) ==
    /\ stage[c] = "idle"
    /\ \E o \in OfferedTo[c] :
         /\ op' = [op EXCEPT ![c] = o]
         /\ \E a \in {"none"} \union AskedBy[c] :
              /\ a = "none" \/ o \in SurfaceOperations \union {"plugin.worker.call"}
              /\ asked' = [asked EXCEPT ![c] = a]
    /\ stage' = [stage EXCEPT ![c] = "authorize"]
    /\ UNCHANGED <<pos, holds, present, pooled>>

\* authorize_for_bus: a bootstrap grant, or a selected lease, of the capability.
Authorize(c) ==
    /\ stage[c] = "authorize"
    /\ MayHave(c)
    /\ stage' = [stage EXCEPT ![c] =
         IF op[c] \in DOMAIN Requirements /\ Requirements[op[c]] \in Grants \union UserLeases
         THEN "begin" ELSE "denied"]
    /\ UNCHANGED <<op, asked, pos, holds, present, pooled>>

\* HostBus::begin: the lease just obtained has to cover what was registered.
AdmitCall(c) ==
    /\ stage[c] = "begin"
    /\ MayHave(c)
    /\ stage' = [stage EXCEPT ![c] =
         CASE op[c] \notin DOMAIN Routes -> "unrouted"
           [] op[c] \in DOMAIN Routes /\ Routes[op[c]] # Requirements[op[c]] -> "refused"
           [] OTHER -> IF op[c] \in Dispatched THEN "run" ELSE "unhandled"]
    /\ UNCHANGED <<op, asked, pos, holds, present, pooled>>

AfterStep(c) == IF pos[c] = Len(Script(c)) THEN "audit" ELSE "run"

\* One step of the handler.  A plugin that is not installed ends it with an error.
RunStep(c) ==
    /\ stage[c] = "run"
    /\ pos[c] \in DOMAIN Script(c)
    /\ MayHave(c)
    /\ LET kind == Step(c)[1]
           what == Step(c)[2]
           stops == kind = "installed" /\ ~present
       IN /\ holds' = [holds EXCEPT ![c] =
                 CASE kind = "take" -> @ \union {what}
                   [] kind = "drop" -> @ \ {what}
                   [] OTHER -> @]
          /\ pooled' = CASE kind = "start" -> TRUE [] kind = "shutdown" -> FALSE [] OTHER -> pooled
          /\ present' = (present /\ kind # "removed")
          /\ stage' = [stage EXCEPT ![c] = IF stops THEN "audit" ELSE AfterStep(c)]
    /\ pos' = [pos EXCEPT ![c] = IF stage'[c] = "run" THEN @ + 1 ELSE 1]
    /\ UNCHANGED <<op, asked>>

\* A handler that takes no lock: pure computation.
RunPure(c) ==
    /\ stage[c] = "run"
    /\ Script(c) = <<>>
    /\ stage' = [stage EXCEPT ![c] = "audit"]
    /\ UNCHANGED <<op, asked, pos, holds, present, pooled>>

\* Any step of a handler may fail; it returns through ?, which drops the guards.
HandlerFails(c) ==
    /\ stage[c] = "run"
    /\ NeedsNow(c)[1] # "nothing" /\ MayHave(c)
    /\ holds' = [holds EXCEPT ![c] = {}]
    /\ stage' = [stage EXCEPT ![c] = "audit"]
    /\ pos' = [pos EXCEPT ![c] = 1]
    /\ UNCHANGED <<op, asked, present, pooled>>

AuditCall(c) ==
    /\ stage[c] = "audit"
    /\ MayHave(c)
    /\ stage' = [stage EXCEPT ![c] = "finish"]
    /\ UNCHANGED <<op, asked, pos, holds, present, pooled>>

FinishCall(c) ==
    /\ stage[c] = "finish"
    /\ MayHave(c)
    /\ stage' = [stage EXCEPT ![c] = "done"]
    /\ UNCHANGED <<op, asked, pos, holds, present, pooled>>

OperationsNext ==
    \E c \in HostCalls : \/ Ask(c) \/ Authorize(c) \/ AdmitCall(c) \/ RunStep(c) \/ RunPure(c) \/ HandlerFails(c)
                         \/ AuditCall(c) \/ FinishCall(c)

OperationsSpec == OperationsInit /\ [][OperationsNext]_callVars
----------------------------------------------------------------------------
\* The locks every call of the gateway passes through, and those of the
\* registries that a worker's own host operations need.
CoreLocks == {"bus", "policy", "audit", "surfaces", "events", "storage", "proposals", "projects"}

\* Whatever operations run together, no set of calls waits for one another, a
\* call never waits for a lock it holds itself, and a call that waits for a
\* worker, a dialog, the network or the disk holds none of the locks that all
\* other calls need (the guards of kernel_commands.rs, graph_patch.rs,
\* plugin_worker.rs and plugin_surfaces.rs).
LocksSound ==
    /\ \A S \in (SUBSET HostCalls) \ {{}} : \E c \in S : \A d \in S : ~Waits(c, d)
    /\ \A c \in HostCalls :
         NeedsNow(c)[1] = "outside" => holds[c] \intersect CoreLocks = {}
    /\ \A c \in HostCalls : stage[c] # "run" => holds[c] = {}

\* A call the policy authorised runs its handler: the bus asks for no other
\* capability than the policy did, and dispatch knows every operation the bus
\* registers.  graph.patch.propose is the exception ProposalsReachTheGate is about.
AuthorizedCallsRun ==
    \A c \in HostCalls :
      /\ stage[c] = "refused" => op[c] = "graph.patch.propose"
      /\ stage[c] # "unhandled"
      /\ stage[c] = "denied" => op[c] \notin DOMAIN Routes
      /\ stage[c] = "run" => asked[c] \in {"none", "graph.patch.propose"} \/ WorkerMayAsk(asked[c])

\* A plugin's graph.patch.propose reaches the registry of proposals: what
\* python-worker-rpc.md and capability-policy.md say of the operation.
ProposalsReachTheGate ==
    \A c \in HostCalls : op[c] = "graph.patch.propose" => stage[c] # "refused"

\* After an uninstallation has returned, no worker of the plugin runs on
\* (invariant 6 of anyway-kernel-host-architecture.md).
UninstalledWorkersAreGone ==
    (\E c \in HostCalls : op[c] = "plugin.uninstall" /\ stage[c] = "done") => present \/ ~pooled
=============================================================================

-------------------------- MODULE InstalledPlugins --------------------------
(* What is read of an installed package (plugins.rs) and what the host then does with it:
   launches its workers, runs its calls, serves its frontend, tests its connections.

   A file is [inside, size, bytes, holds]: whether its path, with links followed, stays in
   the directory; how large it is; which version of it is there; and what it holds, a pair
   of a kind and the content.  Files may change after they were read, as they do when a
   package is developed in place. *)
EXTENDS PluginManifest

CONSTANTS
  PackagesRead,      \* [document, files]
  Held,              \* settings that hold a secret
  Variables,         \* names of the environment with a value
  AnalysisCalls,     \* [version, operation, context]
  Requested          \* test actions asked for; <<>> for the first

\* A descriptor of an agent, and a package: a document in either format, and its files.
ContractItems == [id : Names, slot : Names, export : Names]
IsDescriptor(d) ==
  /\ d.schema = 1 => IsOptional(d.worker, WorkerDescriptors)
  /\ d.schema = 2 => d.frontend.ui \in Seq(ContractItems)
IsPackage(p) ==
  /\ DOMAIN p = {"document", "files"}
  /\ "manifest" \in DOMAIN p.document /\ IsManifest(p.document.manifest)
  /\ \A path \in DOMAIN p.files :
       /\ DOMAIN p.files[path] = {"inside", "size", "bytes", "holds"}
       /\ p.files[path].holds[1] = "agent" => IsDescriptor(p.files[path].holds[2])

ASSUME PackagesAssumption == \A p \in PackagesRead : IsPackage(p)

\* What the host itself calls the running of an analysis and of a menu action.
ASSUME HostNamesAssumption == Slug("analysis.run") /\ Slug("context-menu")

VARIABLES
  package,   \* the package whose manifest was accepted, if any
  plugin,    \* what was read of it: <<>> before, and after when it cannot be read
  answer     \* what was asked of it

installedVars == <<package, plugin, answer>>

NoPackage == [document |-> <<>>, files |-> <<>>]
NoAnswer == [op |-> "none"]

-----------------------------------------------------------------------------
(* Files *)

Holds(files, path, kind) == path \in DOMAIN files /\ files[path].holds[1] = kind

\* validate_worker_entrypoint, resolve_installed_relative_file: a file whose path, with
\* links followed, is in the directory.
EntryInside(files, path) == path \in DOMAIN files /\ files[path].inside

ValidProvider(d) ==
  d.schema = 1 /\ d.type = "openai-compatible" /\ d.base \in {"https", "local"} /\ d.path # ""

\* The bundles of translations: at most 2000 messages, each of them bounded.
BundlesRead(files, paths) ==
  \A p \in paths : Holds(files, p, "bundle") /\ files[p].holds[2] <= 2000

\* read_ui_ir_contributions: an inline document is ignored with all others.
UiFile(path, suffix) == Len(path) = 2 /\ path[1] = "ui" /\ EndsIn(path, suffix)
Shown(m) == IF m.uiIr = <<>> \/ \E r \in Range(Given(m.uiIr)) : r.inline THEN <<>> ELSE m.uiIr[1]
UiIrRead(m, files) ==
  /\ Len(Shown(m)) <= 16
  /\ \A r \in Range(Shown(m)) :
       /\ Slug(r.slot) /\ UiFile(r.source, ".vue") /\ UiFile(r.artifact, ".uiir.json")
       /\ {r.source, r.artifact} \subseteq DOMAIN files
       /\ files[r.source].size <= 512 /\ files[r.artifact].size <= 256
       /\ Holds(files, r.artifact, "ir")

-----------------------------------------------------------------------------
(* agent-manifest.json *)

WithWorker(m, d) == IF d.schema = 1 /\ m.worker = <<>> THEN [m EXCEPT !.worker = d.worker] ELSE m

\* The first schema: its worker becomes the plugin's when the manifest has none.
AcceptsV1(d, m, files) ==
  /\ d.mode = "agent" /\ d.gated /\ Len(d.capabilities) <= 128 /\ IsInjective(d.capabilities)
  /\ Range(d.capabilities) \subseteq m.capabilities
  /\ \A w \in Range(WithWorker(m, d).worker) : ValidWorker(w) /\ EntryInside(files, w.entry)

AcceptsFrontend(c, m) ==
  /\ c.mode = "trusted-module" /\ c.framework = "vue3" /\ RelativePath(c.entry) /\ EndsIn(c.entry, ".mjs")
  /\ Len(c.exports) \in 1 .. 64 /\ \A x \in Range(c.exports) : ExportName(x)
  /\ m.frontend = <<[mode |-> c.mode, entry |-> c.entry, framework |-> c.framework, api |-> c.api]>>
  /\ m.ui # <<>> /\ Len(c.ui) = Len(m.ui[1])
  /\ \A x \in Range(c.ui) :
       LET item == FirstWith(m.ui[1], x.id)
       IN /\ WireIdentifier(x.id) /\ x.export \in Range(c.exports)
          /\ item # <<>> /\ item[1].slot = x.slot /\ item[1].export = x.export

\* Mutant: the operations of the contract are not held against the package's.
AcceptsAnyOperations(c, m, files) ==
  LET w == FirstWith(WorkersOf(m), c.id)
  IN /\ RelativePath(c.entry) /\ c.openedBy = "plugin.frontend"
     /\ c.credentials = "host-secret-injected-to-exact-worker"
     /\ Len(c.forbidden) \in 1 .. 32 /\ \A o \in Range(c.forbidden) : WorkerOperation(o)
     /\ w # <<>> /\ w[1].language = c.language /\ w[1].entry = c.entry /\ w[1].transport = c.transport
     /\ w[1].hostOperations = c.hostOperations
     /\ ValidWorker(w[1]) /\ EntryInside(files, w[1].entry)

AcceptsWorker(c, m, files) ==
  LET w == FirstWith(WorkersOf(m), c.id)
  IN /\ RelativePath(c.entry) /\ c.openedBy = "plugin.frontend"
     /\ c.credentials = "host-secret-injected-to-exact-worker"
     /\ Len(c.forbidden) \in 1 .. 32 /\ \A o \in Range(c.forbidden) : WorkerOperation(o)
     /\ w # <<>> /\ w[1].language = c.language /\ w[1].entry = c.entry /\ w[1].transport = c.transport
     /\ w[1].operations = c.operations /\ w[1].hostOperations = c.hostOperations
     /\ ValidWorker(w[1]) /\ EntryInside(files, w[1].entry)

\* The second schema: a contract over what the manifest already has.
AcceptsV2(d, m, files) ==
  /\ d.mode = "trusted-plugin" /\ d.gated /\ d.id = m.id /\ d.version = m.version /\ d.contexts
  /\ AcceptsFrontend(d.frontend, m) /\ AcceptsWorker(d.worker, m, files)

AcceptsDescriptor(d, m, files) ==
  \/ d.schema = 1 /\ AcceptsV1(d, m, files)
  \/ d.schema = 2 /\ AcceptsV2(d, m, files)

-----------------------------------------------------------------------------
(* Reading an installed package *)

EntryReads(m, files) ==
  CASE m.kind = "ThemePlugin" -> Holds(files, m.entry, "theme")
    [] m.kind = "IconThemePlugin" -> Holds(files, m.entry, "icons")
    [] m.kind = "EdgeStylePlugin" -> m.entry \in DOMAIN files
    [] m.kind = "AnalysisPlugin" -> Holds(files, m.entry, "wasm")
    [] m.kind = "WorkspacePlugin" ->
         Holds(files, m.entry, "workspace") /\ files[m.entry].holds[2] \in {"export", "folder", "git"}
    [] m.kind = "ProviderPlugin" ->
         Holds(files, m.entry, "provider") /\ ValidProvider(files[m.entry].holds[2])
    [] m.kind = "AgentPlugin" ->
         Holds(files, m.entry, "agent") /\ AcceptsDescriptor(files[m.entry].holds[2], m, files)
    [] OTHER -> TRUE

Readable(document, files) ==
  LET m == Parsed(document)
  IN /\ ValidManifest(m) /\ ValidPrivateI18n(PrivateI18n(document)) /\ UiIrRead(m, files)
     /\ \A f \in Range(m.frontend) : EntryInside(files, f.entry)
     /\ \A w \in Range(WorkersOf(m)) : EntryInside(files, w.entry)
     /\ EntryReads(m, files)
     /\ BundlesRead(files, {x.path : x \in Range(Given(m.locales))})
     /\ \A i \in Range(PrivateI18n(document)) : BundlesRead(files, Range(i.locales))

\* InstalledMycPlugin: the manifest with a descriptor's worker, and the digest of the
\* frontend that was read.
ReadPlugin(document, files) ==
  LET m == Parsed(document)
      agent == IF m.kind = "AgentPlugin" THEN <<files[m.entry].holds[2]>> ELSE <<>>
  IN IF ~ Readable(document, files) THEN <<>>
     ELSE << [declared |-> m, manifest |-> IF agent = <<>> THEN m ELSE WithWorker(m, agent[1]), agent |-> agent,
              frontend |-> [i \in DOMAIN m.frontend |-> files[m.frontend[i].entry].bytes],
              surfaces |-> Shown(m)] >>

-----------------------------------------------------------------------------
(* Its workers *)

\* The secret of a connection: the name of what it is taken from, if anything.
SecretOf(key) ==
  LET stored == IF Range(key.setting) \subseteq Held THEN key.setting ELSE <<>>
  IN IF key.source = "host-secret" THEN stored
     ELSE IF Range(key.name) \subseteq Variables THEN key.name ELSE stored

\* plugin_worker_launch_plan: <<>> when there is no such worker, its file has gone or a
\* provider is no connection.
LaunchPlan(m, files, id) ==
  LET w == FirstWith(WorkersOf(m), id)
      Secret(e) == SecretOf(FirstWith(m.connections, e.connection)[1].key)
      given == {e \in Range(w[1].egress) : Secret(e) # <<>>}
  IN IF w = <<>> THEN <<>>
     ELSE IF ~ EntryInside(files, w[1].entry) \/ ~ EgressConnected(m, w) THEN <<>>
     ELSE << [entry |-> w[1].entry, interpreted |-> w[1].language = "python",
              operations |-> w[1].operations, hostOperations |-> w[1].hostOperations,
              secrets |-> {<<e.env, Secret(e)[1]>> : e \in given}] >>

-----------------------------------------------------------------------------
(* Its calls *)

RequireCapabilities(m, capabilities) == capabilities \subseteq m.capabilities
RequireWorkspaceCapabilities(m, capabilities) ==
  m.kind = "WorkspacePlugin" /\ RequireCapabilities(m, capabilities)

RequireExportFormat(m, format) ==
  /\ RequireWorkspaceCapabilities(m, {"project.export"})
  /\ \E x \in Range(Given(m.commands)) :
       /\ x.category = "export" /\ x.capability = "project.export"
       /\ \E formats \in Range(x.formats) : format \in Range(formats)

ValidAnalysisCall(m, call) ==
  /\ call.version = "plugin-call/v1alpha1" /\ Slug(call.operation)
  /\ call.operation = "context-menu" =>
       /\ Declares(m, "context-menu.contribute")
       /\ call.context # <<>>
       /\ \E x \in Range(Given(m.menus)) : <<x.id, x.scope>> = call.context

\* execute_myc_plugin, up to the virtual machine.
MayExecute(m, capability, call) ==
  /\ m.kind = "AnalysisPlugin" /\ Slug(capability)
  /\ {"analysis.run", capability} \subseteq m.capabilities /\ ValidAnalysisCall(m, call)

\* resolve_plugin_frontend_source: the file is there as it was read.
FrontendSource(p, files, request) ==
  /\ p.manifest.frontend = <<request>> /\ request.entry \in DOMAIN files
  /\ files[request.entry].size <= 8192 /\ files[request.entry].bytes = p.frontend[1]

\* select_connection_test_action: by its id, or the first; one of the native agent's is
\* there under any manifest.
NativePdfTest == [id |-> "test-pdf-extraction", label |-> "Test PDF extraction", description |-> 0,
                  kind |-> <<"pdf-extraction">>,
                  input |-> <<[type |-> "bundled-pdf", fixture |-> <<"host-minimal-pdf-v1">>, upload |-> "may-upload"]>>]
SelectTestAction(m, c, requested) ==
  LET offered == Given(c.testActions) \o c.testAction
      native == IF m.id = "myc.pdf-canvas-agent" /\ requested = <<"test-pdf-extraction">> THEN <<NativePdfTest>> ELSE <<>>
      first == c.testAction \o Given(c.testActions)
  IN IF requested = <<>> THEN SubSeq(first, 1, IF first = <<>> THEN 0 ELSE 1)
     ELSE LET own == FirstWith(offered, requested[1]) IN IF own = <<>> THEN native ELSE own

-----------------------------------------------------------------------------
InstalledInit == package = NoPackage /\ plugin = <<>> /\ answer = NoAnswer

\* read_archive_manifest: what it refuses is not unpacked.
OpenArchive ==
  /\ package = NoPackage
  /\ \E p \in PackagesRead : ValidManifest(Parsed(p.document)) /\ package' = p
  /\ UNCHANGED <<plugin, answer>>

ReadInstalled ==
  /\ package # NoPackage /\ plugin = <<>>
  /\ plugin' = ReadPlugin(package.document, package.files)
  /\ UNCHANGED <<package, answer>>

\* A file of an installed plugin is written again, once; what was read stays in the cache.
FileChanges(path) ==
  /\ answer = NoAnswer /\ package.files[path].bytes = 1
  /\ package' = [package EXCEPT !.files[path].bytes = 2]
  /\ UNCHANGED <<plugin, answer>>

\* What is answered depends on no earlier answer: one is asked for in a behaviour.
Answered(a) == plugin # <<>> /\ answer = NoAnswer /\ answer' = a /\ UNCHANGED <<package, plugin>>

Launch(id) ==
  Answered([op |-> "launch", id |-> id, plan |-> LaunchPlan(plugin[1].manifest, package.files, id)])
Execute(capability, call) ==
  Answered([op |-> "execute", call |-> call, runs |-> MayExecute(plugin[1].manifest, capability, call)])
Export(format) ==
  Answered([op |-> "export", format |-> format, allowed |-> RequireExportFormat(plugin[1].manifest, format)])
ServeFrontend(request) ==
  Answered([op |-> "frontend", bytes |-> package.files[request.entry].bytes,
            served |-> FrontendSource(plugin[1], package.files, request)])
TestConnection(c, requested) ==
  Answered([op |-> "test", connection |-> c.id, requested |-> requested,
            action |-> SelectTestAction(plugin[1].manifest, c, requested)])

InstalledNext ==
  \/ OpenArchive
  \/ ReadInstalled
  \/ \E f \in Range(IF plugin = <<>> THEN <<>> ELSE plugin[1].manifest.frontend) : FileChanges(f.entry)
  \/ \E w \in Range(IF plugin = <<>> THEN <<>> ELSE WorkersOf(plugin[1].manifest)) : Launch(w.id)
  \/ \E call \in AnalysisCalls, capability \in {"analysis.run", "other"} : Execute(capability, call)
  \/ \E format \in {"pdf", "svg", "png"} : Export(format)
  \/ \E f \in Range(IF plugin = <<>> THEN <<>> ELSE plugin[1].manifest.frontend) : ServeFrontend(f)
  \/ \E c \in Range(IF plugin = <<>> THEN <<>> ELSE plugin[1].manifest.connections), r \in Requested :
       TestConnection(c, r)

InstalledSpec == InstalledInit /\ [][InstalledNext]_installedVars

-----------------------------------------------------------------------------
\* Whatever passes the rules of a manifest can be launched as the manifest has it: each of
\* its workers under its own id, from a file of the package, with secrets of the connections
\* it names.  A worker that the descriptor of an agent adds is held to fewer rules and may
\* take the id of another.
LaunchedAsDeclared ==
  \A p \in Range(plugin) : \A w \in Range(WorkersOf(p.declared)) :
    p.declared.worker = p.manifest.worker =>
      LET plan == LaunchPlan(p.manifest, package.files, w.id)
      IN /\ plan # <<>> /\ plan[1].entry = w.entry
         /\ plan[1].operations = w.operations /\ plan[1].hostOperations = w.hostOperations
         /\ \A s \in plan[1].secrets : \E e \in Range(w.egress), c \in Range(p.manifest.connections) :
              /\ s[1] = e.env /\ c.id = e.connection
              /\ s[2] \in Range(c.key.setting) \cup Range(c.key.name)

\* The contract an agent shows for review is what runs: its worker launches with those
\* operations and no others, and what it mounts is in the manifest.
ContractIsWhatRuns ==
  \A p \in Range(plugin) : \A d \in Range(p.agent) : d.schema = 2 =>
    LET plan == LaunchPlan(p.manifest, package.files, d.worker.id)
    IN /\ plan # <<>> /\ plan[1].operations = d.worker.operations
       /\ plan[1].hostOperations = d.worker.hostOperations
       /\ IdsDiffer(d.frontend.ui) =>
            {x.id : x \in Range(d.frontend.ui)} = {x.id : x \in Range(p.manifest.ui[1])}

\* What a plugin contributes is not refused when it is used: a menu action, a command, a
\* format of an export, a test of a connection.
ContributionsWork ==
  \A p \in Range(plugin) :
    LET m == p.manifest
    IN /\ \A x \in Range(Given(m.menus)) :
            MayExecute(m, "analysis.run", [version |-> "plugin-call/v1alpha1", operation |-> "context-menu",
                                           context |-> <<x.id, x.scope>>])
       /\ m.kind = "WorkspacePlugin" => \A x \in Range(Given(m.commands)) :
            /\ RequireWorkspaceCapabilities(m, {x.capability})
            /\ x.category = "export" /\ x.capability = "project.export" =>
                 \A formats \in Range(x.formats) : \A f \in Range(formats) : RequireExportFormat(m, f)
       /\ \A c \in Range(m.connections) : \A a \in Range(Given(c.testActions)) :
            SelectTestAction(m, c, <<a.id>>) = <<a>>

\* A frontend is handed out only as it was read, and no menu action runs that is not one of
\* the plugin's.
OnlyWhatWasRead ==
  /\ answer.op = "frontend" /\ answer.served => answer.bytes = plugin[1].frontend[1]
  /\ answer.op = "execute" /\ answer.runs /\ answer.call.operation = "context-menu" =>
        \E x \in Range(Given(plugin[1].manifest.menus)) : <<x.id, x.scope>> = answer.call.context

InstalledSound ==
  LaunchedAsDeclared /\ ContractIsWhatRuns /\ ContributionsWork /\ OnlyWhatWasRead
=============================================================================

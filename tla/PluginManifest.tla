--------------------------- MODULE PluginManifest ---------------------------
(* What a package says of itself (plugins.rs, plugin_manifest_v2.rs): the manifest, in
   either of its two formats, and the rules it is held to before anything of the package
   is unpacked and again whenever the installed plugin is read.

   A name stands for its text, which Spelling describes: how long it is, how it begins and
   ends, which letters are in it.  A path is a sequence of names, a domain one of labels,
   an optional field a sequence of at most one.  Settings and connections are held to
   further rules by PluginSettings. *)
EXTENDS Integers, Sequences, FiniteSets, Functions

CONSTANT Spelling    \* name -> [length, first, last, letters, suffix, prefix]

Names == DOMAIN Spelling
AlphaNumeric == {"lower", "upper", "digit"}
Letters == AlphaNumeric \cup {".", "-", "_", ":", "$", " ", "\\", "other"}

ASSUME SpellingAssumption ==
  \A n \in Names : /\ Spelling[n].length \in Nat /\ Spelling[n].letters \subseteq Letters
                   /\ {Spelling[n].first, Spelling[n].last} \subseteq Spelling[n].letters \cup {""}

-----------------------------------------------------------------------------
(* The parts of a manifest *)

IsOptional(v, S) == Len(v) <= 1 /\ Range(v) \subseteq S
Paths == Seq(Names)
Domains == Seq(Names)

Metadata == [id : Names, version : Names, publisher : Names, official : BOOLEAN,
             developer : Seq(BOOLEAN), update : Seq([version : Names, scheme : STRING, notes : Nat])]
Menus == [id : Names, scope : Names, label : Names, icon : Seq(Names)]
Locales == [locale : Names, name : Names, path : Paths]
Commands == [id : Names, label : Names, description : Nat, category : Names,
             capability : Names, formats : Seq(Seq(Names))]
UiItems == [id : Names, slot : Names, export : Names, when : Seq(Names)]
ApiKeys == [source : {"host-secret", "environment"}, setting : Seq(Names), name : Seq(Names)]
TestActions == [id : Names, label : Names, description : Nat, kind : Seq(Names),
                input : Seq([type : Names, fixture : Seq(Names), upload : Names])]
Connections == [id : Names, key : ApiKeys, testAction : Seq(TestActions),
                testActions : Seq(Seq(TestActions))]
Frontends == [mode : Names, entry : Paths, framework : Names, api : Names]
Networks == [mode : Names, domains : Seq(Domains)]
Egresses == [provider : Names, connection : Names, domains : Seq(Domains), purpose : Names, env : Names]
WorkerDescriptors == [id : Names, language : Names, entry : Paths, transport : Names, mediated : BOOLEAN,
            operations : Seq(Names), hostOperations : Seq(Names), egress : Seq(Egresses)]

ManifestFields ==
  {"id", "version", "publisher", "official", "developer", "update", "api", "kind", "engine", "entry",
   "language", "capabilities", "permissions", "menus", "locales", "commands", "ui", "connections",
   "frontend", "worker", "workers", "network", "payloads", "hashed", "signed", "uiIr"}

\* A manifest as the program keeps it; Spec holds what it runs and contributes.
IsManifest(m) ==
  /\ DOMAIN m = ManifestFields
  /\ [f \in {"id", "version", "publisher", "official", "developer", "update"} |-> m[f]] \in Metadata
  /\ {m.api, m.kind, m.engine} \subseteq Names /\ m.entry \in Paths /\ IsOptional(m.language, Names)
  /\ (m.capabilities \cup m.permissions) \subseteq Names
  /\ m.menus \in Seq(Seq(Menus)) /\ m.locales \in Seq(Seq(Locales))
  /\ m.commands \in Seq(Seq(Commands)) /\ m.ui \in Seq(Seq(UiItems))
  /\ m.connections \in Seq(Connections) /\ IsOptional(m.frontend, Frontends)
  /\ m.worker \in Seq(WorkerDescriptors) /\ m.workers \in Seq(WorkerDescriptors) /\ IsOptional(m.network, Networks)
  /\ \A p \in Range(m.payloads) : p \in [path : Paths, digest : BOOLEAN]
  /\ {m.hashed, m.signed} \subseteq BOOLEAN
  /\ m.uiIr \in Seq(Seq([inline : BOOLEAN, slot : Names, source : Paths, artifact : Paths]))

WorkersOf(m) == m.worker \o m.workers
Declares(m, capability) == capability \in m.capabilities
Given(option) == IF option = <<>> THEN <<>> ELSE option[1]    \* unwrap_or_default
IdsDiffer(items) == IsInjective([i \in DOMAIN items |-> items[i].id])
FirstWith(items, id) ==
  LET found == {i \in DOMAIN items : items[i].id = id}
  IN IF found = {} THEN <<>> ELSE <<items[CHOOSE i \in found : \A j \in found : i <= j]>>

-----------------------------------------------------------------------------
(* Texts *)

Spelled(n, letters, most) ==
  Spelling[n].length \in 1 .. most /\ Spelling[n].letters \subseteq letters
Slug(n) == Spelled(n, AlphaNumeric \cup {".", "-", "_"}, 96)
WireIdentifier(n) == Spelled(n, AlphaNumeric \cup {".", "-", "_", ":"}, 160)
WorkerOperation(n) == Spelled(n, {"lower", "digit", ".", "-", "_"}, 160)
ExportName(n) == Spelled(n, AlphaNumeric \cup {"_", "$"}, 96) /\ Spelling[n].first # "digit"
LocaleTag(n) == Spelled(n, AlphaNumeric \cup {"-"}, 35)
SecretName(n) == Spelled(n, {"upper", "digit", "_"}, 96) /\ Spelling[n].prefix = "ANYWAY_PLUGIN_SECRET_"
Bounded(n, most) == Spelling[n].length <= most /\ Spelling[n].letters \notin SUBSET {" "}
RelativePath(p) ==
  /\ p # <<>> /\ \A i \in DOMAIN p : p[i] \notin {"", ".", ".."} /\ "\\" \notin Spelling[p[i]].letters
EndsIn(p, suffix) == p # <<>> /\ Spelling[p[Len(p)]].suffix = suffix
DeclaredDomain(d) ==
  /\ Len(d) >= 2
  /\ \A i \in DOMAIN d : /\ Spelled(d[i], {"lower", "digit", "-"}, 63)
                         /\ "-" \notin {Spelling[d[i]].first, Spelling[d[i]].last}

-----------------------------------------------------------------------------
(* The rules of the parts *)

ValidUpdate(u) ==
  \A i \in DOMAIN u : Slug(u[i].version) /\ u[i].scheme \in {"https", "http"} /\ u[i].notes <= 2000
ValidFrontend(f) ==
  /\ f.mode = "trusted-module" /\ f.framework = "vue3" /\ f.api = "1"
  /\ RelativePath(f.entry) /\ EndsIn(f.entry, ".mjs")
ValidNetwork(n) ==
  /\ n.mode = "direct" /\ Len(n.domains) <= 32 /\ IsInjective(n.domains)
  /\ \A i \in DOMAIN n.domains : DeclaredDomain(n.domains[i])
ValidUi(items) ==
  /\ Len(items) \in 1 .. 64 /\ IdsDiffer(items)
  /\ \A x \in Range(items) : /\ WireIdentifier(x.id) /\ WireIdentifier(x.slot) /\ ExportName(x.export)
                             /\ \A w \in Range(x.when) : Spelled(w, Letters \ {"other"}, 240)

ValidEgress(e) ==
  /\ Slug(e.provider) /\ Slug(e.connection) /\ Len(e.domains) \in 1 .. 8
  /\ \A i \in DOMAIN e.domains : DeclaredDomain(e.domains[i])
  /\ Bounded(e.purpose, 240) /\ SecretName(e.env)
ValidWorker(w) ==
  /\ WireIdentifier(w.id) /\ WireIdentifier(w.language)
  /\ w.transport = "stdio-framed-json-v1" /\ w.mediated /\ RelativePath(w.entry)
  /\ Len(w.operations) \in 1 .. 128 /\ Len(w.hostOperations) <= 64
  /\ \A ops \in {w.operations, w.hostOperations} :
        IsInjective(ops) /\ \A o \in Range(ops) : WorkerOperation(o)
  /\ Len(w.egress) <= 4 /\ IsInjective([i \in DOMAIN w.egress |-> w.egress[i].provider])
  /\ \A e \in Range(w.egress) : ValidEgress(e)

ValidTestAction(a) ==
  /\ Slug(a.id) /\ Bounded(a.label, 64) /\ a.description <= 180
  /\ Range(a.kind) \subseteq {"connection", "pdf-extraction"}
  /\ \A x \in Range(a.input) :
        \/ x.type = "text" /\ x.upload = "never"
        \/ x.type = "bundled-pdf" /\ x.fixture = <<"host-minimal-pdf-v1">> /\ x.upload = "may-upload"
ValidTestActions(c) ==
  /\ \A a \in Range(c.testAction) : ValidTestAction(a)
  /\ \A actions \in Range(c.testActions) :
        Len(actions) \in 1 .. 8 /\ IdsDiffer(actions) /\ \A a \in Range(actions) : ValidTestAction(a)

\* Mutant: a menu needs no capability.
ValidMenusOfAny(m) ==
  \A items \in Range(m.menus) :
     /\ m.kind = "AnalysisPlugin" /\ Len(items) <= 24
     /\ \A x \in Range(items) : /\ Slug(x.id) /\ x.scope \in {"node", "edge", "canvas"} /\ Bounded(x.label, 64)
                                /\ Range(x.icon) \subseteq {"sparkles", "search", "wand", "database", "link"}

ValidMenus(m) ==
  \A items \in Range(m.menus) :
     /\ m.kind = "AnalysisPlugin" /\ Declares(m, "context-menu.contribute") /\ Len(items) <= 24
     /\ \A x \in Range(items) : /\ Slug(x.id) /\ x.scope \in {"node", "edge", "canvas"} /\ Bounded(x.label, 64)
                                /\ Range(x.icon) \subseteq {"sparkles", "search", "wand", "database", "link"}
ValidLocales(m) ==
  \A items \in Range(m.locales) :
     /\ m.kind = "LocalePlugin" /\ Declares(m, "i18n.register") /\ Len(items) <= 16
     /\ \A x \in Range(items) : /\ LocaleTag(x.locale) /\ Bounded(x.name, 48)
                                /\ Len(x.path) = 2 /\ x.path[1] = "locales" /\ EndsIn(x.path, ".json")
ValidCommands(m) ==
  \A items \in Range(m.commands) :
     /\ m.kind \in {"WorkspacePlugin", "ProviderPlugin"} /\ Len(items) <= 24
     /\ \A x \in Range(items) :
          /\ Slug(x.id) /\ Bounded(x.label, 64) /\ x.description <= 180
          /\ x.category \in {"export", "folder", "git", "import", "llm-provider"}
          /\ Declares(m, x.capability)
          /\ \A f \in Range(x.formats) : Len(f) \in 1 .. 3 /\ Range(f) \subseteq {"pdf", "svg", "png"}

-----------------------------------------------------------------------------
(* The rules of the whole *)

AgentCapabilities == {"agent.pdf.read", "agent.graph.patch.propose", "agent.review.request",
                      "agent.job.cancel", "graph.patch.propose"}
HostBusContract == {"graph.ir", "graph.patch.get", "graph.patch.review", "graph.storage.read",
                    "graph.storage.write", "host-bus.event", "audit.read", "blob.manage",
                    "plugin.files.pick", "plugin.worker.open", "plugin.worker.call",
                    "plugin.worker.cancel", "plugin.worker.close"}

ValidKind(m) ==
  CASE m.kind = "ThemePlugin" -> m.entry = <<"theme.json">> /\ Declares(m, "theme.register")
    [] m.kind = "EdgeStylePlugin" -> m.entry = <<"edge-style.json">> /\ Declares(m, "edge.style.register")
    [] m.kind = "IconThemePlugin" ->
         /\ m.engine = "declarative" /\ m.entry = <<"icon-theme.json">>
         /\ m.language = <<>> /\ Declares(m, "icon-theme.register")
    [] m.kind = "AnalysisPlugin" ->
         /\ m.engine = "wasm32-myc" /\ m.entry = <<"plugin.wasm">> /\ Declares(m, "analysis.run")
         /\ m.language \in {<<"rust">>, <<"cpp">>, <<"other">>}
    [] m.kind = "WorkspacePlugin" ->
         /\ m.engine = "host-mediated" /\ m.entry = <<"workspace-plugin.json">>
         /\ m.language = <<>> /\ Given(m.commands) # <<>>
    [] m.kind = "LocalePlugin" ->
         /\ m.engine = "declarative" /\ m.language = <<>> /\ Given(m.locales) # <<>>
         /\ Len(m.entry) >= 2 /\ m.entry[1] = "locales" /\ EndsIn(m.entry, ".json")
    [] m.kind = "ProviderPlugin" ->
         /\ m.engine = "host-mediated" /\ m.entry = <<"provider.json">> /\ m.language = <<>>
         /\ m.capabilities \intersect {"llm.chat", "llm.configure"} # {}
    [] m.kind = "ExtensionPlugin" ->
         /\ m.frontend # <<>> \/ m.workers # <<>>
         /\ m.ui # <<>> => m.frontend # <<>>
    [] m.kind = "AgentPlugin" ->
         /\ m.engine = "host-mediated" /\ m.entry = <<"agent-manifest.json">> /\ m.language = <<>>
         /\ m.capabilities \intersect AgentCapabilities # {}
         /\ m.capabilities \subseteq AgentCapabilities \cup HostBusContract
    [] OTHER -> FALSE

\* Hashes of the payloads: a digest is well formed or not.
ValidPayloads(m) ==
  /\ m.hashed => m.payloads # <<>>
  /\ \A p \in Range(m.payloads) : /\ p.path # <<"plugin.json">> /\ p.digest
                                  /\ \A i \in DOMAIN p.path : p.path[i] \notin {"", ".", ".."}
  /\ m.signed => m.hashed

\* Every provider a worker may call is one of the connections.
EgressConnected(m, workers) ==
  \A w \in Range(workers) : \A e \in Range(w.egress) : \E c \in Range(m.connections) : c.id = e.connection

\* validate_manifest, before unpacking and after.
ValidManifest(m) ==
  /\ m.api \in {"v1alpha1", "v2"} /\ Slug(m.id) /\ Slug(m.version)
  /\ m.official => m.publisher = "ResearchCanvas"
  /\ \A wellFormed \in Range(m.developer) : wellFormed
  /\ ValidUpdate(m.update)
  /\ \A f \in Range(m.frontend) : ValidFrontend(f)
  /\ \A n \in Range(m.network) : ValidNetwork(n)
  /\ \A items \in Range(m.ui) : ValidUi(items)
  /\ \A w \in Range(WorkersOf(m)) : ValidWorker(w)
  /\ IdsDiffer(WorkersOf(m))
  /\ \A c \in Range(m.connections) : ValidTestActions(c)
  /\ EgressConnected(m, WorkersOf(m))
  /\ ValidMenus(m) /\ ValidLocales(m) /\ ValidCommands(m) /\ ValidKind(m)
  /\ m.permissions = {} /\ ValidPayloads(m)

-----------------------------------------------------------------------------
(* The two formats *)

\* The flat format names no kind: the first category does, or else the entry.
InferredKind(categories, entry) ==
  IF categories # <<>> /\ Bounded(categories[1], 1000) THEN categories[1]
  ELSE CASE EndsIn(entry, ".wasm") -> "AnalysisPlugin"
         [] entry = <<"theme.json">> -> "ThemePlugin"
         [] entry = <<"edge-style.json">> -> "EdgeStylePlugin"
         [] entry = <<"icon-theme.json">> -> "IconThemePlugin"
         [] entry = <<"agent-manifest.json">> -> "AgentPlugin"
         [] entry = <<"workspace-plugin.json">> -> "WorkspacePlugin"
         [] OTHER -> "ExtensionPlugin"
InferredEngine(kind, engine) ==
  IF engine = <<>> THEN "declarative"
  ELSE IF kind = "AgentPlugin" /\ engine[1] = "trusted-plugin" THEN "host-mediated" ELSE engine[1]

\* From<ManifestV2>: no update is carried over, and a document without spec has no
\* private translations.
Migrated(document) ==
  LET kind == InferredKind(document.categories, document.manifest.entry)
  IN [document.manifest EXCEPT !.api = "v2", !.kind = kind, !.update = <<>>,
                               !.engine = InferredEngine(kind, document.engine)]
Parsed(document) == IF document.format = "nested" THEN document.manifest ELSE Migrated(document)
\* The file of a translation, <tag>.json, goes by its tag here.
PrivateI18n(document) == IF document.format = "nested" THEN document.i18n ELSE <<>>
ValidPrivateI18n(i18n) ==
  \A x \in Range(i18n) :
     /\ Cardinality(DOMAIN x.locales) \in 1 .. 16 /\ x.default \in DOMAIN x.locales
     /\ \A tag \in DOMAIN x.locales : LocaleTag(tag) /\ x.locales[tag] = <<"locales", tag>>
=============================================================================

----------------------------- MODULE MCPackages -----------------------------
(* Packages for InstalledPlugins: one of every kind that is accepted, and each of them
   with one thing changed. *)
EXTENDS InstalledPlugins, TLC

Text(length, letters, first, suffix, prefix) ==
  [length |-> length, letters |-> letters, first |-> first, last |-> first, suffix |-> suffix, prefix |-> prefix]
Plain == Text(8, {"lower"}, "lower", "", "")
Odd ==
  "" :> Text(0, {}, "", "", "") @@ "blank" :> Text(1, {" "}, " ", "", "")
  @@ "Upper" :> Text(5, {"upper"}, "upper", "", "") @@ "long" :> Text(200, {"lower"}, "lower", "", "")
  @@ "spaced" :> Text(6, {"lower", " "}, "lower", "", "") @@ "9" :> Text(1, {"digit"}, "digit", "", "")
  @@ "-" :> Text(1, {"-"}, "-", "", "") @@ ".." :> Text(2, {"."}, ".", "", "")
  @@ "a.mjs" :> Text(5, {"lower", "."}, "lower", ".mjs", "")
  @@ "plugin.wasm" :> Text(11, {"lower", "."}, "lower", ".wasm", "")
  @@ "en.json" :> Text(7, {"lower", "."}, "lower", ".json", "")
  @@ "icon.vue" :> Text(8, {"lower", "."}, "lower", ".vue", "")
  @@ "icon.uiir.json" :> Text(14, {"lower", "."}, "lower", ".uiir.json", "")
  @@ "KEY" :> Text(30, {"upper", "_"}, "upper", "", "ANYWAY_PLUGIN_SECRET_")
Ordinary == {"v1alpha1", "v2", "p", "myc.pdf-canvas-agent", "one", "ResearchCanvas", "somebody", "en",
  "ThemePlugin", "EdgeStylePlugin", "IconThemePlugin", "AnalysisPlugin", "WorkspacePlugin", "LocalePlugin",
  "ProviderPlugin", "ExtensionPlugin", "AgentPlugin", "OtherPlugin",
  "theme.json", "edge-style.json", "icon-theme.json", "workspace-plugin.json", "provider.json",
  "agent-manifest.json", "plugin.json", "locales", "ui", "declarative", "host-mediated", "wasm32-myc",
  "trusted-plugin", "rust", "cpp", "python", "theme.register", "edge.style.register", "icon-theme.register",
  "analysis.run", "context-menu.contribute", "i18n.register", "project.export", "llm.chat", "agent.pdf.read",
  "blob.manage", "other", "node", "edge", "canvas", "sparkles", "export", "folder", "pdf", "svg", "png",
  "trusted-module", "vue3", "1", "direct", "stdio-framed-json-v1", "work", "stop", "a", "b", "run.py", "go.py",
  "key", "LLM", "test", "again", "test-pdf-extraction", "text", "never", "bundled-pdf", "host-minimal-pdf-v1",
  "may-upload", "connection", "pdf-extraction", "read", "Panel", "plugin.frontend", "context-menu"}
MCSpelling == [n \in Ordinary |-> Plain] @@ Odd

-----------------------------------------------------------------------------
(* One of every kind *)

Menu == [id |-> "a", scope |-> "node", label |-> "one", icon |-> <<"sparkles">>]
Command(category, formats) ==
  [id |-> "a", label |-> "one", description |-> 10, category |-> category,
   capability |-> "project.export", formats |-> formats]
Egress == [provider |-> "a", connection |-> "LLM", domains |-> <<<<"a", "b">>>>, purpose |-> "one", env |-> "KEY"]
Worker(id, egress) ==
  [id |-> id, language |-> "python", entry |-> <<"run.py">>, transport |-> "stdio-framed-json-v1",
   mediated |-> TRUE, operations |-> <<"work">>, hostOperations |-> <<"read">>, egress |-> egress]
Test(id) == [id |-> id, label |-> "one", description |-> 10, kind |-> <<>>,
             input |-> <<[type |-> "text", fixture |-> <<>>, upload |-> "never"]>>]
Llm == [id |-> "LLM", key |-> [source |-> "environment", setting |-> <<"key">>, name |-> <<"KEY">>],
        testAction |-> <<Test("test")>>, testActions |-> <<<<Test("again")>>>>]
Frontend == [mode |-> "trusted-module", entry |-> <<"a.mjs">>, framework |-> "vue3", api |-> "1"]
Item(id) == [id |-> id, slot |-> "canvas", export |-> "Panel", when |-> <<>>]
Surface == [inline |-> FALSE, slot |-> "node", source |-> <<"ui", "icon.vue">>, artifact |-> <<"ui", "icon.uiir.json">>]

Base ==
  [id |-> "p", version |-> "one", publisher |-> "somebody", official |-> FALSE, developer |-> <<>>,
   update |-> <<>>, api |-> "v1alpha1", kind |-> "ExtensionPlugin", engine |-> "declarative",
   entry |-> <<"theme.json">>, language |-> <<>>, capabilities |-> {}, permissions |-> {}, menus |-> <<>>,
   locales |-> <<>>, commands |-> <<>>, ui |-> <<>>, connections |-> <<>>, frontend |-> <<>>, worker |-> <<>>,
   workers |-> <<>>, network |-> <<>>, payloads |-> <<>>, hashed |-> FALSE, signed |-> FALSE, uiIr |-> <<>>]

Theme == [Base EXCEPT !.kind = "ThemePlugin", !.capabilities = {"theme.register"}, !.uiIr = <<<<Surface>>>>]
EdgeStyle == [Base EXCEPT !.kind = "EdgeStylePlugin", !.entry = <<"edge-style.json">>,
                          !.capabilities = {"edge.style.register"}]
Icons == [Base EXCEPT !.kind = "IconThemePlugin", !.entry = <<"icon-theme.json">>,
                      !.capabilities = {"icon-theme.register"}]
Analysis == [Base EXCEPT !.kind = "AnalysisPlugin", !.entry = <<"plugin.wasm">>, !.engine = "wasm32-myc",
                         !.language = <<"rust">>, !.menus = <<<<Menu>>>>,
                         !.capabilities = {"analysis.run", "context-menu.contribute", "other"}]
Exporter == [Base EXCEPT !.kind = "WorkspacePlugin", !.entry = <<"workspace-plugin.json">>,
                          !.engine = "host-mediated", !.capabilities = {"project.export"},
                          !.commands = <<<<Command("export", <<<<"pdf", "svg">>>>)>>>>]
Locale == [Base EXCEPT !.kind = "LocalePlugin", !.entry = <<"locales", "en.json">>,
                       !.capabilities = {"i18n.register"},
                       !.locales = <<<<[locale |-> "en", name |-> "one", path |-> <<"locales", "en.json">>]>>>>]
Provider == [Base EXCEPT !.kind = "ProviderPlugin", !.entry = <<"provider.json">>, !.engine = "host-mediated",
                         !.capabilities = {"llm.chat"}]
Extension == [Base EXCEPT !.frontend = <<Frontend>>, !.ui = <<<<Item("a"), Item("b")>>>>,
                          !.connections = <<Llm>>, !.worker = <<Worker("a", <<Egress>>)>>,
                          !.workers = <<Worker("b", <<>>)>>]
Agent == [Extension EXCEPT !.kind = "AgentPlugin", !.entry = <<"agent-manifest.json">>, !.engine = "host-mediated",
                           !.capabilities = {"agent.pdf.read", "blob.manage"}]
PdfAgent == [Agent EXCEPT !.id = "myc.pdf-canvas-agent", !.worker = <<>>]

-----------------------------------------------------------------------------
(* Each with one thing changed *)

Menus25 == [i \in 1 .. 25 |-> Menu]
Off(m) ==
  {m, [m EXCEPT !.api = "one"], [m EXCEPT !.id = ""], [m EXCEPT !.version = "long"], [m EXCEPT !.official = TRUE],
   [m EXCEPT !.official = TRUE, !.publisher = "ResearchCanvas"], [m EXCEPT !.developer = <<FALSE>>],
   [m EXCEPT !.update = <<[version |-> "one", scheme |-> "ftp", notes |-> 0]>>],
   [m EXCEPT !.update = <<[version |-> "one", scheme |-> "https", notes |-> 2000]>>],
   [m EXCEPT !.kind = "OtherPlugin"], [m EXCEPT !.engine = "wasm32-myc"], [m EXCEPT !.entry = <<"provider.json">>],
   [m EXCEPT !.language = <<"cpp">>], [m EXCEPT !.capabilities = {}],
   [m EXCEPT !.capabilities = @ \ {"context-menu.contribute"}], [m EXCEPT !.permissions = {"read"}],
   [m EXCEPT !.menus = <<<<Menu>>>>], [m EXCEPT !.menus = <<Menus25>>], [m EXCEPT !.menus = <<<<>>>>],
   [m EXCEPT !.menus = <<<<[Menu EXCEPT !.scope = "canvas"], Menu>>>>], [m EXCEPT !.menus = <<<<[Menu EXCEPT !.id = "blank"]>>>>],
   [m EXCEPT !.locales = <<<<>>>>],
   [m EXCEPT !.commands = <<<<Command("folder", <<>>), Command("export", <<<<"png">>>>)>>>>],
   [m EXCEPT !.commands = <<<<Command("export", <<<<>>>>)>>>>], [m EXCEPT !.commands = <<<<>>>>],
   [m EXCEPT !.ui = <<>>], [m EXCEPT !.ui = <<<<Item("a"), Item("a")>>>>], [m EXCEPT !.ui = <<<<Item("b"), Item("a")>>>>],
   [m EXCEPT !.connections = <<>>], [m EXCEPT !.frontend = <<>>], [m EXCEPT !.frontend = <<Frontend>>],
   [m EXCEPT !.frontend = <<[Frontend EXCEPT !.entry = <<"..", "a.mjs">>]>>],
   [m EXCEPT !.worker = <<>>], [m EXCEPT !.worker = <<Worker("a", <<>>)>>], [m EXCEPT !.worker = <<Worker("b", <<>>)>>],
   [m EXCEPT !.worker = <<Worker("a", <<Egress, Egress>>)>>],
   [m EXCEPT !.workers = <<Worker("b", <<[Egress EXCEPT !.env = "9"]>>)>>],
   [m EXCEPT !.workers = <<Worker("b", <<Egress>>)>>], [m EXCEPT !.workers = <<>>],
   [m EXCEPT !.workers = <<[Worker("b", <<>>) EXCEPT !.entry = <<"go.py">>]>>],
   [m EXCEPT !.network = <<[mode |-> "direct", domains |-> <<<<"a", "b">>>>]>>],
   [m EXCEPT !.network = <<[mode |-> "direct", domains |-> <<<<"a", "-">>>>]>>],
   [m EXCEPT !.hashed = TRUE], [m EXCEPT !.signed = TRUE],
   [m EXCEPT !.hashed = TRUE, !.payloads = <<[path |-> <<"a.mjs">>, digest |-> TRUE]>>],
   [m EXCEPT !.uiIr = <<<<Surface>>>>], [m EXCEPT !.uiIr = <<<<[Surface EXCEPT !.inline = TRUE]>>>>],
   [m EXCEPT !.uiIr = <<<<[Surface EXCEPT !.source = <<"icon.vue">>]>>>>]}
Manifests == UNION {Off(m) : m \in
  {Theme, EdgeStyle, Icons, Analysis, Exporter, Locale, Provider, Extension, Agent, PdfAgent}}

-----------------------------------------------------------------------------
(* Documents and files *)

I18n(locales, default) == [locales |-> locales, default |-> default]
Nested(m, i18n) == [format |-> "nested", manifest |-> m, i18n |-> i18n]
Flat(m, categories, engine) == [format |-> "flat", manifest |-> m, categories |-> categories, engine |-> engine]

File(holds) == [inside |-> TRUE, size |-> 100, bytes |-> 1, holds |-> holds]
Files(agent) ==
  <<"theme.json">> :> File(<<"theme", 0>>) @@ <<"edge-style.json">> :> File(<<"style", 0>>)
  @@ <<"icon-theme.json">> :> File(<<"icons", 0>>) @@ <<"plugin.wasm">> :> File(<<"wasm", 0>>)
  @@ <<"workspace-plugin.json">> :> File(<<"workspace", "export">>)
  @@ <<"provider.json">> :> File(<<"provider", [schema |-> 1, type |-> "openai-compatible", base |-> "https", path |-> "/chat"]>>)
  @@ <<"agent-manifest.json">> :> File(<<"agent", agent>>) @@ <<"locales", "en.json">> :> File(<<"bundle", 10>>)
  @@ <<"locales", "en">> :> File(<<"bundle", 2001>>) @@ <<"a.mjs">> :> File(<<"module", 0>>)
  @@ <<"run.py">> :> File(<<"program", 0>>) @@ <<"go.py">> :> [File(<<"program", 0>>) EXCEPT !.inside = FALSE]
  @@ <<"ui", "icon.vue">> :> File(<<"component", 0>>) @@ <<"ui", "icon.uiir.json">> :> File(<<"ir", 0>>)

V1(capabilities, worker) == [schema |-> 1, mode |-> "agent", gated |-> TRUE, capabilities |-> capabilities, worker |-> worker]
V2(ui, contract) ==
  [schema |-> 2, mode |-> "trusted-plugin", gated |-> TRUE, id |-> "p", version |-> "one", contexts |-> TRUE,
   frontend |-> [mode |-> "trusted-module", framework |-> "vue3", api |-> "1", entry |-> <<"a.mjs">>, exports |-> <<"Panel">>, ui |-> ui],
   worker |-> contract]
Contract(id) ==
  [id |-> id, language |-> "python", entry |-> <<"run.py">>, transport |-> "stdio-framed-json-v1",
   openedBy |-> "plugin.frontend", credentials |-> "host-secret-injected-to-exact-worker",
   operations |-> <<"work">>, hostOperations |-> <<"read">>, forbidden |-> <<"stop">>]
Shows(id) == [id |-> id, slot |-> "canvas", export |-> "Panel"]
Descriptors ==
  {V1(<<"agent.pdf.read">>, <<>>), V1(<<"other">>, <<>>), V1(<<>>, <<Worker("b", <<Egress>>)>>),
   V1(<<>>, <<[Worker("a", <<>>) EXCEPT !.operations = <<"work", "stop">>]>>),
   V2(<<Shows("a"), Shows("b")>>, Contract("a")), V2(<<Shows("a"), Shows("a")>>, Contract("a")),
   V2(<<Shows("a"), Shows("b")>>, [Contract("b") EXCEPT !.operations = <<"work", "stop">>]),
   V2(<<Shows("a")>>, Contract("b"))}

MCPackagesRead ==
  {[document |-> Nested(m, <<>>), files |-> Files(V1(<<>>, <<>>))] : m \in {x \in Manifests : x.kind # "AgentPlugin"}}
  \cup {[document |-> Nested(m, <<>>), files |-> Files(d)] :
          m \in {x \in Manifests : x.kind = "AgentPlugin"}, d \in Descriptors}
  \cup {[document |-> Flat(m, categories, engine), files |-> Files(V2(<<Shows("a"), Shows("b")>>, Contract("a")))] :
          m \in {Theme, Analysis, Provider, Extension, Agent},
          categories \in {<<>>, <<"AgentPlugin">>, <<"ThemePlugin">>}, engine \in {<<>>, <<"trusted-plugin">>, <<"wasm32-myc">>}}
  \cup {[document |-> Nested(Theme, <<I18n("one" :> <<"locales", "en">>, "one")>>), files |-> Files(V1(<<>>, <<>>))],
        [document |-> Nested(Theme, <<I18n("en" :> <<"locales", "en.json">>, "one")>>), files |-> Files(V1(<<>>, <<>>))]}

MCAnalysisCalls == [version : {"plugin-call/v1alpha1"}, operation : {"context-menu", "read"},
                    context : {<<>>, <<"a", "node">>, <<"a", "edge">>}]
                   \cup {[version |-> "one", operation |-> "read", context |-> <<>>]}
MCRequested == {<<>>, <<"again">>, <<"test-pdf-extraction">>, <<"other">>}
=============================================================================

--------------------------- MODULE MCPluginHost ---------------------------
(* The plugin host in one instance: the packages, the settings, the calls to one
   worker process, and the native document agent: its streams, the import of a document,
   the division of its text and the request it starts from. The code keeps them
   apart (the plugins directory, plugins.json with the credential store, a session's
   mutex, the state of one attempt, one job), so a behaviour of
   the host projects on each as a behaviour of its module; `focus` says which
   of them this behaviour moves. *)
EXTENDS PluginInstall, PluginSettings, WorkerRpc, KimiStream,
        DocumentPipeline, DocumentText, DocumentRequests, TLC

VARIABLE focus

Package(key, files, signer, publisher, payloads, loads) ==
    [key |-> key, files |-> files, signer |-> signer, publisher |-> publisher,
     payloads |-> payloads, unpacks |-> TRUE, loads |-> loads]
MCPackages == {Package("a", <<"plugin.json", "entry">>, "file key", "anyone", "undeclared", TRUE),
               Package("a", <<"plugin.json", "entry", "extra">>, "unsigned", "anyone", "match", FALSE),
               Package("b", <<"plugin.json", "entry">>, "file key", "builtin", "match", TRUE)}
MCBuiltin == [p \in {"builtin"} |-> "builtin key"]
MCFile == [p \in {"anyone", "builtin"} |-> "file key"]

Setting(type, secret, required, default) ==
    [type |-> type, secret |-> secret, required |-> required, default |-> default,
     options |-> {}, min |-> 0, max |-> 2, step |-> 2]
Selection(options, default) ==
    [Setting("select", FALSE, FALSE, default) EXCEPT !.options = options]
Connection(id, kind, url, choice, env, envSetting) ==
    [id |-> id, kind |-> kind, url |-> url, source |-> choice,
     env |-> env, envSetting |-> envSetting, hostSecret |-> "token"]
Egress(connection, domains) ==
    [provider |-> connection, connection |-> connection, domains |-> domains]
MCSettings == [url |-> Setting("text", FALSE, TRUE, Text("u")),
               mirror |-> Setting("text", FALSE, FALSE, Unset),
               n |-> Setting("number", FALSE, FALSE, <<"number", 2>>),
               token |-> Setting("text", TRUE, FALSE, Unset),
               source |-> Selection({"host-secret", "environment", "auto", "other"}, Text("host-secret")),
               envName |-> Setting("text", FALSE, FALSE, Unset)]
\* The same identity with the token public, and with a default its own step refuses.
MCLater == [MCSettings EXCEPT !.token.secret = FALSE, !.source = Selection({"a"}, Text("a"))]
MCWrong == [MCSettings EXCEPT !.n.default = <<"number", 1>>]
MCManifest(settings, connections, egress) ==
    [settings |-> settings, connections |-> connections, egress |-> egress]
\* The worker reaches two providers: one of a credential the user chooses, one of the token.
MCTwo == {Connection("model", "environment", "url", "source", "VAR", "envName"),
          Connection("search", "host-secret", "mirror", "none", "", "none")}
MCManifestsOf ==
    [k \in SettingsKeys |->
       IF k = "p" THEN {MCManifest(MCSettings, MCTwo, <<Egress("model", {Text("u")}), Egress("search", {Text("u")})>>),
                        MCManifest(MCLater, {}, <<>>), MCManifest(MCWrong, {}, <<>>)}
       ELSE {MCManifest(MCSettings, {}, <<>>)}]
MCChanges == {[n |-> <<"number", 0>>, source |-> Text("other")],
              [token |-> Text("s"), n |-> <<"number", 2>>], [token |-> Null],
              [source |-> Text("environment"), envName |-> Text("VAR"), mirror |-> Text("u")],
              [envName |-> Blank, mirror |-> Text("v")],
              [source |-> Text("auto"), envName |-> Text("LONG"), mirror |-> Text("u")]}
MCEnvironment == [v \in {"VAR", "LONG"} |-> IF v = "VAR" THEN "from the environment" ELSE "long"]

\* Bodies: fine, too large to be inline, and too large for a frame.
MCBodies == {NoBody, [NoBody EXCEPT !.size = "large"], [NoBody EXCEPT !.size = "overframe"]}

MCManifests == UNION {ManifestsOf[k] : k \in SettingsKeys}

HostSymmetry == Permutations(PackageJobs) \union Permutations(SettingsJobs)

\* Answers: both frames whole, a frame left open, half markers, a frame that outgrows
\* the buffer, nothing to see, and more than is allowed.
MCTexts == {<<"<", "P", "j", "<", "/", "P", "<", "R", "x", "y", "<", "/", "R">>,
            <<"<", "P", "j", "<", "R", "x">>,
            <<"x", "<", "<", "P", "j", "<", "/", "P", "y">>,
            <<"<", "P", "j", "j", "x", "j", "<", "/", "P", "y">>,
            <<"<", "P", "j">>,
            <<"x", "x", "x", "x", "x">>}

\* Sections with text around one without.
MCChapters == <<TRUE, FALSE, TRUE>>

\* Every text of three characters, the headings and the pages of longer ones.
MCPapers == [1 .. 3 -> {"n", "f", "s", "h1", "h2", "a", "u"}]
            \union [1 .. 5 -> {"n", "h1", "h2", "a"}] \union [1 .. 5 -> {"n", "f", "a", "u"}]

MCLayers == {<<>>, [k \in {"api-url"} |-> "approved"], [k \in {"apiUrl"} |-> "blank"],
             [k \in {"apiUrl", "apiKey"} |-> "other"], [k \in {"thinking"} |-> "off"]}
MCAsked == [saved : MCLayers \union {[k \in {"credential-source"} |-> "legacy-config"]},
            settings : MCLayers, plugin : {<<>>}, extra : MCLayers,
            direct : {<<>>, [k \in {"apiUrl"} |-> "wanted"], [k \in {"apiUrl"} |-> "blank"]},
            env : {[key |-> "k", keyfile |-> "none"],
                   [key |-> "none", keyfile |-> "f", URL |-> "elsewhere"]}]

\* Documents of two parts, and the other kinds.
MCPart == [name : {"types", "document", "vbaProject"}, packed : 0 .. 1, size : {1, 2, 5},
           real : {2, 5}, text : {TRUE}]
MCPlain == [regular : {TRUE}, inner : BOOLEAN, extension : {"pdf", "md", "exe"}, size : 1 .. 3,
            head : {"%PDF-", "text"}, parts : {<<>>}]
MCFiles == MCPlain \union
           [regular : {TRUE}, inner : {FALSE}, extension : {"docx"}, size : {2}, head : {"zip"},
            parts : [1 .. 2 -> MCPart]]
MCMaxFile == [pdf |-> 2, docx |-> 2, md |-> 1]

documentVars == <<pipelineVars, textVars, requestVars>>
pluginHostVars == <<packageVars, settingsVars, rpcVars, kimiVars, documentVars, focus>>

PluginHostInit ==
    /\ focus \in {"packages", "settings", "worker", "stream", "import", "text", "request"}
    /\ PackagesInit
    /\ SettingsInit
    /\ RpcInit
    /\ KimiInit
    /\ PipelineInit
    /\ TextInit
    /\ RequestsInit
    \* What does not move starts in one way only; a full packages directory is met with
    \* one file beside it, which the user may replace.
    /\ focus # "packages" => archives = {}
    /\ focus # "packages" \/ archives # {} => source = CHOOSE s \in Packages : TRUE
    /\ focus # "settings" => manifestAt = CHOOSE m \in [SettingsKeys -> MCManifests] :
                                              \A k \in SettingsKeys : m[k] \in ManifestsOf[k]
    /\ focus # "worker" => owner = "pool"

PluginHostNext ==
    /\ focus' = focus
    /\ \/ focus = "packages" /\ PackagesNext
       \/ focus # "packages" /\ UNCHANGED packageVars
    /\ \/ focus = "settings" /\ SettingsNext
       \/ focus # "settings" /\ UNCHANGED settingsVars
    /\ \/ focus = "worker" /\ RpcNext
       \/ focus # "worker" /\ UNCHANGED rpcVars
    /\ \/ focus = "stream" /\ KimiNext
       \/ focus # "stream" /\ UNCHANGED kimiVars
    /\ \/ focus = "import" /\ PipelineNext
       \/ focus # "import" /\ UNCHANGED pipelineVars
    /\ \/ focus = "text" /\ TextNext
       \/ focus # "text" /\ UNCHANGED textVars
    /\ \/ focus = "request" /\ RequestsNext
       \/ focus # "request" /\ UNCHANGED requestVars

\* The native document agent: what its streams say, what an import makes of the answers,
\* how a text is divided, and what an import starts from.
DocumentAgentSound ==
    /\ focus = "stream" => KimiSound
    /\ focus = "import" => PipelineSound
    /\ focus = "text" => TextSound
    /\ focus = "request" => RequestsSound

PluginHostSpec == PluginHostInit /\ [][PluginHostNext]_pluginHostVars
=============================================================================

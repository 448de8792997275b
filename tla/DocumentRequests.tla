--------------------------- MODULE DocumentRequests ---------------------------
(* What an import starts from (agent_commands.rs, agent_host.rs): the settings of the
   document agent, put together from what was saved, what the request carries and the
   environment, and the file, which passes a gate before it is read.

   Layers of settings are functions from spellings of a setting to its value.  Sizes of
   the parts of a file are small numbers. *)
EXTENDS Integers, Sequences, FiniteSets, Functions

CONSTANTS
  Asked,           \* requests: [saved, settings, plugin, extra, direct, env]
  Files,           \* documents: [regular, inner, extension, size, head, parts]
  MaxFile,         \* MAX_DOCX_BYTES, MAX_PDF_BYTES, MAX_MARKDOWN_BYTES
  MaxParts,        \* MAX_DOCX_ENTRIES
  MaxPart,         \* MAX_DOCX_ENTRY_BYTES
  MaxUnpacked,     \* MAX_DOCX_UNCOMPRESSED_BYTES
  MaxRatio,        \* MAX_DOCX_COMPRESSION_RATIO
  MaxXml           \* MAX_DOCUMENT_XML_BYTES

ASSUME RequestsAssumption ==
  /\ MaxFile \in [{"pdf", "docx", "md"} -> Nat]
  /\ {MaxParts, MaxPart, MaxUnpacked, MaxRatio, MaxXml} \subseteq Nat
  /\ \A file \in Files : /\ file.parts \in Seq(Range(file.parts))
                         /\ \A part \in Range(file.parts) : part.size \in Nat

VARIABLES asked,   \* the request at hand, if any
          opened \* the file at hand, if any

requestVars == <<asked, opened>>

Nothing == "none"

-----------------------------------------------------------------------------
(* The settings of a request *)

\* A layer put over another.
Over(upper, lower) ==
  [k \in DOMAIN upper \union DOMAIN lower |-> IF k \in DOMAIN upper THEN upper[k] ELSE lower[k]]

\* Mutant: what the request says comes below what was saved.
SavedLast(request) ==
  Over(request.saved, Over(request.direct, Over(request.extra, Over(request.plugin, request.settings))))

\* The layers of resolve_pdf_agent_config, the last one first; keys in plain text are
\* dropped before the fields of the request itself are put on top.
MergeSettings(request) ==
  LET below == Over(request.extra, Over(request.plugin, Over(request.settings, request.saved)))
      public == Restrict(below, DOMAIN below \ {"apiKey"})
  IN Over(request.direct, public)

\* The first of the spellings that is set.
SettingOf(settings, names) ==
  LET set == {n \in DOMAIN names : names[n] \in DOMAIN settings}
  IN IF set = {} THEN Nothing ELSE settings[names[CHOOSE n \in set : \A m \in set : n <= m]]

\* env_or_setting: a setting of the first spelling that is blank is not looked for under
\* another one, but in the environment.
EnvOrSetting(request, names, variable) ==
  LET value == SettingOf(MergeSettings(request), names)
  IN IF value \notin {Nothing, "blank"} THEN value
     ELSE IF variable \in DOMAIN request.env THEN request.env[variable] ELSE Nothing

EndpointNames == <<"api-url", "apiUrl", "api_url">>
ThinkingNames == <<"thinking", "thinkingLevel">>
SourceNames == <<"credential-source", "credentialSource">>

\* setting_bool_and_level, on unless it is set.
Thinking(request) ==
  LET value == SettingOf(MergeSettings(request), ThinkingNames)
  IN value \notin {"off", "blank"}

DefaultProvider(endpoint) == IF endpoint = "approved" THEN "moonshot" ELSE "deepseek"

\* The credential is the host's own, of the source the settings name.
Credential(request) ==
  LET source == EnvOrSetting(request, SourceNames, "SOURCE")
  IN IF source = "legacy-config" THEN request.env["keyfile"]
     ELSE IF source \in {Nothing, "env"} THEN request.env["key"] ELSE Nothing

\* resolve_pdf_agent_config, without an endpoint or a credential an error.
ResolveConfig(request) ==
  LET endpoint == EnvOrSetting(request, EndpointNames, "URL")
  IN IF Nothing \in {endpoint, Credential(request)} THEN [refused |-> TRUE]
     ELSE [refused |-> FALSE, endpoint |-> endpoint, thinking |-> Thinking(request),
           provider |-> DefaultProvider(endpoint), key |-> Credential(request)]

-----------------------------------------------------------------------------
(* The gate of a file *)

Sum(values) == FoldFunction(+, 0, values)
AtLeastOne(n) == IF n = 0 THEN 1 ELSE n

\* Mutant: only the whole is measured, not its parts.
WholeUnpacks(parts) == TRUE

\* The parts may not unpack to more than the limits, neither one nor all up to it.
UnpacksSafely(parts) ==
  \A n \in DOMAIN parts :
    LET packed == Sum([m \in 1 .. n |-> parts[m].packed])
        size == Sum([m \in 1 .. n |-> parts[m].size])
    IN /\ parts[n].size <= MaxPart
       /\ size <= MaxUnpacked
       /\ size <= AtLeastOne(packed) * MaxRatio

\* validate_docx_bytes.
ValidateDocx(file) ==
  LET names == {file.parts[n].name : n \in DOMAIN file.parts}
  IN /\ file.head = "zip"
     /\ Len(file.parts) \in 1 .. MaxParts
     /\ names \intersect {"../x", "vbaProject", "encrypted"} = {}
     /\ UnpacksSafely(file.parts)
     /\ {"types", "document"} \subseteq names

\* validate_document_file.
ValidateDocument(file) ==
  /\ file.regular /\ ~ file.inner
  /\ file.extension \in DOMAIN MaxFile
  /\ file.size <= MaxFile[file.extension]
  /\ CASE file.extension = "pdf" -> file.head = "%PDF-"
       [] file.extension = "docx" -> ValidateDocx(file)
       [] file.extension = "md" -> file.head = "text"

\* extract_document reads the file again.
ExtractDocument(file) ==
  CASE file.extension = "pdf" -> file.head = "%PDF-"
    [] file.extension = "docx" ->
         \E n \in DOMAIN file.parts :
           /\ file.parts[n].name = "document"
           /\ file.parts[n].size <= MaxXml /\ file.parts[n].real <= MaxXml
           /\ file.parts[n].text
    [] file.extension = "md" -> file.head = "text"

-----------------------------------------------------------------------------
RequestsInit == asked = <<>> /\ opened = <<>>

\* queue_pdf_job, queue_document_batch: a job has the settings of the request and a path.
\* The two do not meet, so each is looked at alone.
QueueDocument ==
  /\ asked = <<>> /\ opened = <<>>
  /\ \/ \E request \in Asked : asked' = <<request>> /\ UNCHANGED opened
     \/ \E file \in Files : opened' = <<file>> /\ UNCHANGED asked

RequestsNext == QueueDocument

RequestsSpec == RequestsInit /\ [][RequestsNext]_requestVars

-----------------------------------------------------------------------------
\* A request that names an endpoint has it used, whatever was saved and whatever the
\* environment says: unless a saved or carried setting spells it with a dash.
RequestedEndpointUsed ==
  \A n \in DOMAIN asked :
    LET request == asked[n]
        dashed == \E layer \in {request.saved, request.settings, request.plugin, request.extra} :
                    "api-url" \in DOMAIN layer
    IN ~ ResolveConfig(request).refused /\ "apiUrl" \in DOMAIN request.direct /\ ~ dashed =>
         request.direct["apiUrl"] \in {ResolveConfig(request).endpoint, "blank"}

Gated == {opened[n] : n \in {m \in DOMAIN opened : ValidateDocument(opened[m])}}

\* What passes the gate unpacks within its limits, whatever the order of its parts.
GateBoundsUnpacking ==
  \A file \in Gated : file.extension = "docx" =>
    LET size == Sum([n \in DOMAIN file.parts |-> file.parts[n].size])
        packed == Sum([n \in DOMAIN file.parts |-> file.parts[n].packed])
    IN size <= MaxUnpacked /\ size <= AtLeastOne(packed) * MaxRatio

\* What passes the gate and holds what it declares is read: the limits of the gate and of
\* the reader agree.
GatedIsReadable ==
  \A file \in Gated :
    (\A n \in DOMAIN file.parts : file.parts[n].real = file.parts[n].size /\ file.parts[n].text) =>
      ExtractDocument(file)

\* The settings and the file of an import.
RequestsSound == RequestedEndpointUsed /\ GateBoundsUnpacking /\ GatedIsReadable
=============================================================================

--------------------------- MODULE PluginSettings ---------------------------
(***************************************************************************)
(* The settings of the installed plugins (plugin_settings.rs): public      *)
(* values in one document on disk, secrets in the memory of the process,   *)
(* and what a worker process or a connection test is given of them.        *)
(*                                                                         *)
(* A command reads the whole document, changes its own entry and replaces  *)
(* the file; nothing serialises two commands, and the program may stop or  *)
(* the disk may fail between any two steps.  A reinstallation may put      *)
(* another manifest under the same identity.  A value is a pair of its     *)
(* JSON type and itself.                                                   *)
(***************************************************************************)
EXTENDS Integers, Sequences, FiniteSets, Functions

CONSTANTS SettingsKeys,      \* plugin@version
          ManifestsOf,       \* key -> the manifests that may be installed under it
          Changes,           \* sets of values a command may write: setting id -> value
          Environment,       \* environment variable -> its non-empty value
          LongSecrets,       \* credentials longer than MAX_SECRET_LENGTH
          SettingsJobs, MaxSettingsOps, MaxSettingsRestarts   \* bounds

Unset == <<"unset">>
Null == <<"null">>
Text(s) == <<"text", s>>
Blank == Text("")

ASSUME SettingsAssumption ==
    /\ SettingsKeys = DOMAIN ManifestsOf /\ "torn" \notin SettingsKeys   \* a key holds an @
    /\ \A k \in SettingsKeys : \A m \in ManifestsOf[k] : "none" \notin DOMAIN m.settings
    /\ "" \notin DOMAIN Environment /\ "none" \notin LongSecrets
    /\ {MaxSettingsOps, MaxSettingsRestarts} \subseteq Nat

VARIABLES document,     \* plugins.json: key -> id -> public value, or Torn
          secrets,      \* in memory: key -> id -> secret
          manifestAt,   \* key -> the manifest installed there
          writers,      \* the commands under way
          settingsOps, settingsRestarts,
          saved,        \* history: key -> id -> value, what the commands since completed
          crossed       \* history: two commands were under way at the same time

settingsVars == <<document, secrets, manifestAt, writers, settingsOps, settingsRestarts, saved, crossed>>

Torn == [torn |-> Unset]
Empty == << >>
NoWriter == [pc |-> "idle", key |-> "none", change |-> Empty, doc |-> Empty, clear |-> FALSE]
Entry(doc, k) == IF k \in DOMAIN doc THEN doc[k] ELSE Empty
Put(doc, k, e) == [z \in DOMAIN doc \cup {k} |-> IF z = k THEN e ELSE doc[z]]
Merged(f, g) == [z \in DOMAIN f \cup DOMAIN g |-> IF z \in DOMAIN f THEN f[z] ELSE g[z]]
Drop(doc, k) == Restrict(doc, DOMAIN doc \ {k})
-----------------------------------------------------------------------------
\* validate_value: the type, the range and step of a number, the options of a
\* selection; a secret is not blank.
ValidValue(s, v) ==
    /\ v[1] = (IF s.type = "select" THEN "text" ELSE s.type)
    /\ s.type = "select" => v[2] \in s.options
    /\ s.type = "number" => v[2] \in s.min .. s.max /\ (v[2] - s.min) % s.step = 0
    /\ s.secret => v # Blank

\* validate_definitions, of one definition.
ValidDefinition(s) ==
    /\ s.type \in {"boolean", "text", "number", "select"}
    /\ s.secret => s.type = "text" /\ s.default = Unset
    /\ s.type = "number" => s.min <= s.max /\ s.step > 0
    /\ (s.type = "select") = (s.options # {}) /\ "" \notin s.options
    /\ s.default # Unset => ValidValue(s, s.default)

Settings(m) == DOMAIN m.settings
DefinitionsValid(m) == \A i \in Settings(m) : ValidDefinition(m.settings[i])

Offers(m, i, options) ==
    i \in Settings(m) /\ m.settings[i].type = "select" /\ options \subseteq m.settings[i].options
OfType(m, i, types) == i \in Settings(m) /\ m.settings[i].type \in types
IsSecret(m, i) == i \in Settings(m) /\ m.settings[i].secret

\* validate_connections: ids differ; what a connection refers to is declared, of the right type.
\* hostSecret is the setting of a host secret, or the fallback of an environment one.
ConnectionsValid(m) ==
    /\ \A c, d \in m.connections : c.id = d.id => c = d
    /\ \A c \in m.connections :
       /\ OfType(m, c.url, {"text"})
       /\ c.source # "none" => Offers(m, c.source, {"host-secret", "environment"})
       /\ c.envSetting # "none" => OfType(m, c.envSetting, {"text"})
       /\ c.hostSecret # "none" => IsSecret(m, c.hostSecret)

\* normalized_public_values: what the manifest does not declare, declares secret or
\* would refuse is left out.
Normalized(m, values) ==
    Restrict(values, {i \in DOMAIN values : /\ i \in Settings(m) /\ ~ m.settings[i].secret
                                            /\ ValidValue(m.settings[i], values[i])})

\* build_snapshot.
Effective(m, values) ==
    LET overrides == Normalized(m, values)
        defaulted == {i \in Settings(m) : ~ m.settings[i].secret /\ m.settings[i].default # Unset}
    IN  Merged(overrides, [i \in defaulted |-> m.settings[i].default])

\* build_execution_settings: every required setting has a value or a secret.
Executable(m, values, held) ==
    /\ DefinitionsValid(m)
    /\ \A i \in Settings(m) : m.settings[i].required =>
          i \in (IF m.settings[i].secret THEN DOMAIN held ELSE DOMAIN Effective(m, values))
-----------------------------------------------------------------------------
\* The credential of a connection: for a launch and for a test of the settings as
\* they are saved.  "none" is no credential.
Value(values, i, default) == IF i \in DOMAIN values THEN values[i] ELSE default
Filled(values, i, default) == IF Value(values, i, Blank) = Blank THEN default ELSE values[i]
Variable(name) == IF name[2] \in DOMAIN Environment THEN Environment[name[2]] ELSE "none"
HeldSecret(held, i) == IF i # "none" /\ i \in DOMAIN held THEN held[i][2] ELSE "none"

\* resolve_connection_credentials refuses a source it does not know; a connection
\* without a secret setting never asks it, and a source other than the environment
\* gives it nothing.
SourceSupported(c, values) ==
    \/ c.hostSecret = "none"
    \/ Value(values, c.source, Text(c.kind))[2] \in {"environment", "host-secret", "auto", ""}
LaunchCredential(c, values, held) ==
    LET source == Value(values, c.source, Text(c.kind))[2]
        variable == Variable(Value(values, c.envSetting, Text(c.env)))
        host == HeldSecret(held, c.hostSecret)
    IN  IF source = "environment" THEN variable
        ELSE IF source = "host-secret" THEN host
        ELSE IF c.hostSecret # "none" /\ host = "none" THEN variable ELSE host

\* resolve_connection_context with no unsaved change; draft_secret keeps what is stored.
\* An unknown source and a credential that is too long end the test.
TestCredential(c, values, held) ==
    LET source == Filled(values, c.source, Text(c.kind))[2]
        found == CASE source = "environment" -> Variable(Filled(values, c.envSetting, Text(c.env)))
                   [] source = "host-secret" -> HeldSecret(held, c.hostSecret)
                   [] OTHER -> "none"
    IN  IF found \in LongSecrets THEN "none" ELSE found

\* resolve_worker_provider_launch_settings: each provider the worker reaches needs a
\* declared connection, an address at a domain declared for the provider, a source that
\* is known and a credential that fits; one that lacks them ends the whole launch.
ConnectionFor(m, e) == CHOOSE c \in m.connections : c.id = e.connection
Reachable(m, e, effective) ==
    /\ \E c \in m.connections : c.id = e.connection
    /\ ConnectionFor(m, e).url \in DOMAIN effective
    /\ effective[ConnectionFor(m, e).url] \in e.domains
Equipped(c, effective, held) ==
    SourceSupported(c, effective) /\ LaunchCredential(c, effective, held) \notin LongSecrets

LaunchAllowed(m, values, held) ==
    LET effective == Effective(m, values)
    IN  /\ DefinitionsValid(m)
        /\ \A n \in DOMAIN m.egress :
              /\ Reachable(m, m.egress[n], effective)
              /\ Equipped(ConnectionFor(m, m.egress[n]), effective, held)

\* The providers of a launch that is allowed, in order: the fingerprint is of their
\* public configuration and their credentials.
Launch(m, values, held) ==
    LET effective == Effective(m, values)
    IN  [n \in DOMAIN m.egress |->
            LET c == ConnectionFor(m, m.egress[n])
            IN  [provider |-> m.egress[n].provider, url |-> effective[c.url],
                 credential |-> LaunchCredential(c, effective, held)]]
-----------------------------------------------------------------------------
SettingsInit ==
    /\ document = Empty /\ secrets = Empty
    /\ manifestAt \in [SettingsKeys -> UNION {ManifestsOf[k] : k \in SettingsKeys}]
    /\ \A k \in SettingsKeys : manifestAt[k] \in ManifestsOf[k]
    /\ writers = [j \in SettingsJobs |-> NoWriter]
    /\ settingsOps = 0 /\ settingsRestarts = 0
    /\ saved = Empty /\ crossed = FALSE

Stands(j, pc) == writers[j].pc = pc
Writes(j, w) == writers' = [writers EXCEPT ![j] = w]
BeginsCommand(j) ==
    /\ Stands(j, "idle") /\ settingsOps < MaxSettingsOps /\ settingsOps' = settingsOps + 1
    /\ crossed' = (crossed \/ \E i \in SettingsJobs : ~ Stands(i, "idle"))
    /\ UNCHANGED <<document, secrets, manifestAt, settingsRestarts, saved>>

\* set_values: every id is declared and every value valid; null clears a secret.
Acceptable(m, change) ==
    /\ DefinitionsValid(m)
    /\ \A i \in DOMAIN change :
          /\ i \in Settings(m)
          /\ \/ m.settings[i].secret /\ change[i] = Null
             \/ change[i] # Null /\ ValidValue(m.settings[i], change[i])
SecretIds(m, change) == {i \in DOMAIN change : m.settings[i].secret}
PublicIds(m, change) == DOMAIN change \ SecretIds(m, change)

SetValues(j, k, change) ==
    LET m == manifestAt[k]
        entry == Merged(Restrict(change, PublicIds(m, change)), Normalized(m, Entry(document, k)))
    IN  /\ BeginsCommand(j) /\ document # Torn /\ Acceptable(m, change)
        /\ Writes(j, [NoWriter EXCEPT
               !.pc = IF PublicIds(m, change) # {} \/ DOMAIN entry = {} THEN "write" ELSE "secrets",
               !.key = k, !.change = change, !.doc = Put(document, k, entry)])

\* remove_plugin_settings, of a reset or a removal.
RemoveSettings(j, k) ==
    /\ BeginsCommand(j) /\ document # Torn
    /\ Writes(j, [NoWriter EXCEPT !.pc = IF k \in DOMAIN document THEN "write" ELSE "secrets",
                                  !.key = k, !.doc = Drop(document, k), !.clear = TRUE])

\* Mutant: the file is written where it is.
WriteInPlace(j) ==
    /\ Stands(j, "write")
    /\ document' = Torn
    /\ Writes(j, [writers[j] EXCEPT !.pc = "replace"])
    /\ UNCHANGED <<secrets, manifestAt, settingsOps, settingsRestarts, saved, crossed>>

\* write_persisted_file: a temporary file of its own, then one replacement.  A
\* failure of either leaves the document and the secrets as they were.
WriteTemporary(j) ==
    /\ Stands(j, "write")
    /\ Writes(j, [writers[j] EXCEPT !.pc = "replace"])
    /\ UNCHANGED <<document, secrets, manifestAt, settingsOps, settingsRestarts, saved, crossed>>
WriteFails(j) ==
    /\ Stands(j, "write") \/ Stands(j, "replace")
    /\ Writes(j, NoWriter)
    /\ UNCHANGED <<document, secrets, manifestAt, settingsOps, settingsRestarts, saved, crossed>>
ReplaceDocument(j) ==
    /\ Stands(j, "replace")
    /\ document' = writers[j].doc
    /\ Writes(j, [writers[j] EXCEPT !.pc = "secrets"])
    /\ UNCHANGED <<secrets, manifestAt, settingsOps, settingsRestarts, saved, crossed>>

WriteSecrets(j) ==
    LET w == writers[j]
        ids == IF w.clear THEN {} ELSE DOMAIN w.change \ DOMAIN Entry(w.doc, w.key)
        kept == Restrict(Entry(secrets, w.key),
                         {i \in DOMAIN Entry(secrets, w.key) : i \notin ids})
        added == Restrict(w.change, {i \in ids : w.change[i] # Null})
        entry == IF w.clear THEN Empty ELSE Merged(added, kept)
    IN  /\ Stands(j, "secrets")
        /\ secrets' = IF DOMAIN entry = {} THEN Drop(secrets, w.key) ELSE Put(secrets, w.key, entry)
        /\ saved' = IF w.clear THEN Drop(saved, w.key)
                    ELSE Put(saved, w.key,
                             Merged(Restrict(w.change, DOMAIN w.change \ ids), Entry(saved, w.key)))
        /\ Writes(j, NoWriter)
        /\ UNCHANGED <<document, manifestAt, settingsOps, settingsRestarts, crossed>>

\* Another package of the same identity is installed; what was saved under the old
\* manifest is no longer promised.
Reinstall(k, m) ==
    /\ m \in ManifestsOf[k] /\ m # manifestAt[k]
    /\ manifestAt' = [manifestAt EXCEPT ![k] = m]
    /\ saved' = Drop(saved, k)
    /\ crossed' = (crossed \/ \E i \in SettingsJobs : ~ Stands(i, "idle"))
    /\ UNCHANGED <<document, secrets, writers, settingsOps, settingsRestarts>>

SettingsRestart ==
    /\ settingsRestarts < MaxSettingsRestarts /\ settingsRestarts' = settingsRestarts + 1
    /\ secrets' = Empty
    /\ writers' = [j \in SettingsJobs |-> NoWriter]
    \* a command that was stopped may or may not have replaced the document
    /\ saved' = Restrict(saved, DOMAIN saved \ {writers[j].key : j \in SettingsJobs})
    /\ UNCHANGED <<document, manifestAt, settingsOps, crossed>>

SettingsNext ==
    \/ SettingsRestart
    \/ \E k \in SettingsKeys : \E m \in ManifestsOf[k] : Reinstall(k, m)
    \/ \E j \in SettingsJobs :
          \/ WriteTemporary(j) \/ WriteFails(j) \/ ReplaceDocument(j) \/ WriteSecrets(j)
          \/ \E k \in SettingsKeys :
                RemoveSettings(j, k) \/ \E change \in Changes : SetValues(j, k, change)

SettingsSpec == SettingsInit /\ [][SettingsNext]_settingsVars
-----------------------------------------------------------------------------
\* The document is whole whenever it is read, wherever a command was stopped.
DocumentReadable ==
    /\ document # Torn
    /\ DOMAIN document \cup DOMAIN secrets \subseteq SettingsKeys
    /\ \A k \in DOMAIN secrets : DOMAIN secrets[k] # {} /\ ~ \E i \in DOMAIN secrets[k] : secrets[k][i] = Null

\* Whatever manifest wrote the document, a plugin is run with values its own manifest
\* accepts, none of them a secret, and with nothing required missing.
RunsOnValidSettings ==
    \A k \in SettingsKeys :
       LET m == manifestAt[k]
           effective == Effective(m, Entry(document, k))
       IN  Executable(m, Entry(document, k), Entry(secrets, k)) =>
              \A i \in DOMAIN effective :
                 /\ ValidValue(m.settings[i], effective[i]) /\ ~ m.settings[i].secret
                 /\ m.settings[i].required => effective[i] # Unset

\* What commands completed one after another is there, whichever failed or was stopped.
\* A write that fails changes nothing.
SavedIsThere ==
    crossed \/ \A k \in DOMAIN saved \ {writers[j].key : j \in SettingsJobs} :
               \A i \in DOMAIN saved[k] :
                  i \in DOMAIN Entry(document, k) /\ document[k][i] = saved[k][i]

\* A test and a launch agree, whatever else the worker reaches.  A launch that is allowed
\* gives each provider the credential that the test of its connection finds, unless the
\* name of the variable was saved blank.  And when every provider has a declared address
\* and its connection's test finds a credential, no provider stops the launch.
TestedIsLaunched ==
    \A k \in SettingsKeys :
       LET m == manifestAt[k]
           values == Entry(document, k)
           effective == Effective(m, values)
           held == Entry(secrets, k)
           Tested(n) == TestCredential(ConnectionFor(m, m.egress[n]), effective, held)
           Blanked(n) == Value(effective, ConnectionFor(m, m.egress[n]).envSetting, Unset) = Blank
       IN  DefinitionsValid(m) /\ ConnectionsValid(m) =>
              /\ LaunchAllowed(m, values, held) =>
                    \A n \in DOMAIN m.egress : Tested(n) = "none" \/ Blanked(n) \/
                       Launch(m, values, held)[n].credential = Tested(n)
              /\ (\A n \in DOMAIN m.egress :
                     Reachable(m, m.egress[n], effective) /\ Tested(n) # "none")
                    => LaunchAllowed(m, values, held)

SettingsSound == DocumentReadable /\ RunsOnValidSettings /\ SavedIsThere /\ TestedIsLaunched
=============================================================================

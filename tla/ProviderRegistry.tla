--------------------------- MODULE ProviderRegistry ---------------------------
(* The language model providers a user chooses from
   (src-tauri/src/llm_provider_registry.rs) and the one key file
   (src-tauri/src/deepseek_client.rs).  Every command holds the registry's lock
   from beginning to end; plugins are installed and removed without it, and the
   commands of deepseek_client.rs read and write the file without it.  Starting the
   host reads no key back into the registry. *)
EXTENDS FiniteSets

CONSTANTS
  Providers,       \* the provider plugins that may be installed
  ApiKeys,         \* keys a user may enter
  NoProvider, NoKey

ASSUME ProvidersAssumption == NoProvider \notin Providers /\ NoKey \notin ApiKeys

VARIABLES
  installed,       \* the provider plugins on disk
  providers,       \* the providers the registry knows
  activeProvider,
  apiKeys,         \* the keys in memory, by provider
  keyFile,         \* the key on disk, of no provider in particular
  entered,         \* the key the user entered last for a provider, or cleared (auxiliary)
  client           \* the client built in this step: [provider, key]

providerVars == <<installed, providers, activeProvider, apiKeys, keyFile, entered, client>>

NoClient == [provider |-> NoProvider, key |-> NoKey]
Unset == [p \in Providers |-> NoKey]
NotBuilt == client' = NoClient

ProvidersInit ==
  /\ installed = {}
  /\ providers = {} /\ activeProvider = NoProvider
  /\ apiKeys = Unset /\ keyFile = NoKey /\ entered = Unset /\ client = NoClient

\* Plugins come and go without the registry.
InstallOrRemove ==
  /\ installed' \in SUBSET Providers /\ installed' # installed
  /\ NotBuilt /\ UNCHANGED <<providers, activeProvider, apiKeys, keyFile, entered>>

\* Mutant: the choice outlives its plugin.
StillActive(known) == activeProvider

ActiveAmong(known) == IF activeProvider \in known THEN activeProvider ELSE NoProvider

\* list_llm_providers refreshes; the keys of providers that are gone are kept.
ListProviders ==
  /\ providers' = installed
  /\ activeProvider' = ActiveAmong(installed)
  /\ NotBuilt /\ UNCHANGED <<installed, apiKeys, keyFile, entered>>

SetActive(p) ==
  /\ p \in providers
  /\ activeProvider' = p
  /\ NotBuilt /\ UNCHANGED <<installed, providers, apiKeys, keyFile, entered>>

\* The file is written first; a write that fails leaves the key in memory as it was.
SetApiKey(p, key) ==
  /\ p \in providers
  /\ \/ keyFile' = key /\ apiKeys' = [apiKeys EXCEPT ![p] = key]
        /\ entered' = [entered EXCEPT ![p] = key]
     \/ keyFile' = NoKey /\ UNCHANGED <<apiKeys, entered>>
  /\ NotBuilt /\ UNCHANGED <<installed, providers, activeProvider>>

\* The file is removed whichever provider's key it holds, and its removal may fail.
ClearApiKey(p) ==
  /\ apiKeys' = [apiKeys EXCEPT ![p] = NoKey]
  /\ entered' = [entered EXCEPT ![p] = NoKey]
  /\ keyFile' \in {keyFile, NoKey}
  /\ NotBuilt /\ UNCHANGED <<installed, providers, activeProvider>>

\* set_deepseek_api_key and clear_deepseek_api_key.
WriteKeyFile ==
  /\ keyFile' \in ApiKeys \union {NoKey}
  /\ NotBuilt /\ UNCHANGED <<installed, providers, activeProvider, apiKeys, entered>>

\* A client is built for the active provider, known and with a key in memory.
BuildClient ==
  /\ activeProvider \in providers /\ apiKeys[activeProvider] # NoKey
  /\ client' = [provider |-> activeProvider, key |-> apiKeys[activeProvider]]
  /\ UNCHANGED <<installed, providers, activeProvider, apiKeys, keyFile, entered>>

\* The host starts again: only the file and the plugins are left.
RestartHost ==
  /\ providers' = {} /\ activeProvider' = NoProvider /\ apiKeys' = Unset /\ entered' = Unset
  /\ NotBuilt /\ UNCHANGED <<installed, keyFile>>

ProvidersNext ==
  \/ InstallOrRemove \/ ListProviders \/ WriteKeyFile \/ BuildClient \/ RestartHost
  \/ \E p \in Providers : SetActive(p) \/ ClearApiKey(p) \/ \E key \in ApiKeys : SetApiKey(p, key)

ProvidersSpec == ProvidersInit /\ [][ProvidersNext]_providerVars

\* A client carries the key entered last for its own provider, whatever was done to
\* the shared key file, and its provider is one that was installed when the list
\* was last refreshed.
ClientsUseOwnKeys ==
  /\ client # NoClient => client.key = entered[client.provider] /\ client.provider \in providers
  /\ activeProvider \in providers \union {NoProvider}
=============================================================================

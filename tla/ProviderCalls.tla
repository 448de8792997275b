---------------------------- MODULE ProviderCalls ----------------------------
(* The registry of providers a client is built from and the calls that client makes.  The
   two run side by side and share nothing: a client has a copy of its configuration. *)
EXTENDS LlmClient, ProviderRegistry

ProviderCallsSpec == LlmSpec /\ ProvidersSpec

\* What is asked of a provider and what is kept of it: LlmSound, ClientsUseOwnKeys.
ProviderCallsSound == LlmSound /\ ClientsUseOwnKeys
=============================================================================

------------------------ MODULE MCKernelRegistries ------------------------
(* The kernel's small registries in one instance. Each is a structure of
   KernelState behind a lock of its own, and no step of a handler writes two of
   them, so a behaviour of the kernel projects on each registry as a behaviour
   of that registry's module: `focus` says which of them this behaviour moves.
   The installed packages, which share nothing with them, are moved here too. *)
EXTENDS CapabilityPolicy, BlobStore, HostRegistries, RpcLedger, PluginSurfaces, WorkerSupervisor,
        MCPackages

VARIABLE focus

MCCapability == [op \in Operations |-> IF op = "put" THEN "graph.write" ELSE "graph.read"]
MCQuota == [stored |-> 2, blob |-> 2, inflight |-> 3, uploads |-> 2, reads |-> 1, readTtl |-> 1]
MCDeadline == [c \in Contexts |-> IF c = "c1" THEN 2 ELSE 1]
MCLease(c, at) == TRUE
MCDeclared == "a" :> {"review", "other"} @@ "b" :> {"other"} @@ "u" :> {}

kernelVars ==
    <<policyVars, blobVars, registryVars, rpcLedgerVars, surfaceVars, supervisorVars, installedVars,
      focus>>

KernelInit ==
    /\ focus \in {"policy", "blobs", "hosts", "ledger", "surfaces", "workers", "packages"}
    /\ PolicyInit
    /\ BlobInit
    /\ RegistriesInit
    /\ LedgerInit
    /\ SurfacesInit
    /\ SupervisorInit
    /\ InstalledInit

KernelNext ==
    /\ focus' = focus
    /\ \/ focus = "policy" /\ PolicyNext
       \/ focus # "policy" /\ UNCHANGED policyVars
    /\ \/ focus = "blobs" /\ BlobNext
       \/ focus # "blobs" /\ UNCHANGED blobVars
    /\ \/ focus = "hosts" /\ RegistriesNext
       \/ focus # "hosts" /\ UNCHANGED registryVars
    /\ \/ focus = "ledger" /\ LedgerNext
       \/ focus # "ledger" /\ UNCHANGED rpcLedgerVars
    /\ \/ focus = "surfaces" /\ SurfacesNext
       \/ focus # "surfaces" /\ UNCHANGED surfaceVars
    /\ \/ focus = "workers" /\ SupervisorNext
       \/ focus # "workers" /\ UNCHANGED supervisorVars
    /\ \/ focus = "packages" /\ InstalledNext
       \/ focus # "packages" /\ UNCHANGED installedVars

KernelSpec == KernelInit /\ [][KernelNext]_kernelVars
=============================================================================

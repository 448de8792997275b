---------------------------- MODULE PluginInstall ----------------------------
(***************************************************************************)
(* Packages on disk: installation, discovery and removal of plugins        *)
(* (plugins.rs), the supply-chain gate in front of an explicit             *)
(* installation (kernel/package_gate.rs) and the signature of a package    *)
(* (signing.rs).                                                           *)
(*                                                                         *)
(* A directory is the files in it, each with the package it came from; an  *)
(* archive is the package itself.  Nothing serialises the operations, and  *)
(* the program may stop between any two of their steps: the disk stays,    *)
(* the gate, the manifest cache and the operations do not.                 *)
(***************************************************************************)
EXTENDS Integers, Sequences, FiniteSets, Functions

CONSTANTS Packages,        \* records: key, files in archive order, signer, publisher, payloads, unpacks, loads
          BuiltinKeys,     \* publisher -> key compiled into the program
          FileKeys,        \* publisher -> key of trusted-keys.json
          FileKeysParse,   \* that file, and every key in it, can be parsed
          MaxCandidates,   \* of the gate
          PackageJobs,     \* operations at a time
          MaxPackageOps, MaxRestarts   \* bounds

PluginKeys == {p.key : p \in Packages}
EntryFiles == {"plugin.json", "entry"}
Payloads == {"undeclared", "match", "differ"}

ASSUME PackagesAssumption ==
    /\ \A p \in Packages : EntryFiles \subseteq Range(p.files) /\ p.payloads \in Payloads
    /\ \A p \in Packages : p.files \in Seq(Range(p.files)) /\ p.unpacks \in BOOLEAN /\ p.loads \in BOOLEAN
    /\ MaxCandidates \in Nat \ {0} /\ {MaxPackageOps, MaxRestarts} \subseteq Nat

VARIABLES archives,     \* the packages directory
          source,       \* a package file of the user's, outside it
          installed,    \* key -> directory; an absent key has none
          staging,      \* key -> the directory .staging-key
          tombstones,   \* removed-plugins.json
          manifests,    \* process-wide cache: path -> package read there
          gate,         \* digest -> status
          jobs,         \* the operations under way
          opsBegun, restarts,
          disturbed,    \* history: keys two operations wrote, or whose removal was cut short
          raced,        \* history: two operations crossed on the tombstones
          gone          \* history: removed by the user and not asked for again

packageVars == <<archives, source, installed, staging, tombstones, manifests, gate, jobs,
                 opsBegun, restarts, disturbed, raced, gone>>
histories == <<disturbed, raced, gone>>

NoJob == [pc |-> "idle", pkg |-> "none", key |-> "none", explicit |-> FALSE,
          todo |-> << >>, seen |-> {}, pending |-> {}]
NoneOf == << >>
Extended(f, x, y) == [z \in DOMAIN f \cup {x} |-> IF z = x THEN y ELSE f[z]]

PackagesInit ==
    /\ archives \in {{}, Packages} /\ source \in Packages
    /\ installed = NoneOf /\ staging = NoneOf /\ tombstones = {} /\ manifests = NoneOf
    /\ gate = NoneOf
    /\ jobs = [j \in PackageJobs |-> NoJob]
    /\ opsBegun = 0 /\ restarts = 0
    /\ disturbed = {} /\ raced = FALSE /\ gone = {}
-----------------------------------------------------------------------------
\* The gate: each transition demands its predecessor, NoneOf is a refusal.
Submit(g, d) ==
    IF d \in DOMAIN g \/ Cardinality(DOMAIN g) >= MaxCandidates THEN NoneOf
    ELSE Extended(g, d, "quarantined")
Advance(g, d, from, to) ==
    IF d \in DOMAIN g /\ g[d] = from THEN [g EXCEPT ![d] = to] ELSE NoneOf

\* run_package_gate: the four transitions under one lock.
GateRun(g, d) ==
    LET scanned == Advance(Submit(g, d), d, "quarantined", "scanned")
        approved == Advance(scanned, d, "scanned", "approved")
    IN  Advance(approved, d, "approved", "activated")
GatePasses(d) == GateRun(gate, d) # NoneOf

\* A built-in key wins over the file; a malformed file refuses every signed package.
PublicKey(publisher) ==
    IF publisher \in DOMAIN BuiltinKeys THEN BuiltinKeys[publisher]
    ELSE IF publisher \in DOMAIN FileKeys THEN FileKeys[publisher] ELSE "no key"
SignatureAccepted(p) ==
    \/ p.signer = "unsigned"
    \/ FileKeysParse /\ p.signer = PublicKey(p.publisher)

\* The payload hashes of the manifest against what is staged.
PayloadsVerified(p, dir) ==
    \/ p.payloads = "undeclared"
    \/ p.payloads = "match" /\ DOMAIN dir = Range(p.files)
         /\ \A f \in DOMAIN dir \ {"plugin.json"} : dir[f] = p

\* read_installed_plugin: the cache answers first; what loads is cached.
Loads(dir) == EntryFiles \subseteq DOMAIN dir /\ \A f \in EntryFiles : dir[f].loads
Reads(cache, path, dir) == path \in DOMAIN cache \/ Loads(dir)
CacheAfter(cache, path, dir) ==
    IF path \notin DOMAIN cache /\ Loads(dir) THEN Extended(cache, path, dir["plugin.json"]) ELSE cache
Forget(f, x) == Restrict(f, DOMAIN f \ {x})
At(f, k) == IF k \in DOMAIN f THEN f[k] ELSE NoneOf
-----------------------------------------------------------------------------
Goes(j, job) == jobs' = [jobs EXCEPT ![j] = job]
Ends(j) ==      \* a discovery goes on with its next package, another operation is over
    Goes(j, IF jobs[j].explicit THEN NoJob
            ELSE [jobs[j] EXCEPT !.pc = "discover", !.pkg = "none", !.key = "none", !.todo = << >>])
In(j, pc) == jobs[j].pc = pc
Others(j, pcs) == \E i \in PackageJobs \ {j} : jobs[i].pc \in pcs
Removing == {"remove", "removing", "uncache", "bury"}
Installing == {"discover", "resolve", "open", "extract", "verify", "rename", "clear", "unbury"}
Writers(k) == {i \in PackageJobs : jobs[i].key = k /\ jobs[i].pc \in {"extract", "verify", "rename"}}

Begins(j) == In(j, "idle") /\ opsBegun < MaxPackageOps /\ opsBegun' = opsBegun + 1

\* plugin.install.  An external file is copied into the packages directory for the
\* digest, and once more for the installation.
InstallGate(j, p, external) ==
    /\ Begins(j)
    /\ IF external THEN p = source ELSE p \in archives
    /\ archives' = archives \cup {p}
    /\ gate' = IF GatePasses(p) THEN GateRun(gate, p) ELSE gate
    /\ IF GatePasses(p)
       THEN /\ Goes(j, [NoJob EXCEPT !.pc = IF external THEN "resolve" ELSE "open",
                                     !.pkg = p, !.explicit = TRUE])
            /\ gone' = gone \ {p.key}
       ELSE UNCHANGED <<jobs, gone>>
    /\ raced' = (raced \/ Others(j, Removing))
    /\ UNCHANGED <<source, installed, staging, tombstones, manifests, restarts, disturbed>>
InstallResolve(j) ==
    /\ In(j, "resolve")
    /\ archives' = archives \cup {source}
    /\ gone' = gone \ {source.key}
    /\ Goes(j, [jobs[j] EXCEPT !.pc = "open", !.pkg = source])
    /\ UNCHANGED <<source, installed, staging, tombstones, manifests, gate, opsBegun, restarts,
                   disturbed, raced>>

\* install_pending_packages: the tombstones are read once, before the packages.
Discover(j) ==
    /\ Begins(j)
    /\ Goes(j, [NoJob EXCEPT !.pc = "discover", !.seen = tombstones, !.pending = archives])
    /\ raced' = (raced \/ Others(j, Removing))
    /\ UNCHANGED <<archives, source, installed, staging, tombstones, manifests, gate, restarts,
                   disturbed, gone>>
DiscoverNext(j, p) ==
    /\ In(j, "discover") /\ p \in jobs[j].pending
    /\ LET rest == [jobs[j] EXCEPT !.pending = @ \ {p}] IN
          Goes(j, IF SignatureAccepted(p) /\ p.key \notin DOMAIN installed
                        /\ p.key \notin jobs[j].seen
                  THEN [rest EXCEPT !.pc = "open", !.pkg = p] ELSE rest)
    /\ UNCHANGED <<archives, source, installed, staging, tombstones, manifests, gate, opsBegun,
                   restarts, disturbed, raced, gone>>
DiscoverEnd(j) ==
    /\ In(j, "discover") /\ jobs[j].pending = {}
    /\ Goes(j, NoJob)
    /\ UNCHANGED <<archives, source, installed, staging, tombstones, manifests, gate, opsBegun,
                   restarts, disturbed, raced, gone>>

\* Mutant: the staging directory is created over what a stopped installation left.
LeftoverStaging(k) == IF k \in DOMAIN staging THEN staging ELSE Extended(staging, k, NoneOf)

FreshStaging(k) == Extended(staging, k, NoneOf)

\* install_archive_into: a directory that is there is what is returned.
OpenArchive(j) ==
    LET p == jobs[j].pkg
        path == <<"installed", p.key>>
    IN  /\ In(j, "open")
        /\ IF ~ SignatureAccepted(p)
           THEN Ends(j) /\ UNCHANGED <<staging, manifests, disturbed>>
           ELSE IF p.key \in DOMAIN installed
           THEN /\ manifests' = CacheAfter(manifests, path, installed[p.key])
                /\ IF jobs[j].explicit /\ Reads(manifests, path, installed[p.key])
                   THEN Goes(j, [jobs[j] EXCEPT !.pc = "clear", !.key = p.key])
                   ELSE Ends(j)
                /\ UNCHANGED <<staging, disturbed>>
           ELSE /\ staging' = FreshStaging(p.key)
                /\ disturbed' = disturbed \cup (IF Writers(p.key) = {} THEN {} ELSE {p.key})
                /\ Goes(j, [jobs[j] EXCEPT !.pc = "extract", !.key = p.key, !.todo = p.files])
                /\ UNCHANGED manifests
        /\ UNCHANGED <<archives, source, installed, tombstones, gate, opsBegun, restarts, raced, gone>>

\* A file is created with its parents: a staging directory that was renamed comes back.
Extract(j) ==
    LET p == jobs[j].pkg
        f == Head(jobs[j].todo)
        last == Len(jobs[j].todo) = 1
        fails == last /\ ~ p.unpacks
    IN  /\ In(j, "extract")
        /\ staging' = IF fails THEN Forget(staging, p.key)
                      ELSE Extended(staging, p.key, Extended(At(staging, p.key), f, p))
        /\ IF fails THEN Ends(j)
           ELSE Goes(j, [jobs[j] EXCEPT !.todo = Tail(@),
                                        !.pc = IF last THEN "verify" ELSE "extract"])
        /\ UNCHANGED <<archives, source, installed, tombstones, manifests, gate, opsBegun, restarts,
                       disturbed, raced, gone>>

\* Payload hashes, then the staged plugin is read; only the first removes what it refuses.
Verify(j) ==
    LET p == jobs[j].pkg
        path == <<"staging", p.key>>
        dir == At(staging, p.key)
    IN  /\ In(j, "verify")
        /\ IF ~ PayloadsVerified(p, dir)
           THEN staging' = Forget(staging, p.key) /\ Ends(j) /\ UNCHANGED manifests
           ELSE /\ manifests' = CacheAfter(manifests, path, dir)
                /\ IF Reads(manifests, path, dir)
                   THEN Goes(j, [jobs[j] EXCEPT !.pc = "rename"]) ELSE Ends(j)
                /\ UNCHANGED staging
        /\ UNCHANGED <<archives, source, installed, tombstones, gate, opsBegun, restarts,
                       disturbed, raced, gone>>

Rename(j) ==
    LET p == jobs[j].pkg
        path == <<"installed", p.key>>
    IN  /\ In(j, "rename")
        /\ IF p.key \notin DOMAIN staging \/ p.key \in DOMAIN installed
           THEN Ends(j) /\ UNCHANGED <<installed, staging, manifests>>
           ELSE /\ installed' = Extended(installed, p.key, staging[p.key])
                /\ staging' = Forget(staging, p.key)
                /\ manifests' = CacheAfter(Forget(manifests, path), path, staging[p.key])
                /\ IF jobs[j].explicit /\ Loads(staging[p.key])
                   THEN Goes(j, [jobs[j] EXCEPT !.pc = "clear"]) ELSE Ends(j)
        /\ UNCHANGED <<archives, source, tombstones, gate, opsBegun, restarts, disturbed, raced, gone>>

\* plugin.uninstall: the directory, then the tombstone.
Uninstall(j, k) ==
    /\ Begins(j)
    /\ k \in DOMAIN installed /\ Reads(manifests, <<"installed", k>>, installed[k])
    /\ manifests' = CacheAfter(manifests, <<"installed", k>>, installed[k])
    /\ Goes(j, [NoJob EXCEPT !.pc = "remove", !.key = k])
    /\ raced' = (raced \/ Others(j, Installing))
    /\ UNCHANGED <<archives, source, installed, staging, tombstones, gate, restarts, disturbed, gone>>
RemoveFiles(j) ==
    LET k == jobs[j].key IN
    /\ In(j, "remove")
    /\ IF k \notin DOMAIN installed THEN Goes(j, NoJob) /\ UNCHANGED installed
       ELSE \/ /\ installed' = [installed EXCEPT ![k] = Restrict(@, {"plugin.json"})]
               /\ Goes(j, [jobs[j] EXCEPT !.pc = "removing"])
            \/ /\ installed' = Forget(installed, k)
               /\ Goes(j, [jobs[j] EXCEPT !.pc = "uncache"])
    /\ UNCHANGED <<archives, source, staging, tombstones, manifests, gate, opsBegun, restarts,
                   disturbed, raced, gone>>
RemoveRest(j) ==
    /\ In(j, "removing")
    /\ installed' = Forget(installed, jobs[j].key)
    /\ Goes(j, [jobs[j] EXCEPT !.pc = "uncache"])
    /\ UNCHANGED <<archives, source, staging, tombstones, manifests, gate, opsBegun, restarts,
                   disturbed, raced, gone>>

\* The tombstones are read, changed and written back, by a removal and by the
\* clear_removed_plugin of an explicit installation.
ReadTombstones(j) ==
    /\ \/ In(j, "uncache")
       \/ In(j, "clear") /\ jobs[j].key \in tombstones
    /\ manifests' = IF In(j, "uncache") THEN Forget(manifests, <<"installed", jobs[j].key>>)
                    ELSE manifests
    /\ Goes(j, [jobs[j] EXCEPT !.pc = IF In(j, "uncache") THEN "bury" ELSE "unbury",
                               !.seen = tombstones])
    /\ raced' = (raced \/ Others(j, {"bury", "unbury"}))
    /\ UNCHANGED <<archives, source, installed, staging, tombstones, gate, opsBegun, restarts,
                   disturbed, gone>>
NothingToClear(j) ==
    /\ In(j, "clear") /\ jobs[j].key \notin tombstones
    /\ Goes(j, NoJob)
    /\ UNCHANGED <<archives, source, installed, staging, tombstones, manifests, gate, opsBegun,
                   restarts, disturbed, raced, gone>>
WriteTombstones(j) ==
    LET k == jobs[j].key IN
    /\ In(j, "bury") \/ In(j, "unbury")
    /\ tombstones' = IF In(j, "bury") THEN jobs[j].seen \cup {k} ELSE jobs[j].seen \ {k}
    /\ gone' = IF In(j, "bury") THEN gone \cup {k} ELSE gone
    /\ Goes(j, NoJob)
    /\ UNCHANGED <<archives, source, installed, staging, manifests, gate, opsBegun, restarts,
                   disturbed, raced>>

\* The user writes another package to the same place.
ReplaceSource(p) ==
    /\ source # p /\ \E j \in PackageJobs : In(j, "resolve")
    /\ source' = p
    /\ UNCHANGED <<archives, installed, staging, tombstones, manifests, gate, jobs, opsBegun,
                   restarts, disturbed, raced, gone>>

Restart ==
    /\ restarts < MaxRestarts /\ restarts' = restarts + 1
    /\ manifests' = NoneOf /\ gate' = NoneOf
    /\ jobs' = [j \in PackageJobs |-> NoJob]
    /\ disturbed' = disturbed \cup {jobs[j].key : j \in {i \in PackageJobs : In(i, "removing")}}
    /\ UNCHANGED <<archives, source, installed, staging, tombstones, opsBegun, raced, gone>>

PackagesNext ==
    \/ Restart
    \/ \E p \in Packages : ReplaceSource(p)
    \/ \E j \in PackageJobs :
          \/ Discover(j) \/ DiscoverEnd(j) \/ InstallResolve(j) \/ OpenArchive(j) \/ Extract(j) \/ Verify(j) \/ Rename(j)
          \/ RemoveFiles(j) \/ RemoveRest(j)
          \/ ReadTombstones(j) \/ NothingToClear(j) \/ WriteTombstones(j)
          \/ \E p \in Packages : \/ DiscoverNext(j, p)
                                 \/ \E external \in BOOLEAN : InstallGate(j, p, external)
          \/ \E k \in PluginKeys : Uninstall(j, k)

PackagesSpec == PackagesInit /\ [][PackagesNext]_packageVars
-----------------------------------------------------------------------------
PackagesTypeOK ==
    /\ archives \subseteq Packages /\ source \in Packages
    /\ DOMAIN installed \cup DOMAIN staging \cup tombstones \subseteq PluginKeys
    /\ \A k \in DOMAIN installed : DOMAIN installed[k] \subseteq UNION {Range(p.files) : p \in Packages}
    /\ Cardinality(DOMAIN gate) <= MaxCandidates /\ Range(gate) \subseteq {"activated"}

BeingRemoved(k) == \E j \in PackageJobs : In(j, "removing") /\ jobs[j].key = k

\* Exactly the files of one package of that key, whose signature and payload hashes were
\* accepted.
WholePackage(dir, k) ==
    \E p \in Packages : /\ p.key = k /\ SignatureAccepted(p) /\ p.unpacks
                        /\ DOMAIN dir = Range(p.files) /\ Range(dir) = {p}
                        /\ PayloadsVerified(p, dir)

\* A directory that installations of its key did not cross on holds a whole package,
\* wherever earlier installations were stopped.
InstalledWhole ==
    \A k \in DOMAIN installed \ disturbed : BeingRemoved(k) \/ WholePackage(installed[k], k)

\* What the user removed stays removed through restarts and discoveries until it is
\* asked for again, unless operations crossed on the list of removed plugins.
RemovedStayRemoved == raced \/ \A k \in gone : k \in tombstones /\ k \notin DOMAIN installed

PackagesSound == PackagesTypeOK /\ InstalledWhole /\ RemovedStayRemoved

\* plugins.rs:2648 "A bad package must not poison discovery; skip it and continue.": where
\* no operations crossed, every plugin in the catalog can be read.  One that cannot ends
\* query_installed_plugins_from (its ?) for all the others.  The packages that reach the
\* catalog were "verified" (README.md:47) by reading them in the staging directory, where
\* the manifest cache may still answer for an earlier package of the same key.
BadPackagesAreSkipped ==
    raced \/ \A k \in DOMAIN installed \ disturbed :
                BeingRemoved(k) \/ Reads(manifests, <<"installed", k>>, installed[k])
=============================================================================

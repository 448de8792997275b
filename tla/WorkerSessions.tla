--------------------------- MODULE WorkerSessions ---------------------------
(***************************************************************************)
(* PluginWorkerSessionRegistry (kernel/plugin_surfaces.rs): the pool of    *)
(* external worker processes, one entry per plugin id and version.         *)
(*                                                                         *)
(* Threads are Host calls that run at the same time.  A thread takes the   *)
(* registry mutex only for one short step, so such a step is one action;   *)
(* the mutex of an entry is held over a spawn and a whole request, so it   *)
(* is a variable.  An entry is shared by reference count: its process dies *)
(* when neither the pool nor a thread refers to it (Drop of                *)
(* PythonWorkerSession kills the process).                                 *)
(***************************************************************************)
EXTENDS Naturals, Sequences, FiniteSets

CONSTANTS Threads, Keys,      \* Keys: pluginId@version
          ControlIds,         \* ids a cancellable request registers under
          Fingerprints,       \* launch configurations
          MaxGenerations,     \* bound: entries ever created
          MaxOperations,      \* bound: requests and settings writes started
          NoThread, NoControl, NoProcess

ASSUME SessionsAssumption ==
    /\ NoThread \notin Threads
    /\ NoControl \notin ControlIds
    /\ NoProcess \notin Fingerprints
    /\ Fingerprints # {}
    /\ MaxGenerations \in Nat
    /\ MaxOperations \in Nat

VARIABLES config,     \* key -> the stored settings, by their fingerprint
          entries,    \* all entries ever created; the index is the generation
          sessions,   \* key -> generation of the pooled entry, 0 if none
          lock,       \* generation -> thread inside the entry's mutex
          inflight,   \* control id -> thread whose flag is registered
          cancelled,  \* thread -> its cancellation flag
          pc, key, control, launch,   \* of each thread
          candidate,  \* thread -> generation it works with, 0 if none
          replaced,   \* thread -> generation it has to shut down, 0 if none
          latest,     \* history: control id -> thread that registered last
          operations  \* bound: operations started so far

poolVars == <<entries, sessions, lock>>
controlVars == <<inflight, cancelled, latest>>
threadVars == <<pc, key, control, launch, candidate, replaced>>
vars == <<config, entries, sessions, lock, inflight, cancelled, pc, key,
          control, launch, candidate, replaced, latest, operations>>

Locations == {"idle", "register", "lookup", "retireOld", "acquire", "check",
              "spawn", "running", "retire", "remove", "unregister",
              "shutRemove", "shutRetire", "shutWait"}

Generations == 1 .. Len(entries)

\* proc is the fingerprint the process was launched with.  shut is history:
\* shutdown_plugin or a replacement has finished with this entry.
EntryRecords == [key : Keys, fingerprint : Fingerprints, retired : BOOLEAN,
                 proc : Fingerprints \cup {NoProcess}, shut : BOOLEAN]

SessionsTypeOK ==
    /\ config \in [Keys -> Fingerprints]
    /\ entries \in Seq(EntryRecords)
    /\ sessions \in [Keys -> Generations \cup {0}]
    /\ lock \in [Generations -> Threads \cup {NoThread}]
    /\ inflight \in [ControlIds -> Threads \cup {NoThread}]
    /\ latest \in [ControlIds -> Threads \cup {NoThread}]
    /\ cancelled \in [Threads -> BOOLEAN]
    /\ pc \in [Threads -> Locations]
    /\ key \in [Threads -> Keys]
    /\ control \in [Threads -> ControlIds \cup {NoControl}]
    /\ launch \in [Threads -> Fingerprints]
    /\ candidate \in [Threads -> Generations \cup {0}]
    /\ replaced \in [Threads -> Generations \cup {0}]
    /\ operations \in Nat

SessionsInit ==
    /\ config \in [Keys -> Fingerprints]
    /\ entries = << >>
    /\ sessions = [k \in Keys |-> 0]
    /\ lock = << >>
    /\ inflight = [c \in ControlIds |-> NoThread]
    /\ latest = [c \in ControlIds |-> NoThread]
    /\ cancelled = [t \in Threads |-> FALSE]
    /\ pc = [t \in Threads |-> "idle"]
    /\ \E k \in Keys : key = [t \in Threads |-> k]
    /\ control = [t \in Threads |-> NoControl]
    /\ \E f \in Fingerprints : launch = [t \in Threads |-> f]
    /\ candidate = [t \in Threads |-> 0]
    /\ replaced = [t \in Threads |-> 0]
    /\ operations = 0
-----------------------------------------------------------------------------
GoTo(t, location) == pc' = [pc EXCEPT ![t] = location]

\* The entry's process stops and its slot is empty (take of the Option).
Emptied(e) == [entries[e] EXCEPT !.proc = NoProcess]

\* A surface request reads the plugin's settings and builds its launch
\* configuration before it comes to the registry.
StartRequest(t, k, c) ==
    /\ pc[t] = "idle"
    /\ operations < MaxOperations
    /\ operations' = operations + 1
    /\ key' = [key EXCEPT ![t] = k]
    /\ control' = [control EXCEPT ![t] = c]
    /\ launch' = [launch EXCEPT ![t] = config[k]]
    /\ GoTo(t, IF c = NoControl THEN "lookup" ELSE "register")
    /\ UNCHANGED <<config, candidate, replaced>>
    /\ UNCHANGED poolVars /\ UNCHANGED controlVars

\* request_with_host_control_launch registers a fresh flag, replacing any flag
\* registered under the same id.
RegisterControl(t) ==
    /\ pc[t] = "register"
    /\ inflight' = [inflight EXCEPT ![control[t]] = t]
    /\ latest' = [latest EXCEPT ![control[t]] = t]
    /\ cancelled' = [cancelled EXCEPT ![t] = FALSE]
    /\ GoTo(t, "lookup")
    /\ UNCHANGED <<config, key, control, launch, candidate, replaced, operations>>
    /\ UNCHANGED poolVars

\* Mutant: a pooled entry is reused whatever configuration it was made for.
StaleNever(e, t) == FALSE

\* The pooled entry was made for another launch configuration.
Stale(e, t) == entries[e].fingerprint # launch[t]

\* Mutant: the generation counter moves twice for one entry.
NextGenerationTwice == Len(entries) + 2

NextGeneration == Len(entries) + 1

NewEntry(t) == [key |-> key[t], fingerprint |-> launch[t], retired |-> FALSE,
                proc |-> NoProcess, shut |-> FALSE]

\* Top of the loop, under the registry mutex: drop an entry of another
\* configuration, then find or insert the entry to use.
Lookup(t) ==
    LET e     == sessions[key[t]]
        swap  == e # 0 /\ Stale(e, t)
        fresh == e = 0 \/ swap
        marked == IF swap THEN [entries EXCEPT ![e].retired = TRUE] ELSE entries
    IN  /\ pc[t] = "lookup"
        /\ fresh => Len(entries) < MaxGenerations
        /\ entries' = IF fresh THEN Append(marked, NewEntry(t)) ELSE marked
        /\ lock' = IF fresh THEN Append(lock, NoThread) ELSE lock
        /\ candidate' = [candidate EXCEPT ![t] = IF fresh THEN NextGeneration ELSE e]
        /\ sessions' = [sessions EXCEPT ![key[t]] = candidate'[t]]
        /\ replaced' = [replaced EXCEPT ![t] = IF swap THEN e ELSE 0]
        /\ GoTo(t, IF swap THEN "retireOld" ELSE "acquire")
        /\ UNCHANGED <<config, key, control, launch, operations>>
        /\ UNCHANGED controlVars

\* Lock the entry just replaced, shut its process down, leave it empty.
ShutDown(t, e) ==
    /\ lock[e] = NoThread
    /\ entries' = [entries EXCEPT ![e] = [Emptied(e) EXCEPT !.shut = TRUE]]
    /\ replaced' = [replaced EXCEPT ![t] = 0]

RetireOld(t) ==
    /\ pc[t] = "retireOld"
    /\ ShutDown(t, replaced[t])
    /\ GoTo(t, "acquire")
    /\ UNCHANGED <<config, sessions, lock, key, control, launch, candidate, operations>>
    /\ UNCHANGED controlVars

Acquire(t) ==
    /\ pc[t] = "acquire"
    /\ lock[candidate[t]] = NoThread
    /\ lock' = [lock EXCEPT ![candidate[t]] = t]
    /\ GoTo(t, "check")
    /\ UNCHANGED <<config, entries, sessions, key, control, launch, candidate,
                   replaced, operations>>
    /\ UNCHANGED controlVars

Release(t) == lock' = [lock EXCEPT ![candidate[t]] = NoThread]

\* Under the entry's mutex: take the process, mark the entry retired, release
\* the mutex and drop the process.
TakeAndRetire(t) ==
    /\ entries' = [entries EXCEPT ![candidate[t]] =
                     [Emptied(candidate[t]) EXCEPT !.retired = TRUE]]
    /\ Release(t)
    /\ GoTo(t, "remove")
    /\ UNCHANGED <<config, sessions, key, control, launch, candidate, replaced,
                   operations>>
    /\ UNCHANGED controlVars

\* Cancelled before the worker was asked anything.
CancelledBeforeDispatch(t) ==
    /\ pc[t] = "check"
    /\ cancelled[t]
    /\ TakeAndRetire(t)

MayUse(t) == ~ entries[candidate[t]].retired

\* The entry was retired while this thread waited for it: start over.
StartOver(t) ==
    /\ pc[t] = "check"
    /\ ~ cancelled[t]
    /\ ~ MayUse(t)
    /\ Release(t)
    /\ candidate' = [candidate EXCEPT ![t] = 0]
    /\ GoTo(t, "lookup")
    /\ UNCHANGED <<config, entries, sessions, key, control, launch, replaced,
                   operations>>
    /\ UNCHANGED controlVars

Proceed(t) ==
    /\ pc[t] = "check"
    /\ ~ cancelled[t]
    /\ MayUse(t)
    /\ GoTo(t, IF entries[candidate[t]].proc = NoProcess THEN "spawn" ELSE "running")
    /\ UNCHANGED <<config, key, control, launch, candidate, replaced, operations>>
    /\ UNCHANGED poolVars /\ UNCHANGED controlVars

SpawnWorker(t) ==
    /\ pc[t] = "spawn"
    /\ entries' = [entries EXCEPT ![candidate[t]].proc = launch[t]]
    /\ GoTo(t, "running")
    /\ UNCHANGED <<config, sessions, lock, key, control, launch, candidate,
                   replaced, operations>>
    /\ UNCHANGED controlVars

\* The spawn failed: the mutex is released first, and only then is the entry
\* retired (retire_entry).
SpawnFails(t) ==
    /\ pc[t] = "spawn"
    /\ Release(t)
    /\ GoTo(t, "retire")
    /\ UNCHANGED <<config, entries, sessions, key, control, launch, candidate,
                   replaced, operations>>
    /\ UNCHANGED controlVars

RetireEntry(t) ==
    /\ pc[t] = "retire"
    /\ entries' = [entries EXCEPT ![candidate[t]].retired = TRUE]
    /\ GoTo(t, "remove")
    /\ UNCHANGED <<config, sessions, lock, key, control, launch, candidate,
                   replaced, operations>>
    /\ UNCHANGED controlVars

\* The worker answered, or failed in a way that leaves its stream usable.
RequestEnds(t) ==
    /\ pc[t] = "running"
    /\ Release(t)
    /\ candidate' = [candidate EXCEPT ![t] = 0]
    /\ GoTo(t, "unregister")
    /\ UNCHANGED <<config, entries, sessions, key, control, launch, replaced,
                   operations>>
    /\ UNCHANGED controlVars

\* Timeout, cancellation, broken stream or exited process (should_retire_session).
RequestFails(t) ==
    /\ pc[t] = "running"
    /\ TakeAndRetire(t)

\* Mutant: a retired entry stays in the pool.
IsCurrentNever(t) == FALSE

IsCurrent(t) == sessions[key[t]] = candidate[t]

\* remove_entry_if_current: only if the pool still holds this very entry.
RemoveIfCurrent(t) ==
    /\ pc[t] = "remove"
    /\ sessions' = IF IsCurrent(t) THEN [sessions EXCEPT ![key[t]] = 0] ELSE sessions
    /\ candidate' = [candidate EXCEPT ![t] = 0]
    /\ GoTo(t, "unregister")
    /\ UNCHANGED <<config, entries, lock, key, control, launch, replaced, operations>>
    /\ UNCHANGED controlVars

\* Mutant: a finished request leaves its flag behind.
OwnsNoFlag(t) == FALSE

\* Mutant: the flag registered under the id is removed whoever owns it.
OwnsAnyFlag(t) == control[t] # NoControl

OwnsFlag(t) == control[t] # NoControl /\ inflight[control[t]] = t

\* The request is over: its flag is withdrawn unless another took the id.
Unregister(t) ==
    /\ pc[t] = "unregister"
    /\ inflight' = IF OwnsFlag(t) THEN [inflight EXCEPT ![control[t]] = NoThread]
                   ELSE inflight
    /\ cancelled' = [cancelled EXCEPT ![t] = FALSE]
    /\ control' = [control EXCEPT ![t] = NoControl]
    /\ GoTo(t, "idle")
    /\ UNCHANGED <<config, key, launch, candidate, replaced, latest, operations>>
    /\ UNCHANGED poolVars

\* cancel_request, from kernel_host_cancel: raise the flag registered under c.
CancelRequest(c) ==
    /\ inflight[c] # NoThread
    /\ cancelled' = [cancelled EXCEPT ![inflight[c]] = TRUE]
    /\ UNCHANGED <<config, inflight, latest, operations>>
    /\ UNCHANGED poolVars /\ UNCHANGED threadVars

\* plugin.settings.write and plugin.settings.reset: store the settings (which
\* may leave the launch configuration as it was), then shutdown_plugin.
WriteSettings(t, k, f) ==
    /\ pc[t] = "idle"
    /\ operations < MaxOperations
    /\ operations' = operations + 1
    /\ config' = [config EXCEPT ![k] = f]
    /\ key' = [key EXCEPT ![t] = k]
    /\ GoTo(t, "shutRemove")
    /\ UNCHANGED <<control, launch, candidate, replaced>>
    /\ UNCHANGED poolVars /\ UNCHANGED controlVars

\* shutdown_plugin takes the entry out of the pool, ...
ShutRemove(t) ==
    /\ pc[t] = "shutRemove"
    /\ replaced' = [replaced EXCEPT ![t] = sessions[key[t]]]
    /\ sessions' = [sessions EXCEPT ![key[t]] = 0]
    /\ GoTo(t, IF sessions[key[t]] = 0 THEN "idle" ELSE "shutRetire")
    /\ UNCHANGED <<config, entries, lock, key, control, launch, candidate, operations>>
    /\ UNCHANGED controlVars

\* Mutant: the entry shut down by shutdown_plugin is not marked.
ShutMarkForgotten(t) == entries

ShutMark(t) == [entries EXCEPT ![replaced[t]].retired = TRUE]

\* ... marks it retired, outside the registry mutex, ...
ShutRetire(t) ==
    /\ pc[t] = "shutRetire"
    /\ entries' = ShutMark(t)
    /\ GoTo(t, "shutWait")
    /\ UNCHANGED <<config, sessions, lock, key, control, launch, candidate,
                   replaced, operations>>
    /\ UNCHANGED controlVars

\* ... and stops the process once the entry's mutex is free.
ShutWait(t) ==
    /\ pc[t] = "shutWait"
    /\ ShutDown(t, replaced[t])
    /\ GoTo(t, "idle")
    /\ UNCHANGED <<config, sessions, lock, key, control, launch, candidate, operations>>
    /\ UNCHANGED controlVars

\* What a thread does once it has begun an operation.
Step(t) ==
    \/ RegisterControl(t) \/ Lookup(t) \/ RetireOld(t) \/ Acquire(t)
    \/ CancelledBeforeDispatch(t) \/ StartOver(t) \/ Proceed(t)
    \/ SpawnWorker(t) \/ SpawnFails(t) \/ RetireEntry(t)
    \/ RequestEnds(t) \/ RequestFails(t) \/ RemoveIfCurrent(t) \/ Unregister(t)
    \/ ShutRemove(t) \/ ShutRetire(t) \/ ShutWait(t)

SessionsNext ==
    \/ \E t \in Threads : Step(t)
    \/ \E t \in Threads, k \in Keys, c \in ControlIds \cup {NoControl} :
          StartRequest(t, k, c)
    \/ \E t \in Threads, k \in Keys, f \in Fingerprints : WriteSettings(t, k, f)
    \/ \E c \in ControlIds : CancelRequest(c)

SessionsSpec == SessionsInit /\ [][SessionsNext]_vars

\* The steps of an operation on plugin k that wait for a process: a spawn and its hello,
\* a request, and the last message to an entry that is shut down.  Each writes to the
\* process without a deadline, holding the entry's mutex; a process that does not read
\* may hold such a step up for ever.
TalksTo(t, k) ==
    /\ key[t] = k
    /\ \/ pc[t] \in {"spawn", "running"}
       \/ /\ pc[t] \in {"retireOld", "shutWait"}
          /\ lock[replaced[t]] = NoThread /\ entries[replaced[t]].proc # NoProcess

\* What a thread does by itself.
HostStep(t) == ~ TalksTo(t, key[t]) /\ Step(t)

\* Threads are scheduled; of the steps that wait for a process nothing is assumed.
FairSessionsSpec == SessionsSpec /\ \A t \in Threads : WF_vars(HostStep(t))
-----------------------------------------------------------------------------
Referenced(e) == \/ \E k \in Keys : sessions[k] = e
                 \/ \E t \in Threads : candidate[t] = e \/ replaced[t] = e

\* The worker processes of key k that exist at this moment.
Live(k) == {e \in Generations : /\ entries[e].key = k
                                /\ entries[e].proc # NoProcess
                                /\ Referenced(e)}

Quiet == \A t \in Threads : pc[t] = "idle"

\* A request runs only in a process launched with the configuration the request
\* was built from, under the mutex of an entry of its own plugin version.  The
\* entry is found under the registry mutex but used after it, when another
\* request, a failure or a settings write may have replaced it.
ServedByOwnConfiguration ==
    \A t \in Threads : pc[t] = "running" =>
       /\ lock[candidate[t]] = t
       /\ entries[candidate[t]].key = key[t]
       /\ entries[candidate[t]].proc = launch[t]

\* Once shutdown_plugin, or the request that replaced it, has stopped an entry,
\* no process ever runs in it again, although threads that found the entry
\* earlier still wait for its mutex and would spawn into an empty slot.
ShutEntriesStayEmpty ==
    \A e \in Generations : entries[e].shut => entries[e].proc = NoProcess

\* A retired entry is in the pool only while the thread that retired it is about
\* to take it out.  Otherwise every later request of that plugin would find it,
\* start over, and find it again.
RetiredEntriesLeave ==
    \A k \in Keys : sessions[k] # 0 /\ entries[sessions[k]].retired =>
       \E t \in Threads : pc[t] = "remove" /\ candidate[t] = sessions[k]

\* The entries of the pool, whoever holds them: well formed, empty once they are
\* shut, and out of the pool once they are retired.
EntriesSound == SessionsTypeOK /\ ShutEntriesStayEmpty /\ RetiredEntriesLeave

\* When several requests use one control id, the last that registered is the one
\* kernel_host_cancel reaches until it is over: an earlier one that ends does
\* not withdraw its flag.
LatestIsCancellable ==
    \A c \in ControlIds : latest[c] # NoThread =>
       (control[latest[c]] = c /\ pc[latest[c]] # "register" => inflight[c] = latest[c])

\* When no operation is under way the pool is at rest: no entry is locked or
\* retired, no flag is registered, and every process that still exists is in
\* the pool, where the next request or a shutdown finds it.
PoolAtRest ==
    Quiet => /\ \A e \in Generations : lock[e] = NoThread
             /\ \A c \in ControlIds : inflight[c] = NoThread
             /\ \A k \in Keys : /\ sessions[k] # 0 => ~ entries[sessions[k]].retired
                                 /\ Live(k) \subseteq {sessions[k]}

\* Only its own workers hold a plugin up: as long as none of the conversations with the
\* workers of a plugin lasts for ever, every request to it and every write of its settings
\* returns, whatever fails, is cancelled or replaced meanwhile and however long the workers
\* of other plugins keep their threads.  No thread waits for ever for the mutex of an
\* entry, its own or the one it replaced, or keeps finding a retired one.
\*
\* Two requests of different configurations may replace each other's entry again and again
\* before either has locked its own, and the code sets no end to that; the first premise
\* does, so what is said is that nothing but such a race for entries keeps them.
OperationsReturn ==
    [](Len(entries) < MaxGenerations) =>
       \A k \in Keys :
          (\A u \in Threads : []<> ~ TalksTo(u, k))
             => \A t \in Threads : pc[t] # "idle" /\ key[t] = k ~> pc[t] = "idle"
=============================================================================

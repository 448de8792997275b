------------------------ MODULE WorkerSessionsProofs ------------------------
(***************************************************************************)
(* Machine-checked facts about WorkerSessions, for any number of threads,  *)
(* plugins, control ids and launch configurations, and about               *)
(* InstalledPlugins, which the workers are launched from, for any packages.*)
(***************************************************************************)
EXTENDS WorkerSessions, InstalledPlugins,
        SequenceTheorems, FiniteSetTheorems, WellFoundedInduction, TLAPS

LEMMA ConstantsTyped ==
  /\ NoThread \notin Threads /\ NoControl \notin ControlIds /\ NoProcess \notin Fingerprints
  /\ MaxGenerations \in Nat /\ MaxOperations \in Nat
BY SessionsAssumption

-----------------------------------------------------------------------------
(* The inductive invariant.  None of the four properties is inductive: each depends on
   where a thread stands when it refers to an entry, which the parts below say. *)

Working   == {"retireOld", "acquire", "check", "spawn", "running", "retire", "remove"}
Holding   == {"check", "spawn", "running"}
Replacing == {"retireOld", "shutRetire", "shutWait"}
Settling  == {"idle", "shutRemove", "shutRetire", "shutWait"}

\* A thread refers to entries at these places only.
ReferencesPlaced ==
  \A t \in Threads : /\ candidate[t] # 0 <=> pc[t] \in Working
                     /\ replaced[t] # 0 <=> pc[t] \in Replacing

\* A mutex is held by the thread that works with the entry, and by it alone.
LocksHeld ==
  /\ \A t \in Threads : pc[t] \in Holding => lock[candidate[t]] = t
  /\ \A e \in Generations : lock[e] # NoThread =>
        pc[lock[e]] \in Holding /\ candidate[lock[e]] = e

\* Whoever finds an entry found it for its own plugin and configuration.
EntriesOwned ==
  /\ \A t \in Threads : candidate[t] # 0 =>
        /\ entries[candidate[t]].key = key[t]
        /\ entries[candidate[t]].fingerprint = launch[t]
  /\ \A k \in Keys : sessions[k] # 0 => entries[sessions[k]].key = k

\* An entry that was shut down is retired; a thread past the check of its entry
\* is past any shutdown of it.
ProcessesKept ==
  /\ \A e \in Generations :
        /\ entries[e].proc \in {NoProcess, entries[e].fingerprint}
        /\ entries[e].shut => entries[e].retired /\ entries[e].proc = NoProcess
  /\ \A t \in Threads : pc[t] \in {"spawn", "running"} => ~ entries[candidate[t]].shut
  /\ \A t \in Threads : pc[t] = "running" => entries[candidate[t]].proc # NoProcess

\* An entry about to be shut down has left the pool for good.
ReplacedLeft ==
  \A t \in Threads : replaced[t] # 0 =>
     /\ \A k \in Keys : sessions[k] # replaced[t]
     /\ pc[t] # "shutRetire" => entries[replaced[t]].retired

\* A flag belongs to the request that registered it.
FlagsOwned ==
  /\ \A c \in ControlIds : inflight[c] # NoThread => control[inflight[c]] = c
  /\ \A t \in Threads : pc[t] \in Settling => control[t] = NoControl
  /\ \A t \in Threads : pc[t] = "register" => control[t] # NoControl

SessionsInv ==
  /\ SessionsTypeOK /\ ReferencesPlaced /\ LocksHeld /\ EntriesOwned /\ ProcessesKept
  /\ ReplacedLeft /\ RetiredEntriesLeave /\ FlagsOwned /\ LatestIsCancellable

-----------------------------------------------------------------------------
(* Sequences of entries *)

\* What is left of the pool's entries and mutexes when one entry is written.
LEMMA EntryWritten ==
  ASSUME SessionsTypeOK, NEW e \in Generations, NEW r \in EntryRecords,
         entries' = [entries EXCEPT ![e] = r]
  PROVE  /\ entries' \in Seq(EntryRecords) /\ Generations' = Generations
         /\ \A g \in Generations : entries'[g] = IF g = e THEN r ELSE entries[g]
<1>1. entries \in Seq(EntryRecords) /\ e \in 1 .. Len(entries)
  BY DEF SessionsTypeOK, Generations
<1>2. /\ [entries EXCEPT ![e] = r] \in Seq(EntryRecords)
      /\ Len([entries EXCEPT ![e] = r]) = Len(entries)
      /\ \A g \in 1 .. Len(entries) : [entries EXCEPT ![e] = r][g] = IF g = e THEN r ELSE entries[g]
  BY <1>1, ExceptSeq
<1>. QED BY <1>2 DEF Generations

LEMMA GenerationsTyped ==
  ASSUME SessionsTypeOK
  PROVE  /\ Len(entries) \in Nat /\ 0 \notin Generations
         /\ Generations = 1 .. Len(entries)
         /\ \A e \in Generations : entries[e] \in EntryRecords
<1>1. entries \in Seq(EntryRecords)
  BY DEF SessionsTypeOK
<1>2. Len(entries) \in Nat
  BY <1>1, LenProperties
<1>3. \A e \in Generations : entries[e] \in EntryRecords
  BY <1>1, ElementOfSeq DEF Generations
<1>. QED BY <1>2, <1>3 DEF Generations

-----------------------------------------------------------------------------
(* The invariant holds at first and each action keeps it *)

LEMMA InvInit == SessionsInit => SessionsInv
<1>. SUFFICES ASSUME SessionsInit PROVE SessionsInv
  OBVIOUS
<1>1. Len(<< >>) = 0 /\ << >> \in Seq(EntryRecords) /\ << >> \in Seq(Threads \cup {NoThread})
  BY EmptySeq
<1>2. Generations = {}
  BY <1>1 DEF SessionsInit, Generations
<1>3. SessionsTypeOK
  <2>1. lock \in [Generations -> Threads \cup {NoThread}]
    BY <1>1, <1>2, LenProperties DEF SessionsInit, Generations
  <2>. QED BY <1>1, <2>1, ConstantsTyped DEF SessionsInit, SessionsTypeOK, Locations
<1>. QED
  BY <1>2, <1>3, ConstantsTyped
     DEF SessionsInit, SessionsInv, ReferencesPlaced, LocksHeld, EntriesOwned, ProcessesKept,
         ReplacedLeft, RetiredEntriesLeave, FlagsOwned, LatestIsCancellable,
         Working, Replacing, Holding, Settling

LEMMA ReferencesTyped ==
  ASSUME SessionsInv, NEW t \in Threads
  PROVE  /\ pc[t] \in Working => candidate[t] \in Generations
         /\ pc[t] \in Replacing => replaced[t] \in Generations
         /\ launch[t] \in Fingerprints
         /\ \A g \in Generations : entries[g] \in EntryRecords
<1>1. \A g \in Generations : entries[g] \in EntryRecords
  BY GenerationsTyped DEF SessionsInv
<1>. QED BY <1>1 DEF SessionsInv, SessionsTypeOK, ReferencesPlaced

LEMMA StartRequestKeeps ==
  ASSUME SessionsInv, NEW t \in Threads, NEW k \in Keys,
         NEW c \in ControlIds \cup {NoControl}, StartRequest(t, k, c)
  PROVE  SessionsInv'
<1>. USE ConstantsTyped
     DEF StartRequest, GoTo, SessionsInv, SessionsTypeOK, Generations, poolVars, controlVars
<1>1. SessionsTypeOK'
  BY DEF Locations
<1>2. ReferencesPlaced'
  BY DEF ReferencesPlaced, Working, Replacing
<1>3. LocksHeld'
  BY DEF LocksHeld, Holding
<1>4. EntriesOwned'
  BY DEF EntriesOwned, ReferencesPlaced, Working
<1>5. ProcessesKept'
  BY DEF ProcessesKept
<1>6. ReplacedLeft'
  BY DEF ReplacedLeft, ReferencesPlaced, Replacing
<1>7. RetiredEntriesLeave'
  BY DEF RetiredEntriesLeave
<1>8. FlagsOwned'
  BY DEF FlagsOwned, Settling
<1>9. LatestIsCancellable'
  BY DEF LatestIsCancellable
<1>. QED BY <1>1, <1>2, <1>3, <1>4, <1>5, <1>6, <1>7, <1>8, <1>9

LEMMA RegisterControlKeeps ==
  ASSUME SessionsInv, NEW t \in Threads, RegisterControl(t)
  PROVE  SessionsInv'
<1>. USE ConstantsTyped
     DEF RegisterControl, GoTo, SessionsInv, SessionsTypeOK, Generations, poolVars, controlVars
<1>1. SessionsTypeOK'
  BY DEF Locations
<1>2. ReferencesPlaced'
  BY DEF ReferencesPlaced, Working, Replacing
<1>3. LocksHeld'
  BY DEF LocksHeld, Holding, ReferencesPlaced, Working, Replacing
<1>4. EntriesOwned'
  BY DEF EntriesOwned, ReferencesPlaced, Working, Replacing, Holding
<1>5. ProcessesKept'
  BY DEF ProcessesKept, ReferencesPlaced, Working, Replacing, Holding, LocksHeld
<1>6. ReplacedLeft'
  BY DEF ReplacedLeft, ReferencesPlaced, Working, Replacing, Holding
<1>7. RetiredEntriesLeave'
  BY DEF RetiredEntriesLeave, ReferencesPlaced, Working, Replacing, Holding
<1>8. FlagsOwned'
  BY DEF FlagsOwned, Settling
<1>9. LatestIsCancellable'
  BY DEF LatestIsCancellable, FlagsOwned, Settling
<1>. QED BY <1>1, <1>2, <1>3, <1>4, <1>5, <1>6, <1>7, <1>8, <1>9

LEMMA AcquireKeeps ==
  ASSUME SessionsInv, NEW t \in Threads, Acquire(t)
  PROVE  SessionsInv'
<1>. USE ConstantsTyped
     DEF Acquire, GoTo, SessionsInv, SessionsTypeOK, Generations, poolVars, controlVars
<1>1. SessionsTypeOK'
  BY DEF Locations
<1>2. ReferencesPlaced'
  BY DEF ReferencesPlaced, Working, Replacing
<1>3. LocksHeld'
  BY DEF LocksHeld, Holding, ReferencesPlaced, Working, Replacing
<1>4. EntriesOwned'
  BY DEF EntriesOwned, ReferencesPlaced, Working, Replacing, Holding
<1>5. ProcessesKept'
  BY DEF ProcessesKept, ReferencesPlaced, Working, Replacing, Holding, LocksHeld
<1>6. ReplacedLeft'
  BY DEF ReplacedLeft, ReferencesPlaced, Working, Replacing, Holding
<1>7. RetiredEntriesLeave'
  BY DEF RetiredEntriesLeave, ReferencesPlaced, Working, Replacing, Holding
<1>8. FlagsOwned'
  BY DEF FlagsOwned, Settling
<1>9. LatestIsCancellable'
  BY DEF LatestIsCancellable, FlagsOwned, Settling
<1>. QED BY <1>1, <1>2, <1>3, <1>4, <1>5, <1>6, <1>7, <1>8, <1>9

LEMMA StartOverKeeps ==
  ASSUME SessionsInv, NEW t \in Threads, StartOver(t)
  PROVE  SessionsInv'
<1>. USE ConstantsTyped
     DEF StartOver, GoTo, SessionsInv, SessionsTypeOK, Generations, poolVars, controlVars, Release
<1>1. SessionsTypeOK'
  BY DEF Locations
<1>2. ReferencesPlaced'
  BY DEF ReferencesPlaced, Working, Replacing
<1>3. LocksHeld'
  BY DEF LocksHeld, Holding, ReferencesPlaced, Working, Replacing
<1>4. EntriesOwned'
  BY DEF EntriesOwned, ReferencesPlaced, Working, Replacing, Holding
<1>5. ProcessesKept'
  BY DEF ProcessesKept, ReferencesPlaced, Working, Replacing, Holding, LocksHeld
<1>6. ReplacedLeft'
  BY DEF ReplacedLeft, ReferencesPlaced, Working, Replacing, Holding
<1>7. RetiredEntriesLeave'
  BY DEF RetiredEntriesLeave, ReferencesPlaced, Working, Replacing, Holding
<1>8. FlagsOwned'
  BY DEF FlagsOwned, Settling
<1>9. LatestIsCancellable'
  BY DEF LatestIsCancellable, FlagsOwned, Settling
<1>. QED BY <1>1, <1>2, <1>3, <1>4, <1>5, <1>6, <1>7, <1>8, <1>9

LEMMA ProceedKeeps ==
  ASSUME SessionsInv, NEW t \in Threads, Proceed(t)
  PROVE  SessionsInv'
<1>. USE ConstantsTyped
     DEF Proceed, GoTo, SessionsInv, SessionsTypeOK, Generations, poolVars, controlVars, MayUse
<1>1. SessionsTypeOK'
  BY DEF Locations
<1>2. ReferencesPlaced'
  BY DEF ReferencesPlaced, Working, Replacing
<1>3. LocksHeld'
  BY DEF LocksHeld, Holding, ReferencesPlaced, Working, Replacing
<1>4. EntriesOwned'
  BY DEF EntriesOwned, ReferencesPlaced, Working, Replacing, Holding
<1>5. ProcessesKept'
  BY DEF ProcessesKept, ReferencesPlaced, Working, Replacing, Holding, LocksHeld
<1>6. ReplacedLeft'
  BY DEF ReplacedLeft, ReferencesPlaced, Working, Replacing, Holding
<1>7. RetiredEntriesLeave'
  BY DEF RetiredEntriesLeave, ReferencesPlaced, Working, Replacing, Holding
<1>8. FlagsOwned'
  BY DEF FlagsOwned, Settling
<1>9. LatestIsCancellable'
  BY DEF LatestIsCancellable, FlagsOwned, Settling
<1>. QED BY <1>1, <1>2, <1>3, <1>4, <1>5, <1>6, <1>7, <1>8, <1>9

LEMMA SpawnFailsKeeps ==
  ASSUME SessionsInv, NEW t \in Threads, SpawnFails(t)
  PROVE  SessionsInv'
<1>. USE ConstantsTyped
     DEF SpawnFails, GoTo, SessionsInv, SessionsTypeOK, Generations, poolVars, controlVars, Release
<1>1. SessionsTypeOK'
  BY DEF Locations
<1>2. ReferencesPlaced'
  BY DEF ReferencesPlaced, Working, Replacing
<1>3. LocksHeld'
  BY DEF LocksHeld, Holding, ReferencesPlaced, Working, Replacing
<1>4. EntriesOwned'
  BY DEF EntriesOwned, ReferencesPlaced, Working, Replacing, Holding
<1>5. ProcessesKept'
  BY DEF ProcessesKept, ReferencesPlaced, Working, Replacing, Holding, LocksHeld
<1>6. ReplacedLeft'
  BY DEF ReplacedLeft, ReferencesPlaced, Working, Replacing, Holding
<1>7. RetiredEntriesLeave'
  BY DEF RetiredEntriesLeave, ReferencesPlaced, Working, Replacing, Holding
<1>8. FlagsOwned'
  BY DEF FlagsOwned, Settling
<1>9. LatestIsCancellable'
  BY DEF LatestIsCancellable, FlagsOwned, Settling
<1>. QED BY <1>1, <1>2, <1>3, <1>4, <1>5, <1>6, <1>7, <1>8, <1>9

LEMMA RequestEndsKeeps ==
  ASSUME SessionsInv, NEW t \in Threads, RequestEnds(t)
  PROVE  SessionsInv'
<1>. USE ConstantsTyped
     DEF RequestEnds, GoTo, SessionsInv, SessionsTypeOK, Generations, poolVars, controlVars, Release
<1>1. SessionsTypeOK'
  BY DEF Locations
<1>2. ReferencesPlaced'
  BY DEF ReferencesPlaced, Working, Replacing
<1>3. LocksHeld'
  BY DEF LocksHeld, Holding, ReferencesPlaced, Working, Replacing
<1>4. EntriesOwned'
  BY DEF EntriesOwned, ReferencesPlaced, Working, Replacing, Holding
<1>5. ProcessesKept'
  BY DEF ProcessesKept, ReferencesPlaced, Working, Replacing, Holding, LocksHeld
<1>6. ReplacedLeft'
  BY DEF ReplacedLeft, ReferencesPlaced, Working, Replacing, Holding
<1>7. RetiredEntriesLeave'
  BY DEF RetiredEntriesLeave, ReferencesPlaced, Working, Replacing, Holding
<1>8. FlagsOwned'
  BY DEF FlagsOwned, Settling
<1>9. LatestIsCancellable'
  BY DEF LatestIsCancellable, FlagsOwned, Settling
<1>. QED BY <1>1, <1>2, <1>3, <1>4, <1>5, <1>6, <1>7, <1>8, <1>9

LEMMA RemoveIfCurrentKeeps ==
  ASSUME SessionsInv, NEW t \in Threads, RemoveIfCurrent(t)
  PROVE  SessionsInv'
<1>. USE ConstantsTyped
     DEF RemoveIfCurrent, GoTo, SessionsInv, SessionsTypeOK, Generations, poolVars, controlVars, IsCurrent
<1>1. SessionsTypeOK'
  BY DEF Locations
<1>2. ReferencesPlaced'
  BY DEF ReferencesPlaced, Working, Replacing
<1>3. LocksHeld'
  BY DEF LocksHeld, Holding, ReferencesPlaced, Working, Replacing
<1>4. EntriesOwned'
  BY DEF EntriesOwned, ReferencesPlaced, Working, Replacing, Holding
<1>5. ProcessesKept'
  BY DEF ProcessesKept, ReferencesPlaced, Working, Replacing, Holding, LocksHeld
<1>6. ReplacedLeft'
  BY DEF ReplacedLeft, ReferencesPlaced, Working, Replacing, Holding
<1>7. RetiredEntriesLeave'
  BY DEF RetiredEntriesLeave, ReferencesPlaced, Working, Replacing, Holding, EntriesOwned
<1>8. FlagsOwned'
  BY DEF FlagsOwned, Settling
<1>9. LatestIsCancellable'
  BY DEF LatestIsCancellable, FlagsOwned, Settling
<1>. QED BY <1>1, <1>2, <1>3, <1>4, <1>5, <1>6, <1>7, <1>8, <1>9

LEMMA UnregisterKeeps ==
  ASSUME SessionsInv, NEW t \in Threads, Unregister(t)
  PROVE  SessionsInv'
<1>. USE ConstantsTyped
     DEF Unregister, GoTo, SessionsInv, SessionsTypeOK, Generations, poolVars, controlVars, OwnsFlag
<1>1. SessionsTypeOK'
  BY DEF Locations
<1>2. ReferencesPlaced'
  BY DEF ReferencesPlaced, Working, Replacing
<1>3. LocksHeld'
  BY DEF LocksHeld, Holding, ReferencesPlaced, Working, Replacing
<1>4. EntriesOwned'
  BY DEF EntriesOwned, ReferencesPlaced, Working, Replacing, Holding
<1>5. ProcessesKept'
  BY DEF ProcessesKept, ReferencesPlaced, Working, Replacing, Holding, LocksHeld
<1>6. ReplacedLeft'
  BY DEF ReplacedLeft, ReferencesPlaced, Working, Replacing, Holding
<1>7. RetiredEntriesLeave'
  BY DEF RetiredEntriesLeave, ReferencesPlaced, Working, Replacing, Holding
<1>8. FlagsOwned'
  BY DEF FlagsOwned, Settling
<1>9. LatestIsCancellable'
  BY DEF LatestIsCancellable, FlagsOwned, Settling
<1>. QED BY <1>1, <1>2, <1>3, <1>4, <1>5, <1>6, <1>7, <1>8, <1>9

LEMMA ShutRemoveKeeps ==
  ASSUME SessionsInv, NEW t \in Threads, ShutRemove(t)
  PROVE  SessionsInv'
<1>. USE ConstantsTyped
     DEF ShutRemove, GoTo, SessionsInv, SessionsTypeOK, Generations, poolVars, controlVars
<1>1. SessionsTypeOK'
  BY DEF Locations
<1>2. ReferencesPlaced'
  BY DEF ReferencesPlaced, Working, Replacing
<1>3. LocksHeld'
  BY DEF LocksHeld, Holding, ReferencesPlaced, Working, Replacing
<1>4. EntriesOwned'
  BY DEF EntriesOwned, ReferencesPlaced, Working, Replacing, Holding
<1>5. ProcessesKept'
  BY DEF ProcessesKept, ReferencesPlaced, Working, Replacing, Holding, LocksHeld
<1>6. ReplacedLeft'
  BY DEF ReplacedLeft, ReferencesPlaced, Working, Replacing, Holding, EntriesOwned
<1>7. RetiredEntriesLeave'
  BY DEF RetiredEntriesLeave, ReferencesPlaced, Working, Replacing, Holding
<1>8. FlagsOwned'
  BY DEF FlagsOwned, Settling
<1>9. LatestIsCancellable'
  BY DEF LatestIsCancellable, FlagsOwned, Settling
<1>. QED BY <1>1, <1>2, <1>3, <1>4, <1>5, <1>6, <1>7, <1>8, <1>9

LEMMA WriteSettingsKeeps ==
  ASSUME SessionsInv, NEW t \in Threads, NEW k \in Keys, NEW f \in Fingerprints,
         WriteSettings(t, k, f)
  PROVE  SessionsInv'
<1>. USE ConstantsTyped
     DEF WriteSettings, GoTo, SessionsInv, SessionsTypeOK, Generations, poolVars, controlVars
<1>1. SessionsTypeOK'
  BY DEF Locations
<1>2. ReferencesPlaced'
  BY DEF ReferencesPlaced, Working, Replacing
<1>3. LocksHeld'
  BY DEF LocksHeld, Holding, ReferencesPlaced, Working, Replacing
<1>4. EntriesOwned'
  BY DEF EntriesOwned, ReferencesPlaced, Working, Replacing, Holding
<1>5. ProcessesKept'
  BY DEF ProcessesKept, ReferencesPlaced, Working, Replacing, Holding, LocksHeld
<1>6. ReplacedLeft'
  BY DEF ReplacedLeft, ReferencesPlaced, Working, Replacing, Holding
<1>7. RetiredEntriesLeave'
  BY DEF RetiredEntriesLeave, ReferencesPlaced, Working, Replacing, Holding
<1>8. FlagsOwned'
  BY DEF FlagsOwned, Settling
<1>9. LatestIsCancellable'
  BY DEF LatestIsCancellable, FlagsOwned, Settling
<1>. QED BY <1>1, <1>2, <1>3, <1>4, <1>5, <1>6, <1>7, <1>8, <1>9

LEMMA CancelRequestKeeps ==
  ASSUME SessionsInv, NEW c \in ControlIds, CancelRequest(c)
  PROVE  SessionsInv'
<1>. USE ConstantsTyped
     DEF CancelRequest, GoTo, SessionsInv, SessionsTypeOK, Generations, poolVars, controlVars, threadVars
<1>1. SessionsTypeOK'
  BY DEF Locations
<1>2. ReferencesPlaced'
  BY DEF ReferencesPlaced, Working, Replacing
<1>3. LocksHeld'
  BY DEF LocksHeld, Holding, ReferencesPlaced, Working, Replacing
<1>4. EntriesOwned'
  BY DEF EntriesOwned, ReferencesPlaced, Working, Replacing, Holding
<1>5. ProcessesKept'
  BY DEF ProcessesKept, ReferencesPlaced, Working, Replacing, Holding, LocksHeld
<1>6. ReplacedLeft'
  BY DEF ReplacedLeft, ReferencesPlaced, Working, Replacing, Holding
<1>7. RetiredEntriesLeave'
  BY DEF RetiredEntriesLeave, ReferencesPlaced, Working, Replacing, Holding
<1>8. FlagsOwned'
  BY DEF FlagsOwned, Settling
<1>9. LatestIsCancellable'
  BY DEF LatestIsCancellable, FlagsOwned, Settling
<1>. QED BY <1>1, <1>2, <1>3, <1>4, <1>5, <1>6, <1>7, <1>8, <1>9

LEMMA RetireOldKeeps ==
  ASSUME SessionsInv, NEW t \in Threads, RetireOld(t)
  PROVE  SessionsInv'
<1>. DEFINE e == replaced[t]
            r == [entries[e] EXCEPT !.proc = NoProcess, !.shut = TRUE]
<1>1. e \in Generations /\ r \in EntryRecords
  <2>1. e \in Generations
    BY ReferencesTyped DEF RetireOld, Working, Replacing, ShutDown, Emptied
  <2>2. entries[e] \in EntryRecords /\ launch[t] \in Fingerprints
    BY <2>1, ReferencesTyped
  <2>. QED BY <2>1, <2>2 DEF EntryRecords
<1>2. entries' = [entries EXCEPT ![e] = r]
  BY DEF RetireOld, Emptied, ShutDown, ShutDown, Emptied
<1>3. /\ entries' \in Seq(EntryRecords) /\ Generations' = Generations
      /\ \A g \in Generations : entries'[g] = IF g = e THEN r ELSE entries[g]
  BY <1>1, <1>2, EntryWritten DEF SessionsInv
<1>4. \A g \in Generations : entries[g] \in EntryRecords
  BY GenerationsTyped DEF SessionsInv
<1>. USE ConstantsTyped, <1>1, <1>3, <1>4
     DEF RetireOld, GoTo, SessionsInv, SessionsTypeOK, EntryRecords, poolVars, controlVars, ShutDown, Emptied
<1>5. SessionsTypeOK'
  BY DEF Locations, ReferencesPlaced, Working, Replacing, Holding
<1>6. ReferencesPlaced'
  BY DEF ReferencesPlaced, Working, Replacing
<1>7. LocksHeld'
  BY DEF LocksHeld, Holding, ReferencesPlaced, Working, Replacing
<1>8. EntriesOwned'
  BY DEF EntriesOwned, ReferencesPlaced, Working, Replacing, Holding
<1>9. ProcessesKept'
  BY DEF ProcessesKept, ReferencesPlaced, Working, Replacing, Holding, LocksHeld, ReplacedLeft
<1>10. ReplacedLeft'
  BY DEF ReplacedLeft, ReferencesPlaced, Working, Replacing, Holding
<1>11. RetiredEntriesLeave'
  BY DEF RetiredEntriesLeave, ReferencesPlaced, Working, Replacing, Holding
<1>12. FlagsOwned'
  BY DEF FlagsOwned, Settling
<1>13. LatestIsCancellable'
  BY DEF LatestIsCancellable, FlagsOwned, Settling
<1>. QED BY <1>5, <1>6, <1>7, <1>8, <1>9, <1>10, <1>11, <1>12, <1>13

LEMMA ShutWaitKeeps ==
  ASSUME SessionsInv, NEW t \in Threads, ShutWait(t)
  PROVE  SessionsInv'
<1>. DEFINE e == replaced[t]
            r == [entries[e] EXCEPT !.proc = NoProcess, !.shut = TRUE]
<1>1. e \in Generations /\ r \in EntryRecords
  <2>1. e \in Generations
    BY ReferencesTyped DEF ShutWait, Working, Replacing, ShutDown, Emptied
  <2>2. entries[e] \in EntryRecords /\ launch[t] \in Fingerprints
    BY <2>1, ReferencesTyped
  <2>. QED BY <2>1, <2>2 DEF EntryRecords
<1>2. entries' = [entries EXCEPT ![e] = r]
  BY DEF ShutWait, Emptied, ShutDown, ShutDown, Emptied
<1>3. /\ entries' \in Seq(EntryRecords) /\ Generations' = Generations
      /\ \A g \in Generations : entries'[g] = IF g = e THEN r ELSE entries[g]
  BY <1>1, <1>2, EntryWritten DEF SessionsInv
<1>4. \A g \in Generations : entries[g] \in EntryRecords
  BY GenerationsTyped DEF SessionsInv
<1>. USE ConstantsTyped, <1>1, <1>3, <1>4
     DEF ShutWait, GoTo, SessionsInv, SessionsTypeOK, EntryRecords, poolVars, controlVars, ShutDown, Emptied
<1>5. SessionsTypeOK'
  BY DEF Locations, ReferencesPlaced, Working, Replacing, Holding
<1>6. ReferencesPlaced'
  BY DEF ReferencesPlaced, Working, Replacing
<1>7. LocksHeld'
  BY DEF LocksHeld, Holding, ReferencesPlaced, Working, Replacing
<1>8. EntriesOwned'
  BY DEF EntriesOwned, ReferencesPlaced, Working, Replacing, Holding
<1>9. ProcessesKept'
  BY DEF ProcessesKept, ReferencesPlaced, Working, Replacing, Holding, LocksHeld, ReplacedLeft
<1>10. ReplacedLeft'
  BY DEF ReplacedLeft, ReferencesPlaced, Working, Replacing, Holding
<1>11. RetiredEntriesLeave'
  BY DEF RetiredEntriesLeave, ReferencesPlaced, Working, Replacing, Holding
<1>12. FlagsOwned'
  BY DEF FlagsOwned, Settling
<1>13. LatestIsCancellable'
  BY DEF LatestIsCancellable, FlagsOwned, Settling
<1>. QED BY <1>5, <1>6, <1>7, <1>8, <1>9, <1>10, <1>11, <1>12, <1>13

LEMMA TakeAndRetireKeeps ==
  ASSUME SessionsInv, NEW t \in Threads, pc[t] \in {"check", "running"}, TakeAndRetire(t)
  PROVE  SessionsInv'
<1>. DEFINE e == candidate[t]
            r == [entries[e] EXCEPT !.proc = NoProcess, !.retired = TRUE]
<1>1. e \in Generations /\ r \in EntryRecords
  <2>1. e \in Generations
    BY ReferencesTyped DEF TakeAndRetire, Working, Replacing, Emptied, Release
  <2>2. entries[e] \in EntryRecords /\ launch[t] \in Fingerprints
    BY <2>1, ReferencesTyped
  <2>. QED BY <2>1, <2>2 DEF EntryRecords
<1>2. entries' = [entries EXCEPT ![e] = r]
  BY DEF TakeAndRetire, Emptied, ShutDown, Emptied, Release
<1>3. /\ entries' \in Seq(EntryRecords) /\ Generations' = Generations
      /\ \A g \in Generations : entries'[g] = IF g = e THEN r ELSE entries[g]
  BY <1>1, <1>2, EntryWritten DEF SessionsInv
<1>4. \A g \in Generations : entries[g] \in EntryRecords
  BY GenerationsTyped DEF SessionsInv
<1>. USE ConstantsTyped, <1>1, <1>3, <1>4
     DEF TakeAndRetire, GoTo, SessionsInv, SessionsTypeOK, EntryRecords, poolVars, controlVars, Emptied, Release
<1>5. SessionsTypeOK'
  BY DEF Locations, ReferencesPlaced, Working, Replacing, Holding
<1>6. ReferencesPlaced'
  BY DEF ReferencesPlaced, Working, Replacing
<1>7. LocksHeld'
  BY DEF LocksHeld, Holding, ReferencesPlaced, Working, Replacing
<1>8. EntriesOwned'
  BY DEF EntriesOwned, ReferencesPlaced, Working, Replacing, Holding
<1>9. ProcessesKept'
  BY DEF ProcessesKept, ReferencesPlaced, Working, Replacing, Holding, LocksHeld
<1>10. ReplacedLeft'
  BY DEF ReplacedLeft, ReferencesPlaced, Working, Replacing, Holding
<1>11. RetiredEntriesLeave'
  BY DEF RetiredEntriesLeave, ReferencesPlaced, Working, Replacing, Holding
<1>12. FlagsOwned'
  BY DEF FlagsOwned, Settling
<1>13. LatestIsCancellable'
  BY DEF LatestIsCancellable, FlagsOwned, Settling
<1>. QED BY <1>5, <1>6, <1>7, <1>8, <1>9, <1>10, <1>11, <1>12, <1>13

LEMMA SpawnWorkerKeeps ==
  ASSUME SessionsInv, NEW t \in Threads, SpawnWorker(t)
  PROVE  SessionsInv'
<1>. DEFINE e == candidate[t]
            r == [entries[e] EXCEPT !.proc = launch[t]]
<1>1. e \in Generations /\ r \in EntryRecords
  <2>1. e \in Generations
    BY ReferencesTyped DEF SpawnWorker, Working, Replacing
  <2>2. entries[e] \in EntryRecords /\ launch[t] \in Fingerprints
    BY <2>1, ReferencesTyped
  <2>. QED BY <2>1, <2>2 DEF EntryRecords
<1>2. entries' = [entries EXCEPT ![e] = r]
  BY DEF SpawnWorker, Emptied, ShutDown
<1>3. /\ entries' \in Seq(EntryRecords) /\ Generations' = Generations
      /\ \A g \in Generations : entries'[g] = IF g = e THEN r ELSE entries[g]
  BY <1>1, <1>2, EntryWritten DEF SessionsInv
<1>4. \A g \in Generations : entries[g] \in EntryRecords
  BY GenerationsTyped DEF SessionsInv
<1>. USE ConstantsTyped, <1>1, <1>3, <1>4
     DEF SpawnWorker, GoTo, SessionsInv, SessionsTypeOK, EntryRecords, poolVars, controlVars
<1>5. SessionsTypeOK'
  BY DEF Locations, ReferencesPlaced, Working, Replacing, Holding
<1>6. ReferencesPlaced'
  BY DEF ReferencesPlaced, Working, Replacing
<1>7. LocksHeld'
  BY DEF LocksHeld, Holding, ReferencesPlaced, Working, Replacing
<1>8. EntriesOwned'
  BY DEF EntriesOwned, ReferencesPlaced, Working, Replacing, Holding
<1>9. ProcessesKept'
  BY DEF ProcessesKept, ReferencesPlaced, Working, Replacing, Holding, LocksHeld, EntriesOwned
<1>10. ReplacedLeft'
  BY DEF ReplacedLeft, ReferencesPlaced, Working, Replacing, Holding
<1>11. RetiredEntriesLeave'
  BY DEF RetiredEntriesLeave, ReferencesPlaced, Working, Replacing, Holding
<1>12. FlagsOwned'
  BY DEF FlagsOwned, Settling
<1>13. LatestIsCancellable'
  BY DEF LatestIsCancellable, FlagsOwned, Settling
<1>. QED BY <1>5, <1>6, <1>7, <1>8, <1>9, <1>10, <1>11, <1>12, <1>13

LEMMA RetireEntryKeeps ==
  ASSUME SessionsInv, NEW t \in Threads, RetireEntry(t)
  PROVE  SessionsInv'
<1>. DEFINE e == candidate[t]
            r == [entries[e] EXCEPT !.retired = TRUE]
<1>1. e \in Generations /\ r \in EntryRecords
  <2>1. e \in Generations
    BY ReferencesTyped DEF RetireEntry, Working, Replacing
  <2>2. entries[e] \in EntryRecords /\ launch[t] \in Fingerprints
    BY <2>1, ReferencesTyped
  <2>. QED BY <2>1, <2>2 DEF EntryRecords
<1>2. entries' = [entries EXCEPT ![e] = r]
  BY DEF RetireEntry, Emptied, ShutDown
<1>3. /\ entries' \in Seq(EntryRecords) /\ Generations' = Generations
      /\ \A g \in Generations : entries'[g] = IF g = e THEN r ELSE entries[g]
  BY <1>1, <1>2, EntryWritten DEF SessionsInv
<1>4. \A g \in Generations : entries[g] \in EntryRecords
  BY GenerationsTyped DEF SessionsInv
<1>. USE ConstantsTyped, <1>1, <1>3, <1>4
     DEF RetireEntry, GoTo, SessionsInv, SessionsTypeOK, EntryRecords, poolVars, controlVars
<1>5. SessionsTypeOK'
  BY DEF Locations, ReferencesPlaced, Working, Replacing, Holding
<1>6. ReferencesPlaced'
  BY DEF ReferencesPlaced, Working, Replacing
<1>7. LocksHeld'
  BY DEF LocksHeld, Holding, ReferencesPlaced, Working, Replacing
<1>8. EntriesOwned'
  BY DEF EntriesOwned, ReferencesPlaced, Working, Replacing, Holding
<1>9. ProcessesKept'
  BY DEF ProcessesKept, ReferencesPlaced, Working, Replacing, Holding, LocksHeld
<1>10. ReplacedLeft'
  BY DEF ReplacedLeft, ReferencesPlaced, Working, Replacing, Holding
<1>11. RetiredEntriesLeave'
  BY DEF RetiredEntriesLeave, ReferencesPlaced, Working, Replacing, Holding
<1>12. FlagsOwned'
  BY DEF FlagsOwned, Settling
<1>13. LatestIsCancellable'
  BY DEF LatestIsCancellable, FlagsOwned, Settling
<1>. QED BY <1>5, <1>6, <1>7, <1>8, <1>9, <1>10, <1>11, <1>12, <1>13

LEMMA ShutRetireKeeps ==
  ASSUME SessionsInv, NEW t \in Threads, ShutRetire(t)
  PROVE  SessionsInv'
<1>. DEFINE e == replaced[t]
            r == [entries[e] EXCEPT !.retired = TRUE]
<1>1. e \in Generations /\ r \in EntryRecords
  <2>1. e \in Generations
    BY ReferencesTyped DEF ShutRetire, Working, Replacing, ShutMark
  <2>2. entries[e] \in EntryRecords /\ launch[t] \in Fingerprints
    BY <2>1, ReferencesTyped
  <2>. QED BY <2>1, <2>2 DEF EntryRecords
<1>2. entries' = [entries EXCEPT ![e] = r]
  BY DEF ShutRetire, Emptied, ShutDown, ShutMark
<1>3. /\ entries' \in Seq(EntryRecords) /\ Generations' = Generations
      /\ \A g \in Generations : entries'[g] = IF g = e THEN r ELSE entries[g]
  BY <1>1, <1>2, EntryWritten DEF SessionsInv
<1>4. \A g \in Generations : entries[g] \in EntryRecords
  BY GenerationsTyped DEF SessionsInv
<1>. USE ConstantsTyped, <1>1, <1>3, <1>4
     DEF ShutRetire, GoTo, SessionsInv, SessionsTypeOK, EntryRecords, poolVars, controlVars, ShutMark
<1>5. SessionsTypeOK'
  BY DEF Locations, ReferencesPlaced, Working, Replacing, Holding
<1>6. ReferencesPlaced'
  BY DEF ReferencesPlaced, Working, Replacing
<1>7. LocksHeld'
  BY DEF LocksHeld, Holding, ReferencesPlaced, Working, Replacing
<1>8. EntriesOwned'
  BY DEF EntriesOwned, ReferencesPlaced, Working, Replacing, Holding
<1>9. ProcessesKept'
  BY DEF ProcessesKept, ReferencesPlaced, Working, Replacing, Holding, LocksHeld
<1>10. ReplacedLeft'
  BY DEF ReplacedLeft, ReferencesPlaced, Working, Replacing, Holding
<1>11. RetiredEntriesLeave'
  BY DEF RetiredEntriesLeave, ReferencesPlaced, Working, Replacing, Holding, ReplacedLeft
<1>12. FlagsOwned'
  BY DEF FlagsOwned, Settling
<1>13. LatestIsCancellable'
  BY DEF LatestIsCancellable, FlagsOwned, Settling
<1>. QED BY <1>5, <1>6, <1>7, <1>8, <1>9, <1>10, <1>11, <1>12, <1>13

\* What Lookup does to the pool: it marks the entry it replaces, if any, and adds one,
\* if it does not use the one that is there.
LEMMA PoolAfterLookup ==
  ASSUME SessionsInv, NEW t \in Threads, Lookup(t),
         NEW e, e = sessions[key[t]], e = 0 \/ Stale(e, t)
  PROVE  /\ entries' \in Seq(EntryRecords) /\ Len(entries') = Len(entries) + 1
         /\ \A g \in Generations :
               entries'[g] = IF g = e THEN [entries[g] EXCEPT !.retired = TRUE] ELSE entries[g]
         /\ entries'[Len(entries) + 1] = NewEntry(t)
         /\ lock' \in [1 .. Len(entries) + 1 -> Threads \cup {NoThread}]
         /\ \A g \in Generations : lock'[g] = lock[g]
         /\ lock'[Len(entries) + 1] = NoThread
<1>. DEFINE marked == IF e # 0 THEN [entries EXCEPT ![e].retired = TRUE] ELSE entries
<1>1. /\ entries \in Seq(EntryRecords) /\ Len(entries) \in Nat /\ Generations = 1 .. Len(entries)
      /\ \A g \in Generations : entries[g] \in EntryRecords
      /\ lock \in [1 .. Len(entries) -> Threads \cup {NoThread}]
      /\ e \in Generations \cup {0} /\ 0 \notin Generations
  BY GenerationsTyped DEF SessionsInv, SessionsTypeOK
<1>2. /\ marked \in Seq(EntryRecords) /\ Len(marked) = Len(entries)
      /\ \A g \in Generations :
            marked[g] = IF g = e THEN [entries[g] EXCEPT !.retired = TRUE] ELSE entries[g]
  <2>1. CASE e = 0
    BY <1>1, <2>1
  <2>2. CASE e # 0
    <3>. DEFINE r == [entries[e] EXCEPT !.retired = TRUE]
    <3>1. e \in 1 .. Len(entries) /\ r \in EntryRecords
      BY <1>1, <2>2 DEF EntryRecords
    <3>2. marked = [entries EXCEPT ![e] = r]
      BY <2>2
    <3>3. /\ marked \in Seq(EntryRecords) /\ Len(marked) = Len(entries)
          /\ \A g \in 1 .. Len(entries) : marked[g] = IF g = e THEN r ELSE entries[g]
      BY <1>1, <3>1, <3>2, ExceptSeq
    <3>. QED BY <1>1, <3>3
  <2>. QED BY <2>1, <2>2
<1>3. NewEntry(t) \in EntryRecords
  BY DEF NewEntry, EntryRecords, SessionsInv, SessionsTypeOK
<1>4. entries' = Append(marked, NewEntry(t)) /\ lock' = Append(lock, NoThread)
  BY DEF Lookup
<1>. HIDE DEF marked
<1>5. /\ entries' \in Seq(EntryRecords) /\ Len(entries') = Len(entries) + 1
      /\ \A g \in 1 .. Len(entries) : entries'[g] = marked[g]
      /\ entries'[Len(entries) + 1] = NewEntry(t)
  BY <1>2, <1>3, <1>4, AppendProperties
<1>6. lock \in Seq(Threads \cup {NoThread}) /\ Len(lock) = Len(entries)
  BY <1>1
<1>7. /\ lock' \in Seq(Threads \cup {NoThread}) /\ Len(lock') = Len(entries) + 1
      /\ \A g \in 1 .. Len(entries) : lock'[g] = lock[g]
      /\ lock'[Len(entries) + 1] = NoThread
  BY <1>4, <1>6, AppendProperties
<1>8. lock' \in [1 .. Len(entries) + 1 -> Threads \cup {NoThread}]
  BY <1>7, LenProperties
<1>. QED BY <1>1, <1>2, <1>5, <1>7, <1>8

\* What Lookup does to the thread and the pool, whichever way it goes.
LEMMA LookupSteps ==
  ASSUME SessionsInv, NEW t \in Threads, Lookup(t),
         NEW e, e = sessions[key[t]]
  PROVE  /\ pc[t] = "lookup" /\ e \in Generations \cup {0}
         /\ e = 0 \/ Stale(e, t) =>
               /\ candidate' = [candidate EXCEPT ![t] = Len(entries) + 1]
               /\ sessions' = [sessions EXCEPT ![key[t]] = Len(entries) + 1]
               /\ replaced' = [replaced EXCEPT ![t] = e]
               /\ pc' = [pc EXCEPT ![t] = IF e = 0 THEN "acquire" ELSE "retireOld"]
         /\ ~ (e = 0 \/ Stale(e, t)) =>
               /\ entries' = entries /\ lock' = lock /\ sessions' = sessions
               /\ candidate' = [candidate EXCEPT ![t] = e]
               /\ replaced' = [replaced EXCEPT ![t] = 0]
               /\ pc' = [pc EXCEPT ![t] = "acquire"]
         /\ UNCHANGED <<config, key, control, launch, operations, inflight, cancelled, latest>>
<1>1. /\ e \in Generations \cup {0} /\ key[t] \in Keys
      /\ sessions \in [Keys -> Generations \cup {0}]
      /\ candidate \in [Threads -> Generations \cup {0}]
  BY DEF SessionsInv, SessionsTypeOK
<1>2. pc[t] = "lookup" /\ UNCHANGED <<config, key, control, launch, operations, inflight, cancelled, latest>>
  BY DEF Lookup, controlVars
<1>3. CASE e = 0
  BY <1>1, <1>2, <1>3 DEF Lookup, NextGeneration, GoTo
<1>4. CASE e # 0 /\ Stale(e, t)
  BY <1>1, <1>2, <1>4 DEF Lookup, NextGeneration, GoTo
<1>5. CASE e # 0 /\ ~ Stale(e, t)
  BY <1>1, <1>2, <1>5 DEF Lookup, GoTo
<1>. QED BY <1>3, <1>4, <1>5

LEMMA LookupReusesKeeps ==
  ASSUME SessionsInv, NEW t \in Threads, Lookup(t),
         sessions[key[t]] # 0, ~ Stale(sessions[key[t]], t)
  PROVE  SessionsInv'
<1>. DEFINE e == sessions[key[t]]
<1>1. /\ pc[t] = "lookup" /\ e \in Generations /\ e # 0 /\ entries[e].fingerprint = launch[t]
      /\ entries' = entries /\ lock' = lock /\ sessions' = sessions
      /\ candidate' = [candidate EXCEPT ![t] = e]
      /\ replaced' = [replaced EXCEPT ![t] = 0]
      /\ pc' = [pc EXCEPT ![t] = "acquire"]
      /\ UNCHANGED <<config, key, control, launch, operations, inflight, cancelled, latest>>
  BY LookupSteps DEF Stale
<1>2. Generations' = Generations /\ key[t] \in Keys
  BY <1>1 DEF Generations, SessionsInv, SessionsTypeOK
<1>3. candidate[t] = 0 /\ replaced[t] = 0
  BY <1>1 DEF SessionsInv, ReferencesPlaced, Working, Replacing
<1>. USE ConstantsTyped, <1>1, <1>2, <1>3 DEF SessionsInv, SessionsTypeOK
<1>4. SessionsTypeOK'
  BY DEF Locations
<1>5. ReferencesPlaced'
  BY DEF ReferencesPlaced, Working, Replacing
<1>6. LocksHeld'
  BY DEF LocksHeld, Holding
<1>7. EntriesOwned'
  BY DEF EntriesOwned
<1>8. ProcessesKept'
  BY DEF ProcessesKept
<1>9. ReplacedLeft'
  BY DEF ReplacedLeft
<1>10. RetiredEntriesLeave'
  BY DEF RetiredEntriesLeave
<1>11. FlagsOwned'
  BY DEF FlagsOwned, Settling
<1>12. LatestIsCancellable'
  BY DEF LatestIsCancellable
<1>. QED BY <1>4, <1>5, <1>6, <1>7, <1>8, <1>9, <1>10, <1>11, <1>12

LEMMA LookupReplacesKeeps ==
  ASSUME SessionsInv, NEW t \in Threads, Lookup(t),
         sessions[key[t]] = 0 \/ Stale(sessions[key[t]], t)
  PROVE  SessionsInv'
<1>. DEFINE e == sessions[key[t]]
            n == Len(entries) + 1
<1>1. /\ entries' \in Seq(EntryRecords) /\ Len(entries') = n
      /\ \A g \in Generations :
            entries'[g] = IF g = e THEN [entries[g] EXCEPT !.retired = TRUE] ELSE entries[g]
      /\ entries'[n] = NewEntry(t)
      /\ lock' \in [1 .. n -> Threads \cup {NoThread}]
      /\ \A g \in Generations : lock'[g] = lock[g]
      /\ lock'[n] = NoThread
  BY PoolAfterLookup
<1>2. /\ pc[t] = "lookup" /\ e \in Generations \cup {0}
      /\ candidate' = [candidate EXCEPT ![t] = n]
      /\ sessions' = [sessions EXCEPT ![key[t]] = n]
      /\ replaced' = [replaced EXCEPT ![t] = e]
      /\ pc' = [pc EXCEPT ![t] = IF e = 0 THEN "acquire" ELSE "retireOld"]
      /\ UNCHANGED <<config, key, control, launch, operations, inflight, cancelled, latest>>
  BY LookupSteps
<1>3. /\ Generations' = 1 .. n /\ Generations' = Generations \cup {n}
      /\ n \notin Generations /\ n # 0 /\ n \in Nat
      /\ 0 \notin Generations
      /\ \A g \in Generations : entries[g] \in EntryRecords
  BY <1>1, GenerationsTyped DEF Generations, SessionsInv
<1>4. candidate[t] = 0 /\ replaced[t] = 0 /\ key[t] \in Keys /\ launch[t] \in Fingerprints
  BY <1>2 DEF SessionsInv, SessionsTypeOK, ReferencesPlaced, Working, Replacing
<1>5. /\ \A g \in Generations :
            /\ entries'[g].key = entries[g].key
            /\ entries'[g].fingerprint = entries[g].fingerprint
            /\ entries'[g].proc = entries[g].proc
            /\ entries'[g].shut = entries[g].shut
            /\ entries'[g].retired = (entries[g].retired \/ g = e)
      /\ entries'[n].key = key[t] /\ entries'[n].fingerprint = launch[t]
      /\ entries'[n].proc = NoProcess /\ entries'[n].retired = FALSE /\ entries'[n].shut = FALSE
  <2>1. \A g \in Generations :
            /\ entries'[g].key = entries[g].key
            /\ entries'[g].fingerprint = entries[g].fingerprint
            /\ entries'[g].proc = entries[g].proc
            /\ entries'[g].shut = entries[g].shut
            /\ entries'[g].retired = (entries[g].retired \/ g = e)
    BY <1>1, <1>3 DEF EntryRecords
  <2>. QED BY <1>1, <2>1 DEF NewEntry
<1>6. /\ \A u \in Threads : candidate[u] \in Generations \cup {0} /\ replaced[u] \in Generations \cup {0}
      /\ \A k \in Keys : sessions[k] \in Generations \cup {0}
  BY DEF SessionsInv, SessionsTypeOK
<1>7. /\ candidate'[t] = n /\ replaced'[t] = e /\ sessions'[key[t]] = n
      /\ pc'[t] = (IF e = 0 THEN "acquire" ELSE "retireOld")
      /\ \A u \in Threads \ {t} : candidate'[u] = candidate[u] /\ replaced'[u] = replaced[u] /\ pc'[u] = pc[u]
      /\ \A k \in Keys \ {key[t]} : sessions'[k] = sessions[k]
  BY <1>2, <1>4 DEF SessionsInv, SessionsTypeOK
<1>8. SessionsTypeOK'
  BY <1>1, <1>2, <1>3, <1>4, ConstantsTyped DEF SessionsInv, SessionsTypeOK, Locations
<1>. HIDE DEF e, n
<1>9. ReferencesPlaced'
  BY <1>2, <1>3, <1>6, <1>7 DEF SessionsInv, ReferencesPlaced, Working, Replacing
<1>10. LocksHeld'
  <2>1. \A u \in Threads : pc'[u] \in Holding => lock'[candidate'[u]] = u
    BY <1>1, <1>3, <1>6, <1>7 DEF SessionsInv, LocksHeld, Holding, ReferencesPlaced, Working
  <2>2. ASSUME NEW g \in Generations, lock[g] # NoThread
        PROVE  pc'[lock[g]] \in Holding /\ candidate'[lock[g]] = g
    <3>1. lock[g] \in Threads /\ pc[lock[g]] \in Holding /\ candidate[lock[g]] = g
      BY <2>2 DEF SessionsInv, LocksHeld, SessionsTypeOK
    <3>2. lock[g] # t
      BY <3>1, <1>2 DEF Holding
    <3>. QED BY <3>1, <3>2, <1>7
  <2>. QED BY <1>1, <1>3, <2>1, <2>2 DEF LocksHeld
<1>11. EntriesOwned'
  <2>1. \A u \in Threads : candidate'[u] # 0 =>
          /\ entries'[candidate'[u]].key = key[u]
          /\ entries'[candidate'[u]].fingerprint = launch[u]
    BY <1>3, <1>5, <1>6, <1>7 DEF SessionsInv, EntriesOwned
  <2>2. \A k \in Keys : sessions'[k] # 0 => entries'[sessions'[k]].key = k
    BY <1>3, <1>5, <1>6, <1>7 DEF SessionsInv, EntriesOwned
  <2>. QED BY <1>2, <2>1, <2>2 DEF EntriesOwned
<1>12. ProcessesKept'
  <2>1. \A g \in Generations' :
          /\ entries'[g].proc \in {NoProcess, entries'[g].fingerprint}
          /\ entries'[g].shut => entries'[g].retired /\ entries'[g].proc = NoProcess
    <3>1. ASSUME NEW g \in Generations
          PROVE  /\ entries'[g].proc \in {NoProcess, entries'[g].fingerprint}
                 /\ entries'[g].shut => entries'[g].retired /\ entries'[g].proc = NoProcess
      <4>1. /\ entries[g].proc \in {NoProcess, entries[g].fingerprint}
            /\ entries[g].shut => entries[g].retired /\ entries[g].proc = NoProcess
        BY DEF SessionsInv, ProcessesKept
      <4>2. /\ entries'[g].fingerprint = entries[g].fingerprint
            /\ entries'[g].proc = entries[g].proc /\ entries'[g].shut = entries[g].shut
            /\ entries'[g].retired = (entries[g].retired \/ g = e)
        BY <1>5
      <4>. QED BY <4>1, <4>2
    <3>. QED BY <3>1, <1>3, <1>5
  <2>2. \A u \in Threads : pc'[u] \in {"spawn", "running"} => 
           u # t /\ pc[u] = pc'[u] /\ candidate'[u] \in Generations /\ candidate'[u] = candidate[u]
    BY <1>6, <1>7 DEF SessionsInv, ReferencesPlaced, Working
  <2>. QED BY <1>5, <2>1, <2>2 DEF SessionsInv, ProcessesKept
<1>13. ReplacedLeft'
  <2>1. ASSUME NEW u \in Threads, replaced'[u] # 0
        PROVE  /\ \A k \in Keys : sessions'[k] # replaced'[u]
               /\ pc'[u] # "shutRetire" => entries'[replaced'[u]].retired
    <3>1. CASE u = t
      <4>1. e \in Generations /\ entries[e].key = key[t] /\ e = sessions[key[t]]
        BY <2>1, <3>1, <1>2, <1>4, <1>7 DEF e, SessionsInv, EntriesOwned
      <4>2. \A k \in Keys \ {key[t]} : sessions[k] # e
        BY <4>1, <1>3 DEF SessionsInv, EntriesOwned
      <4>3. \A k \in Keys : sessions'[k] # e
        BY <4>1, <4>2, <1>3, <1>7
      <4>4. entries'[e].retired
        BY <4>1, <1>5
      <4>. QED BY <3>1, <4>3, <4>4, <1>7
    <3>2. CASE u # t
      <4>1. /\ replaced'[u] = replaced[u] /\ replaced[u] \in Generations /\ pc'[u] = pc[u]
            /\ \A k \in Keys : sessions[k] # replaced[u]
            /\ pc[u] # "shutRetire" => entries[replaced[u]].retired
        BY <2>1, <3>2, <1>6, <1>7 DEF SessionsInv, ReplacedLeft
      <4>2. \A k \in Keys : sessions'[k] # replaced[u]
        BY <4>1, <1>3, <1>7
      <4>3. pc[u] # "shutRetire" => entries'[replaced[u]].retired
        BY <4>1, <1>5
      <4>. QED BY <4>1, <4>2, <4>3
    <3>. QED BY <3>1, <3>2
  <2>. QED BY <2>1 DEF ReplacedLeft
<1>14. RetiredEntriesLeave'
  <2>1. ASSUME NEW k \in Keys, sessions'[k] # 0, entries'[sessions'[k]].retired
        PROVE  \E u \in Threads : pc'[u] = "remove" /\ candidate'[u] = sessions'[k]
    <3>1. k # key[t] /\ sessions'[k] = sessions[k] /\ sessions[k] \in Generations
      BY <2>1, <1>5, <1>6, <1>7
    <3>2. sessions[k] # e
      BY <3>1, <1>3, <1>4 DEF e, SessionsInv, EntriesOwned
    <3>3. entries[sessions[k]].retired
      BY <2>1, <3>1, <3>2, <1>5
    <3>4. PICK u \in Threads : pc[u] = "remove" /\ candidate[u] = sessions[k]
      BY <2>1, <3>1, <3>3 DEF SessionsInv, RetiredEntriesLeave
    <3>. QED BY <3>1, <3>4, <1>2, <1>7
  <2>. QED BY <2>1 DEF RetiredEntriesLeave
<1>15. FlagsOwned'
  BY <1>2, <1>7 DEF SessionsInv, FlagsOwned, Settling
<1>16. LatestIsCancellable'
  BY <1>2, <1>7 DEF SessionsInv, SessionsTypeOK, LatestIsCancellable
<1>. QED BY <1>8, <1>9, <1>10, <1>11, <1>12, <1>13, <1>14, <1>15, <1>16 DEF SessionsInv

LEMMA InvNext == SessionsInv /\ [SessionsNext]_vars => SessionsInv'
<1>. SUFFICES ASSUME SessionsInv, [SessionsNext]_vars PROVE SessionsInv'
  OBVIOUS
<1>1. ASSUME NEW t \in Threads, Step(t) PROVE SessionsInv'
  <2>1. CASE RegisterControl(t)
    BY <2>1, RegisterControlKeeps
  <2>2. CASE Lookup(t)
    BY <2>2, LookupReusesKeeps, LookupReplacesKeeps
  <2>3. CASE RetireOld(t)
    BY <2>3, RetireOldKeeps
  <2>4. CASE Acquire(t)
    BY <2>4, AcquireKeeps
  <2>5. CASE CancelledBeforeDispatch(t)
    BY <2>5, TakeAndRetireKeeps DEF CancelledBeforeDispatch
  <2>6. CASE StartOver(t)
    BY <2>6, StartOverKeeps
  <2>7. CASE Proceed(t)
    BY <2>7, ProceedKeeps
  <2>8. CASE SpawnWorker(t)
    BY <2>8, SpawnWorkerKeeps
  <2>9. CASE SpawnFails(t)
    BY <2>9, SpawnFailsKeeps
  <2>10. CASE RetireEntry(t)
    BY <2>10, RetireEntryKeeps
  <2>11. CASE RequestEnds(t)
    BY <2>11, RequestEndsKeeps
  <2>12. CASE RequestFails(t)
    BY <2>12, TakeAndRetireKeeps DEF RequestFails
  <2>13. CASE RemoveIfCurrent(t)
    BY <2>13, RemoveIfCurrentKeeps
  <2>14. CASE Unregister(t)
    BY <2>14, UnregisterKeeps
  <2>15. CASE ShutRemove(t)
    BY <2>15, ShutRemoveKeeps
  <2>16. CASE ShutRetire(t)
    BY <2>16, ShutRetireKeeps
  <2>17. CASE ShutWait(t)
    BY <2>17, ShutWaitKeeps
  <2>. QED
    BY <1>1, <2>1, <2>2, <2>3, <2>4, <2>5, <2>6, <2>7, <2>8, <2>9, <2>10, <2>11, <2>12, <2>13,
       <2>14, <2>15, <2>16, <2>17 DEF Step
<1>2. CASE UNCHANGED vars
  BY <1>2 DEF vars, SessionsInv, SessionsTypeOK, ReferencesPlaced, LocksHeld, EntriesOwned,
     ProcessesKept, ReplacedLeft, RetiredEntriesLeave, FlagsOwned, LatestIsCancellable, Generations
<1>. QED
  BY <1>1, <1>2, StartRequestKeeps, WriteSettingsKeeps, CancelRequestKeeps DEF SessionsNext

-----------------------------------------------------------------------------
(* The properties of the worker pool *)

\* Every reachable state of the session pool keeps the inductive invariant: who holds
\* which lock, entry, process and flag at every place an operation can stop.
THEOREM SessionsStayInv == SessionsSpec => []SessionsInv
BY InvInit, InvNext, PTL DEF SessionsSpec

\* However requests, failures and settings writes interleave, the entries of the pool
\* are well formed, a process never runs again in an entry that was shut down, and a
\* retired entry is on its way out of the pool.
THEOREM PoolEntriesSound == SessionsSpec => []EntriesSound
<1>1. SessionsInv => EntriesSound
  BY DEF SessionsInv, EntriesSound, ShutEntriesStayEmpty, ProcessesKept
<1>. QED BY <1>1, SessionsStayInv, PTL

\* A running request is served, under the mutex of an entry of its own plugin version,
\* by a process launched with the configuration the request was built from, although the
\* entry was found before the mutex was taken and may have been replaced meanwhile.
THEOREM OwnConfigurationServes == SessionsSpec => []ServedByOwnConfiguration
<1>1. SessionsInv => ServedByOwnConfiguration
  <2>. SUFFICES ASSUME SessionsInv, NEW t \in Threads, pc[t] = "running"
                PROVE  /\ lock[candidate[t]] = t
                       /\ entries[candidate[t]].key = key[t]
                       /\ entries[candidate[t]].proc = launch[t]
    BY DEF ServedByOwnConfiguration
  <2>1. candidate[t] \in Generations /\ candidate[t] # 0
    BY DEF SessionsInv, SessionsTypeOK, ReferencesPlaced, Working
  <2>. QED BY <2>1 DEF SessionsInv, LocksHeld, Holding, EntriesOwned, ProcessesKept
<1>. QED BY <1>1, SessionsStayInv, PTL

\* When requests share a control id, the last one that registered stays the one a cancel
\* reaches until it is over.
THEOREM LatestStaysCancellable == SessionsSpec => []LatestIsCancellable
<1>1. SessionsInv => LatestIsCancellable
  BY DEF SessionsInv
<1>. QED BY <1>1, SessionsStayInv, PTL

\* When no operation is under way the pool is at rest: no entry is locked or retired, no
\* flag is registered, and every process that still exists is in the pool.
THEOREM PoolComesToRest == SessionsSpec => []PoolAtRest
<1>1. SessionsInv => PoolAtRest
  <2>. SUFFICES ASSUME SessionsInv, Quiet PROVE PoolAtRest
    BY DEF PoolAtRest
  <2>1. \A t \in Threads : pc[t] = "idle" /\ candidate[t] = 0 /\ replaced[t] = 0 /\ control[t] = NoControl
    BY DEF Quiet, SessionsInv, ReferencesPlaced, Working, Replacing, FlagsOwned, Settling
  <2>2. \A e \in Generations : lock[e] = NoThread
    BY <2>1 DEF SessionsInv, SessionsTypeOK, LocksHeld, Holding
  <2>3. \A c \in ControlIds : inflight[c] = NoThread
    BY <2>1, ConstantsTyped DEF SessionsInv, SessionsTypeOK, FlagsOwned
  <2>4. \A k \in Keys : sessions[k] # 0 => ~ entries[sessions[k]].retired
    BY <2>1 DEF SessionsInv, RetiredEntriesLeave
  <2>5. ASSUME NEW k \in Keys, NEW e \in Live(k) PROVE e = sessions[k]
    <3>1. e \in Generations /\ e # 0 /\ entries[e].key = k /\ Referenced(e)
      BY GenerationsTyped DEF Live, SessionsInv
    <3>2. PICK j \in Keys : sessions[j] = e
      BY <2>1, <3>1 DEF Referenced
    <3>. QED BY <3>1, <3>2 DEF SessionsInv, EntriesOwned
  <2>. QED BY <2>2, <2>3, <2>4, <2>5 DEF PoolAtRest
<1>. QED BY <1>1, SessionsStayInv, PTL

-----------------------------------------------------------------------------
(*****************************************************************************)
(* InstalledPlugins: what a launched worker and every other answer come from.*)
(*****************************************************************************)

(* The first item under an id *)

LEMMA FirstIsIt ==
  ASSUME NEW items, NEW n \in Nat, DOMAIN items = 1 .. n, NEW i \in 1 .. n,
         \A j \in 1 .. n : items[j].id = items[i].id => i <= j
  PROVE  FirstWith(items, items[i].id) = <<items[i]>>
<1>. DEFINE found == {j \in DOMAIN items : items[j].id = items[i].id}
<1>1. i \in found /\ \A j \in found : i <= j /\ j \in Nat
  OBVIOUS
<1>2. (CHOOSE k \in found : \A j \in found : k <= j) = i
  <2>. HIDE DEF found
  <2>1. ASSUME NEW k \in found, \A j \in found : k <= j PROVE k = i
    BY <1>1, <2>1
  <2>. QED BY <1>1, <2>1
<1>. QED BY <1>1, <1>2 DEF FirstWith

LEMMA FirstIsOne ==
  ASSUME NEW items, NEW n \in Nat, DOMAIN items = 1 .. n, NEW id, \E i \in 1 .. n : items[i].id = id
  PROVE  \E i \in 1 .. n : items[i].id = id /\ FirstWith(items, id) = <<items[i]>>
<1>. DEFINE found == {j \in 1 .. n : items[j].id = id}
<1>1. \E i \in found : \A j \in found : ~ (<<j, i>> \in OpToRel(<, Nat))
  <2>1. found \subseteq Nat /\ found # {}
    OBVIOUS
  <2>. HIDE DEF found
  <2>. QED BY <2>1, NatLessThanWellFounded, WFMin
<1>2. PICK i \in found : \A j \in found : ~ (<<j, i>> \in OpToRel(<, Nat))
  BY <1>1
<1>3. ASSUME NEW j \in found PROVE i <= j
  <2>1. ~ (<<j, i>> \in {ss \in Nat \X Nat : ss[1] < ss[2]}) /\ i \in Nat /\ j \in Nat
    BY <1>2, <1>3 DEF OpToRel
  <2>. QED BY <2>1
<1>4. \A j \in 1 .. n : items[j].id = items[i].id => i <= j
  BY <1>2, <1>3
<1>. QED BY <1>2, <1>4, FirstIsIt

LEMMA NoneFirst ==
  ASSUME NEW items, NEW n \in Nat, DOMAIN items = 1 .. n, NEW id, FirstWith(items, id) # <<>>
  PROVE  \E i \in 1 .. n : items[i].id = id
BY DEF FirstWith

LEMMA FirstOfDiffering ==
  ASSUME NEW items, NEW n \in Nat, DOMAIN items = 1 .. n, IdsDiffer(items), NEW i \in 1 .. n
  PROVE  FirstWith(items, items[i].id) = <<items[i]>>
<1>1. \A j \in 1 .. n : items[j].id = items[i].id => i <= j
  BY DEF IdsDiffer, IsInjective
<1>. QED BY <1>1, FirstIsIt

(* What is kept of a package that could be read *)

Shaped(m) ==
  /\ DOMAIN m = ManifestFields
  /\ m.worker \in Seq(WorkerDescriptors) /\ m.workers \in Seq(WorkerDescriptors)
  /\ m.connections \in Seq(Connections) /\ m.menus \in Seq(Seq(Menus))
  /\ m.commands \in Seq(Seq(Commands)) /\ m.ui \in Seq(Seq(UiItems))

\* The manifest was valid, its workers are in the package, only the descriptor's worker was
\* added, and a contract was accepted over the manifest.
SoundlyRead(p, files) ==
  /\ Shaped(p.declared) /\ ValidManifest(p.declared)
  /\ \A w \in Range(WorkersOf(p.declared)) : EntryInside(files, w.entry)
  /\ \A field \in ManifestFields \ {"worker"} : p.manifest[field] = p.declared[field]
  /\ \A d \in Range(p.agent) : d.schema = 2 =>
       /\ p.manifest.worker = p.declared.worker /\ AcceptsV2(d, p.declared, files)
       /\ d.frontend.ui \in Seq(ContractItems)

LEMMA ParsedIsShaped ==
  ASSUME NEW document, "manifest" \in DOMAIN document, IsManifest(document.manifest)
  PROVE  Shaped(Parsed(document))
<1>. DEFINE m == document.manifest
<1>1. Shaped(m)
  BY DEF IsManifest, Shaped
<1>2. ASSUME NEW kind, NEW engine
      PROVE  Shaped([m EXCEPT !.api = "v2", !.kind = kind, !.update = <<>>, !.engine = engine])
  <2>. HIDE DEF m
  <2>. QED BY <1>1 DEF Shaped, ManifestFields
<1>. QED BY <1>1, <1>2 DEF Parsed, Migrated

LEMMA ReadingIsSound ==
  ASSUME NEW q, IsPackage(q), NEW p, ReadPlugin(q.document, q.files) = <<p>>
  PROVE  SoundlyRead(p, q.files)
<1>. DEFINE m == Parsed(q.document)
            descriptor == q.files[m.entry].holds[2]
            agent == IF m.kind = "AgentPlugin" THEN <<descriptor>> ELSE <<>>
<1>1. Readable(q.document, q.files)
  BY DEF ReadPlugin
<1>2. /\ p.declared = m /\ p.agent = agent
      /\ p.manifest = IF agent = <<>> THEN m ELSE WithWorker(m, agent[1])
  <2>. DEFINE kept == [declared |-> m, manifest |-> IF agent = <<>> THEN m ELSE WithWorker(m, agent[1]),
                       agent |-> agent,
                       frontend |-> [i \in DOMAIN m.frontend |-> q.files[m.frontend[i].entry].bytes],
                       surfaces |-> Shown(m)]
  <2>1. ReadPlugin(q.document, q.files) = <<kept>>
    BY <1>1 DEF ReadPlugin
  <2>2. /\ kept.declared = m /\ kept.agent = agent
        /\ kept.manifest = IF agent = <<>> THEN m ELSE WithWorker(m, agent[1])
    <3>. HIDE DEF m, agent
    <3>. QED OBVIOUS
  <2>. HIDE DEF kept, m, agent
  <2>. QED BY <2>1, <2>2
<1>3. Shaped(m)
  BY ParsedIsShaped DEF IsPackage
<1>4. /\ ValidManifest(m) /\ EntryReads(m, q.files)
      /\ \A w \in Range(WorkersOf(m)) : EntryInside(q.files, w.entry)
  BY <1>1 DEF Readable
<1>5. CASE m.kind # "AgentPlugin"
  <2>1. agent = <<>> /\ p.manifest = m /\ Range(p.agent) = {}
    BY <1>2, <1>5 DEF Range
  <2>. HIDE DEF m
  <2>. QED BY <1>2, <1>3, <1>4, <2>1 DEF SoundlyRead
<1>6. CASE m.kind = "AgentPlugin"
  <2>1. /\ m.entry \in DOMAIN q.files /\ q.files[m.entry].holds[1] = "agent"
        /\ AcceptsDescriptor(descriptor, m, q.files)
    BY <1>4, <1>6 DEF EntryReads, Holds
  <2>2. IsDescriptor(descriptor)
    BY <2>1 DEF IsPackage
  <2>3. Range(p.agent) = {descriptor} /\ p.manifest = WithWorker(m, descriptor)
    BY <1>2, <1>6 DEF Range
  <2>. HIDE DEF m, descriptor
  <2>4. \A field \in ManifestFields \ {"worker"} : p.manifest[field] = m[field]
    BY <1>3, <2>3 DEF WithWorker, Shaped
  <2>5. ASSUME descriptor.schema = 2
        PROVE  /\ p.manifest.worker = m.worker /\ AcceptsV2(descriptor, m, q.files)
               /\ descriptor.frontend.ui \in Seq(ContractItems)
    BY <2>1, <2>2, <2>3, <2>5 DEF WithWorker, AcceptsDescriptor, IsDescriptor
  <2>. QED BY <1>2, <1>3, <1>4, <2>3, <2>4, <2>5 DEF SoundlyRead
<1>. QED BY <1>5, <1>6

LEMMA SoundWhileFilesStay ==
  ASSUME NEW p, NEW files, NEW later, SoundlyRead(p, files),
         \A path : EntryInside(later, path) <=> EntryInside(files, path)
  PROVE  SoundlyRead(p, later)
<1>1. ASSUME NEW d, AcceptsV2(d, p.declared, files) PROVE AcceptsV2(d, p.declared, later)
  <2>1. AcceptsWorker(d.worker, p.declared, later)
    BY <1>1 DEF AcceptsV2, AcceptsWorker
  <2>. QED BY <1>1, <2>1 DEF AcceptsV2
<1>. QED BY <1>1 DEF SoundlyRead

(* What follows from it *)

LEMMA GivenIsOne ==
  ASSUME NEW S, NEW option \in Seq(S), NEW x, x \in Range(Given(option))
  PROVE  option[1] \in Range(option) /\ Given(option) = option[1] /\ option[1] \in S
<1>1. option # <<>>
  BY DEF Given, Range
<1>2. 1 \in DOMAIN option /\ option[1] \in S
  BY <1>1
<1>. QED BY <1>1, <1>2 DEF Given, Range

\* The manifest kept for use has what the declared one has, but for the first worker.
LEMMA FieldsKept ==
  ASSUME NEW p, NEW files, SoundlyRead(p, files)
  PROVE  /\ p.manifest.kind = p.declared.kind /\ p.manifest.capabilities = p.declared.capabilities
         /\ p.manifest.menus = p.declared.menus /\ p.manifest.commands = p.declared.commands
         /\ p.manifest.connections = p.declared.connections /\ p.manifest.ui = p.declared.ui
         /\ p.manifest.workers = p.declared.workers
BY DEF SoundlyRead, ManifestFields

LEMMA RangeTyped ==
  ASSUME NEW S, NEW items \in Seq(S), NEW x \in Range(items)
  PROVE  x \in S
BY DEF Range

LEMMA FirstOfBoth ==
  ASSUME NEW S, NEW first \in Seq(S), NEW second \in Seq(S)
  PROVE  /\ Len(first \o second) \in Nat /\ DOMAIN (first \o second) = 1 .. Len(first \o second)
         /\ Len(first) \in Nat /\ Len(first) <= Len(first \o second)
         /\ \A j \in 1 .. Len(first) : (first \o second)[j] = first[j]
OBVIOUS

LEMMA MenusRun ==
  ASSUME NEW p, NEW files, SoundlyRead(p, files), NEW x \in Range(Given(p.manifest.menus))
  PROVE  MayExecute(p.manifest, "analysis.run",
                    [version |-> "plugin-call/v1alpha1", operation |-> "context-menu", context |-> <<x.id, x.scope>>])
<1>. DEFINE m == p.declared
            call == [version |-> "plugin-call/v1alpha1", operation |-> "context-menu", context |-> <<x.id, x.scope>>]
<1>1. m.menus[1] \in Range(m.menus)
  BY FieldsKept, GivenIsOne DEF SoundlyRead, Shaped
<1>2. ValidMenus(m) /\ ValidKind(m)
  BY DEF SoundlyRead, ValidManifest
<1>3. m.kind = "AnalysisPlugin" /\ Declares(m, "context-menu.contribute")
  BY <1>1, <1>2 DEF ValidMenus
<1>4. Declares(m, "analysis.run")
  BY <1>2, <1>3 DEF ValidKind
<1>5. ValidAnalysisCall(p.manifest, call)
  BY <1>3, FieldsKept, HostNamesAssumption DEF ValidAnalysisCall, Declares
<1>. QED BY <1>3, <1>4, <1>5, FieldsKept, HostNamesAssumption DEF MayExecute, Declares

LEMMA CommandsRun ==
  ASSUME NEW p, NEW files, SoundlyRead(p, files), NEW x \in Range(Given(p.manifest.commands)),
         p.manifest.kind = "WorkspacePlugin"
  PROVE  /\ RequireWorkspaceCapabilities(p.manifest, {x.capability})
         /\ x.category = "export" /\ x.capability = "project.export" =>
              \A formats \in Range(x.formats) : \A f \in Range(formats) : RequireExportFormat(p.manifest, f)
<1>. DEFINE m == p.declared
<1>1. m.commands[1] \in Range(m.commands) /\ Given(m.commands) = m.commands[1]
  BY FieldsKept, GivenIsOne DEF SoundlyRead, Shaped
<1>2. ValidCommands(m)
  BY DEF SoundlyRead, ValidManifest
<1>3. Declares(m, x.capability)
  BY <1>1, <1>2, FieldsKept DEF ValidCommands
<1>4. RequireWorkspaceCapabilities(p.manifest, {x.capability})
  BY <1>3, FieldsKept DEF RequireWorkspaceCapabilities, RequireCapabilities, Declares
<1>5. ASSUME x.category = "export", x.capability = "project.export",
             NEW formats \in Range(x.formats), NEW f \in Range(formats)
      PROVE  RequireExportFormat(p.manifest, f)
  BY <1>4, <1>5 DEF RequireExportFormat
<1>. QED BY <1>4, <1>5

LEMMA TestsSelected ==
  ASSUME NEW p, NEW files, SoundlyRead(p, files), NEW c \in Range(p.manifest.connections),
         NEW a \in Range(Given(c.testActions))
  PROVE  SelectTestAction(p.manifest, c, <<a.id>>) = <<a>>
<1>. DEFINE own == Given(c.testActions)
            offered == own \o c.testAction
<1>1. c \in Connections /\ c \in Range(p.declared.connections)
  <2>1. p.declared.connections \in Seq(Connections) /\ c \in Range(p.declared.connections)
    BY FieldsKept DEF SoundlyRead, Shaped
  <2>. QED BY <2>1, RangeTyped
<1>2. c.testAction \in Seq(TestActions) /\ c.testActions \in Seq(Seq(TestActions))
  BY <1>1 DEF Connections
<1>3. c.testActions[1] \in Range(c.testActions) /\ own = c.testActions[1] /\ own \in Seq(TestActions)
  BY <1>2, GivenIsOne
<1>4. ValidTestActions(c)
  BY <1>1 DEF SoundlyRead, ValidManifest
<1>5. IdsDiffer(own)
  BY <1>3, <1>4 DEF ValidTestActions
<1>. HIDE DEF own
<1>6. PICK i \in 1 .. Len(own) : own[i] = a
  BY <1>3 DEF own, Range
<1>7. /\ Len(offered) \in Nat /\ DOMAIN offered = 1 .. Len(offered) /\ i \in 1 .. Len(offered)
      /\ Len(own) \in Nat /\ Len(own) <= Len(offered) /\ offered[i] = a
      /\ \A j \in 1 .. Len(own) : offered[j] = own[j]
  <2>1. /\ Len(offered) \in Nat /\ DOMAIN offered = 1 .. Len(offered)
        /\ Len(own) \in Nat /\ Len(own) <= Len(offered)
        /\ \A j \in 1 .. Len(own) : offered[j] = own[j]
    <3>. DEFINE second == c.testAction
    <3>1. own \in Seq(TestActions) /\ second \in Seq(TestActions)
      BY <1>2, <1>3
    <3>. HIDE DEF second
    <3>2. /\ Len(own \o second) \in Nat /\ DOMAIN (own \o second) = 1 .. Len(own \o second)
          /\ Len(own) \in Nat /\ Len(own) <= Len(own \o second)
          /\ \A j \in 1 .. Len(own) : (own \o second)[j] = own[j]
      BY <3>1, FirstOfBoth
    <3>. QED BY <3>2 DEF second
  <2>. HIDE DEF offered
  <2>. QED BY <1>6, <2>1
<1>8. ASSUME NEW j \in 1 .. Len(offered), offered[j].id = offered[i].id PROVE i <= j
  <2>1. CASE j <= Len(own)
    <3>1. j \in DOMAIN own /\ i \in DOMAIN own /\ own[j].id = own[i].id
      BY <1>3, <1>6, <1>7, <1>8, <2>1
    <3>. QED BY <1>5, <1>7, <3>1 DEF IdsDiffer, IsInjective
  <2>2. CASE ~ (j <= Len(own))
    BY <1>7, <2>2, <1>6
  <2>. QED BY <2>1, <2>2
<1>9. FirstWith(offered, a.id) = <<a>>
  <2>. HIDE DEF offered
  <2>1. FirstWith(offered, offered[i].id) = <<offered[i]>>
    BY <1>7, <1>8, FirstIsIt
  <2>. QED BY <1>7, <2>1
<1>. QED BY <1>9 DEF SelectTestAction, own

\* What the plan of a worker has when there is one.
LEMMA PlanOf ==
  ASSUME NEW m, NEW files, NEW id, NEW w, FirstWith(WorkersOf(m), id) = <<w>>,
         EntryInside(files, w.entry), EgressConnected(m, <<w>>)
  PROVE  LET plan == LaunchPlan(m, files, id)
             Secret(e) == SecretOf(FirstWith(m.connections, e.connection)[1].key)
         IN /\ plan # <<>> /\ plan[1].entry = w.entry
            /\ plan[1].operations = w.operations /\ plan[1].hostOperations = w.hostOperations
            /\ plan[1].secrets = {<<e.env, Secret(e)[1]>> : e \in {e \in Range(w.egress) : Secret(e) # <<>>}}
BY DEF LaunchPlan

LEMMA WorkersTyped ==
  ASSUME NEW m, Shaped(m)
  PROVE  /\ WorkersOf(m) \in Seq(WorkerDescriptors) /\ Len(WorkersOf(m)) \in Nat
         /\ DOMAIN WorkersOf(m) = 1 .. Len(WorkersOf(m))
<1>1. m.worker \in Seq(WorkerDescriptors) /\ m.workers \in Seq(WorkerDescriptors)
  BY DEF Shaped
<1>2. /\ m.worker \o m.workers \in Seq(WorkerDescriptors) /\ Len(m.worker \o m.workers) \in Nat
      /\ DOMAIN (m.worker \o m.workers) = 1 .. Len(m.worker \o m.workers)
  <2>. DEFINE first == m.worker
              second == m.workers
  <2>1. first \in Seq(WorkerDescriptors) /\ second \in Seq(WorkerDescriptors)
    BY <1>1
  <2>. HIDE DEF first, second
  <2>2. /\ first \o second \in Seq(WorkerDescriptors) /\ Len(first \o second) \in Nat
        /\ DOMAIN (first \o second) = 1 .. Len(first \o second)
    BY <2>1, FirstOfBoth, ConcatProperties
  <2>. QED BY <2>2 DEF first, second
<1>. QED BY <1>2 DEF WorkersOf

LEMMA ConnectedAlone ==
  ASSUME NEW m, NEW w \in Range(WorkersOf(m)), EgressConnected(m, WorkersOf(m))
  PROVE  EgressConnected(m, <<w>>)
<1>1. Range(<<w>>) = {w}
  BY DEF Range
<1>. QED BY <1>1 DEF EgressConnected

LEMMA WorkerLaunches ==
  ASSUME NEW p, NEW files, SoundlyRead(p, files), p.manifest.worker = p.declared.worker,
         NEW w \in Range(WorkersOf(p.declared))
  PROVE  /\ WorkersOf(p.manifest) = WorkersOf(p.declared)
         /\ FirstWith(WorkersOf(p.manifest), w.id) = <<w>>
         /\ EntryInside(files, w.entry) /\ EgressConnected(p.manifest, <<w>>)
<1>. DEFINE m == p.declared
            items == WorkersOf(m)
<1>1. WorkersOf(p.manifest) = items
  BY FieldsKept DEF WorkersOf
<1>2. IdsDiffer(items) /\ EgressConnected(m, items) /\ EntryInside(files, w.entry) /\ Shaped(m)
  BY DEF SoundlyRead, ValidManifest
<1>3. Len(items) \in Nat /\ DOMAIN items = 1 .. Len(items)
  BY <1>2, WorkersTyped
<1>4. PICK i \in 1 .. Len(items) : items[i] = w
  BY <1>3 DEF Range
<1>5. FirstWith(items, w.id) = <<w>>
  <2>. HIDE DEF items
  <2>1. FirstWith(items, items[i].id) = <<items[i]>>
    BY <1>2, <1>3, FirstOfDiffering
  <2>. QED BY <1>4, <2>1
<1>6. EgressConnected(m, <<w>>)
  BY <1>2, ConnectedAlone
<1>7. EgressConnected(p.manifest, <<w>>)
  BY <1>6, FieldsKept DEF EgressConnected
<1>. QED BY <1>1, <1>2, <1>5, <1>7

LEMMA SecretNamed ==
  ASSUME NEW apiKey \in ApiKeys, SecretOf(apiKey) # <<>>
  PROVE  SecretOf(apiKey)[1] \in Range(apiKey.setting) \cup Range(apiKey.name)
<1>1. apiKey.setting \in Seq(Names) /\ apiKey.name \in Seq(Names)
  BY DEF ApiKeys
<1>2. SecretOf(apiKey) \in {apiKey.setting, apiKey.name}
  BY DEF SecretOf
<1>. QED BY <1>1, <1>2 DEF Range

LEMMA SecretsOfConnections ==
  ASSUME NEW p, NEW files, SoundlyRead(p, files), p.manifest.worker = p.declared.worker,
         NEW w \in Range(WorkersOf(p.declared)), NEW e \in Range(w.egress)
  PROVE  LET c == FirstWith(p.manifest.connections, e.connection)[1]
         IN c \in Range(p.manifest.connections) /\ c.id = e.connection /\ c.key \in ApiKeys
<1>. DEFINE connections == p.manifest.connections
<1>1. connections \in Seq(Connections)
  BY FieldsKept DEF SoundlyRead, Shaped
<1>2. \E c \in Range(connections) : c.id = e.connection
  <2>1. EgressConnected(p.manifest, <<w>>) /\ Range(<<w>>) = {w}
    BY WorkerLaunches DEF Range
  <2>. QED BY <2>1 DEF EgressConnected
<1>. HIDE DEF connections
<1>3. Len(connections) \in Nat /\ DOMAIN connections = 1 .. Len(connections)
  BY <1>1
<1>4. \E i \in 1 .. Len(connections) : connections[i].id = e.connection
  BY <1>2, <1>3 DEF Range
<1>5. PICK i \in 1 .. Len(connections) : /\ connections[i].id = e.connection
                                         /\ FirstWith(connections, e.connection) = <<connections[i]>>
  BY <1>3, <1>4, FirstIsOne
<1>6. connections[i] \in Connections /\ connections[i] \in Range(connections)
  BY <1>1, <1>3 DEF Range
<1>7. connections[i].key \in ApiKeys
  BY <1>6 DEF Connections
<1>. QED BY <1>5, <1>6, <1>7 DEF connections

\* Two sequences of one length whose ids differ in the first and are all in the second
\* have the same ids.
LEMMA SameIds ==
  ASSUME NEW S, NEW T, NEW a \in Seq(S), NEW b \in Seq(T), Len(a) = Len(b), IdsDiffer(a),
         \A x \in Range(a) : \E y \in Range(b) : y.id = x.id
  PROVE  {x.id : x \in Range(a)} = {y.id : y \in Range(b)}
<1>. DEFINE n == Len(a)
            A == {x.id : x \in Range(a)}
            B == {y.id : y \in Range(b)}
            f == [i \in 1 .. n |-> a[i].id]
            g == [i \in 1 .. n |-> b[i].id]
<1>1. n \in Nat /\ DOMAIN a = 1 .. n /\ DOMAIN b = 1 .. n
  OBVIOUS
<1>2. A \subseteq B
  OBVIOUS
<1>3. \A i \in 1 .. n : a[i].id \in A /\ b[i].id \in B
  BY <1>1 DEF Range
<1>4. f \in Injection(1 .. n, B)
  BY <1>1, <1>2, <1>3 DEF Injection, IsInjective, IdsDiffer
<1>5. g \in Surjection(1 .. n, B)
  BY <1>1, <1>3 DEF Surjection, Range
<1>. HIDE DEF f, g, A, B
<1>6. IsFiniteSet(1 .. n) /\ Cardinality(1 .. n) \in Nat
  BY <1>1, FS_Interval, FS_CardinalityType
<1>7. IsFiniteSet(B) /\ Cardinality(B) <= Cardinality(1 .. n) /\ Cardinality(B) \in Nat
  BY <1>5, <1>6, FS_Surjection, FS_CardinalityType
<1>8. Cardinality(1 .. n) <= Cardinality(B)
  BY <1>4, <1>7, FS_Injection
<1>9. f \in Surjection(1 .. n, B)
  BY <1>4, <1>6, <1>7, <1>8, FS_Injection
<1>10. ASSUME NEW v \in B PROVE v \in A
  BY <1>3, <1>9, <1>1 DEF f, Surjection
<1>. QED BY <1>2, <1>10 DEF A, B

LEMMA ContractRuns ==
  ASSUME NEW p, NEW files, SoundlyRead(p, files), NEW d \in Range(p.agent), d.schema = 2
  PROVE  LET plan == LaunchPlan(p.manifest, files, d.worker.id)
         IN /\ plan # <<>> /\ plan[1].operations = d.worker.operations
            /\ plan[1].hostOperations = d.worker.hostOperations
            /\ IdsDiffer(d.frontend.ui) =>
                 {x.id : x \in Range(d.frontend.ui)} = {x.id : x \in Range(p.manifest.ui[1])}
<1>. DEFINE m == p.declared
            items == WorkersOf(m)
            c == d.worker
            ui == d.frontend.ui
<1>1. /\ p.manifest.worker = m.worker /\ AcceptsFrontend(d.frontend, m) /\ AcceptsWorker(c, m, files)
      /\ ui \in Seq(ContractItems) /\ Shaped(m) /\ IdsDiffer(items)
  BY DEF SoundlyRead, AcceptsV2, ValidManifest
<1>2. Len(items) \in Nat /\ DOMAIN items = 1 .. Len(items)
  BY <1>1, WorkersTyped
<1>3. FirstWith(items, c.id) # <<>>
  BY <1>1 DEF AcceptsWorker
<1>4. PICK i \in 1 .. Len(items) : items[i].id = c.id
  <2>. HIDE DEF items, c
  <2>. QED BY <1>2, <1>3, NoneFirst
<1>5. FirstWith(items, c.id) = <<items[i]>>
  <2>. HIDE DEF items, c
  <2>1. FirstWith(items, items[i].id) = <<items[i]>>
    BY <1>1, <1>2, FirstOfDiffering
  <2>. QED BY <1>4, <2>1
<1>6. items[i] \in Range(items)
  BY <1>2 DEF Range
<1>7. items[i].operations = c.operations /\ items[i].hostOperations = c.hostOperations
  BY <1>1, <1>5 DEF AcceptsWorker
<1>8. LET plan == LaunchPlan(p.manifest, files, c.id)
      IN plan # <<>> /\ plan[1].operations = c.operations /\ plan[1].hostOperations = c.hostOperations
  <2>. DEFINE w == items[i]
  <2>1. /\ WorkersOf(p.manifest) = items /\ EntryInside(files, w.entry)
        /\ EgressConnected(p.manifest, <<w>>)
    BY <1>1, <1>6, WorkerLaunches
  <2>2. FirstWith(WorkersOf(p.manifest), c.id) = <<w>>
    BY <1>5, <2>1
  <2>. HIDE DEF items, w, c
  <2>3. LET plan == LaunchPlan(p.manifest, files, c.id)
        IN plan # <<>> /\ plan[1].operations = w.operations /\ plan[1].hostOperations = w.hostOperations
    BY <2>1, <2>2, PlanOf
  <2>. QED BY <1>7, <2>3 DEF w
<1>9. ASSUME IdsDiffer(ui) PROVE {x.id : x \in Range(ui)} = {x.id : x \in Range(p.manifest.ui[1])}
  <2>1. m.ui # <<>> /\ Len(ui) = Len(m.ui[1]) /\ m.ui \in Seq(Seq(UiItems)) /\ p.manifest.ui = m.ui
    BY <1>1, FieldsKept DEF AcceptsFrontend, Shaped
  <2>2. m.ui[1] \in Seq(UiItems)
    BY <2>1
  <2>3. ASSUME NEW x \in Range(ui) PROVE \E y \in Range(m.ui[1]) : y.id = x.id
    <3>1. FirstWith(m.ui[1], x.id) # <<>>
      BY <1>1, <2>3 DEF AcceptsFrontend
    <3>. DEFINE shown == m.ui[1]
    <3>2. Len(shown) \in Nat /\ DOMAIN shown = 1 .. Len(shown)
      BY <2>2
    <3>3. FirstWith(shown, x.id) # <<>>
      BY <3>1
    <3>. HIDE DEF shown
    <3>4. \E j \in 1 .. Len(shown) : shown[j].id = x.id
      BY <3>2, <3>3, NoneFirst
    <3>. QED BY <3>2, <3>4 DEF Range, shown
  <2>4. {x.id : x \in Range(ui)} = {y.id : y \in Range(m.ui[1])}
    <3>. DEFINE shown == m.ui[1]
    <3>1. /\ ui \in Seq(ContractItems) /\ shown \in Seq(UiItems) /\ Len(ui) = Len(shown)
          /\ \A x \in Range(ui) : \E y \in Range(shown) : y.id = x.id
      BY <1>1, <2>1, <2>2, <2>3
    <3>. HIDE DEF ui, shown
    <3>2. {x.id : x \in Range(ui)} = {y.id : y \in Range(shown)}
      BY <1>9, <3>1, SameIds
    <3>. QED BY <3>2 DEF shown
  <2>. QED BY <2>1, <2>4
<1>. QED BY <1>8, <1>9

(* The inductive invariant *)

\* What was read of a package stays sound while its files are written again, and an answer
\* is of what was read.
InstalledInv ==
  /\ package = NoPackage \/ IsPackage(package)
  /\ plugin = <<>> \/ plugin = <<plugin[1]>>
  /\ plugin # <<>> => IsPackage(package) /\ SoundlyRead(plugin[1], package.files)
  /\ answer # NoAnswer => plugin # <<>>
  /\ OnlyWhatWasRead

LEMMA FileWritten ==
  ASSUME NEW q, IsPackage(q), NEW path
  PROVE  LET later == [q EXCEPT !.files[path].bytes = 2]
         IN IsPackage(later) /\ \A other : EntryInside(later.files, other) <=> EntryInside(q.files, other)
<1>. DEFINE later == [q EXCEPT !.files[path].bytes = 2]
<1>1. DOMAIN later = DOMAIN q /\ later.document = q.document /\ DOMAIN later.files = DOMAIN q.files
  BY DEF IsPackage
<1>2. ASSUME NEW other \in DOMAIN q.files
      PROVE  /\ DOMAIN later.files[other] = DOMAIN q.files[other]
             /\ later.files[other].inside = q.files[other].inside
             /\ later.files[other].holds = q.files[other].holds
  BY DEF IsPackage
<1>. HIDE DEF later
<1>3. IsPackage(later)
  BY <1>1, <1>2 DEF IsPackage
<1>4. \A other : EntryInside(later.files, other) <=> EntryInside(q.files, other)
  BY <1>1, <1>2 DEF EntryInside
<1>. QED BY <1>3, <1>4 DEF later

LEMMA InstalledInitInv == InstalledInit => InstalledInv
BY DEF InstalledInit, InstalledInv, OnlyWhatWasRead, NoAnswer

LEMMA AnswerKeepsInv ==
  ASSUME InstalledInv, NEW a, Answered(a), a # NoAnswer,
         /\ a.op = "frontend" /\ a.served => a.bytes = plugin[1].frontend[1]
         /\ a.op = "execute" /\ a.runs /\ a.call.operation = "context-menu" =>
              \E x \in Range(Given(plugin[1].manifest.menus)) : <<x.id, x.scope>> = a.call.context
  PROVE  InstalledInv'
BY DEF Answered, InstalledInv, OnlyWhatWasRead

LEMMA InstalledStepInv == InstalledInv /\ [InstalledNext]_installedVars => InstalledInv'
<1>. SUFFICES ASSUME InstalledInv, [InstalledNext]_installedVars PROVE InstalledInv'
  OBVIOUS
<1>1. CASE UNCHANGED installedVars
  BY <1>1 DEF installedVars, InstalledInv, OnlyWhatWasRead
<1>2. CASE OpenArchive
  <2>1. PICK q \in PackagesRead : package' = q
    BY <1>2 DEF OpenArchive
  <2>2. IsPackage(package') /\ ~ IsPackage(package) /\ plugin' = plugin /\ answer' = answer
    <3>1. ~ IsPackage(NoPackage)
      BY DEF IsPackage, NoPackage
    <3>. QED BY <1>2, <2>1, <3>1, PackagesAssumption DEF OpenArchive
  <2>. QED BY <2>2 DEF InstalledInv, OnlyWhatWasRead
<1>3. CASE ReadInstalled
  <2>1. /\ IsPackage(package) /\ package' = package /\ plugin = <<>> /\ answer' = answer
        /\ answer = NoAnswer /\ plugin' = ReadPlugin(package.document, package.files)
    BY <1>3 DEF ReadInstalled, InstalledInv
  <2>2. CASE plugin' = <<>>
    BY <2>1, <2>2 DEF InstalledInv, OnlyWhatWasRead, NoAnswer
  <2>3. CASE plugin' # <<>>
    <3>1. PICK p : ReadPlugin(package.document, package.files) = <<p>>
      BY <2>1, <2>3 DEF ReadPlugin
    <3>2. SoundlyRead(p, package.files)
      BY <2>1, <3>1, ReadingIsSound
    <3>. QED BY <2>1, <3>1, <3>2 DEF InstalledInv, OnlyWhatWasRead, NoAnswer
  <2>. QED BY <2>2, <2>3
<1>4. ASSUME NEW path, plugin # <<>>, FileChanges(path) PROVE InstalledInv'
  <2>1. IsPackage(package) /\ SoundlyRead(plugin[1], package.files)
    BY <1>4 DEF InstalledInv
  <2>2. /\ package' = [package EXCEPT !.files[path].bytes = 2] /\ plugin' = plugin /\ answer' = answer
        /\ answer = NoAnswer
    BY <1>4 DEF FileChanges
  <2>3. IsPackage(package') /\ \A other : EntryInside(package'.files, other) <=> EntryInside(package.files, other)
    BY <2>1, <2>2, FileWritten
  <2>4. SoundlyRead(plugin[1], package'.files)
    BY <2>1, <2>3, SoundWhileFilesStay
  <2>. QED BY <1>4, <2>2, <2>3, <2>4 DEF InstalledInv, OnlyWhatWasRead, NoAnswer
<1>5. ASSUME NEW id, Launch(id) PROVE InstalledInv'
  BY <1>5, AnswerKeepsInv DEF Launch, NoAnswer
<1>6. ASSUME NEW capability, NEW call, Execute(capability, call) PROVE InstalledInv'
  <2>1. ASSUME MayExecute(plugin[1].manifest, capability, call), call.operation = "context-menu"
        PROVE  \E x \in Range(Given(plugin[1].manifest.menus)) : <<x.id, x.scope>> = call.context
    BY <2>1 DEF MayExecute, ValidAnalysisCall
  <2>. QED BY <1>6, <2>1, AnswerKeepsInv DEF Execute, NoAnswer
<1>7. ASSUME NEW format, Export(format) PROVE InstalledInv'
  BY <1>7, AnswerKeepsInv DEF Export, NoAnswer
<1>8. ASSUME NEW request, ServeFrontend(request) PROVE InstalledInv'
  BY <1>8, AnswerKeepsInv DEF ServeFrontend, FrontendSource, NoAnswer
<1>9. ASSUME NEW c, NEW requested, TestConnection(c, requested) PROVE InstalledInv'
  BY <1>9, AnswerKeepsInv DEF TestConnection, NoAnswer
<1>10. \A f \in Range(IF plugin = <<>> THEN <<>> ELSE plugin[1].manifest.frontend) : plugin # <<>>
  BY DEF Range
<1>. QED BY <1>1, <1>2, <1>3, <1>4, <1>5, <1>6, <1>7, <1>8, <1>9, <1>10 DEF InstalledNext

LEMMA InstalledInvSound == InstalledInv => InstalledSound
<1>. SUFFICES ASSUME InstalledInv PROVE LaunchedAsDeclared /\ ContractIsWhatRuns /\ ContributionsWork
  BY DEF InstalledInv, InstalledSound
<1>1. ASSUME NEW p \in Range(plugin) PROVE SoundlyRead(p, package.files)
  <2>1. plugin # <<>>
    BY DEF Range
  <2>2. plugin = <<plugin[1]>> /\ SoundlyRead(plugin[1], package.files)
    BY <2>1 DEF InstalledInv
  <2>3. \A item : Range(<<item>>) = {item}
    BY DEF Range
  <2>. QED BY <2>2, <2>3
<1>2. LaunchedAsDeclared
  <2>. SUFFICES ASSUME NEW p \in Range(plugin), NEW w \in Range(WorkersOf(p.declared)),
                       p.declared.worker = p.manifest.worker
                PROVE  LET plan == LaunchPlan(p.manifest, package.files, w.id)
                       IN /\ plan # <<>> /\ plan[1].entry = w.entry
                          /\ plan[1].operations = w.operations /\ plan[1].hostOperations = w.hostOperations
                          /\ \A s \in plan[1].secrets : \E e \in Range(w.egress), c \in Range(p.manifest.connections) :
                               /\ s[1] = e.env /\ c.id = e.connection
                               /\ s[2] \in Range(c.key.setting) \cup Range(c.key.name)
    BY DEF LaunchedAsDeclared
  <2>. DEFINE plan == LaunchPlan(p.manifest, package.files, w.id)
              Secret(e) == SecretOf(FirstWith(p.manifest.connections, e.connection)[1].key)
  <2>1. /\ FirstWith(WorkersOf(p.manifest), w.id) = <<w>>
        /\ EntryInside(package.files, w.entry) /\ EgressConnected(p.manifest, <<w>>)
    BY <1>1, WorkerLaunches
  <2>2. /\ plan # <<>> /\ plan[1].entry = w.entry
        /\ plan[1].operations = w.operations /\ plan[1].hostOperations = w.hostOperations
        /\ plan[1].secrets = {<<e.env, Secret(e)[1]>> : e \in {e \in Range(w.egress) : Secret(e) # <<>>}}
    BY <2>1, PlanOf
  <2>3. ASSUME NEW s \in plan[1].secrets
        PROVE  \E e \in Range(w.egress), c \in Range(p.manifest.connections) :
                 /\ s[1] = e.env /\ c.id = e.connection
                 /\ s[2] \in Range(c.key.setting) \cup Range(c.key.name)
    <3>1. PICK e \in Range(w.egress) : Secret(e) # <<>> /\ s = <<e.env, Secret(e)[1]>>
      BY <2>2
    <3>. DEFINE c == FirstWith(p.manifest.connections, e.connection)[1]
    <3>2. c \in Range(p.manifest.connections) /\ c.id = e.connection /\ c.key \in ApiKeys
      BY <1>1, SecretsOfConnections
    <3>. HIDE DEF c
    <3>3. SecretOf(c.key) # <<>> /\ s[1] = e.env /\ s[2] = SecretOf(c.key)[1]
      BY <3>1 DEF c
    <3>4. s[2] \in Range(c.key.setting) \cup Range(c.key.name)
      BY <3>2, <3>3, SecretNamed
    <3>. QED BY <3>2, <3>3, <3>4
  <2>. HIDE DEF plan
  <2>4. /\ plan # <<>> /\ plan[1].entry = w.entry
        /\ plan[1].operations = w.operations /\ plan[1].hostOperations = w.hostOperations
    BY <2>2
  <2>. QED BY <2>3, <2>4 DEF plan
<1>3. ContractIsWhatRuns
  BY <1>1, ContractRuns DEF ContractIsWhatRuns
<1>4. ContributionsWork
  <2>. SUFFICES ASSUME NEW p \in Range(plugin)
                PROVE  LET m == p.manifest
                       IN /\ \A x \in Range(Given(m.menus)) :
                               MayExecute(m, "analysis.run", [version |-> "plugin-call/v1alpha1", operation |-> "context-menu",
                                                              context |-> <<x.id, x.scope>>])
                          /\ m.kind = "WorkspacePlugin" => \A x \in Range(Given(m.commands)) :
                               /\ RequireWorkspaceCapabilities(m, {x.capability})
                               /\ x.category = "export" /\ x.capability = "project.export" =>
                                    \A formats \in Range(x.formats) : \A f \in Range(formats) : RequireExportFormat(m, f)
                          /\ \A c \in Range(m.connections) : \A a \in Range(Given(c.testActions)) :
                               SelectTestAction(m, c, <<a.id>>) = <<a>>
    BY DEF ContributionsWork
  <2>. QED BY <1>1, MenusRun, CommandsRun, TestsSelected
<1>. QED BY <1>2, <1>3, <1>4

\* InstalledInv holds in every state: what is kept of a package is what its manifest and its
\* files were when they were read.
THEOREM InstalledStaysInv == InstalledSpec => []InstalledInv
<1>. QED BY InstalledInitInv, InstalledStepInv, PTL DEF InstalledSpec

\* Whatever packages are installed and whatever of their files is written again: a worker
\* that passed the rules launches as declared, a reviewed contract is what runs, what a
\* plugin contributes is not refused when it is used, and only what was read is served.
THEOREM InstalledStaysSound == InstalledSpec => []InstalledSound
<1>. QED BY InstalledStaysInv, InstalledInvSound, PTL
=============================================================================

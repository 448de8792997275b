-------------------------- MODULE MCWorkerSessions --------------------------
(* Small instances of WorkerSessions for TLC. *)
EXTENDS WorkerSessions, TLC

Symmetry == Permutations(Threads) \cup Permutations(Keys) \cup Permutations(Fingerprints)
=============================================================================

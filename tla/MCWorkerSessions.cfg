SPECIFICATION SessionsSpec
CONSTANTS
  Threads = {t1, t2, t3}
  Keys = {k1}
  ControlIds = {c1}
  Fingerprints = {f1, f2}
  MaxGenerations = 4
  MaxOperations = 4
  NoThread = NoThread
  NoControl = NoControl
  NoProcess = NoProcess
CHECK_DEADLOCK FALSE
SYMMETRY Symmetry
INVARIANTS EntriesSound ServedByOwnConfiguration LatestIsCancellable PoolAtRest

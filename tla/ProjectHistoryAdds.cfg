SPECIFICATION LivenessSpec
CONSTANTS
  Threads = {t1, t2, t3}
  Keys = {k1}
  ControlIds = {}
  Fingerprints = {f1}
  MaxGenerations = 6
  MaxOperations = 3
  NoThread = NoThread
  NoControl = NoControl
  NoProcess = NoProcess
  b1 = b1
  b2 = b2
  j1 = j1
  j3 = j3
  Batches = {b1, b2}
  Jobs = {j1, j3}
  DocumentsOf <- OneEach
  Quota = 1
  AgentWorker = w
  Workers = {w}
  MaxRestarts = 3
  InitialTicks = 1
  MaxTicks = 32
  Triggers = {"Crash", "StartupTimeout", "HeartbeatTimeout"}
  StableTicks = 30
  OnExhausted = "Quarantined"
  Width = 16
  HealthyTicks = {1}
  Calls = {c1, c2}
  ProjectContents <- MCContents
  Torn = Torn
  Absent = Absent
  NoId = NoId
  MaxCommits = 2
  Chats = {a1}
  Providers = {p1, p2}
  ApiKeys = {ak1, ak2}
  NoProvider = NoProvider
  NoKey = NoKey
  Documents <- MCDocuments
  ReasoningKeys = {r1}
  MaxRetries = 1
  MaxRepairs = 1
  MaxOverlap = 3
  MaxCache = 1
  Nothing = Nothing
INVARIANT EveryAdditionIsKept
CHECK_DEADLOCK FALSE

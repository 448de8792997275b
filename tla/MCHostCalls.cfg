SPECIFICATION CallsSpec
CONSTANTS
  Kernel = Kernel
  NativeUI = NativeUI
  Principals = {Kernel, NativeUI, plugin}
  CapabilityNames = {"plugin.surface", "host-bus.lease", "graph.read"}
  Global = Global
  Resources = {}
  BootstrapCapabilities = {"plugin.surface", "host-bus.lease", "graph.read"}
  Operations = {"action", "renew", "query"}
  SurfaceAction = "action"
  LeaseRenew = "renew"
  WorkerOperations = {"query"}
  RequiredCapability <- MCCapability
  RequiredScope <- MCScope
  OperationLimit <- MCLimit
  MaxInflight = 2
  MaxTerminal = 1
  Leases <- MCLeases
  CancelReasons = {}
  t1 = t1
  t2 = t2
  Threads = {t1, t2}
  UIRequests = {1, 2}
  RequestIds = {1, 2, 11, 12}
  WorkerRequest <- MCWorkerRequest
  Budgets = {2}
  MaxTime = 2
  MaxAdmissions = 2
  MaxSequence = 2
  MaxCalls = 2
  b1 = b1
  b2 = b2
  j1 = j1
  j2 = j2
  j3 = j3
  Batches = {b1, b2}
  Jobs = {j1, j2, j3}
  DocumentsOf <- TwoAndOne
  Quota = 1
  AgentWorker = w
  Workers = {w}
  MaxRestarts = 3
  InitialTicks = 1
  MaxTicks = 32
  Triggers = {"Crash", "StartupTimeout", "HeartbeatTimeout"}
  StableTicks = 30
  OnExhausted = "Quarantined"
  Width = 16
  HealthyTicks = {1}
SYMMETRY ThreadSymmetry
INVARIANTS GatewaySound AdmissionsAudited AdmittedWorkerLeasesRevoked JobsSound CheckpointsFollowState CancelStopsEffects
PROPERTIES SettledForGood
CHECK_DEADLOCK FALSE

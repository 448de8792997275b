SPECIFICATION KernelSpec
CONSTANTS
  Principals = {kernel, ui, p1}
  Kernel = kernel
  NativeUI = ui
  CapabilityNames = {"graph.read", "graph.write"}
  BootstrapCapabilities = {"graph.read"}
  Global = Global
  Resources = {paper}
  Operations = {"put", "query"}
  RequiredCapability <- MCCapability
  LeaseIds = {1, 2}
  MaxTime = 1
  BlobOwners = {"ui", "plugin"}
  NativeCaller = "ui"
  BlobWorkspaces = {"w"}
  MediaTypes = {"a", "b"}
  Bytes = {"x"}
  BlobQuota <- MCQuota
  UploadTtl = 1
  ReadTtl = 1
  IdleAfter = 1
  MaxLeases = 3
  MaxBlobClock = 1
  Topics = {"t", "u"}
  Services = {"s1", "s2"}
  Methods = {"m"}
  MaxSubscriptions = 1
  MaxQueue = 2
  MaxServices = 1
  MaxAudit = 2
  ServiceTtl = 1
  SubscriptionTtls = {0, 1, 2}
  MaxSubscribed = 2
  MaxPublished = 3
  MaxRecorded = 3
  MaxHostClock = 2
  RpcIds = {1, 2}
  Contexts = {"c1", "c2"}
  DeadlineOf <- MCDeadline
  LeaseActive <- MCLease
  MaxInflightCalls = 1
  MaxWindowCredits = 2
  Credits = {0, 1, 2, 3}
  MaxRpcClock = 2
  MaxSequence = 3
  SurfaceThreads = {"t1", "t2"}
  SurfaceKeys = {"k", "l"}
  SurfaceActions = {"a", "b", "u"}
  DeclaredFor <- MCDeclared
  ReviewCapability = "review"
  MaxSurfaceSessions = 1
  MaxContinuations = 1
  ContinuationBudget = 2
  MaxChains = 2
  MaxCursors = 2
  MaxSurfaceClock = 2
  Workers = {w1, w2}
  MaxRestarts = 5
  InitialTicks = 1
  MaxTicks = 4
  Triggers = {"Crash", "StartupTimeout", "HeartbeatTimeout"}
  StableTicks = 3
  OnExhausted = "Quarantined"
  Width = 3
  HealthyTicks = {1, 2}
  Spelling <- MCSpelling
  PackagesRead <- MCPackagesRead
  Held = {"key"}
  Variables = {}
  AnalysisCalls <- MCAnalysisCalls
  Requested <- MCRequested
INVARIANTS
  AuthorizationGoesBackToGrant PluginLeasesExpire BlobAccountsExact RecordsInOrder
  StreamsAccounted ContinuationsSound SupervisionSound InstalledSound
PROPERTIES RevokedForGood EndedCallsStay BackoffNeverShrinks
CHECK_DEADLOCK FALSE

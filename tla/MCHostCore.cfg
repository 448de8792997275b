SPECIFICATION HostSpec
CONSTANTS
  Principals = {p1, p2}
  CapabilityNames = {"graph.read"}
  Global = Global
  Resources = {paper}
  Operations = {"put", "query"}
  RequestIds = {1, 2, 3}
  RequiredCapability <- MCCapability
  RequiredScope <- MCScope
  OperationLimit <- MCLimit
  MaxInflight = 2
  MaxTerminal = 1
  Leases <- MCLeases
  CancelReasons = {"CallerRequested"}
  MaxTime = 1
  MaxAdmissions = 2
  c1 = c1
  c2 = c2
  HostCalls = {c1, c2}
  OfferedTo <- MCOffered
  AskedBy <- MCAsked
  UserLeases = {"blob.write"}
INVARIANTS LedgerExact LocksSound AuthorizedCallsRun
PROPERTY EndedOnceForGood
SYMMETRY PrincipalSymmetry
CHECK_DEADLOCK FALSE

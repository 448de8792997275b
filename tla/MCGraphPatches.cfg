SPECIFICATION ProjectGraphSpec
CONSTANTS
  p1 = p1
  p2 = p2
  p3 = p3
  s1 = s1
  s2 = s2
  ProposalIds = {p1, p2, p3}
  Owners = {s1, s2}
  ProjectIds = {j1}
  Items = {n1}
  NoRecord = NoRecord
  NoOwner = NoOwner
  MaxProposals = 2
  MaxReviewed = 1
  ProposalTtl = 1
  ReviewedTtl = 0
  MaxProjects = 1
  Versions = 2
  MaxClock = 1
  MaxRevision = 1
  Projects <- MCProjects
  Scenarios <- MCScenarios
  Depths = {1, 2, 9}
  MaxPaths = 2
  NoScenario = NoScenario
  NoParent = NoParent
  Sketches <- MCSketches
  Geometries <- MCGeometries
  Pins <- MCPins
  NoRoot = NoRoot
  Files <- MCFiles
  Ids = {1, 2, 3, 4}
  Texts = {"text", "text ", "other"}
  Fold <- MCFold
  MaxEdits = 2
  NoArray = NoArray
  NoId = NoId
  NoHash = NoHash
SYMMETRY ProposalSymmetry
INVARIANTS ProposalsSound GraphAnswersSound
PROPERTIES NoLostUpdate CommittedInTime PendingKept
CHECK_DEADLOCK FALSE

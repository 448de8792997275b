SPECIFICATION PluginHostSpec
CONSTANTS
  Packages <- MCPackages
  BuiltinKeys <- MCBuiltin
  FileKeys <- MCFile
  FileKeysParse = TRUE
  MaxCandidates = 2
  PackageJobs = {j1, j2}
  MaxPackageOps = 3
  MaxRestarts = 1
  SettingsKeys = {"p"}
  ManifestsOf <- MCManifestsOf
  Changes <- MCChanges
  Environment <- MCEnvironment
  LongSecrets = {"long"}
  SettingsJobs = {w1, w2}
  MaxSettingsOps = 3
  MaxSettingsRestarts = 1
  CallIds = {1, 2}
  Bodies <- MCBodies
  MaxEvents = 1
  MaxHostCalls = 1
  MaxActive = 2
  MaxCalls = 2
  MaxProcesses = 2
  MaxOpened = 1
  MaxSent = 2
  Texts <- MCTexts
  MaxDelta = 3
  MaxAttempts = 2
  MaxPayload = 3
  MaxProgress = 1
  MaxContent = 4
  Chapters <- MCChapters
  MaxTries = 2
  MaxThoughts = 2
  MaxExtra = 2
  MaxAudit = 2
  Papers <- MCPapers
  ChunkChars = 2
  ContextChars = 3
  SectionChars = 3
  ParagraphBytes = 2
  Asked <- MCAsked
  Files <- MCFiles
  MaxFile <- MCMaxFile
  MaxParts = 3
  MaxPart = 4
  MaxUnpacked = 6
  MaxRatio = 2
  MaxXml = 4
INVARIANT BadPackagesAreSkipped
SYMMETRY HostSymmetry
CHECK_DEADLOCK FALSE

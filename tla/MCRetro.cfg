SPECIFICATION Spec
CONSTANTS
  none = none
  LJProcs = {p1, p2}
  LJRetries = 1
  SSProcs = {p1, p2}
  SSNames = {a, b}
  SWProjects = 2
  SWLogs = {1, 2}
  SWHot = {1}
  SWBudget = 3
  SWChanges = 1
  SWFaults = 1
  SWStarved = 1
  SWNone = none
  TCIds = 3
  TCDays = 2
  TCMaxDays = 1
  TCLookback = 2
  TCMaxLines = 4
  TCWrites = 5
  TCNone = none
  RGSnapshots <- GitSnaps
  RGPushes <- PushRows
  RGLocals <- Locals
  RGSince = 8
  RGUntil = 15
  RGDay = 2
  RGGap = 2
  RGNone = none
  RHRows <- HostRows
  RHFamily <- Family
  RHPromoted = {"muse"}
  RHPrefixed = {"codexmini"}
  RHRegistries <- Registries
  RHSince = 4
  RHUntil = 6
  RHSkew = 1
  RHNone = none
  RSSnapshots <- SessionSnaps
  RSSince = 8
  RSUntil = 14
  RSDay = 8
  RSNoRoot = ""
  RSNone = none
  ECRepos = {e1, e2}
  ECLast = 2
  ECCaptures = 2
  ECCommits = 1
  ECFaults = {}
  ECNone = none
  CXFiles = {1, 2, 3}
  CXDay <- DayOfRollout
  CXTurns <- TurnsOfRollout
  CXStart = 3
  CXEnd = 4
  CXChanges = 2
  CXNone = none
  CLFiles = {1, 2, 3}
  CLTurns = {"a", ""}
  CLAmounts = {1, 2}
  CLRecords = 6
  CLNone = none
  MLLogs = 2
  MLSteps = 2
  MLLastTick = 3
  MLPerDay = 1
  MLEvents = 3
  MLResumed = FALSE
  MLNone = none
INVARIANTS
  TypeOK
  WalkKeepsCounts
  NoCommitSkipped
  CachesAreExact
  LedgersAreExact
  FiguresAreRight
PROPERTIES
  RefinesStore
  NonBlockingCallEnds
  NoHintAfterAck
  WalkConverges
CHECK_DEADLOCK FALSE

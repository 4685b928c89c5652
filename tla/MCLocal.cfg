SPECIFICATION Spec
CONSTANTS
  CUGens = {g1}
  CURuns = {c1}
  CURequest <- Requests
  CUDirs = 1
  CUHooks = {h1}
  CUNone = none
  CULastDay = 2
  CURetention = 1
  CUSpoolMax = 1
  CUAttempts = 1
  CUEvents = 2
  UPProcs = {p1, p2}
  UPVersions = 2
  UPGrace = 1
  UPBackoff = 1
  UPDay = 2
  UPLastTick = 2
  UPNone = none
  SLProcs = {p1, p2}
  SLRows = {a1}
  SLVersions = {1, 2}
  SLRuns = 2
  SLUserSteps = 2
  SLFaults = 1
  SLNone = none
  CRCopies = {s1, s2}
  CRLegacy <- LegacyCopies
  CREdits = 1
  CRPushes = 1
  CRShipped = 1
  CRLast = 3
  CRSkew = 1
  CRAge = 1
  CRFaults = {}
  CRBad = bad
  CRNone = none
  FKMachines = {p1, p2}
  FKSalts = 2
  FKNames = {n1}
  FKInits = 1
  FKFaults = 1
  FKLater = 2
  FKNone = none
  FKJunk = junk
  FKNewer = newer
SYMMETRY Symmetry
INVARIANTS
  TypeOK
  SwapsAreSafe
  GateIsExact
  EditsKept
PROPERTIES
  HistoryKept
  RetryGap
  LinksAreWanted
  KeptIsKept
  FleetKeyIsSafe
CHECK_DEADLOCK FALSE

SPECIFICATION DeviceSpec
CONSTANTS
  p1 = p1
  p2 = p2
  a = a
  b = b
  docs = docs
  events = events
  Absent = Absent
  Big = Big
  Link = Link
  NoManifest = NoManifest
  Paths = {p1, p2}
  Sources = {docs, events}
  SourceOf <- WithEvents
  Internal = {events}
  Shas = {a}
  Mtimes = {1}
  TTL = 1
  PeerDeleted = {}
  Menu = {"write", "delete", "busy", "select", "exclude", "nest", "unmount", "link"}
  MaxEdits = 3
  MaxFaults = 0
  MaxAccepted = 3
  MaxClock = 1
  SCDirs <- TreeDirs
  SCFiles <- TreeFiles
  SCSources <- TreeSources
  SCOrder <- TreeOrder
  SCPolicy = {"dist"}
  SCPlaces <- TreePlaces
  SCEdits = 3
  URReaders <- TwoReaders
  URWarmable = {"codex", "muse"}
  URRuns = 2
  URTouches = 1
  URFaults = 1
  HDWriters = {"push", "self-upgrade"}
  HDRows <- RowsOf
  HDBatch = 2
  HDLimit = 2
  HDOld = 2
  HDFaults = 1
INVARIANTS
  ScopeIsExact
PROPERTIES
  SelectionIsSafe
  OnlyGoneIsDead
  EvidenceIsTrue
CHECK_DEADLOCK FALSE

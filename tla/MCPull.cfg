SPECIFICATION Spec
CONSTANTS
  a = a
  b = b
  doc = doc
  log = log
  Absent = Absent
  Link = Link
  Unknown = Unknown
  NoManifest = NoManifest
  NoFile = NoFile
  NPeers = 1
  Paths = {doc}
  Mergeable = {}
  Texts <- TwoLines
  Mtimes = {1, 2}
  PeerMtimes = {1}
  Now = 2
  Skew = 0
  Modes = {"keep-both"}
  Menu = {"midrun", "crash", "late", "gc", "push", "damage", "link", "fail"}
  MaxEdits = 3
  MaxPubs = 2
  MaxFaults = 1
SYMMETRY Lines
INVARIANTS
  LocalKept
  UnreviewedConflictKept
PROPERTIES
  DeletedStaysDeleted
CHECK_DEADLOCK FALSE

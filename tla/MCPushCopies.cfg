SPECIFICATION Spec
CONSTANTS
  p1 = p1
  p2 = p2
  a = a
  b = b
  docs = docs
  events = events
  Absent = Absent
  Big = Big
  Link = Link
  NoManifest = NoManifest
  Paths = {p1}
  Sources = {docs}
  SourceOf <- Single
  Internal = {}
  Shas = {a, b}
  Mtimes = {1}
  TTL = 1
  PeerDeleted = {}
  Menu = {"write", "delete", "busy", "crash", "corrupt", "vanish", "copy", "late", "gc", "link", "nest", "select", "exclude", "unmount"}
  MaxEdits = 3
  MaxFaults = 2
  MaxAccepted = 4
  MaxClock = 1
PROPERTIES
  DeletionRecordKept
  CollectsOnlyOrphans
CHECK_DEADLOCK FALSE

SPECIFICATION Spec
CONSTANTS
  p1 = p1
  p2 = p2
  a = a
  b = b
  docs = docs
  events = events
  Absent = Absent
  Big = Big
  Link = Link
  NoManifest = NoManifest
  Paths = {p1}
  Sources = {docs}
  SourceOf <- Single
  Internal = {}
  Shas = {a, b}
  Mtimes = {1, 2}
  TTL = 1
  PeerDeleted = {}
  Menu = {"write", "delete", "late", "gc"}
  MaxEdits = 4
  MaxFaults = 1
  MaxAccepted = 4
  MaxClock = 1
INVARIANTS
  PublishedBlobsStored
CHECK_DEADLOCK FALSE

SPECIFICATION FairSpec
CONSTANTS
  p1 = p1
  p2 = p2
  a = a
  b = b
  docs = docs
  events = events
  Absent = Absent
  Big = Big
  Link = Link
  NoManifest = NoManifest
  Paths = {p1}
  Sources = {docs}
  SourceOf <- Single
  Internal = {}
  Shas = {a, b}
  Mtimes = {1, 2}
  TTL = 1
  PeerDeleted = {}
  Menu = {"write", "delete", "crash", "vanish", "gc"}
  MaxEdits = 3
  MaxFaults = 2
  MaxAccepted = 20
  MaxClock = 1
PROPERTIES
  EventuallyPublished
CHECK_DEADLOCK FALSE

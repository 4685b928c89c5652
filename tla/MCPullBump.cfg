SPECIFICATION Spec
CONSTANTS
  a = a
  b = b
  doc = doc
  log = log
  Absent = Absent
  Link = Link
  Unknown = Unknown
  NoManifest = NoManifest
  NoFile = NoFile
  NPeers = 2
  Paths = {doc}
  Mergeable = {}
  Texts <- TwoLines
  Mtimes = {1, 2}
  PeerMtimes = {1, 2}
  Now = 2
  Skew = 0
  Modes = {"prompt"}
  Menu = {}
  MaxEdits = 2
  MaxPubs = 2
  MaxFaults = 0
SYMMETRY Lines
INVARIANTS
  BumpEligible
CHECK_DEADLOCK FALSE

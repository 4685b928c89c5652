SPECIFICATION Spec
CONSTANTS
  a = a
  b = b
  doc = doc
  log = log
  Absent = Absent
  Link = Link
  Unknown = Unknown
  NoManifest = NoManifest
  NoFile = NoFile
  NPeers = 2
  Paths = {doc}
  Mergeable = {}
  Texts <- TwoLines
  Mtimes = {1}
  PeerMtimes = {0, 3, 5}
  Now = 2
  Skew = 2
  Modes = {"prompt", "fail"}
  Menu = {"midrun", "late"}
  MaxEdits = 2
  MaxPubs = 2
  MaxFaults = 0
SYMMETRY Lines
INVARIANTS
  TypeOK
  KeptIsSettled
  LaterPeerVoidsBump
PROPERTIES
  NoSurpriseConflict
CHECK_DEADLOCK FALSE

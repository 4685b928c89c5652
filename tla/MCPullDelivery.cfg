SPECIFICATION LiveSpec
CONSTANTS
  a = a
  b = b
  doc = doc
  log = log
  Absent = Absent
  Link = Link
  Unknown = Unknown
  NoManifest = NoManifest
  NoFile = NoFile
  NPeers = 1
  Paths = {doc, log}
  Mergeable = {log}
  Texts <- TwoLines
  Mtimes = {1}
  PeerMtimes = {1}
  Now = 2
  Skew = 0
  Modes = {"keep-both"}
  Menu = {"copy", "late"}
  MaxEdits = 1
  MaxPubs = 2
  MaxFaults = 0
PROPERTIES
  UndeliveredKept
  EverythingAccounted
CHECK_DEADLOCK FALSE

\* Two missions with different texts, each in one read; nothing fails.
SPECIFICATION Spec
CONSTANTS
  Asserts = TRUE
  Conn = {c1, c2}
  Streams <- TwoMissions
  Cuts = {}
  Residue <- NoResidue
  BufSize = 30
  Disks <- OneDisk
  MayFail = {}
PROPERTY MissionIsSaved
CHECK_DEADLOCK FALSE

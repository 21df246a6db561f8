\* One connection, every request, every cut, junk in memory, failing files.
SPECIFICATION Spec
CONSTANTS
  Asserts = TRUE
  Conn = {c1}
  Streams <- MCRequests
  Cuts <- EveryCut
  Residue <- MCResidue
  BufSize = 21
  Disks <- MCDisks
  MayFail = {"feedback", "mission"}
INVARIANT GetIsServed
INVARIANT AcknowledgedMissionIsWritten
INVARIANT OnlyOtherMethodsIdle
PROPERTY OneReadPostIsExact
PROPERTY OnlyMissionsChangeDisk
PROPERTY ReplyStable
CHECK_DEADLOCK FALSE

\* A parsed request without a body, or of another method, is never answered.
SPECIFICATION LiveSpec
CONSTANTS
  Asserts = TRUE
  Conn = {c1}
  Streams <- UnansweredRequests
  Cuts <- FewCuts
  Residue <- NoResidue
  BufSize = 30
  Disks <- OneDisk
  MayFail = {}
PROPERTY ParsedIsAnswered
CHECK_DEADLOCK FALSE

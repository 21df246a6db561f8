\* Two connections, fair handlers and a network that delivers.
SPECIFICATION LiveSpec
CONSTANTS
  Asserts = TRUE
  Conn = {c1, c2}
  Streams <- FinishedRequests
  Cuts <- FewCuts
  Residue <- NoResidue
  BufSize = 30
  Disks <- OneDisk
  MayFail = {"feedback"}
PROPERTY RequestsFinish
CHECK_DEADLOCK FALSE

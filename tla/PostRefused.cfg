\* A POST in two segments is refused.
SPECIFICATION Spec
CONSTANTS
  Asserts = TRUE
  Conn = {c1}
  Streams <- TwoPosts
  Cuts <- FewCuts
  Residue <- NoResidue
  BufSize = 30
  Disks <- OneDisk
  MayFail = {}
INVARIANT WellFormedPostIsAccepted
CHECK_DEADLOCK FALSE

\* A POST cut in its blank line or its body is acknowledged with another body.
SPECIFICATION Spec
CONSTANTS
  Asserts = TRUE
  Conn = {c1}
  Streams <- TwoPosts
  Cuts <- EveryCut
  Residue <- NoResidue
  BufSize = 30
  Disks <- OneDisk
  MayFail = {}
INVARIANT BodyFollowsBlankLine
CHECK_DEADLOCK FALSE

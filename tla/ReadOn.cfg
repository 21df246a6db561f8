\* A malformed POST whose read ends in a blank line is read on and then accepted.
SPECIFICATION Spec
CONSTANTS
  Asserts = TRUE
  Conn = {c1}
  Streams <- BrokenPosts
  Cuts <- CutBehindBlank
  Residue <- NoResidue
  BufSize = 30
  Disks <- OneDisk
  MayFail = {}
INVARIANT ParsedIsComplete
CHECK_DEADLOCK FALSE

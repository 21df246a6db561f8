\* Two connections and a stop: the life cycle, in every order of events, with
\* fair handlers; the network does what it likes.
SPECIFICATION FairSpec
CONSTANTS
  Asserts = TRUE
  Conn = {c1, c2}
  Streams <- FewRequests
  Cuts <- FewCuts
  Residue <- NoResidue
  BufSize = 30
  Disks <- OneDisk
  MayFail = {"feedback"}
INVARIANT TypeOK
INVARIANT ManagedIsOpen
INVARIANT OneOperation
INVARIANT AcceptOutstanding
PROPERTY StoppedForGood
PROPERTY Implements
PROPERTY StopDrains
CHECK_DEADLOCK FALSE

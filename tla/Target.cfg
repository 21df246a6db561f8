\* Requests one at a time, from the URI to the file.
SPECIFICATION FairSpec
CONSTANTS
  Targets <- MCTargets
  MaxEscaped = 4
  MaxQuery = 5
INVARIANT TypeOK
INVARIANT DecodedExactly
INVARIANT OpenedUnderRoot
INVARIANT QueryReadExactly
INVARIANT TypeFitsName
INVARIANT NeverThrows
PROPERTY HandlerEnds
CHECK_DEADLOCK FALSE

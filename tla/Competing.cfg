\* Two sessions that compete for the port and the file; nothing breaks.
SPECIFICATION FairSpec
CONSTANTS
  Sessions = {s1, s2}
  NoSession = none
  Text <- ShortText
  Junk <- NoJunk
  Size = 4
  MaxLine = 4
  Faults = {}
INVARIANT OnlyBraces
PROPERTY Implements
PROPERTY ClientsNotQueued

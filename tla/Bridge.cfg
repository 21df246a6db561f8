\* One session; reads cut anywhere, junk in memory, a line and a server that fail.
SPECIFICATION FairSpec
CONSTANTS
  Sessions = {s1}
  NoSession = none
  Text <- MCText
  Junk <- MCJunk
  Size = 8
  MaxLine = 8
  Faults = {"unplug", "accept"}
INVARIANT TypeOK
INVARIANT PortHeldWhileReading
INVARIANT OnlyBraces
INVARIANT KindsKeptApart
PROPERTY ReadsEnd

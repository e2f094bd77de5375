SPECIFICATION FairSpec
CONSTANTS
  Viewers = {v1, v2}
  ScrollbackMax = 2
  BroadcastCap = 2
  MaxLines = 3
  MaxRoster = 1
INVARIANTS
  TypeOK
  ExactlyOnce
PROPERTIES
  EveryFrameIsRead
  ImplementsStreamSpec

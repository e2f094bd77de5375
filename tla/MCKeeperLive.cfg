SPECIFICATION FairSpec
CONSTANTS
  Engines = {"cli", "native"}
  Keepers = {k1}
  Conns = {c1, c2}
  NoKeeper = NoKeeper
  QueueCap = 1
  PipeCap = 1
  MaxInFlight = 1
INVARIANTS
  IdleClock
PROPERTIES
  UnviewedIsForgotten
  ForgottenChildExits
  UnreachableActorEnds

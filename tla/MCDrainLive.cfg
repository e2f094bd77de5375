SPECIFICATION FairSpec
CONSTANTS
  Engines = {"cli", "native"}
  Keepers = {k1}
  Conns = {c1, c2}
  NoKeeper = NoKeeper
  QueueCap = 2
  PipeCap = 2
  MaxInFlight = 2
PROPERTIES
  DrainSettles
  StopCompletes

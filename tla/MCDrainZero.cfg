SPECIFICATION Spec
CONSTANTS
  Engines = {"cli", "native"}
  Keepers = {k1}
  Conns = {c1}
  NoKeeper = NoKeeper
  QueueCap = 1
  PipeCap = 1
  MaxInFlight = 1
PROPERTIES
  ZeroIsSafe

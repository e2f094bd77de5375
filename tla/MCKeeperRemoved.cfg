SPECIFICATION Spec
CONSTANTS
  Engines = {"native"}
  Keepers = {k1}
  Conns = {c1, c2}
  NoKeeper = NoKeeper
  QueueCap = 1
  PipeCap = 1
  MaxInFlight = 1
PROPERTIES
  NoTurnAfterRemoval

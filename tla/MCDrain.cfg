SPECIFICATION Spec
CONSTANTS
  Engines = {"cli", "native"}
  Keepers = {k1, k2}
  Conns = {c1, c2}
  NoKeeper = NoKeeper
  QueueCap = 1
  PipeCap = 1
  MaxInFlight = 1
SYMMETRY DrainSymmetry
INVARIANTS
  TypeOK
  StopWaitsForTurns

SPECIFICATION Spec
CONSTANTS
  Engines = {"cli"}
  Keepers = {k1, k2}
  Conns = {c1}
  NoKeeper = NoKeeper
  QueueCap = 1
  PipeCap = 1
  MaxInFlight = 1
SYMMETRY KeeperSymmetry
INVARIANTS
  TypeOK
  NoOrphanProcess
  ViewersCounted

SPECIFICATION Spec
CONSTANTS
  Conns = {c1, c2, c3}
  NoConn = NoConn
  RoomCap = 2
  QueueCap = 1
  MaxKeepers = 2
SYMMETRY Symmetry
INVARIANTS
  TypeOK
  WheelHeldByPresent
  BelievedDriverDrives
PROPERTIES
  SteeredByDriver
  ImplementsRoomSpec

SPECIFICATION FairSpec
CONSTANTS
  Calls = {c1, c2}
  MaxSteps = 2
  MaxRetries = 1
  MaxMessages = 2
  MaxHistory = 3
INVARIANTS
  TypeOK
  RequestsArePaired
  ShownIsStored
PROPERTIES
  TurnEnds

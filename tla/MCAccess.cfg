SPECIFICATION Spec
CONSTANTS
  \* Seats
  Codes = {k1, k2}
  Editors = {e1, e2}
  Browsers = {b1}
  Lives = {1}
  LastSecond = 3
  MaxPause = 1
  \* Guest
  Admins = {o1, o2}
  GuestKeepers = {u1, u2}
  MaxAsked = 2
  MaxPolls = 3
  MaxUnreachable = 2
  SshPolls = 1
  AcpiPolls = 1
SYMMETRY AccessSymmetry
INVARIANTS
  ServedHadCode
  DrainWaitsForTurns

CHECK_DEADLOCK FALSE

SPECIFICATION Spec
CONSTANTS
  Device = {d1, d2}
  Socket = {k1}
  Request = {r1, r2}
  Gc = Gc
  NoDevice = NoDevice
  None = None
  MaxInflight = 1
  MaxSession = 2
CHECK_DEADLOCK FALSE
SYMMETRY Symmetry
INVARIANT InflightBound
PROPERTY OneTrueOutcome

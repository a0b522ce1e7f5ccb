SPECIFICATION FairSpec
CONSTANTS
  Device = {d1}
  Socket = {k1, k2}
  Request = {r1}
  Gc = Gc
  NoDevice = NoDevice
  None = None
  MaxInflight = 1
  MaxSession = 2
CHECK_DEADLOCK FALSE
INVARIANT TypeOK
INVARIANT WaitingIsPending
INVARIANT SlotsAreReleased
INVARIANT RegisteredWhileOpen
INVARIANT ClosedIsUnregistered
PROPERTY ImplementsRequestReply

SPECIFICATION Spec
CONSTANTS
  Push = {u1, u2}
  Pull = {g1}
  Chunk = {i1, i2}
  Handler = {h1, h2}
  None = None
  Torn = Torn
  MaxTime = 2
SYMMETRY Symmetry
INVARIANT TypeOK
INVARIANT CompleteBeforeBroadcast
INVARIANT CompletedIsDurable
INVARIANT AnnouncedIsReadable

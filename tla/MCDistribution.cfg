SPECIFICATION DistSpec
CONSTANTS
  Client = {c1, c2}
  Key = {k1, k2}
  Info = {i1}
  Reachable = {i1}
  FileRequests = 2
  Token = {0}
  Handler = {h1, h2}
  Task = {t1}
  Paste = {1}
  Hung = {}
  NoClient = NoClient
  NoKey = NoKey
  NoInfo = NoInfo
  TTL = 0
  MaxTime = 0
  StatementsFail = FALSE
SYMMETRY Symmetry
CONSTRAINT OneClientAtATime
VIEW View
INVARIANT DistTypeOK
INVARIANT NobodyForgotten
PROPERTY RemovedGetsNothing
PROPERTY MessagesUseSettledKey

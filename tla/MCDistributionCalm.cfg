SPECIFICATION Calm
CONSTANTS
  Client = {c1, c2, c3}
  Key = {k1, k2}
  Info = {i1, i2}
  Reachable = {i1}
  FileRequests = 3
  Token = {0, 1}
  Handler = {h1}
  Task = {t1}
  Paste = {1}
  Hung = {c2}
  NoClient = NoClient
  NoKey = NoKey
  NoInfo = NoInfo
  TTL = 0
  MaxTime = 0
  StatementsFail = TRUE
INVARIANT SentToRightClient
PROPERTY DistributionsEnd
